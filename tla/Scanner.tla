-------------------------------- MODULE Scanner --------------------------------
(***************************************************************************)
(* A scan of a directory tree (internal/scanner/scanner.go): filepath.Walk *)
(* visits the tree and submits one task for every file that is not         *)
(* ignored; the workers of the Pool hash the file, look it up in the       *)
(* cache of processed files (internal/cache/cache.go), publish a message   *)
(* and mark it in the cache; at the end the pool is stopped and the cache  *)
(* saved.  Scans follow each other, in one process (`--every`) or in       *)
(* several, and files change while they run.                               *)
(*                                                                         *)
(* The context of a scan is cancelled by runScanner only when it returns,  *)
(* after the scan: the walk's test of it never succeeds and is left out.   *)
(***************************************************************************)
EXTENDS Pool

CONSTANTS
  Tree,          \* the entries under the root, in the order of the walk
  Contents,      \* what a file may hold; stands for its hash and its size
  NoContent,
  IgnoreHidden,  \* ignoreHidden: TRUE unless the user says otherwise
  MaxScans,      \* model bound
  MaxFaults      \* model bound: changes, failures, losses and crashes

Entry == [kind : {"dir", "file", "other"}, depth : Nat,
          name : {"plain", "dot", "hidden"},
          ignored : BOOLEAN,  \* in ignoredDirectories or ignoredFiles
          matched : BOOLEAN]  \* by a pattern of the ignore list

ASSUME ScannerAssumption ==
  /\ Tree \in Seq(Entry) /\ Tree # <<>>
  /\ Tasks = {i \in DOMAIN Tree : Tree[i].kind = "file"}
  /\ Cancels = {}  \* a task returns nil or an error of its own
  /\ Cardinality(Workers) = NumWorkers * Starts
  /\ NoContent \notin Contents
  /\ IgnoreHidden \in BOOLEAN
  /\ MaxScans \in Nat /\ MaxFaults \in Nat

VARIABLES
  \* the file system
  content,  \* of every file
  gone,     \* entries the scan cannot access: removed since, or forbidden
  \* the walk
  scan, at, count, walkErr,
  seen,     \* the FileInfo the walk got: it decides the size in the message
  \* the tasks
  step, hashed,
  unread,   \* files of this scan whose hash could not be computed
  \* the cache: in memory, on disk, and the other caches of this process that
  \* write the same file, which nobody ever closes
  cache, disk, others,
  \* the stream
  queued,   \* messages published
  lost,     \* history: files whose publication failed, with an error logged
  had,      \* history: what every file contained since the scan began
  scans, faults

fileVars    == <<content, gone, had>>
walkVars    == <<scan, at, count, walkErr, seen>>
taskVars    == <<step, hashed, unread>>
cacheVars   == <<cache, disk, others>>
streamVars  == <<queued, lost>>
boundVars   == <<scans, faults>>
scannerVars == <<poolVars, fileVars, walkVars, taskVars, cacheVars, streamVars,
                 boundVars>>

-----------------------------------------------------------------------------
Key     == [file : Tasks, hash : Contents]
Message == [file : Tasks, size : Contents, hash : Contents]

(* createCacheKey: the absolute path and the hash. *)
KeyOf(w) == [file |-> worker[w], hash |-> hashed[w]]

(* The message carries the hash of now and the size of when the walk was
   there. *)
MessageOf(w) == [file |-> worker[w], size |-> seen[worker[w]], hash |-> hashed[w]]

Queued(k) == \E m \in queued : m.file = k.file /\ m.hash = k.hash

(* The directories whose subtree the walk skips (filepath.SkipDir). *)
SkipsDir(e) ==
  /\ e.kind = "dir"
  /\ (IgnoreHidden /\ e.name = "hidden") \/ e.ignored

(* The files for which a task is submitted.  A name of one dot is hidden as
   a file and not as a directory; the ignore list is only for files. *)
Selected(e) ==
  /\ e.kind = "file"
  /\ ~(IgnoreHidden /\ e.name # "plain")
  /\ ~e.ignored
  /\ ~e.matched

(* Mutant of AfterSubtree: SkipDir leaves out the rest of the parent too. *)
AfterParent(i) ==
  CHOOSE j \in (i + 1)..(Len(Tree) + 1) :
    /\ j = Len(Tree) + 1 \/ Tree[j].depth < Tree[i].depth
    /\ \A k \in (i + 1)..(j - 1) : Tree[k].depth >= Tree[i].depth

(* Where the walk goes on after an entry whose subtree is skipped. *)
AfterSubtree(i) ==
  CHOOSE j \in (i + 1)..(Len(Tree) + 1) :
    /\ j = Len(Tree) + 1 \/ Tree[j].depth <= Tree[i].depth
    /\ \A k \in (i + 1)..(j - 1) : Tree[k].depth > Tree[i].depth

ScannerTypeOK ==
  /\ PoolTypeOK
  /\ content \in [Tasks -> Contents]
  /\ gone \subseteq DOMAIN Tree
  /\ scan \in {"off", "walking", "stopping", "ended"}
  /\ at \in 1..(Len(Tree) + 1) /\ count \in 0..Len(Tree) /\ walkErr \in BOOLEAN
  /\ seen \in [Tasks -> Contents \cup {NoContent}]
  /\ step \in [Workers -> {"none", "hash", "check", "publish", "mark", "end"}]
  /\ hashed \in [Workers -> Contents \cup {NoContent}]
  /\ unread \subseteq Tasks
  /\ cache \subseteq Key /\ disk \subseteq Key /\ others \subseteq SUBSET Key
  /\ queued \subseteq Message /\ lost \subseteq Key
  /\ had \in [Tasks -> SUBSET Contents]
  /\ scans \in 0..MaxScans /\ faults \in 0..MaxFaults

ScannerInit ==
  /\ PoolInit
  /\ content \in [Tasks -> Contents]
  /\ gone = {} /\ had = [t \in Tasks |-> {}]
  /\ scan = "off" /\ at = 1 /\ count = 0 /\ walkErr = FALSE
  /\ seen = [t \in Tasks |-> NoContent]
  /\ step = [w \in Workers |-> "none"]
  /\ hashed = [w \in Workers |-> NoContent]
  /\ unread = {}
  /\ cache = {} /\ disk = {} /\ others = {}
  /\ queued = {} /\ lost = {}
  /\ scans = 0 /\ faults = 0

-----------------------------------------------------------------------------
(* What a process forgets when it starts a scan, or ends. *)
Reset ==
  /\ queue' = <<>> /\ closed' = FALSE /\ stopped' = FALSE
  /\ submitted' = {} /\ finished' = {}
  /\ at' = 1 /\ count' = 0 /\ walkErr' = FALSE
  /\ seen' = [t \in Tasks |-> NoContent]
  /\ step' = [w \in Workers |-> "none"]
  /\ hashed' = [w \in Workers |-> NoContent]
  /\ unread' = {}

(* runScanner, in a new process or again in the same one: a new pool, started,
   and a new FileCache loaded from the file.  NewDirectoryScanner makes a
   second one on the default path, which is the path of the configuration
   unless that names another; nothing is ever marked in it. *)
StartScan ==
  /\ scan \in {"off", "ended"} /\ scans < MaxScans
  /\ scans' = scans + 1
  /\ scan' = "walking"
  /\ Reset
  /\ worker' = [w \in Workers |-> Idle] /\ starts' = Starts
  /\ cache' = disk
  /\ others' = (IF scan = "ended" THEN others \cup {cache} ELSE {}) \cup {disk}
  /\ gone' = {} /\ had' = [t \in Tasks |-> {content[t]}]
  /\ UNCHANGED <<content, disk, streamVars, faults>>

(* The walk reaches an entry it cannot access: its callback returns the error
   and that ends the walk. *)
VisitInaccessible ==
  /\ scan = "walking" /\ at <= Len(Tree) /\ at \in gone
  /\ walkErr' = TRUE
  /\ scan' = "stopping"
  /\ UNCHANGED <<poolVars, fileVars, at, count, seen, taskVars, cacheVars,
                 streamVars, boundVars>>

(* The walk's callback for an entry that is not scanned. *)
VisitSkipped ==
  /\ scan = "walking" /\ at <= Len(Tree) /\ at \notin gone
  /\ ~Selected(Tree[at])
  /\ count' = count + 1
  /\ at' = IF SkipsDir(Tree[at]) THEN AfterSubtree(at) ELSE at + 1
  /\ UNCHANGED <<poolVars, fileVars, scan, walkErr, seen, taskVars, cacheVars,
                 streamVars, boundVars>>

(* The walk's callback for a file to scan; it waits for room in the pool. *)
VisitFile ==
  /\ scan = "walking" /\ at <= Len(Tree) /\ at \notin gone
  /\ Selected(Tree[at])
  /\ Submit(at)
  /\ seen' = [seen EXCEPT ![at] = content[at]]
  /\ count' = count + 1
  /\ at' = at + 1
  /\ UNCHANGED <<fileVars, scan, walkErr, taskVars, cacheVars, streamVars,
                 boundVars>>

WalkEnd ==
  /\ scan = "walking" /\ at > Len(Tree)
  /\ scan' = "stopping"
  /\ UNCHANGED <<poolVars, fileVars, at, count, walkErr, seen, taskVars,
                 cacheVars, streamVars, boundVars>>

(* The deferred function of ScanDirectory: Stop and Save, also after an error
   of the walk. *)
StopPool ==
  /\ scan = "stopping"
  /\ Close \/ StopReturn
  /\ UNCHANGED <<fileVars, walkVars, taskVars, cacheVars, streamVars, boundVars>>

(* FileCache.Save, of which an error is only logged. *)
SaveCache ==
  /\ scan = "stopping" /\ stopped
  /\ \/ disk' = cache /\ UNCHANGED faults
     \/ /\ faults < MaxFaults
        /\ faults' = faults + 1
        /\ UNCHANGED disk
  /\ scan' = "ended"
  /\ UNCHANGED <<poolVars, fileVars, at, count, walkErr, seen, taskVars, cache,
                 others, streamVars, scans>>

-----------------------------------------------------------------------------
TakeTask(w) ==
  /\ Take(w)
  /\ step' = [step EXCEPT ![w] = "hash"]
  /\ UNCHANGED <<fileVars, walkVars, hashed, unread, cacheVars, streamVars,
                 boundVars>>

(* ComputeFileHash; an error ends the task, and only the log says so. *)
HashFile(w) ==
  /\ step[w] = "hash"
  /\ \/ /\ worker[w] \notin gone
        /\ hashed' = [hashed EXCEPT ![w] = content[worker[w]]]
        /\ step' = [step EXCEPT ![w] = "check"]
        /\ UNCHANGED unread
     \/ /\ worker[w] \in gone
        /\ unread' = unread \cup {worker[w]}
        /\ step' = [step EXCEPT ![w] = "end"]
        /\ UNCHANGED hashed
  /\ UNCHANGED <<poolVars, fileVars, walkVars, cacheVars, streamVars, boundVars>>

(* Mutant of Processed: the path alone is the key. *)
ProcessedPath(k) == \E c \in cache : c.file = k.file

Processed(k) == k \in cache

(* IsFileProcessed *)
CheckCache(w) ==
  /\ step[w] = "check"
  /\ step' = [step EXCEPT ![w] = IF Processed(KeyOf(w)) THEN "end" ELSE "publish"]
  /\ UNCHANGED <<poolVars, fileVars, walkVars, hashed, unread, cacheVars,
                 streamVars, boundVars>>

(* processor.Process, and an error of it is only logged.  The message may be
   in the stream although PublishMsg reports an error: its answer was late. *)
PublishMsg(w, failed, arrived) ==
  /\ step[w] = "publish"
  /\ failed \/ arrived
  /\ queued' = IF arrived THEN queued \cup {MessageOf(w)} ELSE queued
  /\ IF failed
       THEN /\ faults < MaxFaults /\ faults' = faults + 1
            /\ lost' = lost \cup {KeyOf(w)}
       ELSE UNCHANGED <<faults, lost>>
  /\ step' = [step EXCEPT ![w] = "mark"]
  /\ UNCHANGED <<poolVars, fileVars, walkVars, hashed, unread, cacheVars, scans>>

PublishFile(w) == \E failed, arrived \in BOOLEAN : PublishMsg(w, failed, arrived)

(* Mutant of Marked: what is on disk now is what gets marked. *)
MarkedNow(w) == cache \cup {[file |-> worker[w], hash |-> content[worker[w]]]}

Marked(w) == cache \cup {KeyOf(w)}

(* MarkFileProcessed, whether or not the publication succeeded. *)
MarkFile(w) ==
  /\ step[w] = "mark"
  /\ cache' = Marked(w)
  /\ step' = [step EXCEPT ![w] = "end"]
  /\ UNCHANGED <<poolVars, fileVars, walkVars, hashed, unread, disk, others,
                 streamVars, boundVars>>

EndTask(w) ==
  /\ step[w] = "end"
  /\ FinishTask(w)
  /\ step' = [step EXCEPT ![w] = "none"]
  /\ hashed' = [hashed EXCEPT ![w] = NoContent]
  /\ UNCHANGED <<fileVars, walkVars, unread, cacheVars, streamVars, boundVars>>

LeavePool(w) ==
  /\ ExitOnClose(w)
  /\ UNCHANGED <<fileVars, walkVars, taskVars, cacheVars, streamVars, boundVars>>

-----------------------------------------------------------------------------
(* The goroutine of NewFileCache saves the cache every 30 seconds... *)
SaveTick ==
  /\ scan # "off"
  /\ disk' = cache
  /\ UNCHANGED <<poolVars, fileVars, walkVars, taskVars, cache, others,
                 streamVars, boundVars>>

(* ...and so does the one of every other FileCache of the process, with what
   that one holds: its context is never cancelled. *)
StaleTick ==
  /\ scan # "off"
  /\ disk' \in others
  /\ UNCHANGED <<poolVars, fileVars, walkVars, taskVars, cache, others,
                 streamVars, boundVars>>

(* fastcache drops entries when it is full, and takes a file that it cannot
   read for an empty one. *)
CacheLoss ==
  /\ scan # "off" /\ faults < MaxFaults
  /\ faults' = faults + 1
  /\ \/ \E k \in cache : cache' = cache \ {k} /\ UNCHANGED disk
     \/ disk # {} /\ disk' = {} /\ UNCHANGED cache
  /\ UNCHANGED <<poolVars, fileVars, walkVars, taskVars, others, streamVars, scans>>

(* The process ends, after a scan or in the middle of it. *)
ProcessEnd ==
  /\ scan # "off"
  /\ IF scan = "ended" THEN UNCHANGED faults
     ELSE faults < MaxFaults /\ faults' = faults + 1
  /\ scan' = "off"
  /\ Reset
  /\ worker' = [w \in Workers |-> NotStarted] /\ starts' = 0
  /\ cache' = {} /\ others' = {}
  /\ UNCHANGED <<fileVars, disk, streamVars, scans>>

(* A file is written, or an entry removed or made inaccessible. *)
FileChange ==
  /\ faults < MaxFaults /\ scan \in {"walking", "stopping"}
  /\ faults' = faults + 1
  /\ \/ \E t \in Tasks, c \in Contents :
          /\ c # content[t]
          /\ content' = [content EXCEPT ![t] = c]
          /\ had' = [had EXCEPT ![t] = @ \cup {c}]
          /\ UNCHANGED gone
     \/ /\ \E i \in DOMAIN Tree \ gone : gone' = gone \cup {i}
        /\ UNCHANGED <<content, had>>
  /\ UNCHANGED <<poolVars, walkVars, taskVars, cacheVars, streamVars, scans>>

-----------------------------------------------------------------------------
(* A worker's steps that the stream takes no part in. *)
LocalStep(w) ==
  \/ TakeTask(w) \/ HashFile(w) \/ CheckCache(w)
  \/ MarkFile(w) \/ EndTask(w) \/ LeavePool(w)

TaskStep(w) == LocalStep(w) \/ PublishFile(w)

WalkStep ==
  VisitInaccessible \/ VisitSkipped \/ VisitFile \/ WalkEnd \/ StopPool \/ SaveCache

(* What happens around the tasks. *)
ProcessStep ==
  \/ StartScan
  \/ WalkStep
  \/ SaveTick \/ StaleTick \/ CacheLoss
  \/ ProcessEnd
  \/ FileChange

ScannerNext == ProcessStep \/ \E w \in Workers : TaskStep(w)

ScannerSpec == ScannerInit /\ [][ScannerNext]_scannerVars

(* Goroutines that can run do. *)
FairScannerSpec ==
  /\ ScannerSpec
  /\ WF_scannerVars(WalkStep)
  /\ \A w \in Workers : WF_scannerVars(TaskStep(w))

-----------------------------------------------------------------------------
(* The entries below directories that are skipped, and the others. *)
Below(i) == {j \in DOMAIN Tree :
               j > i /\ \A k \in (i + 1)..j : Tree[k].depth > Tree[i].depth}
Reached  == {j \in DOMAIN Tree :
               \A i \in DOMAIN Tree : SkipsDir(Tree[i]) => j \notin Below(i)}

(* The files a user expects to be scanned: not ignored themselves and in no
   directory that is. *)
Expected ==
  {i \in Reached : Tree[i].kind = "file" /\ ~Tree[i].ignored /\ ~Tree[i].matched
                     /\ (Tree[i].name = "plain" \/ ~IgnoreHidden)}

(* What the file contained at some time of the scan has been published, or
   the log names the file. *)
Announced(t) ==
  t \in unread \/ \E c \in had[t] : \E k \in Key :
    k = [file |-> t, hash |-> c] /\ (Queued(k) \/ k \in lost)

(* When a scan is over, every file that was submitted has been dealt with,
   even if the walk stopped at an error; and if it did not, these are exactly
   the files that should be scanned and the count is that of the entries
   outside skipped directories. *)
ScanComplete ==
  scan = "ended" =>
    /\ \A t \in submitted : Announced(t)
    /\ ~walkErr => submitted = Expected /\ count = Cardinality(Reached)

(* A cache key stands for a file, with exactly those contents, that was
   published or whose failed publication was logged, in memory and on disk,
   across crashes: nothing else is skipped by later scans. *)
CacheSound ==
  \A k \in cache \cup disk \cup UNION others : Queued(k) \/ k \in lost

(* Every scan ends: no worker and no Submit waits for ever, whatever happens
   to the files. *)
ScanEnds == scan = "walking" ~> scan \in {"ended", "off"}

(* "IsFileProcessed checks if a file has been processed before" (cache.go):
   a file in the cache has been handed to the stream. *)
CachedImpliesQueued == \A k \in cache : Queued(k)
=============================================================================
