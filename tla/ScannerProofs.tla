---------------------------- MODULE ScannerProofs ----------------------------
(***************************************************************************)
(* What holds of every scan, for any tree, any number of workers, scans,   *)
(* changes of files, failures and crashes.  The pool is the one of Pool:   *)
(* every step of a scan is a step of the pool or leaves it alone, until    *)
(* the next scan makes a new one.                                          *)
(***************************************************************************)
EXTENDS Scanner, PoolProofs, DataProofs

USE PoolAssumption DEF PoolAssumption

(* A worker's step and its task go together; what it has hashed is contents,
   and so is what the walk saw of a file that was submitted. *)
TaskSteps ==
  /\ \A w \in Workers : worker[w] \in Tasks <=> step[w] # "none"
  /\ \A w \in Workers :
       step[w] \in {"check", "publish", "mark"} => hashed[w] \in Contents
  /\ \A t \in submitted : seen[t] \in Contents

(* The walk counts every entry at most once. *)
CountBelow == count < at

Typed == ScannerTypeOK /\ OnlySubmitted /\ TaskSteps /\ CountBelow

(* The facts about the tree and the bounds that the proofs use. *)
LEMMA TreeFacts ==
  /\ Len(Tree) \in Nat \ {0} /\ DOMAIN Tree = 1..Len(Tree)
  /\ \A i \in DOMAIN Tree : Tree[i].depth \in Nat
  /\ Tasks = {i \in DOMAIN Tree : Tree[i].kind = "file"}
  /\ MaxScans \in Nat /\ MaxFaults \in Nat
<1>1. Tree \in Seq(Entry) /\ Tree # <<>>
  BY ScannerAssumption DEF ScannerAssumption
<1>2. Len(Tree) \in Nat \ {0} /\ DOMAIN Tree = 1..Len(Tree)
  BY <1>1
<1>3. \A i \in DOMAIN Tree : Tree[i] \in Entry
  BY <1>1
<1>4. \A e \in Entry : e.depth \in Nat
  BY DEF Entry
<1> QED
  BY <1>2, <1>3, <1>4, ScannerAssumption DEF ScannerAssumption

(* The walk goes on behind the whole subtree, and nowhere later. *)
LEMMA SubtreeSkipped ==
  ASSUME NEW i \in DOMAIN Tree
  PROVE  /\ AfterSubtree(i) \in (i + 1)..(Len(Tree) + 1)
         /\ AfterSubtree(i) # Len(Tree) + 1 =>
              Tree[AfterSubtree(i)].depth <= Tree[i].depth
         /\ \A k \in (i + 1)..(AfterSubtree(i) - 1) :
              Tree[k].depth > Tree[i].depth
<1> DEFINE Ends == {j \in (i + 1)..(Len(Tree) + 1) :
                      j = Len(Tree) + 1 \/ Tree[j].depth <= Tree[i].depth}
<1>1. /\ i \in 1..Len(Tree) /\ Len(Tree) \in Nat
      /\ \A k \in 1..Len(Tree) : Tree[k].depth \in Nat
  BY TreeFacts
<1>2. Ends \subseteq Nat /\ Len(Tree) + 1 \in Ends
  BY <1>1
<1>3. PICK j \in Ends : \A k \in Ends : j <= k
  <2> HIDE DEF Ends
  <2> QED
    BY <1>2, LeastElement
<1>4. \A k \in (i + 1)..(j - 1) : Tree[k].depth > Tree[i].depth
  <2> SUFFICES ASSUME NEW k \in (i + 1)..(j - 1)
               PROVE  Tree[k].depth > Tree[i].depth
    OBVIOUS
  <2>1. k \in (i + 1)..Len(Tree) /\ k < j
    BY <1>1, <1>3
  <2>2. k \notin Ends
    BY <1>1, <1>3, <2>1
  <2> QED
    BY <1>1, <2>1, <2>2
<1>5. \E e \in (i + 1)..(Len(Tree) + 1) :
        /\ e = Len(Tree) + 1 \/ Tree[e].depth <= Tree[i].depth
        /\ \A k \in (i + 1)..(e - 1) : Tree[k].depth > Tree[i].depth
  BY <1>3, <1>4
<1> HIDE DEF Ends
<1> QED
  BY <1>5 DEF AfterSubtree

-----------------------------------------------------------------------------
(* What a step of a scan is for the pool. *)
PoolAnew ==
  /\ queue' = <<>> /\ closed' = FALSE /\ stopped' = FALSE
  /\ submitted' = {} /\ finished' = {}
  /\ \E v \in {Idle, NotStarted} : worker' = [w \in Workers |-> v]
  /\ starts' \in {0, Starts}
  /\ starts' = Starts => \A w \in Workers : worker'[w] = Idle

(* What each action of Scanner is to its pool. *)
LEMMA PoolSteps ==
  ASSUME ScannerTypeOK
  PROVE  /\ StartScan \/ ProcessEnd => PoolAnew
         /\ VisitFile => Submit(at) /\ at \in Tasks
         /\ StopPool => Close \/ StopReturn
         /\ \A w \in Workers :
              /\ TakeTask(w) => Take(w)
              /\ EndTask(w) => FinishTask(w)
              /\ LeavePool(w) => ExitOnClose(w)
              /\ HashFile(w) \/ CheckCache(w) \/ PublishFile(w) \/ MarkFile(w) =>
                   UNCHANGED poolVars
         /\ VisitInaccessible \/ VisitSkipped \/ WalkEnd \/ SaveCache =>
              UNCHANGED poolVars
         /\ SaveTick \/ StaleTick \/ CacheLoss \/ FileChange => UNCHANGED poolVars
<1>1. StartScan \/ ProcessEnd => PoolAnew
  BY DEF StartScan, ProcessEnd, Reset, PoolAnew
<1>2. VisitFile => Submit(at) /\ at \in Tasks
  BY TreeFacts DEF VisitFile, Selected, ScannerTypeOK
<1> QED
  BY <1>1, <1>2 DEF StopPool, TakeTask, EndTask, LeavePool, HashFile, CheckCache,
     PublishFile, PublishMsg, MarkFile, VisitInaccessible, VisitSkipped, WalkEnd,
     SaveCache, SaveTick, StaleTick, CacheLoss, FileChange

(* A scanner has workers. *)
LEMMA WorkersExist == Workers # {}
<1>1. Cardinality(Workers) = NumWorkers * Starts
  BY ScannerAssumption DEF ScannerAssumption
<1>2. NumWorkers * Starts # 0
  OBVIOUS
<1> QED
  BY <1>1, <1>2, FS_EmptySet

(* A pool that is made anew is in order. *)
LEMMA AnewIsSound ==
  ASSUME PoolAnew
  PROVE  PoolTypeOK' /\ OnlySubmitted' /\ NoneLost' /\ WorkersStay'
<1>1. PoolTypeOK'
  <2>1. queue' \in Seq(Tasks) /\ Len(queue') = 0
    BY DEF PoolAnew
  <2>2. worker' \in [Workers -> Tasks \cup {NotStarted, Idle, Exited}]
    BY DEF PoolAnew
  <2>3. starts' \in 0..Starts
    BY DEF PoolAnew
  <2>4. Len(queue') <= Capacity
    BY <2>1
  <2> QED
    BY <2>1, <2>2, <2>3, <2>4, Zenon DEF PoolAnew, PoolTypeOK
<1>2. OnlySubmitted'
  <2>1. \A t \in Tasks : ~Waiting(t)' /\ ~Doing(t)'
    BY DEF PoolAnew, Waiting, Doing
  <2> QED
    BY <2>1 DEF OnlySubmitted
<1>3. NoneLost'
  BY DEF PoolAnew, NoneLost
<1>4. WorkersStay'
  BY WorkersExist DEF PoolAnew, WorkersStay
<1> QED
  BY <1>1, <1>2, <1>3, <1>4

(* Every step of Scanner is one of its pool, or makes another pool. *)
LEMMA ScanStepsThePool ==
  ASSUME ScannerTypeOK, [ScannerNext]_scannerVars
  PROVE  PoolAnew \/ [PoolNext]_poolVars
<1>1. CASE UNCHANGED scannerVars
  BY <1>1 DEF scannerVars
<1>2. CASE StartScan \/ ProcessEnd
  BY <1>2, PoolSteps
<1>3. CASE VisitFile \/ StopPool
  BY <1>3, PoolSteps DEF PoolNext
<1>4. CASE \/ VisitInaccessible \/ VisitSkipped \/ WalkEnd \/ SaveCache
           \/ SaveTick \/ StaleTick \/ CacheLoss \/ FileChange
  <2>1. UNCHANGED poolVars
    BY <1>4, PoolSteps
  <2> QED
    BY <2>1
<1>5. ASSUME NEW w \in Workers, TaskStep(w)
      PROVE  [PoolNext]_poolVars
  BY <1>5, PoolSteps DEF TaskStep, LocalStep, PoolNext, WorkerStep
<1> QED
  BY <1>1, <1>2, <1>3, <1>4, <1>5 DEF ScannerNext, ProcessStep, WalkStep

-----------------------------------------------------------------------------
(* What one step of a scan does to types, by the parts of the state. *)
LEMMA TaskStepsKept ==
  ASSUME Typed, [ScannerNext]_scannerVars
  PROVE  TaskSteps'
<1> USE DEF Typed, ScannerTypeOK, PoolTypeOK
<1>1. CASE UNCHANGED scannerVars
  BY <1>1 DEF scannerVars, poolVars, taskVars, walkVars, TaskSteps
<1>2. CASE StartScan \/ ProcessEnd
  BY <1>2 DEF StartScan, ProcessEnd, Reset, TaskSteps
<1>3. CASE VisitFile
  <2>1. at \in Tasks
    BY <1>3, PoolSteps
  <2>2. /\ submitted' = submitted \cup {at} /\ seen' = [seen EXCEPT ![at] = content[at]]
        /\ UNCHANGED <<worker, step, hashed>>
    BY <1>3 DEF VisitFile, Submit, taskVars
  <2>3. content[at] \in Contents
    BY <2>1
  <2> QED
    BY <2>1, <2>2, <2>3 DEF TaskSteps
<1>4. CASE \/ VisitInaccessible \/ VisitSkipped \/ WalkEnd \/ StopPool \/ SaveCache
           \/ SaveTick \/ StaleTick \/ CacheLoss \/ FileChange
  <2>1. UNCHANGED <<worker, submitted, seen, step, hashed>>
    BY <1>4 DEF VisitInaccessible, VisitSkipped, WalkEnd, StopPool, Close, StopReturn,
       SaveCache, SaveTick, StaleTick, CacheLoss, FileChange, poolVars, walkVars,
       taskVars
  <2> QED
    BY <2>1 DEF TaskSteps
<1>5. ASSUME NEW w \in Workers, TaskStep(w)
      PROVE  TaskSteps'
  <2>1. UNCHANGED <<submitted, seen>>
    BY <1>5 DEF TaskStep, LocalStep, TakeTask, HashFile, CheckCache, PublishFile,
       PublishMsg, MarkFile, EndTask, LeavePool, Take, FinishTask, ExitOnClose,
       poolVars, walkVars
  <2>2. CASE TakeTask(w)
    BY <2>1, <2>2 DEF TakeTask, Take, TaskSteps
  <2>3. CASE HashFile(w)
    <3>1. worker[w] \in Tasks /\ worker' = worker
      BY <2>3 DEF HashFile, poolVars, TaskSteps
    <3> QED
      BY <2>1, <2>3, <3>1 DEF HashFile, TaskSteps
  <2>4. CASE CheckCache(w) \/ PublishFile(w) \/ MarkFile(w)
    <3>1. /\ step[w] \in {"check", "publish", "mark"}
          /\ \E s \in {"end", "publish", "mark"} : step' = [step EXCEPT ![w] = s]
          /\ UNCHANGED <<worker, hashed>>
      BY <2>4 DEF CheckCache, PublishFile, PublishMsg, MarkFile, poolVars
    <3> QED
      BY <2>1, <3>1 DEF TaskSteps
  <2>5. CASE EndTask(w)
    BY <2>1, <2>5 DEF EndTask, FinishTask, TaskSteps
  <2>6. CASE LeavePool(w)
    BY <2>1, <2>6 DEF LeavePool, ExitOnClose, taskVars, TaskSteps
  <2> QED
    BY <1>5, <2>2, <2>3, <2>4, <2>5, <2>6 DEF TaskStep, LocalStep
<1> QED
  BY <1>1, <1>2, <1>3, <1>4, <1>5 DEF ScannerNext, ProcessStep, WalkStep

(* The position of the walk and its count stay in the tree. *)
LEMMA WalkTypesKept ==
  ASSUME Typed, [ScannerNext]_scannerVars
  PROVE  /\ scan' \in {"off", "walking", "stopping", "ended"}
         /\ at' \in 1..(Len(Tree) + 1) /\ count' \in 0..Len(Tree) /\ walkErr' \in BOOLEAN
         /\ seen' \in [Tasks -> Contents \cup {NoContent}]
         /\ CountBelow'
<1> USE DEF Typed, ScannerTypeOK, CountBelow
<1>0. Len(Tree) \in Nat \ {0} /\ DOMAIN Tree = 1..Len(Tree)
  BY TreeFacts
<1>1. CASE UNCHANGED scannerVars
  BY <1>1 DEF scannerVars, walkVars
<1>2. CASE StartScan \/ ProcessEnd
  <2>1. /\ scan' \in {"off", "walking"} /\ at' = 1 /\ count' = 0 /\ walkErr' = FALSE
        /\ seen' = [t \in Tasks |-> NoContent]
    BY <1>2 DEF StartScan, ProcessEnd, Reset
  <2>2. at' \in 1..(Len(Tree) + 1) /\ count' \in 0..Len(Tree) /\ count' < at'
    BY <1>0, <2>1
  <2>3. seen' \in [Tasks -> Contents \cup {NoContent}]
    BY <2>1
  <2> QED
    BY <2>1, <2>2, <2>3
<1>3. CASE VisitSkipped
  <2>1. /\ at \in DOMAIN Tree /\ count' = count + 1
        /\ at' = IF SkipsDir(Tree[at]) THEN AfterSubtree(at) ELSE at + 1
        /\ UNCHANGED <<scan, walkErr, seen>>
    BY <1>0, <1>3 DEF VisitSkipped
  <2>2. at' \in (at + 1)..(Len(Tree) + 1)
    BY <1>0, <2>1, SubtreeSkipped
  <2> QED
    BY <1>0, <2>1, <2>2
<1>4. CASE VisitFile
  <2>1. /\ at \in DOMAIN Tree /\ at \in Tasks /\ count' = count + 1 /\ at' = at + 1
        /\ seen' = [seen EXCEPT ![at] = content[at]]
        /\ UNCHANGED <<scan, walkErr>>
    BY <1>0, <1>4, PoolSteps DEF VisitFile
  <2>2. content[at] \in Contents
    BY <2>1
  <2> QED
    BY <1>0, <2>1, <2>2
<1>5. CASE VisitInaccessible \/ WalkEnd \/ SaveCache
  BY <1>5 DEF VisitInaccessible, WalkEnd, SaveCache
<1>6. CASE StopPool \/ SaveTick \/ StaleTick \/ CacheLoss \/ FileChange
  BY <1>6 DEF StopPool, SaveTick, StaleTick, CacheLoss, FileChange, walkVars
<1>7. ASSUME NEW w \in Workers, TaskStep(w)
      PROVE  UNCHANGED walkVars
  BY <1>7 DEF TaskStep, LocalStep, TakeTask, HashFile, CheckCache, PublishFile,
     PublishMsg, MarkFile, EndTask, LeavePool, Take, FinishTask, ExitOnClose
<1> QED
  BY <1>1, <1>2, <1>3, <1>4, <1>5, <1>6, <1>7
     DEF ScannerNext, ProcessStep, WalkStep, walkVars

(* What is known of the files keeps its type. *)
LEMMA FilesKept ==
  ASSUME ScannerTypeOK, [ScannerNext]_scannerVars
  PROVE  /\ content' \in [Tasks -> Contents] /\ gone' \subseteq DOMAIN Tree
         /\ had' \in [Tasks -> SUBSET Contents]
         /\ scans' \in 0..MaxScans /\ faults' \in 0..MaxFaults
<1> USE DEF ScannerTypeOK
<1>0. MaxScans \in Nat /\ MaxFaults \in Nat
  BY TreeFacts
<1>1. CASE UNCHANGED scannerVars
  BY <1>1 DEF scannerVars, fileVars, boundVars
<1>2. CASE StartScan
  BY <1>0, <1>2 DEF StartScan
<1>3. CASE ProcessEnd
  BY <1>0, <1>3 DEF ProcessEnd, fileVars
<1>4. CASE FileChange
  <2>1. UNCHANGED scans /\ faults' \in 0..MaxFaults
    BY <1>0, <1>4 DEF FileChange
  <2>2. CASE \E t \in Tasks, c \in Contents :
               /\ content' = [content EXCEPT ![t] = c]
               /\ had' = [had EXCEPT ![t] = @ \cup {c}]
               /\ UNCHANGED gone
    BY <2>1, <2>2
  <2>3. CASE /\ \E i \in DOMAIN Tree \ gone : gone' = gone \cup {i}
             /\ UNCHANGED <<content, had>>
    BY <2>1, <2>3
  <2> QED
    BY <1>4, <2>2, <2>3 DEF FileChange
<1>5. CASE WalkStep
  BY <1>0, <1>5 DEF WalkStep, VisitInaccessible, VisitSkipped, VisitFile, WalkEnd,
     StopPool, SaveCache, fileVars, boundVars
<1>6. CASE SaveTick \/ StaleTick \/ CacheLoss
  BY <1>0, <1>6 DEF SaveTick, StaleTick, CacheLoss, fileVars, boundVars
<1>7. ASSUME NEW w \in Workers, TaskStep(w)
      PROVE  /\ UNCHANGED <<content, gone, had, scans>>
             /\ faults' \in 0..MaxFaults
  BY <1>0, <1>7 DEF TaskStep, LocalStep, TakeTask, HashFile, CheckCache, PublishFile,
     PublishMsg, MarkFile, EndTask, LeavePool, fileVars, boundVars
<1> QED
  BY <1>1, <1>2, <1>3, <1>4, <1>5, <1>6, <1>7 DEF ScannerNext, ProcessStep

(* The tasks, the caches and the messages keep their types. *)
LEMMA TaskTypesKept ==
  ASSUME Typed, [ScannerNext]_scannerVars
  PROVE  /\ step' \in [Workers -> {"none", "hash", "check", "publish", "mark", "end"}]
         /\ hashed' \in [Workers -> Contents \cup {NoContent}]
         /\ unread' \subseteq Tasks
         /\ cache' \subseteq Key /\ disk' \subseteq Key /\ others' \subseteq SUBSET Key
         /\ queued' \subseteq Message /\ lost' \subseteq Key
<1> USE DEF ScannerTypeOK, Typed
<1>1. CASE UNCHANGED scannerVars
  BY <1>1 DEF scannerVars, taskVars, cacheVars, streamVars
<1>2. CASE StartScan \/ ProcessEnd
  BY <1>2 DEF StartScan, ProcessEnd, Reset, streamVars
<1>3. CASE WalkStep \/ SaveTick \/ StaleTick \/ CacheLoss \/ FileChange
  BY <1>3 DEF WalkStep, VisitInaccessible, VisitSkipped, VisitFile, WalkEnd, StopPool,
     SaveCache, SaveTick, StaleTick, CacheLoss, FileChange, taskVars, cacheVars,
     streamVars
<1>4. ASSUME NEW w \in Workers, TaskStep(w)
      PROVE  /\ step' \in [Workers -> {"none", "hash", "check", "publish", "mark", "end"}]
             /\ hashed' \in [Workers -> Contents \cup {NoContent}]
             /\ unread' \subseteq Tasks
             /\ cache' \subseteq Key /\ queued' \subseteq Message /\ lost' \subseteq Key
             /\ UNCHANGED <<disk, others>>
  <2>1. step[w] \in {"hash", "check", "publish", "mark", "end"} => worker[w] \in Tasks
    BY DEF TaskSteps
  <2>2. CASE TakeTask(w) \/ CheckCache(w) \/ EndTask(w) \/ LeavePool(w)
    BY <2>2 DEF TakeTask, CheckCache, EndTask, LeavePool, taskVars, cacheVars,
       streamVars
  <2>3. CASE HashFile(w)
    BY <2>1, <2>3 DEF HashFile, cacheVars, streamVars
  <2>4. ASSUME step[w] \in {"publish", "mark"}
        PROVE  KeyOf(w) \in Key /\ MessageOf(w) \in Message
    <3>1. worker[w] \in Tasks /\ hashed[w] \in Contents
      BY <2>4 DEF TaskSteps
    <3>2. seen[worker[w]] \in Contents
      BY <3>1 DEF TaskSteps, OnlySubmitted, Doing
    <3> QED
      BY <3>1, <3>2 DEF KeyOf, MessageOf, Key, Message
  <2>5. CASE PublishFile(w)
    BY <2>4, <2>5 DEF PublishFile, PublishMsg, cacheVars
  <2>6. CASE MarkFile(w)
    BY <2>4, <2>6 DEF MarkFile, Marked, streamVars
  <2> QED
    BY <1>4, <2>2, <2>3, <2>5, <2>6 DEF TaskStep, LocalStep
<1> QED
  BY <1>1, <1>2, <1>3, <1>4 DEF ScannerNext, ProcessStep

(* No step breaks a type. *)
LEMMA ScannerTypeStep ==
  ASSUME Typed, [ScannerNext]_scannerVars
  PROVE  Typed'
<1>1. PoolTypeOK' /\ OnlySubmitted'
  <2>1. PoolTypeOK /\ OnlySubmitted /\ ScannerTypeOK
    BY DEF Typed, ScannerTypeOK
  <2> QED
    BY <2>1, ScanStepsThePool, PoolTypeStep, AnewIsSound
<1>2. ScannerTypeOK
  BY DEF Typed
<1> QED
  BY <1>1, <1>2, TaskStepsKept, WalkTypesKept, FilesKept, TaskTypesKept
     DEF Typed, ScannerTypeOK

(* The types, and the little they need, hold in every behaviour. *)
LEMMA AlwaysTyped == ScannerSpec => []Typed
<1>1. ScannerInit => Typed
  <2> SUFFICES ASSUME ScannerInit
               PROVE  Typed
    OBVIOUS
  <2>1. queue \in Seq(Tasks) /\ Len(queue) = 0 /\ DOMAIN queue = {}
    BY DEF ScannerInit, PoolInit
  <2>2. PoolTypeOK
    <3>1. Len(queue) <= Capacity /\ starts \in 0..Starts
      BY <2>1 DEF ScannerInit, PoolInit
    <3> QED
      BY <2>1, <3>1 DEF ScannerInit, PoolInit, PoolTypeOK
  <2>3. OnlySubmitted
    BY <2>1 DEF ScannerInit, PoolInit, OnlySubmitted, Waiting, Doing
  <2>4. TaskSteps
    BY DEF ScannerInit, PoolInit, TaskSteps
  <2>5. at \in 1..(Len(Tree) + 1) /\ count \in 0..Len(Tree) /\ CountBelow
    BY TreeFacts DEF ScannerInit, CountBelow
  <2>6. scans \in 0..MaxScans /\ faults \in 0..MaxFaults
    BY TreeFacts DEF ScannerInit
  <2> QED
    BY <2>2, <2>3, <2>4, <2>5, <2>6 DEF ScannerInit, ScannerTypeOK, Typed
<1> QED
  BY <1>1, ScannerTypeStep, PTL DEF ScannerSpec

(* The pool, the walk, the tasks, the caches and the stream keep their types,
   and a position or a count never leaves the tree, whatever the tree is and
   whatever happens to it. *)
THEOREM ScannerTypeCorrect == ScannerSpec => []ScannerTypeOK
  BY AlwaysTyped, PTL DEF Typed

-----------------------------------------------------------------------------
(* What a key in a cache stands for, and a key that is about to be one. *)
Sound(k) == Queued(k) \/ k \in lost

MarkSound == \A w \in Workers : step[w] = "mark" => Sound(KeyOf(w))

(* The stream and the log only grow. *)
LEMMA StreamGrows ==
  ASSUME [ScannerNext]_scannerVars
  PROVE  queued \subseteq queued' /\ lost \subseteq lost'
<1>1. CASE UNCHANGED scannerVars
  BY <1>1 DEF scannerVars, streamVars
<1>2. CASE StartScan \/ ProcessEnd
  BY <1>2 DEF StartScan, ProcessEnd, streamVars
<1>3. CASE WalkStep \/ SaveTick \/ StaleTick \/ CacheLoss \/ FileChange
  BY <1>3 DEF WalkStep, VisitInaccessible, VisitSkipped, VisitFile, WalkEnd, StopPool,
     SaveCache, SaveTick, StaleTick, CacheLoss, FileChange, streamVars
<1>4. ASSUME NEW w \in Workers, TaskStep(w)
      PROVE  queued \subseteq queued' /\ lost \subseteq lost'
  BY <1>4 DEF TaskStep, LocalStep, TakeTask, HashFile, CheckCache, PublishFile,
     PublishMsg, MarkFile, EndTask, LeavePool, streamVars
<1> QED
  BY <1>1, <1>2, <1>3, <1>4 DEF ScannerNext, ProcessStep

(* What was published stays published. *)
LEMMA SoundForEver ==
  ASSUME [ScannerNext]_scannerVars, NEW k
  PROVE  Sound(k) => Sound(k)'
BY StreamGrows DEF Sound, Queued

(* No step puts an unpublished key into a cache. *)
LEMMA CacheStep ==
  ASSUME Typed, CacheSound, MarkSound, [ScannerNext]_scannerVars
  PROVE  CacheSound' /\ MarkSound'
<1> DEFINE Keys == cache \cup disk \cup UNION others
<1>0. \A k \in Keys : Sound(k)
  BY DEF CacheSound, Sound
<1>1. ASSUME NEW w \in Workers, MarkFile(w)
      PROVE  CacheSound' /\ MarkSound'
  <2>1. /\ cache' = cache \cup {KeyOf(w)} /\ Sound(KeyOf(w))
        /\ UNCHANGED <<disk, others, worker, hashed>>
        /\ step' = [step EXCEPT ![w] = "end"]
    BY <1>1 DEF MarkFile, Marked, MarkSound, poolVars
  <2>2. \A k \in (Keys \cup {KeyOf(w)}) : Sound(k)'
    BY <1>0, <2>1, SoundForEver
  <2>3. CacheSound'
    BY <2>1, <2>2 DEF CacheSound, Sound
  <2>4. step' \in [Workers -> {"none", "hash", "check", "publish", "mark", "end"}]
    BY TaskTypesKept
  <2>5. \A v \in Workers : step'[v] = "mark" =>
          step[v] = "mark" /\ KeyOf(v)' = KeyOf(v)
    BY <2>1 DEF KeyOf, Typed, ScannerTypeOK
  <2> QED
    BY <2>3, <2>5, SoundForEver DEF MarkSound, Sound, Queued
<1>2. ASSUME NEW w \in Workers, PublishFile(w)
      PROVE  CacheSound' /\ MarkSound'
  <2>1. UNCHANGED <<worker, hashed, cache, disk, others>>
    BY <1>2 DEF PublishFile, PublishMsg, poolVars, cacheVars
  <2>2. CacheSound'
    BY <1>0, <2>1, SoundForEver DEF CacheSound, Sound
  <2>3. \A v \in Workers : KeyOf(v)' = KeyOf(v)
    BY <2>1 DEF KeyOf
  <2>4. Sound(KeyOf(w))'
    <3>1. \/ MessageOf(w) \in queued'
          \/ KeyOf(w) \in lost'
      BY <1>2 DEF PublishFile, PublishMsg
    <3>2. MessageOf(w).file = KeyOf(w).file /\ MessageOf(w).hash = KeyOf(w).hash
      BY DEF MessageOf, KeyOf
    <3> QED
      BY <2>3, <3>1, <3>2 DEF Sound, Queued
  <2>5. \A v \in Workers \ {w} : step'[v] = step[v]
    BY <1>2 DEF PublishFile, PublishMsg, Typed, ScannerTypeOK
  <2>6. \A v \in Workers \ {w} : step'[v] = "mark" => Sound(KeyOf(v))'
    BY <2>3, <2>5, SoundForEver DEF MarkSound, Sound, Queued
  <2> QED
    BY <2>2, <2>4, <2>6 DEF MarkSound
<1>3. CASE StartScan \/ ProcessEnd
  <2>1. /\ cache' \cup disk' \cup UNION others' \subseteq Keys
        /\ step' = [w \in Workers |-> "none"]
    BY <1>3 DEF StartScan, ProcessEnd, Reset
  <2> QED
    BY <1>0, <2>1, SoundForEver DEF CacheSound, MarkSound, Sound
<1>4. CASE WalkStep \/ SaveTick \/ StaleTick \/ CacheLoss \/ FileChange
            \/ UNCHANGED scannerVars
  <2>1. cache' \cup disk' \cup UNION others' \subseteq Keys
    BY <1>4 DEF WalkStep, VisitInaccessible, VisitSkipped, VisitFile, WalkEnd, StopPool,
       SaveCache, SaveTick, StaleTick, CacheLoss, FileChange, cacheVars, scannerVars
  <2>2. UNCHANGED <<worker, step, hashed>>
    BY <1>4 DEF WalkStep, VisitInaccessible, VisitSkipped, VisitFile, WalkEnd, StopPool,
       SaveCache, SaveTick, StaleTick, CacheLoss, FileChange, Submit, Close, StopReturn,
       poolVars, taskVars, scannerVars
  <2>3. CacheSound'
    BY <1>0, <2>1, SoundForEver DEF CacheSound, Sound
  <2>4. \A v \in Workers : step'[v] = step[v] /\ KeyOf(v)' = KeyOf(v)
    BY <2>2 DEF KeyOf
  <2> QED
    BY <2>3, <2>4, SoundForEver DEF MarkSound, Sound, Queued
<1>5. ASSUME NEW w \in Workers,
             TakeTask(w) \/ HashFile(w) \/ CheckCache(w) \/ EndTask(w) \/ LeavePool(w)
      PROVE  CacheSound' /\ MarkSound'
  <2>1. UNCHANGED <<cache, disk, others>>
    BY <1>5 DEF TakeTask, HashFile, CheckCache, EndTask, LeavePool, cacheVars
  <2>2. CacheSound'
    BY <1>0, <2>1, SoundForEver DEF CacheSound, Sound
  <2>3. \A v \in Workers : step'[v] = "mark" =>
          step[v] = "mark" /\ KeyOf(v)' = KeyOf(v)
    <3>1. step'[w] = "mark" => step[w] = "mark"
      BY <1>5 DEF TakeTask, HashFile, CheckCache, EndTask, LeavePool, taskVars,
         Typed, ScannerTypeOK
    <3>2. step'[w] = "mark" => LeavePool(w) /\ worker[w] = Idle
      BY <1>5 DEF TakeTask, HashFile, CheckCache, EndTask, LeavePool, ExitOnClose,
         Typed, ScannerTypeOK
    <3>3. step'[w] # "mark"
      BY <3>1, <3>2 DEF Typed, TaskSteps
    <3>4. \A v \in Workers \ {w} :
            step'[v] = step[v] /\ worker'[v] = worker[v] /\ hashed'[v] = hashed[v]
      BY <1>5 DEF TakeTask, HashFile, CheckCache, EndTask, LeavePool, Take, FinishTask,
         ExitOnClose, taskVars, poolVars, Typed, ScannerTypeOK, PoolTypeOK
    <3> QED
      BY <3>3, <3>4 DEF KeyOf
  <2> QED
    BY <2>2, <2>3, SoundForEver DEF MarkSound, Sound, Queued
<1> QED
  BY <1>1, <1>2, <1>3, <1>4, <1>5 DEF ScannerNext, ProcessStep, TaskStep, LocalStep

(* The caches are sound, with what a worker is about to mark. *)
LEMMA CacheSoundAlways == ScannerSpec => [](CacheSound /\ MarkSound)
<1>1. ScannerInit => CacheSound /\ MarkSound
  BY DEF ScannerInit, CacheSound, MarkSound
<1>2. Typed /\ CacheSound /\ MarkSound /\ [ScannerNext]_scannerVars
        => CacheSound' /\ MarkSound'
  BY CacheStep
<1> QED
  BY <1>1, <1>2, AlwaysTyped, PTL DEF ScannerSpec

(* Whatever crashes, fails, is evicted or saved by which goroutine: a file is
   skipped by a later scan only if a message with its contents was published
   or the log names it. *)
THEOREM CacheIsSound == ScannerSpec => []CacheSound
  BY CacheSoundAlways, PTL

-----------------------------------------------------------------------------
(* What is owed for the files of a scan while it runs. *)
OwedKept ==
  /\ scan = "off" => \A w \in Workers : worker[w] = NotStarted
  /\ scan \in {"walking", "stopping"} => \A t \in Tasks : content[t] \in had[t]
  /\ scan = "ended" => stopped /\ \A w \in Workers : step[w] = "none"
  /\ \A w \in Workers :
       step[w] \in {"check", "publish", "mark"} => hashed[w] \in had[worker[w]]
  /\ \A w \in Workers : step[w] = "end" => Announced(worker[w])
  /\ \A t \in finished : Announced(t)

(* A scan that has announced a file does not forget it. *)
LEMMA AnnouncedStays ==
  ASSUME [ScannerNext]_scannerVars, ~StartScan, ~ProcessEnd, ScannerTypeOK,
         NEW t \in Tasks
  PROVE  Announced(t) => Announced(t)'
<1>1. unread \subseteq unread'
  <2>1. CASE UNCHANGED scannerVars
    BY <2>1 DEF scannerVars, taskVars
  <2>2. CASE WalkStep \/ SaveTick \/ StaleTick \/ CacheLoss \/ FileChange
    BY <2>2 DEF WalkStep, VisitInaccessible, VisitSkipped, VisitFile, WalkEnd, StopPool,
       SaveCache, SaveTick, StaleTick, CacheLoss, FileChange, taskVars
  <2>3. ASSUME NEW w \in Workers, TaskStep(w)
        PROVE  unread \subseteq unread'
    BY <2>3 DEF TaskStep, LocalStep, TakeTask, HashFile, CheckCache, PublishFile,
       PublishMsg, MarkFile, EndTask, LeavePool, taskVars
  <2> QED
    BY <2>1, <2>2, <2>3 DEF ScannerNext, ProcessStep
<1>2. had[t] \subseteq had'[t]
  <2>1. CASE UNCHANGED scannerVars
    BY <2>1 DEF scannerVars, fileVars
  <2>2. CASE WalkStep \/ SaveTick \/ StaleTick \/ CacheLoss
    BY <2>2 DEF WalkStep, VisitInaccessible, VisitSkipped, VisitFile, WalkEnd, StopPool,
       SaveCache, SaveTick, StaleTick, CacheLoss, fileVars
  <2>3. CASE FileChange
    BY <2>3 DEF FileChange, ScannerTypeOK
  <2>4. ASSUME NEW w \in Workers, TaskStep(w)
        PROVE  had[t] \subseteq had'[t]
    BY <2>4 DEF TaskStep, LocalStep, TakeTask, HashFile, CheckCache, PublishFile,
       PublishMsg, MarkFile, EndTask, LeavePool, fileVars
  <2> QED
    BY <2>1, <2>2, <2>3, <2>4 DEF ScannerNext, ProcessStep
<1>3. \A k : Queued(k) \/ k \in lost => Queued(k)' \/ k \in lost'
  BY SoundForEver DEF Sound
<1> QED
  BY <1>1, <1>2, <1>3 DEF Announced

(* No step loses a file that the scan owes. *)
LEMMA OwedStep ==
  ASSUME Typed, CacheSound, MarkSound, WorkersStay, OwedKept,
         [ScannerNext]_scannerVars
  PROVE  OwedKept'
<1>0. /\ ScannerTypeOK /\ PoolTypeOK /\ TaskSteps
      /\ finished \subseteq Tasks
      /\ \A w \in Workers : step[w] # "none" => worker[w] \in Tasks
  BY DEF Typed, ScannerTypeOK, PoolTypeOK, TaskSteps
<1>1. CASE StartScan \/ ProcessEnd
  <2>1. /\ finished' = {} /\ step' = [w \in Workers |-> "none"]
        /\ StartScan => scan' = "walking" /\ \A t \in Tasks : content'[t] \in had'[t]
        /\ ProcessEnd => scan' = "off" /\ \A w \in Workers : worker'[w] = NotStarted
    BY <1>1 DEF StartScan, ProcessEnd, Reset
  <2> QED
    BY <1>1, <2>1 DEF OwedKept
<1>2. CASE \/ UNCHANGED scannerVars
           \/ VisitInaccessible \/ VisitSkipped \/ VisitFile \/ WalkEnd \/ StopPool
           \/ SaveTick \/ StaleTick \/ CacheLoss
  <2>1. /\ UNCHANGED <<content, had, worker, step, hashed, finished, unread, lost, queued>>
        /\ scan' = scan \/ (scan = "walking" /\ scan' = "stopping")
        /\ stopped => stopped'
    BY <1>2 DEF VisitInaccessible, VisitSkipped, VisitFile, WalkEnd, StopPool, SaveTick,
       StaleTick, CacheLoss, Submit, Close, StopReturn, poolVars, fileVars, taskVars,
       streamVars, walkVars, scannerVars
  <2>2. \A t : Announced(t)' <=> Announced(t)
    BY <2>1 DEF Announced, Queued
  <2> QED
    BY <2>1, <2>2 DEF OwedKept
<1>3. CASE SaveCache
  <2>1. /\ UNCHANGED <<content, had, worker, step, hashed, finished, unread, lost, queued>>
        /\ scan' = "ended" /\ stopped /\ stopped'
    BY <1>3 DEF SaveCache, poolVars, fileVars, taskVars, streamVars
  <2>2. \A t : Announced(t)' <=> Announced(t)
    BY <2>1 DEF Announced, Queued
  <2>3. \A w \in Workers : step'[w] = "none"
    BY <1>0, <2>1 DEF WorkersStay, AllDone, TaskSteps
  <2> QED
    BY <2>1, <2>2, <2>3 DEF OwedKept
<1>4. CASE FileChange
  <2>1. /\ UNCHANGED <<worker, step, hashed, finished, scan>>
        /\ scan \in {"walking", "stopping"}
        /\ \A t \in Tasks : had[t] \subseteq had'[t]
        /\ \A t \in Tasks : content'[t] = content[t] \/ content'[t] \in had'[t]
    BY <1>0, <1>4 DEF FileChange, poolVars, taskVars, walkVars, ScannerTypeOK
  <2>2. ~StartScan /\ ~ProcessEnd
    BY <2>1 DEF StartScan, ProcessEnd
  <2>3. \A t \in Tasks : Announced(t) => Announced(t)'
    BY <1>0, <2>2, AnnouncedStays
  <2>4. scan' \in {"walking", "stopping"} => \A t \in Tasks : content'[t] \in had'[t]
    BY <2>1 DEF OwedKept
  <2>5. \A w \in Workers :
          step'[w] \in {"check", "publish", "mark"} => hashed'[w] \in had'[worker'[w]]
    BY <1>0, <2>1 DEF OwedKept
  <2>6. \A w \in Workers : step'[w] = "end" => Announced(worker[w])'
    <3> SUFFICES ASSUME NEW w \in Workers, step[w] = "end"
                 PROVE  Announced(worker[w])'
      BY <2>1
    <3>1. PICK t \in Tasks : t = worker[w]
      BY <1>0
    <3>2. Announced(t)' /\ worker'[w] = t
      BY <2>1, <2>3, <3>1 DEF OwedKept
    <3> QED
      BY <3>2
  <2>7. \A t \in finished' : Announced(t)'
    BY <1>0, <2>1, <2>3 DEF OwedKept
  <2> QED
    BY <2>1, <2>4, <2>5, <2>6, <2>7 DEF OwedKept
<1>5. ASSUME NEW w \in Workers, TaskStep(w)
      PROVE  OwedKept'
  <2>1. UNCHANGED <<content, had, scan, stopped>>
    BY <1>5 DEF TaskStep, LocalStep, TakeTask, HashFile, CheckCache, PublishFile,
       PublishMsg, MarkFile, EndTask, LeavePool, Take, FinishTask, ExitOnClose,
       fileVars, walkVars, poolVars
  <2>2. scan \in {"walking", "stopping"}
    <3>1. worker[w] \in Tasks \cup {Idle}
      BY <1>0, <1>5 DEF TaskStep, LocalStep, TakeTask, HashFile, CheckCache,
         PublishFile, PublishMsg, MarkFile, EndTask, LeavePool, Take, ExitOnClose
    <3>2. ~stopped
      BY <3>1 DEF WorkersStay, AllDone
    <3> QED
      BY <1>0, <3>1, <3>2 DEF OwedKept, ScannerTypeOK
  <2>3. \A t \in Tasks : Announced(t) => Announced(t)'
    <3>1. CASE ~StartScan /\ ~ProcessEnd
      BY <1>0, <3>1, AnnouncedStays
    <3>2. CASE StartScan \/ ProcessEnd
      BY <2>1, <2>2, <3>2 DEF StartScan, ProcessEnd
    <3> QED
      BY <3>1, <3>2
  <2>4. \A v \in Workers \ {w} :
          step'[v] = step[v] /\ worker'[v] = worker[v] /\ hashed'[v] = hashed[v]
    BY <1>0, <1>5 DEF TaskStep, LocalStep, TakeTask, HashFile, CheckCache, PublishFile,
       PublishMsg, MarkFile, EndTask, LeavePool, Take, FinishTask, ExitOnClose,
       poolVars, taskVars, ScannerTypeOK, PoolTypeOK
  <2>5. ASSUME NEW v \in Workers \ {w}
        PROVE  /\ step'[v] \in {"check", "publish", "mark"} =>
                    hashed'[v] \in had'[worker'[v]]
               /\ step'[v] = "end" => Announced(worker[v])'
    <3>1. step'[v] \in {"check", "publish", "mark"} => hashed'[v] \in had'[worker'[v]]
      BY <2>1, <2>4 DEF OwedKept
    <3>2. ASSUME step'[v] = "end"
          PROVE  Announced(worker[v])'
      <4>1. PICK t \in Tasks : t = worker[v]
        BY <1>0, <2>4, <3>2
      <4>2. Announced(t)' /\ worker'[v] = t
        BY <2>3, <2>4, <3>2, <4>1 DEF OwedKept
      <4> QED
        BY <4>2
    <3> QED
      BY <3>1, <3>2
  <2>6. ASSUME step[w] \in {"check", "publish", "mark"}, Sound(KeyOf(w))
        PROVE  Announced(worker[w])
    <3>1. worker[w] \in Tasks /\ hashed[w] \in Contents /\ hashed[w] \in had[worker[w]]
      BY <1>0, <2>6 DEF TaskSteps, OwedKept
    <3>2. KeyOf(w) \in Key
      BY <3>1 DEF KeyOf, Key
    <3> QED
      BY <2>6, <3>1, <3>2 DEF Announced, Sound, KeyOf
  <2>7. CASE TakeTask(w) \/ LeavePool(w)
    <3>1. finished' = finished /\ step'[w] \in {"hash", "none"}
      BY <1>0, <2>7 DEF TakeTask, LeavePool, Take, ExitOnClose, taskVars,
         ScannerTypeOK, TaskSteps
    <3>2. \A t \in finished' : Announced(t)'
      BY <1>0, <2>3, <3>1 DEF OwedKept
    <3> QED
      BY <2>1, <2>2, <2>5, <3>1, <3>2 DEF OwedKept
  <2>8. CASE HashFile(w)
    <3>1. /\ worker[w] \in Tasks /\ UNCHANGED <<worker, finished>>
          /\ \/ step'[w] = "check" /\ hashed'[w] = content[worker[w]]
             \/ step'[w] = "end" /\ worker[w] \in unread'
      BY <1>0, <2>8 DEF HashFile, poolVars, ScannerTypeOK
    <3>2. content[worker[w]] \in had[worker[w]]
      BY <2>2, <3>1 DEF OwedKept
    <3>3. step'[w] = "end" => Announced(worker[w])'
      BY <3>1 DEF Announced
    <3>4. \A t \in finished' : Announced(t)'
      BY <1>0, <2>3, <3>1 DEF OwedKept
    <3> QED
      BY <2>1, <2>2, <2>5, <3>1, <3>2, <3>3, <3>4 DEF OwedKept
  <2>9. CASE CheckCache(w) \/ PublishFile(w) \/ MarkFile(w)
    <3>1. /\ UNCHANGED <<worker, hashed, finished>>
          /\ step[w] \in {"check", "publish", "mark"}
          /\ \/ step'[w] \in {"publish", "mark"}
             \/ step'[w] = "end" /\ (KeyOf(w) \in cache \/ step[w] = "mark")
      BY <1>0, <2>9 DEF CheckCache, Processed, PublishFile, PublishMsg, MarkFile,
         poolVars, ScannerTypeOK
    <3>2. ASSUME step'[w] = "end"
          PROVE  Announced(worker[w])'
      <4>1. Sound(KeyOf(w))
        BY <3>1, <3>2 DEF CacheSound, MarkSound, Sound
      <4>2. PICK t \in Tasks : t = worker[w]
        BY <1>0, <3>1
      <4>3. Announced(t)' /\ worker'[w] = t
        BY <2>3, <2>6, <3>1, <4>1, <4>2
      <4> QED
        BY <4>3
    <3>3. hashed'[w] \in had'[worker'[w]]
      BY <2>1, <3>1 DEF OwedKept
    <3>4. \A t \in finished' : Announced(t)'
      BY <1>0, <2>3, <3>1 DEF OwedKept
    <3> QED
      BY <2>1, <2>2, <2>5, <3>2, <3>3, <3>4 DEF OwedKept
  <2>10. CASE EndTask(w)
    <3>1. /\ step[w] = "end" /\ step'[w] = "none" /\ worker[w] \in Tasks
          /\ finished' = finished \cup {worker[w]}
      BY <1>0, <2>10 DEF EndTask, FinishTask, ScannerTypeOK
    <3>2. \A t \in finished' : Announced(t)
      BY <3>1 DEF OwedKept
    <3>3. \A t \in finished' : Announced(t)'
      BY <1>0, <2>3, <3>1, <3>2
    <3> QED
      BY <2>1, <2>2, <2>5, <3>1, <3>3 DEF OwedKept
  <2> QED
    BY <1>5, <2>7, <2>8, <2>9, <2>10 DEF TaskStep, LocalStep
<1> QED
  BY <1>1, <1>2, <1>3, <1>4, <1>5 DEF ScannerNext, ProcessStep, WalkStep

-----------------------------------------------------------------------------
(* How far the walk has come: every file before its position that should be
   scanned has been submitted, and every entry outside skipped directories is
   counted. *)
Before(S) == {i \in S : i < at}

WalkExact ==
  /\ scan = "walking" => ~walkErr /\ (at \in Reached \/ at = Len(Tree) + 1)
  /\ scan \in {"stopping", "ended"} /\ ~walkErr => at = Len(Tree) + 1
  /\ scan # "off" /\ ~walkErr =>
       submitted = Before(Expected) /\ count = Cardinality(Before(Reached))

(* Nothing can hide the root of the tree. *)
LEMMA RootReached == 1 \in Reached
<1>1. 1 \in DOMAIN Tree /\ \A i \in DOMAIN Tree : ~(1 > i)
  BY TreeFacts
<1> QED
  BY <1>1 DEF Reached, Below

(* The entry after one whose subtree is not skipped. *)
LEMMA NextReached ==
  ASSUME NEW i \in Reached, ~SkipsDir(Tree[i]), i # Len(Tree)
  PROVE  i + 1 \in Reached
<1>1. Len(Tree) \in Nat /\ DOMAIN Tree = 1..Len(Tree) /\ i \in DOMAIN Tree
  BY TreeFacts DEF Reached
<1>2. i \in Int /\ i + 1 \in DOMAIN Tree
  BY <1>1
<1>3. SUFFICES ASSUME NEW d \in DOMAIN Tree, SkipsDir(Tree[d]), i + 1 \in Below(d)
               PROVE  FALSE
  BY <1>2 DEF Reached
<1>4. d \in Int /\ d # i
  BY <1>1, <1>3
<1>5. i + 1 > d /\ \A k \in (d + 1)..(i + 1) : Tree[k].depth > Tree[d].depth
  BY <1>3 DEF Below
<1>6. i > d /\ \A k \in (d + 1)..i : k \in (d + 1)..(i + 1)
  BY <1>2, <1>4, <1>5
<1>7. i \in Below(d)
  BY <1>1, <1>5, <1>6 DEF Below
<1> QED
  BY <1>3, <1>7 DEF Reached

(* The entry after a skipped subtree, and those in it. *)
LEMMA SkippedNotReached ==
  ASSUME NEW i \in Reached, SkipsDir(Tree[i])
  PROVE  /\ AfterSubtree(i) \in Reached \/ AfterSubtree(i) = Len(Tree) + 1
         /\ \A k \in (i + 1)..(AfterSubtree(i) - 1) : k \notin Reached
<1> DEFINE j == AfterSubtree(i)
<1>1. /\ i \in 1..Len(Tree) /\ Len(Tree) \in Nat /\ DOMAIN Tree = 1..Len(Tree)
      /\ \A k \in 1..Len(Tree) : Tree[k].depth \in Nat
  BY TreeFacts DEF Reached
<1>2. /\ j \in (i + 1)..(Len(Tree) + 1)
      /\ j # Len(Tree) + 1 => Tree[j].depth <= Tree[i].depth
      /\ \A k \in (i + 1)..(j - 1) : Tree[k].depth > Tree[i].depth
  BY <1>1, SubtreeSkipped
<1> HIDE DEF j
<1>3. ASSUME NEW k \in (i + 1)..(j - 1)
      PROVE  k \notin Reached
  <2>1. k \in Below(i)
    BY <1>1, <1>2, <1>3 DEF Below
  <2> QED
    BY <1>1, <2>1 DEF Reached
<1>4. ASSUME j # Len(Tree) + 1
      PROVE  j \in Reached
  <2>1. j \in DOMAIN Tree /\ Tree[j].depth <= Tree[i].depth
    BY <1>1, <1>2, <1>4
  <2>2. SUFFICES ASSUME NEW d \in DOMAIN Tree, SkipsDir(Tree[d]), j \in Below(d)
                 PROVE  FALSE
    BY <2>1 DEF Reached
  <2>3. j > d /\ \A k \in (d + 1)..j : Tree[k].depth > Tree[d].depth
    BY <2>2 DEF Below
  <2>4. CASE d < i
    <3>1. i \in Below(d)
      BY <1>1, <1>2, <2>3, <2>4 DEF Below
    <3> QED
      BY <2>2, <3>1 DEF Reached
  <2>5. CASE d = i
    BY <1>1, <1>2, <2>1, <2>3, <2>5
  <2>6. CASE d > i
    <3>1. Tree[d].depth > Tree[i].depth /\ Tree[j].depth > Tree[d].depth
      BY <1>1, <1>2, <2>1, <2>3, <2>6
    <3> QED
      BY <1>1, <2>1, <3>1
  <2> QED
    BY <1>1, <2>4, <2>5, <2>6
<1> QED
  BY <1>3, <1>4 DEF j

(* One entry more before the position of the walk. *)
LEMMA OneMoreCounted ==
  ASSUME NEW i \in Reached, NEW j \in (i + 1)..(Len(Tree) + 1),
         \A k \in (i + 1)..(j - 1) : k \notin Reached
  PROVE  Cardinality({k \in Reached : k < j})
           = Cardinality({k \in Reached : k < i}) + 1
<1> DEFINE A == {k \in Reached : k < i}
<1>1. Reached \subseteq 1..Len(Tree) /\ Len(Tree) \in Nat
  BY TreeFacts DEF Reached
<1>2. {k \in Reached : k < j} = A \cup {i} /\ i \notin A
  <2>1. i \in Int /\ j \in Int /\ i < j /\ \A k \in Reached : k \in Int
    BY <1>1
  <2>2. \A k \in Reached : k < j <=> k < i \/ k = i
    <3> SUFFICES ASSUME NEW k \in Reached
                 PROVE  k < j <=> k < i \/ k = i
      OBVIOUS
    <3>1. k > i /\ k < j => k \in (i + 1)..(j - 1)
      BY <2>1
    <3> QED
      BY <2>1, <3>1
  <2>3. i \in Reached /\ ~(i < i)
    BY <2>1
  <2> QED
    BY <2>2, <2>3, Zenon
<1>3. IsFiniteSet(1..Len(Tree)) /\ A \in SUBSET (1..Len(Tree))
  <2>1. IsFiniteSet(1..Len(Tree))
    BY <1>1, FS_Interval
  <2> QED
    BY <1>1, <2>1
<1> HIDE DEF A
<1>4. IsFiniteSet(A)
  BY <1>3, FS_Subset
<1>5. Cardinality(A \cup {i}) = Cardinality(A) + 1
  BY <1>2, <1>4, FS_AddElement
<1> QED
  BY <1>2, <1>5 DEF A

(* No step makes the walk miss or repeat an entry. *)
LEMMA WalkStepExact ==
  ASSUME Typed, WalkExact, [ScannerNext]_scannerVars
  PROVE  WalkExact'
<1>0. /\ Len(Tree) \in Nat \ {0} /\ DOMAIN Tree = 1..Len(Tree)
      /\ at \in 1..(Len(Tree) + 1) /\ Reached \subseteq DOMAIN Tree
      /\ Expected \subseteq Reached
      /\ scan \in {"off", "walking", "stopping", "ended"}
  BY TreeFacts DEF Typed, ScannerTypeOK, Reached, Expected
<1>1. CASE StartScan
  <2>1. /\ scan' = "walking" /\ at' = 1 /\ count' = 0 /\ walkErr' = FALSE
        /\ submitted' = {}
    BY <1>1 DEF StartScan, Reset
  <2>2. Before(Reached)' = {} /\ Before(Expected)' = {}
    BY <1>0, <2>1 DEF Before
  <2>3. Cardinality({}) = 0
    BY FS_EmptySet
  <2> QED
    BY <2>1, <2>2, <2>3, RootReached DEF WalkExact
<1>2. CASE ProcessEnd
  BY <1>2 DEF ProcessEnd, WalkExact
<1>3. CASE VisitInaccessible
  BY <1>3 DEF VisitInaccessible, WalkExact
<1>4. CASE VisitSkipped
  <2>1. /\ scan = "walking" /\ at \in Reached /\ ~walkErr /\ ~Selected(Tree[at])
        /\ count' = count + 1
        /\ at' = IF SkipsDir(Tree[at]) THEN AfterSubtree(at) ELSE at + 1
        /\ UNCHANGED <<scan, walkErr, submitted>>
    BY <1>0, <1>4 DEF VisitSkipped, WalkExact, poolVars
  <2>2. /\ at' \in (at + 1)..(Len(Tree) + 1)
        /\ at' \in Reached \/ at' = Len(Tree) + 1
        /\ \A k \in (at + 1)..(at' - 1) : k \notin Reached
    <3>1. CASE SkipsDir(Tree[at])
      BY <1>0, <2>1, <3>1, SubtreeSkipped, SkippedNotReached
    <3>2. CASE ~SkipsDir(Tree[at])
      BY <1>0, <2>1, <3>2, NextReached
    <3> QED
      BY <3>1, <3>2
  <2>3. at \notin Expected
    BY <1>0, <2>1 DEF Expected, Selected
  <2>4. Before(Expected)' = Before(Expected)
    BY <1>0, <2>1, <2>2, <2>3 DEF Before
  <2>5. Cardinality(Before(Reached))' = Cardinality(Before(Reached)) + 1
    BY <2>1, <2>2, OneMoreCounted DEF Before
  <2> QED
    BY <2>1, <2>2, <2>4, <2>5 DEF WalkExact
<1>5. CASE VisitFile
  <2>1. /\ scan = "walking" /\ at \in Reached /\ ~walkErr /\ Selected(Tree[at])
        /\ count' = count + 1 /\ at' = at + 1
        /\ submitted' = submitted \cup {at}
        /\ UNCHANGED <<scan, walkErr>>
    BY <1>0, <1>5 DEF VisitFile, WalkExact, Submit
  <2>2. /\ at' \in (at + 1)..(Len(Tree) + 1)
        /\ at' \in Reached \/ at' = Len(Tree) + 1
        /\ \A k \in (at + 1)..(at' - 1) : k \notin Reached
    <3>1. ~SkipsDir(Tree[at])
      BY <2>1 DEF SkipsDir, Selected
    <3> QED
      BY <1>0, <2>1, <3>1, NextReached
  <2>3. at \in Expected
    BY <1>0, <2>1 DEF Expected, Selected
  <2>4. Before(Expected)' = Before(Expected) \cup {at}
    BY <1>0, <2>1, <2>3 DEF Before
  <2>5. Cardinality(Before(Reached))' = Cardinality(Before(Reached)) + 1
    BY <2>1, <2>2, OneMoreCounted DEF Before
  <2> QED
    BY <2>1, <2>2, <2>4, <2>5 DEF WalkExact
<1>6. CASE WalkEnd
  <2>1. /\ scan = "walking" /\ scan' = "stopping" /\ at = Len(Tree) + 1
        /\ UNCHANGED <<at, count, walkErr, submitted>>
    BY <1>0, <1>6 DEF WalkEnd, poolVars
  <2> QED
    BY <2>1 DEF WalkExact, Before
<1>7. CASE StopPool \/ SaveCache
  <2>1. /\ scan = "stopping" /\ scan' \in {"stopping", "ended"}
        /\ UNCHANGED <<at, count, walkErr, submitted>>
    BY <1>7 DEF StopPool, Close, StopReturn, SaveCache, poolVars, walkVars
  <2> QED
    BY <2>1 DEF WalkExact, Before
<1>8. CASE SaveTick \/ StaleTick \/ CacheLoss \/ FileChange \/ UNCHANGED scannerVars
  <2>1. UNCHANGED <<scan, at, count, walkErr, submitted>>
    BY <1>8 DEF SaveTick, StaleTick, CacheLoss, FileChange, scannerVars, poolVars,
       walkVars
  <2> QED
    BY <2>1 DEF WalkExact, Before
<1>9. ASSUME NEW w \in Workers, TaskStep(w)
      PROVE  WalkExact'
  <2>1. UNCHANGED <<scan, at, count, walkErr, submitted>>
    BY <1>9 DEF TaskStep, LocalStep, TakeTask, HashFile, CheckCache, PublishFile,
       PublishMsg, MarkFile, EndTask, LeavePool, Take, FinishTask, ExitOnClose,
       poolVars, walkVars
  <2> QED
    BY <2>1 DEF WalkExact, Before
<1> QED
  BY <1>1, <1>2, <1>3, <1>4, <1>5, <1>6, <1>7, <1>8, <1>9
     DEF ScannerNext, ProcessStep, WalkStep

(* When a scan is over, everything it submitted has been dealt with, and unless
   its walk met an error these are exactly the files that should be scanned
   and the count is exact: for any tree, any workers and any changes. *)
THEOREM ScanIsComplete == ScannerSpec => []ScanComplete
<1> DEFINE IInv == NoneLost /\ WorkersStay /\ OwedKept /\ WalkExact
<1>1. ScannerInit => IInv
  BY DEF ScannerInit, PoolInit, NoneLost, WorkersStay, OwedKept, WalkExact
<1>2. Typed /\ CacheSound /\ MarkSound /\ IInv /\ [ScannerNext]_scannerVars => IInv'
  <2> SUFFICES ASSUME Typed, CacheSound, MarkSound, IInv, [ScannerNext]_scannerVars
               PROVE  IInv'
    OBVIOUS
  <2>1. ScannerTypeOK /\ PoolTypeOK /\ OnlySubmitted
    BY DEF Typed, ScannerTypeOK
  <2>2. Cancels = {}
    BY ScannerAssumption DEF ScannerAssumption
  <2>3. NoneLost' /\ WorkersStay'
    BY <2>1, <2>2, ScanStepsThePool, AnewIsSound, OnItsWayStep, WorkersStayStep
  <2> QED
    BY <2>3, OwedStep, WalkStepExact
<1>3. Typed /\ IInv => ScanComplete
  <2> SUFFICES ASSUME Typed, IInv, scan = "ended"
               PROVE  /\ \A t \in submitted : Announced(t)
                      /\ ~walkErr => submitted = Expected /\ count = Cardinality(Reached)
    BY DEF ScanComplete
  <2>1. finished = submitted
    BY NothingLeft DEF Typed, ScannerTypeOK, OwedKept, StopDrains
  <2>2. at = Len(Tree) + 1 => Before(Expected) = Expected /\ Before(Reached) = Reached
    BY TreeFacts DEF Before, Expected, Reached
  <2> QED
    BY <2>1, <2>2 DEF OwedKept, WalkExact
<1> QED
  BY <1>1, <1>2, <1>3, AlwaysTyped, CacheSoundAlways, PTL DEF ScannerSpec
==============================================================================
