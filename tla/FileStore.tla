------------------------------ MODULE FileStore ------------------------------
(***************************************************************************)
(* The SQLite index of HashUp (internal/store/store.go, internal/db) and   *)
(* the programs that write it: the `hashup store` processes, each of which *)
(* saves one scanned file at a time with up to four SQL statements that no *)
(* transaction groups, and the `hs` command line tool, whose delete-host   *)
(* and tag commands run one transaction each.                              *)
(*                                                                         *)
(* A statement is a step.  What a process keeps between two statements (a  *)
(* hash id it has read, the absence of a row it has seen) may be stale     *)
(* when the next one runs: that is what the properties are about.          *)
(***************************************************************************)
EXTENDS Integers, FiniteSets

CONSTANTS
  Stores,     \* the `hashup store` processes that share the database
  Paths, Hosts, Hashes,
  Files,      \* the scanned files: what types.ScannedFile says of one
  ZeroLed,    \* the hashes whose 16-digit form begins with a zero
  Tags,       \* tags given to `hs tag`
  NoFile, NoHost,
  MaxID,      \* model bound: ids either AUTOINCREMENT sequence can hand out
  MaxPurges   \* model bound: completed delete-host commands

ASSUME FilesAssumption ==
  /\ Files \subseteq [path : Paths, host : Hosts, hash : Hashes]
  /\ NoFile \notin Files
  /\ NoHost \notin Hosts
  /\ MaxID \in Nat
  /\ MaxPurges \in Nat

VARIABLES
  fileHashes,  \* table file_hashes
  fileInfo,    \* table file_info
  fileTags,    \* table file_tags
  lastHashID,  \* the AUTOINCREMENT sequences of the first two tables:
  lastInfoID,  \* an id is never used twice, even after its row is deleted
  pc,          \* the statement each store process runs next
  arg,         \* the file its Store call is about
  hashID,      \* the id saveFileHash found or inserted
  out,         \* what Store returns: FileStored and the error
  purged,      \* history: the hosts deleted since the Store call began
  admin,       \* the host a delete-host command is about to delete
  purges       \* counter for MaxPurges

tables    == <<fileHashes, fileInfo, fileTags, lastHashID, lastInfoID>>
calls     == <<pc, arg, hashID, out, purged>>
adminVars == <<admin, purges>>
storeVars == <<tables, calls, adminVars>>

-----------------------------------------------------------------------------
NoID   == -1
RowIDs == Nat \ {0}

HashRow == [id : RowIDs, file_hash : Hashes]
InfoRow == [id : RowIDs, file : Files, hash_id : RowIDs]
TagRow  == [file_id : RowIDs, tags : SUBSET Tags]

Statements == {"queryHash", "insertHash", "queryInfo", "insertInfo"}
Errors     == {"none", "sql", "unique", "foreignKey"}
FileStored == [FileHash : BOOLEAN, FileInfo : BOOLEAN, err : Errors]

NothingStored == [FileHash |-> FALSE, FileInfo |-> FALSE, err |-> "none"]

(* What a statement of Store adds to its result. *)
FailedBy(r, e) == [r EXCEPT !.err = e]
HashWritten(r) == [r EXCEPT !.FileHash = TRUE]
InfoWritten(r) == [r EXCEPT !.FileInfo = TRUE]

(* FileStored.Dirty: something was written. *)
Dirty(r) == r.FileHash \/ r.FileInfo

(* The files a search of the index can return. *)
Catalogued == {r.file : r \in fileInfo}

(* UNIQUE (file_hash), and what the SELECT of saveFileHash looks for. *)
HashKnown(h) == \E r \in fileHashes : r.file_hash = h

(* Mutants of InfoKnown: no look before the INSERT; the host is left out of
   the WHERE clause. *)
NeverKnown(f)   == FALSE
KnownAnyHost(f) == \E r \in fileInfo :
                     r.file.path = f.path /\ r.file.hash = f.hash

(* What the SELECT of saveFileInfo looks for: path, host and hash agree. *)
InfoKnown(f) == \E r \in fileInfo : r.file = f

(* Mutant of ReferenceHolds: a connection without PRAGMA foreign_keys. *)
NoForeignKeys(id) == TRUE

(* FOREIGN KEY (hash_id), which the connection of a store enforces. *)
ReferenceHolds(id) == \E r \in fileHashes : r.id = id

(* Mutants of the next hash id: a rowid without AUTOINCREMENT, which is the
   largest id in the table plus one; an id that starts at zero. *)
ReusedHashID ==
  IF fileHashes = {} THEN 1
  ELSE 1 + (CHOOSE n \in {r.id : r \in fileHashes} :
              \A r \in fileHashes : r.id <= n)
ZeroHashID == lastHashID

NextHashID == lastHashID + 1
NextInfoID == lastInfoID + 1

-----------------------------------------------------------------------------
StoreTypeOK ==
  /\ fileHashes \subseteq HashRow
  /\ fileInfo \subseteq InfoRow
  /\ fileTags \subseteq TagRow
  /\ lastHashID \in Nat
  /\ lastInfoID \in Nat
  /\ pc \in [Stores -> Statements \cup {"idle", "done"}]
  /\ arg \in [Stores -> Files \cup {NoFile}]
  /\ hashID \in [Stores -> RowIDs \cup {NoID}]
  /\ out \in [Stores -> FileStored]
  /\ purged \in [Stores -> SUBSET Hosts]
  /\ admin \in Hosts \cup {NoHost}
  /\ purges \in 0..MaxPurges
  /\ admin # NoHost => purges < MaxPurges
  /\ \A s \in Stores : pc[s] # "idle" => arg[s] \in Files

(* A new database: the schema has just been created. *)
StoreInit ==
  /\ fileHashes = {} /\ fileInfo = {} /\ fileTags = {}
  /\ lastHashID = 0 /\ lastInfoID = 0
  /\ pc = [s \in Stores |-> "idle"]
  /\ arg = [s \in Stores |-> NoFile]
  /\ hashID = [s \in Stores |-> NoID]
  /\ out = [s \in Stores |-> NothingStored]
  /\ purged = [s \in Stores |-> {}]
  /\ admin = NoHost
  /\ purges = 0

-----------------------------------------------------------------------------
(* sqliteStorage.Store, called by the message loop of a listener. *)
Store(s, f) ==
  /\ pc[s] = "idle"
  /\ pc' = [pc EXCEPT ![s] = "queryHash"]
  /\ arg' = [arg EXCEPT ![s] = f]
  /\ UNCHANGED <<tables, hashID, out, purged, adminVars>>

(* saveFileHash: SELECT id FROM file_hashes WHERE file_hash = ? *)
QueryFileHash(s) ==
  /\ pc[s] = "queryHash"
  /\ \/ \E r \in fileHashes :
          /\ r.file_hash = arg[s].hash
          /\ hashID' = [hashID EXCEPT ![s] = r.id]
          /\ pc' = [pc EXCEPT ![s] = "queryInfo"]
     \/ /\ ~HashKnown(arg[s].hash)
        /\ pc' = [pc EXCEPT ![s] = "insertHash"]
        /\ UNCHANGED hashID
  /\ UNCHANGED <<tables, arg, out, purged, adminVars>>

(* saveFileHash: INSERT INTO file_hashes.  Another process may have inserted
   the hash since the SELECT, and then UNIQUE makes this one fail. *)
InsertHash(s) ==
  /\ pc[s] = "insertHash"
  /\ \/ /\ ~HashKnown(arg[s].hash)
        /\ NextHashID <= MaxID
        /\ fileHashes' = fileHashes \cup
             {[id |-> NextHashID, file_hash |-> arg[s].hash]}
        /\ lastHashID' = NextHashID
        /\ hashID' = [hashID EXCEPT ![s] = NextHashID]
        /\ out' = [out EXCEPT ![s] = HashWritten(@)]
        /\ pc' = [pc EXCEPT ![s] = "queryInfo"]
     \/ /\ HashKnown(arg[s].hash)
        /\ out' = [out EXCEPT ![s] = FailedBy(@, "unique")]
        /\ pc' = [pc EXCEPT ![s] = "done"]
        /\ UNCHANGED <<fileHashes, lastHashID, hashID>>
  /\ UNCHANGED <<fileInfo, fileTags, lastInfoID, arg, purged, adminVars>>

(* saveFileInfo: SELECT id FROM file_info WHERE path, host, hash *)
QueryFileInfo(s) ==
  /\ pc[s] = "queryInfo"
  /\ pc' = [pc EXCEPT ![s] = IF InfoKnown(arg[s]) THEN "done" ELSE "insertInfo"]
  /\ UNCHANGED <<tables, arg, hashID, out, purged, adminVars>>

(* saveFileInfo: INSERT INTO file_info with the hash id read two statements
   ago.  The row it names may be gone, and then the foreign key fails. *)
InsertInfo(s) ==
  /\ pc[s] = "insertInfo"
  /\ \/ /\ ReferenceHolds(hashID[s])
        /\ NextInfoID <= MaxID
        /\ fileInfo' = fileInfo \cup
             {[id |-> NextInfoID, file |-> arg[s], hash_id |-> hashID[s]]}
        /\ lastInfoID' = NextInfoID
        /\ out' = [out EXCEPT ![s] = InfoWritten(@)]
     \/ /\ ~ReferenceHolds(hashID[s])
        /\ out' = [out EXCEPT ![s] = FailedBy(@, "foreignKey")]
        /\ UNCHANGED <<fileInfo, lastInfoID>>
  /\ pc' = [pc EXCEPT ![s] = "done"]
  /\ UNCHANGED <<fileHashes, fileTags, lastHashID, arg, hashID, purged, adminVars>>

(* Any statement may fail and change nothing: the database is locked for
   longer than busy_timeout, or the disk is full. *)
SqlError(s) ==
  /\ pc[s] \in Statements
  /\ out' = [out EXCEPT ![s] = FailedBy(@, "sql")]
  /\ pc' = [pc EXCEPT ![s] = "done"]
  /\ UNCHANGED <<tables, arg, hashID, purged, adminVars>>

EndCall(s) ==
  /\ pc' = [pc EXCEPT ![s] = "idle"]
  /\ arg' = [arg EXCEPT ![s] = NoFile]
  /\ hashID' = [hashID EXCEPT ![s] = NoID]
  /\ out' = [out EXCEPT ![s] = NothingStored]
  /\ purged' = [purged EXCEPT ![s] = {}]
  /\ UNCHANGED <<tables, adminVars>>

(* Store has returned to the message loop. *)
Return(s) == pc[s] = "done" /\ EndCall(s)

(* The process ends in the middle of a call; statements that ran stay. *)
Exit(s) == pc[s] # "idle" /\ EndCall(s)

-----------------------------------------------------------------------------
RowsOf(h) == {r \in fileInfo : r.file.host = h}

(* `hs admin delete-host`: SELECT COUNT( * ), outside the transaction; without
   rows the command stops, else it asks for confirmation. *)
CountFiles(h) ==
  /\ admin = NoHost
  /\ purges < MaxPurges
  /\ RowsOf(h) # {}
  /\ admin' = h
  /\ UNCHANGED <<tables, calls, purges>>

(* The answer is no, it was a dry run, or the transaction was rolled back. *)
AbortDelete ==
  /\ admin # NoHost
  /\ admin' = NoHost
  /\ UNCHANGED <<tables, calls, purges>>

(* Mutants of DeletedInfo and of DeletedTags: every row that shares a hash with
   a deleted one goes too; the tags stay. *)
DeletedWithCopies(h) ==
  {r \in fileInfo : \E q \in RowsOf(h) : q.hash_id = r.hash_id}
NoDeletedTags(h) == {}

DeletedInfo(h) == RowsOf(h)
DeletedTags(h) == {t \in fileTags : \E r \in RowsOf(h) : r.id = t.file_id}

(* DELETE FROM file_hashes WHERE id NOT IN (SELECT hash_id FROM file_info),
   run after the rows of h are gone. *)
OrphanHashes(h) ==
  {r \in fileHashes : \A q \in fileInfo \ DeletedInfo(h) : q.hash_id # r.id}

(* The transaction of delete-host: tags, file_info, orphaned hashes. *)
DeleteFilesByHost ==
  /\ admin # NoHost
  /\ fileTags' = fileTags \ DeletedTags(admin)
  /\ fileInfo' = fileInfo \ DeletedInfo(admin)
  /\ fileHashes' = fileHashes \ OrphanHashes(admin)
  /\ purged' = [s \in Stores |->
                  IF pc[s] = "idle" THEN purged[s] ELSE purged[s] \cup {admin}]
  /\ admin' = NoHost
  /\ purges' = purges + 1
  /\ UNCHANGED <<lastHashID, lastInfoID, pc, arg, hashID, out>>

(* Mutant of TaggedAs: a second `hs tag` inserts a second row. *)
TaggedTwice(id, ts) == fileTags \cup {[file_id |-> id, tags |-> ts]}

(* The row of a tagged file is inserted, or updated to the new tags. *)
TaggedAs(id, ts) ==
  {t \in fileTags : t.file_id # id} \cup {[file_id |-> id, tags |-> ts]}

(* `hs tag` of a file on this host: one row with its hash is looked up
   (LIMIT 1) and tagged, in one transaction.  The hash is printed without
   leading zeros, so a hash that has one is never found. *)
TagFile(h, hash, ts) ==
  /\ hash \notin ZeroLed
  /\ \E r \in RowsOf(h) :
       /\ r.file.hash = hash
       /\ fileTags' = TaggedAs(r.id, ts)
  /\ UNCHANGED <<fileHashes, fileInfo, lastHashID, lastInfoID, calls, adminVars>>

-----------------------------------------------------------------------------
SaveStep(s) ==
  \/ QueryFileHash(s)
  \/ InsertHash(s)
  \/ QueryFileInfo(s)
  \/ InsertInfo(s)
  \/ SqlError(s)

(* The steps of the hs tool that delete no file. *)
AdminStep ==
  \/ \E h \in Hosts : CountFiles(h)
  \/ AbortDelete
  \/ \E h \in Hosts, hash \in Hashes, ts \in SUBSET Tags \ {{}} :
       TagFile(h, hash, ts)

StoreNext ==
  \/ \E s \in Stores :
       \/ \E f \in Files : Store(s, f)
       \/ SaveStep(s)
       \/ Return(s)
       \/ Exit(s)
  \/ AdminStep
  \/ DeleteFilesByHost

StoreSpec == StoreInit /\ [][StoreNext]_storeVars

-----------------------------------------------------------------------------
(* Every row of file_info names a row of file_hashes, and the one that holds
   its own hash: the id a Store call keeps between its statements is never
   taken for another hash, whatever delete-host removed in between. *)
RefIntegrity ==
  \A r \in fileInfo : \E q \in fileHashes :
    q.id = r.hash_id /\ q.file_hash = r.file.hash

(* A file (path, host and hash) has at most one row.  The code looks before
   it inserts; nothing in the schema says so. *)
NoDuplicateRows ==
  \A q, r \in fileInfo : q.file = r.file => q = r

(* A row of file_tags belongs to a row of file_info that exists, and no file
   has two: tags are neither left behind by delete-host nor doubled by two
   `hs tag` commands. *)
TagIntegrity ==
  /\ \A t \in fileTags : \E r \in fileInfo : r.id = t.file_id
  /\ \A t, u \in fileTags : t.file_id = u.file_id => t = u

(* A Store call that reports no error has left its file in the index, unless
   the files of that host were deleted while it ran. *)
ResultTruthful ==
  \A s \in Stores :
    pc[s] = "done" /\ out[s].err = "none"
      => arg[s] \in Catalogued \/ arg[s].host \in purged[s]

(* A file leaves the index only when delete-host is run for its host, never
   with the cleanup of another host or with another file. *)
OnlyOwnHostDeletes ==
  [][\A f \in Files : f \in Catalogued /\ f \notin Catalogued'
       => f.host = admin /\ purges' = purges + 1]_storeVars
=============================================================================
