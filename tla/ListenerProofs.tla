---------------------------- MODULE ListenerProofs ----------------------------
(***************************************************************************)
(* What holds of the index and of its writers.  The first part is about    *)
(* FileStore, for every set of processes, files and hosts; its invariants  *)
(* are proved in the order in which they rest on each other.  The second   *)
(* part is about the message loops of any number of listeners over any     *)
(* stream: they use the index as FileStore says, so that the first part    *)
(* carries over; an acknowledgement is accounted for; and the whole is an  *)
(* implementation of Catalog.                                              *)
(***************************************************************************)
EXTENDS Listener, TLAPS

USE FilesAssumption DEF RowIDs

(* What the statements do to the result of a Store call. *)
LEMMA ResultUpdates ==
  ASSUME NEW r \in FileStored, NEW e \in Errors
  PROVE  /\ FailedBy(r, e) \in FileStored
         /\ HashWritten(r) \in FileStored
         /\ InfoWritten(r) \in FileStored
  BY DEF FileStored, FailedBy, HashWritten, InfoWritten

(* A step of any program keeps the types, in particular of ids: a call that is
   at a statement has a file. *)
LEMMA TypeStep == StoreTypeOK /\ [StoreNext]_storeVars => StoreTypeOK'
<1> SUFFICES ASSUME StoreTypeOK, [StoreNext]_storeVars
             PROVE  StoreTypeOK'
  OBVIOUS
<1> USE DEF StoreTypeOK, tables, calls, adminVars
<1>1. CASE UNCHANGED storeVars
  BY <1>1 DEF storeVars
<1>2. ASSUME NEW s \in Stores, NEW f \in Files, Store(s, f)
      PROVE  StoreTypeOK'
  BY <1>2 DEF Store, Statements
<1>3. ASSUME NEW s \in Stores, QueryFileHash(s)
      PROVE  StoreTypeOK'
  BY <1>3 DEF QueryFileHash, Statements, HashRow
<1>4. ASSUME NEW s \in Stores, InsertHash(s)
      PROVE  StoreTypeOK'
  <2>1. arg[s].hash \in Hashes
    BY <1>4 DEF InsertHash
  <2>2. NextHashID \in Nat \ {0}
    BY DEF NextHashID
  <2>3. CASE HashKnown(arg[s].hash)
    <3>1. out' \in [Stores -> FileStored]
      BY <1>4, <2>3, ResultUpdates DEF InsertHash, Errors
    <3>2. /\ pc' = [pc EXCEPT ![s] = "done"]
          /\ arg' = arg /\ arg[s] \in Files
          /\ UNCHANGED <<fileHashes, lastHashID, hashID, fileInfo, fileTags,
                         lastInfoID, purged, admin, purges>>
      BY <1>4, <2>3 DEF InsertHash
    <3> QED
      BY <3>1, <3>2
  <2>4. CASE ~HashKnown(arg[s].hash)
    <3>1. out' \in [Stores -> FileStored]
      BY <1>4, <2>4, ResultUpdates DEF InsertHash, Errors
    <3>2. fileHashes' \subseteq HashRow
      BY <1>4, <2>1, <2>2, <2>4 DEF InsertHash, HashRow
    <3>3. /\ pc' = [pc EXCEPT ![s] = "queryInfo"]
          /\ arg' = arg /\ arg[s] \in Files
          /\ hashID' = [hashID EXCEPT ![s] = NextHashID]
          /\ lastHashID' = NextHashID
          /\ UNCHANGED <<fileInfo, fileTags, lastInfoID, purged, admin, purges>>
      BY <1>4, <2>4 DEF InsertHash
    <3> QED
      BY <2>2, <3>1, <3>2, <3>3 DEF Statements
  <2> QED BY <2>3, <2>4
<1>5. ASSUME NEW s \in Stores, QueryFileInfo(s)
      PROVE  StoreTypeOK'
  BY <1>5 DEF QueryFileInfo, Statements
<1>6. ASSUME NEW s \in Stores, InsertInfo(s)
      PROVE  StoreTypeOK'
  <2>1. NextInfoID \in Nat \ {0}
    BY DEF NextInfoID
  <2>2. CASE ~ReferenceHolds(hashID[s])
    <3>1. out' \in [Stores -> FileStored]
      BY <1>6, <2>2, ResultUpdates DEF InsertInfo, Errors
    <3>2. /\ pc' = [pc EXCEPT ![s] = "done"]
          /\ arg' = arg /\ arg[s] \in Files
          /\ UNCHANGED <<fileHashes, lastHashID, hashID, fileInfo, fileTags,
                         lastInfoID, purged, admin, purges>>
      BY <1>6, <2>2 DEF InsertInfo
    <3> QED
      BY <3>1, <3>2
  <2>3. CASE ReferenceHolds(hashID[s])
    <3>1. hashID[s] \in Nat \ {0}
      BY <2>3 DEF ReferenceHolds, HashRow
    <3>2. arg[s] \in Files
      BY <1>6 DEF InsertInfo
    <3>3. out' \in [Stores -> FileStored]
      BY <1>6, <2>3, ResultUpdates DEF InsertInfo, Errors
    <3>4. fileInfo' \subseteq InfoRow
      BY <1>6, <2>1, <2>3, <3>1, <3>2 DEF InsertInfo, InfoRow
    <3>5. /\ pc' = [pc EXCEPT ![s] = "done"]
          /\ arg' = arg
          /\ lastInfoID' = NextInfoID
          /\ UNCHANGED <<fileHashes, lastHashID, hashID, fileTags, purged,
                         admin, purges>>
      BY <1>6, <2>3 DEF InsertInfo
    <3> QED
      BY <2>1, <3>2, <3>3, <3>4, <3>5
  <2> QED BY <2>2, <2>3
<1>7. ASSUME NEW s \in Stores, SqlError(s)
      PROVE  StoreTypeOK'
  BY <1>7, ResultUpdates DEF SqlError, Statements, Errors
<1>8. ASSUME NEW s \in Stores, EndCall(s)
      PROVE  StoreTypeOK'
  BY <1>8 DEF EndCall, NothingStored, FileStored, Errors
<1>9. ASSUME NEW h \in Hosts, CountFiles(h)
      PROVE  StoreTypeOK'
  BY <1>9 DEF CountFiles
<1>10. CASE AbortDelete
  BY <1>10 DEF AbortDelete
<1>11. ASSUME NEW h \in Hosts, NEW hash \in Hashes,
              NEW ts \in SUBSET Tags, TagFile(h, hash, ts)
       PROVE  StoreTypeOK'
  BY <1>11 DEF TagFile, TaggedAs, RowsOf, TagRow, InfoRow
<1>12. CASE DeleteFilesByHost
  BY <1>12 DEF DeleteFilesByHost
<1> QED
  BY <1>1, <1>2, <1>3, <1>4, <1>5, <1>6, <1>7, <1>8, <1>9, <1>10, <1>11,
     <1>12 DEF StoreNext, SaveStep, AdminStep, Return, Exit

(* A new database has the types. *)
LEMMA TypeInit == StoreInit => StoreTypeOK
  BY DEF StoreInit, StoreTypeOK, NothingStored, FileStored, Errors

(* The sets of rows and the functions of the processes have their types. *)
THEOREM TypeCorrect == StoreSpec => []StoreTypeOK
  BY TypeInit, TypeStep, PTL DEF StoreSpec

-----------------------------------------------------------------------------
(* RefIntegrity is not inductive: it also takes that ids of file_hashes are
   unique and come from the sequence, and that the id a call holds either
   names the row of its own hash or no row at all, and will never name
   another because the sequence has passed it. *)
HashIDsFromSequence ==
  /\ \A r \in fileHashes : r.id <= lastHashID
  /\ \A q, r \in fileHashes : q.id = r.id => q = r

HeldIDs ==
  \A s \in Stores : pc[s] \in {"queryInfo", "insertInfo"} =>
    /\ hashID[s] \in RowIDs
    /\ hashID[s] <= lastHashID
    /\ \A r \in fileHashes : r.id = hashID[s] => r.file_hash = arg[s].hash

RefInv == HashIDsFromSequence /\ HeldIDs /\ RefIntegrity

(* Every row of file_info names the row of file_hashes with its own hash,
   with any number of processes and of delete-host commands. *)
THEOREM ReferencesHold == StoreSpec => []RefIntegrity
<1>1. StoreInit => RefInv
  BY DEF StoreInit, RefInv, HashIDsFromSequence, HeldIDs, RefIntegrity
<1>2. StoreTypeOK /\ RefInv /\ [StoreNext]_storeVars => RefInv'
  <2> SUFFICES ASSUME StoreTypeOK, RefInv, [StoreNext]_storeVars
               PROVE  RefInv'
    OBVIOUS
  <2> USE DEF RefInv
  <2>0. /\ lastHashID \in Nat
        /\ \A r \in fileHashes : r.id \in Nat \ {0}
        /\ pc \in [Stores -> Statements \cup {"idle", "done"}]
        /\ arg \in [Stores -> Files \cup {NoFile}]
        /\ hashID \in [Stores -> RowIDs \cup {NoID}]
    BY DEF StoreTypeOK, HashRow
  <2>1. CASE UNCHANGED <<fileHashes, fileInfo, lastHashID, pc, arg, hashID>>
    BY <2>1 DEF HashIDsFromSequence, HeldIDs, RefIntegrity
  <2>2. ASSUME NEW s \in Stores, NEW f \in Files, Store(s, f)
        PROVE  RefInv'
    BY <2>0, <2>2
       DEF Store, tables, HashIDsFromSequence, HeldIDs, RefIntegrity
  <2>3. ASSUME NEW s \in Stores, QueryFileHash(s)
        PROVE  RefInv'
    <3>1. UNCHANGED <<fileHashes, fileInfo, lastHashID, arg>>
      BY <2>3 DEF QueryFileHash, tables
    <3>2. HashIDsFromSequence' /\ RefIntegrity'
      BY <3>1 DEF HashIDsFromSequence, RefIntegrity
    <3>3. HeldIDs'
      <4>1. CASE ~HashKnown(arg[s].hash)
        BY <2>0, <2>3, <3>1, <4>1 DEF QueryFileHash, HashKnown, HeldIDs
      <4>2. CASE HashKnown(arg[s].hash)
        <5>1. PICK r \in fileHashes :
                /\ r.file_hash = arg[s].hash
                /\ hashID' = [hashID EXCEPT ![s] = r.id]
                /\ pc' = [pc EXCEPT ![s] = "queryInfo"]
          BY <2>3, <4>2 DEF QueryFileHash
        <5> QED
          BY <2>0, <3>1, <5>1 DEF HeldIDs, HashIDsFromSequence
      <4> QED BY <4>1, <4>2
    <3> QED BY <3>2, <3>3
  <2>4. ASSUME NEW s \in Stores, InsertHash(s)
        PROVE  RefInv'
    <3>1. CASE HashKnown(arg[s].hash)
      BY <2>0, <2>4, <3>1
         DEF InsertHash, HashIDsFromSequence, HeldIDs, RefIntegrity
    <3>2. CASE ~HashKnown(arg[s].hash)
      <4> DEFINE new == [id |-> NextHashID, file_hash |-> arg[s].hash]
      <4>1. /\ fileHashes' = fileHashes \cup {new}
            /\ lastHashID' = NextHashID
            /\ hashID' = [hashID EXCEPT ![s] = NextHashID]
            /\ pc' = [pc EXCEPT ![s] = "queryInfo"]
            /\ UNCHANGED <<fileInfo, arg>>
        BY <2>4, <3>2 DEF InsertHash
      <4>2. /\ NextHashID \in Nat \ {0}
            /\ NextHashID = lastHashID + 1
            /\ new.id = NextHashID /\ new.file_hash = arg[s].hash
        BY <2>0 DEF NextHashID
      <4> HIDE DEF new
      <4>3. HashIDsFromSequence'
        BY <2>0, <4>1, <4>2 DEF HashIDsFromSequence
      <4>4. HeldIDs'
        BY <2>0, <4>1, <4>2 DEF HeldIDs, HashIDsFromSequence
      <4>5. RefIntegrity'
        BY <4>1 DEF RefIntegrity
      <4> QED BY <4>3, <4>4, <4>5
    <3> QED BY <3>1, <3>2
  <2>5. ASSUME NEW s \in Stores, QueryFileInfo(s)
        PROVE  RefInv'
    BY <2>0, <2>5
       DEF QueryFileInfo, tables, HashIDsFromSequence, HeldIDs, RefIntegrity
  <2>6. ASSUME NEW s \in Stores, InsertInfo(s)
        PROVE  RefInv'
    <3>1. /\ pc[s] = "insertInfo"
          /\ pc' = [pc EXCEPT ![s] = "done"]
          /\ UNCHANGED <<fileHashes, lastHashID, arg, hashID>>
      BY <2>6 DEF InsertInfo
    <3>2. HashIDsFromSequence' /\ HeldIDs'
      BY <2>0, <3>1 DEF HashIDsFromSequence, HeldIDs
    <3>3. RefIntegrity'
      <4>1. CASE fileInfo' = fileInfo
        BY <3>1, <4>1 DEF RefIntegrity
      <4>2. CASE ReferenceHolds(hashID[s])
        <5> DEFINE new == [id |-> NextInfoID, file |-> arg[s],
                           hash_id |-> hashID[s]]
        <5>1. fileInfo' = fileInfo \cup {new}
          BY <2>6, <4>2 DEF InsertInfo
        <5>2. \E q \in fileHashes :
                q.id = new.hash_id /\ q.file_hash = new.file.hash
          BY <3>1, <4>2 DEF ReferenceHolds, HeldIDs
        <5> QED
          BY <3>1, <5>1, <5>2 DEF RefIntegrity
      <4> QED
        BY <2>6, <4>1, <4>2 DEF InsertInfo
    <3> QED BY <3>2, <3>3
  <2>7. ASSUME NEW s \in Stores, SqlError(s)
        PROVE  RefInv'
    BY <2>0, <2>7
       DEF SqlError, tables, HashIDsFromSequence, HeldIDs, RefIntegrity
  <2>8. ASSUME NEW s \in Stores, EndCall(s)
        PROVE  RefInv'
    BY <2>0, <2>8
       DEF EndCall, tables, HashIDsFromSequence, HeldIDs, RefIntegrity
  <2>9. CASE DeleteFilesByHost
    <3>1. /\ fileInfo' = fileInfo \ DeletedInfo(admin)
          /\ fileHashes' = fileHashes \ OrphanHashes(admin)
          /\ UNCHANGED <<lastHashID, pc, arg, hashID>>
      BY <2>9 DEF DeleteFilesByHost
    <3>2. HashIDsFromSequence' /\ HeldIDs'
      BY <3>1 DEF HashIDsFromSequence, HeldIDs
    <3>3. RefIntegrity'
      BY <3>1 DEF RefIntegrity, OrphanHashes
    <3> QED BY <3>2, <3>3
  <2>10. CASE AdminStep
    BY <2>1, <2>10
       DEF AdminStep, CountFiles, AbortDelete, TagFile, tables, calls
  <2>11. CASE UNCHANGED storeVars
    BY <2>1, <2>11 DEF storeVars, tables, calls
  <2> QED
    BY <2>2, <2>3, <2>4, <2>5, <2>6, <2>7, <2>8, <2>9, <2>10, <2>11
       DEF StoreNext, SaveStep, Return, Exit
<1> QED
  BY <1>1, <1>2, TypeCorrect, PTL DEF StoreSpec, RefInv

-----------------------------------------------------------------------------
(* A call whose INSERT comes next has seen that there is no row for its file,
   and with one process nobody has inserted it since. *)
InfoStillUnknown ==
  \A s \in Stores : pc[s] = "insertInfo" => ~InfoKnown(arg[s])

(* With one store process no file has two rows: the look before the INSERT
   suffices, whatever delete-host removes in between. *)
THEOREM OneProcessNoDuplicates ==
  ASSUME \A s, t \in Stores : s = t
  PROVE  StoreSpec => []NoDuplicateRows
<1> DEFINE Inv == NoDuplicateRows /\ InfoStillUnknown
<1>1. StoreInit => Inv
  BY DEF StoreInit, NoDuplicateRows, InfoStillUnknown
<1>2. StoreTypeOK /\ Inv /\ [StoreNext]_storeVars => Inv'
  <2> SUFFICES ASSUME StoreTypeOK, Inv, [StoreNext]_storeVars
               PROVE  Inv'
    OBVIOUS
  <2>0. /\ pc \in [Stores -> Statements \cup {"idle", "done"}]
        /\ arg \in [Stores -> Files \cup {NoFile}]
    BY DEF StoreTypeOK
  <2>1. CASE UNCHANGED <<fileInfo, pc, arg>>
    BY <2>1 DEF NoDuplicateRows, InfoStillUnknown, InfoKnown
  <2>2. ASSUME NEW s \in Stores,
               Store(s, arg'[s]) \/ QueryFileHash(s) \/ InsertHash(s)
                 \/ SqlError(s) \/ EndCall(s)
        PROVE  Inv'
    <3>1. fileInfo' = fileInfo /\ pc'[s] # "insertInfo"
      BY <2>0, <2>2
         DEF Store, QueryFileHash, InsertHash, SqlError, EndCall, tables
    <3>2. NoDuplicateRows'
      BY <3>1 DEF NoDuplicateRows
    <3>3. \A t \in Stores : t = s
      OBVIOUS
    <3>4. InfoStillUnknown'
      BY <3>1, <3>3 DEF InfoStillUnknown
    <3> QED BY <3>2, <3>4
  <2>3. ASSUME NEW s \in Stores, QueryFileInfo(s)
        PROVE  Inv'
    BY <2>0, <2>3
       DEF QueryFileInfo, tables, NoDuplicateRows, InfoStillUnknown, InfoKnown
  <2>4. ASSUME NEW s \in Stores, InsertInfo(s)
        PROVE  Inv'
    <3>1. /\ pc'[s] # "insertInfo"
          /\ ~InfoKnown(arg[s])
          /\ \A t \in Stores : t = s
      BY <2>0, <2>4 DEF InsertInfo, InfoStillUnknown
    <3>2. InfoStillUnknown'
      BY <3>1 DEF InfoStillUnknown
    <3>3. NoDuplicateRows'
      <4> DEFINE new == [id |-> NextInfoID, file |-> arg[s],
                         hash_id |-> hashID[s]]
      <4>1. fileInfo' = fileInfo \/ fileInfo' = fileInfo \cup {new}
        BY <2>4 DEF InsertInfo
      <4>2. new.file = arg[s]
        OBVIOUS
      <4> HIDE DEF new
      <4> QED
        BY <3>1, <4>1, <4>2 DEF NoDuplicateRows, InfoKnown
    <3> QED BY <3>2, <3>3
  <2>5. CASE DeleteFilesByHost
    BY <2>5
       DEF DeleteFilesByHost, NoDuplicateRows, InfoStillUnknown, InfoKnown
  <2>6. CASE AdminStep
    BY <2>1, <2>6
       DEF AdminStep, CountFiles, AbortDelete, TagFile, tables, calls
  <2>7. CASE UNCHANGED storeVars
    BY <2>1, <2>7 DEF storeVars, tables, calls
  <2>8. ASSUME NEW s \in Stores, NEW f \in Files, Store(s, f)
        PROVE  Inv'
    <3>1. arg'[s] = f
      BY <2>0, <2>8 DEF Store
    <3> QED
      BY <2>2, <2>8, <3>1
  <2> QED
    BY <2>2, <2>3, <2>4, <2>5, <2>6, <2>7, <2>8
       DEF StoreNext, SaveStep, Return, Exit
<1> QED
  BY <1>1, <1>2, TypeCorrect, PTL DEF StoreSpec

-----------------------------------------------------------------------------
(* A Store call that reports no error has left its file in the index, unless
   delete-host removed the files of that host while it ran. *)
THEOREM ResultsAreTrue == StoreSpec => []ResultTruthful
<1>1. StoreInit => ResultTruthful
  BY DEF StoreInit, ResultTruthful
<1>2. StoreTypeOK /\ ResultTruthful /\ [StoreNext]_storeVars => ResultTruthful'
  <2> SUFFICES ASSUME StoreTypeOK, ResultTruthful, [StoreNext]_storeVars
               PROVE  ResultTruthful'
    OBVIOUS
  <2> USE DEF ResultTruthful, Catalogued
  <2>0. /\ pc \in [Stores -> Statements \cup {"idle", "done"}]
        /\ arg \in [Stores -> Files \cup {NoFile}]
        /\ out \in [Stores -> FileStored]
        /\ purged \in [Stores -> SUBSET Hosts]
    BY DEF StoreTypeOK
  <2>e. \A r \in FileStored, e \in Errors : FailedBy(r, e).err = e
    BY DEF FileStored, FailedBy
  <2>1. CASE UNCHANGED <<fileInfo, pc, arg, out, purged>>
    BY <2>1
  <2>2. ASSUME NEW s \in Stores, fileInfo \subseteq fileInfo', purged' = purged,
               \A t \in Stores \ {s} :
                 pc'[t] = pc[t] /\ arg'[t] = arg[t] /\ out'[t] = out[t],
               pc'[s] = "done" /\ out'[s].err = "none"
                 => arg'[s] \in Catalogued'
        PROVE  ResultTruthful'
    BY <2>2
  <2>3. ASSUME NEW s \in Stores, NEW f \in Files, Store(s, f)
        PROVE  ResultTruthful'
    BY <2>0, <2>3 DEF Store, tables
  <2>4. ASSUME NEW s \in Stores, QueryFileHash(s)
        PROVE  ResultTruthful'
    BY <2>0, <2>4 DEF QueryFileHash, tables
  <2>5. ASSUME NEW s \in Stores, InsertHash(s)
        PROVE  ResultTruthful'
    BY <2>0, <2>5, <2>e DEF InsertHash, Errors
  <2>6. ASSUME NEW s \in Stores, QueryFileInfo(s)
        PROVE  ResultTruthful'
    BY <2>0, <2>6 DEF QueryFileInfo, tables, InfoKnown
  <2>7. ASSUME NEW s \in Stores, InsertInfo(s)
        PROVE  ResultTruthful'
    <3>1. /\ fileInfo \subseteq fileInfo' /\ purged' = purged /\ arg' = arg
          /\ \A t \in Stores \ {s} : pc'[t] = pc[t] /\ out'[t] = out[t]
      BY <2>0, <2>7 DEF InsertInfo
    <3>2. CASE ReferenceHolds(hashID[s])
      <4>1. [id |-> NextInfoID, file |-> arg[s], hash_id |-> hashID[s]]
              \in fileInfo'
        BY <2>7, <3>2 DEF InsertInfo
      <4>2. arg[s] \in Catalogued'
        BY <4>1
      <4> QED BY <2>2, <3>1, <4>2
    <3>3. CASE ~ReferenceHolds(hashID[s])
      <4>1. out'[s].err = "foreignKey"
        BY <2>0, <2>7, <2>e, <3>3 DEF InsertInfo, Errors
      <4> QED BY <2>2, <3>1, <4>1
    <3> QED BY <3>2, <3>3
  <2>8. ASSUME NEW s \in Stores, SqlError(s)
        PROVE  ResultTruthful'
    BY <2>0, <2>8, <2>e DEF SqlError, Errors, tables
  <2>9. ASSUME NEW s \in Stores, EndCall(s)
        PROVE  ResultTruthful'
    BY <2>0, <2>9 DEF EndCall, tables
  <2>10. CASE DeleteFilesByHost
    <3>1. /\ UNCHANGED <<pc, arg, out>>
          /\ \A f \in Catalogued \ Catalogued' : f.host = admin
          /\ \A s \in Stores : pc[s] = "done" =>
               admin \in purged'[s] /\ purged[s] \subseteq purged'[s]
      BY <2>0, <2>10 DEF DeleteFilesByHost, DeletedInfo, RowsOf
    <3> QED BY <3>1
  <2>11. CASE AdminStep
    BY <2>1, <2>11
       DEF AdminStep, CountFiles, AbortDelete, TagFile, tables, calls
  <2>12. CASE UNCHANGED storeVars
    BY <2>1, <2>12 DEF storeVars, tables, calls
  <2> QED
    BY <2>3, <2>4, <2>5, <2>6, <2>7, <2>8, <2>9, <2>10, <2>11, <2>12
       DEF StoreNext, SaveStep, Return, Exit
<1> QED
  BY <1>1, <1>2, TypeCorrect, PTL DEF StoreSpec

-----------------------------------------------------------------------------
(* Tags belong to rows that exist, one row of tags for each file. *)
THEOREM TagsHold == StoreSpec => []TagIntegrity
<1>1. StoreInit => TagIntegrity
  BY DEF StoreInit, TagIntegrity
<1>2. TagIntegrity /\ [StoreNext]_storeVars => TagIntegrity'
  <2> SUFFICES ASSUME TagIntegrity, [StoreNext]_storeVars
               PROVE  TagIntegrity'
    OBVIOUS
  <2>1. CASE fileTags' = fileTags /\ fileInfo \subseteq fileInfo'
    BY <2>1 DEF TagIntegrity
  <2>2. ASSUME NEW s \in Stores,
               (\E f \in Files : Store(s, f)) \/ SaveStep(s) \/ EndCall(s)
        PROVE  TagIntegrity'
    BY <2>1, <2>2 DEF Store, SaveStep, QueryFileHash, InsertHash, QueryFileInfo,
                      InsertInfo, SqlError, EndCall, tables
  <2>3. ASSUME NEW h \in Hosts, NEW hash \in Hashes,
               NEW ts \in SUBSET Tags, TagFile(h, hash, ts)
        PROVE  TagIntegrity'
    <3>1. PICK r \in RowsOf(h) : fileTags' = TaggedAs(r.id, ts)
      BY <2>3 DEF TagFile
    <3>2. r \in fileInfo /\ fileInfo' = fileInfo
      BY <2>3 DEF TagFile, RowsOf
    <3> DEFINE new == [file_id |-> r.id, tags |-> ts]
    <3>3. /\ fileTags' = {t \in fileTags : t.file_id # r.id} \cup {new}
          /\ new.file_id = r.id
      BY <3>1 DEF TaggedAs
    <3> HIDE DEF new
    <3> QED
      BY <3>2, <3>3 DEF TagIntegrity
  <2>4. CASE DeleteFilesByHost
    BY <2>4 DEF DeleteFilesByHost, DeletedTags, DeletedInfo, RowsOf, TagIntegrity
  <2>5. CASE AbortDelete \/ \E h \in Hosts : CountFiles(h)
    BY <2>1, <2>5 DEF AbortDelete, CountFiles, tables
  <2>6. CASE UNCHANGED storeVars
    BY <2>1, <2>6 DEF storeVars, tables
  <2> QED
    BY <2>2, <2>3, <2>4, <2>5, <2>6 DEF StoreNext, AdminStep, Return, Exit
<1> QED
  BY <1>1, <1>2, PTL DEF StoreSpec

(* A file leaves the index only with the delete-host of its own host. *)
THEOREM DeletesAreOwn == StoreSpec => OnlyOwnHostDeletes
<1> DEFINE Own == \A f \in Files : f \in Catalogued /\ f \notin Catalogued'
                    => f.host = admin /\ purges' = purges + 1
<1>1. [StoreNext]_storeVars => Own
  <2> SUFFICES ASSUME [StoreNext]_storeVars
               PROVE  Own
    OBVIOUS
  <2>1. CASE fileInfo \subseteq fileInfo'
    BY <2>1 DEF Catalogued
  <2>2. CASE DeleteFilesByHost
    BY <2>2 DEF DeleteFilesByHost, DeletedInfo, RowsOf, Catalogued
  <2>3. ASSUME NEW s \in Stores,
               (\E f \in Files : Store(s, f)) \/ SaveStep(s) \/ EndCall(s)
        PROVE  Own
    BY <2>1, <2>3 DEF Store, SaveStep, QueryFileHash, InsertHash, QueryFileInfo,
                      InsertInfo, SqlError, EndCall, tables
  <2>4. CASE AdminStep
    BY <2>1, <2>4 DEF AdminStep, CountFiles, AbortDelete, TagFile, tables
  <2>5. CASE UNCHANGED storeVars
    BY <2>1, <2>5 DEF storeVars, tables
  <2> QED
    BY <2>2, <2>3, <2>4, <2>5 DEF StoreNext, Return, Exit
<1>2. [StoreNext]_storeVars => [Own]_storeVars
  BY <1>1
<1> QED
  BY <1>2, PTL DEF StoreSpec, OnlyOwnHostDeletes

-----------------------------------------------------------------------------
(* A call begins without a result; it has inserted a row only when it is over
   and reports no error. *)
InsertIsLast ==
  \A s \in Stores :
    /\ pc[s] = "idle" => out[s] = NothingStored
    /\ out[s].FileInfo => pc[s] = "done" /\ out[s].err = "none"
    /\ out[s].FileHash => pc[s] \in {"queryInfo", "insertInfo", "done"}
    /\ out[s].err # "none" => pc[s] = "done"

(* The INSERT into file_info is the last statement of a call. *)
THEOREM InsertsAreLast == StoreSpec => []InsertIsLast
<1>1. StoreInit => InsertIsLast
  BY DEF StoreInit, InsertIsLast, NothingStored
<1>2. StoreTypeOK /\ InsertIsLast /\ [StoreNext]_storeVars => InsertIsLast'
  <2> SUFFICES ASSUME StoreTypeOK, InsertIsLast, [StoreNext]_storeVars
               PROVE  InsertIsLast'
    OBVIOUS
  <2>0. /\ pc \in [Stores -> Statements \cup {"idle", "done"}]
        /\ out \in [Stores -> FileStored]
    BY DEF StoreTypeOK
  <2>1. CASE UNCHANGED <<pc, out>>
    BY <2>1 DEF InsertIsLast
  <2>2. ASSUME NEW s \in Stores, NEW q \in Statements \cup {"idle", "done"},
               pc' = [pc EXCEPT ![s] = q], out' = out, ~out[s].FileInfo, q # "idle",
               out[s].FileHash => q \in {"queryInfo", "insertInfo", "done"},
               out[s].err = "none"
        PROVE  InsertIsLast'
    BY <2>0, <2>2 DEF InsertIsLast
  <2>3. ASSUME NEW s \in Stores, NEW r,
               out' = [out EXCEPT ![s] = r], pc' = [pc EXCEPT ![s] = "done"],
               r.FileInfo => r.err = "none"
        PROVE  InsertIsLast'
    BY <2>0, <2>3 DEF InsertIsLast
  <2>4. ASSUME NEW s \in Stores, NEW f \in Files, Store(s, f)
        PROVE  InsertIsLast'
    <3>1. out[s] = NothingStored
      BY <2>4 DEF Store, InsertIsLast
    <3>2. /\ pc' = [pc EXCEPT ![s] = "queryHash"] /\ out' = out
          /\ ~out[s].FileInfo /\ ~out[s].FileHash /\ out[s].err = "none"
      BY <2>4, <3>1 DEF Store, NothingStored
    <3> QED
      BY <2>2, <3>2 DEF Statements
  <2>5. ASSUME NEW s \in Stores, QueryFileHash(s)
        PROVE  InsertIsLast'
    BY <2>2, <2>5 DEF QueryFileHash, Statements, InsertIsLast
  <2>6. ASSUME NEW s \in Stores, InsertHash(s)
        PROVE  InsertIsLast'
    <3>1. ~out[s].FileInfo /\ out[s] \in FileStored
      BY <2>0, <2>6 DEF InsertHash, InsertIsLast
    <3>2. CASE /\ out' = [out EXCEPT ![s] = FailedBy(@, "unique")]
               /\ pc' = [pc EXCEPT ![s] = "done"]
      <4>1. ~FailedBy(out[s], "unique").FileInfo
        BY <3>1 DEF FailedBy, FileStored
      <4> QED
        BY <2>3, <3>2, <4>1
    <3>3. CASE /\ out' = [out EXCEPT ![s] = HashWritten(@)]
               /\ pc' = [pc EXCEPT ![s] = "queryInfo"]
      <4>1. ~HashWritten(out[s]).FileInfo /\ HashWritten(out[s]).err = "none"
        BY <2>6, <3>1 DEF HashWritten, FileStored, InsertHash, InsertIsLast
      <4> QED
        BY <2>0, <3>3, <4>1 DEF InsertIsLast
    <3> QED
      BY <2>6, <3>2, <3>3 DEF InsertHash
  <2>7. ASSUME NEW s \in Stores, QueryFileInfo(s)
        PROVE  InsertIsLast'
    BY <2>2, <2>7 DEF QueryFileInfo, Statements, InsertIsLast
  <2>8. ASSUME NEW s \in Stores, InsertInfo(s)
        PROVE  InsertIsLast'
    <3>1. /\ ~out[s].FileInfo /\ out[s] \in FileStored
          /\ pc' = [pc EXCEPT ![s] = "done"]
      BY <2>0, <2>8 DEF InsertInfo, InsertIsLast
    <3>2. CASE out' = [out EXCEPT ![s] = FailedBy(@, "foreignKey")]
      BY <2>0, <2>3, <3>1, <3>2 DEF FailedBy, FileStored
    <3>3. CASE out' = [out EXCEPT ![s] = InfoWritten(@)]
      <4>1. out[s].err = "none"
        BY <2>8 DEF InsertInfo, InsertIsLast
      <4> QED
        BY <2>0, <2>3, <3>1, <3>3, <4>1 DEF InfoWritten, FileStored
    <3> QED
      BY <2>8, <3>2, <3>3 DEF InsertInfo
  <2>9. ASSUME NEW s \in Stores, SqlError(s)
        PROVE  InsertIsLast'
    <3>1. /\ ~out[s].FileInfo /\ out[s] \in FileStored
      BY <2>0, <2>9 DEF SqlError, InsertIsLast, Statements
    <3> QED
      BY <2>0, <2>3, <2>9, <3>1 DEF SqlError, FailedBy, FileStored
  <2>10. ASSUME NEW s \in Stores, EndCall(s)
         PROVE  InsertIsLast'
    BY <2>0, <2>10 DEF EndCall, InsertIsLast, NothingStored
  <2>11. CASE AdminStep \/ DeleteFilesByHost
    BY <2>1, <2>11
       DEF AdminStep, CountFiles, AbortDelete, TagFile, DeleteFilesByHost, calls
  <2>12. CASE UNCHANGED storeVars
    BY <2>1, <2>12 DEF storeVars, calls
  <2> QED
    BY <2>4, <2>5, <2>6, <2>7, <2>8, <2>9, <2>10, <2>11, <2>12
       DEF StoreNext, SaveStep, Return, Exit
<1> QED
  BY <1>1, <1>2, TypeCorrect, PTL DEF StoreSpec

(* A call that has inserted the hash of its file does not find a row for it
   afterwards: there was none, for want of the hash, and with one process
   nobody has inserted one. *)
NewHashNewFile ==
  \A s \in Stores : out[s].FileHash =>
    /\ pc[s] = "queryInfo" => ~InfoKnown(arg[s])
    /\ pc[s] = "done" /\ out[s].err = "none" => out[s].FileInfo

(* With one process a new hash means a new file, so that both flags of
   FileStored say the same of a call that succeeds. *)
THEOREM OneProcessNewHashNewFile ==
  ASSUME \A s, t \in Stores : s = t
  PROVE  StoreSpec => []NewHashNewFile
<1>1. StoreInit => NewHashNewFile
  BY DEF StoreInit, NewHashNewFile, NothingStored
<1>2. StoreTypeOK /\ RefIntegrity /\ InsertIsLast /\ NewHashNewFile /\ [StoreNext]_storeVars
        => NewHashNewFile'
  <2> SUFFICES ASSUME StoreTypeOK, RefIntegrity, InsertIsLast, NewHashNewFile,
                      [StoreNext]_storeVars
               PROVE  NewHashNewFile'
    OBVIOUS
  <2>0. /\ pc \in [Stores -> Statements \cup {"idle", "done"}]
        /\ out \in [Stores -> FileStored]
    BY DEF StoreTypeOK
  <2>1. CASE UNCHANGED <<fileInfo, pc, arg, out>>
    BY <2>1 DEF NewHashNewFile, InfoKnown
  <2>2. ASSUME NEW s \in Stores,
               out'[s].FileHash =>
                 /\ pc'[s] # "queryInfo"
                 /\ pc'[s] = "done" /\ out'[s].err = "none" => out'[s].FileInfo
        PROVE  NewHashNewFile'
    BY <2>2 DEF NewHashNewFile
  <2>3. ASSUME NEW s \in Stores, NEW f \in Files, Store(s, f)
        PROVE  NewHashNewFile'
    <3>1. ~out'[s].FileHash
      BY <2>3 DEF Store, InsertIsLast, NothingStored
    <3> QED
      BY <2>2, <3>1
  <2>4. ASSUME NEW s \in Stores, QueryFileHash(s)
        PROVE  NewHashNewFile'
    <3>1. ~out'[s].FileHash
      BY <2>4 DEF QueryFileHash, InsertIsLast
    <3> QED
      BY <2>2, <3>1
  <2>5. ASSUME NEW s \in Stores, InsertHash(s)
        PROVE  NewHashNewFile'
    <3>1. CASE ~HashKnown(arg[s].hash) /\ pc'[s] = "queryInfo"
      <4>1. ~InfoKnown(arg[s])
        BY <3>1 DEF RefIntegrity, InfoKnown, HashKnown
      <4>2. ~InfoKnown(arg[s])'
        BY <2>5, <4>1 DEF InsertHash, InfoKnown
      <4> QED
        BY <3>1, <4>2 DEF NewHashNewFile
    <3>2. CASE out' = [out EXCEPT ![s] = FailedBy(@, "unique")]
      <4>1. out'[s].err = "unique"
        BY <2>0, <3>2 DEF FailedBy, FileStored
      <4>2. pc'[s] # "queryInfo"
        BY <2>0, <2>5, <3>2 DEF InsertHash, FailedBy, HashWritten, FileStored, InsertIsLast
      <4> QED
        BY <2>2, <4>1, <4>2
    <3> QED
      BY <2>0, <2>5, <3>1, <3>2 DEF InsertHash
  <2>6. ASSUME NEW s \in Stores, QueryFileInfo(s)
        PROVE  NewHashNewFile'
    <3>1. out' = out /\ (out[s].FileHash => pc'[s] = "insertInfo")
      BY <2>0, <2>6 DEF QueryFileInfo, NewHashNewFile
    <3> QED
      BY <2>2, <3>1
  <2>7. ASSUME NEW s \in Stores, InsertInfo(s)
        PROVE  NewHashNewFile'
    <3>1. pc'[s] = "done"
      BY <2>0, <2>7 DEF InsertInfo
    <3>2. out'[s].err = "none" => out'[s].FileInfo
      BY <2>0, <2>7 DEF InsertInfo, FailedBy, InfoWritten, FileStored
    <3> QED
      BY <2>2, <3>1, <3>2
  <2>8. ASSUME NEW s \in Stores, SqlError(s)
        PROVE  NewHashNewFile'
    <3>1. pc'[s] = "done" /\ out'[s].err = "sql"
      BY <2>0, <2>8 DEF SqlError, FailedBy, FileStored
    <3> QED
      BY <2>2, <3>1
  <2>9. ASSUME NEW s \in Stores, EndCall(s)
        PROVE  NewHashNewFile'
    <3>1. ~out'[s].FileHash
      BY <2>0, <2>9 DEF EndCall, NothingStored
    <3> QED
      BY <2>2, <3>1
  <2>10. CASE DeleteFilesByHost
    <3>1. pc' = pc /\ out' = out /\ arg' = arg /\ fileInfo' \subseteq fileInfo
      BY <2>10 DEF DeleteFilesByHost
    <3> QED
      BY <3>1 DEF NewHashNewFile, InfoKnown
  <2>11. CASE AdminStep
    BY <2>1, <2>11
       DEF AdminStep, CountFiles, AbortDelete, TagFile, tables, calls
  <2>12. CASE UNCHANGED storeVars
    BY <2>1, <2>12 DEF storeVars, tables, calls
  <2> QED
    BY <2>3, <2>4, <2>5, <2>6, <2>7, <2>8, <2>9, <2>10, <2>11, <2>12
       DEF StoreNext, SaveStep, Return, Exit
<1> QED
  BY <1>1, <1>2, TypeCorrect, ReferencesHold, InsertsAreLast, PTL DEF StoreSpec

-----------------------------------------------------------------------------
USE MsgsAssumption

(* The batches and the counters of the model have their types. *)
QueueTypeOK ==
  /\ status \in [Msgs -> Statuses]
  /\ running \in SUBSET Stores
  /\ batch \in [Stores -> Seq(Msgs)]
  /\ failed \in SUBSET Msgs
  /\ erased \in SUBSET Msgs
  /\ exits \in 0..MaxExits
  /\ faults \in 0..MaxFaults

(* A process outside Store remembers nothing of the last call. *)
IdleCalls ==
  \A s \in Stores : pc[s] = "idle" =>
    /\ arg[s] = NoFile
    /\ hashID[s] = NoID
    /\ out[s] = NothingStored
    /\ purged[s] = {}

(* A call of Store is about the first message of the batch. *)
CallsHandleHeads ==
  \A s \in Stores : pc[s] # "idle" =>
    /\ batch[s] # <<>>
    /\ Payload[Head(batch[s])] # Garbled
    /\ arg[s] = Payload[Head(batch[s])]

(* What a listener has fetched was published. *)
BatchesPublished ==
  \A s \in Stores, m \in Msgs : InBatch(s, m) => status[m] # "unsent"

QueueInv ==
  QueueTypeOK /\ IdleCalls /\ CallsHandleHeads /\ BatchesPublished

(* What is in a queue is its head or in its tail. *)
LEMMA HeadAndTail ==
  ASSUME NEW q \in Seq(Msgs), q # <<>>
  PROVE  /\ Head(q) \in Msgs
         /\ \E i \in DOMAIN q : q[i] = Head(q)
         /\ Tail(q) \in Seq(Msgs)
         /\ \A i \in DOMAIN Tail(q) : \E j \in DOMAIN q : q[j] = Tail(q)[i]
<1>1. /\ Head(q) \in Msgs /\ Tail(q) \in Seq(Msgs) /\ Head(q) = q[1]
      /\ Len(q) \in Nat \ {0}
      /\ DOMAIN q = 1..Len(q) /\ DOMAIN Tail(q) = 1..(Len(q) - 1)
  OBVIOUS
<1>2. \A i \in 1..(Len(q) - 1) : Tail(q)[i] = q[i + 1] /\ i + 1 \in 1..Len(q)
  BY <1>1
<1> QED
  BY <1>1, <1>2

(* A batch is a sequence of messages that were queued or due. *)
LEMMA BatchesAreQueued ==
  ASSUME NEW b \in Batches
  PROVE  /\ b \in Seq(Msgs)
         /\ \A i \in DOMAIN b : b[i] \in Msgs /\ status[b[i]] # "unsent"
<1>1. PICK n \in 1..BatchSize :
        b \in [1..n -> {m \in Msgs : status[m] \in {"queued", "due"}}]
  BY DEF Batches
<1>2. b \in [1..n -> Msgs] /\ n \in Nat
  BY <1>1
<1>3. b \in Seq(Msgs)
  BY <1>2
<1> QED
  BY <1>1, <1>3

(* Every step of the listeners, the server and the hs tool is a step of
   FileStore or leaves the index and the calls alone. *)
LEMMA IndexStep ==
  StoreTypeOK /\ QueueInv /\ [ListenerNext]_listenerVars => [StoreNext]_storeVars
<1> SUFFICES ASSUME StoreTypeOK, QueueInv, [ListenerNext]_listenerVars
             PROVE  [StoreNext]_storeVars
  OBVIOUS
<1> USE DEF QueueInv, QueueTypeOK
<1>1. CASE UNCHANGED listenerVars
  BY <1>1 DEF listenerVars
<1>2. ASSUME NEW s \in Stores, Handle(s)
      PROVE  [StoreNext]_storeVars
  <2>1. Payload[Head(batch[s])] \in Files
    BY <1>2, HeadAndTail DEF Handle
  <2> QED
    BY <1>2, <2>1 DEF Handle, StoreNext
<1>3. ASSUME NEW s \in Stores, Start(s) \/ Fetch(s) \/ Skip(s)
      PROVE  [StoreNext]_storeVars
  BY <1>3 DEF Start, Fetch, Skip
<1>4. ASSUME NEW s \in Stores, Save(s) \/ Finish(s)
      PROVE  [StoreNext]_storeVars
  BY <1>4 DEF Save, Finish, StoreNext
<1>5. ASSUME NEW s \in Stores, ListenerExit(s)
      PROVE  [StoreNext]_storeVars
  <2>1. EndCall(s)
    BY <1>5 DEF ListenerExit
  <2>2. CASE pc[s] # "idle"
    BY <2>1, <2>2 DEF Exit, StoreNext
  <2>3. CASE pc[s] = "idle"
    <3>1. UNCHANGED <<pc, arg, hashID, out, purged>>
      BY <2>1, <2>3 DEF EndCall, IdleCalls, StoreTypeOK
    <3> QED
      BY <2>1, <3>1 DEF EndCall, storeVars, calls
  <2> QED
    BY <2>2, <2>3
<1>6. ASSUME NEW m \in Msgs, Publish(m) \/ AckWait(m) \/ Expire(m)
      PROVE  [StoreNext]_storeVars
  BY <1>6 DEF Publish, AckWait, Expire
<1>7. CASE Admin
  BY <1>7 DEF Admin, StoreNext
<1> QED
  BY <1>1, <1>2, <1>3, <1>4, <1>5, <1>6, <1>7 DEF ListenerNext, ListenerStep

-----------------------------------------------------------------------------
(* A statement of Store leaves the call with its file, and the calls of other
   processes alone. *)
LEMMA SaveKeepsCall ==
  ASSUME StoreTypeOK, NEW s \in Stores, SaveStep(s)
  PROVE  /\ pc[s] # "idle" /\ pc'[s] # "idle"
         /\ UNCHANGED <<arg, purged>>
         /\ \A t \in Stores \ {s} :
              pc'[t] = pc[t] /\ hashID'[t] = hashID[t] /\ out'[t] = out[t]
<1> USE DEF StoreTypeOK, Statements
<1>1. CASE QueryFileHash(s)
  BY <1>1 DEF QueryFileHash
<1>2. CASE InsertHash(s)
  BY <1>2 DEF InsertHash
<1>3. CASE QueryFileInfo(s)
  BY <1>3 DEF QueryFileInfo
<1>4. CASE InsertInfo(s)
  BY <1>4 DEF InsertInfo
<1>5. CASE SqlError(s)
  BY <1>5 DEF SqlError
<1> QED
  BY <1>1, <1>2, <1>3, <1>4, <1>5 DEF SaveStep

(* The end of a call, in the middle or not. *)
LEMMA EndClearsCall ==
  ASSUME StoreTypeOK, NEW s \in Stores, EndCall(s)
  PROVE  /\ pc'[s] = "idle" /\ arg'[s] = NoFile /\ hashID'[s] = NoID
         /\ out'[s] = NothingStored /\ purged'[s] = {}
         /\ \A t \in Stores \ {s} :
              /\ pc'[t] = pc[t] /\ arg'[t] = arg[t] /\ hashID'[t] = hashID[t]
              /\ out'[t] = out[t] /\ purged'[t] = purged[t]
BY DEF StoreTypeOK, EndCall

(* QueueInv is inductive: one step of the listeners, the server or the hs
   tool. *)
LEMMA QueueStep ==
  StoreTypeOK /\ QueueInv /\ [ListenerNext]_listenerVars => QueueInv'
<1> SUFFICES ASSUME StoreTypeOK, QueueInv, [ListenerNext]_listenerVars
             PROVE  QueueInv'
  OBVIOUS
<1> USE DEF QueueInv
<1>1. CASE UNCHANGED listenerVars
  BY <1>1 DEF listenerVars, queueVars, storeVars, calls, QueueTypeOK, IdleCalls,
              CallsHandleHeads, BatchesPublished, InBatch
<1>2. ASSUME NEW m \in Msgs, Publish(m) \/ AckWait(m) \/ Expire(m)
      PROVE  QueueInv'
  <2>1. /\ UNCHANGED <<storeVars, running, batch, failed, erased, exits>>
        /\ status' \in [Msgs -> Statuses]
        /\ \A n \in Msgs : status[n] # "unsent" => status'[n] # "unsent"
        /\ faults' = faults \/ (faults < MaxFaults /\ faults' = faults + 1)
    <3>1. CASE Publish(m)
      BY <3>1 DEF Publish, QueueTypeOK, Statuses
    <3>2. CASE AckWait(m)
      BY <3>2 DEF AckWait, QueueTypeOK, Statuses
    <3>3. CASE Expire(m)
      BY <3>3 DEF Expire, QueueTypeOK, Statuses
    <3> QED
      BY <1>2, <3>1, <3>2, <3>3
  <2>2. faults' \in 0..MaxFaults
    BY <2>1 DEF QueueTypeOK
  <2> QED
    BY <2>1, <2>2 DEF storeVars, calls, QueueTypeOK, IdleCalls,
                      CallsHandleHeads, BatchesPublished, InBatch
<1>3. ASSUME NEW s \in Stores, Start(s)
      PROVE  QueueInv'
  BY <1>3 DEF Start, storeVars, calls, QueueTypeOK, IdleCalls,
              CallsHandleHeads, BatchesPublished, InBatch
<1>4. ASSUME NEW s \in Stores, Fetch(s)
      PROVE  QueueInv'
  <2>1. PICK b \in Batches :
          /\ batch' = [batch EXCEPT ![s] = b]
          /\ status' = [m \in Msgs |->
               IF \E i \in DOMAIN b : b[i] = m THEN "pending" ELSE status[m]]
    BY <1>4 DEF Fetch
  <2>2. /\ UNCHANGED <<storeVars, running, failed, erased, exits, faults>>
        /\ batch[s] = <<>>
    BY <1>4 DEF Fetch
  <2>3. pc[s] = "idle"
    BY <2>2 DEF CallsHandleHeads
  <2>4. QueueTypeOK'
    BY <2>1, <2>2, BatchesAreQueued DEF QueueTypeOK, Statuses
  <2>5. CallsHandleHeads' /\ IdleCalls'
    BY <2>1, <2>2, <2>3 DEF CallsHandleHeads, IdleCalls, storeVars, calls,
                            QueueTypeOK
  <2>6. BatchesPublished'
    <3> SUFFICES ASSUME NEW t \in Stores, NEW m \in Msgs, InBatch(t, m)'
                 PROVE  status'[m] # "unsent"
      BY DEF BatchesPublished
    <3>1. CASE t = s
      BY <2>1, <3>1 DEF InBatch, QueueTypeOK
    <3>2. CASE t # s
      <4>1. status[m] # "unsent"
        BY <2>1, <3>2 DEF InBatch, QueueTypeOK, BatchesPublished
      <4> QED
        BY <2>1, <4>1
    <3> QED
      BY <3>1, <3>2
  <2> QED
    BY <2>4, <2>5, <2>6
<1>5. ASSUME NEW s \in Stores, Skip(s)
      PROVE  QueueInv'
  <2>1. /\ batch[s] # <<>> /\ batch' = [batch EXCEPT ![s] = Tail(batch[s])]
        /\ Payload[Head(batch[s])] = Garbled
        /\ UNCHANGED <<storeVars, status, running, failed, erased, exits, faults>>
    BY <1>5 DEF Skip
  <2>2. batch[s] \in Seq(Msgs) /\ batch'[s] = Tail(batch[s])
        /\ \A t \in Stores \ {s} : batch'[t] = batch[t]
    BY <2>1 DEF QueueTypeOK
  <2>3. QueueTypeOK'
    BY <2>1, <2>2, HeadAndTail DEF QueueTypeOK
  <2>4. CallsHandleHeads' /\ IdleCalls'
    BY <2>1, <2>2 DEF CallsHandleHeads, IdleCalls, storeVars, calls
  <2>5. BatchesPublished'
    BY <2>1, <2>2, HeadAndTail DEF BatchesPublished, InBatch
  <2> QED
    BY <2>3, <2>4, <2>5
<1>6. ASSUME NEW s \in Stores, Handle(s)
      PROVE  QueueInv'
  <2>1. /\ batch[s] # <<>> /\ Payload[Head(batch[s])] # Garbled
        /\ pc' = [pc EXCEPT ![s] = "queryHash"]
        /\ arg' = [arg EXCEPT ![s] = Payload[Head(batch[s])]]
        /\ UNCHANGED <<hashID, out, purged, queueVars>>
    BY <1>6 DEF Handle, Store
  <2>2. CallsHandleHeads' /\ IdleCalls'
    BY <2>1 DEF CallsHandleHeads, IdleCalls, queueVars, StoreTypeOK
  <2> QED
    BY <2>1, <2>2 DEF queueVars, QueueTypeOK, BatchesPublished, InBatch
<1>7. ASSUME NEW s \in Stores, Save(s)
      PROVE  QueueInv'
  <2>1. UNCHANGED queueVars /\ SaveStep(s)
    BY <1>7 DEF Save
  <2>2. /\ pc[s] # "idle" /\ pc'[s] # "idle"
        /\ UNCHANGED <<arg, purged>>
        /\ \A t \in Stores \ {s} :
             pc'[t] = pc[t] /\ hashID'[t] = hashID[t] /\ out'[t] = out[t]
    BY <2>1, SaveKeepsCall
  <2>3. CallsHandleHeads' /\ IdleCalls'
    BY <2>1, <2>2 DEF CallsHandleHeads, IdleCalls, queueVars
  <2> QED
    BY <2>1, <2>3 DEF queueVars, QueueTypeOK, BatchesPublished, InBatch
<1>8. ASSUME NEW s \in Stores, Finish(s)
      PROVE  QueueInv'
  <2> DEFINE m == Head(batch[s])
  <2>1. /\ pc[s] # "idle" /\ EndCall(s)
        /\ failed' = FailedWith(s, m) /\ erased' = ErasedWith(s, m)
        /\ batch' = [batch EXCEPT ![s] = Tail(batch[s])]
        /\ \/ status' = AckOf(m) /\ UNCHANGED faults
           \/ faults < MaxFaults /\ faults' = faults + 1 /\ UNCHANGED status
        /\ UNCHANGED <<running, exits>>
    BY <1>8 DEF Finish, Return
  <2>2. batch[s] # <<>> /\ batch[s] \in Seq(Msgs) /\ m \in Msgs
    BY <2>1, HeadAndTail DEF CallsHandleHeads, QueueTypeOK
  <2>3. /\ status' \in [Msgs -> Statuses]
        /\ \A n \in Msgs : status[n] # "unsent" => status'[n] # "unsent"
    BY <2>1, <2>2 DEF AckOf, QueueTypeOK, Statuses
  <2>4. failed' \in SUBSET Msgs /\ erased' \in SUBSET Msgs
    BY <2>1, <2>2 DEF FailedWith, ErasedWith, QueueTypeOK
  <2>5. /\ batch' \in [Stores -> Seq(Msgs)]
        /\ batch'[s] = Tail(batch[s])
        /\ \A t \in Stores \ {s} : batch'[t] = batch[t]
    BY <2>1, <2>2, HeadAndTail DEF QueueTypeOK
  <2>6. faults' \in 0..MaxFaults
    BY <2>1 DEF QueueTypeOK
  <2>7. QueueTypeOK'
    BY <2>1, <2>3, <2>4, <2>5, <2>6 DEF QueueTypeOK
  <2>8. CallsHandleHeads' /\ IdleCalls'
    <3>1. /\ pc'[s] = "idle" /\ arg'[s] = NoFile /\ hashID'[s] = NoID
          /\ out'[s] = NothingStored /\ purged'[s] = {}
          /\ \A t \in Stores \ {s} :
               /\ pc'[t] = pc[t] /\ arg'[t] = arg[t] /\ hashID'[t] = hashID[t]
               /\ out'[t] = out[t] /\ purged'[t] = purged[t]
      BY <2>1, EndClearsCall
    <3> QED
      BY <2>5, <3>1 DEF CallsHandleHeads, IdleCalls
  <2>9. BatchesPublished'
    <3>1. \A t \in Stores, n \in Msgs : InBatch(t, n)' => InBatch(t, n)
      <4>1. \A i \in DOMAIN Tail(batch[s]) :
              \E j \in DOMAIN batch[s] : batch[s][j] = Tail(batch[s])[i]
        BY <2>2, HeadAndTail
      <4> QED
        BY <2>5, <4>1 DEF InBatch
    <3> QED
      BY <2>3, <3>1 DEF BatchesPublished
  <2> QED
    BY <2>7, <2>8, <2>9
<1>9. ASSUME NEW s \in Stores, ListenerExit(s)
      PROVE  QueueInv'
  <2>1. /\ EndCall(s) /\ exits' \in 0..MaxExits
        /\ running' \in SUBSET Stores
        /\ batch' = [batch EXCEPT ![s] = <<>>]
        /\ UNCHANGED <<status, failed, erased, faults>>
    BY <1>9 DEF ListenerExit, QueueTypeOK
  <2>2. /\ batch' \in [Stores -> Seq(Msgs)] /\ batch'[s] = <<>>
        /\ \A t \in Stores \ {s} : batch'[t] = batch[t]
    BY <2>1 DEF QueueTypeOK
  <2>3. CallsHandleHeads' /\ IdleCalls'
    BY <2>1, <2>2, EndClearsCall DEF CallsHandleHeads, IdleCalls
  <2>4. BatchesPublished'
    BY <2>1, <2>2 DEF BatchesPublished, InBatch
  <2> QED
    BY <2>1, <2>2, <2>3, <2>4 DEF QueueTypeOK
<1>10. CASE Admin
  <2>1. /\ UNCHANGED <<status, running, batch, failed, exits, faults>>
        /\ UNCHANGED <<pc, arg, hashID, out>>
        /\ erased' \in SUBSET Msgs
        /\ \A s \in Stores : pc[s] = "idle" => purged'[s] = purged[s]
    BY <1>10 DEF Admin, AdminStep, CountFiles, AbortDelete, TagFile,
                 DeleteFilesByHost, queueVars, calls, QueueTypeOK
  <2> QED
    BY <2>1 DEF QueueTypeOK, IdleCalls, CallsHandleHeads, BatchesPublished,
                InBatch
<1> QED
  BY <1>1, <1>2, <1>3, <1>4, <1>5, <1>6, <1>7, <1>8, <1>9, <1>10
     DEF ListenerNext, ListenerStep

-----------------------------------------------------------------------------
(* The types of the tables, of the calls and of the queue, with what the
   proofs below need of the batches. *)
THEOREM QueueCorrect == ListenerSpec => [](StoreTypeOK /\ QueueInv)
<1>1. ListenerInit => StoreTypeOK /\ QueueInv
  <2> SUFFICES ASSUME ListenerInit
               PROVE  StoreTypeOK /\ QueueInv
    OBVIOUS
  <2>1. StoreTypeOK
    BY TypeInit DEF ListenerInit
  <2>2. batch \in [Stores -> Seq(Msgs)] /\ \A s \in Stores : DOMAIN batch[s] = {}
    BY DEF ListenerInit
  <2>3. QueueTypeOK
    BY <2>2 DEF ListenerInit, QueueTypeOK, Statuses
  <2>4. IdleCalls /\ CallsHandleHeads
    BY DEF ListenerInit, StoreInit, IdleCalls, CallsHandleHeads
  <2>5. BatchesPublished
    BY <2>2 DEF BatchesPublished, InBatch
  <2> QED
    BY <2>1, <2>3, <2>4, <2>5 DEF QueueInv
<1>2. StoreTypeOK /\ QueueInv /\ [ListenerNext]_listenerVars
        => StoreTypeOK' /\ QueueInv'
  BY QueueStep, IndexStep, TypeStep
<1> QED
  BY <1>1, <1>2, PTL DEF ListenerSpec

(* Every behaviour of the listeners is a behaviour of FileStore: whatever the
   message loop and the server do, they use the index in the way its theorems
   are about. *)
THEOREM ListenersUseTheStore == ListenerSpec => StoreSpec
<1>1. ListenerInit => StoreInit
  BY DEF ListenerInit
<1> QED
  BY <1>1, QueueCorrect, IndexStep, PTL DEF ListenerSpec, StoreSpec

(* The types of the queue and of the index. *)
THEOREM ListenerTypeCorrect == ListenerSpec => []ListenerTypeOK
<1>1. StoreTypeOK /\ QueueInv => ListenerTypeOK
  BY DEF QueueInv, QueueTypeOK, ListenerTypeOK
<1> QED
  BY <1>1, QueueCorrect, PTL

(* With one listener, redeliveries, crashes in the middle of a Store call and
   messages that say the same never make a second row for a file. *)
THEOREM OneListenerNoDuplicates ==
  ASSUME \A s, t \in Stores : s = t
  PROVE  ListenerSpec => []NoDuplicateRows
BY ListenersUseTheStore, OneProcessNoDuplicates, PTL

-----------------------------------------------------------------------------
(* A message that was acknowledged is in the index, or the log says that it
   could not be saved, or its host was deleted since: for any number of
   listeners, whatever is delivered twice, lost or handled late. *)
THEOREM AcksAreAccounted == ListenerSpec => []AckAccounted
<1>1. ListenerInit => AckAccounted
  BY DEF ListenerInit, AckAccounted
<1>2. /\ StoreTypeOK /\ QueueInv /\ ResultTruthful /\ AckAccounted
      /\ [ListenerNext]_listenerVars
      => AckAccounted'
  <2> SUFFICES ASSUME StoreTypeOK, QueueInv, ResultTruthful, AckAccounted,
                      [ListenerNext]_listenerVars
               PROVE  AckAccounted'
    OBVIOUS
  <2>t. status \in [Msgs -> Statuses]
    BY DEF QueueInv, QueueTypeOK
  <2>1. CASE /\ UNCHANGED <<failed, erased>>
             /\ fileInfo \subseteq fileInfo'
             /\ \A m \in Msgs : status'[m] = "acked" => status[m] = "acked"
    BY <2>1 DEF AckAccounted, Catalogued
  <2>2. CASE UNCHANGED listenerVars
    BY <2>1, <2>2 DEF listenerVars, storeVars, queueVars, tables
  <2>3. ASSUME NEW m \in Msgs, Publish(m) \/ AckWait(m) \/ Expire(m)
        PROVE  AckAccounted'
    BY <2>t, <2>1, <2>3 DEF Publish, AckWait, Expire, storeVars, tables
  <2>4. ASSUME NEW s \in Stores, Start(s) \/ Skip(s) \/ Handle(s)
        PROVE  AckAccounted'
    BY <2>1, <2>4 DEF Start, Skip, Handle, Store, storeVars, queueVars, tables
  <2>5. ASSUME NEW s \in Stores, Fetch(s)
        PROVE  AckAccounted'
    <3>1. /\ \A m \in Msgs : status'[m] \in {"pending", status[m]}
          /\ UNCHANGED <<failed, erased, fileInfo>>
      BY <2>5 DEF Fetch, storeVars, tables
    <3> QED
      BY <2>1, <3>1
  <2>6. ASSUME NEW s \in Stores, Save(s)
        PROVE  AckAccounted'
    <3>1. fileInfo \subseteq fileInfo'
      BY <2>6 DEF Save, SaveStep, QueryFileHash, InsertHash, QueryFileInfo,
                  InsertInfo, SqlError, tables
    <3> QED
      BY <2>1, <2>6, <3>1 DEF Save, queueVars
  <2>7. ASSUME NEW s \in Stores, Finish(s)
        PROVE  AckAccounted'
    <3> DEFINE h == Head(batch[s])
    <3>1. /\ pc[s] = "done" /\ fileInfo' = fileInfo
          /\ failed' = FailedWith(s, h) /\ erased' = ErasedWith(s, h)
          /\ status' = AckOf(h) \/ status' = status
      BY <2>7 DEF Finish, Return, EndCall, tables
    <3>2. /\ h \in Msgs /\ Payload[h] # Garbled /\ arg[s] = Payload[h]
      BY <3>1, HeadAndTail DEF QueueInv, QueueTypeOK, CallsHandleHeads
    <3>3. \A m \in Msgs \ {h} :
            /\ status'[m] = status[m]
            /\ m \in failed' <=> m \in failed
            /\ m \in erased' <=> m \in erased
      BY <2>t, <3>1, <3>2 DEF AckOf, FailedWith, ErasedWith
    <3>4. Payload[h] \in Catalogued \/ h \in failed' \/ h \in erased'
      BY <3>1, <3>2 DEF FailedWith, ErasedWith, ResultTruthful
    <3>5. Catalogued' = Catalogued
      BY <3>1 DEF Catalogued
    <3> QED
      BY <3>2, <3>3, <3>4, <3>5 DEF AckAccounted
  <2>8. ASSUME NEW s \in Stores, ListenerExit(s)
        PROVE  AckAccounted'
    BY <2>1, <2>8 DEF ListenerExit, EndCall, tables
  <2>9. CASE Admin
    <3>1. CASE AdminStep /\ UNCHANGED queueVars
      BY <2>1, <3>1 DEF AdminStep, CountFiles, AbortDelete, TagFile, queueVars,
                        tables
    <3>2. CASE /\ DeleteFilesByHost
               /\ erased' = erased \cup
                    {m \in Msgs : status[m] = "acked" /\ Payload[m].host = admin}
               /\ UNCHANGED <<status, failed>>
      <4>1. \A f \in Catalogued \ Catalogued' : f.host = admin
        BY <3>2 DEF DeleteFilesByHost, DeletedInfo, RowsOf, Catalogued
      <4> QED
        BY <3>2, <4>1 DEF AckAccounted
    <3> QED
      BY <2>9, <3>1, <3>2 DEF Admin
  <2> QED
    BY <2>2, <2>3, <2>4, <2>5, <2>6, <2>7, <2>8, <2>9
       DEF ListenerNext, ListenerStep
<1> QED
  BY <1>1, <1>2, QueueCorrect, ListenersUseTheStore, ResultsAreTrue, PTL
     DEF ListenerSpec

-----------------------------------------------------------------------------
(* What the abstract catalog sees of a step of the listeners. *)
LEMMA CatalogStep ==
  /\ StoreTypeOK /\ QueueInv /\ [ListenerNext]_listenerVars
  => [Abstract!CatalogNext]_(Abstract!catalogVars)
<1> SUFFICES ASSUME StoreTypeOK, QueueInv, [ListenerNext]_listenerVars
             PROVE  [Abstract!CatalogNext]_(Abstract!catalogVars)
  OBVIOUS
<1> USE DEF Abstract!CatalogNext, Abstract!catalogVars
<1>t. status \in [Msgs -> Statuses] /\ Sent \subseteq Files
  BY DEF QueueInv, QueueTypeOK, Sent, Published
<1>1. CASE Catalogued' = Catalogued /\ Sent' = Sent
  BY <1>1
<1>2. ASSUME fileInfo' = fileInfo,
             \A m \in Msgs : status'[m] = "unsent" <=> status[m] = "unsent"
      PROVE  [Abstract!CatalogNext]_(Abstract!catalogVars)
  <2>1. Catalogued' = Catalogued /\ Sent' = Sent
    BY <1>2 DEF Catalogued, Sent, Published
  <2> QED
    BY <2>1
<1>3. CASE UNCHANGED listenerVars
  BY <1>2, <1>3 DEF listenerVars, storeVars, queueVars, tables
<1>4. ASSUME NEW m \in Msgs, Publish(m)
      PROVE  [Abstract!CatalogNext]_(Abstract!catalogVars)
  <2>1. Catalogued' = Catalogued
    BY <1>4 DEF Publish, Catalogued, storeVars, tables
  <2>2. Published' = Published \cup {m}
    BY <1>t, <1>4 DEF Publish, Published
  <2>3. CASE Payload[m] = Garbled
    <3>1. Sent' = Sent
      BY <2>2, <2>3 DEF Sent
    <3> QED
      BY <1>1, <2>1, <3>1
  <2>4. CASE Payload[m] # Garbled
    <3>1. Sent' = Sent \cup {Payload[m]} /\ Payload[m] \in Files
      BY <2>2, <2>4 DEF Sent
    <3> QED
      BY <2>1, <3>1 DEF Abstract!Send
  <2> QED
    BY <2>3, <2>4
<1>5. ASSUME NEW m \in Msgs, AckWait(m) \/ Expire(m)
      PROVE  [Abstract!CatalogNext]_(Abstract!catalogVars)
  <2>1. fileInfo' = fileInfo
    BY <1>5 DEF AckWait, Expire, storeVars, tables
  <2>2. \A n \in Msgs : status'[n] = "unsent" <=> status[n] = "unsent"
    BY <1>t, <1>5 DEF AckWait, Expire, OnServer, Unacknowledged
  <2> QED
    BY <1>2, <2>1, <2>2
<1>6. ASSUME NEW s \in Stores, Start(s) \/ Skip(s) \/ Handle(s) \/ ListenerExit(s)
      PROVE  [Abstract!CatalogNext]_(Abstract!catalogVars)
  BY <1>2, <1>6 DEF Start, Skip, Handle, Store, ListenerExit, EndCall,
                    storeVars, queueVars, tables
<1>7. ASSUME NEW s \in Stores, Fetch(s)
      PROVE  [Abstract!CatalogNext]_(Abstract!catalogVars)
  <2>1. PICK b \in Batches :
          status' = [m \in Msgs |->
            IF \E i \in DOMAIN b : b[i] = m THEN "pending" ELSE status[m]]
    BY <1>7 DEF Fetch
  <2>2. \A m \in Msgs : status'[m] = "unsent" <=> status[m] = "unsent"
    BY <2>1, BatchesAreQueued
  <2> QED
    BY <1>2, <1>7, <2>2 DEF Fetch, storeVars, tables
<1>8. ASSUME NEW s \in Stores, Finish(s)
      PROVE  [Abstract!CatalogNext]_(Abstract!catalogVars)
  <2>1. /\ status' = AckOf(Head(batch[s])) \/ status' = status
        /\ fileInfo' = fileInfo
    BY <1>8 DEF Finish, Return, EndCall, tables
  <2>2. \A n \in Msgs : status'[n] = "unsent" <=> status[n] = "unsent"
    BY <1>t, <2>1 DEF AckOf, OnServer, Unacknowledged
  <2> QED
    BY <1>2, <2>1, <2>2
<1>9. ASSUME NEW s \in Stores, Save(s)
      PROVE  [Abstract!CatalogNext]_(Abstract!catalogVars)
  <2>1. status' = status
    BY <1>9 DEF Save, queueVars
  <2>2. CASE fileInfo' = fileInfo
    BY <1>2, <2>1, <2>2
  <2>3. CASE InsertInfo(s) /\ ReferenceHolds(hashID[s])
    <3>1. fileInfo' = fileInfo \cup
            {[id |-> NextInfoID, file |-> arg[s], hash_id |-> hashID[s]]}
      BY <2>3 DEF InsertInfo
    <3> DEFINE new == [id |-> NextInfoID, file |-> arg[s], hash_id |-> hashID[s]]
    <3>2. Catalogued' = Catalogued \cup {arg[s]}
      <4>1. fileInfo' = fileInfo \cup {new} /\ new.file = arg[s]
        BY <3>1
      <4> HIDE DEF new
      <4>2. Catalogued' = {r.file : r \in fileInfo \cup {new}}
        BY <4>1 DEF Catalogued
      <4> QED
        BY <4>1, <4>2 DEF Catalogued
    <3>3. Sent' = Sent
      BY <2>1 DEF Sent, Published
    <3>4. arg[s] \in Sent
      <4>1. /\ batch[s] # <<>> /\ batch[s] \in Seq(Msgs)
            /\ arg[s] = Payload[Head(batch[s])] /\ arg[s] # Garbled
        BY <2>3 DEF QueueInv, QueueTypeOK, CallsHandleHeads, InsertInfo
      <4>2. Head(batch[s]) \in Msgs /\ InBatch(s, Head(batch[s]))
        BY <4>1, HeadAndTail DEF InBatch
      <4>3. Head(batch[s]) \in Published
        BY <4>2 DEF QueueInv, BatchesPublished, Published
      <4> QED
        BY <4>1, <4>3 DEF Sent
    <3>5. CASE arg[s] \in Catalogued
      BY <1>1, <3>2, <3>3, <3>5
    <3>6. CASE arg[s] \notin Catalogued
      BY <1>t, <3>2, <3>3, <3>4, <3>6 DEF Abstract!Index
    <3> QED
      BY <3>5, <3>6
  <2> QED
    BY <1>9, <2>2, <2>3 DEF Save, SaveStep, QueryFileHash, InsertHash,
       QueryFileInfo, InsertInfo, SqlError, tables
<1>10. CASE Admin
  <2>1. status' = status
    BY <1>10 DEF Admin, queueVars
  <2>2. CASE AdminStep
    BY <1>2, <2>1, <2>2 DEF AdminStep, CountFiles, AbortDelete, TagFile, tables
  <2>3. CASE DeleteFilesByHost
    <3>1. Catalogued' = {f \in Catalogued : f.host # admin}
      BY <2>3 DEF DeleteFilesByHost, DeletedInfo, RowsOf, Catalogued
    <3>2. admin \in Hosts
      BY <2>3 DEF DeleteFilesByHost, StoreTypeOK
    <3>3. Sent' = Sent
      BY <2>1 DEF Sent, Published
    <3> QED
      BY <3>1, <3>2, <3>3 DEF Abstract!Purge
  <2> QED
    BY <1>10, <2>2, <2>3 DEF Admin
<1> QED
  BY <1>3, <1>4, <1>5, <1>6, <1>7, <1>8, <1>9, <1>10
     DEF ListenerNext, ListenerStep

(* The listeners, the queue and the hs tool implement the abstract catalog:
   nothing enters the index that no scanner has announced, and files leave it
   by host, when an administrator deletes that host. *)
THEOREM CatalogImplemented == ListenerSpec => ImplementsCatalog
<1>1. ListenerInit => Abstract!CatalogInit
  BY DEF ListenerInit, StoreInit, Abstract!CatalogInit, Sent, Published,
         Catalogued
<1> QED
  BY <1>1, QueueCorrect, CatalogStep, PTL
     DEF ListenerSpec, ImplementsCatalog, Abstract!CatalogSpec

(* A catalog of announced files stays one, for as long as no announcement is
   taken back. *)
LEMMA CatalogAnnounced ==
  ASSUME Catalogued \subseteq Sent, [Abstract!CatalogNext]_(Abstract!catalogVars)
  PROVE  (Catalogued \subseteq Sent)'
BY DEF Abstract!CatalogNext, Abstract!Send, Abstract!Index, Abstract!Purge,
   Abstract!catalogVars

(* Whatever is lost, repeated or delivered late, the index only holds files
   that a scanner has announced: no call of Store writes the file of another
   message than the one in hand, or of none. *)
THEOREM OnlyAnnouncedIndexed == ListenerSpec => [](Catalogued \subseteq Sent)
<1>1. ListenerInit => Catalogued \subseteq Sent
  BY DEF ListenerInit, StoreInit, Catalogued
<1>2. /\ Catalogued \subseteq Sent
      /\ StoreTypeOK /\ QueueInv /\ [ListenerNext]_listenerVars
      => (Catalogued \subseteq Sent)'
  BY CatalogStep, CatalogAnnounced
<1> QED
  BY <1>1, <1>2, QueueCorrect, PTL DEF ListenerSpec
=============================================================================
