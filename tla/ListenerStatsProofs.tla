-------------------------- MODULE ListenerStatsProofs --------------------------
(***************************************************************************)
(* Counting changes nothing: what is proved of the message loop holds of   *)
(* the loop with its counters.  And the loop counts every message once.    *)
(***************************************************************************)
EXTENDS ListenerStats, ListenerProofs, DataProofs

(* Every step with counters is a step of the loop. *)
LEMMA CountingIsListening == [StatsNext]_statsVars => [ListenerNext]_listenerVars
BY DEF StatsNext, statsVars, Uncounted, CountSkip, CountHandle, CountFinish, CountExit,
   ListenerNext, ListenerStep

(* The loops that count are the loops of Listener. *)
THEOREM CountersOnlyCount == StatsSpec => ListenerSpec
<1>1. StatsInit => ListenerInit
  BY DEF StatsInit
<1> QED
  BY <1>1, CountingIsListening, PTL DEF StatsSpec, ListenerSpec

(* An acknowledged message is accounted for, also in this view. *)
THEOREM CountedAcksAreAccounted == StatsSpec => []AckAccounted
BY CountersOnlyCount, AcksAreAccounted, PTL

(* The listeners with their counters implement the catalog. *)
THEOREM CountedCatalogImplemented == StatsSpec => ImplementsCatalog
BY CountersOnlyCount, CatalogImplemented, PTL

-----------------------------------------------------------------------------
CountersOK == stats \in [Stores -> Counters] /\ ended \in Nat

(* Counting makes counters of counters. *)
LEMMA CountersOfCounters ==
  ASSUME NEW st \in Counters
  PROVE  /\ SkippedUnread(st) \in Counters
         /\ \A r : Outcome(st, r) \in Counters
         /\ \A f \in Files : ReadFrom(st, f) \in Counters
<1>0. Received(st) \in Counters
  BY DEF Received, Counters
<1>1. SkippedUnread(st) \in Counters
  <2>1. \A r \in Counters : [r EXCEPT !.skipped = @ + 1] \in Counters
    BY DEF Counters
  <2> QED
    BY <1>0, <2>1 DEF SkippedUnread
<1>2. ASSUME NEW r
      PROVE  Outcome(st, r) \in Counters
  <2>1. \/ Outcome(st, r) = [st EXCEPT !.skipped = @ + 1]
        \/ Outcome(st, r) = [st EXCEPT !.written = @ + 1]
        \/ Outcome(st, r) = [st EXCEPT !.present = @ + 1]
    BY DEF Outcome
  <2> QED
    BY <2>1 DEF Counters
<1>3. ASSUME NEW f \in Files
      PROVE  ReadFrom(st, f) \in Counters
  <2>1. f.host \in Hosts /\ Extension[f] \in Extensions
    BY FilesAssumption DEF FilesAssumption, Extensions
  <2> DEFINE r == Received(st)
             H == [r.hosts EXCEPT ![f.host] = @ + 1]
             E == [r.extensions EXCEPT ![Extension[f]] = @ + 1]
  <2>2. r \in Counters
    BY <1>0
  <2> HIDE DEF r
  <2>3. H \in [Hosts -> Nat] /\ E \in [Extensions -> Nat]
    BY <2>1, <2>2 DEF Counters
  <2>4. ReadFrom(st, f) = [r EXCEPT !.hosts = H, !.extensions = E]
    BY Zenon DEF ReadFrom, r
  <2> HIDE DEF H, E
  <2>5. [r EXCEPT !.hosts = H, !.extensions = E] \in Counters
    BY <2>2, <2>3 DEF Counters
  <2> QED
    BY <2>4, <2>5
<1> QED
  BY <1>1, <1>2, <1>3

(* Every counter stays a number. *)
LEMMA CountersKept ==
  ASSUME ListenerTypeOK, CountersOK, [StatsNext]_statsVars
  PROVE  CountersOK'
<1> USE DEF CountersOK
<1>n. NoStats \in Counters
  BY DEF NoStats, Counters
<1>1. CASE UNCHANGED statsVars
  BY <1>1 DEF statsVars
<1>2. CASE Uncounted
  BY <1>2 DEF Uncounted
<1>3. ASSUME NEW s \in Stores, CountSkip(s)
      PROVE  CountersOK'
  <2>1. SkippedUnread(stats[s]) \in Counters
    BY CountersOfCounters
  <2> QED
    BY <1>3, <2>1 DEF CountSkip
<1>4. ASSUME NEW s \in Stores, CountHandle(s)
      PROVE  CountersOK'
  <2>1. PICK f \in Files : f = Payload[Head(batch[s])]
    <3>1. batch[s] \in Seq(Msgs) /\ batch[s] # <<>>
      BY <1>4 DEF CountHandle, Handle, ListenerTypeOK
    <3>2. Head(batch[s]) \in Msgs
      BY <3>1, HeadAndTail
    <3> QED
      BY <1>4, <3>2, MsgsAssumption DEF MsgsAssumption, CountHandle, Handle
  <2>2. ReadFrom(stats[s], f) \in Counters
    BY CountersOfCounters
  <2> QED
    BY <1>4, <2>1, <2>2 DEF CountHandle
<1>5. ASSUME NEW s \in Stores, CountFinish(s)
      PROVE  CountersOK'
  <2>1. Outcome(stats[s], out[s]) \in Counters
    BY CountersOfCounters
  <2> QED
    BY <1>5, <2>1 DEF CountFinish
<1>6. ASSUME NEW s \in Stores, CountExit(s)
      PROVE  CountersOK'
  <2>1. stats[s].written \in Nat
    BY DEF Counters
  <2>2. stats[s].written + InHand(s) \in Nat
    BY <2>1 DEF InHand
  <2> QED
    BY <1>6, <1>n, <2>1, <2>2 DEF CountExit, InHand
<1> QED
  BY <1>1, <1>2, <1>3, <1>4, <1>5, <1>6 DEF StatsNext

(* The counters and the rows of ended processes are numbers. *)
THEOREM StatsTypeCorrect == StatsSpec => []StatsTypeOK
<1>1. StatsInit => CountersOK
  BY DEF StatsInit, CountersOK, NoStats, Counters
<1>2. StatsSpec => []ListenerTypeOK
  BY CountersOnlyCount, ListenerTypeCorrect, PTL
<1>3. ListenerTypeOK /\ CountersOK => StatsTypeOK
  BY DEF CountersOK, StatsTypeOK
<1> QED
  BY <1>1, <1>2, <1>3, CountersKept, PTL DEF StatsSpec

-----------------------------------------------------------------------------
(* What a step does to the counters: nothing, or it moves those of one process
   with its place in the loop. *)
SameCounts ==
  /\ stats' = stats /\ ended' = ended
  /\ \A s \in Stores : pc'[s] = "idle" <=> pc[s] = "idle"
  /\ \/ out' = out /\ lastInfoID' = lastInfoID
     \/ \E s \in Stores : SaveStep(s)

OnlyCountsOf(s) ==
  /\ \A t \in Stores \ {s} : stats'[t] = stats[t] /\ pc'[t] = pc[t] /\ out'[t] = out[t]
  /\ lastInfoID' = lastInfoID

SkipCounts(s) ==
  /\ OnlyCountsOf(s) /\ ended' = ended
  /\ pc[s] = "idle" /\ pc'[s] = "idle" /\ out'[s] = out[s]
  /\ stats'[s] = SkippedUnread(stats[s])

HandleCounts(s) ==
  /\ OnlyCountsOf(s) /\ ended' = ended
  /\ pc[s] = "idle" /\ pc'[s] # "idle" /\ out'[s] = out[s]
  /\ \E f \in Files : stats'[s] = ReadFrom(stats[s], f)

FinishCounts(s) ==
  /\ OnlyCountsOf(s) /\ ended' = ended
  /\ pc[s] = "done" /\ pc'[s] = "idle" /\ out'[s] = NothingStored
  /\ stats'[s] = Outcome(stats[s], out[s])

ExitCounts(s) ==
  /\ OnlyCountsOf(s) /\ ended' = ended + stats[s].written + InHand(s)
  /\ pc'[s] = "idle" /\ out'[s] = NothingStored
  /\ stats'[s] = NoStats

(* Every step counts in one of these ways. *)
LEMMA CountingSteps ==
  ASSUME StoreTypeOK, QueueInv, CountersOK, [StatsNext]_statsVars
  PROVE  \/ SameCounts
         \/ \E s \in Stores :
              SkipCounts(s) \/ HandleCounts(s) \/ FinishCounts(s) \/ ExitCounts(s)
<1>0. /\ pc \in [Stores -> Statements \cup {"idle", "done"}]
      /\ out \in [Stores -> FileStored]
      /\ stats \in [Stores -> Counters]
  BY DEF StoreTypeOK, CountersOK
<1>1. CASE UNCHANGED statsVars
  BY <1>1 DEF statsVars, listenerVars, storeVars, tables, calls, SameCounts
<1>2. CASE Uncounted
  <2>1. ASSUME NEW s \in Stores, Save(s)
        PROVE  SaveStep(s) /\ \A t \in Stores : pc'[t] = "idle" <=> pc[t] = "idle"
    BY <2>1, SaveKeepsCall DEF Save
  <2>2. ASSUME NEW s \in Stores, Start(s) \/ Fetch(s)
        PROVE  pc' = pc /\ out' = out /\ lastInfoID' = lastInfoID
    BY <2>2 DEF Start, Fetch, storeVars, tables, calls
  <2>3. ASSUME NEW m \in Msgs, Publish(m) \/ AckWait(m) \/ Expire(m)
        PROVE  pc' = pc /\ out' = out /\ lastInfoID' = lastInfoID
    BY <2>3 DEF Publish, AckWait, Expire, storeVars, tables, calls
  <2>4. ASSUME Admin
        PROVE  pc' = pc /\ out' = out /\ lastInfoID' = lastInfoID
    BY <2>4 DEF Admin, AdminStep, CountFiles, AbortDelete, TagFile, DeleteFilesByHost,
                tables, calls
  <2> QED
    BY <1>2, <2>1, <2>2, <2>3, <2>4 DEF Uncounted, SameCounts
<1>3. ASSUME NEW s \in Stores, CountSkip(s)
      PROVE  SkipCounts(s)
  <2>1. /\ pc' = pc /\ out' = out /\ pc[s] = "idle" /\ ended' = ended
        /\ lastInfoID' = lastInfoID
        /\ stats' = [stats EXCEPT ![s] = SkippedUnread(stats[s])]
    BY <1>3 DEF CountSkip, Skip, QueueInv, CallsHandleHeads, storeVars, tables, calls
  <2> QED
    BY <1>0, <2>1 DEF SkipCounts, OnlyCountsOf
<1>4. ASSUME NEW s \in Stores, CountHandle(s)
      PROVE  HandleCounts(s)
  <2>1. Payload[Head(batch[s])] \in Files
    <3>1. batch[s] \in Seq(Msgs) /\ batch[s] # <<>>
      BY <1>4 DEF CountHandle, Handle, QueueInv, QueueTypeOK
    <3>2. Head(batch[s]) \in Msgs
      BY <3>1, HeadAndTail
    <3> QED
      BY <1>4, <3>2, MsgsAssumption DEF MsgsAssumption, CountHandle, Handle
  <2>2. /\ pc[s] = "idle" /\ pc' = [pc EXCEPT ![s] = "queryHash"] /\ out' = out
        /\ ended' = ended /\ lastInfoID' = lastInfoID
        /\ stats' = [stats EXCEPT ![s] = ReadFrom(stats[s], Payload[Head(batch[s])])]
    BY <1>4 DEF CountHandle, Handle, Store, tables
  <2> QED
    BY <1>0, <2>1, <2>2 DEF HandleCounts, OnlyCountsOf
<1>5. ASSUME NEW s \in Stores, CountFinish(s)
      PROVE  FinishCounts(s)
  <2>1. /\ pc[s] = "done" /\ pc' = [pc EXCEPT ![s] = "idle"] /\ ended' = ended
        /\ out' = [out EXCEPT ![s] = NothingStored] /\ lastInfoID' = lastInfoID
        /\ stats' = [stats EXCEPT ![s] = Outcome(stats[s], out[s])]
    BY <1>5 DEF CountFinish, Finish, Return, EndCall, tables
  <2> QED
    BY <1>0, <2>1 DEF FinishCounts, OnlyCountsOf
<1>6. ASSUME NEW s \in Stores, CountExit(s)
      PROVE  ExitCounts(s)
  <2>1. /\ pc' = [pc EXCEPT ![s] = "idle"] /\ stats' = [stats EXCEPT ![s] = NoStats]
        /\ out' = [out EXCEPT ![s] = NothingStored] /\ lastInfoID' = lastInfoID
        /\ ended' = ended + stats[s].written + InHand(s)
    BY <1>6 DEF CountExit, ListenerExit, EndCall, tables
  <2> QED
    BY <1>0, <2>1 DEF ExitCounts, OnlyCountsOf
<1> QED
  BY <1>1, <1>2, <1>3, <1>4, <1>5, <1>6 DEF StatsNext

(* What a call that ends adds to the counters. *)
LEMMA OutcomeCounts ==
  ASSUME NEW st \in Counters, NEW r
  PROVE  /\ Outcome(st, r).received = st.received
         /\ Outcome(st, r).hosts = st.hosts
         /\ Outcome(st, r).extensions = st.extensions
         /\ \/ /\ r.err = "none" /\ Dirty(r)
               /\ Outcome(st, r).written = st.written + 1
               /\ Outcome(st, r).present = st.present
               /\ Outcome(st, r).skipped = st.skipped
            \/ /\ r.err = "none" /\ ~Dirty(r)
               /\ Outcome(st, r).written = st.written
               /\ Outcome(st, r).present = st.present + 1
               /\ Outcome(st, r).skipped = st.skipped
            \/ /\ r.err # "none"
               /\ Outcome(st, r).written = st.written
               /\ Outcome(st, r).present = st.present
               /\ Outcome(st, r).skipped = st.skipped + 1
<1>1. CASE r.err # "none"
  <2>1. Outcome(st, r) = [st EXCEPT !.skipped = @ + 1]
    BY <1>1 DEF Outcome
  <2> QED
    BY <1>1, <2>1 DEF Counters
<1>2. CASE r.err = "none" /\ Dirty(r)
  <2>1. Outcome(st, r) = [st EXCEPT !.written = @ + 1]
    BY <1>2 DEF Outcome
  <2> QED
    BY <1>2, <2>1 DEF Counters
<1>3. CASE r.err = "none" /\ ~Dirty(r)
  <2>1. Outcome(st, r) = [st EXCEPT !.present = @ + 1]
    BY <1>3 DEF Outcome
  <2> QED
    BY <1>3, <2>1 DEF Counters
<1> QED
  BY <1>1, <1>2, <1>3

(* What reading a message adds to the counters. *)
LEMMA ReadCounts ==
  ASSUME NEW st \in Counters, NEW f \in Files
  PROVE  /\ ReadFrom(st, f).received = st.received + 1
         /\ ReadFrom(st, f).written = st.written
         /\ ReadFrom(st, f).present = st.present
         /\ ReadFrom(st, f).skipped = st.skipped
         /\ ReadFrom(st, f).hosts = [st.hosts EXCEPT ![f.host] = @ + 1]
         /\ ReadFrom(st, f).extensions = [st.extensions EXCEPT ![Extension[f]] = @ + 1]
<1> DEFINE H == [st.hosts EXCEPT ![f.host] = @ + 1]
           E == [st.extensions EXCEPT ![Extension[f]] = @ + 1]
<1>1. Received(st) \in Counters /\ Received(st).received = st.received + 1
      /\ Received(st).written = st.written /\ Received(st).present = st.present
      /\ Received(st).skipped = st.skipped
  BY DEF Received, Counters
<1>2. Received(st).hosts = st.hosts /\ Received(st).extensions = st.extensions
  BY DEF Received, Counters
<1>3. ReadFrom(st, f) = [Received(st) EXCEPT !.hosts = H, !.extensions = E]
  BY <1>2, Zenon DEF ReadFrom
<1> HIDE DEF H, E
<1>4. /\ ReadFrom(st, f).received = st.received + 1
      /\ ReadFrom(st, f).written = st.written
      /\ ReadFrom(st, f).present = st.present
      /\ ReadFrom(st, f).skipped = st.skipped
      /\ ReadFrom(st, f).hosts = H /\ ReadFrom(st, f).extensions = E
  BY <1>1, <1>3 DEF Counters
<1> QED
  BY <1>4 DEF H, E

(* No step of the loop leaves a message out or counts one twice. *)
LEMMA LoopBalanceStep ==
  ASSUME StoreTypeOK, QueueInv, CountersOK, LoopBalance, [StatsNext]_statsVars
  PROVE  LoopBalance'
<1>0. \A s \in Stores :
        /\ stats[s] \in Counters
        /\ stats[s].received \in Nat /\ stats[s].written \in Nat
        /\ stats[s].skipped \in Nat /\ stats[s].present \in Nat
  BY DEF CountersOK, Counters
<1>1. CASE SameCounts
  BY <1>1 DEF LoopBalance, SameCounts
<1>2. ASSUME NEW s \in Stores, OnlyCountsOf(s),
             stats'[s].received = stats'[s].written + stats'[s].present
               + stats'[s].skipped + (IF pc'[s] = "idle" THEN 0 ELSE 1)
      PROVE  LoopBalance'
  BY <1>2 DEF LoopBalance, OnlyCountsOf
<1>3. ASSUME NEW s \in Stores, SkipCounts(s)
      PROVE  LoopBalance'
  <2>1. stats[s].received = stats[s].written + stats[s].present + stats[s].skipped
    BY <1>0, <1>3 DEF LoopBalance, SkipCounts
  <2>2. /\ stats'[s].received = stats[s].received + 1
        /\ stats'[s].skipped = stats[s].skipped + 1
        /\ stats'[s].written = stats[s].written /\ stats'[s].present = stats[s].present
    BY <1>0, <1>3 DEF SkipCounts, SkippedUnread, Received, Counters
  <2> QED
    BY <1>0, <1>2, <1>3, <2>1, <2>2 DEF SkipCounts
<1>4. ASSUME NEW s \in Stores, HandleCounts(s)
      PROVE  LoopBalance'
  <2>1. stats[s].received = stats[s].written + stats[s].present + stats[s].skipped
    BY <1>0, <1>4 DEF LoopBalance, HandleCounts
  <2>2. /\ stats'[s].received = stats[s].received + 1
        /\ stats'[s].written = stats[s].written /\ stats'[s].present = stats[s].present
        /\ stats'[s].skipped = stats[s].skipped
    <3>1. PICK f \in Files : stats'[s] = ReadFrom(stats[s], f)
      BY <1>4 DEF HandleCounts
    <3>2. stats[s] \in Counters
      BY <1>0
    <3>3. /\ ReadFrom(stats[s], f).received = stats[s].received + 1
          /\ ReadFrom(stats[s], f).written = stats[s].written
          /\ ReadFrom(stats[s], f).present = stats[s].present
          /\ ReadFrom(stats[s], f).skipped = stats[s].skipped
      BY <3>2, ReadCounts
    <3> QED
      BY <3>1, <3>3
  <2> QED
    BY <1>0, <1>2, <1>4, <2>1, <2>2 DEF HandleCounts
<1>5. ASSUME NEW s \in Stores, FinishCounts(s)
      PROVE  LoopBalance'
  <2>1. stats[s].received = stats[s].written + stats[s].present + stats[s].skipped + 1
    BY <1>0, <1>5 DEF LoopBalance, FinishCounts
  <2>2. stats'[s].received = stats'[s].written + stats'[s].present + stats'[s].skipped
    <3>1. /\ stats'[s].received = stats[s].received
          /\ \/ /\ stats'[s].written = stats[s].written + 1
                /\ stats'[s].present = stats[s].present
                /\ stats'[s].skipped = stats[s].skipped
             \/ /\ stats'[s].written = stats[s].written
                /\ stats'[s].present = stats[s].present + 1
                /\ stats'[s].skipped = stats[s].skipped
             \/ /\ stats'[s].written = stats[s].written
                /\ stats'[s].present = stats[s].present
                /\ stats'[s].skipped = stats[s].skipped + 1
      BY <1>0, <1>5, OutcomeCounts DEF FinishCounts
    <3> QED
      BY <1>0, <2>1, <3>1
  <2>3. stats'[s] \in Counters
    BY <1>0, <1>5, CountersOfCounters DEF FinishCounts
  <2>4. stats'[s].written \in Nat /\ stats'[s].present \in Nat /\ stats'[s].skipped \in Nat
    BY <2>3 DEF Counters
  <2> QED
    BY <1>2, <1>5, <2>2, <2>4 DEF FinishCounts
<1>6. ASSUME NEW s \in Stores, ExitCounts(s)
      PROVE  LoopBalance'
  <2>1. stats'[s].received = 0 /\ stats'[s].written = 0 /\ stats'[s].present = 0
        /\ stats'[s].skipped = 0
    BY <1>6 DEF ExitCounts, NoStats
  <2> QED
    BY <1>2, <1>6, <2>1 DEF ExitCounts
<1> QED
  BY <1>1, <1>3, <1>4, <1>5, <1>6, CountingSteps

(* Every message a process receives is written, already present or skipped, and
   only one of them, for any number of processes, messages and faults. *)
THEOREM EveryMessageIsCounted == StatsSpec => []LoopBalance
<1>1. StatsInit => LoopBalance /\ CountersOK
  BY DEF StatsInit, ListenerInit, StoreInit, LoopBalance, CountersOK, NoStats, Counters
<1>2. StatsSpec => [](StoreTypeOK /\ QueueInv /\ ListenerTypeOK)
  BY CountersOnlyCount, ListenerTypeCorrect, QueueCorrect, PTL
<1> QED
  BY <1>1, <1>2, CountersKept, LoopBalanceStep, PTL DEF StatsSpec

-----------------------------------------------------------------------------
(* How many messages st counts for a host, and for an extension. *)
OfHosts(st)      == Total(st.hosts, Hosts)
OfExtensions(st) == Total(st.extensions, Extensions)

InCall(s) == IF pc[s] = "idle" THEN 0 ELSE 1

(* The second half of StatsBalance, of one process. *)
ReadBalance(s) ==
  /\ OfHosts(stats[s]) = OfExtensions(stats[s])
  /\ stats[s].written + stats[s].present + InCall(s) <= OfHosts(stats[s])
  /\ OfHosts(stats[s]) <= stats[s].received

(* There are finitely many extensions, as of a finite set of files. *)
LEMMA FiniteExtensions == IsFiniteSet(Extensions) /\ IsFiniteSet(Hosts)
<1>1. IsFiniteSet(Files) /\ IsFiniteSet(Hosts)
  BY StatsAssumption DEF StatsAssumption
<1> DEFINE ExtensionOf == [f \in Files |-> Extension[f]]
<1>2. Extensions = {ExtensionOf[f] : f \in Files}
  BY DEF Extensions
<1>3. ExtensionOf \in Surjection(Files, Extensions)
  BY DEF Surjection, Extensions
<1> HIDE DEF ExtensionOf
<1>4. IsFiniteSet(Extensions)
  BY <1>1, <1>3, FS_Surjection
<1> QED
  BY <1>1, <1>4

(* What a message adds to the sums: one to both when it is read, nothing when
   it is skipped or its call ends. *)
LEMMA SumsMove ==
  ASSUME NEW st \in Counters
  PROVE  /\ OfHosts(st) \in Nat /\ OfExtensions(st) \in Nat
         /\ \A f \in Files : /\ OfHosts(ReadFrom(st, f)) = OfHosts(st) + 1
                             /\ OfExtensions(ReadFrom(st, f)) = OfExtensions(st) + 1
         /\ OfHosts(SkippedUnread(st)) = OfHosts(st)
         /\ OfExtensions(SkippedUnread(st)) = OfExtensions(st)
         /\ \A r : /\ OfHosts(Outcome(st, r)) = OfHosts(st)
                   /\ OfExtensions(Outcome(st, r)) = OfExtensions(st)
<1>1. st.hosts \in [Hosts -> Nat] /\ st.extensions \in [Extensions -> Nat]
  BY DEF Counters
<1>2. OfHosts(st) \in Nat /\ OfExtensions(st) \in Nat
  BY <1>1, FiniteExtensions, TotalType DEF OfHosts, OfExtensions
<1>3. ASSUME NEW f \in Files
      PROVE  /\ OfHosts(ReadFrom(st, f)) = OfHosts(st) + 1
             /\ OfExtensions(ReadFrom(st, f)) = OfExtensions(st) + 1
  <2> DEFINE H == ReadFrom(st, f).hosts
             E == ReadFrom(st, f).extensions
  <2>1. f.host \in Hosts /\ Extension[f] \in Extensions
    BY FilesAssumption DEF FilesAssumption, Extensions
  <2>2. H = [st.hosts EXCEPT ![f.host] = @ + 1]
    BY ReadCounts
  <2>3. E = [st.extensions EXCEPT ![Extension[f]] = @ + 1]
    BY ReadCounts
  <2> HIDE DEF H, E
  <2>4. /\ \A x \in Hosts : st.hosts[x] \in Nat /\ H[x] \in Nat
        /\ \A x \in Hosts \ {f.host} : H[x] = st.hosts[x]
        /\ H[f.host] = st.hosts[f.host] + 1
    BY <1>1, <2>1, <2>2
  <2>5. Total(H, Hosts) + st.hosts[f.host] = Total(st.hosts, Hosts) + H[f.host]
    BY <2>1, <2>4, FiniteExtensions, TotalChange
  <2>6. /\ \A x \in Extensions : st.extensions[x] \in Nat /\ E[x] \in Nat
        /\ \A x \in Extensions \ {Extension[f]} : E[x] = st.extensions[x]
        /\ E[Extension[f]] = st.extensions[Extension[f]] + 1
    BY <1>1, <2>1, <2>3
  <2>7. Total(E, Extensions) + st.extensions[Extension[f]]
          = Total(st.extensions, Extensions) + E[Extension[f]]
    BY <2>1, <2>6, FiniteExtensions, TotalChange
  <2>8. Total(H, Hosts) \in Nat /\ Total(E, Extensions) \in Nat
        /\ Total(st.hosts, Hosts) \in Nat /\ Total(st.extensions, Extensions) \in Nat
    BY <1>1, <2>4, <2>6, FiniteExtensions, TotalType
  <2>9. Total(H, Hosts) = Total(st.hosts, Hosts) + 1
    BY <2>1, <2>4, <2>5, <2>8
  <2>10. Total(E, Extensions) = Total(st.extensions, Extensions) + 1
    BY <2>1, <2>6, <2>7, <2>8
  <2> QED
    BY <2>9, <2>10 DEF OfHosts, OfExtensions, H, E
<1>4. SkippedUnread(st).hosts = st.hosts /\ SkippedUnread(st).extensions = st.extensions
  BY DEF SkippedUnread, Received, Counters
<1>5. \A r : Outcome(st, r).hosts = st.hosts /\ Outcome(st, r).extensions = st.extensions
  BY OutcomeCounts
<1> QED
  BY <1>2, <1>3, <1>4, <1>5 DEF OfHosts, OfExtensions

(* A new process has counted nothing. *)
LEMMA NothingCounted == OfHosts(NoStats) = 0 /\ OfExtensions(NoStats) = 0
<1>1. \A x \in Hosts : NoStats.hosts[x] = 0
  BY DEF NoStats
<1>2. \A x \in Extensions : NoStats.extensions[x] = 0
  BY DEF NoStats
<1> QED
  BY <1>1, <1>2, FiniteExtensions, TotalZero DEF OfHosts, OfExtensions

(* Every step keeps the sums in balance with the four counters. *)
LEMMA ReadBalanceStep ==
  ASSUME StoreTypeOK, QueueInv, CountersOK, \A s \in Stores : ReadBalance(s),
         [StatsNext]_statsVars
  PROVE  \A s \in Stores : ReadBalance(s)'
<1>0. \A s \in Stores :
        /\ stats[s] \in Counters
        /\ stats[s].received \in Nat /\ stats[s].written \in Nat
        /\ stats[s].skipped \in Nat /\ stats[s].present \in Nat
  BY DEF CountersOK, Counters
<1>1. CASE SameCounts
  BY <1>1 DEF ReadBalance, SameCounts, InCall
<1>2. ASSUME NEW s \in Stores, OnlyCountsOf(s), ReadBalance(s)'
      PROVE  \A t \in Stores : ReadBalance(t)'
  <2>1. \A t \in Stores \ {s} : ReadBalance(t)'
    BY <1>2 DEF ReadBalance, OnlyCountsOf, InCall
  <2> QED
    BY <1>2, <2>1
<1>3. ASSUME NEW s \in Stores, SkipCounts(s)
      PROVE  ReadBalance(s)'
  <2>1. /\ stats'[s].received = stats[s].received + 1
        /\ stats'[s].written = stats[s].written /\ stats'[s].present = stats[s].present
    BY <1>0, <1>3 DEF SkipCounts, SkippedUnread, Received, Counters
  <2>2. /\ OfHosts(stats'[s]) = OfHosts(stats[s]) /\ OfHosts(stats[s]) \in Nat
        /\ OfExtensions(stats'[s]) = OfExtensions(stats[s])
    BY <1>0, <1>3, SumsMove DEF SkipCounts
  <2>3. InCall(s)' = InCall(s)
    BY <1>3 DEF SkipCounts, InCall
  <2>4. /\ OfHosts(stats[s]) = OfExtensions(stats[s])
        /\ stats[s].written + stats[s].present + InCall(s) <= OfHosts(stats[s])
        /\ OfHosts(stats[s]) <= stats[s].received
    BY DEF ReadBalance
  <2>5. OfHosts(stats'[s]) <= stats'[s].received
    BY <1>0, <2>1, <2>2, <2>4
  <2> QED
    BY <2>1, <2>2, <2>3, <2>4, <2>5 DEF ReadBalance
<1>4. ASSUME NEW s \in Stores, HandleCounts(s)
      PROVE  ReadBalance(s)'
  <2>1. PICK f \in Files : stats'[s] = ReadFrom(stats[s], f)
    BY <1>4 DEF HandleCounts
  <2>2. stats[s] \in Counters
    BY <1>0
  <2>3. /\ stats'[s].received = stats[s].received + 1
        /\ stats'[s].written = stats[s].written /\ stats'[s].present = stats[s].present
    <3>1. /\ ReadFrom(stats[s], f).received = stats[s].received + 1
          /\ ReadFrom(stats[s], f).written = stats[s].written
          /\ ReadFrom(stats[s], f).present = stats[s].present
      BY <2>2, ReadCounts
    <3> QED
      BY <2>1, <3>1
  <2>4. /\ OfHosts(stats'[s]) = OfHosts(stats[s]) + 1 /\ OfHosts(stats[s]) \in Nat
        /\ OfExtensions(stats'[s]) = OfExtensions(stats[s]) + 1
    BY <2>1, <2>2, SumsMove
  <2>5. InCall(s)' = 1 /\ InCall(s) = 0
    BY <1>4 DEF HandleCounts, InCall
  <2>6. /\ OfHosts(stats[s]) = OfExtensions(stats[s])
        /\ stats[s].written + stats[s].present + InCall(s) <= OfHosts(stats[s])
        /\ OfHosts(stats[s]) <= stats[s].received
    BY DEF ReadBalance
  <2>7. /\ OfHosts(stats'[s]) <= stats'[s].received
        /\ stats'[s].written + stats'[s].present + 1 <= OfHosts(stats'[s])
    BY <1>0, <2>3, <2>4, <2>5, <2>6
  <2> QED
    BY <2>4, <2>5, <2>6, <2>7 DEF ReadBalance
<1>5. ASSUME NEW s \in Stores, FinishCounts(s)
      PROVE  ReadBalance(s)'
  <2>1. /\ stats'[s].received = stats[s].received
        /\ stats'[s].written + stats'[s].present <= stats[s].written + stats[s].present + 1
        /\ stats'[s].written + stats'[s].present \in Nat
    <3>1. /\ stats'[s].received = stats[s].received
          /\ \/ /\ stats'[s].written = stats[s].written + 1
                /\ stats'[s].present = stats[s].present
             \/ /\ stats'[s].written = stats[s].written
                /\ stats'[s].present = stats[s].present + 1
             \/ /\ stats'[s].written = stats[s].written
                /\ stats'[s].present = stats[s].present
      BY <1>0, <1>5, OutcomeCounts DEF FinishCounts
    <3> QED
      BY <1>0, <3>1
  <2>2. /\ OfHosts(stats'[s]) = OfHosts(stats[s]) /\ OfHosts(stats[s]) \in Nat
        /\ OfExtensions(stats'[s]) = OfExtensions(stats[s])
    BY <1>0, <1>5, SumsMove DEF FinishCounts
  <2>3. InCall(s)' = 0 /\ InCall(s) = 1
    BY <1>5 DEF FinishCounts, InCall
  <2>4. /\ OfHosts(stats[s]) = OfExtensions(stats[s])
        /\ stats[s].written + stats[s].present + InCall(s) <= OfHosts(stats[s])
        /\ OfHosts(stats[s]) <= stats[s].received
    BY DEF ReadBalance
  <2>5. stats'[s].written + stats'[s].present + 0 <= OfHosts(stats'[s])
    BY <1>0, <2>1, <2>2, <2>3, <2>4
  <2> QED
    BY <2>1, <2>2, <2>3, <2>4, <2>5 DEF ReadBalance
<1>6. ASSUME NEW s \in Stores, ExitCounts(s)
      PROVE  ReadBalance(s)'
  <2>1. stats'[s] = NoStats /\ InCall(s)' = 0
    BY <1>6 DEF ExitCounts, InCall
  <2>2. NoStats.received = 0 /\ NoStats.written = 0 /\ NoStats.present = 0
    BY DEF NoStats
  <2> QED
    BY <2>1, <2>2, NothingCounted DEF ReadBalance
<1> QED
  BY <1>1, <1>2, <1>3, <1>4, <1>5, <1>6, CountingSteps
     DEF SkipCounts, HandleCounts, FinishCounts, ExitCounts

(* Every message received is accounted for once; and those that could be read
   count for one host and for one extension, for any number of processes,
   messages, hosts and extensions. *)
THEOREM StatsBalanceAlways == StatsSpec => []StatsBalance
<1> DEFINE Inv == \A s \in Stores : ReadBalance(s)
<1>1. StatsInit => Inv /\ CountersOK
  <2> SUFFICES ASSUME StatsInit
               PROVE  Inv /\ CountersOK
    OBVIOUS
  <2>1. CountersOK
    BY DEF StatsInit, CountersOK, NoStats, Counters
  <2>2. ASSUME NEW s \in Stores
        PROVE  stats[s] = NoStats /\ InCall(s) = 0
    BY DEF StatsInit, ListenerInit, StoreInit, InCall
  <2>3. NoStats.received = 0 /\ NoStats.written = 0 /\ NoStats.present = 0
    BY DEF NoStats
  <2> QED
    BY <2>1, <2>2, <2>3, NothingCounted DEF ReadBalance
<1>2. StatsSpec => [](StoreTypeOK /\ QueueInv /\ ListenerTypeOK)
  BY CountersOnlyCount, ListenerTypeCorrect, QueueCorrect, PTL
<1>3. StoreTypeOK /\ QueueInv /\ ListenerTypeOK /\ CountersOK /\ Inv /\ [StatsNext]_statsVars
        => CountersOK' /\ Inv'
  BY CountersKept, ReadBalanceStep
<1>4. LoopBalance /\ Inv => StatsBalance
  BY DEF StatsBalance, ReadBalance, OfHosts, OfExtensions, InCall
<1> HIDE DEF Inv
<1> QED
  BY <1>1, <1>2, <1>3, <1>4, EveryMessageIsCounted, PTL DEF StatsSpec

-----------------------------------------------------------------------------
(* The rows a process has inserted, as its counters will tell. *)
Claimed == [s \in Stores |-> stats[s].written + InHand(s)]

Reported == ended + Total(Claimed, Stores)

(* A call that ends well with a hash that was new for a file that was not. *)
CountsHashOnly(s) ==
  out[s].err = "none" /\ out[s].FileHash /\ ~out[s].FileInfo

(* What is claimed are numbers, and so are their sums. *)
LEMMA ClaimsAreNumbers ==
  ASSUME CountersOK
  PROVE  /\ \A s \in Stores : /\ Claimed[s] = stats[s].written + InHand(s)
                              /\ stats[s].written \in Nat /\ InHand(s) \in {0, 1}
                              /\ Claimed[s] \in Nat
         /\ Total(Claimed, Stores) \in Nat
<1>1. \A s \in Stores : /\ Claimed[s] = stats[s].written + InHand(s)
                        /\ stats[s].written \in Nat /\ InHand(s) \in {0, 1}
                        /\ Claimed[s] \in Nat
  BY DEF Claimed, CountersOK, Counters, InHand
<1>2. Total(Claimed, Stores) \in Nat
  BY <1>1, TotalType, StatsAssumption DEF StatsAssumption
<1> QED
  BY <1>1, <1>2

(* The same after a step. *)
LEMMA ClaimsStayNumbers ==
  ASSUME CountersOK'
  PROVE  /\ \A s \in Stores : /\ Claimed'[s] = stats'[s].written + InHand(s)'
                              /\ stats'[s].written \in Nat /\ InHand(s)' \in {0, 1}
                              /\ Claimed'[s] \in Nat
         /\ Total(Claimed', Stores) \in Nat
<1>1. \A s \in Stores : /\ Claimed'[s] = stats'[s].written + InHand(s)'
                        /\ stats'[s].written \in Nat /\ InHand(s)' \in {0, 1}
                        /\ Claimed'[s] \in Nat
  BY DEF Claimed, CountersOK, Counters, InHand
<1>2. Total(Claimed', Stores) \in Nat
  BY <1>1, TotalType, StatsAssumption DEF StatsAssumption
<1> QED
  BY <1>1, <1>2

(* A statement that inserts a row is the only one that changes InHand. *)
LEMMA SaveClaims ==
  ASSUME StoreTypeOK, InsertIsLast, NEW s \in Stores, SaveStep(s)
  PROVE  /\ \A t \in Stores \ {s} : out'[t] = out[t]
         /\ \/ InHand(s)' = InHand(s) /\ lastInfoID' = lastInfoID
            \/ InHand(s) = 0 /\ InHand(s)' = 1 /\ lastInfoID' = lastInfoID + 1
<1>0. out \in [Stores -> FileStored] /\ pc \in [Stores -> Statements \cup {"idle", "done"}]
  BY DEF StoreTypeOK
<1>1. ASSUME out' = out, lastInfoID' = lastInfoID
      PROVE  /\ \A t \in Stores \ {s} : out'[t] = out[t]
             /\ InHand(s)' = InHand(s) /\ lastInfoID' = lastInfoID
  BY <1>1 DEF InHand
<1>2. ASSUME NEW r, out' = [out EXCEPT ![s] = r], r.FileInfo = out[s].FileInfo
      PROVE  /\ \A t \in Stores \ {s} : out'[t] = out[t]
             /\ InHand(s)' = InHand(s)
  BY <1>0, <1>2 DEF InHand
<1>3. \A e \in Errors : FailedBy(out[s], e).FileInfo = out[s].FileInfo
  BY <1>0 DEF FailedBy, FileStored
<1>4. HashWritten(out[s]).FileInfo = out[s].FileInfo
  BY <1>0 DEF HashWritten, FileStored
<1>5. CASE QueryFileHash(s) \/ QueryFileInfo(s)
  BY <1>1, <1>5 DEF QueryFileHash, QueryFileInfo, tables
<1>6. CASE InsertHash(s)
  <2>1. /\ lastInfoID' = lastInfoID
        /\ \/ out' = [out EXCEPT ![s] = HashWritten(out[s])]
           \/ out' = [out EXCEPT ![s] = FailedBy(out[s], "unique")]
    BY <1>6 DEF InsertHash
  <2> QED
    BY <1>2, <1>3, <1>4, <2>1 DEF Errors
<1>7. CASE SqlError(s)
  <2>1. /\ lastInfoID' = lastInfoID
        /\ out' = [out EXCEPT ![s] = FailedBy(out[s], "sql")]
    BY <1>7 DEF SqlError, tables
  <2> QED
    BY <1>2, <1>3, <2>1 DEF Errors
<1>8. CASE InsertInfo(s)
  <2>1. CASE out' = [out EXCEPT ![s] = FailedBy(out[s], "foreignKey")] /\ lastInfoID' = lastInfoID
    BY <1>2, <1>3, <2>1 DEF Errors
  <2>2. CASE out' = [out EXCEPT ![s] = InfoWritten(out[s])] /\ lastInfoID' = lastInfoID + 1
    <3>1. ~out[s].FileInfo
      BY <1>8 DEF InsertInfo, InsertIsLast
    <3>2. InfoWritten(out[s]).FileInfo
      BY <1>0 DEF InfoWritten, FileStored
    <3> QED
      BY <1>0, <2>2, <3>1, <3>2 DEF InHand
  <2> QED
    BY <1>8, <2>1, <2>2 DEF InsertInfo, NextInfoID
<1> QED
  BY <1>5, <1>6, <1>7, <1>8 DEF SaveStep

(* Every step adds to what is reported what it adds to the table, except one
   that ends a call with nothing new but the hash. *)
LEMMA ReportedMoves ==
  ASSUME StoreTypeOK, QueueInv, InsertIsLast, CountersOK, CountersOK', [StatsNext]_statsVars
  PROVE  \/ Reported' + lastInfoID = Reported + lastInfoID'
         \/ /\ Reported' = Reported + 1 /\ lastInfoID' = lastInfoID
            /\ \E s \in Stores : CountsHashOnly(s) /\ pc[s] = "done"
<1>0. /\ lastInfoID \in Nat /\ ended \in Nat
      /\ IsFiniteSet(Stores)
      /\ Total(Claimed, Stores) \in Nat /\ Total(Claimed, Stores)' \in Nat
  BY ClaimsAreNumbers, ClaimsStayNumbers, StatsAssumption DEF StoreTypeOK, CountersOK, StatsAssumption
<1>1. ASSUME NEW s \in Stores, \A t \in Stores \ {s} : stats'[t] = stats[t] /\ out'[t] = out[t]
      PROVE  Total(Claimed, Stores)' + stats[s].written + InHand(s)
               = Total(Claimed, Stores) + stats'[s].written + InHand(s)'
  <2>1. \A t \in Stores \ {s} : Claimed'[t] = Claimed[t]
    BY <1>1 DEF Claimed, InHand
  <2>2. \A t \in Stores : Claimed[t] \in Nat /\ Claimed'[t] \in Nat
    BY ClaimsAreNumbers, ClaimsStayNumbers
  <2>3. Total(Claimed', Stores) + Claimed[s] = Total(Claimed, Stores) + Claimed'[s]
    BY <1>0, <2>1, <2>2, TotalChange
  <2>4. /\ Claimed[s] = stats[s].written + InHand(s)
        /\ Claimed'[s] = stats'[s].written + InHand(s)'
        /\ stats[s].written \in Nat /\ InHand(s) \in Nat
        /\ stats'[s].written \in Nat /\ InHand(s)' \in Nat
    BY ClaimsAreNumbers, ClaimsStayNumbers
  <2> QED
    BY <1>0, <2>3, <2>4
<1>2. \A s \in Stores : /\ stats[s].written \in Nat /\ InHand(s) \in Nat
                        /\ stats[s] \in Counters
  BY ClaimsAreNumbers, ClaimsStayNumbers DEF CountersOK
<1>3. CASE SameCounts
  <2>1. stats' = stats /\ ended' = ended
    BY <1>3 DEF SameCounts
  <2>2. CASE out' = out /\ lastInfoID' = lastInfoID
    <3>1. Claimed' = Claimed
      BY <2>1, <2>2 DEF Claimed, InHand
    <3> QED
      BY <1>0, <2>1, <2>2, <3>1 DEF Reported
  <2>3. ASSUME NEW s \in Stores, SaveStep(s)
        PROVE  Reported' + lastInfoID = Reported + lastInfoID'
    <3>1. /\ \A t \in Stores \ {s} : out'[t] = out[t]
          /\ \/ InHand(s)' = InHand(s) /\ lastInfoID' = lastInfoID
             \/ InHand(s) = 0 /\ InHand(s)' = 1 /\ lastInfoID' = lastInfoID + 1
      BY <2>3, SaveClaims
    <3>2. Total(Claimed, Stores)' + stats[s].written + InHand(s)
               = Total(Claimed, Stores) + stats[s].written + InHand(s)'
      BY <1>1, <2>1, <3>1
    <3>3. Total(Claimed, Stores)' + lastInfoID = Total(Claimed, Stores) + lastInfoID'
      BY <1>0, <1>2, <3>1, <3>2
    <3>4. lastInfoID' \in Nat
      BY <1>0, <3>1
    <3> QED
      BY <1>0, <2>1, <3>3, <3>4 DEF Reported
  <2> QED
    BY <1>3, <2>2, <2>3 DEF SameCounts
<1>4. ASSUME NEW s \in Stores, OnlyCountsOf(s), ended' = ended,
             stats'[s].written = stats[s].written, InHand(s)' = InHand(s)
      PROVE  Reported' + lastInfoID = Reported + lastInfoID'
  <2>1. Total(Claimed, Stores)' + stats[s].written + InHand(s)
          = Total(Claimed, Stores) + stats[s].written + InHand(s)
    BY <1>1, <1>4 DEF OnlyCountsOf
  <2>2. Total(Claimed, Stores)' = Total(Claimed, Stores)
    BY <1>0, <1>2, <2>1
  <2> QED
    BY <1>0, <1>4, <2>2 DEF Reported, OnlyCountsOf
<1>5. ASSUME NEW s \in Stores, SkipCounts(s)
      PROVE  Reported' + lastInfoID = Reported + lastInfoID'
  <2>1. stats'[s].written = stats[s].written
    BY <1>2, <1>5 DEF SkipCounts, SkippedUnread, Received, Counters
  <2>2. InHand(s)' = InHand(s)
    BY <1>5 DEF SkipCounts, InHand
  <2> QED
    BY <1>4, <1>5, <2>1, <2>2 DEF SkipCounts
<1>6. ASSUME NEW s \in Stores, HandleCounts(s)
      PROVE  Reported' + lastInfoID = Reported + lastInfoID'
  <2>1. PICK f \in Files : stats'[s] = ReadFrom(stats[s], f)
    BY <1>6 DEF HandleCounts
  <2>2. ReadFrom(stats[s], f).written = stats[s].written
    BY <1>2, ReadCounts
  <2>3. InHand(s)' = InHand(s)
    BY <1>6 DEF HandleCounts, InHand
  <2> QED
    BY <1>4, <1>6, <2>1, <2>2, <2>3 DEF HandleCounts
<1>7. ASSUME NEW s \in Stores, FinishCounts(s)
      PROVE  \/ Reported' + lastInfoID = Reported + lastInfoID'
             \/ /\ Reported' = Reported + 1 /\ lastInfoID' = lastInfoID
                /\ CountsHashOnly(s) /\ pc[s] = "done"
  <2>1. InHand(s)' = 0
    BY <1>7 DEF FinishCounts, InHand, NothingStored
  <2>2. /\ ended' = ended /\ lastInfoID' = lastInfoID
        /\ Total(Claimed, Stores)' + stats[s].written + InHand(s)
             = Total(Claimed, Stores) + stats'[s].written
    <3>1. Total(Claimed, Stores)' + stats[s].written + InHand(s)
             = Total(Claimed, Stores) + stats'[s].written + InHand(s)'
      BY <1>1, <1>7 DEF FinishCounts, OnlyCountsOf
    <3>2. stats'[s].written \in Nat
      BY ClaimsAreNumbers, ClaimsStayNumbers
    <3> QED
      BY <1>0, <1>7, <2>1, <3>1, <3>2 DEF FinishCounts, OnlyCountsOf
  <2>3. \/ out[s].err = "none" /\ Dirty(out[s]) /\ stats'[s].written = stats[s].written + 1
        \/ ~Dirty(out[s]) /\ stats'[s].written = stats[s].written
        \/ out[s].err # "none" /\ stats'[s].written = stats[s].written
    BY <1>2, <1>7, OutcomeCounts DEF FinishCounts
  <2>4. out[s].FileInfo => out[s].err = "none" /\ Dirty(out[s])
    BY DEF InsertIsLast, Dirty
  <2>5. CASE stats'[s].written = stats[s].written + InHand(s)
    <3>1. Total(Claimed, Stores)' = Total(Claimed, Stores)
      BY <1>0, <1>2, <2>2, <2>5
    <3> QED
      BY <1>0, <2>2, <3>1 DEF Reported
  <2>6. CASE stats'[s].written = stats[s].written + 1 /\ InHand(s) = 0 /\ CountsHashOnly(s)
    <3>1. Total(Claimed, Stores)' = Total(Claimed, Stores) + 1
      BY <1>0, <1>2, <2>2, <2>6
    <3> QED
      BY <1>0, <1>7, <2>2, <2>6, <3>1 DEF Reported, FinishCounts
  <2> QED
    BY <1>2, <2>3, <2>4, <2>5, <2>6 DEF InHand, CountsHashOnly, Dirty
<1>8. ASSUME NEW s \in Stores, ExitCounts(s)
      PROVE  Reported' + lastInfoID = Reported + lastInfoID'
  <2>1. InHand(s)' = 0 /\ stats'[s].written = 0
    BY <1>8 DEF ExitCounts, InHand, NothingStored, NoStats
  <2>2. /\ ended' = ended + stats[s].written + InHand(s) /\ lastInfoID' = lastInfoID
        /\ Total(Claimed, Stores)' + stats[s].written + InHand(s)
             = Total(Claimed, Stores) + stats'[s].written + InHand(s)'
    BY <1>1, <1>8 DEF ExitCounts, OnlyCountsOf
  <2>3. Total(Claimed, Stores)' + stats[s].written + InHand(s) = Total(Claimed, Stores)
    BY <1>0, <2>1, <2>2
  <2> QED
    BY <1>0, <1>2, <2>2, <2>3 DEF Reported
<1> QED
  BY <1>3, <1>5, <1>6, <1>7, <1>8, CountingSteps

(* What the index guarantees holds under the counters. *)
LEMMA CountedStore == StatsSpec => StoreSpec /\ [](StoreTypeOK /\ QueueInv /\ ListenerTypeOK)
BY CountersOnlyCount, ListenersUseTheStore, ListenerTypeCorrect, QueueCorrect, PTL

(* With any number of processes, no row goes unreported: the reports of all
   processes together say at least as many files as there were rows inserted. *)
THEOREM NoRowUnreported == StatsSpec => [](lastInfoID <= Reported)
<1> DEFINE Inv == CountersOK /\ lastInfoID <= Reported
<1>1. StatsInit => CountersOK /\ Reported \in Nat /\ lastInfoID = 0
  <2> SUFFICES ASSUME StatsInit
               PROVE  CountersOK /\ Reported \in Nat /\ lastInfoID = 0
    OBVIOUS
  <2>1. CountersOK /\ lastInfoID = 0
    BY DEF StatsInit, CountersOK, NoStats, Counters, ListenerInit, StoreInit
  <2>2. Total(Claimed, Stores) \in Nat
    BY <2>1, ClaimsAreNumbers
  <2> QED
    BY <2>1, <2>2 DEF Reported, CountersOK
<1>2. StatsInit => Inv
  BY <1>1
<1>3. ASSUME StoreTypeOK, QueueInv, ListenerTypeOK, InsertIsLast, Inv, StoreTypeOK',
             [StatsNext]_statsVars
      PROVE  Inv'
  <2>1. CountersOK'
    BY <1>3, CountersKept
  <2>2. ended' \in Nat
    BY <2>1 DEF CountersOK
  <2>3. Reported \in Nat /\ Reported' \in Nat /\ lastInfoID \in Nat
    BY <1>3, <2>1, ClaimsAreNumbers, ClaimsStayNumbers DEF Reported, CountersOK, StoreTypeOK
  <2>4. \/ Reported' + lastInfoID = Reported + lastInfoID'
        \/ Reported' = Reported + 1 /\ lastInfoID' = lastInfoID
    BY <1>3, <2>1, <2>2, ReportedMoves
  <2>5. lastInfoID' \in Int
    BY <1>3 DEF StoreTypeOK
  <2>6. lastInfoID' <= Reported'
    BY <1>3, <2>3, <2>4, <2>5
  <2> QED
    BY <2>1, <2>6
<1>4. Inv => lastInfoID <= Reported
  OBVIOUS
<1> HIDE DEF Inv
<1> QED
  BY <1>2, <1>3, <1>4, CountedStore, InsertsAreLast, PTL DEF StatsSpec

(* With one process the reports say exactly how many rows were inserted:
   crashes, failed statements, deletions and redeliveries neither lose one nor
   count one twice, and no hash left behind by a failed insertion is mistaken
   for a file. *)
THEOREM OneProcessReportsRows ==
  ASSUME \A s, t \in Stores : s = t
  PROVE  StatsSpec => []WrittenCountsRows
<1> DEFINE Inv == CountersOK /\ lastInfoID = Reported
<1>1. StatsInit => Inv
  <2> SUFFICES ASSUME StatsInit
               PROVE  Inv
    OBVIOUS
  <2>1. CountersOK /\ lastInfoID = 0 /\ ended = 0
    BY DEF StatsInit, CountersOK, NoStats, Counters, ListenerInit, StoreInit
  <2>2. \A s \in Stores : Claimed[s] = 0
    BY DEF StatsInit, ListenerInit, StoreInit, Claimed, NoStats, InHand, NothingStored
  <2>3. Total(Claimed, Stores) = 0
    BY <2>2, TotalZero, StatsAssumption DEF StatsAssumption
  <2> QED
    BY <2>1, <2>3 DEF Reported
<1>2. ASSUME StoreTypeOK, QueueInv, ListenerTypeOK, InsertIsLast, NewHashNewFile, Inv,
             StoreTypeOK', [StatsNext]_statsVars
      PROVE  Inv'
  <2>1. CountersOK'
    BY <1>2, CountersKept
  <2>2. ended' \in Nat
    BY <2>1 DEF CountersOK
  <2>3. Reported \in Nat /\ Reported' \in Nat /\ lastInfoID \in Nat /\ lastInfoID' \in Nat
    BY <1>2, <2>1, ClaimsAreNumbers, ClaimsStayNumbers DEF Reported, CountersOK, StoreTypeOK
  <2>4. \/ Reported' + lastInfoID = Reported + lastInfoID'
        \/ \E s \in Stores : CountsHashOnly(s) /\ pc[s] = "done"
    BY <1>2, <2>1, <2>2, ReportedMoves
  <2>5. \A s \in Stores : ~(CountsHashOnly(s) /\ pc[s] = "done")
    BY <1>2 DEF CountsHashOnly, NewHashNewFile
  <2>6. lastInfoID' = Reported'
    BY <1>2, <2>3, <2>4, <2>5
  <2> QED
    BY <2>1, <2>6
<1>3. Inv => WrittenCountsRows
  BY DEF WrittenCountsRows, Reported, Claimed
<1> HIDE DEF Inv
<1> QED
  BY <1>1, <1>2, <1>3, CountedStore, InsertsAreLast, OneProcessNewHashNewFile, PTL
     DEF StatsSpec

-----------------------------------------------------------------------------
(* What the lists of extensions are made of. *)
Entries == [ext : Extensions, count : Nat]

(* A list of n different entries that holds those of c. *)
Permuted(c, d, n) ==
  /\ d \in [1..n -> Entries]
  /\ \A i, j \in 1..n : d[i] = d[j] => i = j
  /\ \A i \in 1..n : \E k \in 1..n : d[k] = c[i]
  /\ \A i \in 1..n : \E k \in 1..n : d[i] = c[k]

(* The recursion of the inner loop defines the list after each exchange. *)
LEMMA ExchangesDef ==
  ASSUME NEW c, NEW last \in Nat
  PROVE  Exchanges(c, last) = [j \in 0..last |->
           IF j = 0 THEN c ELSE Ordered(Exchanges(c, last)[j - 1], j)]
<1> DEFINE Def(g, k) == g = [j \in 0..k |-> IF j = 0 THEN c ELSE Ordered(g[j - 1], j)]
           Done == {k \in Nat : \E g : Def(g, k)}
<1>1. 0 \in Done
  <2>1. Def([j \in 0..0 |-> c], 0)
    OBVIOUS
  <2>2. \E g : Def(g, 0)
    <3> HIDE DEF Def
    <3> QED
      BY <2>1
  <2> HIDE DEF Def
  <2> QED
    BY <2>2
<1>2. ASSUME NEW k \in Nat, k \in Done
      PROVE  k + 1 \in Done
  <2>1. PICK g : Def(g, k)
    BY <1>2
  <2> DEFINE h == [j \in 0..(k + 1) |-> IF j = 0 THEN c ELSE Ordered(g[j - 1], j)]
  <2>2. \A j \in 0..k : h[j] = g[j]
    BY <2>1
  <2>3. \A j \in 0..(k + 1) : j # 0 => j - 1 \in 0..k
    OBVIOUS
  <2>4. Def(h, k + 1)
    BY <2>2, <2>3
  <2>5. \E q : Def(q, k + 1)
    <3> HIDE DEF h, Def
    <3> QED
      BY <2>4
  <2> HIDE DEF Def
  <2> QED
    BY <2>5
<1>3. last \in Done
  <2> HIDE DEF Done
  <2> QED
    BY <1>1, <1>2, AllNumbers
<1>4. \E g : Def(g, last)
  BY <1>3
<1>5. Exchanges(c, last) = CHOOSE g : Def(g, last)
  BY DEF Exchanges
<1>6. Def(Exchanges(c, last), last)
  <2> HIDE DEF Def
  <2> QED
    BY <1>4, <1>5
<1> QED
  BY <1>6

(* One comparison of the inner loop keeps the entries, and moves the smaller of
   the two behind. *)
LEMMA OrderedPair ==
  ASSUME NEW n \in Nat, NEW d \in [1..n -> Entries], NEW j \in 1..(n - 1),
         \A i, k \in 1..n : d[i] = d[k] => i = k
  PROVE  /\ Permuted(d, Ordered(d, j), n)
         /\ Ordered(d, j)[j].count >= Ordered(d, j)[j + 1].count
         /\ \A i \in (1..n) \ {j, j + 1} : Ordered(d, j)[i] = d[i]
         /\ \/ Ordered(d, j) = d
            \/ Ordered(d, j)[j] = d[j + 1] /\ Ordered(d, j)[j + 1] = d[j]
<1>1. j \in 1..n /\ j + 1 \in 1..n /\ j # j + 1
  OBVIOUS
<1>2. d[j].count \in Nat /\ d[j + 1].count \in Nat
  BY <1>1 DEF Entries
<1>3. CASE d[j].count < d[j + 1].count
  <2> DEFINE e == [d EXCEPT ![j] = d[j + 1], ![j + 1] = d[j]]
  <2>1. Ordered(d, j) = e
    BY <1>3 DEF Ordered
  <2>2. /\ e \in [1..n -> Entries] /\ e[j] = d[j + 1] /\ e[j + 1] = d[j]
        /\ \A i \in (1..n) \ {j, j + 1} : e[i] = d[i]
    BY <1>1
  <2> HIDE DEF e
  <2>3. \A i, k \in 1..n : e[i] = e[k] => i = k
    BY <1>1, <2>2
  <2>4. /\ \A i \in 1..n : \E k \in 1..n : e[k] = d[i]
        /\ \A i \in 1..n : \E k \in 1..n : e[i] = d[k]
    BY <1>1, <2>2
  <2>5. Permuted(d, e, n)
    BY <2>2, <2>3, <2>4 DEF Permuted
  <2>6. e[j].count >= e[j + 1].count
    BY <1>2, <1>3, <2>2
  <2> QED
    BY <2>1, <2>2, <2>5, <2>6
<1>4. CASE ~(d[j].count < d[j + 1].count)
  <2>1. Ordered(d, j) = d
    BY <1>4 DEF Ordered
  <2> QED
    BY <1>2, <1>4, <2>1 DEF Permuted
<1> QED
  BY <1>3, <1>4

(* A list that holds the entries of one that holds those of c holds them. *)
LEMMA PermutedTwice ==
  ASSUME NEW n \in Nat, NEW c, NEW d, NEW e, Permuted(c, d, n), Permuted(d, e, n)
  PROVE  Permuted(c, e, n)
<1>1. \A i \in 1..n : \E k \in 1..n : e[k] = c[i]
  <2> SUFFICES ASSUME NEW i \in 1..n
               PROVE  \E k \in 1..n : e[k] = c[i]
    OBVIOUS
  <2>1. PICK l \in 1..n : d[l] = c[i]
    BY DEF Permuted
  <2> QED
    BY <2>1 DEF Permuted
<1>2. \A i \in 1..n : \E k \in 1..n : e[i] = c[k]
  <2> SUFFICES ASSUME NEW i \in 1..n
               PROVE  \E k \in 1..n : e[i] = c[k]
    OBVIOUS
  <2>1. PICK l \in 1..n : e[i] = d[l]
    BY DEF Permuted
  <2> QED
    BY <2>1 DEF Permuted
<1> QED
  BY <1>1, <1>2 DEF Permuted

(* The list after j exchanges of a pass over c: the smallest of the first j + 1
   entries is the last of them, and the rest is untouched. *)
Carried(c, d, j, n) ==
  /\ Permuted(c, d, n)
  /\ \A i \in 1..j : d[i].count >= d[j + 1].count
  /\ \A i \in (j + 2)..n : d[i] = c[i]
  /\ \A i \in 1..(j + 1) : \E k \in 1..(j + 1) : d[i] = c[k]

(* One exchange carries it one place further. *)
LEMMA CarriedFurther ==
  ASSUME NEW n \in Nat, NEW c, NEW d, NEW j \in Nat, j + 1 <= n - 1, Carried(c, d, j, n)
  PROVE  Carried(c, Ordered(d, j + 1), j + 1, n)
<1> DEFINE e == Ordered(d, j + 1)
<1>p. Permuted(c, d, n)
  BY DEF Carried
<1>q. d \in [1..n -> Entries] /\ (\A i, k \in 1..n : d[i] = d[k] => i = k)
  BY <1>p DEF Permuted
<1>r. j + 1 \in 1..(n - 1) /\ (j + 1) + 1 = j + 2
  OBVIOUS
<1>0. /\ d \in [1..n -> Entries] /\ (\A i, k \in 1..n : d[i] = d[k] => i = k)
      /\ j + 1 \in 1..(n - 1) /\ (j + 1) + 1 = j + 2
      /\ Permuted(c, d, n)
  BY <1>p, <1>q, <1>r
<1>1. /\ Permuted(d, e, n)
      /\ e[j + 1].count >= e[j + 2].count
      /\ \A i \in (1..n) \ {j + 1, j + 2} : e[i] = d[i]
      /\ \/ e = d
         \/ e[j + 1] = d[j + 2] /\ e[j + 2] = d[j + 1]
  BY <1>0, OrderedPair
<1> HIDE DEF e
<1>2. Permuted(c, e, n)
  BY <1>0, <1>1, PermutedTwice
<1>n. \A i \in 1..n : d[i].count \in Nat /\ e[i].count \in Nat
  <2>1. e \in [1..n -> Entries]
    BY <1>2 DEF Permuted
  <2> QED
    BY <1>0, <2>1 DEF Entries
<1>3. \A i \in 1..(j + 1) : e[i].count >= e[j + 2].count
  <2> SUFFICES ASSUME NEW i \in 1..j
               PROVE  e[i].count >= e[j + 2].count
    BY <1>1
  <2>a. i \in (1..n) \ {j + 1, j + 2}
    OBVIOUS
  <2>b. d[i].count >= d[j + 1].count
    BY DEF Carried
  <2>1. e[i] = d[i] /\ d[i].count >= d[j + 1].count
    BY <1>1, <2>a, <2>b
  <2>2. d[j + 1].count >= e[j + 2].count
    <3>1. CASE e = d
      BY <1>1, <3>1
    <3>2. CASE e[j + 2] = d[j + 1]
      BY <1>0, <1>n, <3>2
    <3> QED
      BY <1>1, <3>1, <3>2
  <2>3. i \in 1..n /\ j + 1 \in 1..n /\ j + 2 \in 1..n
    BY <1>0
  <2> QED
    BY <1>n, <2>1, <2>2, <2>3
<1>4. \A i \in (j + 3)..n : e[i] = c[i]
  <2> SUFFICES ASSUME NEW i \in (j + 3)..n
               PROVE  e[i] = c[i]
    OBVIOUS
  <2>1. i \in (1..n) \ {j + 1, j + 2} /\ i \in (j + 2)..n
    OBVIOUS
  <2> QED
    BY <1>1, <2>1 DEF Carried
<1>5. \A i \in 1..(j + 2) : \E k \in 1..(j + 2) : e[i] = c[k]
  <2> SUFFICES ASSUME NEW i \in 1..(j + 2)
               PROVE  \E k \in 1..(j + 2) : e[i] = c[k]
    OBVIOUS
  <2>1. PICK l \in 1..(j + 2) : e[i] = d[l]
    BY <1>0, <1>1
  <2>2. CASE l = j + 2
    <3>1. d[l] = c[l]
      BY <1>0, <2>2 DEF Carried
    <3> QED
      BY <2>1, <3>1
  <2>3. CASE l \in 1..(j + 1)
    <3>1. PICK k \in 1..(j + 1) : d[l] = c[k]
      BY <2>3 DEF Carried
    <3> QED
      BY <2>1, <3>1
  <2> QED
    BY <2>2, <2>3
<1>6. (j + 1) + 1 = j + 2 /\ (j + 1) + 2 = j + 3
  OBVIOUS
<1> QED
  BY <1>2, <1>3, <1>4, <1>5, <1>6 DEF Carried, e

(* A pass puts the smallest of the first last + 1 entries behind the others. *)
LEMMA PassCarries ==
  ASSUME NEW n \in Nat, NEW c, Permuted(c, c, n), NEW last \in Nat, last <= n - 1
  PROVE  Carried(c, Pass(c, last), last, n)
<1> DEFINE X == Exchanges(c, last)
           Good == {j \in Nat : j <= last => Carried(c, X[j], j, n)}
<1>1. X = [j \in 0..last |-> IF j = 0 THEN c ELSE Ordered(X[j - 1], j)]
  BY ExchangesDef
<1> HIDE DEF X
<1>2. 0 \in Good
  <2>1. X[0] = c
    BY <1>1
  <2>2. Carried(c, c, 0, n)
    BY DEF Carried
  <2> QED
    BY <2>1, <2>2
<1>3. ASSUME NEW j \in Nat, j \in Good
      PROVE  j + 1 \in Good
  <2> SUFFICES ASSUME j + 1 <= last
               PROVE  Carried(c, X[j + 1], j + 1, n)
    OBVIOUS
  <2>1. Carried(c, X[j], j, n) /\ j + 1 <= n - 1
    BY <1>3
  <2>2. X[j + 1] = Ordered(X[j], j + 1)
    BY <1>1
  <2> QED
    BY <2>1, <2>2, CarriedFurther
<1>4. last \in Good
  <2> HIDE DEF Good
  <2> QED
    BY <1>2, <1>3, AllNumbers
<1> QED
  BY <1>4 DEF Pass, X

-----------------------------------------------------------------------------
(* The recursion of the outer loop defines the list after each pass. *)
LEMMA PassesDef ==
  ASSUME NEW c, Len(c) \in Nat
  PROVE  Passes(c) = [i \in 0..Len(c) |->
           IF i = 0 THEN c ELSE Pass(Passes(c)[i - 1], Len(c) - i)]
<1> DEFINE Def(g, k) == g = [i \in 0..k |-> IF i = 0 THEN c ELSE Pass(g[i - 1], Len(c) - i)]
           Done == {k \in Nat : \E g : Def(g, k)}
<1>1. 0 \in Done
  <2>1. Def([j \in 0..0 |-> c], 0)
    OBVIOUS
  <2>2. \E g : Def(g, 0)
    <3> HIDE DEF Def
    <3> QED
      BY <2>1
  <2> HIDE DEF Def
  <2> QED
    BY <2>2
<1>2. ASSUME NEW k \in Nat, k \in Done
      PROVE  k + 1 \in Done
  <2>1. PICK g : Def(g, k)
    BY <1>2
  <2> DEFINE h == [i \in 0..(k + 1) |-> IF i = 0 THEN c ELSE Pass(g[i - 1], Len(c) - i)]
  <2>2. \A i \in 0..k : h[i] = g[i]
    BY <2>1
  <2>3. \A i \in 0..(k + 1) : i # 0 => i - 1 \in 0..k
    OBVIOUS
  <2>4. Def(h, k + 1)
    BY <2>2, <2>3
  <2>5. \E q : Def(q, k + 1)
    <3> HIDE DEF h, Def
    <3> QED
      BY <2>4
  <2> HIDE DEF Def
  <2> QED
    BY <2>5
<1>3. Len(c) \in Done
  <2> HIDE DEF Done
  <2> QED
    BY <1>1, <1>2, AllNumbers
<1>4. \E g : Def(g, Len(c))
  BY <1>3
<1>5. Passes(c) = CHOOSE g : Def(g, Len(c))
  BY DEF Passes
<1>6. Def(Passes(c), Len(c))
  <2> HIDE DEF Def
  <2> QED
    BY <1>4, <1>5
<1> QED
  BY <1>6

(* The bubble sort of PrintStats sorts: the same entries, most frequent first,
   for a list of any length. *)
THEOREM BubbleSortSorts ==
  ASSUME NEW n \in Nat, NEW c, Permuted(c, c, n)
  PROVE  /\ Permuted(c, Sorted(c), n)
         /\ \A i, j \in 1..n : i < j => Sorted(c)[i].count >= Sorted(c)[j].count
<1>1. c \in [1..n -> Entries] /\ Len(c) = n /\ c \in Seq(Entries)
  BY DEF Permuted
<1>2. CASE n = 0
  <2>1. c = <<>>
    BY <1>1, <1>2
  <2> QED
    BY <1>2, <2>1 DEF Sorted
<1>3. CASE n # 0
  <2> DEFINE X == Passes(c)
             InOrder(d, i) == \A a, b \in 1..n : a < b /\ b > n - i => d[a].count >= d[b].count
             Good == {i \in Nat : i <= n - 1 => Permuted(c, X[i], n) /\ InOrder(X[i], i)}
  <2>1. X = [i \in 0..n |-> IF i = 0 THEN c ELSE Pass(X[i - 1], n - i)]
    BY <1>1, PassesDef
  <2> HIDE DEF X
  <2>2. 0 \in Good
    <3>1. X[0] = c
      BY <2>1
    <3> QED
      BY <3>1
  <2>3. ASSUME NEW i \in Nat, i \in Good
        PROVE  i + 1 \in Good
    <3> SUFFICES ASSUME i + 1 <= n - 1
                 PROVE  Permuted(c, X[i + 1], n) /\ InOrder(X[i + 1], i + 1)
      OBVIOUS
    <3> DEFINE d == X[i]
               e == X[i + 1]
               last == n - (i + 1)
    <3>1. Permuted(c, d, n) /\ InOrder(d, i)
      BY <2>3
    <3>2. e = Pass(d, last)
      BY <2>1
    <3>3. last \in Nat /\ last <= n - 1 /\ last + 1 = n - i
      OBVIOUS
    <3>4. Permuted(d, d, n)
      BY <3>1 DEF Permuted
    <3> HIDE DEF d, e, last
    <3>5. Carried(d, e, last, n)
      BY <3>2, <3>3, <3>4, PassCarries
    <3>6. Permuted(c, e, n)
      BY <3>1, <3>5, PermutedTwice DEF Carried
    <3>7. ASSUME NEW a \in 1..n, NEW b \in 1..n, a < b, b > n - (i + 1)
          PROVE  e[a].count >= e[b].count
      <4>1. CASE b = last + 1
        <5>1. a \in 1..last
          BY <3>3, <3>7, <4>1
        <5> QED
          BY <4>1, <5>1, <3>5 DEF Carried
      <4>2. CASE b > last + 1
        <5>1. b \in (last + 2)..n /\ b > n - i
          BY <3>3, <4>2
        <5>2. e[b] = d[b]
          BY <3>5, <5>1 DEF Carried
        <5>3. CASE a \in (last + 2)..n
          <6>1. e[a] = d[a]
            BY <3>5, <5>3 DEF Carried
          <6> QED
            BY <3>1, <3>7, <5>1, <5>2, <6>1
        <5>4. CASE a \in 1..(last + 1)
          <6>1. PICK k \in 1..(last + 1) : e[a] = d[k]
            BY <3>5, <5>4 DEF Carried
          <6>2. k \in 1..n /\ k < b
            BY <3>3, <4>2, <6>1
          <6> QED
            BY <3>1, <5>1, <5>2, <6>1, <6>2
        <5> QED
          BY <3>3, <5>3, <5>4
      <4> QED
        BY <3>3, <3>7, <4>1, <4>2 DEF last
    <3>8. InOrder(e, i + 1)
      BY <3>7
    <3> HIDE DEF InOrder
    <3> QED
      BY <3>6, <3>8 DEF e
  <2>4. n - 1 \in Good
    <3> HIDE DEF Good
    <3>1. n - 1 \in Nat
      BY <1>3
    <3> QED
      BY <2>2, <2>3, <3>1, AllNumbers
  <2>5. Permuted(c, X[n - 1], n) /\ InOrder(X[n - 1], n - 1)
    BY <1>3, <2>4
  <2>6. Sorted(c) = X[n - 1]
    BY <1>1, <1>3 DEF Sorted, X
  <2> QED
    BY <2>5, <2>6
<1> QED
  BY <1>2, <1>3
-----------------------------------------------------------------------------
(* What PrintStats makes of the counters of a process, whatever the order in
   which it finds the extensions in its map: no entry is lost or repeated by
   the sort, so that the cut keeps the most frequent ones. *)
LEMMA TopOfCounters ==
  ASSUME NEW st \in Counters, NEW c \in ExtCounts(st), NEW top, top = TopExtensions(c),
         NEW listed, \A i \in DOMAIN top : top[i].ext \in listed,
         \A x \in listed : \E i \in DOMAIN top : top[i].ext = x
  PROVE  /\ Cardinality(listed) = Len(top)
         /\ \A i \in DOMAIN top : top[i].count = st.extensions[top[i].ext]
         /\ \A i, j \in DOMAIN top : i < j => top[i].count >= top[j].count
         /\ \A e \in Counted(st) \ listed :
              /\ Len(top) = TopLimit
              /\ \A i \in DOMAIN top : top[i].count >= st.extensions[e]
<1>1. st.extensions \in [Extensions -> Nat]
  BY DEF Counters
<1>2. IsFiniteSet(Counted(st)) /\ Counted(st) \subseteq Extensions
  <2>1. Counted(st) \subseteq Extensions
    BY DEF Counted
  <2> QED
    BY <2>1, FiniteExtensions, FS_Subset
<1>3. PICK order \in SetToSeqs(Counted(st)) :
        c = [i \in DOMAIN order |-> [ext |-> order[i], count |-> st.extensions[order[i]]]]
  BY DEF ExtCounts
<1> DEFINE n == Cardinality(Counted(st))
           m == IF n < TopLimit THEN n ELSE TopLimit
           d == Sorted(c)
<1>4. /\ DOMAIN order = 1..n /\ n \in Nat
      /\ \A i \in 1..n : order[i] \in Counted(st)
      /\ \A i, j \in 1..n : order[i] = order[j] => i = j
      /\ \A x \in Counted(st) : \E i \in 1..n : order[i] = x
  <2>1. /\ DOMAIN order = 1..Cardinality(Counted(st)) /\ Cardinality(Counted(st)) \in Nat
        /\ \A i \in DOMAIN order : order[i] \in Counted(st)
        /\ \A i, j \in DOMAIN order : order[i] = order[j] => i = j
        /\ \A x \in Counted(st) : \E i \in DOMAIN order : order[i] = x
    BY <1>2, <1>3, ListOfAll
  <2> QED
    BY <2>1
<1> HIDE DEF n
<1>5. c = [i \in 1..n |-> [ext |-> order[i], count |-> st.extensions[order[i]]]]
  BY <1>3, <1>4
<1>6. \A i \in 1..n : /\ c[i].ext = order[i] /\ c[i].count = st.extensions[order[i]]
                      /\ c[i] \in Entries
  BY <1>1, <1>2, <1>4, <1>5 DEF Entries
<1>7. Permuted(c, c, n)
  <2>1. c \in [1..n -> Entries]
    BY <1>5, <1>6
  <2>2. \A i, j \in 1..n : c[i] = c[j] => i = j
    BY <1>4, <1>6
  <2> QED
    BY <2>1, <2>2 DEF Permuted
<1>8. Permuted(c, d, n) /\ \A i, j \in 1..n : i < j => d[i].count >= d[j].count
  BY <1>4, <1>7, BubbleSortSorts
<1>9. Len(c) = n /\ TopLimit \in Nat /\ m \in Nat /\ m <= n /\ m <= TopLimit
  BY <1>4, <1>5, StatsAssumption DEF StatsAssumption
<1>10. top = SubSeq(d, 1, m)
  BY <1>9 DEF TopExtensions
<1> HIDE DEF d
<1>11. d \in [1..n -> Entries] /\ \A i, j \in 1..n : d[i] = d[j] => i = j
  BY <1>8 DEF Permuted
<1>12. Len(top) = m /\ DOMAIN top = 1..m /\ \A i \in 1..m : top[i] = d[i] /\ i \in 1..n
  <2> HIDE DEF m
  <2>1. \A i \in 1..m : i \in 1..n
    BY <1>4, <1>9
  <2>2. top = [i \in 1..m |-> d[i]]
    BY <1>4, <1>9, <1>10, <1>11
  <2> QED
    BY <1>9, <2>1, <2>2
(* Every entry of the sorted list stands for one extension, with its count. *)
<1>13. \A i \in 1..n : \E k \in 1..n : d[i] = c[k]
  BY <1>8 DEF Permuted
<1>14. \A i \in 1..n : d[i].ext \in Counted(st) /\ d[i].count = st.extensions[d[i].ext]
  <2> SUFFICES ASSUME NEW i \in 1..n
               PROVE  d[i].ext \in Counted(st) /\ d[i].count = st.extensions[d[i].ext]
    OBVIOUS
  <2>1. PICK k \in 1..n : d[i] = c[k]
    BY <1>13
  <2> QED
    BY <1>4, <1>6, <2>1
<1>15. \A i, j \in 1..n : d[i].ext = d[j].ext => i = j
  <2> SUFFICES ASSUME NEW i \in 1..n, NEW j \in 1..n, d[i].ext = d[j].ext
               PROVE  i = j
    OBVIOUS
  <2>1. PICK k \in 1..n : d[i] = c[k]
    BY <1>13
  <2>2. PICK l \in 1..n : d[j] = c[l]
    BY <1>13
  <2>3. k = l
    BY <1>4, <1>6, <2>1, <2>2
  <2> QED
    BY <1>11, <2>1, <2>2, <2>3
<1>16. \A e \in Counted(st) : \E i \in 1..n : d[i].ext = e /\ d[i].count = st.extensions[e]
  <2> SUFFICES ASSUME NEW e \in Counted(st)
               PROVE  \E i \in 1..n : d[i].ext = e /\ d[i].count = st.extensions[e]
    OBVIOUS
  <2>1. PICK k \in 1..n : order[k] = e
    BY <1>4
  <2>2. PICK i \in 1..n : d[i] = c[k]
    BY <1>8 DEF Permuted
  <2> QED
    BY <1>6, <2>1, <2>2
<1> HIDE DEF m
<1>17. Cardinality(listed) = Len(top)
  <2> DEFINE name == [i \in 1..m |-> d[i].ext]
  <2>1. \A i, j \in 1..m : name[i] = name[j] => i = j
    BY <1>12, <1>15
  <2>2. /\ \A i \in 1..m : name[i] \in listed
        /\ \A x \in listed : \E i \in 1..m : name[i] = x
    BY <1>12
  <2> HIDE DEF name
  <2>3. Cardinality(listed) = m
    BY <1>9, <2>1, <2>2, DistinctValues
  <2> QED
    BY <1>12, <2>3
<1>18. ASSUME NEW e \in Counted(st) \ listed
       PROVE  Len(top) = TopLimit /\ \A i \in DOMAIN top : top[i].count >= st.extensions[e]
  <2>1. PICK k \in 1..n : d[k].ext = e /\ d[k].count = st.extensions[e]
    BY <1>16
  <2>2. k \notin 1..m
    BY <1>12, <1>18, <2>1
  <2>3. k > m /\ m < n
    BY <1>4, <1>9, <2>2
  <2>4. m = TopLimit
    BY <1>4, <1>9, <2>3 DEF m
  <2>5. \A i \in 1..m : i < k /\ i \in 1..n
    BY <1>9, <1>12, <2>3
  <2> QED
    BY <1>8, <1>12, <2>1, <2>4, <2>5
<1> QED
  BY <1>8, <1>12, <1>14, <1>17, <1>18

(* TopOfExtensions: whenever `hashup store` prints its statistics, the list of
   extensions is the top of the counters. *)
THEOREM TopOfExtensionsAlways == StatsSpec => []TopOfExtensions
<1>1. StatsTypeOK => TopOfExtensions
  <2> SUFFICES ASSUME StatsTypeOK, NEW s \in Stores, NEW c \in ExtCounts(stats[s])
               PROVE  LET top    == TopExtensions(c)
                          listed == {top[i].ext : i \in DOMAIN top}
                      IN /\ Cardinality(listed) = Len(top)
                         /\ \A i \in DOMAIN top : top[i].count = stats[s].extensions[top[i].ext]
                         /\ \A i, j \in DOMAIN top : i < j => top[i].count >= top[j].count
                         /\ \A e \in Counted(stats[s]) \ listed :
                              /\ Len(top) = TopLimit
                              /\ \A i \in DOMAIN top : top[i].count >= stats[s].extensions[e]
    BY DEF TopOfExtensions
  <2> DEFINE st == stats[s]
             T == TopExtensions(c)
             N == {T[i].ext : i \in DOMAIN T}
  <2>1. st \in Counters /\ c \in ExtCounts(st)
    BY DEF StatsTypeOK
  <2>2. /\ T = TopExtensions(c) /\ \A i \in DOMAIN T : T[i].ext \in N
        /\ \A x \in N : \E i \in DOMAIN T : T[i].ext = x
    OBVIOUS
  <2> HIDE DEF st, T, N
  <2>3. /\ Cardinality(N) = Len(T)
        /\ \A i \in DOMAIN T : T[i].count = st.extensions[T[i].ext]
        /\ \A i, j \in DOMAIN T : i < j => T[i].count >= T[j].count
        /\ \A e \in Counted(st) \ N :
             Len(T) = TopLimit /\ \A i \in DOMAIN T : T[i].count >= st.extensions[e]
    BY <2>1, <2>2, TopOfCounters
  <2> QED
    BY <2>3 DEF st, T, N
<1> QED
  BY <1>1, StatsTypeCorrect, PTL
==============================================================================
