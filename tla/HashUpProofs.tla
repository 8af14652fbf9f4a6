----------------------------- MODULE HashUpProofs -----------------------------
(***************************************************************************)
(* What holds of HashUp as a whole, for any tree, any number of workers,   *)
(* scans and store processes, and any faults on both sides of the stream.  *)
(***************************************************************************)
EXTENDS HashUp, ScannerProofs

(* What is known of an announced file that is not on its way. *)
Known(k) == k \in index \cup excused

(* Store has returned only for an entry in hand, and then its file is known;
   what a listener has in hand was announced. *)
HandsKept ==
  \A s \in Listeners :
    /\ hand[s] # NoEntry => hand[s].msg \in queued
    /\ saved[s] => hand[s] # NoEntry /\ Known(KeyIn(hand[s].msg))

(* Every message that was ever published is on its way, or its file known. *)
OnItsWay == \A m \in queued : OnStream(KeyIn(m)) \/ Known(KeyIn(m))

(* Only announced files are in the index. *)
IndexAnnounced == \A k \in index : \E m \in queued : k = KeyIn(m)

HashUpInv == HashUpTypeOK /\ HandsKept /\ OnItsWay /\ IndexAnnounced

-----------------------------------------------------------------------------
(* Every step of HashUp is one of the scanner, or nothing to it. *)
LEMMA ScannerStepOfHashUp == [HashUpNext]_hashUpVars => [ScannerNext]_scannerVars
<1> SUFFICES ASSUME [HashUpNext]_hashUpVars
             PROVE  [ScannerNext]_scannerVars
  OBVIOUS
<1>1. CASE UNCHANGED hashUpVars
  BY <1>1 DEF hashUpVars
<1>2. CASE ScannerStep
  BY <1>2 DEF ScannerStep, ScannerNext, TaskStep
<1>3. ASSUME NEW w \in Workers, Announce(w)
      PROVE  ScannerNext
  BY <1>3 DEF Announce, ScannerNext, TaskStep, PublishFile
<1>4. ASSUME NEW s \in Listeners,
             Open(s) \/ ListenerWork(s) \/ StoreExit(s) \/ \E e \in stream : Receive(s, e)
      PROVE  UNCHANGED scannerVars
  BY <1>4 DEF Open, ListenerWork, SaveFile, Acknowledge, StoreExit, Receive
<1>5. CASE (\E e \in stream : ExpireEntry(e)) \/ DeleteHost \/ RecreateDatabase
  BY <1>5 DEF ExpireEntry, DeleteHost, RecreateDatabase
<1> QED
  BY <1>1, <1>2, <1>3, <1>4, <1>5 DEF HashUpNext

(* The scanners of HashUp are those of Scanner: what ScannerProofs says of them
   holds here. *)
THEOREM ScannersScan == HashUpSpec => ScannerSpec
<1>1. HashUpInit => ScannerInit
  BY DEF HashUpInit
<1> QED
  BY <1>1, ScannerStepOfHashUp, PTL DEF HashUpSpec, ScannerSpec

(* Whatever happens on the other side of the stream, a key in any copy of the
   cache was published, or its publication failed. *)
THEOREM HashUpCacheSound == HashUpSpec => []CacheSound
  BY ScannersScan, CacheIsSound, PTL

(* A scan that has ended without an error has announced what it owes, whoever
   else is at work. *)
THEOREM HashUpScanComplete == HashUpSpec => []ScanComplete
  BY ScannersScan, ScanIsComplete, PTL

-----------------------------------------------------------------------------
(* A publication: the new message is on the stream. *)
LEMMA AnnounceKeeps ==
  ASSUME HashUpInv, Typed, Typed', NEW w \in Workers, Announce(w)
  PROVE  HashUpInv'
<1> USE DEF HashUpInv, HashUpTypeOK
<1>0. ScannerTypeOK' /\ step[w] = "publish" /\ UNCHANGED indexVars
  BY DEF Typed, Announce, PublishMsg
<1>1. worker[w] \in Tasks /\ hashed[w] \in Contents /\ seen[worker[w]] \in Contents
  <2>1. worker[w] \in Tasks /\ hashed[w] \in Contents
    BY <1>0 DEF Typed, TaskSteps
  <2> QED
    BY <2>1 DEF Typed, TaskSteps, OnlySubmitted, Doing
<1>2. MessageOf(w) \in Message
  BY <1>1 DEF MessageOf, Message
<1>3. CASE UNCHANGED <<queued, stream, lastSeq>>
  BY <1>0, <1>3 DEF indexVars, HandsKept, OnItsWay, IndexAnnounced, OnStream, Known,
     KeyIn
<1>4. ASSUME NEW e \in Delivery,
             e = [seq |-> lastSeq + 1, msg |-> MessageOf(w)],
             queued' = queued \cup {MessageOf(w)}, lastSeq' = lastSeq + 1,
             stream' = stream \cup {e}
      PROVE  HashUpInv'
  <2>1. \A d \in stream' : d.seq <= lastSeq' /\ d.msg \in queued'
    BY <1>4 DEF Delivery
  <2>2. stream' \subseteq Delivery /\ lastSeq' \in Nat
    BY <1>4
  <2>3. HandsKept' /\ IndexAnnounced'
    BY <1>0, <1>4 DEF indexVars, HandsKept, IndexAnnounced, Known, KeyIn
  <2>4. OnItsWay'
    <3>1. \A k : (OnStream(k) => OnStream(k)') /\ (Known(k) => Known(k)')
      BY <1>0, <1>4 DEF indexVars, OnStream, Known
    <3>2. e \in stream' /\ e.msg = MessageOf(w)
      BY <1>4
    <3>3. \A m \in queued' :
            (OnStream(KeyIn(m)) \/ Known(KeyIn(m)))' \/ m = e.msg
      BY <1>4, <3>1, <3>2 DEF OnItsWay, KeyIn
    <3>4. \A m : m = e.msg => OnStream(KeyIn(m))'
      BY <3>2 DEF OnStream, KeyIn
    <3> QED
      BY <3>3, <3>4 DEF OnItsWay, KeyIn
  <2> QED
    BY <1>0, <2>1, <2>2, <2>3, <2>4 DEF indexVars
<1>5. [seq |-> lastSeq + 1, msg |-> MessageOf(w)] \in Delivery
  BY <1>2 DEF Delivery
<1>6. \/ UNCHANGED <<queued, stream, lastSeq>>
      \/ /\ queued' = queued \cup {MessageOf(w)} /\ lastSeq' = lastSeq + 1
         /\ stream' = stream \cup {[seq |-> lastSeq + 1, msg |-> MessageOf(w)]}
  BY DEF Announce, PublishMsg, NextSeq
<1> QED
  BY <1>3, <1>4, <1>5, <1>6

(* What a listener takes off the stream is known by then. *)
LEMMA ListenerKeeps ==
  ASSUME HashUpInv, NEW s \in Listeners,
         Open(s) \/ SaveFile(s) \/ Acknowledge(s) \/ StoreExit(s)
           \/ \E e \in stream : Receive(s, e)
  PROVE  HashUpInv'
<1> USE DEF HashUpInv, HashUpTypeOK
<1>0. MaxIncidents \in Nat /\ UNCHANGED scannerVars /\ ScannerTypeOK'
  <2>1. UNCHANGED scannerVars
    BY DEF Open, SaveFile, Acknowledge, StoreExit, Receive
  <2>2. ScannerTypeOK'
    BY <2>1 DEF ScannerTypeOK, PoolTypeOK, scannerVars, poolVars, fileVars, walkVars,
       taskVars, cacheVars, streamVars, boundVars
  <2> QED
    BY <2>1, <2>2, HashUpAssumption DEF HashUpAssumption
<1>1. queued' = queued
  BY <1>0 DEF scannerVars, streamVars
<1>2. CASE Open(s)
  BY <1>0, <1>1, <1>2 DEF Open, HandsKept, OnItsWay, IndexAnnounced, OnStream, Known, KeyIn
<1>3. ASSUME NEW e \in stream, Receive(s, e)
      PROVE  HashUpInv'
  <2>1. /\ e \in Delivery /\ e.msg \in queued /\ ~saved[s]
        /\ hand' = [hand EXCEPT ![s] = e]
        /\ UNCHANGED <<stream, lastSeq, database, index, opened, saved, excused, incidents>>
    BY <1>3 DEF Receive, Delivered, HandsKept
  <2>2. HashUpTypeOK'
    BY <1>0, <1>1, <2>1
  <2>3. HandsKept'
    BY <1>1, <2>1 DEF HandsKept, Known, KeyIn
  <2>4. OnItsWay' /\ IndexAnnounced'
    BY <1>1, <2>1 DEF OnItsWay, IndexAnnounced, OnStream, Known, KeyIn
  <2> QED
    BY <2>2, <2>3, <2>4
<1>4. CASE SaveFile(s)
  <2>1. /\ hand[s] \in Delivery /\ hand[s].msg \in queued
        /\ FileIn(hand[s].msg) = KeyIn(hand[s].msg)
    BY <1>4 DEF SaveFile, HandsKept, FileIn, KeyIn
  <2>2. PICK k \in Key : k = KeyIn(hand[s].msg)
    BY <2>1 DEF Delivery, Message, Key, KeyIn
  <2>3. /\ \/ index' = index \cup {k} /\ excused' = excused \ {k}
           \/ index' = index /\ excused' = excused \cup {k}
        /\ saved' = [saved EXCEPT ![s] = TRUE]
        /\ UNCHANGED <<stream, lastSeq, database, opened, hand>>
        /\ incidents' \in 0..MaxIncidents
    BY <1>0, <1>4, <2>1, <2>2 DEF SaveFile, Incident
  <2>4. \A j : (Known(j) \/ j = k) => Known(j)'
    BY <2>3 DEF Known
  <2>5. HandsKept'
    <3> SUFFICES ASSUME NEW r \in Listeners
                 PROVE  /\ hand'[r] # NoEntry => hand'[r].msg \in queued'
                        /\ saved'[r] => hand'[r] # NoEntry
                                         /\ Known(KeyIn(hand[r].msg))'
      BY DEF HandsKept
    <3>1. hand'[r] = hand[r] /\ (saved'[r] => saved[r] \/ r = s)
      BY <2>3
    <3>2. saved'[r] => hand[r] # NoEntry
                         /\ (Known(KeyIn(hand[r].msg)) \/ KeyIn(hand[r].msg) = k)
      BY <1>4, <2>2, <3>1 DEF HandsKept, SaveFile
    <3>3. KeyIn(hand[r].msg)' = KeyIn(hand[r].msg)
      BY <3>1 DEF KeyIn
    <3> QED
      BY <1>1, <2>4, <3>1, <3>2, <3>3 DEF HandsKept, Known
  <2>6. OnItsWay'
    BY <1>1, <2>3, <2>4 DEF OnItsWay, OnStream, KeyIn
  <2>7. IndexAnnounced'
    BY <1>1, <2>1, <2>2, <2>3 DEF IndexAnnounced, KeyIn
  <2>8. HashUpTypeOK'
    BY <1>0, <1>1, <2>2, <2>3
  <2> QED
    BY <2>5, <2>6, <2>7, <2>8
<1>5. CASE Acknowledge(s)
  <2>1. /\ hand[s] # NoEntry /\ saved[s] /\ stream' \in {stream, stream \ {hand[s]}}
        /\ hand' = [hand EXCEPT ![s] = NoEntry]
        /\ saved' = [saved EXCEPT ![s] = FALSE]
        /\ UNCHANGED <<lastSeq, database, index, opened, excused>>
        /\ incidents' \in 0..MaxIncidents
    BY <1>0, <1>5 DEF Acknowledge, Incident
  <2>2. \A k : Known(k) => Known(k)'
    BY <2>1 DEF Known
  <2>3. Known(KeyIn(hand[s].msg))
    BY <2>1 DEF HandsKept
  <2>4. \A k : OnStream(k) => OnStream(k)' \/ k = KeyIn(hand[s].msg)
    BY <2>1 DEF OnStream
  <2>5. OnItsWay'
    BY <1>1, <2>2, <2>3, <2>4 DEF OnItsWay, KeyIn
  <2>6. HandsKept' /\ IndexAnnounced'
    BY <1>1, <2>1, <2>2 DEF HandsKept, IndexAnnounced, KeyIn
  <2>7. HashUpTypeOK'
    BY <1>0, <1>1, <2>1
  <2> QED
    BY <2>5, <2>6, <2>7
<1>6. CASE StoreExit(s)
  <2>1. incidents' \in 0..MaxIncidents
    BY <1>0, <1>6 DEF StoreExit, Incident
  <2> QED
    BY <1>0, <1>1, <1>6, <2>1 DEF StoreExit, HandsKept, OnItsWay, IndexAnnounced, OnStream,
       Known, KeyIn
<1> QED
  BY <1>2, <1>3, <1>4, <1>5, <1>6

(* Expiry and the administrator excuse what they take away. *)
LEMMA OthersKeep ==
  ASSUME HashUpInv,
         (\E e \in stream : ExpireEntry(e)) \/ DeleteHost \/ RecreateDatabase
  PROVE  HashUpInv'
<1> USE DEF HashUpInv, HashUpTypeOK
<1>0. UNCHANGED scannerVars /\ ScannerTypeOK' /\ queued' = queued
  <2>1. UNCHANGED scannerVars
    BY DEF ExpireEntry, DeleteHost, RecreateDatabase
  <2>2. ScannerTypeOK'
    BY <2>1 DEF ScannerTypeOK, PoolTypeOK, scannerVars, poolVars, fileVars, walkVars,
       taskVars, cacheVars, streamVars, boundVars
  <2> QED
    BY <2>1, <2>2 DEF scannerVars, streamVars
<1>1. incidents' \in 0..MaxIncidents
  BY HashUpAssumption DEF HashUpAssumption, ExpireEntry, DeleteHost, RecreateDatabase,
     Incident
<1>2. ASSUME NEW e \in stream, ExpireEntry(e)
      PROVE  HashUpInv'
  <2>1. /\ stream' = stream \ {e}
        /\ UNCHANGED <<lastSeq, database, index, opened, hand, saved>>
        /\ excused' = IF KeyIn(e.msg) \in index THEN excused
                      ELSE excused \cup {KeyIn(e.msg)}
    BY <1>2 DEF ExpireEntry
  <2>2. KeyIn(e.msg) \in Key
    BY DEF Delivery, Message, Key, KeyIn
  <2>3. \A k : Known(k) \/ k = KeyIn(e.msg) => Known(k)'
    BY <2>1 DEF Known
  <2>4. \A k : OnStream(k) => OnStream(k)' \/ k = KeyIn(e.msg)
    BY <2>1 DEF OnStream
  <2>5. OnItsWay'
    BY <1>0, <2>3, <2>4 DEF OnItsWay, KeyIn
  <2>6. HandsKept' /\ IndexAnnounced'
    BY <1>0, <2>1, <2>3 DEF HandsKept, IndexAnnounced, KeyIn
  <2>7. HashUpTypeOK'
    BY <1>0, <1>1, <2>1, <2>2
  <2> QED
    BY <2>5, <2>6, <2>7
<1>3. CASE DeleteHost \/ RecreateDatabase
  <2>1. /\ index' = {} /\ excused' = excused \cup index /\ database' \in Nat
        /\ UNCHANGED <<stream, lastSeq, opened, hand, saved>>
    BY <1>3 DEF DeleteHost, RecreateDatabase
  <2>2. \A k : Known(k) => Known(k)'
    BY <2>1 DEF Known
  <2>3. OnItsWay' /\ HandsKept' /\ IndexAnnounced'
    BY <1>0, <2>1, <2>2 DEF OnItsWay, HandsKept, IndexAnnounced, OnStream, KeyIn
  <2>4. HashUpTypeOK'
    BY <1>0, <1>1, <2>1
  <2> QED
    BY <2>3, <2>4
<1> QED
  BY <1>2, <1>3

(* No step of any process breaks the invariant. *)
LEMMA HashUpStep ==
  ASSUME HashUpInv, Typed, [HashUpNext]_hashUpVars
  PROVE  HashUpInv'
<1>1. Typed'
  BY ScannerStepOfHashUp, ScannerTypeStep
<1>2. CASE ScannerStep \/ UNCHANGED hashUpVars
  <2>1. UNCHANGED <<queued, stream, lastSeq, indexVars>>
    BY <1>2 DEF hashUpVars, ScannerStep, Elsewhere, ProcessStep, StartScan, WalkStep,
       VisitInaccessible, VisitSkipped, VisitFile, WalkEnd, StopPool, SaveCache, SaveTick,
       StaleTick, CacheLoss, ProcessEnd, FileChange, LocalStep, TakeTask, HashFile,
       CheckCache, MarkFile, EndTask, LeavePool, streamVars, scannerVars
  <2>2. HashUpTypeOK'
    BY <1>1, <2>1 DEF HashUpInv, HashUpTypeOK, Typed, indexVars
  <2>3. HandsKept' /\ OnItsWay' /\ IndexAnnounced'
    BY <2>1 DEF HashUpInv, HandsKept, OnItsWay, IndexAnnounced, OnStream, Known, KeyIn,
       indexVars
  <2> QED
    BY <2>2, <2>3 DEF HashUpInv
<1> QED
  BY <1>1, <1>2, AnnounceKeeps, ListenerKeeps, OthersKeep DEF HashUpNext, ListenerWork

(* The invariant of the composition. *)
LEMMA HashUpInvAlways == HashUpSpec => []HashUpInv
<1>1. HashUpInit /\ Typed => HashUpInv
  BY HashUpAssumption DEF HashUpAssumption, HashUpInit, ScannerInit, HashUpInv, HashUpTypeOK,
     Typed, HandsKept, OnItsWay, IndexAnnounced
<1>2. HashUpSpec => []Typed
  BY ScannersScan, AlwaysTyped, PTL
<1> QED
  BY <1>1, <1>2, HashUpStep, PTL DEF HashUpSpec

-----------------------------------------------------------------------------
(* The stream, what the listeners have in hand, the index and the histories
   keep their types, and the stream holds published messages only. *)
THEOREM HashUpTypeCorrect == HashUpSpec => []HashUpTypeOK
  BY HashUpInvAlways, PTL DEF HashUpInv

(* What a cache makes a later scan skip is on its way, in the index, or missing
   for a reason that is known, whatever fails on either side. *)
THEOREM NothingIsForgotten == HashUpSpec => []NothingForgotten
<1>1. Typed /\ CacheSound /\ HashUpInv => NothingForgotten
  <2> SUFFICES ASSUME Typed, CacheSound, HashUpInv,
                      NEW k \in cache \cup disk \cup UNION others
               PROVE  OnStream(k) \/ k \in index \/ k \in excused \/ k \in lost
    BY DEF NothingForgotten
  <2>1. k \in Key
    BY DEF Typed, ScannerTypeOK
  <2>2. ASSUME NEW m \in queued, m.file = k.file, m.hash = k.hash
        PROVE  OnStream(k) \/ Known(k)
    <3>1. KeyIn(m) = k
      BY <2>1, <2>2 DEF KeyIn, Key
    <3> QED
      BY <3>1 DEF HashUpInv, OnItsWay
  <2> QED
    BY <2>2 DEF CacheSound, Queued, Known
<1>2. HashUpSpec => []Typed
  BY ScannersScan, AlwaysTyped, PTL
<1> QED
  BY <1>1, <1>2, HashUpInvAlways, HashUpCacheSound, PTL

-----------------------------------------------------------------------------
(* A step of HashUp is a step of the catalog of this host, or nothing to it. *)
Announcements == {FileOf(KeyIn(m)) : m \in queued}
InCatalog     == {FileOf(k) : k \in index}

(* The step of the refinement. *)
LEMMA HashUpCatalogStep ==
  ASSUME HashUpInv, Typed, [HashUpNext]_hashUpVars
  PROVE  [Abstract!CatalogNext]_(Abstract!catalogVars)
<1> USE DEF Abstract!CatalogNext, Abstract!catalogVars
<1>0. /\ index \subseteq Key /\ \A m \in queued : KeyIn(m) \in Key
      /\ \A j, k \in Key : FileOf(j) = FileOf(k) => j = k
  <2>1. index \subseteq Key /\ queued \subseteq Message
    BY DEF HashUpInv, HashUpTypeOK, ScannerTypeOK
  <2>2. \A m \in Message : KeyIn(m) \in Key
    BY DEF Message, Key, KeyIn
  <2>3. ASSUME NEW j \in Key, NEW k \in Key, FileOf(j) = FileOf(k)
        PROVE  j = k
    <3>1. FileOf(j).path = j.file /\ FileOf(k).path = k.file
      BY DEF FileOf
    <3>2. FileOf(j).hash = j.hash /\ FileOf(k).hash = k.hash
      BY DEF FileOf
    <3> QED
      BY <2>3, <3>1, <3>2 DEF Key
  <2> QED
    BY <2>1, <2>2, <2>3
<1>1. CASE UNCHANGED <<queued, index>>
  BY <1>1
<1>2. ASSUME NEW w \in Workers, Announce(w)
      PROVE  [Abstract!CatalogNext]_(Abstract!catalogVars)
  <2>1. index' = index /\ (queued' = queued \/ queued' = queued \cup {MessageOf(w)})
    BY <1>2 DEF Announce, PublishMsg, indexVars
  <2>2. CASE queued' = queued \cup {MessageOf(w)}
    <3> DEFINE f == FileOf(KeyIn(MessageOf(w)))
    <3>1. KeyIn(MessageOf(w)) \in Key
      <4>1. KeyIn(MessageOf(w)) = [file |-> worker[w], hash |-> hashed[w]]
        BY DEF KeyIn, MessageOf
      <4>2. worker[w] \in Tasks /\ hashed[w] \in Contents
        BY <1>2 DEF Announce, PublishMsg, Typed, TaskSteps
      <4> QED
        BY <4>1, <4>2 DEF Key
    <3>2. Announcements' = Announcements \cup {f}
      BY <2>2 DEF Announcements
    <3>3. Abstract!Send(f)
      BY <2>1, <3>2 DEF Abstract!Send, Announcements
    <3> QED
      BY <3>1, <3>3
  <2> QED
    BY <1>1, <2>1, <2>2
<1>3. ASSUME NEW s \in Listeners, SaveFile(s)
      PROVE  [Abstract!CatalogNext]_(Abstract!catalogVars)
  <2>1. /\ queued' = queued /\ hand[s].msg \in queued
        /\ FileIn(hand[s].msg) = KeyIn(hand[s].msg)
    BY <1>3 DEF SaveFile, FileIn, KeyIn, HashUpInv, HandsKept, scannerVars, streamVars
  <2>2. PICK k \in Key : k = KeyIn(hand[s].msg)
    BY <1>0, <2>1
  <2>3. index' = index \/ index' = index \cup {k}
    BY <1>3, <2>1, <2>2 DEF SaveFile
  <2>4. CASE index' = index \cup {k} /\ k \notin index
    <3>1. InCatalog' = InCatalog \cup {FileOf(k)} /\ FileOf(k) \notin InCatalog
      BY <1>0, <2>4 DEF InCatalog, FileOf
    <3>2. FileOf(k) \in Announcements
      BY <2>1, <2>2 DEF Announcements
    <3>3. Abstract!Index(FileOf(k))
      BY <2>1, <3>1, <3>2 DEF Abstract!Index, InCatalog, Announcements
    <3> QED
      BY <3>3
  <2> QED
    BY <1>1, <2>1, <2>3, <2>4
<1>4. CASE DeleteHost \/ RecreateDatabase
  <2>1. queued' = queued /\ index' = {}
    BY <1>4 DEF DeleteHost, RecreateDatabase, scannerVars, streamVars
  <2>2. \A k : FileOf(k).host = ThisHost
    BY DEF FileOf
  <2>3. Abstract!Purge(ThisHost)
    BY <2>1, <2>2 DEF Abstract!Purge
  <2> QED
    BY <2>3
<1>5. CASE ScannerStep \/ UNCHANGED hashUpVars
  <2>1. UNCHANGED <<queued, index>>
    BY <1>5 DEF hashUpVars, indexVars, ScannerStep, Elsewhere, ProcessStep, StartScan,
       WalkStep, VisitInaccessible, VisitSkipped, VisitFile, WalkEnd, StopPool, SaveCache,
       SaveTick, StaleTick, CacheLoss, ProcessEnd, FileChange, LocalStep, TakeTask,
       HashFile, CheckCache, MarkFile, EndTask, LeavePool, streamVars, scannerVars
  <2> QED
    BY <1>1, <2>1
<1>6. ASSUME NEW s \in Listeners,
             Open(s) \/ Acknowledge(s) \/ StoreExit(s) \/ \E e \in stream : Receive(s, e)
      PROVE  UNCHANGED <<queued, index>>
  BY <1>6 DEF Open, Acknowledge, StoreExit, Receive, scannerVars, streamVars
<1>7. ASSUME NEW e \in stream, ExpireEntry(e)
      PROVE  UNCHANGED <<queued, index>>
  BY <1>7 DEF ExpireEntry, scannerVars, streamVars
<1> QED
  BY <1>1, <1>2, <1>3, <1>4, <1>5, <1>6, <1>7 DEF HashUpNext, ListenerWork

(* Scanners, stream, store processes and administrator together implement the
   catalog of the host, although the file of the database may be replaced. *)
THEOREM HashUpKeepsPromise == HashUpSpec => KeepsPromise
<1>1. HashUpInit => Abstract!CatalogInit
  BY DEF HashUpInit, ScannerInit, Abstract!CatalogInit
<1>2. HashUpSpec => []Typed
  BY ScannersScan, AlwaysTyped, PTL
<1> QED
  BY <1>1, <1>2, HashUpInvAlways, HashUpCatalogStep, PTL
     DEF HashUpSpec, KeepsPromise, Abstract!CatalogSpec
==============================================================================
