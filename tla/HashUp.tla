-------------------------------- MODULE HashUp --------------------------------
(***************************************************************************)
(* HashUp as a whole, for one host: the Scanner, its cache and its process *)
(* on one side of the stream, the `hashup store` processes and the index   *)
(* on the other, and the administrator, who deletes the host or replaces   *)
(* the file of the database under the processes that have it open.         *)
(*                                                                         *)
(* A call of Store is one step here: the module Listener, which has its    *)
(* statements, the batches and the timers of the server, is shown to       *)
(* implement the same Catalog.                                             *)
(***************************************************************************)
EXTENDS Scanner

CONSTANTS
  Listeners,    \* processes of `hashup store`
  NoEntry,      \* a listener has no message in hand
  NotRunning,   \* it has no database open: it does not run
  ThisHost,     \* the host of the scanner
  MaxEntries,   \* model bound: entries of the stream that fairness is about
  MaxIncidents  \* model bound: faults on this side of the stream

Delivery == [seq : Nat \ {0}, msg : Message]

ASSUME HashUpAssumption ==
  /\ NoEntry \notin Delivery
  /\ NotRunning \notin Nat
  /\ MaxEntries \in Nat /\ MaxIncidents \in Nat

VARIABLES
  stream,    \* the entries the server holds, with their sequence numbers
  lastSeq,   \* of the stream
  database,  \* which file is at the path of the database
  index,     \* what that file holds
  opened,    \* the file a listener has open
  hand,      \* the entry it has received
  saved,     \* Store has returned for that entry
  excused,   \* history: announced, and not in the index for a known reason
  incidents

indexVars  == <<database, index, opened, hand, saved, excused, incidents>>
hashUpVars == <<scannerVars, stream, lastSeq, indexVars>>

-----------------------------------------------------------------------------
KeyIn(m) == [file |-> m.file, hash |-> m.hash]

OnStream(k) == \E e \in stream : KeyIn(e.msg) = k

HashUpTypeOK ==
  /\ ScannerTypeOK
  /\ stream \subseteq Delivery /\ lastSeq \in Nat
  /\ \A e \in stream : e.seq <= lastSeq /\ e.msg \in queued
  /\ database \in Nat
  /\ index \subseteq Key
  /\ opened \in [Listeners -> Nat \cup {NotRunning}]
  /\ hand \in [Listeners -> Delivery \cup {NoEntry}]
  /\ saved \in [Listeners -> BOOLEAN]
  /\ excused \subseteq Key
  /\ incidents \in 0..MaxIncidents

HashUpInit ==
  /\ ScannerInit
  /\ stream = {} /\ lastSeq = 0
  /\ database = 0 /\ index = {}
  /\ opened = [s \in Listeners |-> NotRunning]
  /\ hand = [s \in Listeners |-> NoEntry]
  /\ saved = [s \in Listeners |-> FALSE]
  /\ excused = {}
  /\ incidents = 0

Incident == incidents < MaxIncidents /\ incidents' = incidents + 1

-----------------------------------------------------------------------------
(* Mutant of NextSeq: sequence numbers from 0. *)
SeqFromZero == lastSeq

NextSeq == lastSeq + 1

(* A worker of the scanner publishes: the message is appended to the stream,
   also when it says what an earlier one said. *)
Announce(w) ==
  /\ \E failed, arrived \in BOOLEAN :
       /\ PublishMsg(w, failed, arrived)
       /\ IF arrived
            THEN /\ lastSeq' = lastSeq + 1
                 /\ stream' = stream \cup {[seq |-> NextSeq, msg |-> MessageOf(w)]}
            ELSE UNCHANGED <<stream, lastSeq>>
  /\ UNCHANGED indexVars

(* Nothing happens on this side of the stream. *)
Elsewhere == UNCHANGED <<stream, lastSeq, indexVars>>

ScannerStep == (ProcessStep \/ \E w \in Workers : LocalStep(w)) /\ Elsewhere

-----------------------------------------------------------------------------
(* NewSqliteStorage opens the file that is at the path now and keeps it open;
   then Listen. *)
Open(s) ==
  /\ opened[s] = NotRunning
  /\ opened' = [opened EXCEPT ![s] = database]
  /\ UNCHANGED <<scannerVars, stream, lastSeq, database, index, hand, saved,
                 excused, incidents>>

(* Mutant of Delivered: the consumer acknowledges by itself (AckNone). *)
DeliveredOnce(e) == stream \ {e}

(* AckExplicit: what is delivered stays. *)
Delivered(e) == stream

(* The listener takes an entry of its batch in hand.  The entry may have been
   delivered before, to this process or to another: AckWait has passed, or
   its acknowledgement was lost. *)
Receive(s, e) ==
  /\ opened[s] # NotRunning /\ hand[s] = NoEntry
  /\ e \in stream
  /\ hand' = [hand EXCEPT ![s] = e]
  /\ stream' = Delivered(e)
  /\ UNCHANGED <<scannerVars, lastSeq, database, index, opened, saved, excused,
                 incidents>>

(* The database a listener writes is the one the others read. *)
Current(s) == opened[s] = database

(* Mutant of FileIn: a field of the message taken for another. *)
SizeForHash(m) == [file |-> m.file, hash |-> m.size]

(* What Store is given: the fields of the decoded message. *)
FileIn(m) == [file |-> m.file, hash |-> m.hash]

(* Store: a success, which counts only in the current file, or an error. *)
SaveFile(s) ==
  /\ hand[s] # NoEntry /\ ~saved[s]
  /\ LET k == FileIn(hand[s].msg) IN
       \/ /\ Current(s)
          /\ index' = index \cup {k}
          /\ excused' = excused \ {k}
          /\ UNCHANGED incidents
       \/ /\ ~Current(s)
          /\ excused' = excused \cup {k}
          /\ UNCHANGED <<index, incidents>>
       \/ /\ Incident
          /\ excused' = excused \cup {k}
          /\ UNCHANGED index
  /\ saved' = [saved EXCEPT ![s] = TRUE]
  /\ UNCHANGED <<scannerVars, stream, lastSeq, database, opened, hand>>

(* msg.Ack(), after a success and after an error; it may not arrive. *)
Acknowledge(s) ==
  /\ hand[s] # NoEntry /\ saved[s]
  /\ \/ stream' = stream \ {hand[s]} /\ UNCHANGED incidents
     \/ Incident /\ UNCHANGED stream
  /\ hand' = [hand EXCEPT ![s] = NoEntry]
  /\ saved' = [saved EXCEPT ![s] = FALSE]
  /\ UNCHANGED <<scannerVars, lastSeq, database, index, opened, excused>>

(* The process ends, at any point. *)
StoreExit(s) ==
  /\ opened[s] # NotRunning
  /\ Incident
  /\ opened' = [opened EXCEPT ![s] = NotRunning]
  /\ hand' = [hand EXCEPT ![s] = NoEntry]
  /\ saved' = [saved EXCEPT ![s] = FALSE]
  /\ UNCHANGED <<scannerVars, stream, lastSeq, database, index, excused>>

(* The stream's MaxAge. *)
ExpireEntry(e) ==
  /\ e \in stream
  /\ Incident
  /\ stream' = stream \ {e}
  /\ excused' = IF KeyIn(e.msg) \in index THEN excused ELSE excused \cup {KeyIn(e.msg)}
  /\ UNCHANGED <<scannerVars, lastSeq, database, index, opened, hand, saved>>

-----------------------------------------------------------------------------
(* hs admin delete-host, for this host. *)
DeleteHost ==
  /\ Incident
  /\ index' = {}
  /\ excused' = excused \cup index
  /\ UNCHANGED <<scannerVars, stream, lastSeq, database, opened, hand, saved>>

(* hs admin recreate-db: os.Remove, and the next to open the path creates
   another file.  A process that has the removed one open goes on writing to
   it. *)
RecreateDatabase ==
  /\ Incident
  /\ database' = database + 1
  /\ index' = {}
  /\ excused' = excused \cup index
  /\ UNCHANGED <<scannerVars, stream, lastSeq, opened, hand, saved>>

-----------------------------------------------------------------------------
ListenerWork(s) == SaveFile(s) \/ Acknowledge(s)

HashUpNext ==
  \/ ScannerStep
  \/ \E w \in Workers : Announce(w)
  \/ \E s \in Listeners :
       Open(s) \/ ListenerWork(s) \/ StoreExit(s) \/ \E e \in stream : Receive(s, e)
  \/ \E e \in stream : ExpireEntry(e)
  \/ DeleteHost \/ RecreateDatabase

HashUpSpec == HashUpInit /\ [][HashUpNext]_hashUpVars

(* Goroutines that can run do; a store process that ended is started again;
   and the server, which delivers in stream order, passes no entry over for
   ever.  Nobody has to scan, and nothing has to fail. *)
ReceiveNo(n) == \E s \in Listeners, e \in stream : e.seq = n /\ Receive(s, e)

HashUpFairness ==
  /\ WF_hashUpVars(WalkStep /\ Elsewhere)
  /\ \A w \in Workers : WF_hashUpVars((LocalStep(w) /\ Elsewhere) \/ Announce(w))
  /\ \A s \in Listeners : WF_hashUpVars(Open(s)) /\ WF_hashUpVars(ListenerWork(s))
  /\ \A n \in 1..MaxEntries : SF_hashUpVars(ReceiveNo(n))

FairHashUpSpec == HashUpSpec /\ HashUpFairness

-----------------------------------------------------------------------------
(* What the cache of a scanner knows, in memory or on disk, no later scan
   announces again.  Such a file, with these contents, is on its way in the
   stream, or in the index, or there is a reason that is known: its
   publication or its saving failed, it grew too old, its host was deleted,
   the database was replaced, or a process wrote it to the replaced one. *)
NothingForgotten ==
  \A k \in cache \cup disk \cup UNION others :
    OnStream(k) \/ k \in index \/ k \in excused \/ k \in lost

(* What has been published gets into the index, or there is such a reason,
   although scanners and listeners come and go. *)
EveryFileSettles ==
  []<>(\A k \in Key : Queued(k) => k \in index \cup excused)

(* The host's part of the promise: only announced files enter the index, and
   they leave it only all together, by delete-host or recreate-db. *)
FileOf(k) == [path |-> k.file, hash |-> k.hash, host |-> ThisHost]

Abstract == INSTANCE Catalog WITH
  Files   <- {FileOf(k) : k \in Key},
  Hosts   <- {ThisHost},
  sent    <- {FileOf(KeyIn(m)) : m \in queued},
  catalog <- {FileOf(k) : k \in index}

KeepsPromise == Abstract!CatalogSpec
=============================================================================
