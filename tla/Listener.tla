------------------------------- MODULE Listener -------------------------------
(***************************************************************************)
(* The way of a scanned file from the JetStream queue into the index:      *)
(* natsListener.Listen (internal/store/listener.go) in every               *)
(* `hashup store` process, over the statements of FileStore, and the NATS  *)
(* server, an external part, as the code configures it: one stream with    *)
(* work-queue retention and a maximal age, one durable pull consumer that  *)
(* all the listeners share, explicit acknowledgements, no duplicate        *)
(* detection.                                                              *)
(*                                                                         *)
(* The server delivers a message again when it is not acknowledged in      *)
(* time: its listener exited, its acknowledgement was lost, its batch was  *)
(* handled too slowly, or the listener chose not to acknowledge it.        *)
(***************************************************************************)
EXTENDS FileStore, Sequences

CONSTANTS
  Msgs,       \* messages of the stream
  Payload,    \* what a message says once decrypted and decoded
  Garbled,    \* the payload of one that cannot be
  BatchSize,  \* messages a Fetch asks for: 10 in the code
  MaxAckPending,  \* unacknowledged messages of the consumer: the code sets
                  \* none, and the server's default is 1000
  MaxExits,   \* model bound: listener processes that end
  MaxFaults   \* model bound: lost acks, early redeliveries and expiries

ASSUME MsgsAssumption ==
  /\ Payload \in [Msgs -> Files \cup {Garbled}]
  /\ Garbled \notin Files
  /\ BatchSize \in Nat \ {0}
  /\ MaxAckPending \in Nat \ {0}
  /\ MaxExits \in Nat
  /\ MaxFaults \in Nat

VARIABLES
  status,   \* of every message, on the server
  running,  \* the listeners that are running
  batch,    \* the messages a listener has fetched and not yet handled
  failed,   \* history: the messages whose Store call returned an error
  erased,   \* history: the messages whose file delete-host removed later
  exits,    \* counter for MaxExits
  faults    \* counter for MaxFaults

queueVars    == <<status, running, batch, failed, erased, exits, faults>>
listenerVars == <<storeVars, queueVars>>

-----------------------------------------------------------------------------
(* "pending" is delivered and not acknowledged yet, "due" the same when
   AckWait has passed. *)
Statuses == {"unsent", "queued", "pending", "due", "acked", "expired"}

Unacknowledged == {m \in Msgs : status[m] \in {"pending", "due"}}

OnServer == {m \in Msgs : status[m] = "queued"} \cup Unacknowledged

(* A pull request hands out what is due or new, no message twice, and new
   ones only while the consumer has room for more unacknowledged ones. *)
Batches ==
  UNION {{b \in [1..n -> {m \in Msgs : status[m] \in {"queued", "due"}}] :
            /\ \A i, j \in 1..n : b[i] = b[j] => i = j
            /\ Cardinality(Unacknowledged \cup {b[i] : i \in 1..n})
                 <= MaxAckPending} :
         n \in 1..BatchSize}

InBatch(s, m) == \E i \in DOMAIN batch[s] : batch[s][i] = m

Published == {m \in Msgs : status[m] # "unsent"}

(* The files the published messages announce. *)
Sent == {Payload[m] : m \in Published} \ {Garbled}

ListenerTypeOK ==
  /\ StoreTypeOK
  /\ status \in [Msgs -> Statuses]
  /\ running \in SUBSET Stores
  /\ batch \in [Stores -> Seq(Msgs)]
  /\ failed \in SUBSET Msgs
  /\ erased \in SUBSET Msgs
  /\ exits \in 0..MaxExits
  /\ faults \in 0..MaxFaults

ListenerInit ==
  /\ StoreInit
  /\ status = [m \in Msgs |-> "unsent"]
  /\ running = {}
  /\ batch = [s \in Stores |-> <<>>]
  /\ failed = {} /\ erased = {}
  /\ exits = 0 /\ faults = 0

-----------------------------------------------------------------------------
(* NATSProcessor.Process of some scanner: PublishMsg.  Two messages may say
   the same, because a file is scanned again or its publication retried. *)
Publish(m) ==
  /\ status[m] = "unsent"
  /\ status' = [status EXCEPT ![m] = "queued"]
  /\ UNCHANGED <<storeVars, running, batch, failed, erased, exits, faults>>

(* Listen has connected and subscribed to the durable consumer. *)
Start(s) ==
  /\ s \notin running
  /\ running' = running \cup {s}
  /\ UNCHANGED <<storeVars, status, batch, failed, erased, exits, faults>>

(* sub.Fetch(10), once the last batch is finished; an empty answer (a
   timeout) leaves everything as it is. *)
Fetch(s) ==
  /\ s \in running /\ batch[s] = <<>>
  /\ \E b \in Batches :
       /\ batch' = [batch EXCEPT ![s] = b]
       /\ status' = [m \in Msgs |->
            IF \E i \in DOMAIN b : b[i] = m THEN "pending" ELSE status[m]]
  /\ UNCHANGED <<storeVars, running, failed, erased, exits, faults>>

(* The message cannot be decrypted or decoded: it is counted as skipped and
   left unacknowledged. *)
Skip(s) ==
  /\ batch[s] # <<>> /\ Payload[Head(batch[s])] = Garbled
  /\ batch' = [batch EXCEPT ![s] = Tail(batch[s])]
  /\ UNCHANGED <<storeVars, status, running, failed, erased, exits, faults>>

(* storage.Store(ctx, fileMsg) *)
Handle(s) ==
  /\ batch[s] # <<>> /\ Payload[Head(batch[s])] # Garbled
  /\ Store(s, Payload[Head(batch[s])])
  /\ UNCHANGED queueVars

Save(s) == SaveStep(s) /\ UNCHANGED queueVars

(* Mutant of AckOf: no call of msg.Ack(). *)
NoAck(m) == status

(* msg.Ack() arrives: the work queue removes the message, even if it was
   due again; one that has expired is gone already. *)
AckOf(m) ==
  IF m \in OnServer THEN [status EXCEPT ![m] = "acked"] ELSE status

(* Mutant of FailedWith: an error that only the log knows of. *)
ForgetsFailure(s, m) == failed

(* The messages of which the log says that they could not be saved. *)
FailedWith(s, m) ==
  IF out[s].err = "none" THEN failed \ {m} ELSE failed \cup {m}

ErasedWith(s, m) ==
  IF Payload[m].host \in purged[s] THEN erased \cup {m} ELSE erased \ {m}

(* Store has returned, with or without an error, and msg.Ack() is called.
   Its own error is ignored: the acknowledgement may not arrive. *)
Finish(s) ==
  /\ Return(s)
  /\ LET m == Head(batch[s]) IN
       /\ failed' = FailedWith(s, m)
       /\ erased' = ErasedWith(s, m)
       /\ \/ status' = AckOf(m) /\ UNCHANGED faults
          \/ faults < MaxFaults /\ faults' = faults + 1 /\ UNCHANGED status
  /\ batch' = [batch EXCEPT ![s] = Tail(batch[s])]
  /\ UNCHANGED <<running, exits>>

(* The process ends: a signal, or a crash at any point of a Store call. *)
ListenerExit(s) ==
  /\ s \in running /\ exits < MaxExits
  /\ exits' = exits + 1
  /\ running' = running \ {s}
  /\ batch' = [batch EXCEPT ![s] = <<>>]
  /\ EndCall(s)
  /\ UNCHANGED <<status, failed, erased, faults>>

-----------------------------------------------------------------------------
(* The server's AckWait: the message will be delivered again.  It is a fault
   when a listener still has it in its batch. *)
AckWait(m) ==
  /\ status[m] = "pending"
  /\ status' = [status EXCEPT ![m] = "due"]
  /\ IF \E s \in Stores : InBatch(s, m)
       THEN faults < MaxFaults /\ faults' = faults + 1
       ELSE UNCHANGED faults
  /\ UNCHANGED <<storeVars, running, batch, failed, erased, exits>>

(* The stream's MaxAge. *)
Expire(m) ==
  /\ m \in OnServer
  /\ faults < MaxFaults
  /\ faults' = faults + 1
  /\ status' = [status EXCEPT ![m] = "expired"]
  /\ UNCHANGED <<storeVars, running, batch, failed, erased, exits>>

(* The hs tool works on the index while listeners write it. *)
Admin ==
  \/ AdminStep /\ UNCHANGED queueVars
  \/ /\ DeleteFilesByHost
     /\ erased' = erased \cup
          {m \in Msgs : status[m] = "acked" /\ Payload[m].host = admin}
     /\ UNCHANGED <<status, running, batch, failed, exits, faults>>

-----------------------------------------------------------------------------
ListenerStep(s) ==
  \/ Start(s) \/ Fetch(s) \/ Skip(s) \/ Handle(s) \/ Save(s) \/ Finish(s)

ListenerNext ==
  \/ \E s \in Stores : ListenerStep(s) \/ ListenerExit(s)
  \/ \E m \in Msgs : Publish(m) \/ AckWait(m) \/ Expire(m)
  \/ Admin

ListenerSpec == ListenerInit /\ [][ListenerNext]_listenerVars

(* What the code's loop and the server guarantee.  A listener does its next
   step; a process that ended is started again; AckWait always runs out; and
   the server, which delivers in stream order, passes no queued message over
   for ever. *)
FetchOf(s, m) == Fetch(s) /\ InBatch(s, m)'

ListenerFairness ==
  /\ \A s \in Stores :
       /\ WF_listenerVars(Start(s))
       /\ WF_listenerVars(Skip(s) \/ Handle(s) \/ Save(s) \/ Finish(s))
  /\ \A m \in Msgs :
       /\ WF_listenerVars(AckWait(m))
       /\ SF_listenerVars(\E s \in Stores : FetchOf(s, m))

FairListenerSpec == ListenerSpec /\ ListenerFairness

-----------------------------------------------------------------------------
(* A message leaves the queue by acknowledgement only if its file is in the
   index, or the log says that saving it failed, or its host was deleted
   since; a message nobody could read is never acknowledged. *)
AckAccounted ==
  \A m \in Msgs : status[m] = "acked" =>
    /\ Payload[m] # Garbled
    /\ Payload[m] \in Catalogued \/ m \in failed \/ m \in erased

(* The index never holds a file that no scanner has announced, and only a
   delete-host of its host takes one away: the listeners implement the
   abstract catalog. *)
Abstract == INSTANCE Catalog WITH sent <- Sent, catalog <- Catalogued
ImplementsCatalog == Abstract!CatalogSpec

(* A readable message does not stay in the stream: it is acknowledged or,
   when it grows too old, it expires, although listeners come and go,
   acknowledgements are lost and unreadable messages are delivered for
   ever.  Those are never acknowledged and keep their places among the
   unacknowledged messages: with as many of them as the server allows there
   is no room for others. *)
EveryMessageLeaves ==
  Cardinality({m \in Msgs : Payload[m] = Garbled}) < MaxAckPending =>
    \A m \in Msgs : Payload[m] # Garbled =>
      (status[m] = "queued" ~> status[m] \in {"acked", "expired"})

(* delete-host deletes "all files from a specific host": it never makes the
   listener fail to save, and then acknowledge, a file of another host. *)
DeleteHostSparesOthers ==
  \A s \in Stores : out[s].err = "foreignKey" => arg[s].host \in purged[s]
=============================================================================
