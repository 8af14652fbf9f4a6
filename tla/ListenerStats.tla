----------------------------- MODULE ListenerStats -----------------------------
(***************************************************************************)
(* What `hashup store` reports of its work: the counters of ProcessStats   *)
(* (internal/store/stats.go), as the message loop of Listener drives them. *)
(* Every process counts for itself and from zero.                          *)
(***************************************************************************)
EXTENDS Listener, Totals, SequencesExt

CONSTANTS
  Extension,    \* of every file
  TopLimit,     \* extensions that are printed: 10 in the code
  MaxReceived   \* model bound: messages one process counts

Extensions == {Extension[f] : f \in Files}

ASSUME StatsAssumption ==
  /\ DOMAIN Extension = Files
  /\ IsFiniteSet(Stores) /\ IsFiniteSet(Hosts) /\ IsFiniteSet(Files)
  /\ TopLimit \in Nat
  /\ MaxReceived \in Nat

VARIABLES
  stats,   \* the ProcessStats of every process
  ended    \* history: the rows inserted by processes that have ended

statsVars == <<listenerVars, stats, ended>>

Counters == [received : Nat, written : Nat, skipped : Nat, present : Nat,
             hosts : [Hosts -> Nat], extensions : [Extensions -> Nat]]

NoStats == [received |-> 0, written |-> 0, skipped |-> 0, present |-> 0,
            hosts |-> [h \in Hosts |-> 0],
            extensions |-> [e \in Extensions |-> 0]]

StatsTypeOK ==
  /\ ListenerTypeOK
  /\ stats \in [Stores -> Counters]
  /\ ended \in Nat

StatsInit ==
  /\ ListenerInit
  /\ stats = [s \in Stores |-> NoStats]
  /\ ended = 0

-----------------------------------------------------------------------------
(* IncrementReceived, before anything else is done with the message. *)
Received(st) == [st EXCEPT !.received = @ + 1]

(* Mutant of SkippedUnread: `continue` before IncrementSkipped. *)
NotCounted(st) == Received(st)

SkippedUnread(st) == [Received(st) EXCEPT !.skipped = @ + 1]

(* RecordHost and RecordExtension, when the message has been read. *)
ReadFrom(st, f) ==
  [Received(st) EXCEPT !.hosts[f.host] = @ + 1,
                       !.extensions[Extension[f]] = @ + 1]

(* Mutant of Outcome: a new hash alone makes a file count as written. *)
ByFileHash(st, r) ==
  CASE r.err # "none" -> [st EXCEPT !.skipped = @ + 1]
    [] r.err = "none" /\ r.FileHash -> [st EXCEPT !.written = @ + 1]
    [] OTHER -> [st EXCEPT !.present = @ + 1]

(* IncrementSkipped, IncrementWritten or IncrementAlreadyPresent: what Store
   returned decides. *)
Outcome(st, r) ==
  CASE r.err # "none" -> [st EXCEPT !.skipped = @ + 1]
    [] r.err = "none" /\ Dirty(r) -> [st EXCEPT !.written = @ + 1]
    [] OTHER -> [st EXCEPT !.present = @ + 1]

CountSkip(s) ==
  /\ Skip(s)
  /\ stats[s].received < MaxReceived
  /\ stats' = [stats EXCEPT ![s] = SkippedUnread(@)]
  /\ UNCHANGED ended

CountHandle(s) ==
  /\ Handle(s)
  /\ stats[s].received < MaxReceived
  /\ stats' = [stats EXCEPT ![s] = ReadFrom(@, Payload[Head(batch[s])])]
  /\ UNCHANGED ended

CountFinish(s) ==
  /\ Finish(s)
  /\ stats' = [stats EXCEPT ![s] = Outcome(@, out[s])]
  /\ UNCHANGED ended

(* A row of the current call that stats does not count yet. *)
InHand(s) == IF out[s].FileInfo THEN 1 ELSE 0

(* The counters go with the process. *)
CountExit(s) ==
  /\ ListenerExit(s)
  /\ ended' = ended + stats[s].written + InHand(s)
  /\ stats' = [stats EXCEPT ![s] = NoStats]

Uncounted ==
  /\ \/ \E s \in Stores : Start(s) \/ Fetch(s) \/ Save(s)
     \/ \E m \in Msgs : Publish(m) \/ AckWait(m) \/ Expire(m)
     \/ Admin
  /\ UNCHANGED <<stats, ended>>

StatsNext ==
  \/ \E s \in Stores :
       CountSkip(s) \/ CountHandle(s) \/ CountFinish(s) \/ CountExit(s)
  \/ Uncounted

StatsSpec == StatsInit /\ [][StatsNext]_statsVars

-----------------------------------------------------------------------------
(* The list of extensions that PrintStats makes of the counters, which it
   locks: a bubble sort of the entries of a map, in any order, cut at the
   limit. *)
Counted(st) == {e \in Extensions : st.extensions[e] > 0}

ExtCounts(st) ==
  {[i \in DOMAIN order |-> [ext |-> order[i], count |-> st.extensions[order[i]]]] :
     order \in SetToSeqs(Counted(st))}

Ordered(c, j) ==
  IF c[j].count < c[j + 1].count
    THEN [c EXCEPT ![j] = c[j + 1], ![j + 1] = c[j]]
    ELSE c

(* The inner loop: the list after each of its exchanges. *)
Exchanges(c, last) ==
  LET after[j \in 0..last] == IF j = 0 THEN c ELSE Ordered(after[j - 1], j)
  IN after

(* Mutant of Pass: the last pair of the pass is left out. *)
ShortPass(c, last) == Exchanges(c, last)[last - 1]

Pass(c, last) == Exchanges(c, last)[last]

(* The outer loop, of one pass less than there are entries. *)
Passes(c) ==
  LET after[i \in 0..Len(c)] == IF i = 0 THEN c ELSE Pass(after[i - 1], Len(c) - i)
  IN after

Sorted(c) == IF c = <<>> THEN c ELSE Passes(c)[Len(c) - 1]

TopExtensions(c) ==
  SubSeq(Sorted(c), 1, IF Len(c) < TopLimit THEN Len(c) ELSE TopLimit)

-----------------------------------------------------------------------------
(* Every message received is written, already present or skipped, except the
   one in hand, ... *)
LoopBalance ==
  \A s \in Stores :
    stats[s].received = stats[s].written + stats[s].present + stats[s].skipped
                          + (IF pc[s] = "idle" THEN 0 ELSE 1)

(* ... and it counts for a host and for an extension unless it could not be
   read: no path through the loop forgets a counter or bumps two. *)
StatsBalance ==
  /\ LoopBalance
  /\ \A s \in Stores :
       LET st == stats[s]
           inCall == IF pc[s] = "idle" THEN 0 ELSE 1
           read == Total(st.hosts, Hosts)
       IN /\ read = Total(st.extensions, Extensions)
          /\ st.written + st.present + inCall <= read
          /\ read <= st.received

(* Whenever and in whatever order PrintStats reads the counters, it lists
   extensions that were seen, with their counts, most frequent first: none
   that is missing has more files than one that is there, and none is missing
   while there is room. *)
TopOfExtensions ==
  \A s \in Stores : \A c \in ExtCounts(stats[s]) :
    LET top    == TopExtensions(c)
        listed == {top[i].ext : i \in DOMAIN top}
    IN /\ Cardinality(listed) = Len(top)
       /\ \A i \in DOMAIN top : top[i].count = stats[s].extensions[top[i].ext]
       /\ \A i, j \in DOMAIN top : i < j => top[i].count >= top[j].count
       /\ \A e \in Counted(stats[s]) \ listed :
            /\ Len(top) = TopLimit
            /\ \A i \in DOMAIN top : top[i].count >= stats[s].extensions[e]

(* The files reported as written are the rows inserted into file_info, one
   for one, although "written" is decided by two flags of which one says that
   only a hash was new: rows are never counted twice, and a hash that is left
   behind by a failed insertion is not mistaken for a file. *)
WrittenCountsRows ==
  lastInfoID = ended + Total([s \in Stores |-> stats[s].written + InHand(s)], Stores)
=============================================================================
