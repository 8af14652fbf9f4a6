--------------------------- MODULE ScanCommandProofs ---------------------------
(***************************************************************************)
(* Proofs about ScanCommand: the channel of statistics is never used after *)
(* it was closed, what is sent through it is added up, and what the        *)
(* summary says is true, for any number of files, workers and runs and any *)
(* size of the channel.                                                    *)
(***************************************************************************)
EXTENDS ScanCommand, FiniteSetTheorems, TLAPS

(* The places where a value counts in the channel. *)
Ones(q, k) == {i \in DOMAIN q : q[i][k] = 1}

(* Two statements about the same set of files, by its size. *)
LEMMA FileCounts ==
  ASSUME NEW S \in SUBSET Files
  PROVE  /\ IsFiniteSet(S) /\ Cardinality(S) \in Nat
         /\ Cardinality(S) <= Cardinality(Files) /\ Cardinality(Files) \in Nat
         /\ \A f \in Files \ S : Cardinality(S \cup {f}) = Cardinality(S) + 1
<1>1. IsFiniteSet(Files)
  BY CommandAssumption DEF CommandAssumption
<1>2. IsFiniteSet(S) /\ Cardinality(S) <= Cardinality(Files)
  BY <1>1, FS_Subset
<1> QED
  BY <1>1, <1>2, FS_CardinalityType, FS_AddElement

(* The places of a channel are finitely many. *)
LEMMA OnesCounted ==
  ASSUME NEW q \in Seq(Stats), NEW k
  PROVE  IsFiniteSet(Ones(q, k)) /\ Cardinality(Ones(q, k)) \in Nat
<1>1. IsFiniteSet(1..Len(q)) /\ Ones(q, k) \subseteq 1..Len(q)
  <2>1. Len(q) \in Int /\ DOMAIN q = 1..Len(q)
    OBVIOUS
  <2> QED
    BY <2>1, FS_Interval DEF Ones
<1>2. IsFiniteSet(Ones(q, k))
  BY <1>1, FS_Subset
<1> QED
  BY <1>2, FS_CardinalityType

(* A file counts once or not at all. *)
LEMMA ZeroOrOne ==
  ASSUME NEW v \in Stats, NEW k \in {"SkippedFiles", "QueuedFiles"}
  PROVE  v[k] \in {0, 1}
<1>1. CASE k = "SkippedFiles"
  BY <1>1 DEF Stats
<1>2. CASE k = "QueuedFiles"
  BY <1>2 DEF Stats
<1> QED
  BY <1>1, <1>2

(* An empty channel counts for nothing. *)
LEMMA OnesOfNone ==
  ASSUME NEW k
  PROVE  Cardinality(Ones(<<>>, k)) = 0
<1>1. Ones(<<>>, k) = {}
  BY DEF Ones
<1> QED
  BY <1>1, FS_EmptySet

(* A value that is sent adds itself. *)
LEMMA OnesOfAppend ==
  ASSUME NEW q \in Seq(Stats), NEW v \in Stats, NEW k \in {"SkippedFiles", "QueuedFiles"}
  PROVE  Cardinality(Ones(Append(q, v), k)) = Cardinality(Ones(q, k)) + v[k]
<1> DEFINE n == Len(q) + 1
<1>1. /\ Len(q) \in Nat /\ DOMAIN q = 1..Len(q) /\ DOMAIN Append(q, v) = 1..n
      /\ \A i \in 1..Len(q) : Append(q, v)[i] = q[i]
      /\ Append(q, v)[n] = v
  OBVIOUS
<1>2. v[k] \in {0, 1}
  BY ZeroOrOne
<1>3. Ones(Append(q, v), k) = IF v[k] = 1 THEN Ones(q, k) \cup {n} ELSE Ones(q, k)
  <2>1. \A i : i \in Ones(Append(q, v), k) <=>
                 i \in Ones(q, k) \/ (i = n /\ v[k] = 1)
    BY <1>1 DEF Ones
  <2> QED
    BY <2>1
<1>4. n \notin Ones(q, k)
  BY <1>1 DEF Ones
<1>5. IsFiniteSet(Ones(q, k)) /\ Cardinality(Ones(q, k)) \in Nat
  BY OnesCounted
<1>6. Cardinality(Ones(q, k) \cup {n}) = Cardinality(Ones(q, k)) + 1
  BY <1>4, <1>5, FS_AddElement
<1> QED
  BY <1>2, <1>3, <1>5, <1>6

(* A value that is received takes itself away. *)
LEMMA OnesOfTail ==
  ASSUME NEW q \in Seq(Stats), q # <<>>, NEW k \in {"SkippedFiles", "QueuedFiles"}
  PROVE  Cardinality(Ones(q, k)) = Cardinality(Ones(Tail(q), k)) + Head(q)[k]
<1> DEFINE T == Ones(Tail(q), k)
           U == Ones(q, k) \ {1}
           g == [i \in T |-> i + 1]
<1>1. /\ Len(q) \in Nat \ {0} /\ DOMAIN q = 1..Len(q) /\ Head(q) = q[1]
      /\ Tail(q) \in Seq(Stats) /\ DOMAIN Tail(q) = 1..(Len(q) - 1)
      /\ \A i \in 1..(Len(q) - 1) : Tail(q)[i] = q[i + 1]
  OBVIOUS
<1>2. q[1] \in Stats /\ q[1][k] \in {0, 1}
  <2>1. q[1] \in Stats
    BY <1>1
  <2> QED
    BY <2>1, ZeroOrOne
<1>3. \A i : i \in T <=> i \in 1..(Len(q) - 1) /\ q[i + 1][k] = 1
  BY <1>1 DEF Ones
<1>4. \A j : j \in U <=> j \in 2..Len(q) /\ q[j][k] = 1
  BY <1>1 DEF Ones
<1>5. IsFiniteSet(T) /\ IsFiniteSet(Ones(q, k))
  BY <1>1, OnesCounted
<1>6. g \in Bijection(T, U)
  <2>1. \A i \in T : i + 1 \in U
    BY <1>1, <1>3, <1>4
  <2>2. ASSUME NEW j \in U
        PROVE  j - 1 \in T /\ (j - 1) + 1 = j
    <3>1. j \in 2..Len(q) /\ q[j][k] = 1
      BY <1>4
    <3>2. j - 1 \in 1..(Len(q) - 1) /\ (j - 1) + 1 = j
      BY <1>1, <3>1
    <3> QED
      BY <1>3, <3>1, <3>2
  <2>3. \A i \in T : i \in Int
    BY <1>3
  <2>4. g \in [T -> U]
    BY <2>1
  <2>5. \A i, j \in T : g[i] = g[j] => i = j
    BY <2>3
  <2>6. \A j \in U : \E i \in T : g[i] = j
    BY <2>2
  <2> QED
    BY <2>4, <2>5, <2>6 DEF Bijection, Injection, Surjection, IsInjective
<1>7. Cardinality(U) = Cardinality(T)
  <2>1. ExistsBijection(T, U)
    BY <1>6 DEF ExistsBijection
  <2> QED
    BY <1>5, <2>1, FS_Bijection
<1>8. CASE q[1][k] = 1
  <2>1. 1 \in Ones(q, k)
    BY <1>1, <1>8 DEF Ones
  <2>2. Cardinality(U) = Cardinality(Ones(q, k)) - 1
    BY <1>5, <2>1, FS_RemoveElement
  <2>3. Cardinality(Ones(q, k)) \in Nat
    BY OnesCounted
  <2> QED
    BY <1>1, <1>7, <1>8, <2>2, <2>3
<1>9. CASE q[1][k] = 0
  <2>1. U = Ones(q, k)
    BY <1>9 DEF Ones
  <2>2. Cardinality(Ones(q, k)) \in Nat
    BY OnesCounted
  <2>3. Head(q)[k] = 0
    BY <1>1, <1>9
  <2>4. Cardinality(Ones(q, k)) = Cardinality(Ones(Tail(q), k))
    BY <1>7, <2>1
  <2> QED
    BY <2>2, <2>3, <2>4
<1> QED
  BY <1>2, <1>8, <1>9

-----------------------------------------------------------------------------
Active == In("submitted") \cup Running

(* The files whose statistics have been sent. *)
Sent(o) == Cardinality(With(o) \cap In("done"))

(* The entry the walk has met last may not be counted yet. *)
WalkCounted ==
  pCounter + (IF progress = "print" THEN 1 ELSE 0) = Cardinality(Files \ In("ahead"))

(* Either FileCounter is through, or not. *)
CountedAll == fileCount \in {0, Cardinality(Files)}

(* Where a file is says what its outcome can be. *)
Places ==
  \A f \in Files :
    /\ file[f] \in {"ahead", "submitted", "open"} => outcome[f] = "none"
    /\ file[f] = "sending" => outcome[f] \in {"skipped", "queued"}

Printing == {"scanned", "print skipped", "print queued", "summed"}

(* No task runs any more when Stop has returned, nor after that. *)
NoneActive ==
  /\ phase \in Printing \/ closed => Active = {}
  /\ closed => phase \in {"summed", "idle"}

TypeInv == CommandTypeOK /\ WalkCounted /\ CountedAll /\ Places /\ NoneActive

(* The files keep their types, and their outcomes go with their places. *)
LEMMA FilesTyped ==
  ASSUME TypeInv, [CommandNext]_commandVars
  PROVE  /\ file' \in [Files -> {"ahead", "submitted", "open", "sending", "done"}]
         /\ outcome' \in [Files -> {"none", "present", "skipped", "queued"}]
         /\ Places'
<1> USE DEF TypeInv, CommandTypeOK, Places
<1>1. CASE UNCHANGED fileVars
  BY <1>1 DEF fileVars
<1>2. CASE RunScanner
  BY <1>2 DEF RunScanner
<1>3. ASSUME NEW f \in Files, Visit(f) \/ TaskStep(f)
      PROVE  /\ file' \in [Files -> {"ahead", "submitted", "open", "sending", "done"}]
             /\ outcome' \in [Files -> {"none", "present", "skipped", "queued"}]
             /\ Places'
  BY <1>3 DEF Visit, TaskStep, Take, LeaveOut, Process, SendStats
<1>4. CASE MainStep \/ PrintProgress \/ CountFiles \/ ReaderStep \/ UNCHANGED commandVars
  BY <1>1, <1>4 DEF MainStep, Connect, WalkOver, Stop, Summarise, ReadSum, Close, RunOver,
     PrintProgress, CountFiles, ReaderStep, Receive, AddUp, commandVars
<1> QED
  BY <1>2, <1>3, <1>4 DEF CommandNext

(* The channel and the goroutine that reads it keep their types. *)
LEMMA ChannelTyped ==
  ASSUME TypeInv, [CommandNext]_commandVars
  PROVE  /\ statsChan' \in Seq(Stats) /\ Len(statsChan') <= StatsSize
         /\ closed' \in BOOLEAN
         /\ reader' \in {"receive", "processed", "skipped", "queued"}
         /\ inHand' \in Stats /\ sums' \in Sums
<1> DEFINE ChanOK(c) == c \in Seq(Stats) /\ Len(c) <= StatsSize
<1>z. Zero \in Stats /\ NoSum \in Sums
  BY DEF Zero, Stats, NoSum, Sums
<1>0. /\ ChanOK(statsChan) /\ inHand \in Stats /\ sums \in Sums
      /\ reader \in {"receive", "processed", "skipped", "queued"} /\ closed \in BOOLEAN
  BY DEF TypeInv, CommandTypeOK
<1>s. StatsSize \in Nat \ {0}
  BY CommandAssumption DEF CommandAssumption
<1>1. CASE RunScanner
  <2>1. ChanOK(<<>>)
    BY <1>s
  <2> QED
    BY <1>z, <1>1, <2>1 DEF RunScanner
<1>2. ASSUME NEW f \in Files, SendStats(f)
      PROVE  ChanOK(statsChan') /\ UNCHANGED <<closed, readerVars>>
  <2>1. StatsOf(outcome[f]) \in Stats
    BY DEF StatsOf, Stats
  <2>2. /\ statsChan' = Append(statsChan, StatsOf(outcome[f]))
        /\ Len(statsChan) < StatsSize /\ UNCHANGED <<closed, readerVars>>
    BY <1>2 DEF SendStats, StatsRoom
  <2>3. ASSUME NEW v \in Stats, Len(statsChan) < StatsSize
        PROVE  ChanOK(Append(statsChan, v))
    BY <1>0, <1>s, <2>3
  <2> QED
    BY <2>1, <2>2, <2>3
<1>3. CASE Receive
  <2>1. ASSUME statsChan # <<>>
        PROVE  Head(statsChan) \in Stats /\ ChanOK(Tail(statsChan))
    BY <1>0, <1>s, <2>1
  <2> QED
    BY <1>z, <1>0, <1>3, <2>1 DEF Receive
<1>4. CASE ReaderStep /\ ~Receive
  <2>1. /\ reader' \in {"receive", "skipped", "queued"}
        /\ \/ sums' = [sums EXCEPT !.processed = @ + 1]
           \/ sums' = [sums EXCEPT !.skipped = @ + inHand.SkippedFiles]
           \/ sums' = [sums EXCEPT !.queued = @ + inHand.QueuedFiles]
        /\ UNCHANGED <<statsChan, closed, inHand>>
    BY <1>4 DEF ReaderStep, AddUp
  <2>2. inHand.SkippedFiles \in Nat /\ inHand.QueuedFiles \in Nat
    BY <1>0 DEF Stats
  <2>3. sums' \in Sums
    BY <1>0, <2>1, <2>2 DEF Sums
  <2> QED
    BY <1>0, <2>1, <2>3
<1>5. CASE \/ MainStep \/ PrintProgress \/ CountFiles \/ UNCHANGED commandVars
           \/ \E f \in Files : Visit(f) \/ Take(f) \/ LeaveOut(f) \/ Process(f)
  <2>1. UNCHANGED <<statsChan, readerVars>> /\ closed' \in {closed, TRUE}
    BY <1>5 DEF MainStep, Connect, WalkOver, Stop, Summarise, ReadSum, Close, RunOver,
       PrintProgress, CountFiles, Visit, Take, LeaveOut, Process, commandVars
  <2> QED
    BY <1>0, <2>1 DEF readerVars
<1> QED
  BY <1>0, <1>1, <1>2, <1>3, <1>4, <1>5 DEF CommandNext, TaskStep, readerVars

(* The walk, its progress and the two counts of its entries belong together. *)
LEMMA WalkTyped ==
  ASSUME TypeInv, [CommandNext]_commandVars
  PROVE  /\ progress' \in {"receive", "print"}
         /\ pCounter' \in 0..Cardinality(Files) /\ fileCount' \in 0..Cardinality(Files)
         /\ WalkCounted' /\ CountedAll'
<1> DEFINE Walked == Files \ In("ahead")
           n == Cardinality(Files)
<1>n. n \in Nat /\ Cardinality(Walked) \in Nat /\ Cardinality(Walked') \in 0..n
  BY FileCounts
<1>0. /\ progress \in {"receive", "print"} /\ pCounter \in Nat /\ fileCount \in {0, n}
      /\ pCounter + (IF progress = "print" THEN 1 ELSE 0) = Cardinality(Walked)
  <2>1. progress \in {"receive", "print"} /\ pCounter \in 0..n
    BY DEF TypeInv, CommandTypeOK
  <2>2. fileCount \in {0, n} /\ WalkCounted
    BY DEF TypeInv, CountedAll
  <2> QED
    BY <1>n, <2>1, <2>2 DEF WalkCounted
<1>f. file \in [Files -> {"ahead", "submitted", "open", "sending", "done"}]
  BY DEF TypeInv, CommandTypeOK
<1> SUFFICES /\ progress' \in {"receive", "print"} /\ pCounter' \in Nat
             /\ fileCount' \in {0, n}
             /\ pCounter' + (IF progress' = "print" THEN 1 ELSE 0) = Cardinality(Walked')
  BY <1>n DEF WalkCounted, CountedAll
<1>1. CASE RunScanner
  <2>1. progress' = "receive" /\ pCounter' = 0 /\ fileCount' = 0 /\ Walked' = {}
    BY <1>1 DEF RunScanner, In
  <2>2. Cardinality({}) = 0
    BY FS_EmptySet
  <2> QED
    BY <2>1, <2>2
<1>2. ASSUME NEW f \in Files, Visit(f)
      PROVE  /\ progress' = "print" /\ pCounter' = pCounter /\ fileCount' = fileCount
             /\ pCounter' + 1 = Cardinality(Walked')
  <2>1. /\ progress = "receive" /\ progress' = "print" /\ UNCHANGED <<pCounter, fileCount>>
        /\ file[f] = "ahead" /\ file' = [file EXCEPT ![f] = "submitted"]
    BY <1>2 DEF Visit
  <2>2. f \notin Walked /\ Walked' = Walked \cup {f}
    BY <1>f, <2>1 DEF In
  <2>3. Cardinality(Walked \cup {f}) = Cardinality(Walked) + 1
    BY <2>2, FileCounts
  <2>4. pCounter = Cardinality(Walked)
    BY <1>0, <2>1
  <2> QED
    BY <2>1, <2>2, <2>3, <2>4
<1>4. CASE PrintProgress
  <2>1. /\ progress = "print" /\ progress' = "receive" /\ pCounter' = pCounter + 1
        /\ UNCHANGED <<file, fileCount>>
    BY <1>4 DEF PrintProgress, fileVars
  <2>2. Walked' = Walked
    BY <2>1 DEF In
  <2> QED
    BY <1>0, <2>1, <2>2
<1>5. CASE CountFiles
  <2>1. fileCount' = n /\ UNCHANGED <<file, progress, pCounter>>
    BY <1>5 DEF CountFiles, Counted, fileVars
  <2>2. Walked' = Walked
    BY <2>1 DEF In
  <2> QED
    BY <1>0, <2>1, <2>2
<1>6. CASE \/ MainStep \/ ReaderStep \/ UNCHANGED commandVars
           \/ \E f \in Files : TaskStep(f)
  <2>1. UNCHANGED <<progress, pCounter, fileCount>>
    BY <1>6 DEF MainStep, Connect, WalkOver, Stop, Summarise, ReadSum, Close, RunOver,
       ReaderStep, Receive, AddUp, TaskStep, Take, LeaveOut, Process, SendStats, commandVars,
       walkVars
  <2>2. \A f \in Files : file'[f] = "ahead" <=> file[f] = "ahead"
    BY <1>f, <1>6 DEF MainStep, Connect, WalkOver, Stop, Summarise, ReadSum, Close, RunOver,
       ReaderStep, Receive, AddUp, TaskStep, Take, LeaveOut, Process, SendStats,
       commandVars, fileVars
  <2>3. Walked' = Walked
    BY <2>2 DEF In
  <2> QED
    BY <1>0, <2>1, <2>3
<1> QED
  BY <1>0, <1>1, <1>2, <1>4, <1>5, <1>6 DEF CommandNext

(* A run goes through its phases, and prints its sums when no task runs. *)
LEMMA PhasesKept ==
  ASSUME TypeInv, [CommandNext]_commandVars
  PROVE  /\ runs' \in 0..MaxRuns
         /\ phase' \in {"idle", "connecting", "scanning", "stopping"} \cup Printing
         /\ summary' \in Sums
         /\ NoneActive'
<1>0. /\ runs \in 0..MaxRuns /\ MaxRuns \in Nat /\ summary \in Sums
      /\ phase \in {"idle", "connecting", "scanning", "stopping"} \cup Printing
  BY CommandAssumption DEF CommandAssumption, TypeInv, CommandTypeOK, Printing
<1>f. file \in [Files -> {"ahead", "submitted", "open", "sending", "done"}]
  BY DEF TypeInv, CommandTypeOK
<1>a. NoneActive /\ \A f : f \in Active <=>
                       f \in Files /\ file[f] \in {"submitted", "open", "sending"}
  BY DEF TypeInv, Active, Running, In
<1>1. CASE RunScanner
  <2>1. NoSum \in Sums
    BY DEF NoSum, Sums
  <2>2. runs' \in 0..MaxRuns
    BY <1>0, <1>1 DEF RunScanner
  <2> QED
    BY <1>1, <2>1, <2>2 DEF RunScanner, NoneActive, Printing
<1>2. ASSUME NEW f \in Files, Visit(f)
      PROVE  /\ UNCHANGED <<runs, phase, summary>> /\ NoneActive'
  BY <1>2, <1>a DEF Visit, NoneActive, Printing
<1>3. ASSUME NEW f \in Files, TaskStep(f)
      PROVE  /\ UNCHANGED <<runs, phase, summary>> /\ NoneActive'
  <2>1. f \in Active /\ UNCHANGED <<runs, phase, summary, closed>>
    BY <1>3, <1>a DEF TaskStep, Take, LeaveOut, Process, SendStats
  <2> QED
    BY <1>a, <2>1 DEF NoneActive
<1>4. ASSUME UNCHANGED file
      PROVE  Active' = Active
  BY <1>4 DEF Active, Running, In
<1>5. CASE \/ PrintProgress \/ CountFiles \/ ReaderStep \/ UNCHANGED commandVars
  <2>1. UNCHANGED <<runs, phase, summary, closed, file>>
    BY <1>5 DEF PrintProgress, CountFiles, ReaderStep, Receive, AddUp, commandVars, fileVars
  <2> QED
    BY <1>0, <1>4, <1>a, <2>1 DEF NoneActive
<1>6. CASE Connect \/ WalkOver \/ Close \/ RunOver
  <2>1. UNCHANGED <<runs, summary, file>>
    BY <1>6 DEF Connect, WalkOver, Close, RunOver, fileVars
  <2>2. CASE Connect \/ WalkOver
    <3>1. ~closed /\ ~closed' /\ phase' \in {"scanning", "stopping", "idle"}
      BY <1>a, <2>2 DEF Connect, WalkOver, NoneActive
    <3> QED
      BY <1>0, <2>1, <3>1 DEF NoneActive, Printing
  <2>3. CASE Close \/ RunOver
    <3>1. Active = {} /\ phase' \in {"summed", "idle"}
      BY <1>a, <2>3 DEF Close, MayClose, RunOver, NoneActive, Printing
    <3> QED
      BY <1>0, <1>4, <2>1, <3>1 DEF NoneActive, Printing
  <2> QED
    BY <1>6, <2>2, <2>3
<1>7. CASE Stop
  <2>1. Active = {} /\ UNCHANGED <<runs, summary, file, closed>>
        /\ phase = "stopping" /\ phase' = "scanned"
    BY <1>7 DEF Stop, TasksOver, Active, fileVars
  <2> QED
    BY <1>0, <1>4, <1>a, <2>1 DEF NoneActive, Printing
<1>8. CASE Summarise
  <2>1. /\ phase \in {"scanned", "print skipped", "print queued"}
        /\ phase' \in {"print skipped", "print queued", "summed"}
        /\ UNCHANGED <<runs, file, closed>>
        /\ \/ summary' = [summary EXCEPT !.processed = sums.processed]
           \/ summary' = [summary EXCEPT !.skipped = sums.skipped]
           \/ summary' = [summary EXCEPT !.queued = sums.queued]
    BY <1>8 DEF Summarise, ReadSum, fileVars
  <2>2. sums \in Sums
    BY DEF TypeInv, CommandTypeOK
  <2>3. summary' \in Sums
    BY <1>0, <2>1, <2>2 DEF Sums
  <2> QED
    BY <1>0, <1>4, <1>a, <2>1, <2>3 DEF NoneActive, Printing
<1> QED
  BY <1>0, <1>1, <1>2, <1>3, <1>5, <1>6, <1>7, <1>8 DEF CommandNext, MainStep

(* No step breaks the types or what goes with them. *)
LEMMA TypeInvStep ==
  ASSUME TypeInv, [CommandNext]_commandVars
  PROVE  TypeInv'
BY FilesTyped, ChannelTyped, WalkTyped, PhasesKept DEF TypeInv, CommandTypeOK, Printing

(* They hold when nothing has run. *)
LEMMA TypeInvInit == CommandInit => TypeInv
<1> SUFFICES ASSUME CommandInit
             PROVE  TypeInv
  OBVIOUS
<1>1. Cardinality(Files) \in Nat /\ Cardinality({}) = 0
  BY FileCounts, FS_EmptySet
<1>2. MaxRuns \in Nat /\ StatsSize \in Nat
  BY CommandAssumption DEF CommandAssumption
<1>3. Files \ In("ahead") = {} /\ Active = {}
  BY DEF CommandInit, In, Active, Running
<1>4. Zero \in Stats /\ NoSum \in Sums
  BY DEF Zero, Stats, NoSum, Sums
<1>5. statsChan \in Seq(Stats) /\ Len(statsChan) = 0
  BY DEF CommandInit
<1>6. CommandTypeOK
  <2>1. 0 \in 0..Cardinality(Files) /\ 0 \in 0..MaxRuns /\ Len(statsChan) <= StatsSize
    BY <1>1, <1>2, <1>5
  <2> QED
    BY <1>4, <1>5, <2>1 DEF CommandInit, CommandTypeOK
<1>7. WalkCounted /\ CountedAll
  <2>1. Cardinality(Files \ In("ahead")) = 0
    BY <1>1, <1>3
  <2> QED
    BY <2>1 DEF CommandInit, WalkCounted, CountedAll
<1>8. Places /\ NoneActive
  BY <1>3 DEF CommandInit, Places, NoneActive
<1> QED
  BY <1>6, <1>7, <1>8 DEF TypeInv

(* The types, and the little they need, hold in every behaviour. *)
LEMMA AlwaysTyped == CommandSpec => []TypeInv
BY TypeInvInit, TypeInvStep, PTL DEF CommandSpec

(* The position of every goroutine, the channel and the sums keep their types. *)
THEOREM CommandTypeCorrect == CommandSpec => []CommandTypeOK
BY AlwaysTyped, PTL DEF TypeInv

(* No task sends on the channel of statistics after Close: Stop has waited for
   all of them, and no file is submitted after that. *)
THEOREM NobodySendsOnClosed == CommandSpec => []NoSendOnClosed
<1>1. TypeInv => NoSendOnClosed
  BY DEF TypeInv, NoneActive, Active, NoSendOnClosed
<1> QED
  BY <1>1, AlwaysTyped, PTL

(* The percentage of the progress never exceeds one hundred. *)
THEOREM ProgressNeverAhead == CommandSpec => []ProgressBelowCount
<1>1. TypeInv => ProgressBelowCount
  <2> SUFFICES ASSUME TypeInv, fileCount # 0
               PROVE  pCounter <= fileCount
    BY DEF ProgressBelowCount
  <2>1. fileCount = Cardinality(Files)
    BY DEF TypeInv, CountedAll
  <2>2. pCounter \in 0..Cardinality(Files) /\ Cardinality(Files) \in Nat
    BY FileCounts DEF TypeInv, CommandTypeOK
  <2> QED
    BY <2>1, <2>2
<1> QED
  BY <1>1, AlwaysTyped, PTL

-----------------------------------------------------------------------------
HeldSkipped == IF reader \in {"processed", "skipped"} THEN inHand.SkippedFiles ELSE 0

HeldQueued == IF reader = "receive" THEN 0 ELSE inHand.QueuedFiles

(* What was sent is in the channel, in hand or added up. *)
Balanced ==
  ~closed =>
    /\ sums.processed + Len(statsChan) + (IF reader = "processed" THEN 1 ELSE 0)
         = Sent("skipped") + Sent("queued")
    /\ sums.skipped + Cardinality(Ones(statsChan, "SkippedFiles")) + HeldSkipped
         = Sent("skipped")
    /\ sums.queued + Cardinality(Ones(statsChan, "QueuedFiles")) + HeldQueued
         = Sent("queued")

(* The numbers in Balanced are numbers. *)
LEMMA NumbersTyped ==
  ASSUME TypeInv
  PROVE  /\ sums.processed \in Nat /\ sums.skipped \in Nat /\ sums.queued \in Nat
         /\ Len(statsChan) \in 0..StatsSize /\ StatsSize \in Nat
         /\ inHand.SkippedFiles \in {0, 1} /\ inHand.QueuedFiles \in {0, 1}
         /\ \A k : Cardinality(Ones(statsChan, k)) \in Nat
         /\ \A o : Sent(o) \in Nat /\ Cardinality(With(o)) \in Nat
         /\ reader \in {"receive", "processed", "skipped", "queued"}
<1>1. /\ sums \in Sums /\ inHand \in Stats /\ statsChan \in Seq(Stats)
      /\ Len(statsChan) <= StatsSize
      /\ reader \in {"receive", "processed", "skipped", "queued"}
  BY DEF TypeInv, CommandTypeOK
<1>2. sums.processed \in Nat /\ sums.skipped \in Nat /\ sums.queued \in Nat
  BY <1>1 DEF Sums
<1>3. inHand.SkippedFiles \in {0, 1} /\ inHand.QueuedFiles \in {0, 1}
  BY <1>1 DEF Stats
<1>4. StatsSize \in Nat
  BY CommandAssumption DEF CommandAssumption
<1>5. Len(statsChan) \in 0..StatsSize
  BY <1>1, <1>4
<1>6. \A k : Cardinality(Ones(statsChan, k)) \in Nat
  BY <1>1, OnesCounted
<1>7. \A o : Sent(o) \in Nat /\ Cardinality(With(o)) \in Nat
  BY FileCounts DEF Sent, With
<1> QED
  BY <1>1, <1>2, <1>3, <1>4, <1>5, <1>6, <1>7

(* Files whose statistics are not sent now stay unsent. *)
LEMMA SentKept ==
  ASSUME TypeInv, NEW f \in Files, Visit(f) \/ Take(f) \/ LeaveOut(f) \/ Process(f),
         NEW o \in {"skipped", "queued"}
  PROVE  Sent(o)' = Sent(o)
<1>1. /\ file \in [Files -> {"ahead", "submitted", "open", "sending", "done"}]
      /\ outcome \in [Files -> {"none", "present", "skipped", "queued"}]
      /\ file[f] \in {"ahead", "submitted", "open"} => outcome[f] = "none"
  BY DEF TypeInv, CommandTypeOK, Places
<1>2. \A g \in Files : g # f => file'[g] = file[g] /\ outcome'[g] = outcome[g]
  BY <1>1 DEF Visit, Take, LeaveOut, Process
<1>3. /\ ~(outcome[f] = o /\ file[f] = "done")
      /\ ~(outcome'[f] = o /\ file'[f] = "done")
  BY <1>1 DEF Visit, Take, LeaveOut, Process
<1>4. (With(o) \cap In("done"))' = With(o) \cap In("done")
  BY <1>2, <1>3 DEF With, In
<1> QED
  BY <1>4 DEF Sent

(* A file that sends its statistics counts for its outcome. *)
LEMMA SentAdded ==
  ASSUME TypeInv, NEW f \in Files, SendStats(f), NEW o \in {"skipped", "queued"}
  PROVE  /\ outcome[f] \in {"skipped", "queued"}
         /\ Sent(o)' = Sent(o) + (IF outcome[f] = o THEN 1 ELSE 0)
<1>1. /\ file \in [Files -> {"ahead", "submitted", "open", "sending", "done"}]
      /\ outcome[f] \in {"skipped", "queued"}
      /\ file[f] = "sending" /\ file' = [file EXCEPT ![f] = "done"] /\ outcome' = outcome
  BY DEF TypeInv, CommandTypeOK, Places, SendStats
<1> DEFINE S == With(o) \cap In("done")
<1>2. S' = IF outcome[f] = o THEN S \cup {f} ELSE S
  BY <1>1 DEF With, In
<1>3. f \notin S
  BY <1>1 DEF In
<1>4. S \in SUBSET Files
  BY DEF In
<1>5. Cardinality(S \cup {f}) = Cardinality(S) + 1 /\ Cardinality(S) \in Nat
  BY <1>3, <1>4, FileCounts
<1>6. Sent(o) = Cardinality(S) /\ Sent(o)' = Cardinality(S')
  BY DEF Sent
<1> HIDE DEF S
<1>7. CASE outcome[f] = o
  BY <1>1, <1>2, <1>5, <1>6, <1>7
<1>8. CASE outcome[f] # o
  BY <1>1, <1>2, <1>5, <1>6, <1>8
<1> QED
  BY <1>7, <1>8

(* No step makes a value count twice, or not at all. *)
LEMMA BalanceStep ==
  ASSUME TypeInv, Balanced, [CommandNext]_commandVars
  PROVE  Balanced'
<1>t. TypeInv'
  BY TypeInvStep
<1>q. statsChan \in Seq(Stats)
  BY DEF TypeInv, CommandTypeOK
<1>n. /\ sums.processed \in Nat /\ sums.skipped \in Nat /\ sums.queued \in Nat
      /\ Len(statsChan) \in Nat
      /\ inHand.SkippedFiles \in {0, 1} /\ inHand.QueuedFiles \in {0, 1}
      /\ Cardinality(Ones(statsChan, "SkippedFiles")) \in Nat
      /\ Cardinality(Ones(statsChan, "QueuedFiles")) \in Nat
      /\ Sent("skipped") \in Nat /\ Sent("queued") \in Nat
      /\ reader \in {"receive", "processed", "skipped", "queued"}
  BY NumbersTyped
<1>1. CASE RunScanner
  <2>1. /\ statsChan' = <<>> /\ reader' = "receive" /\ sums' = NoSum
        /\ file' = [f \in Files |-> "ahead"]
    BY <1>1 DEF RunScanner
  <2>2. \A o : Sent(o)' = 0
    <3>1. In("done")' = {}
      BY <2>1 DEF In
    <3>2. \A o : (With(o) \cap In("done"))' = {}
      BY <3>1
    <3> QED
      BY <3>2, FS_EmptySet DEF Sent
  <2>3. \A k : Cardinality(Ones(statsChan, k))' = 0
    BY <2>1, OnesOfNone
  <2>4. Len(statsChan') = 0
    BY <2>1
  <2> QED
    BY <2>1, <2>2, <2>3, <2>4 DEF Balanced, HeldSkipped, HeldQueued, NoSum
<1>c. ~RunScanner /\ closed => closed'
  BY DEF CommandNext, MainStep, Connect, WalkOver, Stop, Summarise, ReadSum, Close,
     RunOver, PrintProgress, CountFiles, ReaderStep, Receive, AddUp, TaskStep, Visit, Take,
     LeaveOut, Process, SendStats, commandVars
<1> SUFFICES ASSUME ~closed, ~closed', ~RunScanner
             PROVE  Balanced'
  BY <1>1, <1>c DEF Balanced
<1>b. /\ sums.processed + Len(statsChan) + (IF reader = "processed" THEN 1 ELSE 0)
           = Sent("skipped") + Sent("queued")
      /\ sums.skipped + Cardinality(Ones(statsChan, "SkippedFiles")) + HeldSkipped
           = Sent("skipped")
      /\ sums.queued + Cardinality(Ones(statsChan, "QueuedFiles")) + HeldQueued
           = Sent("queued")
  BY DEF Balanced
<1>p. /\ sums.processed \in Nat /\ Len(statsChan) \in Nat
      /\ Sent("skipped") \in Nat /\ Sent("queued") \in Nat
      /\ sums.processed + Len(statsChan) + (IF reader = "processed" THEN 1 ELSE 0)
           = Sent("skipped") + Sent("queued")
  BY <1>b, <1>n
<1>k. /\ sums.skipped \in Nat /\ Sent("skipped") \in Nat
      /\ Cardinality(Ones(statsChan, "SkippedFiles")) \in Nat
      /\ sums.skipped + Cardinality(Ones(statsChan, "SkippedFiles")) + HeldSkipped
           = Sent("skipped")
  BY <1>b, <1>n
<1>e. /\ sums.queued \in Nat /\ Sent("queued") \in Nat
      /\ Cardinality(Ones(statsChan, "QueuedFiles")) \in Nat
      /\ sums.queued + Cardinality(Ones(statsChan, "QueuedFiles")) + HeldQueued
           = Sent("queued")
  BY <1>b, <1>n
<1>u. ASSUME UNCHANGED <<statsChan, reader, inHand, sums>>,
             \A o \in {"skipped", "queued"} : Sent(o)' = Sent(o)
      PROVE  Balanced'
  BY <1>u, <1>b DEF Balanced, HeldSkipped, HeldQueued
<1>2. ASSUME NEW f \in Files, Visit(f) \/ Take(f) \/ LeaveOut(f) \/ Process(f)
      PROVE  Balanced'
  <2>1. UNCHANGED <<statsChan, reader, inHand, sums>>
    BY <1>2 DEF Visit, Take, LeaveOut, Process, readerVars
  <2> QED
    BY <1>2, <1>u, <2>1, SentKept
<1>3. CASE \/ MainStep \/ PrintProgress \/ CountFiles \/ UNCHANGED commandVars
  <2>1. UNCHANGED <<statsChan, reader, inHand, sums, file, outcome>>
    BY <1>3 DEF MainStep, Connect, WalkOver, Stop, Summarise, ReadSum, Close, RunOver,
       PrintProgress, CountFiles, commandVars, readerVars, fileVars
  <2>2. \A o \in {"skipped", "queued"} : Sent(o)' = Sent(o)
    BY <2>1 DEF Sent, With, In
  <2> QED
    BY <1>u, <2>1, <2>2
<1>4. ASSUME NEW f \in Files, SendStats(f)
      PROVE  Balanced'
  <2> DEFINE v == StatsOf(outcome[f])
  <2>1. /\ statsChan' = Append(statsChan, v) /\ UNCHANGED <<reader, inHand, sums>>
        /\ outcome[f] \in {"skipped", "queued"}
    BY <1>4, SentAdded DEF SendStats, readerVars
  <2>2. /\ v \in Stats
        /\ v.SkippedFiles = IF outcome[f] = "skipped" THEN 1 ELSE 0
        /\ v.QueuedFiles = IF outcome[f] = "queued" THEN 1 ELSE 0
    BY DEF StatsOf, Stats
  <2>3. /\ Sent("skipped")' = Sent("skipped") + v.SkippedFiles
        /\ Sent("queued")' = Sent("queued") + v.QueuedFiles
    BY <1>4, <2>2, SentAdded
  <2>4. v.SkippedFiles \in Nat /\ v.QueuedFiles \in Nat
        /\ v.SkippedFiles + v.QueuedFiles = 1
    BY <2>1, <2>2
  <2> HIDE DEF v
  <2>5. Len(statsChan') = Len(statsChan) + 1
    BY <1>q, <2>1
  <2>6. /\ Cardinality(Ones(statsChan, "SkippedFiles"))'
             = Cardinality(Ones(statsChan, "SkippedFiles")) + v.SkippedFiles
        /\ Cardinality(Ones(statsChan, "QueuedFiles"))'
             = Cardinality(Ones(statsChan, "QueuedFiles")) + v.QueuedFiles
    BY <1>q, <2>1, <2>2, OnesOfAppend
  <2>7. HeldSkipped' = HeldSkipped /\ HeldQueued' = HeldQueued
        /\ HeldSkipped \in Nat /\ HeldQueued \in Nat
    BY <1>n, <2>1 DEF HeldSkipped, HeldQueued
  <2>0. /\ sums'.processed = sums.processed /\ sums'.skipped = sums.skipped
        /\ sums'.queued = sums.queued /\ reader' = reader
    BY <2>1
  <2>8. sums'.processed + Len(statsChan') + (IF reader' = "processed" THEN 1 ELSE 0)
          = Sent("skipped")' + Sent("queued")'
    <3>1. Sent("skipped")' + Sent("queued")' = Sent("skipped") + Sent("queued") + 1
      BY <1>p, <2>3, <2>4
    <3> QED
      BY <1>p, <2>0, <2>5, <3>1
  <2>9. sums'.skipped + Cardinality(Ones(statsChan, "SkippedFiles"))' + HeldSkipped'
          = Sent("skipped")'
    BY <1>k, <2>0, <2>3, <2>4, <2>6, <2>7
  <2>10. sums'.queued + Cardinality(Ones(statsChan, "QueuedFiles"))' + HeldQueued'
           = Sent("queued")'
    BY <1>e, <2>0, <2>3, <2>4, <2>6, <2>7
  <2> QED
    BY <2>8, <2>9, <2>10 DEF Balanced
<1>5. CASE Receive
  <2>1. /\ reader = "receive" /\ reader' = "processed" /\ statsChan # <<>>
        /\ inHand' = Head(statsChan) /\ statsChan' = Tail(statsChan)
        /\ UNCHANGED <<sums, file, outcome>>
    BY <1>5 DEF Receive, fileVars
  <2>2. Sent("skipped")' = Sent("skipped") /\ Sent("queued")' = Sent("queued")
    BY <2>1 DEF Sent, With, In
  <2>3. Len(statsChan') = Len(statsChan) - 1
    BY <1>q, <2>1
  <2>4. /\ Cardinality(Ones(statsChan, "SkippedFiles"))
             = Cardinality(Ones(statsChan, "SkippedFiles"))' + inHand'.SkippedFiles
        /\ Cardinality(Ones(statsChan, "QueuedFiles"))
             = Cardinality(Ones(statsChan, "QueuedFiles"))' + inHand'.QueuedFiles
    BY <1>q, <2>1, OnesOfTail
  <2>5. /\ HeldSkipped = 0 /\ HeldQueued = 0
        /\ HeldSkipped' = inHand'.SkippedFiles /\ HeldQueued' = inHand'.QueuedFiles
    BY <2>1 DEF HeldSkipped, HeldQueued
  <2>6. /\ Cardinality(Ones(statsChan, "SkippedFiles"))' \in Nat
        /\ Cardinality(Ones(statsChan, "QueuedFiles"))' \in Nat
        /\ inHand'.SkippedFiles \in Nat /\ inHand'.QueuedFiles \in Nat
    <3>1. statsChan' \in Seq(Stats) /\ inHand' \in Stats
      BY <1>t DEF TypeInv, CommandTypeOK
    <3> QED
      BY <3>1, OnesCounted DEF Stats
  <2>0. /\ sums'.processed = sums.processed /\ sums'.skipped = sums.skipped
        /\ sums'.queued = sums.queued /\ reader' = "processed" /\ reader = "receive"
    BY <2>1
  <2>7. sums'.processed + Len(statsChan') + (IF reader' = "processed" THEN 1 ELSE 0)
          = Sent("skipped")' + Sent("queued")'
    BY <1>p, <2>0, <2>2, <2>3
  <2>8. sums'.skipped + Cardinality(Ones(statsChan, "SkippedFiles"))' + HeldSkipped'
          = Sent("skipped")'
    BY <1>k, <2>0, <2>2, <2>4, <2>5, <2>6
  <2>9. sums'.queued + Cardinality(Ones(statsChan, "QueuedFiles"))' + HeldQueued'
          = Sent("queued")'
    BY <1>e, <2>0, <2>2, <2>4, <2>5, <2>6
  <2> QED
    BY <2>7, <2>8, <2>9 DEF Balanced
<1>6. CASE ReaderStep /\ ~Receive
  <2>1. UNCHANGED <<statsChan, inHand, file, outcome>>
    BY <1>6 DEF ReaderStep, AddUp, fileVars
  <2>2. Sent("skipped")' = Sent("skipped") /\ Sent("queued")' = Sent("queued")
    BY <2>1 DEF Sent, With, In
  <2>3. sums \in Sums
    BY DEF TypeInv, CommandTypeOK
  <2>0. /\ Len(statsChan') = Len(statsChan) /\ inHand' = inHand
        /\ \A k : Cardinality(Ones(statsChan, k))' = Cardinality(Ones(statsChan, k))
    BY <2>1
  <2>7. SUFFICES /\ sums'.processed + Len(statsChan) + (IF reader' = "processed" THEN 1 ELSE 0)
                      = Sent("skipped") + Sent("queued")
                 /\ sums'.skipped + Cardinality(Ones(statsChan, "SkippedFiles")) + HeldSkipped'
                      = Sent("skipped")
                 /\ sums'.queued + Cardinality(Ones(statsChan, "QueuedFiles")) + HeldQueued'
                      = Sent("queued")
    BY <2>0, <2>2 DEF Balanced
  <2>8. inHand.SkippedFiles \in Nat /\ inHand.QueuedFiles \in Nat
    BY <1>n
  <2>4. CASE /\ reader = "processed" /\ reader' = "skipped"
             /\ sums' = [sums EXCEPT !.processed = @ + 1]
    <3>1. /\ sums'.skipped = sums.skipped /\ sums'.queued = sums.queued
          /\ sums'.processed = sums.processed + 1
      BY <2>3, <2>4 DEF Sums
    <3>2. /\ HeldSkipped = inHand.SkippedFiles /\ HeldQueued = inHand.QueuedFiles
          /\ HeldSkipped' = inHand.SkippedFiles /\ HeldQueued' = inHand.QueuedFiles
      BY <2>0, <2>4 DEF HeldSkipped, HeldQueued
    <3>3. sums'.processed + Len(statsChan) + (IF reader' = "processed" THEN 1 ELSE 0)
            = Sent("skipped") + Sent("queued")
      BY <1>p, <2>4, <3>1
    <3>4. sums'.skipped + Cardinality(Ones(statsChan, "SkippedFiles")) + HeldSkipped'
            = Sent("skipped")
      BY <1>k, <2>8, <3>1, <3>2
    <3>5. sums'.queued + Cardinality(Ones(statsChan, "QueuedFiles")) + HeldQueued'
            = Sent("queued")
      BY <1>e, <2>8, <3>1, <3>2
    <3> QED
      BY <3>3, <3>4, <3>5
  <2>5. CASE /\ reader = "skipped" /\ reader' = "queued"
             /\ sums' = [sums EXCEPT !.skipped = @ + inHand.SkippedFiles]
    <3>1. /\ sums'.processed = sums.processed /\ sums'.queued = sums.queued
          /\ sums'.skipped = sums.skipped + inHand.SkippedFiles
      BY <2>3, <2>5 DEF Sums
    <3>2. /\ HeldSkipped = inHand.SkippedFiles /\ HeldQueued = inHand.QueuedFiles
          /\ HeldSkipped' = 0 /\ HeldQueued' = inHand.QueuedFiles
      BY <2>0, <2>5 DEF HeldSkipped, HeldQueued
    <3>3. sums'.processed + Len(statsChan) + (IF reader' = "processed" THEN 1 ELSE 0)
            = Sent("skipped") + Sent("queued")
      BY <1>p, <2>5, <3>1
    <3>4. sums'.skipped + Cardinality(Ones(statsChan, "SkippedFiles")) + HeldSkipped'
            = Sent("skipped")
      BY <1>k, <2>8, <3>1, <3>2
    <3>5. sums'.queued + Cardinality(Ones(statsChan, "QueuedFiles")) + HeldQueued'
            = Sent("queued")
      BY <1>e, <2>8, <3>1, <3>2
    <3> QED
      BY <3>3, <3>4, <3>5
  <2>6. CASE /\ reader = "queued" /\ reader' = "receive"
             /\ sums' = [sums EXCEPT !.queued = @ + inHand.QueuedFiles]
    <3>1. /\ sums'.processed = sums.processed /\ sums'.skipped = sums.skipped
          /\ sums'.queued = sums.queued + inHand.QueuedFiles
      BY <2>3, <2>6 DEF Sums
    <3>2. /\ HeldSkipped = 0 /\ HeldQueued = inHand.QueuedFiles
          /\ HeldSkipped' = 0 /\ HeldQueued' = 0
      BY <2>0, <2>6 DEF HeldSkipped, HeldQueued
    <3>3. sums'.processed + Len(statsChan) + (IF reader' = "processed" THEN 1 ELSE 0)
            = Sent("skipped") + Sent("queued")
      BY <1>p, <2>6, <3>1
    <3>4. sums'.skipped + Cardinality(Ones(statsChan, "SkippedFiles")) + HeldSkipped'
            = Sent("skipped")
      BY <1>k, <2>8, <3>1, <3>2
    <3>5. sums'.queued + Cardinality(Ones(statsChan, "QueuedFiles")) + HeldQueued'
            = Sent("queued")
      BY <1>e, <2>8, <3>1, <3>2
    <3> QED
      BY <3>3, <3>4, <3>5
  <2> QED
    BY <1>6, <2>4, <2>5, <2>6 DEF ReaderStep, AddUp
<1> QED
  BY <1>2, <1>3, <1>4, <1>5, <1>6 DEF CommandNext, TaskStep

(* The balance holds in every behaviour. *)
LEMMA BalanceAlways == CommandSpec => []Balanced
<1>1. CommandInit => Balanced
  <2> SUFFICES ASSUME CommandInit
               PROVE  Balanced
    OBVIOUS
  <2>1. In("done") = {}
    BY DEF CommandInit, In
  <2>2. Sent("skipped") = 0 /\ Sent("queued") = 0
    BY <2>1, FS_EmptySet DEF Sent
  <2>3. Len(statsChan) = 0 /\ reader = "receive" /\ sums = NoSum
    BY DEF CommandInit
  <2>4. \A k : Cardinality(Ones(statsChan, k)) = 0
    BY OnesOfNone DEF CommandInit
  <2> QED
    BY <2>2, <2>3, <2>4 DEF Balanced, HeldSkipped, HeldQueued, NoSum
<1> QED
  BY <1>1, BalanceStep, AlwaysTyped, PTL DEF CommandSpec

(* What the tasks send about their files is in the channel, in the reader's hand
   or in the sums, each value once, until the channel is closed. *)
THEOREM StatsAreNeverLost == CommandSpec => []StatsAreAdded
<1>1. TypeInv /\ Balanced => StatsAreAdded
  <2> SUFFICES ASSUME TypeInv, Balanced
               PROVE  StatsAreAdded
    OBVIOUS
  <2>1. reader \in {"receive", "processed", "skipped", "queued"}
    BY NumbersTyped
  <2>2. HeldQueued = IF reader \in {"processed", "skipped", "queued"}
                       THEN inHand.QueuedFiles ELSE 0
    BY <2>1 DEF HeldQueued
  <2> QED
    BY <2>2 DEF Balanced, StatsAreAdded, Sent, Ones, HeldSkipped
<1> QED
  BY <1>1, AlwaysTyped, BalanceAlways, PTL

-----------------------------------------------------------------------------
(* The sums that are printed are those of files that were handed to Process;
   the channel and the reader's hand hold the rest. *)
SummaryKept ==
  /\ phase \in {"print skipped", "print queued", "summed"} =>
       summary.processed \in
         ((Cardinality(With("skipped")) + Cardinality(With("queued"))) - StatsSize - 1)
           ..(Cardinality(With("skipped")) + Cardinality(With("queued")))
  /\ phase \in {"print queued", "summed"} =>
       summary.skipped <= Cardinality(With("skipped"))
  /\ phase = "summed" => summary.queued <= Cardinality(With("queued"))

(* When no task runs, the statistics of all the files have been sent. *)
LEMMA AllSent ==
  ASSUME TypeInv, phase \in Printing, NEW o \in {"skipped", "queued"}
  PROVE  Sent(o) = Cardinality(With(o))
<1>1. \A f \in Files : outcome[f] = o => file[f] = "done"
  BY DEF TypeInv, CommandTypeOK, Places, NoneActive, Active, Running, In
<1>2. With(o) \cap In("done") = With(o)
  BY <1>1 DEF With, In
<1> QED
  BY <1>2 DEF Sent

(* No step makes a printed sum untrue. *)
LEMMA SummaryStep ==
  ASSUME TypeInv, Balanced, SummaryKept, [CommandNext]_commandVars
  PROVE  SummaryKept'
<1>a. NoneActive /\ \A f : f \in Active <=>
                       f \in Files /\ file[f] \in {"submitted", "open", "sending"}
  BY DEF TypeInv, CommandTypeOK, Active, Running, In
<1>p. phase \in {"idle", "connecting", "scanning", "stopping"} \cup Printing
  BY DEF TypeInv, CommandTypeOK, Printing
<1>1. ASSUME NEW f \in Files, Visit(f) \/ TaskStep(f)
      PROVE  SummaryKept'
  <2>1. phase' = phase /\ (f \in Active \/ phase = "scanning")
    BY <1>a, <1>1 DEF Visit, TaskStep, Take, LeaveOut, Process, SendStats
  <2>2. phase' \notin Printing
    BY <1>a, <2>1 DEF NoneActive, Printing
  <2> QED
    BY <2>2 DEF SummaryKept, Printing
<1>2. CASE RunScanner \/ Connect \/ WalkOver \/ Stop \/ RunOver
  <2>1. phase' \in {"idle", "connecting", "scanning", "stopping", "scanned"}
    BY <1>2 DEF RunScanner, Connect, WalkOver, Stop, RunOver
  <2> QED
    BY <2>1 DEF SummaryKept
<1>3. CASE \/ Close \/ PrintProgress \/ CountFiles \/ ReaderStep \/ UNCHANGED commandVars
  <2>1. UNCHANGED <<phase, summary, outcome>>
    BY <1>3 DEF Close, PrintProgress, CountFiles, ReaderStep, Receive, AddUp, commandVars,
       fileVars
  <2> QED
    BY <2>1 DEF SummaryKept, With
<1>4. CASE Summarise
  <2> DEFINE skipped == Cardinality(With("skipped"))
             queued  == Cardinality(With("queued"))
  <2>1. phase \in Printing /\ ~closed /\ UNCHANGED outcome
    BY <1>4, <1>a DEF Summarise, ReadSum, NoneActive, Printing, fileVars
  <2>2. Sent("skipped") = skipped /\ Sent("queued") = queued
    BY <2>1, AllSent
  <2>3. skipped' = skipped /\ queued' = queued
    BY <2>1 DEF With
  <2>4. /\ sums.processed + Len(statsChan) + (IF reader = "processed" THEN 1 ELSE 0)
             = skipped + queued
        /\ sums.skipped + Cardinality(Ones(statsChan, "SkippedFiles")) + HeldSkipped
             = skipped
        /\ sums.queued + Cardinality(Ones(statsChan, "QueuedFiles")) + HeldQueued
             = queued
    BY <2>1, <2>2 DEF Balanced
  <2>5. /\ skipped \in Nat /\ queued \in Nat
        /\ sums.processed \in Nat /\ sums.skipped \in Nat /\ sums.queued \in Nat
        /\ Len(statsChan) \in 0..StatsSize /\ StatsSize \in Nat
        /\ Cardinality(Ones(statsChan, "SkippedFiles")) \in Nat
        /\ Cardinality(Ones(statsChan, "QueuedFiles")) \in Nat
        /\ inHand.SkippedFiles \in {0, 1} /\ inHand.QueuedFiles \in {0, 1}
    BY NumbersTyped
  <2>6. HeldSkipped \in Nat /\ HeldQueued \in Nat
    BY <2>5 DEF HeldSkipped, HeldQueued
  <2>11. /\ phase \in {"print skipped", "print queued", "summed"} =>
              summary.processed \in ((skipped + queued) - StatsSize - 1)..(skipped + queued)
         /\ phase \in {"print queued", "summed"} => summary.skipped <= skipped
    BY DEF SummaryKept
  <2> HIDE DEF skipped, queued
  <2>7. sums.processed \in ((skipped + queued) - StatsSize - 1)..(skipped + queued)
    BY <2>4, <2>5
  <2>8. sums.skipped <= skipped
    BY <2>4, <2>5, <2>6
  <2>9. sums.queued <= queued
    BY <2>4, <2>5, <2>6
  <2>10. summary \in Sums
    BY DEF TypeInv, CommandTypeOK
  <2>12. /\ phase' \in {"print skipped", "print queued", "summed"} =>
              summary'.processed \in ((skipped + queued) - StatsSize - 1)..(skipped + queued)
         /\ phase' \in {"print queued", "summed"} => summary'.skipped <= skipped
         /\ phase' = "summed" => summary'.queued <= queued
    <3>1. CASE ReadSum("scanned", "print skipped",
                       [summary EXCEPT !.processed = sums.processed])
      <4>1. summary'.processed = sums.processed /\ phase' = "print skipped"
        BY <2>10, <3>1 DEF ReadSum, Sums
      <4> QED
        BY <2>7, <4>1
    <3>2. CASE ReadSum("print skipped", "print queued",
                       [summary EXCEPT !.skipped = sums.skipped])
      <4>1. /\ summary'.processed = summary.processed /\ summary'.skipped = sums.skipped
            /\ phase = "print skipped" /\ phase' = "print queued"
        BY <2>10, <3>2 DEF ReadSum, Sums
      <4> QED
        BY <2>8, <2>11, <4>1
    <3>3. CASE ReadSum("print queued", "summed", [summary EXCEPT !.queued = sums.queued])
      <4>1. /\ summary'.processed = summary.processed
            /\ summary'.skipped = summary.skipped /\ summary'.queued = sums.queued
            /\ phase = "print queued" /\ phase' = "summed"
        BY <2>10, <3>3 DEF ReadSum, Sums
      <4> QED
        BY <2>9, <2>11, <4>1
    <3> QED
      BY <1>4, <3>1, <3>2, <3>3 DEF Summarise
  <2> QED
    BY <2>3, <2>12 DEF SummaryKept, skipped, queued
<1> QED
  BY <1>1, <1>2, <1>3, <1>4 DEF CommandNext, MainStep

(* Although the sums are printed while the reader may be behind, they count only
   files that were handed to Process, and leave out no more of them than the
   channel and the reader's hand can hold. *)
THEOREM SummaryIsTruthful == CommandSpec => []SummaryTruthful
<1>1. CommandInit => SummaryKept
  BY DEF CommandInit, SummaryKept
<1>2. SummaryKept => SummaryTruthful
  <2> DEFINE skipped == Cardinality(With("skipped"))
             queued  == Cardinality(With("queued"))
  <2> SUFFICES ASSUME SummaryKept, phase = "summed"
               PROVE  /\ summary.processed
                           \in ((skipped + queued) - StatsSize - 1)..(skipped + queued)
                      /\ summary.skipped <= skipped
                      /\ summary.queued <= queued
    BY Zenon DEF SummaryTruthful
  <2> QED
    BY DEF SummaryKept
<1> QED
  BY <1>1, <1>2, SummaryStep, AlwaysTyped, BalanceAlways, PTL DEF CommandSpec
==============================================================================
