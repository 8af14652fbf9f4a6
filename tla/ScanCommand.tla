------------------------------ MODULE ScanCommand ------------------------------
(***************************************************************************)
(* What surrounds a scan in the process of `hashup scan` (src/scanner.go,  *)
(* internal/processors/nats): runScanner starts the directory scanner in a *)
(* goroutine of its own, another one receives the progress of the walk     *)
(* from an unbuffered channel, a third one adds up the statistics that     *)
(* every publication sends through a buffered channel, and the main one    *)
(* waits for the scan, prints the sums and closes the processor and its    *)
(* channel.  With --every it does so again at the next tick.               *)
(*                                                                         *)
(* The walk and the tasks themselves are the module Scanner.               *)
(***************************************************************************)
EXTENDS Integers, Sequences, FiniteSets

CONSTANTS
  Files,       \* that the walk may meet
  NumWorkers,  \* of the pool
  StatsSize,   \* of the channel of statistics: 1000 in the code
  MaxRuns,     \* model bound: ticks of --every
  MaxZeros     \* model bound: zero values read from the closed channel

ASSUME CommandAssumption ==
  /\ IsFiniteSet(Files)
  /\ NumWorkers \in Nat \ {0}
  /\ StatsSize \in Nat \ {0}
  /\ MaxRuns \in Nat
  /\ MaxZeros \in Nat

VARIABLES
  runs,      \* runs of runScanner so far
  phase,     \* of the current one
  file,      \* where every file is
  outcome,   \* what Process did with it
  progress,  \* the goroutine that receives from the counter channel...
  pCounter,  \* ...and its count of the entries the walk has met
  fileCount, \* the entries FileCounter has counted: 0 until it is through
  statsChan, \* the buffered channel
  closed,    \* it is closed
  reader,    \* the goroutine that receives from it: its next assignment...
  inHand,    \* ...and the value it has received
  sums,      \* processedFiles, skippedFiles, queuedFiles
  summary    \* the sums that were printed

fileVars    == <<file, outcome>>
walkVars    == <<progress, pCounter, fileCount>>
readerVars  == <<reader, inHand, sums>>
commandVars == <<runs, phase, fileVars, walkVars, statsChan, closed, readerVars,
                 summary>>

-----------------------------------------------------------------------------
Stats == [SkippedFiles : 0..1, QueuedFiles : 0..1]
Zero  == [SkippedFiles |-> 0, QueuedFiles |-> 0]
Sums  == [processed : Nat, skipped : Nat, queued : Nat]
NoSum == [processed |-> 0, skipped |-> 0, queued |-> 0]

With(o)   == {f \in Files : outcome[f] = o}
In(place) == {f \in Files : file[f] = place}
Running   == In("open") \cup In("sending")

CommandTypeOK ==
  /\ runs \in 0..MaxRuns
  /\ phase \in {"idle", "connecting", "scanning", "stopping", "scanned",
               "print skipped", "print queued", "summed"}
  /\ file \in [Files -> {"ahead", "submitted", "open", "sending", "done"}]
  /\ outcome \in [Files -> {"none", "present", "skipped", "queued"}]
  /\ progress \in {"receive", "print"}
  /\ pCounter \in 0..Cardinality(Files) /\ fileCount \in 0..Cardinality(Files)
  /\ statsChan \in Seq(Stats) /\ Len(statsChan) <= StatsSize
  /\ closed \in BOOLEAN
  /\ reader \in {"receive", "processed", "skipped", "queued"}
  /\ inHand \in Stats
  /\ sums \in Sums /\ summary \in Sums

CommandInit ==
  /\ runs = 0 /\ phase = "idle"
  /\ file = [f \in Files |-> "ahead"] /\ outcome = [f \in Files |-> "none"]
  /\ progress = "receive" /\ pCounter = 0 /\ fileCount = 0
  /\ statsChan = <<>> /\ closed = FALSE
  /\ reader = "receive" /\ inHand = Zero
  /\ sums = NoSum /\ summary = NoSum

-----------------------------------------------------------------------------
(* The command, or a tick of runEvery: runScanner makes the scanner, whose
   pool starts at once, the channels and the goroutines that read them. *)
RunScanner ==
  /\ phase = "idle" /\ runs < MaxRuns
  /\ runs' = runs + 1
  /\ phase' = "connecting"
  /\ file' = [f \in Files |-> "ahead"] /\ outcome' = [f \in Files |-> "none"]
  /\ progress' = "receive" /\ pCounter' = 0 /\ fileCount' = 0
  /\ statsChan' = <<>> /\ closed' = FALSE
  /\ reader' = "receive" /\ inHand' = Zero
  /\ sums' = NoSum /\ summary' = NoSum

(* NewNATSProcessor; after an error runScanner returns, and runEvery logs it
   and waits for the next tick. *)
Connect ==
  /\ phase = "connecting"
  /\ phase' \in {"scanning", "idle"}
  /\ UNCHANGED <<runs, fileVars, walkVars, statsChan, closed, readerVars, summary>>

(* The walk's callback: incCounter waits for the goroutine that prints the
   progress, then the file is submitted to the pool. *)
Visit(f) ==
  /\ phase = "scanning" /\ file[f] = "ahead"
  /\ progress = "receive"
  /\ progress' = "print"
  /\ file' = [file EXCEPT ![f] = "submitted"]
  /\ UNCHANGED <<runs, phase, outcome, pCounter, fileCount, statsChan, closed,
                 readerVars, summary>>

(* The goroutine adds one and prints the percentage. *)
PrintProgress ==
  /\ progress = "print"
  /\ pCounter' = pCounter + 1
  /\ progress' = "receive"
  /\ UNCHANGED <<runs, phase, fileVars, fileCount, statsChan, closed, readerVars,
                 summary>>

(* Mutant of Counted: only what has been submitted so far. *)
CountedSoFar == Cardinality(Files \ In("ahead"))

(* FileCounter walks the whole tree, also what the scan skips. *)
Counted == Cardinality(Files)

(* Its result arrives at any time, and is read without a lock. *)
CountFiles ==
  /\ phase # "idle" /\ fileCount = 0
  /\ fileCount' = Counted
  /\ UNCHANGED <<runs, phase, fileVars, progress, pCounter, statsChan, closed,
                 readerVars, summary>>

(* The walk is over: files it did not meet are not there, or it ended with an
   error.  The deferred function of ScanDirectory calls Stop. *)
WalkOver ==
  /\ phase = "scanning"
  /\ phase' = "stopping"
  /\ UNCHANGED <<runs, fileVars, walkVars, statsChan, closed, readerVars, summary>>

(* A worker takes the task of a file. *)
Take(f) ==
  /\ file[f] = "submitted" /\ Cardinality(Running) < NumWorkers
  /\ file' = [file EXCEPT ![f] = "open"]
  /\ UNCHANGED <<runs, phase, outcome, walkVars, statsChan, closed, readerVars,
                 summary>>

(* The cache knows the file, or it cannot be read: Process is not called. *)
LeaveOut(f) ==
  /\ file[f] = "open"
  /\ file' = [file EXCEPT ![f] = "done"]
  /\ outcome' = [outcome EXCEPT ![f] = "present"]
  /\ UNCHANGED <<runs, phase, walkVars, statsChan, closed, readerVars, summary>>

(* natsProcessor.Process: the message is published, or one of the steps
   towards that fails. *)
Process(f) ==
  /\ file[f] = "open"
  /\ file' = [file EXCEPT ![f] = "sending"]
  /\ \E o \in {"queued", "skipped"} : outcome' = [outcome EXCEPT ![f] = o]
  /\ UNCHANGED <<runs, phase, walkVars, statsChan, closed, readerVars, summary>>

(* Mutant of StatsOf: SkippedFiles keeps its initial 1 after a success. *)
KeepsSkipped(o) ==
  [SkippedFiles |-> 1, QueuedFiles |-> IF o = "queued" THEN 1 ELSE 0]

(* What the deferred function of Process sends. *)
StatsOf(o) ==
  [SkippedFiles |-> IF o = "skipped" THEN 1 ELSE 0,
   QueuedFiles  |-> IF o = "queued" THEN 1 ELSE 0]

(* Mutant of StatsRoom: one value more than the channel is made for. *)
StatsRoomPlus == Len(statsChan) <= StatsSize

StatsRoom == Len(statsChan) < StatsSize

(* np.statsChan <- stats, which waits while the channel is full. *)
SendStats(f) ==
  /\ file[f] = "sending" /\ ~closed /\ StatsRoom
  /\ statsChan' = Append(statsChan, StatsOf(outcome[f]))
  /\ file' = [file EXCEPT ![f] = "done"]
  /\ UNCHANGED <<runs, phase, outcome, walkVars, closed, readerVars, summary>>

(* Mutant of TasksOver: Stop does not wait for the tasks that run. *)
NoneSubmitted == In("submitted") = {}

(* Stop returns: every task has run to its end (StopDrains of Pool). *)
TasksOver == In("submitted") \cup Running = {}

Stop ==
  /\ phase = "stopping" /\ TasksOver
  /\ phase' = "scanned"
  /\ UNCHANGED <<runs, fileVars, walkVars, statsChan, closed, readerVars, summary>>

(* Mutant of MayClose: Close is called as soon as the scan is over. *)
ClosedEarly == phase \in {"scanned", "summed"}

MayClose == phase = "summed"

(* The main goroutine receives from done and prints the sums, which it reads
   one after the other while the reader may be adding to them. *)
ReadSum(at, next, to) ==
  /\ phase = at
  /\ phase' = next
  /\ summary' = to
  /\ UNCHANGED <<runs, fileVars, walkVars, statsChan, closed, readerVars>>

Summarise ==
  \/ ReadSum("scanned", "print skipped", [summary EXCEPT !.processed = sums.processed])
  \/ ReadSum("print skipped", "print queued", [summary EXCEPT !.skipped = sums.skipped])
  \/ ReadSum("print queued", "summed", [summary EXCEPT !.queued = sums.queued])

(* The deferred processor.Close: close(np.statsChan). *)
Close ==
  /\ MayClose /\ ~closed
  /\ closed' = TRUE
  /\ UNCHANGED <<runs, phase, fileVars, walkVars, statsChan, readerVars, summary>>

(* runScanner has returned. *)
RunOver ==
  /\ phase = "summed" /\ closed
  /\ phase' = "idle"
  /\ UNCHANGED <<runs, fileVars, walkVars, statsChan, closed, readerVars, summary>>

-----------------------------------------------------------------------------
(* Mutant of Reading: the goroutine leaves when the walk does. *)
ReadsDuringWalk == phase = "scanning"

(* The goroutine that reads the statistics is in its loop: nothing ends it
   but the context of the command. *)
Reading == TRUE

(* stats := <-statsChan *)
Receive ==
  /\ Reading /\ reader = "receive"
  /\ \/ /\ statsChan # <<>>
        /\ inHand' = Head(statsChan)
        /\ statsChan' = Tail(statsChan)
     \/ \* a closed channel yields zero values, again and again
        /\ statsChan = <<>> /\ closed
        /\ sums.processed < Cardinality(Files) + MaxZeros
        /\ inHand' = Zero
        /\ UNCHANGED statsChan
  /\ reader' = "processed"
  /\ UNCHANGED <<runs, phase, fileVars, walkVars, closed, sums, summary>>

(* Its three assignments, which no lock groups. *)
AddUp(at, next, to) ==
  /\ reader = at
  /\ reader' = next
  /\ sums' = to
  /\ UNCHANGED <<runs, phase, fileVars, walkVars, statsChan, closed, inHand,
                 summary>>

ReaderStep ==
  \/ Receive
  \/ AddUp("processed", "skipped", [sums EXCEPT !.processed = @ + 1])
  \/ AddUp("skipped", "queued", [sums EXCEPT !.skipped = @ + inHand.SkippedFiles])
  \/ AddUp("queued", "receive", [sums EXCEPT !.queued = @ + inHand.QueuedFiles])

-----------------------------------------------------------------------------
TaskStep(f) == Take(f) \/ LeaveOut(f) \/ Process(f) \/ SendStats(f)
MainStep    == Connect \/ WalkOver \/ Stop \/ Summarise \/ Close \/ RunOver

CommandNext ==
  \/ RunScanner
  \/ MainStep
  \/ \E f \in Files : Visit(f) \/ TaskStep(f)
  \/ PrintProgress \/ CountFiles
  \/ ReaderStep

CommandSpec == CommandInit /\ [][CommandNext]_commandVars

(* Goroutines that can run do, and a call of PublishMsg returns.  Which files
   the walk meets is not said. *)
FairCommandSpec ==
  /\ CommandSpec
  /\ WF_commandVars(MainStep)
  /\ \A f \in Files : WF_commandVars(TaskStep(f))
  /\ WF_commandVars(PrintProgress)
  /\ WF_commandVars(ReaderStep)

-----------------------------------------------------------------------------
(* No publication sends its statistics through the channel after Close has
   closed it, which would be a panic: the tasks are over when the scan is. *)
NoSendOnClosed == closed => In("submitted") \cup Running = {}

(* The values that were sent are in the channel, in the reader's hand or in
   the sums, each once, until the channel is closed: a file counts as skipped
   or as queued and never as both. *)
StatsAreAdded ==
  LET sent(o)  == Cardinality(With(o) \cap In("done"))
      left(k)  == Cardinality({i \in DOMAIN statsChan : statsChan[i][k] = 1})
      held(at) == reader \in at
  IN ~closed =>
       /\ sums.skipped + left("SkippedFiles")
            + (IF held({"processed", "skipped"}) THEN inHand.SkippedFiles ELSE 0)
          = sent("skipped")
       /\ sums.queued + left("QueuedFiles")
            + (IF held({"processed", "skipped", "queued"})
                 THEN inHand.QueuedFiles ELSE 0)
          = sent("queued")

(* The summary is printed while the reader may still be behind.  It never
   counts a file that was not handed to Process, and what it leaves out is no
   more than the channel and the reader's hand can hold. *)
SummaryTruthful ==
  phase = "summed" =>
    LET handled == Cardinality(With("skipped")) + Cardinality(With("queued"))
    IN /\ summary.processed \in (handled - StatsSize - 1)..handled
       /\ summary.skipped <= Cardinality(With("skipped"))
       /\ summary.queued <= Cardinality(With("queued"))

(* The progress that is printed never exceeds the number of entries it is
   compared with, whenever that arrives: two walks of the tree, by two
   goroutines, count it in different ways. *)
ProgressBelowCount == fileCount # 0 => pCounter <= fileCount

(* Every run returns, and the next tick finds the command ready: no task waits
   for ever on the channel of statistics, nor the scan on its tasks. *)
RunReturns == (phase # "idle") ~> (phase = "idle")
=============================================================================
