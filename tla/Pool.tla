--------------------------------- MODULE Pool ---------------------------------
(***************************************************************************)
(* The worker pool of the scanner (internal/pool/pool.go): a buffered      *)
(* channel of tasks, workers that take from it until it is closed and      *)
(* empty, and Stop, which closes it and waits for the workers.  One        *)
(* goroutine, the directory walk, submits every task and then stops the    *)
(* pool; a Submit blocks while the channel is full.                        *)
(***************************************************************************)
EXTENDS Integers, Sequences, FiniteSets

CONSTANTS
  Tasks,
  Cancels,     \* tasks that return context.Canceled, which ends the worker
  Workers,     \* goroutines there may be
  NumWorkers,  \* goroutines one call of Start creates
  Starts,      \* calls of Start before the first Submit
  Capacity,    \* of the channel: 1000 in the code
  NotStarted, Idle, Exited  \* what a goroutine does when it runs no task

ASSUME PoolAssumption ==
  /\ Cancels \subseteq Tasks
  /\ NumWorkers \in Nat \ {0}
  /\ Starts \in Nat \ {0}
  /\ Capacity \in Nat \ {0}
  /\ Tasks \cap {NotStarted, Idle, Exited} = {}
  /\ NotStarted # Idle /\ Idle # Exited /\ Exited # NotStarted

VARIABLES
  queue,      \* p.Tasks
  closed,     \* p.Tasks is closed
  worker,     \* what every goroutine does: a task, or one of the above
  starts,     \* calls of Start so far
  submitted,  \* the tasks handed to Submit
  finished,   \* the tasks whose function has returned
  stopped     \* Stop has returned

poolVars == <<queue, closed, worker, starts, submitted, finished, stopped>>

-----------------------------------------------------------------------------
Unstarted == {w \in Workers : worker[w] = NotStarted}
Busy      == {w \in Workers : worker[w] \in Tasks}
Started   == starts = Starts

PoolTypeOK ==
  /\ queue \in Seq(Tasks) /\ Len(queue) <= Capacity
  /\ closed \in BOOLEAN /\ stopped \in BOOLEAN
  /\ worker \in [Workers -> Tasks \cup {NotStarted, Idle, Exited}]
  /\ starts \in 0..Starts
  /\ submitted \subseteq Tasks /\ finished \subseteq submitted

PoolInit ==
  /\ queue = <<>> /\ closed = FALSE /\ stopped = FALSE
  /\ worker = [w \in Workers |-> NotStarted]
  /\ starts = 0
  /\ submitted = {} /\ finished = {}

(* Start: NumWorkers more goroutines, however often it is called. *)
StartWorkers ==
  /\ starts < Starts
  /\ starts' = starts + 1
  /\ \E W \in SUBSET Unstarted :
       /\ Cardinality(W) = NumWorkers
       /\ worker' = [w \in Workers |-> IF w \in W THEN Idle ELSE worker[w]]
  /\ UNCHANGED <<queue, closed, submitted, finished, stopped>>

(* Mutant of Room: a full channel takes one more. *)
RoomForOneMore == Len(queue) <= Capacity

Room == Len(queue) < Capacity

(* Mutant of Submit: a full channel drops the task instead of waiting. *)
DropWhenFull(t) ==
  /\ Started /\ ~closed
  /\ t \notin submitted
  /\ queue' = IF Room THEN Append(queue, t) ELSE queue
  /\ submitted' = submitted \cup {t}
  /\ UNCHANGED <<closed, worker, starts, finished, stopped>>

(* Submit: p.Tasks <- t *)
Submit(t) ==
  /\ Started /\ ~closed
  /\ t \notin submitted
  /\ Room
  /\ queue' = Append(queue, t)
  /\ submitted' = submitted \cup {t}
  /\ UNCHANGED <<closed, worker, starts, finished, stopped>>

(* task := <-p.Tasks *)
Take(w) ==
  /\ worker[w] = Idle /\ queue # <<>>
  /\ worker' = [worker EXCEPT ![w] = Head(queue)]
  /\ queue' = Tail(queue)
  /\ UNCHANGED <<closed, starts, submitted, finished, stopped>>

(* The task's function returns nil, or an error that is only logged. *)
FinishTask(w) ==
  /\ w \in Busy /\ worker[w] \notin Cancels
  /\ finished' = finished \cup {worker[w]}
  /\ worker' = [worker EXCEPT ![w] = Idle]
  /\ UNCHANGED <<queue, closed, starts, submitted, stopped>>

(* It returns context.Canceled: so does the worker. *)
CancelTask(w) ==
  /\ w \in Busy /\ worker[w] \in Cancels
  /\ finished' = finished \cup {worker[w]}
  /\ worker' = [worker EXCEPT ![w] = Exited]
  /\ UNCHANGED <<queue, closed, starts, submitted, stopped>>

(* Mutants of Drained: a worker leaves as soon as the channel is closed; an
   empty channel already ends it; the zero Task does not. *)
ClosedOnly   == closed
EmptyOnly    == queue = <<>>
NeverDrained == FALSE

(* A receive yields the zero Task, whose ID is 0, only when the channel is
   closed and nothing is left in it. *)
Drained == closed /\ queue = <<>>

ExitOnClose(w) ==
  /\ worker[w] = Idle /\ Drained
  /\ worker' = [worker EXCEPT ![w] = Exited]
  /\ UNCHANGED <<queue, closed, starts, submitted, finished, stopped>>

(* Stop: close(p.Tasks) *)
Close ==
  /\ Started /\ ~closed
  /\ closed' = TRUE
  /\ UNCHANGED <<queue, worker, starts, submitted, finished, stopped>>

(* WorkerGroup: every goroutine that was started has returned. *)
AllDone == \A w \in Workers : worker[w] \in {NotStarted, Exited}

(* Stop: p.WorkerGroup.Wait() returns. *)
StopReturn ==
  /\ closed /\ ~stopped /\ AllDone
  /\ stopped' = TRUE
  /\ UNCHANGED <<queue, closed, worker, starts, submitted, finished>>

WorkerStep(w) ==
  Take(w) \/ FinishTask(w) \/ CancelTask(w) \/ ExitOnClose(w)

PoolNext ==
  \/ StartWorkers
  \/ \E t \in Tasks : Submit(t)
  \/ \E w \in Workers : WorkerStep(w)
  \/ Close
  \/ StopReturn

PoolSpec == PoolInit /\ [][PoolNext]_poolVars

(* A goroutine that can run does; the functions of the tasks return; and the
   goroutine that owns the pool does not stop in the middle. *)
PoolFairness ==
  /\ WF_poolVars(StartWorkers)
  /\ WF_poolVars(\E t \in Tasks : Submit(t))
  /\ \A w \in Workers : WF_poolVars(WorkerStep(w))
  /\ WF_poolVars(StopReturn)

FairPoolSpec == PoolSpec /\ PoolFairness

-----------------------------------------------------------------------------
(* When Stop returns, every task that was submitted has run to its end: none
   is left in the channel and none is running still. *)
StopDrains == stopped => queue = <<>> /\ finished = submitted

(* A task is in one place only, the channel or one worker, until it is
   finished: it is never run twice and never lost between the two. *)
OnePlace ==
  \A t \in submitted :
    LET waiting == {i \in DOMAIN queue : queue[i] = t}
        doing   == {w \in Workers : worker[w] = t}
    IN Cardinality(waiting) + Cardinality(doing) =
         IF t \in finished THEN 0 ELSE 1

(* Stop returns once it is called, and until then no Submit blocks for ever,
   unless the tasks cancel every worker. *)
StopReturns == closed ~> stopped
SubmitsEnd == <>(submitted = Tasks \/ closed)
=============================================================================
