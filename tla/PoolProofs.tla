------------------------------ MODULE PoolProofs ------------------------------
(***************************************************************************)
(* What holds of the worker pool for every number of workers, tasks and    *)
(* calls of Start and every capacity of the channel.                       *)
(***************************************************************************)
EXTENDS Pool, FiniteSetTheorems, TLAPS

USE PoolAssumption DEF PoolAssumption

Waiting(t) == \E i \in DOMAIN queue : queue[i] = t
Doing(t)   == \E w \in Workers : worker[w] = t

(* Nothing is in the channel or with a worker that was not submitted. *)
OnlySubmitted ==
  \A t \in Tasks : Waiting(t) \/ Doing(t) => t \in submitted

(* Nothing that was submitted is lost on its way. *)
NoneLost ==
  \A t \in submitted \ finished : Waiting(t) \/ Doing(t)

(* Nothing is in two places, and what has finished is in none. *)
Apart ==
  /\ \A i, j \in DOMAIN queue : queue[i] = queue[j] => i = j
  /\ \A t \in Tasks : ~(Waiting(t) /\ Doing(t))
  /\ \A v, w \in Workers : worker[v] = worker[w] /\ worker[v] \in Tasks => v = w
  /\ \A t \in finished : ~Waiting(t) /\ ~Doing(t)

(* No worker leaves while there may be work, and Stop waits for one that was
   there at all. *)
WorkersStay ==
  /\ \A w \in Workers : worker[w] = Exited => Drained
  /\ starts > 0 => \E w \in Workers : worker[w] # NotStarted
  /\ closed => Started
  /\ stopped => closed /\ AllDone

(* What is in a channel after a send and after a receive. *)
LEMMA SendAndReceive ==
  ASSUME NEW q \in Seq(Tasks), NEW t \in Tasks
  PROVE  /\ Append(q, t) \in Seq(Tasks)
         /\ Len(Append(q, t)) = Len(q) + 1
         /\ \A u \in Tasks :
              (\E i \in DOMAIN Append(q, t) : Append(q, t)[i] = u)
                <=> (u = t \/ \E i \in DOMAIN q : q[i] = u)
         /\ q # <<>> =>
              /\ Head(q) \in Tasks
              /\ Tail(q) \in Seq(Tasks)
              /\ Len(Tail(q)) = Len(q) - 1
              /\ \A u \in Tasks :
                   (\E i \in DOMAIN q : q[i] = u)
                     <=> (u = Head(q) \/ \E i \in DOMAIN Tail(q) : Tail(q)[i] = u)
<1>1. /\ Append(q, t) \in Seq(Tasks)
      /\ Len(Append(q, t)) = Len(q) + 1
  OBVIOUS
<1>2. ASSUME NEW u \in Tasks
      PROVE  (\E i \in DOMAIN Append(q, t) : Append(q, t)[i] = u)
               <=> (u = t \/ \E i \in DOMAIN q : q[i] = u)
  <2>1. /\ DOMAIN q = 1..Len(q) /\ Len(q) \in Nat
        /\ DOMAIN Append(q, t) = 1..(Len(q) + 1)
    OBVIOUS
  <2>2. \A i \in 1..(Len(q) + 1) :
          Append(q, t)[i] = IF i = Len(q) + 1 THEN t ELSE q[i]
    OBVIOUS
  <2> QED
    BY <2>1, <2>2
<1>3. ASSUME q # <<>>
      PROVE  /\ Head(q) \in Tasks
             /\ Tail(q) \in Seq(Tasks)
             /\ Len(Tail(q)) = Len(q) - 1
             /\ \A u \in Tasks :
                  (\E i \in DOMAIN q : q[i] = u)
                    <=> (u = Head(q) \/ \E i \in DOMAIN Tail(q) : Tail(q)[i] = u)
  <2>1. /\ Head(q) \in Tasks /\ Tail(q) \in Seq(Tasks)
        /\ Len(Tail(q)) = Len(q) - 1 /\ Len(q) \in Nat \ {0}
        /\ DOMAIN q = 1..Len(q) /\ DOMAIN Tail(q) = 1..(Len(q) - 1)
        /\ Head(q) = q[1]
    BY <1>3
  <2>2. \A i \in 1..(Len(q) - 1) : Tail(q)[i] = q[i + 1]
    BY <1>3
  <2>3. ASSUME NEW u \in Tasks, NEW i \in DOMAIN q, q[i] = u, u # Head(q)
        PROVE  \E j \in DOMAIN Tail(q) : Tail(q)[j] = u
    <3>1. i - 1 \in 1..(Len(q) - 1) /\ Tail(q)[i - 1] = q[i]
      BY <2>1, <2>2, <2>3
    <3> QED
      BY <2>1, <2>3, <3>1
  <2>4. ASSUME NEW j \in DOMAIN Tail(q)
        PROVE  j + 1 \in DOMAIN q /\ q[j + 1] = Tail(q)[j]
    BY <2>1, <2>2, <2>4
  <2>5. 1 \in DOMAIN q /\ q[1] = Head(q)
    BY <2>1
  <2> QED
    BY <2>1, <2>3, <2>4, <2>5
<1> QED
  BY <1>1, <1>2, <1>3

-----------------------------------------------------------------------------
(* A step of the pool keeps both. *)
LEMMA PoolTypeStep ==
  ASSUME PoolTypeOK, OnlySubmitted, [PoolNext]_poolVars
  PROVE  PoolTypeOK' /\ OnlySubmitted'
<1> USE DEF PoolTypeOK
<1>1. CASE UNCHANGED poolVars
  BY <1>1 DEF poolVars, OnlySubmitted, Waiting, Doing
<1>2. CASE StartWorkers
  <2>1. PoolTypeOK'
    BY <1>2 DEF StartWorkers
  <2>2. \A t \in Tasks : Doing(t)' => Doing(t)
    BY <1>2 DEF StartWorkers, Doing
  <2> QED
    BY <1>2, <2>1, <2>2 DEF StartWorkers, OnlySubmitted, Waiting
<1>3. ASSUME NEW t \in Tasks, Submit(t)
      PROVE  PoolTypeOK' /\ OnlySubmitted'
  <2>1. /\ queue' = Append(queue, t) /\ Len(queue) < Capacity
        /\ submitted' = submitted \cup {t}
        /\ UNCHANGED <<closed, worker, starts, finished, stopped>>
    BY <1>3 DEF Submit, Room
  <2>2. PoolTypeOK'
    <3>1. queue' \in Seq(Tasks) /\ Len(queue') = Len(queue) + 1
      BY <2>1, SendAndReceive
    <3>2. Len(queue) \in Nat
      OBVIOUS
    <3> QED
      BY <2>1, <3>1, <3>2
  <2>3. OnlySubmitted'
    BY <2>1, SendAndReceive DEF OnlySubmitted, Waiting, Doing
  <2> QED
    BY <2>2, <2>3
<1>4. ASSUME NEW w \in Workers, Take(w)
      PROVE  PoolTypeOK' /\ OnlySubmitted'
  <2>1. /\ queue # <<>> /\ queue' = Tail(queue)
        /\ worker' = [worker EXCEPT ![w] = Head(queue)]
        /\ UNCHANGED <<closed, starts, submitted, finished, stopped>>
    BY <1>4 DEF Take
  <2>2. /\ Head(queue) \in Tasks
        /\ queue' \in Seq(Tasks) /\ Len(queue') = Len(queue) - 1
        /\ \A u \in Tasks : Waiting(u) <=> u = Head(queue) \/ Waiting(u)'
    BY <2>1, SendAndReceive DEF Waiting
  <2>3. PoolTypeOK'
    BY <2>1, <2>2
  <2>4. \A u \in Tasks : Doing(u)' => Doing(u) \/ u = Head(queue)
    BY <2>1 DEF Doing
  <2> QED
    BY <2>1, <2>2, <2>3, <2>4 DEF OnlySubmitted
<1>5. ASSUME NEW w \in Workers, FinishTask(w) \/ CancelTask(w)
      PROVE  PoolTypeOK' /\ OnlySubmitted'
  <2>1. /\ worker[w] \in Tasks
        /\ finished' = finished \cup {worker[w]}
        /\ \E e \in {Idle, Exited} : worker' = [worker EXCEPT ![w] = e]
        /\ UNCHANGED <<queue, closed, starts, submitted, stopped>>
    BY <1>5 DEF FinishTask, CancelTask, Busy
  <2>2. worker[w] \in submitted
    BY <2>1 DEF OnlySubmitted, Doing
  <2>3. \A u \in Tasks : Doing(u)' => Doing(u)
    BY <2>1 DEF Doing
  <2> QED
    BY <2>1, <2>2, <2>3 DEF OnlySubmitted, Waiting
<1>6. ASSUME NEW w \in Workers, ExitOnClose(w)
      PROVE  PoolTypeOK' /\ OnlySubmitted'
  <2>1. \A u \in Tasks : Doing(u)' => Doing(u)
    BY <1>6 DEF ExitOnClose, Doing
  <2> QED
    BY <1>6, <2>1 DEF ExitOnClose, OnlySubmitted, Waiting
<1>7. CASE Close \/ StopReturn
  BY <1>7 DEF Close, StopReturn, OnlySubmitted, Waiting, Doing
<1> QED
  BY <1>1, <1>2, <1>3, <1>4, <1>5, <1>6, <1>7 DEF PoolNext, WorkerStep

(* The channel holds tasks only and never more than its capacity, and a task
   that has finished was submitted. *)
THEOREM PoolTypeCorrect == PoolSpec => [](PoolTypeOK /\ OnlySubmitted)
<1> DEFINE IInv == PoolTypeOK /\ OnlySubmitted
<1>1. PoolInit => IInv
  <2> SUFFICES ASSUME PoolInit
               PROVE  PoolTypeOK /\ OnlySubmitted
    OBVIOUS
  <2>1. queue \in Seq(Tasks) /\ Len(queue) = 0 /\ DOMAIN queue = {}
    BY DEF PoolInit
  <2>2. PoolTypeOK
    <3>1. Len(queue) <= Capacity /\ starts \in 0..Starts
      BY <2>1 DEF PoolInit
    <3> QED
      BY <2>1, <3>1 DEF PoolInit, PoolTypeOK
  <2>3. \A t \in Tasks : ~Waiting(t) /\ ~Doing(t)
    BY <2>1 DEF PoolInit, Waiting, Doing
  <2> QED
    BY <2>2, <2>3 DEF OnlySubmitted
<1>2. IInv /\ [PoolNext]_poolVars => IInv'
  BY PoolTypeStep
<1> QED
  BY <1>1, <1>2, PTL DEF PoolSpec

(* A task on its way to a worker is neither lost nor doubled by any step. *)
LEMMA OnItsWayStep ==
  ASSUME PoolTypeOK, OnlySubmitted, [PoolNext]_poolVars
  PROVE  /\ NoneLost => NoneLost'
         /\ Apart => Apart'
<1> USE DEF PoolTypeOK
<1>1. CASE UNCHANGED poolVars
  BY <1>1 DEF poolVars, NoneLost, Apart, Waiting, Doing
<1>2. CASE StartWorkers
  <2>1. PICK W \in SUBSET Unstarted :
          worker' = [w \in Workers |-> IF w \in W THEN Idle ELSE worker[w]]
    BY <1>2 DEF StartWorkers
  <2>2. \A w \in Workers, t \in Tasks : worker'[w] = t <=> worker[w] = t
    BY <2>1 DEF Unstarted
  <2>3. UNCHANGED <<queue, submitted, finished>>
    BY <1>2 DEF StartWorkers
  <2>4. \A i \in DOMAIN queue : queue[i] \in Tasks
    OBVIOUS
  <2>5. \A w \in Workers : worker'[w] \in Tasks => worker'[w] = worker[w]
    BY <2>1 DEF Unstarted
  <2>6. NoneLost => NoneLost'
    BY <2>2, <2>3 DEF NoneLost, Waiting, Doing
  <2>7. Apart => Apart'
    BY <2>2, <2>3, <2>4, <2>5 DEF Apart, Waiting, Doing
  <2> QED
    BY <2>6, <2>7
<1>3. ASSUME NEW t \in Tasks, Submit(t)
      PROVE  (NoneLost => NoneLost') /\ (Apart => Apart')
  <2>1. /\ queue' = Append(queue, t) /\ t \notin submitted
        /\ submitted' = submitted \cup {t}
        /\ UNCHANGED <<worker, finished>>
    BY <1>3 DEF Submit
  <2>2. \A u \in Tasks : Waiting(u)' <=> u = t \/ Waiting(u)
    BY <2>1, SendAndReceive DEF Waiting
  <2>3. \A u \in Tasks : Doing(u)' <=> Doing(u)
    BY <2>1 DEF Doing
  <2>4. NoneLost => NoneLost'
    BY <2>1, <2>2, <2>3 DEF NoneLost
  <2>5. ~Waiting(t) /\ ~Doing(t)
    BY <2>1 DEF OnlySubmitted
  <2>6. ASSUME Apart
        PROVE  Apart'
    <3>1. DOMAIN queue' = 1..(Len(queue) + 1) /\ DOMAIN queue = 1..Len(queue)
          /\ Len(queue) \in Nat
      BY <2>1
    <3>2. \A i \in DOMAIN queue' :
            queue'[i] = IF i = Len(queue) + 1 THEN t ELSE queue[i]
      BY <2>1
    <3>3. \A i, j \in DOMAIN queue' : queue'[i] = queue'[j] => i = j
      BY <3>1, <3>2, <2>5, <2>6 DEF Apart, Waiting
    <3>4. \A u \in Tasks : ~(Waiting(u)' /\ Doing(u)')
      BY <2>2, <2>3, <2>5, <2>6 DEF Apart
    <3>5. \A u \in finished' : ~Waiting(u)' /\ ~Doing(u)'
      BY <2>1, <2>2, <2>3, <2>6 DEF Apart
    <3>6. \A v, w \in Workers :
            worker'[v] = worker'[w] /\ worker'[v] \in Tasks => v = w
      BY <2>1, <2>6 DEF Apart
    <3> QED
      BY <3>3, <3>4, <3>5, <3>6 DEF Apart
  <2> QED
    BY <2>4, <2>6
<1>4. ASSUME NEW w \in Workers, Take(w)
      PROVE  (NoneLost => NoneLost') /\ (Apart => Apart')
  <2>1. /\ worker[w] = Idle /\ queue # <<>> /\ queue' = Tail(queue)
        /\ worker' = [worker EXCEPT ![w] = Head(queue)]
        /\ UNCHANGED <<submitted, finished>>
    BY <1>4 DEF Take
  <2>2. /\ Head(queue) \in Tasks
        /\ \A u \in Tasks : Waiting(u) <=> u = Head(queue) \/ Waiting(u)'
    BY <2>1, SendAndReceive DEF Waiting
  <2>3. \A u \in Tasks : Doing(u)' <=> Doing(u) \/ u = Head(queue)
    BY <2>1, <2>2 DEF Doing
  <2>4. NoneLost => NoneLost'
    BY <2>1, <2>2, <2>3 DEF NoneLost
  <2>5. ASSUME Apart
        PROVE  Apart'
    <3>1. /\ DOMAIN queue = 1..Len(queue) /\ Len(queue) \in Nat \ {0}
          /\ DOMAIN queue' = 1..(Len(queue) - 1)
          /\ Head(queue) = queue[1]
          /\ \A i \in 1..(Len(queue) - 1) : queue'[i] = queue[i + 1]
      BY <2>1
    <3>2. \A i, j \in DOMAIN queue' : queue'[i] = queue'[j] => i = j
      BY <3>1, <2>5 DEF Apart
    <3>3. \A i \in DOMAIN queue' : queue'[i] # Head(queue)
      BY <3>1, <2>5 DEF Apart
    <3>4. \A u \in Tasks : u = Head(queue) => ~Waiting(u)'
      BY <3>3 DEF Waiting
    <3>5. \A u \in Tasks : ~(Waiting(u)' /\ Doing(u)')
      BY <2>2, <2>3, <2>5, <3>4 DEF Apart
    <3>6. Waiting(Head(queue)) /\ ~Doing(Head(queue))
      BY <2>2, <2>5 DEF Apart
    <3>7. \A u \in finished' : ~Waiting(u)' /\ ~Doing(u)'
      BY <2>1, <2>2, <2>3, <2>5, <3>6 DEF Apart
    <3>8. \A v, x \in Workers :
            worker'[v] = worker'[x] /\ worker'[v] \in Tasks => v = x
      BY <2>1, <2>5, <3>6 DEF Apart, Doing
    <3> QED
      BY <3>2, <3>5, <3>7, <3>8 DEF Apart
  <2> QED
    BY <2>4, <2>5
<1>5. ASSUME NEW w \in Workers, FinishTask(w) \/ CancelTask(w)
      PROVE  (NoneLost => NoneLost') /\ (Apart => Apart')
  <2>1. /\ worker[w] \in Tasks
        /\ finished' = finished \cup {worker[w]}
        /\ \E e \in {Idle, Exited} : worker' = [worker EXCEPT ![w] = e]
        /\ UNCHANGED <<queue, submitted>>
    BY <1>5 DEF FinishTask, CancelTask, Busy
  <2>2. \A u \in Tasks : Doing(u) => Doing(u)' \/ u = worker[w]
    BY <2>1 DEF Doing
  <2>3. \A u \in Tasks : Doing(u)' => Doing(u)
    BY <2>1 DEF Doing
  <2>4. \A u \in Tasks : Waiting(u)' <=> Waiting(u)
    BY <2>1 DEF Waiting
  <2>5. NoneLost => NoneLost'
    BY <2>1, <2>2, <2>4 DEF NoneLost
  <2>6. ASSUME Apart
        PROVE  Apart'
    <3>1. Doing(worker[w]) /\ ~Waiting(worker[w])
      BY <2>1, <2>6 DEF Apart, Doing
    <3>2. \A u \in Tasks : u = worker[w] => ~Doing(u)'
      BY <2>1, <2>6 DEF Apart, Doing
    <3>3. \A u \in finished' : ~Waiting(u)' /\ ~Doing(u)'
      BY <2>1, <2>3, <2>4, <2>6, <3>1, <3>2 DEF Apart
    <3>4. \A v, x \in Workers :
            worker'[v] = worker'[x] /\ worker'[v] \in Tasks => v = x
      BY <2>1, <2>6 DEF Apart
    <3> QED
      BY <2>1, <2>3, <2>4, <2>6, <3>3, <3>4 DEF Apart
  <2> QED
    BY <2>5, <2>6
<1>6. ASSUME NEW w \in Workers, ExitOnClose(w)
      PROVE  (NoneLost => NoneLost') /\ (Apart => Apart')
  <2>1. /\ worker[w] = Idle
        /\ worker' = [worker EXCEPT ![w] = Exited]
        /\ UNCHANGED <<queue, submitted, finished>>
    BY <1>6 DEF ExitOnClose
  <2>2. \A u \in Tasks : (Doing(u)' <=> Doing(u)) /\ (Waiting(u)' <=> Waiting(u))
    BY <2>1 DEF Doing, Waiting
  <2>3. \A v, x \in Workers :
          Apart /\ worker'[v] = worker'[x] /\ worker'[v] \in Tasks => v = x
    BY <2>1 DEF Apart
  <2> QED
    BY <2>1, <2>2, <2>3 DEF NoneLost, Apart
<1>7. CASE Close \/ StopReturn
  BY <1>7 DEF Close, StopReturn, NoneLost, Apart, Waiting, Doing
<1> QED
  BY <1>1, <1>2, <1>3, <1>4, <1>5, <1>6, <1>7 DEF PoolNext, WorkerStep

(* A task that was submitted is in one place, the channel or one worker, until
   its function has returned, and in none afterwards: no task is run twice. *)
THEOREM TasksInOnePlace == PoolSpec => []OnePlace
<1> DEFINE IInv == NoneLost /\ Apart
<1> DEFINE Typed == PoolTypeOK /\ OnlySubmitted
<1>1. PoolInit => IInv
  BY DEF PoolInit, NoneLost, Apart, Waiting, Doing
<1>2. Typed /\ IInv /\ [PoolNext]_poolVars => IInv'
  BY OnItsWayStep
<1>3. Typed /\ IInv => OnePlace
  <2> SUFFICES ASSUME PoolTypeOK, NoneLost, Apart, NEW t \in submitted
               PROVE  Cardinality({i \in DOMAIN queue : queue[i] = t})
                        + Cardinality({w \in Workers : worker[w] = t})
                        = IF t \in finished THEN 0 ELSE 1
    BY DEF OnePlace
  <2> DEFINE waiting == {i \in DOMAIN queue : queue[i] = t}
             doing   == {w \in Workers : worker[w] = t}
  <2>1. t \in Tasks
    BY DEF PoolTypeOK
  <2>2. /\ waiting = {} <=> ~Waiting(t)
        /\ doing = {} <=> ~Doing(t)
    BY DEF Waiting, Doing
  <2>3. Waiting(t) => \E i : waiting = {i}
    BY DEF Waiting, Apart
  <2>4. Doing(t) => \E w : doing = {w}
    BY <2>1 DEF Doing, Apart
  <2>5. Cardinality({}) = 0 /\ \A x : Cardinality({x}) = 1
    BY FS_EmptySet, FS_Singleton
  <2>6. IF t \in finished THEN ~Waiting(t) /\ ~Doing(t)
                          ELSE ~(Waiting(t) /\ Doing(t)) /\ (Waiting(t) \/ Doing(t))
    BY <2>1 DEF NoneLost, Apart
  <2>7. Cardinality(waiting) = IF Waiting(t) THEN 1 ELSE 0
    BY <2>2, <2>3, <2>5
  <2>8. Cardinality(doing) = IF Doing(t) THEN 1 ELSE 0
    BY <2>2, <2>4, <2>5
  <2> QED
    BY <2>6, <2>7, <2>8
<1> QED
  BY <1>1, <1>2, <1>3, PoolTypeCorrect, PTL DEF PoolSpec

-----------------------------------------------------------------------------
(* No step makes a worker leave that may still be needed. *)
LEMMA WorkersStayStep ==
  ASSUME Cancels = {}, PoolTypeOK, WorkersStay, [PoolNext]_poolVars
  PROVE  WorkersStay'
<1> USE DEF PoolTypeOK
<1>1. CASE UNCHANGED poolVars
  BY <1>1 DEF poolVars, WorkersStay, Drained, Started, AllDone
<1>2. CASE StartWorkers
  <2>1. PICK W \in SUBSET Unstarted :
          /\ Cardinality(W) = NumWorkers
          /\ worker' = [w \in Workers |-> IF w \in W THEN Idle ELSE worker[w]]
    BY <1>2 DEF StartWorkers
  <2>2. ~closed /\ ~stopped
    BY <1>2 DEF StartWorkers, WorkersStay, Started
  <2>3. W # {}
    BY <2>1, FS_EmptySet
  <2>4. UNCHANGED <<queue, closed, stopped>>
    BY <1>2 DEF StartWorkers
  <2>5. \E w \in Workers : worker'[w] # NotStarted
    BY <2>1, <2>3 DEF Unstarted
  <2>6. \A w \in Workers : worker'[w] # Exited
    BY <2>1, <2>2 DEF WorkersStay, Drained
  <2> QED
    BY <2>2, <2>4, <2>5, <2>6 DEF WorkersStay
<1>3. ASSUME NEW t \in Tasks, Submit(t)
      PROVE  WorkersStay'
  <2>1. ~closed /\ UNCHANGED <<closed, worker, starts, stopped>>
    BY <1>3 DEF Submit
  <2> QED
    BY <2>1 DEF WorkersStay, Drained, Started, AllDone
<1>4. ASSUME NEW w \in Workers, Take(w)
      PROVE  WorkersStay'
  <2>1. /\ worker[w] = Idle /\ queue # <<>> /\ Head(queue) \in Tasks
        /\ worker' = [worker EXCEPT ![w] = Head(queue)]
        /\ UNCHANGED <<closed, starts, stopped>>
    BY <1>4 DEF Take
  <2>2. (\A v \in Workers : worker[v] # Exited) /\ ~stopped
    BY <2>1 DEF WorkersStay, Drained, AllDone
  <2> QED
    BY <2>1, <2>2 DEF WorkersStay, Started
<1>5. ASSUME NEW w \in Workers, FinishTask(w)
      PROVE  WorkersStay'
  <2>1. /\ worker[w] \in Tasks
        /\ worker' = [worker EXCEPT ![w] = Idle]
        /\ UNCHANGED <<queue, closed, starts, stopped>>
    BY <1>5 DEF FinishTask, Busy
  <2>2. ~stopped
    BY <2>1 DEF WorkersStay, AllDone
  <2> QED
    BY <2>1, <2>2 DEF WorkersStay, Drained, Started
<1>6. ASSUME NEW w \in Workers, CancelTask(w)
      PROVE  WorkersStay'
  BY <1>6 DEF CancelTask
<1>7. ASSUME NEW w \in Workers, ExitOnClose(w)
      PROVE  WorkersStay'
  <2>1. /\ worker[w] = Idle /\ Drained
        /\ worker' = [worker EXCEPT ![w] = Exited]
        /\ UNCHANGED <<queue, closed, starts, stopped>>
    BY <1>7 DEF ExitOnClose
  <2>2. ~stopped
    BY <2>1 DEF WorkersStay, AllDone
  <2> QED
    BY <2>1, <2>2 DEF WorkersStay, Drained, Started
<1>8. CASE Close \/ StopReturn
  BY <1>8 DEF Close, StopReturn, WorkersStay, Drained, Started, AllDone
<1> QED
  BY <1>1, <1>2, <1>3, <1>4, <1>5, <1>6, <1>7, <1>8 DEF PoolNext, WorkerStep

(* What the invariants mean once Stop has returned. *)
LEMMA NothingLeft ==
  ASSUME PoolTypeOK, OnlySubmitted, NoneLost, WorkersStay
  PROVE  StopDrains
<1> SUFFICES ASSUME stopped
             PROVE  queue = <<>> /\ finished = submitted
  BY DEF StopDrains
<1>1. closed /\ AllDone /\ starts = Starts
  BY DEF WorkersStay, Started
<1>2. \E w \in Workers : worker[w] = Exited
  BY <1>1 DEF WorkersStay, AllDone
<1>3. queue = <<>>
  BY <1>2 DEF WorkersStay, Drained
<1>4. \A t \in Tasks : ~Waiting(t) /\ ~Doing(t)
  BY <1>1, <1>3 DEF Waiting, Doing, AllDone
<1> QED
  BY <1>3, <1>4 DEF NoneLost, PoolTypeOK

(* The functions of the scanner's tasks return nil or an error of their own,
   never context.Canceled.  Then, however many workers there are and however
   often the pool is started, Stop returns only when the channel is empty and
   every task has run: a worker leaves only a channel that is closed and
   empty, and nothing enters it afterwards. *)
THEOREM StopWaitsForAll ==
  ASSUME Cancels = {}
  PROVE  PoolSpec => []StopDrains
<1> DEFINE IInv == NoneLost /\ WorkersStay
<1> DEFINE Typed == PoolTypeOK /\ OnlySubmitted
<1>1. PoolInit => IInv
  BY DEF PoolInit, NoneLost, WorkersStay
<1>2. Typed /\ IInv /\ [PoolNext]_poolVars => IInv'
  BY OnItsWayStep, WorkersStayStep
<1>3. Typed /\ IInv => StopDrains
  BY NothingLeft
<1> QED
  BY <1>1, <1>2, <1>3, PoolTypeCorrect, PTL DEF PoolSpec
=============================================================================
