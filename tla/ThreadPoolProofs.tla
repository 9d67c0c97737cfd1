-------------------------- MODULE ThreadPoolProofs --------------------------
(***************************************************************************)
(* Theorems about ThreadPool, for all sets of threads and tasks.           *)
(***************************************************************************)
EXTENDS ThreadPool, FiniteSetTheorems, TLAPS

-----------------------------------------------------------------------------
(* A thread's position belongs to its kind. *)

LEMMA InitTypeOK == Init => TypeOK
  <1> USE CallersAssumption, TasksAssumption DEF Init
  <1> SUFFICES ASSUME Init PROVE TypeOK
    OBVIOUS
  <1>1. tasks_ \in Seq(Tasks)
    OBVIOUS
  <1>2. \A t \in Threads : pc[t] \in PCs(t)
    BY DEF PCs, Threads
  <1>3. \A t \in Workers \cup Submitters :
          task[t] # None <=> pc[t] \in {"enqueue", "running"}
    BY DEF Threads
  <1> QED BY <1>1, <1>2, <1>3 DEF TypeOK, Threads

(* submit() preserves the types. *)
LEMMA SubmitterTypeOK ==
    ASSUME TypeOK, NEW s \in Submitters, Submitter(s)
    PROVE  TypeOK'
  <1> USE CallersAssumption, TasksAssumption DEF TypeOK, Threads, PCs
  <1>1. ASSUME NEW t \in Tasks, SubmitReject(s, t) PROVE TypeOK'
    BY <1>1 DEF SubmitReject
  <1>2. ASSUME NEW t \in Tasks, SubmitBegin(s, t) PROVE TypeOK'
    BY <1>2 DEF SubmitBegin
  <1>3. CASE SubmitEnqueue(s)
    BY <1>3 DEF SubmitEnqueue
  <1>4. CASE SubmitNotify(s)
    BY <1>4 DEF SubmitNotify, history, Blocked, At
  <1> QED BY <1>1, <1>2, <1>3, <1>4 DEF Submitter

LEMMA WorkerTypeOK ==
    ASSUME TypeOK, ActiveAccurate, NEW w \in Workers, Worker(w)
    PROVE  TypeOK'
  <1> USE CallersAssumption, TasksAssumption DEF TypeOK, Threads, PCs
  <1>1. CASE WorkerBlock(w)
    BY <1>1 DEF WorkerBlock, history
  <1>2. CASE WorkerExit(w)
    BY <1>2 DEF WorkerExit, history
  <1>3. CASE WorkerTake(w)
    <2>1. Head(tasks_) \in Tasks /\ Tail(tasks_) \in Seq(Tasks)
      BY <1>3 DEF WorkerTake
    <2> QED BY <1>3, <2>1 DEF WorkerTake, history
  <1>4. CASE WorkerRun(w)
    BY <1>4 DEF WorkerRun, history
  <1>5. CASE WorkerFinish(w)
    <2>1. active_threads_ - 1 \in Nat
      <3>1. w \in Busy /\ IsFiniteSet(Busy)
        BY <1>5, WorkersAssumption, FS_Subset DEF WorkerFinish, Busy
      <3>2. Cardinality(Busy) # 0
        BY <3>1, FS_EmptySet
      <3> QED BY <3>2 DEF ActiveAccurate
    <2> QED BY <1>5, <2>1 DEF WorkerFinish, history
  <1> QED BY <1>1, <1>2, <1>3, <1>4, <1>5 DEF Worker

LEMMA WaiterTypeOK ==
    ASSUME TypeOK, NEW q \in Waiters, Waiter(q)
    PROVE  TypeOK'
  <1> USE CallersAssumption, TasksAssumption DEF TypeOK, Threads, PCs
  <1>1. CASE WaitCall(q) BY <1>1 DEF WaitCall, history
  <1>2. CASE WaitBlock(q) BY <1>2 DEF WaitBlock, history
  <1>3. CASE WaitReturn(q) BY <1>3 DEF WaitReturn, history
  <1> QED BY <1>1, <1>2, <1>3 DEF Waiter

LEMMA StopperTypeOK ==
    ASSUME TypeOK, NEW s \in Stoppers, Stopper(s)
    PROVE  TypeOK'
  <1> USE CallersAssumption, TasksAssumption DEF TypeOK, Threads, PCs
  <1>1. CASE StopAlready(s) BY <1>1 DEF StopAlready, history
  <1>2. CASE StopBegin(s) BY <1>2 DEF StopBegin, history
  <1>3. CASE StopSet(s) BY <1>3 DEF StopSet, history
  <1>4. CASE StopNotifyAll(s)
    BY <1>4 DEF StopNotifyAll, history, Blocked, At
  <1>5. CASE StopJoin(s) BY <1>5 DEF StopJoin, history
  <1>6. CASE StopJoinThrows(s) BY <1>6 DEF StopJoinThrows, history
  <1> QED BY <1>1, <1>2, <1>3, <1>4, <1>5, <1>6 DEF Stopper

LEMMA WakeupTypeOK ==
    ASSUME TypeOK, NEW t \in Workers \cup Waiters, SpuriousWakeup(t)
    PROVE  TypeOK'
  BY CallersAssumption DEF TypeOK, Threads, PCs, SpuriousWakeup, Blocked, At, history

-----------------------------------------------------------------------------
(* active_threads_: only the pop and the decrement change who is busy. *)

LEMMA ActiveStep ==
    ASSUME TypeOK, ActiveAccurate, Next
    PROVE  ActiveAccurate'
  <1> USE CallersAssumption DEF TypeOK, Threads
  <1> SUFFICES \/ Busy' = Busy /\ active_threads_' = active_threads_
               \/ \E w \in Workers \ Busy :
                    Busy' = Busy \cup {w} /\ active_threads_' = active_threads_ + 1
               \/ \E w \in Busy :
                    Busy' = Busy \ {w} /\ active_threads_' = active_threads_ - 1
    <2>1. IsFiniteSet(Busy)
      BY WorkersAssumption, FS_Subset DEF Busy
    <2> QED BY <2>1, FS_AddElement, FS_RemoveElement, FS_CardinalityType DEF ActiveAccurate
  <1>1. ASSUME NEW s \in Submitters, Submitter(s)
        PROVE  Busy' = Busy /\ active_threads_' = active_threads_
    <2>1. ASSUME NEW t \in Tasks, SubmitReject(s, t) \/ SubmitBegin(s, t)
          PROVE  Busy' = Busy /\ active_threads_' = active_threads_
      BY <2>1 DEF SubmitReject, SubmitBegin, Busy
    <2>2. CASE SubmitEnqueue(s)
      BY <2>2 DEF SubmitEnqueue, Busy
    <2>3. CASE SubmitNotify(s)
      BY <2>3 DEF SubmitNotify, Blocked, At, Busy
    <2> QED BY <1>1, <2>1, <2>2, <2>3 DEF Submitter
  <1>2. ASSUME NEW w \in Workers, WorkerTake(w)
        PROVE  /\ w \notin Busy /\ Busy' = Busy \cup {w}
               /\ active_threads_' = active_threads_ + 1
    BY <1>2 DEF WorkerTake, Busy
  <1>3. ASSUME NEW w \in Workers, WorkerFinish(w)
        PROVE  /\ w \in Busy /\ Busy' = Busy \ {w}
               /\ active_threads_' = active_threads_ - 1
    BY <1>3 DEF WorkerFinish, Busy
  <1>4. ASSUME NEW w \in Workers, WorkerBlock(w) \/ WorkerExit(w) \/ WorkerRun(w)
        PROVE  Busy' = Busy /\ active_threads_' = active_threads_
    BY <1>4 DEF WorkerBlock, WorkerExit, WorkerRun, Busy
  <1>5. ASSUME NEW q \in Waiters, Waiter(q)
        PROVE  Busy' = Busy /\ active_threads_' = active_threads_
    BY <1>5 DEF Waiter, WaitCall, WaitBlock, WaitReturn, Busy
  <1>6. ASSUME NEW s \in Stoppers, Stopper(s)
        PROVE  Busy' = Busy /\ active_threads_' = active_threads_
    <2>1. CASE StopNotifyAll(s)
      BY <2>1 DEF StopNotifyAll, Blocked, At, Busy
    <2>2. CASE ~StopNotifyAll(s)
      BY <1>6, <2>2 DEF Stopper, StopAlready, StopBegin, StopSet, StopJoin,
                        StopJoinThrows, Busy
    <2> QED BY <2>1, <2>2
  <1>7. ASSUME NEW t \in Workers \cup Waiters, SpuriousWakeup(t)
        PROVE  Busy' = Busy /\ active_threads_' = active_threads_
    BY <1>7 DEF SpuriousWakeup, Blocked, At, Busy
  <1> QED BY <1>1, <1>2, <1>3, <1>4, <1>5, <1>6, <1>7 DEF Next, Worker, Busy

(* The pool's members keep their types, and active_threads_ counts the     *)
(* workers that are busy: neither holds without the other, since only the  *)
(* count shows that a decrement does not go below zero.                    *)
TypedAndCounted == TypeOK /\ ActiveAccurate

LEMMA InitTypedAndCounted == Init => TypedAndCounted
  <1> SUFFICES ASSUME Init PROVE ActiveAccurate
    BY InitTypeOK DEF TypedAndCounted
  <1>1. Busy = {}
    BY DEF Init, Busy, Threads
  <1> QED BY <1>1, FS_EmptySet DEF Init, ActiveAccurate

LEMMA NextTypedAndCounted == TypedAndCounted /\ [Next]_vars => TypedAndCounted'
  <1> SUFFICES ASSUME TypedAndCounted, [Next]_vars PROVE TypedAndCounted'
    OBVIOUS
  <1>1. CASE Next
    <2>1. TypeOK'
      BY <1>1, SubmitterTypeOK, WorkerTypeOK, WaiterTypeOK, StopperTypeOK, WakeupTypeOK
         DEF Next, TypedAndCounted
    <2> QED BY <1>1, <2>1, ActiveStep DEF TypedAndCounted
  <1>2. CASE UNCHANGED vars
    BY <1>2 DEF vars, TypedAndCounted, TypeOK, ActiveAccurate, Busy
  <1> QED BY <1>1, <1>2

(* The state of the pool is always well typed; in particular every decrement*)
(* of active_threads_ finds it above zero.                                  *)
THEOREM PoolTyped == Spec => []TypeOK
  <1>1. Spec => []TypedAndCounted
    BY InitTypedAndCounted, NextTypedAndCounted, PTL DEF Spec
  <1> QED BY <1>1, PTL DEF TypedAndCounted

(* active_threads_ is the number of workers between the pop and the        *)
(* decrement, in every interleaving.                                       *)
THEOREM PoolCounts == Spec => []ActiveAccurate
  <1>1. Spec => []TypedAndCounted
    BY InitTypedAndCounted, NextTypedAndCounted, PTL DEF Spec
  <1> QED BY <1>1, PTL DEF TypedAndCounted

-----------------------------------------------------------------------------
(* Lemmas on the queue. *)

LEMMA QueuedTyped ==
    ASSUME TypeOK
    PROVE  Queued \subseteq Tasks
  BY DEF TypeOK, Queued

LEMMA QueuedEnqueue ==
    ASSUME TypeOK, NEW t \in Tasks, tasks_' = Append(tasks_, t)
    PROVE  Queued' = Queued \cup {t}
  <1>1. /\ Len(tasks_') = Len(tasks_) + 1
        /\ \A i \in 1..Len(tasks_) : tasks_'[i] = tasks_[i]
        /\ tasks_'[Len(tasks_) + 1] = t
        /\ Len(tasks_) \in Nat
    BY DEF TypeOK
  <1>2. Queued' \subseteq Queued \cup {t}
    BY <1>1 DEF Queued
  <1>3. Queued \cup {t} \subseteq Queued'
    <2>1. t \in Queued'
      BY <1>1 DEF Queued
    <2>2. ASSUME NEW i \in 1..Len(tasks_) PROVE tasks_[i] \in Queued'
      <3>1. i \in 1..Len(tasks_') /\ tasks_'[i] = tasks_[i]
        BY <1>1
      <3> QED BY <3>1 DEF Queued
    <2> QED BY <2>1, <2>2 DEF Queued
  <1> QED BY <1>2, <1>3

LEMMA QueuedTake ==
    ASSUME TypeOK, tasks_ # <<>>, tasks_' = Tail(tasks_)
    PROVE  /\ Queued = Queued' \cup {Head(tasks_)}
           /\ Head(tasks_) \in Tasks
           /\ \A i \in 1..Len(tasks_') : i + 1 \in 2..Len(tasks_) /\ tasks_'[i] = tasks_[i + 1]
  <1>1. /\ Len(tasks_) \in Nat \ {0}
        /\ Len(tasks_') = Len(tasks_) - 1
        /\ \A i \in 1..Len(tasks_') : tasks_'[i] = tasks_[i + 1]
        /\ Head(tasks_) = tasks_[1]
        /\ Head(tasks_) \in Tasks
    BY DEF TypeOK
  <1>2. Queued' \cup {Head(tasks_)} \subseteq Queued
    BY <1>1 DEF Queued
  <1>3. ASSUME NEW i \in 1..Len(tasks_) PROVE tasks_[i] \in Queued' \cup {Head(tasks_)}
    <2>1. CASE i = 1
      BY <1>1, <2>1
    <2>2. CASE i # 1
      <3>1. i - 1 \in 1..Len(tasks_') /\ tasks_'[i - 1] = tasks_[i]
        BY <1>1, <2>2
      <3> QED BY <3>1 DEF Queued
    <2> QED BY <2>1, <2>2
  <1> QED BY <1>1, <1>2, <1>3 DEF Queued

-----------------------------------------------------------------------------
(* Every task is in one place. *)

LEMMA InitExactlyOnce == Init => ExactlyOnce
  <1> SUFFICES ASSUME Init PROVE ExactlyOnce
    OBVIOUS
  <1>1. Queued = {} /\ InHand = {} /\ Executed = {}
    BY DEF Init, Queued, InHand, Executed
  <1> QED BY <1>1 DEF Init, ExactlyOnce

LEMMA SubmitterExactlyOnce ==
    ASSUME TypeOK, ExactlyOnce, NEW s \in Submitters, Submitter(s)
    PROVE  ExactlyOnce'
  <1> USE TasksAssumption, CallersAssumption DEF ExactlyOnce
  <1>1. ASSUME NEW t \in Tasks, SubmitReject(s, t) PROVE ExactlyOnce'
    <2>1. Queued' = Queued /\ InHand' = InHand /\ Executed' = Executed
      BY <1>1 DEF SubmitReject, Queued, InHand, Executed
    <2> QED BY <1>1, <2>1 DEF SubmitReject
  <1>2. ASSUME NEW t \in Tasks, SubmitBegin(s, t) PROVE ExactlyOnce'
    <2>1. task[s] = None
      BY <1>2 DEF SubmitBegin, TypeOK, Threads
    <2>2. InHand' = InHand \cup {t}
      BY <1>2, <2>1 DEF SubmitBegin, InHand, TypeOK
    <2>3. Queued' = Queued /\ Executed' = Executed
      BY <1>2 DEF SubmitBegin, Queued, Executed
    <2>4. t \notin InHand
      BY <1>2 DEF SubmitBegin
    <2>5. \A x, y \in Workers \cup Submitters :
            task'[x] = task'[y] => task'[x] = None \/ x = y
      BY <1>2, <2>4 DEF SubmitBegin, InHand, TypeOK
    <2> QED BY <1>2, <2>2, <2>3, <2>5 DEF SubmitBegin
  <1>3. CASE SubmitEnqueue(s)
    <2>1. task[s] \in InHand /\ task[s] \in Tasks
      BY <1>3 DEF SubmitEnqueue, InHand, TypeOK, Threads
    <2>2. Queued' = Queued \cup {task[s]}
      BY <1>3, <2>1, QueuedEnqueue DEF SubmitEnqueue
    <2>3. InHand' = InHand \ {task[s]}
      BY <1>3, <2>1 DEF SubmitEnqueue, InHand, TypeOK
    <2>4. Executed' = Executed
      BY <1>3 DEF SubmitEnqueue, Executed
    <2>5. \A i, j \in 1..Len(tasks_') : tasks_'[i] = tasks_'[j] => i = j
      <3>1. task[s] \notin Queued
        BY <2>1
      <3>2. /\ Len(tasks_') = Len(tasks_) + 1
            /\ \A i \in 1..Len(tasks_) : tasks_'[i] = tasks_[i] /\ tasks_'[i] # task[s]
            /\ tasks_'[Len(tasks_) + 1] = task[s]
            /\ Len(tasks_) \in Nat
        BY <1>3, <3>1 DEF SubmitEnqueue, TypeOK, Queued
      <3> QED BY <3>2
    <2>6. \A x, y \in Workers \cup Submitters :
            task'[x] = task'[y] => task'[x] = None \/ x = y
      BY <1>3 DEF SubmitEnqueue, TypeOK
    <2> QED BY <1>3, <2>1, <2>2, <2>3, <2>4, <2>5, <2>6 DEF SubmitEnqueue
  <1>4. CASE SubmitNotify(s)
    BY <1>4 DEF SubmitNotify, history, Queued, InHand, Executed
  <1> QED BY <1>1, <1>2, <1>3, <1>4 DEF Submitter

LEMMA WorkerExactlyOnce ==
    ASSUME TypeOK, ExactlyOnce, NEW w \in Workers, Worker(w)
    PROVE  ExactlyOnce'
  <1> USE TasksAssumption, CallersAssumption DEF ExactlyOnce
  <1>1. CASE WorkerBlock(w) \/ WorkerExit(w) \/ WorkerFinish(w)
    BY <1>1 DEF WorkerBlock, WorkerExit, WorkerFinish, history, Queued, InHand, Executed
  <1>2. CASE WorkerTake(w)
    <2> DEFINE t == Head(tasks_)
    <2>1. /\ Queued = Queued' \cup {t} /\ t \in Tasks
          /\ \A i \in 1..Len(tasks_') : i + 1 \in 2..Len(tasks_) /\ tasks_'[i] = tasks_[i + 1]
      BY <1>2, QueuedTake DEF WorkerTake
    <2>2. t \notin Queued'
      <3>1. ASSUME NEW i \in 1..Len(tasks_'), tasks_'[i] = t PROVE FALSE
        <4>1. i + 1 \in 1..Len(tasks_) /\ 1 \in 1..Len(tasks_) /\ tasks_[i + 1] = tasks_[1]
          BY <1>2, <2>1, <3>1 DEF WorkerTake, TypeOK
        <4> QED BY <4>1
      <3> QED BY <3>1 DEF Queued
    <2>3. task[w] = None
      BY <1>2 DEF WorkerTake, TypeOK, Threads
    <2>4. InHand' = InHand \cup {t}
      BY <1>2, <2>1, <2>3 DEF WorkerTake, InHand, TypeOK
    <2>5. Executed' = Executed
      BY <1>2 DEF WorkerTake, Executed
    <2>6. \A i, j \in 1..Len(tasks_') : tasks_'[i] = tasks_'[j] => i = j
      <3> SUFFICES ASSUME NEW i \in 1..Len(tasks_'), NEW j \in 1..Len(tasks_'),
                          tasks_'[i] = tasks_'[j]
                   PROVE  i = j
        OBVIOUS
      <3>1. i + 1 \in 1..Len(tasks_) /\ j + 1 \in 1..Len(tasks_)
            /\ tasks_[i + 1] = tasks_[j + 1]
        BY <2>1
      <3>2. i + 1 = j + 1
        BY <3>1
      <3> QED BY <3>2
    <2>7. t \notin InHand
      BY <2>1
    <2>8. \A x, y \in Workers \cup Submitters :
            task'[x] = task'[y] => task'[x] = None \/ x = y
      BY <1>2, <2>7 DEF WorkerTake, InHand, TypeOK
    <2>9. UNCHANGED <<fresh, rejected, runs>>
      BY <1>2 DEF WorkerTake, history
    <2> QED BY <2>1, <2>2, <2>4, <2>5, <2>6, <2>8, <2>9
  <1>3. CASE WorkerRun(w)
    <2>1. task[w] \in InHand /\ task[w] \in Tasks
      BY <1>3 DEF WorkerRun, InHand, TypeOK, Threads
    <2>2. runs[task[w]] = 0
      BY <2>1 DEF Executed, TypeOK
    <2>3. Executed' = Executed \cup {task[w]}
      BY <1>3, <2>1, <2>2 DEF WorkerRun, Executed, TypeOK
    <2>4. InHand' = InHand \ {task[w]}
      BY <1>3, <2>1 DEF WorkerRun, InHand, TypeOK
    <2>5. Queued' = Queued /\ UNCHANGED <<tasks_, fresh, rejected>>
      BY <1>3 DEF WorkerRun, Queued, history
    <2>6. \A x, y \in Workers \cup Submitters :
            task'[x] = task'[y] => task'[x] = None \/ x = y
      BY <1>3 DEF WorkerRun, TypeOK
    <2>7. \A t \in Tasks : runs'[t] <= 1
      BY <1>3, <2>1, <2>2 DEF WorkerRun, TypeOK
    <2> QED BY <2>1, <2>3, <2>4, <2>5, <2>6, <2>7
  <1> QED BY <1>1, <1>2, <1>3 DEF Worker

LEMMA NextExactlyOnce == TypeOK /\ ExactlyOnce /\ [Next]_vars => ExactlyOnce'
  <1> SUFFICES ASSUME TypeOK, ExactlyOnce, [Next]_vars PROVE ExactlyOnce'
    OBVIOUS
  <1>1. CASE UNCHANGED <<tasks_, task, fresh, rejected, runs>>
    <2>1. Queued' = Queued /\ InHand' = InHand /\ Executed' = Executed
      BY <1>1 DEF Queued, InHand, Executed
    <2> QED BY <1>1, <2>1 DEF ExactlyOnce
  <1>2. ASSUME NEW q \in Waiters, Waiter(q) PROVE ExactlyOnce'
    BY <1>1, <1>2 DEF Waiter, WaitCall, WaitBlock, WaitReturn, history
  <1>3. ASSUME NEW s \in Stoppers, Stopper(s) PROVE ExactlyOnce'
    BY <1>1, <1>3 DEF Stopper, StopAlready, StopBegin, StopSet, StopNotifyAll, StopJoin,
                      StopJoinThrows, history
  <1>4. ASSUME NEW t \in Workers \cup Waiters, SpuriousWakeup(t) PROVE ExactlyOnce'
    BY <1>1, <1>4 DEF SpuriousWakeup, history
  <1>5. CASE UNCHANGED vars
    BY <1>1, <1>5 DEF vars
  <1> QED BY <1>2, <1>3, <1>4, <1>5, SubmitterExactlyOnce, WorkerExactlyOnce DEF Next

(* No task is lost and none runs twice: each task passed to submit() is    *)
(* refused, in hand, queued once or executed once.                         *)
THEOREM PoolExactlyOnce == Spec => []ExactlyOnce
  BY InitExactlyOnce, NextExactlyOnce, PoolTyped, PTL DEF Spec

-----------------------------------------------------------------------------
(* stop() drains the queue. *)

LEMMA NextGracefulStop == TypeOK /\ GracefulStop /\ [Next]_vars => GracefulStop'
  <1> SUFFICES ASSUME TypeOK, GracefulStop, [Next]_vars PROVE GracefulStop'
    OBVIOUS
  <1> USE WorkersAssumption, CallersAssumption DEF TypeOK, Threads, GracefulStop
  <1>1. ASSUME NEW s \in Submitters, Submitter(s) PROVE GracefulStop'
    <2>1. CASE SubmitEnqueue(s)
      <3>1. Queued' = Queued \cup {task[s]}
        BY <2>1, QueuedEnqueue DEF SubmitEnqueue
      <3> QED BY <2>1, <3>1 DEF SubmitEnqueue
    <2>2. CASE SubmitNotify(s)
      BY <2>2 DEF SubmitNotify, Blocked, At, Queued, history
    <2>3. ASSUME NEW t \in Tasks, SubmitReject(s, t) \/ SubmitBegin(s, t)
          PROVE  GracefulStop'
      BY <2>3 DEF SubmitReject, SubmitBegin, Queued
    <2> QED BY <1>1, <2>1, <2>2, <2>3 DEF Submitter
  <1>2. ASSUME NEW w \in Workers, Worker(w) PROVE GracefulStop'
    <2>1. CASE WorkerExit(w)
      <3>1. Queued' = {}
        BY <2>1 DEF WorkerExit, Queued
      <3> QED BY <2>1, <3>1 DEF WorkerExit, history
    <2>2. CASE WorkerTake(w)
      <3>1. Queued' \subseteq Queued
        BY <2>2, QueuedTake DEF WorkerTake
      <3> QED BY <2>2, <3>1 DEF WorkerTake, history
    <2>3. CASE WorkerBlock(w) \/ WorkerRun(w) \/ WorkerFinish(w)
      BY <2>3 DEF WorkerBlock, WorkerRun, WorkerFinish, Queued, history
    <2> QED BY <1>2, <2>1, <2>2, <2>3 DEF Worker
  <1>3. ASSUME NEW q \in Waiters, Waiter(q) PROVE GracefulStop'
    BY <1>3 DEF Waiter, WaitCall, WaitBlock, WaitReturn, Queued, history
  <1>4. ASSUME NEW s \in Stoppers, Stopper(s) PROVE GracefulStop'
    <2>1. CASE StopNotifyAll(s)
      BY <2>1 DEF StopNotifyAll, Blocked, At, Queued, history
    <2>2. CASE StopJoin(s)
      <3>1. \A w \in Workers : pc[w] = "exited" /\ pc'[w] = "exited"
        BY <2>2 DEF StopJoin
      <3> QED BY <2>2, <3>1 DEF StopJoin, Queued, history
    <2>3. CASE StopAlready(s) \/ StopBegin(s) \/ StopSet(s) \/ StopJoinThrows(s)
      BY <2>3 DEF StopAlready, StopBegin, StopSet, StopJoinThrows, Queued, history
    <2> QED BY <1>4, <2>1, <2>2, <2>3 DEF Stopper
  <1>5. ASSUME NEW t \in Workers \cup Waiters, SpuriousWakeup(t) PROVE GracefulStop'
    BY <1>5 DEF SpuriousWakeup, Blocked, At, Queued, history
  <1>6. CASE UNCHANGED vars
    BY <1>6 DEF vars, Queued
  <1> QED BY <1>1, <1>2, <1>3, <1>4, <1>5, <1>6 DEF Next

LEMMA InitGracefulStop == Init => GracefulStop
  BY WorkersAssumption, CallersAssumption DEF Init, GracefulStop, Threads

(* When a worker has left its loop, and so when stop() has joined them     *)
(* all, every task accepted before stop_ was set has been executed.        *)
THEOREM PoolGracefulStop == Spec => []GracefulStop
  BY InitGracefulStop, NextGracefulStop, PoolTyped, PTL DEF Spec

-----------------------------------------------------------------------------
(* With a single call of stop(), its return means that the workers ended.  *)

StopUnderWay ==
    stop_ => \E s \in Stoppers : pc[s] \in {"notify_all", "join", "returned"}

LEMMA NextStopWaits ==
    ASSUME \A s1, s2 \in Stoppers : s1 = s2
    PROVE  TypeOK /\ StopUnderWay /\ StopWaits /\ GracefulStop /\ [Next]_vars
             => StopUnderWay' /\ StopWaits'
  <1> SUFFICES ASSUME TypeOK, StopUnderWay, StopWaits, GracefulStop, [Next]_vars
               PROVE  StopUnderWay' /\ StopWaits'
    OBVIOUS
  <1> USE WorkersAssumption, CallersAssumption
          DEF TypeOK, Threads, StopUnderWay, StopWaits, GracefulStop
  <1>1. ASSUME NEW s \in Submitters, Submitter(s) PROVE StopUnderWay' /\ StopWaits'
    <2>1. CASE SubmitNotify(s)
      BY <2>1 DEF SubmitNotify, Blocked, At
    <2>2. CASE ~SubmitNotify(s)
      BY <1>1, <2>2 DEF Submitter, SubmitReject, SubmitBegin, SubmitEnqueue
    <2> QED BY <2>1, <2>2
  <1>2. ASSUME NEW w \in Workers, Worker(w) PROVE StopUnderWay' /\ StopWaits'
    BY <1>2 DEF Worker, WorkerBlock, WorkerExit, WorkerTake, WorkerRun, WorkerFinish
  <1>3. ASSUME NEW q \in Waiters, Waiter(q) PROVE StopUnderWay' /\ StopWaits'
    BY <1>3 DEF Waiter, WaitCall, WaitBlock, WaitReturn
  <1>4. ASSUME NEW s \in Stoppers, Stopper(s) PROVE StopUnderWay' /\ StopWaits'
    <2>1. CASE StopAlready(s)
      BY <2>1 DEF StopAlready
    <2>2. CASE StopBegin(s)
      BY <2>2 DEF StopBegin
    <2>3. CASE StopSet(s)
      BY <2>3 DEF StopSet
    <2>4. CASE StopNotifyAll(s)
      BY <2>4 DEF StopNotifyAll, Blocked, At
    <2>5. CASE StopJoin(s)
      BY <2>5 DEF StopJoin
    <2>6. CASE StopJoinThrows(s)
      BY <2>6 DEF StopJoinThrows
    <2> QED BY <1>4, <2>1, <2>2, <2>3, <2>4, <2>5, <2>6 DEF Stopper
  <1>5. ASSUME NEW t \in Workers \cup Waiters, SpuriousWakeup(t)
        PROVE  StopUnderWay' /\ StopWaits'
    BY <1>5 DEF SpuriousWakeup, Blocked, At
  <1>6. CASE UNCHANGED vars
    BY <1>6 DEF vars
  <1> QED BY <1>1, <1>2, <1>3, <1>4, <1>5, <1>6 DEF Next

LEMMA InitStopWaits == Init => StopUnderWay /\ StopWaits
  BY CallersAssumption DEF Init, StopUnderWay, StopWaits, Threads

(* A single stop() returns only after every worker has left its loop.      *)
THEOREM PoolStopWaits ==
    ASSUME \A s1, s2 \in Stoppers : s1 = s2
    PROVE  Spec => []StopWaits
  BY InitStopWaits, NextStopWaits, PoolTyped, PoolGracefulStop, PTL DEF Spec

-----------------------------------------------------------------------------
(* waitForAllTasks() *)

LEMMA AllDoneNothingOutstanding ==
    ASSUME TypeOK, ActiveAccurate, AllDone
    PROVE  Outstanding = {}
  <1>1. Queued = {}
    BY DEF AllDone, Queued
  <1>2. IsFiniteSet(Busy)
    BY WorkersAssumption, FS_Subset DEF Busy
  <1>3. Busy = {}
    BY <1>2, FS_EmptySet DEF AllDone, ActiveAccurate
  <1>4. \A w \in Workers : task[w] = None
    BY <1>3, CallersAssumption DEF Busy, TypeOK, Threads, PCs
  <1> QED BY <1>1, <1>4 DEF Outstanding

LEMMA OnlyWaitReturn ==
    ASSUME TypeOK, [Next]_vars, NEW q \in Waiters, pc[q] = "awake", pc'[q] = "idle"
    PROVE  WaitReturn(q)
  <1> USE CallersAssumption DEF TypeOK, Threads
  <1>1. ASSUME NEW s \in Submitters, Submitter(s) PROVE FALSE
    <2>1. CASE SubmitNotify(s)
      BY <2>1 DEF SubmitNotify, Blocked, At
    <2>2. CASE ~SubmitNotify(s)
      BY <1>1, <2>2 DEF Submitter, SubmitReject, SubmitBegin, SubmitEnqueue
    <2> QED BY <2>1, <2>2
  <1>2. ASSUME NEW w \in Workers, Worker(w) PROVE FALSE
    BY <1>2 DEF Worker, WorkerBlock, WorkerExit, WorkerTake, WorkerRun, WorkerFinish
  <1>3. ASSUME NEW p \in Waiters, Waiter(p) PROVE WaitReturn(q)
    BY <1>3 DEF Waiter, WaitCall, WaitBlock, WaitReturn
  <1>4. ASSUME NEW s \in Stoppers, Stopper(s) PROVE FALSE
    <2>1. CASE StopNotifyAll(s)
      BY <2>1 DEF StopNotifyAll, Blocked, At
    <2>2. CASE ~StopNotifyAll(s)
      BY <1>4, <2>2 DEF Stopper, StopAlready, StopBegin, StopSet, StopJoin, StopJoinThrows
    <2> QED BY <2>1, <2>2
  <1>5. ASSUME NEW t \in Workers \cup Waiters, SpuriousWakeup(t) PROVE FALSE
    BY <1>5 DEF SpuriousWakeup, Blocked, At
  <1>6. CASE UNCHANGED vars
    BY <1>6 DEF vars
  <1> QED BY <1>1, <1>2, <1>3, <1>4, <1>5, <1>6 DEF Next

(* waitForAllTasks() returns only when every task that was accepted has    *)
(* been executed to its end.                                               *)
THEOREM PoolWaitMeansAllDone == Spec => WaitMeansAllDone
  <1>1. TypeOK /\ ActiveAccurate /\ [Next]_vars
          => [\A q \in Waiters : pc[q] = "awake" /\ pc'[q] = "idle" => Outstanding = {}]_vars
    BY OnlyWaitReturn, AllDoneNothingOutstanding DEF WaitReturn
  <1> QED BY <1>1, PoolTyped, PoolCounts, PTL DEF Spec, WaitMeansAllDone

-----------------------------------------------------------------------------
(* No wakeup is lost while nobody calls waitForAllTasks().  Each step moves *)
(* at most one thread into or out of the sets that are counted.             *)

Awake == At(Workers, "awake")
Asleep == At(Workers, "blocked")
Notifying == At(Submitters, "notify")

LEMMA CountedFinite ==
    /\ IsFiniteSet(Awake) /\ IsFiniteSet(Notifying)
    /\ IsFiniteSet(Awake') /\ IsFiniteSet(Notifying')
    /\ Cardinality(Awake) \in Nat /\ Cardinality(Notifying) \in Nat
    /\ Cardinality(Awake') \in Nat /\ Cardinality(Notifying') \in Nat
  <1>1. /\ IsFiniteSet(Awake) /\ IsFiniteSet(Notifying)
        /\ IsFiniteSet(Awake') /\ IsFiniteSet(Notifying')
    BY WorkersAssumption, CallersAssumption, FS_Subset DEF Awake, Notifying, At
  <1> QED BY <1>1, FS_CardinalityType

(* What a step may do to the two counts and the queue. *)
Covered == Asleep # {} => Len(tasks_) <= Cardinality(Awake) + Cardinality(Notifying)

WakerKnown ==
    (\E w \in Workers : pc[w] = "blocked") /\ stop_
        => \E s \in Stoppers : pc[s] = "notify_all"

LEMMA NextCovered ==
    ASSUME Waiters = {}
    PROVE  TypeOK /\ Covered /\ [Next]_vars => Covered'
  <1> SUFFICES ASSUME TypeOK, Covered, [Next]_vars PROVE Covered'
    OBVIOUS
  <1> USE CallersAssumption DEF TypeOK, Threads
  <1>0. Len(tasks_) \in Nat
    OBVIOUS
  <1>1. ASSUME UNCHANGED tasks_, Asleep' = Asleep, Awake' = Awake, Notifying' = Notifying
        PROVE  Covered'
    BY <1>1 DEF Covered
  <1>2. ASSUME NEW s \in Submitters, Submitter(s) PROVE Covered'
    <2>1. ASSUME NEW t \in Tasks, SubmitReject(s, t) \/ SubmitBegin(s, t) PROVE Covered'
      BY <1>1, <2>1 DEF SubmitReject, SubmitBegin, Asleep, Awake, Notifying, At
    <2>2. CASE SubmitEnqueue(s)
      <3>1. Asleep' = Asleep /\ Awake' = Awake
        BY <2>2 DEF SubmitEnqueue, Asleep, Awake, At
      <3>2. s \notin Notifying /\ Notifying' = Notifying \cup {s}
        BY <2>2 DEF SubmitEnqueue, Notifying, At
      <3>3. Len(tasks_') = Len(tasks_) + 1
        BY <2>2 DEF SubmitEnqueue
      <3>4. Cardinality(Notifying') = Cardinality(Notifying) + 1
        BY <3>2, CountedFinite, FS_AddElement
      <3> QED BY <1>0, <3>1, <3>3, <3>4, CountedFinite DEF Covered
    <2>3. CASE SubmitNotify(s)
      <3>1. s \in Notifying /\ Notifying' = Notifying \ {s} /\ UNCHANGED tasks_
        BY <2>3 DEF SubmitNotify, Blocked, Notifying, At
      <3>2. Cardinality(Notifying') = Cardinality(Notifying) - 1
        BY <3>1, CountedFinite, FS_RemoveElement
      <3>3. CASE Blocked = {}
        <4>1. Asleep' = {}
          BY <2>3, <3>3 DEF SubmitNotify, Blocked, Asleep, At
        <4> QED BY <4>1 DEF Covered
      <3>4. CASE Blocked # {}
        <4>1. PICK b \in Blocked : pc' = [pc EXCEPT ![s] = "idle", ![b] = "awake"]
          BY <2>3, <3>4 DEF SubmitNotify
        <4>2. b \in Asleep /\ b \notin Awake /\ Awake' = Awake \cup {b}
          BY <4>1 DEF Blocked, Asleep, Awake, At
        <4>3. Cardinality(Awake') = Cardinality(Awake) + 1
          BY <4>2, CountedFinite, FS_AddElement
        <4> QED BY <1>0, <3>1, <3>2, <4>2, <4>3, CountedFinite DEF Covered
      <3> QED BY <3>3, <3>4
    <2> QED BY <1>2, <2>1, <2>2, <2>3 DEF Submitter
  <1>3. ASSUME NEW w \in Workers, Worker(w) PROVE Covered'
    <2>0. Notifying' = Notifying
      BY <1>3 DEF Worker, WorkerBlock, WorkerExit, WorkerTake, WorkerRun, WorkerFinish,
                  Notifying, At
    <2>1. CASE WorkerBlock(w) \/ WorkerExit(w)
      <3>1. Len(tasks_') = 0
        BY <2>1 DEF WorkerBlock, WorkerExit
      <3> QED BY <3>1, CountedFinite DEF Covered
    <2>2. CASE WorkerTake(w)
      <3>1. w \in Awake /\ Awake' = Awake \ {w} /\ Asleep' = Asleep
        BY <2>2 DEF WorkerTake, Awake, Asleep, At
      <3>2. Len(tasks_') = Len(tasks_) - 1
        BY <2>2 DEF WorkerTake
      <3>3. Cardinality(Awake') = Cardinality(Awake) - 1
        BY <3>1, CountedFinite, FS_RemoveElement
      <3> QED BY <1>0, <2>0, <3>1, <3>2, <3>3, CountedFinite DEF Covered
    <2>3. CASE WorkerRun(w)
      <3>1. Awake' = Awake /\ Asleep' = Asleep /\ UNCHANGED tasks_
        BY <2>3 DEF WorkerRun, Awake, Asleep, At
      <3> QED BY <1>1, <2>0, <3>1
    <2>4. CASE WorkerFinish(w)
      <3>1. w \notin Awake /\ Awake' = Awake \cup {w} /\ Asleep' = Asleep /\ UNCHANGED tasks_
        BY <2>4 DEF WorkerFinish, Awake, Asleep, At
      <3>2. Cardinality(Awake') = Cardinality(Awake) + 1
        BY <3>1, CountedFinite, FS_AddElement
      <3> QED BY <1>0, <2>0, <3>1, <3>2, CountedFinite DEF Covered
    <2> QED BY <1>3, <2>1, <2>2, <2>3, <2>4 DEF Worker
  <1>4. ASSUME NEW s \in Stoppers, Stopper(s) PROVE Covered'
    <2>1. CASE StopNotifyAll(s)
      <3>1. Asleep' = {}
        BY <2>1 DEF StopNotifyAll, Blocked, Asleep, At
      <3> QED BY <3>1 DEF Covered
    <2>2. CASE ~StopNotifyAll(s)
      BY <1>1, <1>4, <2>2 DEF Stopper, StopAlready, StopBegin, StopSet, StopJoin,
                              StopJoinThrows, Asleep, Awake, Notifying, At
    <2> QED BY <2>1, <2>2
  <1>5. ASSUME NEW w \in Workers, SpuriousWakeup(w) PROVE Covered'
    <2>1. /\ w \in Asleep /\ w \notin Awake /\ Awake' = Awake \cup {w}
          /\ Notifying' = Notifying /\ UNCHANGED tasks_
      BY <1>5 DEF SpuriousWakeup, Blocked, Asleep, Awake, Notifying, At
    <2>2. Cardinality(Awake') = Cardinality(Awake) + 1
      BY <2>1, CountedFinite, FS_AddElement
    <2> QED BY <1>0, <2>1, <2>2, CountedFinite DEF Covered
  <1>6. CASE UNCHANGED vars
    BY <1>1, <1>6 DEF vars, Asleep, Awake, Notifying, At
  <1> QED BY <1>2, <1>3, <1>4, <1>5, <1>6 DEF Next

LEMMA NextWakerKnown == TypeOK /\ WakerKnown /\ [Next]_vars => WakerKnown'
  <1> SUFFICES ASSUME TypeOK, WakerKnown, [Next]_vars PROVE WakerKnown'
    OBVIOUS
  <1> USE CallersAssumption DEF TypeOK, Threads, WakerKnown
  <1>1. ASSUME NEW s \in Submitters, Submitter(s) PROVE WakerKnown'
    <2>1. CASE SubmitNotify(s)
      BY <2>1 DEF SubmitNotify, Blocked, At
    <2>2. CASE ~SubmitNotify(s)
      BY <1>1, <2>2 DEF Submitter, SubmitReject, SubmitBegin, SubmitEnqueue
    <2> QED BY <2>1, <2>2
  <1>2. ASSUME NEW w \in Workers, Worker(w) PROVE WakerKnown'
    BY <1>2 DEF Worker, WorkerBlock, WorkerExit, WorkerTake, WorkerRun, WorkerFinish
  <1>3. ASSUME NEW q \in Waiters, Waiter(q) PROVE WakerKnown'
    BY <1>3 DEF Waiter, WaitCall, WaitBlock, WaitReturn
  <1>4. ASSUME NEW s \in Stoppers, Stopper(s) PROVE WakerKnown'
    <2>1. CASE StopNotifyAll(s)
      BY <2>1 DEF StopNotifyAll, Blocked, At
    <2>2. CASE StopSet(s)
      BY <2>2 DEF StopSet
    <2>3. CASE StopAlready(s) \/ StopBegin(s) \/ StopJoin(s) \/ StopJoinThrows(s)
      BY <2>3 DEF StopAlready, StopBegin, StopJoin, StopJoinThrows
    <2> QED BY <1>4, <2>1, <2>2, <2>3 DEF Stopper
  <1>5. ASSUME NEW t \in Workers \cup Waiters, SpuriousWakeup(t) PROVE WakerKnown'
    BY <1>5 DEF SpuriousWakeup, Blocked, At
  <1>6. CASE UNCHANGED vars
    BY <1>6 DEF vars
  <1> QED BY <1>1, <1>2, <1>3, <1>4, <1>5, <1>6 DEF Next

LEMMA InitCovered == Init => Covered /\ WakerKnown
  <1> SUFFICES ASSUME Init PROVE \A w \in Workers : pc[w] # "blocked"
    BY DEF Covered, WakerKnown, Asleep, At
  <1> QED BY DEF Init, Threads

(* Without callers of waitForAllTasks() no wakeup is lost: while a worker  *)
(* sleeps, the queued tasks do not outnumber the workers awake and the     *)
(* notifications to come, and after stop_ was set notify_all() is to come. *)
THEOREM PoolWakeups ==
    ASSUME Waiters = {}
    PROVE  Spec => []WakeupsCoverTasks
  <1>1. Covered /\ WakerKnown => WakeupsCoverTasks
    BY DEF Covered, WakerKnown, WakeupsCoverTasks, Asleep, Awake, Notifying, At
  <1> QED BY <1>1, InitCovered, NextCovered, NextWakerKnown, PoolTyped, PTL DEF Spec

-----------------------------------------------------------------------------
(* The pool implements TaskExecutor: every step is one of its steps.        *)

(* The part of the state that the refinement mapping reads. *)
mapped == <<rejected, runs, fresh, late, task, stop_, workers_>>

LEMMA MappedStutter ==
    ASSUME UNCHANGED mapped
    PROVE  UNCHANGED Executor!vars
  BY DEF mapped, Executor!vars, ExecutorStatus

(* A task that is late has left the hands of its submitter. *)
LateTaken == late \cap (fresh \cup {task[s] : s \in Submitters}) = {}

LEMMA NextLateTaken == TypeOK /\ ExactlyOnce /\ LateTaken /\ [Next]_vars => LateTaken'
  <1> SUFFICES ASSUME TypeOK, ExactlyOnce, LateTaken, [Next]_vars PROVE LateTaken'
    OBVIOUS
  <1> USE TasksAssumption, CallersAssumption DEF LateTaken
  <1>1. CASE UNCHANGED <<late, fresh, task>>
    BY <1>1
  <1>2. ASSUME NEW s \in Submitters, Submitter(s) PROVE LateTaken'
    <2>1. ASSUME NEW t \in Tasks, SubmitReject(s, t) PROVE LateTaken'
      BY <2>1 DEF SubmitReject
    <2>2. ASSUME NEW t \in Tasks, SubmitBegin(s, t) PROVE LateTaken'
      <3>1. \A x \in Submitters : task'[x] \in {task[x], t}
        BY <2>2 DEF SubmitBegin, TypeOK
      <3> QED BY <2>2, <3>1 DEF SubmitBegin
    <2>3. CASE SubmitEnqueue(s)
      <3>1. \A x \in Submitters :
              task'[x] = None \/ (task'[x] = task[x] /\ task[x] # task[s])
        BY <2>3 DEF SubmitEnqueue, TypeOK, ExactlyOnce
      <3>2. task[s] \in Tasks /\ task[s] \in InHand
        BY <2>3 DEF SubmitEnqueue, TypeOK, Threads, InHand
      <3>3. late' \subseteq late \cup {task[s]} /\ late' \subseteq Tasks /\ fresh' = fresh
        BY <2>3, <3>2 DEF SubmitEnqueue, TypeOK
      <3>4. task[s] \notin fresh
        BY <3>2 DEF ExactlyOnce
      <3> QED BY <3>1, <3>2, <3>3, <3>4
    <2>4. CASE SubmitNotify(s)
      BY <1>1, <2>4 DEF SubmitNotify, history
    <2> QED BY <1>2, <2>1, <2>2, <2>3, <2>4 DEF Submitter
  <1>3. ASSUME NEW w \in Workers, Worker(w) PROVE LateTaken'
    <2>1. late' = late /\ fresh' = fresh
      BY <1>3 DEF Worker, WorkerBlock, WorkerExit, WorkerTake, WorkerRun, WorkerFinish, history
    <2>2. \A x \in Submitters : task'[x] = task[x]
      BY <1>3 DEF Worker, WorkerBlock, WorkerExit, WorkerTake, WorkerRun, WorkerFinish, TypeOK
    <2> QED BY <2>1, <2>2
  <1>4. ASSUME NEW q \in Waiters, Waiter(q) PROVE LateTaken'
    BY <1>1, <1>4 DEF Waiter, WaitCall, WaitBlock, WaitReturn, history
  <1>5. ASSUME NEW s \in Stoppers, Stopper(s) PROVE LateTaken'
    BY <1>1, <1>5 DEF Stopper, StopAlready, StopBegin, StopSet, StopNotifyAll, StopJoin,
                      StopJoinThrows, history
  <1>6. ASSUME NEW t \in Workers \cup Waiters, SpuriousWakeup(t) PROVE LateTaken'
    BY <1>1, <1>6 DEF SpuriousWakeup, history
  <1>7. CASE UNCHANGED vars
    BY <1>1, <1>7 DEF vars
  <1> QED BY <1>2, <1>3, <1>4, <1>5, <1>6, <1>7 DEF Next

LEMMA SubmitterRefines ==
    ASSUME TypeOK, ExactlyOnce, LateTaken, NEW s \in Submitters, Submitter(s)
    PROVE  [Executor!Next]_(Executor!vars)
  <1> USE TasksAssumption, CallersAssumption
  <1>1. ASSUME NEW t \in Tasks, SubmitReject(s, t) PROVE Executor!Refuse(t)
    <2>1. ExecutorStatus[t] = "new"
      BY <1>1 DEF SubmitReject, ExecutorStatus, ExactlyOnce, Executed, TypeOK
    <2>2. ExecutorStatus' = [ExecutorStatus EXCEPT ![t] = "refused"]
      BY <1>1 DEF SubmitReject, ExecutorStatus
    <2> QED BY <1>1, <2>1, <2>2 DEF SubmitReject, Executor!Refuse, Executor!Move
  <1>2. ASSUME NEW t \in Tasks, SubmitBegin(s, t) PROVE UNCHANGED Executor!vars
    <2>1. {task'[x] : x \in Submitters} \cup fresh' \cup {None}
            = {task[x] : x \in Submitters} \cup fresh \cup {None}
      <3>1. task[s] = None
        BY <1>2 DEF SubmitBegin, TypeOK, Threads
      <3> QED BY <1>2, <3>1 DEF SubmitBegin, TypeOK
    <2>2. ExecutorStatus' = ExecutorStatus
      <3>1. ASSUME NEW u \in Tasks
            PROVE  u \in fresh' \cup {task'[x] : x \in Submitters}
                     <=> u \in fresh \cup {task[x] : x \in Submitters}
        BY <2>1
      <3> QED BY <1>2, <3>1 DEF SubmitBegin, ExecutorStatus
    <2> QED BY <1>2, <2>2 DEF SubmitBegin, Executor!vars
  <1>3. CASE SubmitEnqueue(s)
    <2> DEFINE t == task[s]
    <2>1. t \in Tasks /\ t \in InHand
      BY <1>3 DEF SubmitEnqueue, TypeOK, Threads, InHand
    <2>2. t \notin rejected /\ t \notin fresh /\ runs[t] = 0
      BY <2>1 DEF ExactlyOnce, Executed, TypeOK
    <2>3. ExecutorStatus[t] = "new"
      BY <2>1, <2>2 DEF ExecutorStatus
    <2>4. ASSUME NEW u \in Tasks
          PROVE  u \in {task'[x] : x \in Submitters}
                   <=> u \in {task[x] : x \in Submitters} /\ u # t
      BY <1>3, <2>1 DEF SubmitEnqueue, TypeOK, ExactlyOnce
    <2>5. UNCHANGED <<rejected, runs, fresh, stop_, workers_>>
      BY <1>3 DEF SubmitEnqueue
    <2>6. CASE stop_
      <3>1. late' = late \cup {t}
        BY <1>3, <2>6 DEF SubmitEnqueue
      <3>2. ExecutorStatus' = [ExecutorStatus EXCEPT ![t] = "late"]
        <4>1. ExecutorStatus'[t] = "late"
          BY <2>1, <2>2, <2>4, <2>5, <3>1 DEF ExecutorStatus
        <4>2. ASSUME NEW u \in Tasks, u # t PROVE ExecutorStatus'[u] = ExecutorStatus[u]
          <5>1. u \in late' <=> u \in late
            BY <3>1, <4>2
          <5> QED BY <2>4, <2>5, <4>2, <5>1 DEF ExecutorStatus
        <4> HIDE DEF t
        <4> QED BY <2>1, <4>1, <4>2 DEF ExecutorStatus
      <3>3. Executor!AcceptLate(t)
        BY <2>3, <2>5, <2>6, <3>2 DEF Executor!AcceptLate, Executor!Move
      <3> QED BY <2>1, <3>3 DEF Executor!Next
    <2>7. CASE ~stop_
      <3>1. late' = late /\ t \notin late
        BY <1>3, <2>7, <2>1 DEF SubmitEnqueue, LateTaken
      <3>2. ExecutorStatus' = [ExecutorStatus EXCEPT ![t] = "accepted"]
        <4>1. ExecutorStatus'[t] = "accepted"
          BY <2>1, <2>2, <2>4, <2>5, <3>1 DEF ExecutorStatus
        <4>2. ASSUME NEW u \in Tasks, u # t PROVE ExecutorStatus'[u] = ExecutorStatus[u]
          <5>1. u \in late' <=> u \in late
            BY <3>1, <4>2
          <5> QED BY <2>4, <2>5, <4>2, <5>1 DEF ExecutorStatus
        <4> HIDE DEF t
        <4> QED BY <2>1, <4>1, <4>2 DEF ExecutorStatus
      <3>3. Executor!Accept(t)
        BY <2>3, <2>5, <2>7, <3>2 DEF Executor!Accept, Executor!Move
      <3> QED BY <2>1, <3>3 DEF Executor!Next
    <2> QED BY <2>6, <2>7
  <1>4. CASE SubmitNotify(s)
    BY <1>4, MappedStutter DEF SubmitNotify, mapped, history
  <1> QED BY <1>1, <1>2, <1>3, <1>4 DEF Submitter, Executor!Next

LEMMA WorkerRefines ==
    ASSUME TypeOK, ExactlyOnce, GracefulStop, NEW w \in Workers, Worker(w)
    PROVE  [Executor!Next]_(Executor!vars)
  <1> USE TasksAssumption, CallersAssumption
  <1>1. CASE WorkerRun(w)
    <2> DEFINE t == task[w]
    <2>1. t \in Tasks /\ t \in InHand
      BY <1>1 DEF WorkerRun, TypeOK, Threads, InHand
    <2>2. t \notin rejected /\ t \notin fresh /\ runs[t] = 0
      BY <2>1 DEF ExactlyOnce, Executed, TypeOK
    <2>3. \A s \in Submitters : task[s] # t
      BY <2>1 DEF ExactlyOnce
    <2>4. ExecutorStatus[t] \in {"accepted", "late"}
      BY <2>1, <2>2, <2>3 DEF ExecutorStatus
    <2>5. workers_ # {}
      BY <1>1 DEF GracefulStop, WorkerRun
    <2>6. /\ UNCHANGED <<rejected, fresh, late, stop_, workers_>>
          /\ \A s \in Submitters : task'[s] = task[s]
          /\ runs'[t] > 0
          /\ \A u \in Tasks : u # t => runs'[u] = runs[u]
      BY <1>1, <2>1, <2>2 DEF WorkerRun, history, TypeOK
    <2>7. ExecutorStatus' = [ExecutorStatus EXCEPT ![t] = "done"]
      <3>1. ExecutorStatus'[t] = "done"
        BY <2>1, <2>2, <2>6 DEF ExecutorStatus
      <3>2. ASSUME NEW u \in Tasks, u # t PROVE ExecutorStatus'[u] = ExecutorStatus[u]
        <4>1. u \in {task'[s] : s \in Submitters} <=> u \in {task[s] : s \in Submitters}
          BY <2>6
        <4> QED BY <2>6, <3>2, <4>1 DEF ExecutorStatus
      <3> HIDE DEF t
      <3> QED BY <2>1, <3>1, <3>2 DEF ExecutorStatus
    <2>8. Executor!Complete(t) \/ Executor!CompleteLate(t)
      BY <2>4, <2>5, <2>6, <2>7 DEF Executor!Complete, Executor!CompleteLate, Executor!Move
    <2> QED BY <2>1, <2>8 DEF Executor!Next
  <1>2. CASE WorkerTake(w)
    <2>1. ExecutorStatus' = ExecutorStatus
      <3>1. \A s \in Submitters : task'[s] = task[s]
        BY <1>2 DEF WorkerTake, TypeOK
      <3>2. {task'[s] : s \in Submitters} = {task[s] : s \in Submitters}
        BY <3>1
      <3> QED BY <1>2, <3>2 DEF WorkerTake, history, ExecutorStatus
    <2> QED BY <1>2, <2>1 DEF WorkerTake, Executor!vars
  <1>3. CASE WorkerBlock(w) \/ WorkerExit(w) \/ WorkerFinish(w)
    BY <1>3, MappedStutter DEF WorkerBlock, WorkerExit, WorkerFinish, mapped, history
  <1> QED BY <1>1, <1>2, <1>3 DEF Worker

LEMMA StopperRefines ==
    ASSUME TypeOK, ExactlyOnce, GracefulStop, NEW s \in Stoppers, Stopper(s)
    PROVE  [Executor!Next]_(Executor!vars)
  <1> USE TasksAssumption, CallersAssumption
  <1>1. CASE StopSet(s)
    <2>1. ExecutorStatus' = ExecutorStatus
      BY <1>1 DEF StopSet, history, ExecutorStatus
    <2> QED BY <1>1, <2>1 DEF StopSet, history, Executor!Next, Executor!Close
  <1>2. CASE StopJoin(s)
    <2>1. ExecutorStatus' = ExecutorStatus
      BY <1>2 DEF StopJoin, history, ExecutorStatus
    <2>2. \A w \in Workers : pc[w] = "exited"
      BY <1>2 DEF StopJoin, GracefulStop, TypeOK
    <2>3. stop_ /\ Queued \subseteq late
      BY <2>2, WorkersAssumption DEF GracefulStop
    <2>4. \A w \in Workers : task[w] = None
      BY <2>2 DEF TypeOK, Threads
    <2>5. ASSUME NEW t \in Tasks PROVE ExecutorStatus[t] # "accepted"
      <3>1. CASE t \in InHand
        <4>1. t \in {task[x] : x \in Submitters}
          BY <2>4, <3>1 DEF InHand
        <4> QED BY <4>1 DEF ExecutorStatus
      <3>2. CASE t \notin InHand
        <4>1. t \in fresh \/ t \in rejected \/ t \in Queued \/ t \in Executed
          BY <3>2 DEF ExactlyOnce
        <4> QED BY <2>3, <4>1 DEF ExecutorStatus, Executed
      <3> QED BY <3>1, <3>2
    <2>6. Executor!End
      BY <1>2, <2>1, <2>3, <2>5 DEF StopJoin, Executor!End
    <2> QED BY <2>6 DEF Executor!Next
  <1>3. CASE StopAlready(s) \/ StopBegin(s) \/ StopNotifyAll(s) \/ StopJoinThrows(s)
    BY <1>3, MappedStutter
       DEF StopAlready, StopBegin, StopNotifyAll, StopJoinThrows, mapped, history
  <1> QED BY <1>1, <1>2, <1>3 DEF Stopper

LEMMA NextRefines ==
    ASSUME TypeOK, ExactlyOnce, GracefulStop, LateTaken, [Next]_vars
    PROVE  [Executor!Next]_(Executor!vars)
  <1>1. ASSUME NEW q \in Waiters, Waiter(q) PROVE [Executor!Next]_(Executor!vars)
    BY <1>1, MappedStutter DEF Waiter, WaitCall, WaitBlock, WaitReturn, mapped, history
  <1>2. ASSUME NEW t \in Workers \cup Waiters, SpuriousWakeup(t)
        PROVE  [Executor!Next]_(Executor!vars)
    BY <1>2, MappedStutter DEF SpuriousWakeup, mapped, history
  <1>3. CASE UNCHANGED vars
    BY <1>3, MappedStutter DEF vars, mapped
  <1> QED BY <1>1, <1>2, <1>3, SubmitterRefines, WorkerRefines, StopperRefines DEF Next

LEMMA InitRefines == Init => Executor!Init
  <1> SUFFICES ASSUME Init PROVE Executor!Init
    OBVIOUS
  <1>1. ExecutorStatus = [t \in Tasks |-> "new"]
    BY DEF Init, ExecutorStatus
  <1> QED BY <1>1, WorkersAssumption DEF Init, Executor!Init

LEMMA InitLateTaken == Init => LateTaken
  BY DEF Init, LateTaken

(* Every behaviour of the pool is, through the mapping, a behaviour of the *)
(* abstract executor (its safety part).                                    *)
THEOREM PoolImplementsExecutor == Spec => Executor!Spec
  <1>1. Spec => []LateTaken
    BY InitLateTaken, NextLateTaken, PoolTyped, PoolExactlyOnce, PTL DEF Spec
  <1> QED BY <1>1, InitRefines, NextRefines, PoolTyped, PoolExactlyOnce, PoolGracefulStop, PTL
          DEF Spec, Executor!Spec
=============================================================================
