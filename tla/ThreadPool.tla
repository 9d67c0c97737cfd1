----------------------------- MODULE ThreadPool -----------------------------
(***************************************************************************)
(* rpc::ThreadPool (src/include/thread_pool.h, src/src/utils/              *)
(* thread_pool.cpp): worker threads that share one task queue, one mutex   *)
(* and ONE condition variable, on which idle workers and the callers of    *)
(* waitForAllTasks() block alike.                                          *)
(*                                                                         *)
(* A section that holds queue_mutex_ is one step.  Between two sections    *)
(* every thread can be overtaken: after submit() has read stop_, after it  *)
(* has enqueued and before it notifies, after a task has returned and      *)
(* before active_threads_ is decremented, inside stop().                   *)
(***************************************************************************)
EXTENDS Naturals, Sequences, FiniteSets

CONSTANTS
    Workers,      \* the threads the constructor starts
    Submitters,   \* threads that call submit() or submitVoid()
    Waiters,      \* threads that call waitForAllTasks()
    Stoppers,     \* threads that call stop(), shutdown() or the destructor, once each
    Tasks,        \* the calls of submit() there may be, each with its own task
    None          \* "no task in hand"

ASSUME WorkersAssumption ==
    /\ IsFiniteSet(Workers)
    /\ Workers # {}

ASSUME CallersAssumption ==
    /\ IsFiniteSet(Submitters)
    /\ Workers \cap (Submitters \cup Waiters \cup Stoppers) = {}
    /\ Submitters \cap (Waiters \cup Stoppers) = {}
    /\ Waiters \cap Stoppers = {}

ASSUME TasksAssumption == None \notin Tasks

VARIABLES
    tasks_,           \* the queue
    stop_,
    active_threads_,
    workers_,         \* the threads stop() has not joined and cleared yet
    pc,               \* where each thread is
    task,             \* the task a submitter is about to enqueue, or a worker runs
    fresh,            \* history: the submit() calls still to be made
    rejected,         \* history: submit() threw
    late,             \* history: enqueued although stop_ was already set
    runs              \* history: how often each task's body was executed

vars == <<tasks_, stop_, active_threads_, workers_, pc, task,
          fresh, rejected, late, runs>>

history == <<fresh, rejected, late>>

Threads == Workers \cup Submitters \cup Waiters \cup Stoppers

Queued == {tasks_[i] : i \in 1..Len(tasks_)}

At(S, label) == {t \in S : pc[t] = label}

Blocked == At(Workers \cup Waiters, "blocked")    \* inside condition_.wait

(* Workers whose body has begun and that still count in active_threads_. *)
Busy == {w \in Workers : pc[w] \in {"running", "finishing"}}

Executed == {t \in Tasks : runs[t] > 0}

-----------------------------------------------------------------------------
Init ==
    /\ tasks_ = <<>>
    /\ stop_ = FALSE
    /\ active_threads_ = 0
    /\ workers_ = Workers
    /\ pc = [t \in Threads |-> IF t \in Workers THEN "awake" ELSE "idle"]
    /\ task = [t \in Workers \cup Submitters |-> None]
    /\ fresh = Tasks
    /\ rejected = {}
    /\ late = {}
    /\ runs = [t \in Tasks |-> 0]

-----------------------------------------------------------------------------
(* Faulty variants of the steps below, used only to test the properties:   *)
(* each is what a plausible slip in the code would make of the step.       *)

(* submit() without notify_one(). *)
SubmitEnqueueSilent(s) ==
    /\ pc[s] = "enqueue"
    /\ tasks_' = Append(tasks_, task[s])
    /\ late' = IF stop_ THEN late \cup {task[s]} ELSE late
    /\ task' = [task EXCEPT ![s] = None]
    /\ pc' = [pc EXCEPT ![s] = "idle"]
    /\ UNCHANGED <<stop_, active_threads_, workers_, fresh, rejected, runs>>

(* The worker leaves as soon as stop_ is set, with tasks in the queue. *)
WorkerExitEager(w) ==
    /\ pc[w] = "awake"
    /\ stop_
    /\ pc' = [pc EXCEPT ![w] = "exited"]
    /\ UNCHANGED <<tasks_, stop_, active_threads_, workers_, task, runs, history>>

(* The front task is copied and not popped. *)
WorkerTakeNoPop(w) ==
    /\ pc[w] = "awake"
    /\ tasks_ # <<>>
    /\ task' = [task EXCEPT ![w] = Head(tasks_)]
    /\ active_threads_' = active_threads_ + 1
    /\ pc' = [pc EXCEPT ![w] = "running"]
    /\ UNCHANGED <<tasks_, stop_, workers_, runs, history>>

(* waitForAllTasks() looks at the queue alone. *)
QueueEmpty == tasks_ = <<>>

(* stop() does not notify. *)
StopSetSilent(s) ==
    /\ pc[s] = "set_stop"
    /\ stop_' = TRUE
    /\ pc' = [pc EXCEPT ![s] = "join"]
    /\ UNCHANGED <<tasks_, active_threads_, workers_, task, runs, history>>

(* stop() detaches the workers. *)
StopDetach(s) ==
    /\ pc[s] = "join"
    /\ workers_' = {}
    /\ pc' = [pc EXCEPT ![s] = "returned"]
    /\ UNCHANGED <<tasks_, stop_, active_threads_, task, runs, history>>

-----------------------------------------------------------------------------
(* submit(): the test of stop_ is made before queue_mutex_ is taken. *)

SubmitReject(s, t) ==
    /\ pc[s] = "idle"
    /\ t \in fresh
    /\ stop_
    /\ fresh' = fresh \ {t}
    /\ rejected' = rejected \cup {t}
    /\ UNCHANGED <<tasks_, stop_, active_threads_, workers_, pc, task, late, runs>>

SubmitBegin(s, t) ==
    /\ pc[s] = "idle"
    /\ t \in fresh
    /\ ~stop_
    /\ fresh' = fresh \ {t}
    /\ task' = [task EXCEPT ![s] = t]
    /\ pc' = [pc EXCEPT ![s] = "enqueue"]
    /\ UNCHANGED <<tasks_, stop_, active_threads_, workers_, rejected, late, runs>>

SubmitEnqueue(s) ==
    /\ pc[s] = "enqueue"
    /\ tasks_' = Append(tasks_, task[s])
    /\ late' = IF stop_ THEN late \cup {task[s]} ELSE late
    /\ task' = [task EXCEPT ![s] = None]
    /\ pc' = [pc EXCEPT ![s] = "notify"]
    /\ UNCHANGED <<stop_, active_threads_, workers_, fresh, rejected, runs>>

(* notify_one() wakes any one thread blocked on condition_, worker or      *)
(* waiter; with nobody blocked it is lost.                                 *)
SubmitNotify(s) ==
    /\ pc[s] = "notify"
    /\ \/ /\ Blocked = {}
          /\ pc' = [pc EXCEPT ![s] = "idle"]
       \/ \E b \in Blocked : pc' = [pc EXCEPT ![s] = "idle", ![b] = "awake"]
    /\ UNCHANGED <<tasks_, stop_, active_threads_, workers_, task, runs, history>>

-----------------------------------------------------------------------------
(* workerThread(): "awake" is about to take queue_mutex_ and to evaluate   *)
(* the predicate of condition_.wait.                                       *)

WorkerBlock(w) ==
    /\ pc[w] = "awake"
    /\ ~stop_ /\ tasks_ = <<>>
    /\ pc' = [pc EXCEPT ![w] = "blocked"]
    /\ UNCHANGED <<tasks_, stop_, active_threads_, workers_, task, runs, history>>

WorkerExit(w) ==
    /\ pc[w] = "awake"
    /\ stop_ /\ tasks_ = <<>>
    /\ pc' = [pc EXCEPT ![w] = "exited"]
    /\ UNCHANGED <<tasks_, stop_, active_threads_, workers_, task, runs, history>>

WorkerTake(w) ==
    /\ pc[w] = "awake"
    /\ tasks_ # <<>>
    /\ task' = [task EXCEPT ![w] = Head(tasks_)]
    /\ tasks_' = Tail(tasks_)
    /\ active_threads_' = active_threads_ + 1
    /\ pc' = [pc EXCEPT ![w] = "running"]
    /\ UNCHANGED <<stop_, workers_, runs, history>>

(* task(): the packaged_task stores the result or the exception.           *)
WorkerRun(w) ==
    /\ pc[w] = "running"
    /\ runs' = [runs EXCEPT ![task[w]] = @ + 1]
    /\ task' = [task EXCEPT ![w] = None]
    /\ pc' = [pc EXCEPT ![w] = "finishing"]
    /\ UNCHANGED <<tasks_, stop_, active_threads_, workers_, history>>

(* The decrement takes no lock and is followed by no notification.         *)
WorkerFinish(w) ==
    /\ pc[w] = "finishing"
    /\ active_threads_' = active_threads_ - 1
    /\ pc' = [pc EXCEPT ![w] = "awake"]
    /\ UNCHANGED <<tasks_, stop_, workers_, task, runs, history>>

-----------------------------------------------------------------------------
(* waitForAllTasks() *)

WaitCall(q) ==
    /\ pc[q] = "idle"
    /\ pc' = [pc EXCEPT ![q] = "awake"]
    /\ UNCHANGED <<tasks_, stop_, active_threads_, workers_, task, runs, history>>

AllDone == tasks_ = <<>> /\ active_threads_ = 0

WaitBlock(q) ==
    /\ pc[q] = "awake"
    /\ ~AllDone
    /\ pc' = [pc EXCEPT ![q] = "blocked"]
    /\ UNCHANGED <<tasks_, stop_, active_threads_, workers_, task, runs, history>>

WaitReturn(q) ==
    /\ pc[q] = "awake"
    /\ AllDone
    /\ pc' = [pc EXCEPT ![q] = "idle"]
    /\ UNCHANGED <<tasks_, stop_, active_threads_, workers_, task, runs, history>>

-----------------------------------------------------------------------------
(* stop() *)

StopAlready(s) ==
    /\ pc[s] = "idle"
    /\ stop_
    /\ pc' = [pc EXCEPT ![s] = "returned"]
    /\ UNCHANGED <<tasks_, stop_, active_threads_, workers_, task, runs, history>>

StopBegin(s) ==
    /\ pc[s] = "idle"
    /\ ~stop_
    /\ pc' = [pc EXCEPT ![s] = "set_stop"]
    /\ UNCHANGED <<tasks_, stop_, active_threads_, workers_, task, runs, history>>

StopSet(s) ==
    /\ pc[s] = "set_stop"
    /\ stop_' = TRUE
    /\ pc' = [pc EXCEPT ![s] = "notify_all"]
    /\ UNCHANGED <<tasks_, active_threads_, workers_, task, runs, history>>

StopNotifyAll(s) ==
    /\ pc[s] = "notify_all"
    /\ pc' = [t \in Threads |-> IF t = s THEN "join"
                                ELSE IF t \in Blocked THEN "awake" ELSE pc[t]]
    /\ UNCHANGED <<tasks_, stop_, active_threads_, workers_, task, runs, history>>

StopJoin(s) ==
    /\ pc[s] = "join"
    /\ \A w \in workers_ : pc[w] = "exited"
    /\ workers_' = {}
    /\ pc' = [pc EXCEPT ![s] = "returned"]
    /\ UNCHANGED <<tasks_, stop_, active_threads_, task, runs, history>>

(* Two calls that both passed the test of stop_ join the same std::thread  *)
(* objects without a lock.  That is undefined: besides returning, a call   *)
(* may end with a std::system_error thrown out of stop().                  *)
StopJoinThrows(s) ==
    /\ pc[s] = "join"
    /\ \E other \in Stoppers \ {s} : pc[other] = "join"
    /\ pc' = [pc EXCEPT ![s] = "threw"]
    /\ UNCHANGED <<tasks_, stop_, active_threads_, workers_, task, runs, history>>

-----------------------------------------------------------------------------
(* condition_.wait may return without a notification. *)
SpuriousWakeup(t) ==
    /\ t \in Blocked
    /\ pc' = [pc EXCEPT ![t] = "awake"]
    /\ UNCHANGED <<tasks_, stop_, active_threads_, workers_, task, runs, history>>

Submitter(s) ==
    \/ \E t \in Tasks : SubmitReject(s, t) \/ SubmitBegin(s, t)
    \/ SubmitEnqueue(s)
    \/ SubmitNotify(s)

Worker(w) ==
    \/ WorkerBlock(w)
    \/ WorkerExit(w)
    \/ WorkerTake(w)
    \/ WorkerRun(w)
    \/ WorkerFinish(w)

Waiter(q) ==
    \/ WaitCall(q)
    \/ WaitBlock(q)
    \/ WaitReturn(q)

Stopper(s) ==
    \/ StopAlready(s)
    \/ StopBegin(s)
    \/ StopSet(s)
    \/ StopNotifyAll(s)
    \/ StopJoin(s)
    \/ StopJoinThrows(s)

Next ==
    \/ \E s \in Submitters : Submitter(s)
    \/ \E w \in Workers : Worker(w)
    \/ \E q \in Waiters : Waiter(q)
    \/ \E s \in Stoppers : Stopper(s)
    \/ \E t \in Workers \cup Waiters : SpuriousWakeup(t)

Spec == Init /\ [][Next]_vars

(* A runnable thread runs, and a task's body returns.  Nobody is obliged   *)
(* to call submit(), waitForAllTasks() or stop(), and no wakeup is owed    *)
(* without a notification.                                                 *)
Fairness ==
    /\ \A w \in Workers : WF_vars(Worker(w))
    /\ \A s \in Submitters : WF_vars(SubmitEnqueue(s) \/ SubmitNotify(s))
    /\ \A q \in Waiters : WF_vars(WaitBlock(q) \/ WaitReturn(q))
    /\ \A s \in Stoppers :
         WF_vars(StopSet(s) \/ StopNotifyAll(s) \/ StopJoin(s))

FairSpec == Spec /\ Fairness

-----------------------------------------------------------------------------
(* Properties *)

PCs(t) ==
    IF t \in Workers THEN {"awake", "blocked", "running", "finishing", "exited"}
    ELSE IF t \in Submitters THEN {"idle", "enqueue", "notify"}
    ELSE IF t \in Waiters THEN {"idle", "awake", "blocked"}
    ELSE {"idle", "set_stop", "notify_all", "join", "returned", "threw"}

(* The types of the pool's members and of the threads' positions: a thread *)
(* holds a task exactly between the two steps that take it and give it up. *)
TypeOK ==
    /\ tasks_ \in Seq(Tasks)
    /\ stop_ \in BOOLEAN
    /\ active_threads_ \in Nat
    /\ workers_ \in {{}, Workers}
    /\ pc \in [Threads -> {"awake", "blocked", "running", "finishing", "exited",
                           "idle", "enqueue", "notify", "set_stop", "notify_all",
                           "join", "returned", "threw"}]
    /\ \A t \in Threads : pc[t] \in PCs(t)
    /\ task \in [Workers \cup Submitters -> Tasks \cup {None}]
    /\ \A t \in Workers \cup Submitters :
         task[t] # None <=> pc[t] \in {"enqueue", "running"}
    /\ fresh \subseteq Tasks /\ rejected \subseteq Tasks /\ late \subseteq Tasks
    /\ runs \in [Tasks -> Nat]

(* The tasks some thread has in hand. *)
InHand == {task[t] : t \in Workers \cup Submitters} \ {None}

(* Every task a caller passed to submit() is in exactly one place: refused, *)
(* in one thread's hands, once in the queue, or executed, once.  Neither a  *)
(* wakeup that finds the queue emptied by another worker nor stop() may     *)
(* lose a task or run it twice (workerThread, thread_pool.cpp:91-107).      *)
ExactlyOnce ==
    /\ Tasks = fresh \cup rejected \cup InHand \cup Queued \cup Executed
    /\ fresh \cap (rejected \cup InHand \cup Queued \cup Executed) = {}
    /\ rejected \cap (InHand \cup Queued \cup Executed) = {}
    /\ InHand \cap (Queued \cup Executed) = {}
    /\ Queued \cap Executed = {}
    /\ \A i, j \in 1..Len(tasks_) : tasks_[i] = tasks_[j] => i = j
    /\ \A t, u \in Workers \cup Submitters : task[t] = task[u] => task[t] = None \/ t = u
    /\ \A t \in Tasks : runs[t] <= 1

(* active_threads_ counts the workers between the pop and the decrement,   *)
(* although the decrement is made without queue_mutex_                     *)
(* (thread_pool.cpp:101,107).                                              *)
ActiveAccurate == active_threads_ = Cardinality(Busy)

(* Graceful shutdown: once a worker has left its loop, and so once stop()  *)
(* has joined them all, every task accepted before stop_ was set has been  *)
(* executed.  Only tasks that slipped past the test of stop_ are left.     *)
GracefulStop ==
    /\ workers_ = {} => \A w \in Workers : pc[w] = "exited"
    /\ (\E w \in Workers : pc[w] = "exited") => stop_ /\ Queued \subseteq late

(* When nobody calls waitForAllTasks(), no wakeup is lost: while a worker  *)
(* sleeps, every queued task is matched by a worker that is awake or by a  *)
(* notification still to come, and stop() has still to wake the sleeper.   *)
WakeupsCoverTasks ==
    At(Workers, "blocked") # {} =>
        /\ Len(tasks_) <= Cardinality(At(Workers, "awake"))
                          + Cardinality(At(Submitters, "notify"))
        /\ stop_ => At(Stoppers, "notify_all") # {}

(* A worker still executing, or its last steps after that, never outlives  *)
(* the stop() that returned: the caller may destroy what the tasks use     *)
(* (thread_pool.cpp:70-75).                                                *)
StopWaits ==
    (\E s \in Stoppers : pc[s] = "returned") => \A w \in Workers : pc[w] = "exited"

(* What has been accepted and has not been executed to its end. *)
Outstanding == Queued \cup ({task[w] : w \in Workers} \ {None})

(* waitForAllTasks() returns only in a state where every accepted task has *)
(* been executed: the window between a pop and active_threads_++ is closed *)
(* by queue_mutex_.                                                        *)
WaitMeansAllDone ==
    [][\A q \in Waiters :
         pc[q] = "awake" /\ pc'[q] = "idle" => Outstanding = {}]_vars

(* No task enters the queue of a stopped pool                              *)
(* (thread_pool.h:71-73).                                                  *)
NoLateTask ==
    [][stop_ => Queued' \subseteq Queued]_vars

(* A task that was accepted in time is executed, whatever the order of     *)
(* notifications, wakeups and stop().                                      *)
AcceptedRuns ==
    \A t \in Tasks : (t \in Queued /\ t \notin late) ~> (runs[t] = 1)

(* stop(), once begun, returns. *)
StopTerminates ==
    \A s \in Stoppers : pc[s] = "set_stop" ~> pc[s] \in {"returned", "threw"}

(* waitForAllTasks() returns when the tasks are done: the environment      *)
(* submits finitely many.                                                  *)
WaitReturns ==
    \A q \in Waiters : pc[q] = "awake" ~> pc[q] = "idle"

-----------------------------------------------------------------------------
(* The abstract executor that the pool implements.  A task counts as taken *)
(* in when it is in the queue, and the executor ends when the threads have *)
(* been joined.                                                            *)

ExecutorStatus ==
    [t \in Tasks |->
        IF t \in rejected THEN "refused"
        ELSE IF runs[t] > 0 THEN "done"
        ELSE IF t \in fresh \cup {task[s] : s \in Submitters} THEN "new"
        ELSE IF t \in late THEN "late"
        ELSE "accepted"]

Executor == INSTANCE TaskExecutor WITH
    status <- ExecutorStatus,
    open <- ~stop_,
    ended <- workers_ = {}

(* The pool implements the executor: every step of a thread is one step of *)
(* TaskExecutor or none, and what was accepted is completed.               *)
ImplementsExecutor == Executor!FairSpec
=============================================================================
