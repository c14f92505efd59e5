----------------------------- MODULE ThreadPool -----------------------------
(***************************************************************************)
(* thpool.c: workers that sleep on a binary semaphore, a job queue under a *)
(* mutex, a counter of working threads, and thpool_wait, which polls the   *)
(* queue's length and the counter without a lock. Creation, adding work,   *)
(* the workers' loop and waiting are modelled here; pausing and destroying *)
(* a pool in PoolControl.                                                  *)
(***************************************************************************)
EXTENDS Integers, FiniteSets, Sequences

CONSTANTS
    Workers,   \* the threads of the pool
    MaxWork,   \* bound: calls of thpool_add_work
    Exiting    \* work whose function ends its thread (pthread_exit)

Work   == 1 .. MaxWork
NoWork == 0

ASSUME ThreadPoolAssumption ==
    /\ IsFiniteSet(Workers) /\ Workers # {}
    /\ MaxWork \in Nat
    /\ Exiting \subseteq Work

VARIABLES
    pc,        \* pc[w]: where worker w is in thread_do
    job_p,     \* job_p[w]: the work that worker w pulled
    num_threads_alive,
    num_threads_working,
    v,         \* the value of the semaphore has_jobs
    queue,     \* the job queue, front first; its length is len
    added,     \* number of calls of thpool_add_work so far
    done,      \* work whose function ended
    wait,      \* where the caller of thpool_wait is
    promised   \* the last work added before it called

worker == <<pc, job_p>>
counts == <<num_threads_alive, num_threads_working>>
caller == <<wait, promised>>
vars   == <<worker, counts, v, queue, added, done, caller>>

\* jobqueue_init: no work, and the semaphore at 0.
jobqueue_init == queue = <<>> /\ v = 0

\* thread_init creates every thread of the pool; none has run yet.
thread_init == pc = [w \in Workers |-> "start"] /\ job_p = [w \in Workers |-> NoWork]

Init ==
    /\ num_threads_alive = 0 /\ num_threads_working = 0
    /\ jobqueue_init
    /\ thread_init
    /\ added = 0 /\ done = {}
    /\ wait = "idle" /\ promised = 0

-----------------------------------------------------------------------------
(* The binary semaphore.                                                   *)

Blocked == {w \in Workers : pc[w] = "blocked"}

\* pthread_cond_signal lets one of the sleeping workers look at v again. "at"
\* is where the workers are otherwise.
Signal(at) ==
    IF Blocked = {} THEN pc' = at
    ELSE \E w \in Blocked : pc' = [at EXCEPT ![w] = "wait"]

bsem_post(at) == v' = 1 /\ Signal(at)

-----------------------------------------------------------------------------
(* The caller's side.                                                      *)

\* thpool_init has returned: all threads are alive.
Ready == num_threads_alive = Cardinality(Workers)

jobqueue_push(newjob) == queue' = Append(queue, newjob) /\ bsem_post(pc)

\* thpool_add_work: push, under the queue's mutex.
thpool_add_work ==
    /\ Ready /\ added < MaxWork
    /\ added' = added + 1
    /\ jobqueue_push(added + 1)
    /\ UNCHANGED <<job_p, counts, done, caller>>

WaitCall ==
    /\ Ready /\ wait = "idle"
    /\ wait' = "len" /\ promised' = added
    /\ UNCHANGED <<worker, counts, v, queue, added, done>>

\* The two operands of "len || num_threads_working", read one after the other.
WaitReadLen ==
    /\ wait = "len"
    /\ wait' = IF Len(queue) # 0 THEN "len" ELSE "working"
    /\ UNCHANGED <<worker, counts, v, queue, added, done, promised>>

\* Mutant: the counter is not looked at.
MutWaitIgnoresWorking ==
    /\ wait = "working"
    /\ wait' = "returned"
    /\ UNCHANGED <<worker, counts, v, queue, added, done, promised>>

WaitReadWorking ==
    /\ wait = "working"
    /\ wait' = IF num_threads_working # 0 THEN "len" ELSE "returned"
    /\ UNCHANGED <<worker, counts, v, queue, added, done, promised>>

WaitReturn ==
    /\ wait = "returned"
    /\ wait' = "idle"
    /\ UNCHANGED <<worker, counts, v, queue, added, done, promised>>

-----------------------------------------------------------------------------
(* A worker (thread_do).                                                   *)

Start(w) ==
    /\ pc[w] = "start"
    /\ num_threads_alive' = num_threads_alive + 1
    /\ pc' = [pc EXCEPT ![w] = "wait"]
    /\ UNCHANGED <<job_p, num_threads_working, v, queue, added, done, caller>>

\* bsem_wait: take the semaphore, or sleep.
BsemTake(w) ==
    /\ pc[w] = "wait" /\ v = 1
    /\ v' = 0
    /\ pc' = [pc EXCEPT ![w] = "got"]
    /\ UNCHANGED <<job_p, counts, queue, added, done, caller>>

BsemSleep(w) ==
    /\ pc[w] = "wait" /\ v # 1
    /\ pc' = [pc EXCEPT ![w] = "blocked"]
    /\ UNCHANGED <<job_p, counts, v, queue, added, done, caller>>

\* pthread_cond_wait may return for no reason.
SpuriousWakeup(w) ==
    /\ pc[w] = "blocked"
    /\ pc' = [pc EXCEPT ![w] = "wait"]
    /\ UNCHANGED <<job_p, counts, v, queue, added, done, caller>>

CountUp(w) ==
    /\ pc[w] = "got"
    /\ num_threads_working' = num_threads_working + 1
    /\ pc' = [pc EXCEPT ![w] = "counted"]
    /\ UNCHANGED <<job_p, num_threads_alive, v, queue, added, done, caller>>

\* Mutant: the semaphore is not posted for the work that is left.
MutPullNoPost(at) == v' = v /\ pc' = at

\* What jobqueue_pull does with the semaphore when it leaves work behind.
PostRest(at) == bsem_post(at)

\* Mutant: the front of the queue is not reset.
MutPullLastKeeps(w) ==
    /\ pc[w] = "counted" /\ Len(queue) = 1
    /\ job_p' = [job_p EXCEPT ![w] = Head(queue)]
    /\ pc' = [pc EXCEPT ![w] = "running"]
    /\ UNCHANGED <<counts, v, queue, added, done, caller>>

\* jobqueue_pull, under the queue's mutex.
PullLast(w) ==
    /\ pc[w] = "counted" /\ Len(queue) = 1
    /\ job_p' = [job_p EXCEPT ![w] = Head(queue)]
    /\ queue' = <<>>
    /\ pc' = [pc EXCEPT ![w] = "running"]
    /\ UNCHANGED <<counts, v, added, done, caller>>

PullMore(w) ==
    /\ pc[w] = "counted" /\ Len(queue) > 1
    /\ job_p' = [job_p EXCEPT ![w] = Head(queue)]
    /\ queue' = Tail(queue)
    /\ PostRest([pc EXCEPT ![w] = "running"])
    /\ UNCHANGED <<counts, added, done, caller>>

PullNothing(w) ==
    /\ pc[w] = "counted" /\ Len(queue) = 0
    /\ pc' = [pc EXCEPT ![w] = "finish"]
    /\ UNCHANGED <<job_p, counts, v, queue, added, done, caller>>

\* The function of the work returns, or ends the thread.
Run(w) ==
    /\ pc[w] = "running"
    /\ done' = done \cup {job_p[w]}
    /\ pc' = [pc EXCEPT ![w] = IF job_p[w] \in Exiting THEN "exited" ELSE "finish"]
    /\ UNCHANGED <<job_p, counts, v, queue, added, caller>>

\* Mutant: the thread stays counted as working.
MutNoCountDown(w) ==
    /\ pc[w] = "finish"
    /\ pc' = [pc EXCEPT ![w] = "wait"]
    /\ UNCHANGED <<job_p, counts, v, queue, added, done, caller>>

CountDown(w) ==
    /\ pc[w] = "finish"
    /\ num_threads_working' = num_threads_working - 1
    /\ pc' = [pc EXCEPT ![w] = "wait"]
    /\ UNCHANGED <<job_p, num_threads_alive, v, queue, added, done, caller>>

-----------------------------------------------------------------------------
thpool_wait == WaitCall \/ WaitReadLen \/ WaitReadWorking \/ WaitReturn

\* The steps of a worker that runs; waking up for no reason is not one.
Step(w) == \/ Start(w) \/ BsemTake(w) \/ BsemSleep(w) \/ CountUp(w)
           \/ PullLast(w) \/ PullMore(w) \/ PullNothing(w)
           \/ Run(w) \/ CountDown(w)

Next == \/ thpool_add_work
        \/ thpool_wait
        \/ \E w \in Workers : Step(w) \/ SpuriousWakeup(w)

Spec == Init /\ [][Next]_vars

\* Every thread that can run does; nobody has to add work or to wait.
Fairness == /\ \A w \in Workers : WF_vars(Step(w))
            /\ WF_vars(WaitReadLen \/ WaitReadWorking)

FairSpec == Spec /\ Fairness

-----------------------------------------------------------------------------
(* Properties.                                                             *)

Pcs == {"start", "wait", "blocked", "got", "counted", "running", "finish", "exited"}

\* Every variable has its type.
TypeOK ==
    /\ pc \in [Workers -> Pcs]
    /\ job_p \in [Workers -> Work \cup {NoWork}]
    /\ num_threads_alive \in Nat
    /\ num_threads_working \in Int
    /\ v \in {0, 1}
    /\ queue \in Seq(Work)
    /\ added \in 0 .. MaxWork
    /\ done \subseteq Work
    /\ wait \in {"idle", "len", "working", "returned"}
    /\ promised \in 0 .. MaxWork

\* Work in the queue is never forgotten: the one bit of the semaphore is set,
\* or a worker that has consumed it has not yet looked at the queue. (A binary
\* semaphore does not count: two posts may be one.)
NoLostWakeup ==
    queue # <<>> => v = 1 \/ \E w \in Workers : pc[w] \in {"got", "counted"}

\* Nobody sleeps through a set bit: while a worker sleeps and the bit is set,
\* another one is awake and about to take it. (One post wakes one sleeper, and
\* a worker that was not asleep may take the bit before it.)
SetBitHasTaker ==
    v = 1 /\ Blocked # {} => \E w \in Workers : pc[w] = "wait"

\* Workers between their count up and their count down.
Counted == {w \in Workers : pc[w] \in {"counted", "running", "finish", "exited"}}

\* thpool_wait returns only when all the work added before the call has ended,
\* though it reads the length and the counter at two different moments.
WaitSound == wait = "returned" => 1 .. promised \subseteq done

\* The counter that thpool_wait relies on is exact: it counts the workers
\* between their count up and their count down, and those that never come to
\* the count down because their work ended the thread.
CounterExact == num_threads_working = Cardinality(Counted)

\* Work added is executed at last.
WorkDone == \A j \in Work : (added >= j) ~> (j \in done)

\* thpool_wait returns as long as no work has ended its thread, also when work
\* is added while it polls.
WaitEnds ==
    (wait = "len") ~> (wait = "returned" \/ \E w \in Workers : pc[w] = "exited")

\* "Once the queue is empty and all work has completed, the calling thread
\* (probably the main program) will continue": thpool_wait returns.
WaitReturns == (wait = "len") ~> (wait = "returned")

\* The work that is being executed.
Active == {job_p[w] : w \in {u \in Workers : pc[u] = "running"}}

\* The pool implements the work queue its caller thinks of.
Promise == INSTANCE WorkQueue WITH
    submitted <- added,
    started   <- added - Len(queue),
    active    <- Active,
    ended     <- done

ImplementsWorkQueue == Promise!Spec

=============================================================================
