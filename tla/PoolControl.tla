---------------------------- MODULE PoolControl -----------------------------
(***************************************************************************)
(* What stops the threads of a pool, and starts them: thpool_init,         *)
(* thpool_pause, thpool_resume and thpool_destroy. The two flags they set, *)
(* threads_keepalive and threads_on_hold, are those of all pools, and the  *)
(* signal of thpool_pause stops a thread wherever it is, with the mutexes  *)
(* it holds. ThreadPool models what a pool promises while nobody does so.  *)
(*                                                                         *)
(* What is done under a mutex is one step, unless a signal comes in the    *)
(* middle of it: then the thread keeps the mutex and takes the step later. *)
(* Of the count of the working threads, which only thpool_wait reads, the  *)
(* mutex is kept, where a signal may find a thread, and the number left    *)
(* out.                                                                    *)
(***************************************************************************)
EXTENDS Integers, FiniteSets, Sequences

CONSTANTS
    Pools,     \* each with a thread of its own that calls the functions of thpool.h
    Size,      \* num_threads of each pool
    Pausing,   \* pools for which thpool_pause and thpool_resume are called
    MaxWork,   \* MaxWork[p]: bound on the calls of thpool_add_work for pool p
    MaxPauses  \* bound: calls of thpool_pause

ASSUME PoolControlAssumption ==
    /\ IsFiniteSet(Pools) /\ Size \in [Pools -> Nat] /\ MaxWork \in [Pools -> Nat]
    /\ Pausing \subseteq Pools /\ MaxPauses \in Nat

Threads(p) == {<<p, k>> : k \in 1 .. Size[p]}
All        == UNION {Threads(p) : p \in Pools}

VARIABLES
    threads_keepalive, threads_on_hold,
    call,       \* call[p]: what the caller of the pool is at
    alive,      \* num_threads_alive
    v, len,     \* of the semaphore and the queue of each pool
    added,      \* calls of thpool_add_work
    pauses,     \* calls of thpool_pause
    pc,         \* where a thread is in thread_do
    signal,     \* threads with a signal on its way
    held,       \* threads in thread_hold
    mutexes     \* mutexes[t]: those that t has from one step to another

flags  == <<threads_keepalive, threads_on_hold>>
pool   == <<alive, v, len>>
caller == <<call, added, pauses>>
worker == <<pc, signal, held, mutexes>>
vars   == <<flags, caller, pool, worker>>

Init ==
    /\ threads_keepalive = FALSE /\ threads_on_hold = FALSE
    /\ call = [p \in Pools |-> "none"] /\ added = [p \in Pools |-> 0] /\ pauses = 0
    /\ alive = [p \in Pools |-> 0]
    /\ v = [p \in Pools |-> 0] /\ len = [p \in Pools |-> 0]
    /\ pc = [t \in All |-> "none"]
    /\ signal = {} /\ held = {} /\ mutexes = [t \in All |-> {}]

\* Nobody else has mutex m of pool p.
Free(p, m, t) == \A u \in Threads(p) \ {t} : m \notin mutexes[u]

-----------------------------------------------------------------------------
(* The caller of pool p.                                                   *)

thpool_init(p) ==
    /\ call[p] = "none"
    /\ threads_on_hold' = FALSE /\ threads_keepalive' = TRUE
    /\ pc' = [t \in All |-> IF t \in Threads(p) THEN "start" ELSE pc[t]]
    /\ call' = [call EXCEPT ![p] = "init"]
    /\ UNCHANGED <<added, pauses, pool, signal, held, mutexes>>

InitReturns(p) ==
    /\ call[p] = "init" /\ alive[p] = Size[p]
    /\ call' = [call EXCEPT ![p] = "idle"]
    /\ UNCHANGED <<flags, added, pauses, pool, worker>>

thpool_add_work(p) ==
    /\ call[p] = "idle" /\ added[p] < MaxWork[p]
    /\ call' = [call EXCEPT ![p] = "add"]
    /\ added' = [added EXCEPT ![p] = @ + 1]
    /\ UNCHANGED <<flags, pauses, pool, worker>>

Asleep(p) == {t \in Threads(p) : pc[t] = "asleep"}


\* pthread_cond_signal lets one thread look at v again, pthread_cond_broadcast all.
bsem_post(p, at) ==
    /\ v' = [v EXCEPT ![p] = 1]
    /\ IF Asleep(p) = {} THEN pc' = at
                         ELSE \E t \in Asleep(p) : pc' = [at EXCEPT ![t] = "wait"]


bsem_post_all(p) ==
    /\ v' = [v EXCEPT ![p] = 1]
    /\ pc' = [t \in All |-> IF t \in Asleep(p) THEN "wait" ELSE pc[t]]

\* The push, under the mutex of the queue, and in it the post.
AddReturns(p) ==
    /\ call[p] = "add" /\ \A m \in {"queue", "sem"} : Free(p, m, <<>>)
    /\ len' = [len EXCEPT ![p] = @ + 1]
    /\ bsem_post(p, pc)
    /\ call' = [call EXCEPT ![p] = "idle"]
    /\ UNCHANGED <<flags, added, pauses, alive, signal, held, mutexes>>

\* As many threads as are alive are signalled, the first ones; what pthread_kill
\* does to one that is no more is not defined, and left out.
thpool_pause(p) ==
    /\ p \in Pausing /\ call[p] = "idle" /\ pauses < MaxPauses
    /\ pauses' = pauses + 1
    /\ signal' = signal \cup {<<p, k>> : k \in {j \in 1 .. alive[p] : pc[<<p, j>>] # "gone"}}
    /\ UNCHANGED <<flags, call, added, pool, pc, held, mutexes>>

thpool_resume(p) ==
    /\ p \in Pausing /\ call[p] = "idle" /\ threads_on_hold
    /\ threads_on_hold' = FALSE
    /\ UNCHANGED <<threads_keepalive, caller, pool, worker>>

thpool_destroy(p) ==
    /\ call[p] = "idle"
    /\ threads_keepalive' = FALSE
    /\ call' = [call EXCEPT ![p] = "destroy"]
    /\ UNCHANGED <<threads_on_hold, added, pauses, pool, worker>>

\* Posted again and again, at first without a pause and then every second.
DestroyPosts(p) ==
    /\ call[p] = "destroy" /\ alive[p] # 0 /\ Free(p, "sem", <<>>)
    /\ bsem_post_all(p)
    /\ UNCHANGED <<flags, caller, alive, len, signal, held, mutexes>>

\* Mutant: after a second the pool is freed.
MutNobodyAlive(p) == TRUE

NobodyAlive(p) == alive[p] = 0

\* jobqueue_destroy: the work that is left is dropped; then the pool is freed.
DestroyReturns(p) ==
    /\ call[p] = "destroy" /\ NobodyAlive(p)
    /\ len' = [len EXCEPT ![p] = 0] /\ v' = [v EXCEPT ![p] = 0]
    /\ call' = [call EXCEPT ![p] = "freed"]
    /\ UNCHANGED <<flags, added, pauses, alive, worker>>

-----------------------------------------------------------------------------
(* Thread t of pool p (thread_do).                                         *)

\* The mutexes a thread locks, one inside the other, for what it does next.
Locks(t) ==
    CASE pc[t] \in {"start", "counting", "ran", "leave"} -> <<"count">>
      [] pc[t] = "wait" -> <<"sem">>
      [] pc[t] = "pull" -> IF len[t[1]] > 1 THEN <<"queue", "sem">> ELSE <<"queue">>
      [] OTHER -> <<>>

\* The first n of them.
Locked(t, n) == {Locks(t)[i] : i \in 1 .. n}

Needs(t) == Locked(t, Len(Locks(t)))

\* Mutant: the mutexes are not unlocked.
MutUnlockAll(t) == UNCHANGED mutexes

UnlockAll(t) == mutexes' = [mutexes EXCEPT ![t] = {}]

\* Thread t goes on from "from" to "to", with the mutexes it needs there.
Goes(t, from, to) ==
    /\ pc[t] = from /\ t \notin held
    /\ \A m \in Needs(t) : Free(t[1], m, t)
    /\ pc' = [pc EXCEPT ![t] = to]
    /\ UnlockAll(t)
    /\ UNCHANGED <<flags, caller, signal, held>>

Start(t) ==
    /\ Goes(t, "start", "top")
    /\ alive' = [alive EXCEPT ![t[1]] = @ + 1]
    /\ UNCHANGED <<v, len>>

\* while (threads_keepalive)
Loop(t) ==
    /\ Goes(t, "top", IF threads_keepalive THEN "wait" ELSE "leave")
    /\ UNCHANGED pool

bsem_wait(t) ==
    /\ Goes(t, "wait", IF v[t[1]] = 1 THEN "woken" ELSE "asleep")
    /\ v' = [v EXCEPT ![t[1]] = 0]
    /\ UNCHANGED <<alive, len>>

\* if (threads_keepalive)
Check(t) ==
    /\ Goes(t, "woken", IF threads_keepalive THEN "counting" ELSE "top")
    /\ UNCHANGED pool

\* num_threads_working++ and num_threads_working--, under the mutex of the counters.
CountUp(t)   == Goes(t, "counting", "pull") /\ UNCHANGED pool
CountDown(t) == Goes(t, "ran", "top") /\ UNCHANGED pool

\* jobqueue_pull, and the post in it when there is more.
Pull(t) ==
    LET p == t[1]
    IN  /\ pc[t] = "pull" /\ t \notin held
        /\ \A m \in Needs(t) : Free(p, m, t)
        /\ UnlockAll(t)
        /\ len' = [len EXCEPT ![p] = IF @ = 0 THEN 0 ELSE @ - 1]
        /\ LET at == [pc EXCEPT ![t] = IF len[p] = 0 THEN "ran" ELSE "run"]
           IN  IF len[p] > 1 THEN bsem_post(p, at) ELSE pc' = at /\ UNCHANGED v
        /\ UNCHANGED <<flags, caller, alive, signal, held>>

Run(t) == Goes(t, "run", "ran") /\ UNCHANGED pool

\* The caller of thpool_destroy may see the count before the mutex is unlocked.
Leave(t) ==
    /\ pc[t] = "leave" /\ t \notin held
    /\ Free(t[1], "count", t)
    /\ alive' = [alive EXCEPT ![t[1]] = @ - 1]
    /\ pc' = [pc EXCEPT ![t] = "unlock"]
    /\ mutexes' = [mutexes EXCEPT ![t] = {"count"}]
    /\ UNCHANGED <<flags, caller, v, len, signal, held>>

Unlock(t) == Goes(t, "unlock", "gone") /\ UNCHANGED pool

\* The signal comes: to a thread with the mutexes it has kept, or with the first n
\* it locks where it is.
thread_hold(t) ==
    /\ t \in signal \ held /\ pc[t] # "gone"
    /\ threads_on_hold' = TRUE
    /\ signal' = signal \ {t} /\ held' = held \cup {t}
    /\ \/ UNCHANGED mutexes
       \/ \E n \in 1 .. Len(Locks(t)) :
             /\ \A m \in Locked(t, n) : Free(t[1], m, t)
             /\ mutexes' = [mutexes EXCEPT ![t] = @ \cup Locked(t, n)]
    /\ UNCHANGED <<threads_keepalive, caller, pool, pc>>

\* while (threads_on_hold)
HoldEnds(t) ==
    /\ t \in held /\ ~threads_on_hold
    /\ held' = held \ {t}
    /\ UNCHANGED <<flags, caller, pool, pc, signal, mutexes>>

thread_do(t) ==
    \/ Start(t) \/ Loop(t) \/ bsem_wait(t) \/ Check(t) \/ CountUp(t) \/ Pull(t)
    \/ Run(t) \/ CountDown(t) \/ Leave(t) \/ Unlock(t)
    \/ thread_hold(t) \/ HoldEnds(t)

-----------------------------------------------------------------------------
\* What a function that was called does until it returns.
Returns(p) ==
    InitReturns(p) \/ AddReturns(p) \/ DestroyPosts(p) \/ DestroyReturns(p)

Next ==
    \/ \E p \in Pools :
          \/ thpool_init(p) \/ thpool_add_work(p) \/ thpool_pause(p)
          \/ thpool_resume(p) \/ thpool_destroy(p) \/ Returns(p)
    \/ \E t \in All : thread_do(t)

\* Threads run, and calls go on; nobody has to call a function, not even
\* thpool_resume.
Fairness ==
    /\ \A p \in Pools : WF_vars(Returns(p))
    /\ \A t \in All : WF_vars(thread_do(t))

Spec == Init /\ [][Next]_vars /\ Fairness

-----------------------------------------------------------------------------
(* Properties.                                                             *)

TypeOK ==
    /\ threads_keepalive \in BOOLEAN /\ threads_on_hold \in BOOLEAN
    /\ call \in [Pools -> {"none", "init", "idle", "add", "destroy", "freed"}]
    /\ alive \in [Pools -> Nat] /\ \A p \in Pools : alive[p] <= Size[p]
    /\ v \in [Pools -> {0, 1}]
    /\ len \in [Pools -> Nat] /\ added \in [Pools -> Nat]
    /\ \A p \in Pools : len[p] + (IF call[p] = "add" THEN 1 ELSE 0) <= added[p]
    /\ \A p \in Pools : added[p] <= MaxWork[p]
    /\ pauses \in 0 .. MaxPauses
    /\ pc \in [All -> {"none", "start", "top", "wait", "asleep", "woken", "counting",
                       "pull", "run", "ran", "leave", "unlock", "gone"}]
    /\ signal \subseteq All /\ held \subseteq All
    /\ mutexes \in [All -> SUBSET {"count", "sem", "queue"}]

\* When thpool_destroy frees a pool, no thread comes to its queue, its semaphore or
\* its counters any more. (One may still be about to unlock the mutex of the counters,
\* which is freed with them: this excepts it and does not say that it is harmless.)
FreedUnused ==
    \A p \in Pools : call[p] = "freed" =>
        \A t \in Threads(p) : pc[t] \in {"unlock", "gone"}

\* "While the thread is being paused, new work can be added" (thpool.h): the call
\* returns.
AddWorkReturns == \A p \in Pools : call[p] = "add" ~> call[p] # "add"

\* "This will wait for the currently active threads to finish and then 'kill' the
\* whole threadpool" (thpool.h): the call returns.
DestroyEnds == \A p \in Pools : call[p] = "destroy" ~> call[p] = "freed"

Stopped(p) == \E t \in Threads(p) : t \in held

\* AddWorkReturns fails only in this way: a thread of the same pool was stopped with
\* a mutex of the queue or of its semaphore.
AddBlockedByStopped ==
    \A p \in Pools :
        call[p] = "add" ~>
            \/ call[p] # "add"
            \/ \E t \in Threads(p) : t \in held /\ mutexes[t] \cap {"queue", "sem"} # {}



=============================================================================
