-------------------------- MODULE ThreadPoolProofs --------------------------
(***************************************************************************)
(* Proofs about ThreadPool, for every set of workers, every amount of work *)
(* and every choice of work that ends its thread.                          *)
(*                                                                         *)
(* The invariants are stacked: types first, then what the queue holds      *)
(* (QueueInv), the counter (CounterExact), the semaphore (WakeInv) and     *)
(* last the caller of thpool_wait (WaitInv), whose proof needs the counter *)
(* and the queue.                                                          *)
(***************************************************************************)
EXTENDS ThreadPool, FiniteSetTheorems, TLAPS

USE ThreadPoolAssumption DEF Work, NoWork

-----------------------------------------------------------------------------
(* A post changes only the semaphore and where one sleeper is.             *)

\* After a post with the workers at "at", the semaphore is set and every worker
\* is where "at" has it, or was asleep and is now awake.
LEMMA PostEffect ==
    ASSUME NEW at \in [Workers -> Pcs], bsem_post(at)
    PROVE  /\ v' = 1
           /\ pc' \in [Workers -> Pcs]
           /\ \A w \in Workers : pc'[w] = at[w] \/ (w \in Blocked /\ pc'[w] = "wait")
           /\ Blocked # {} => \E w \in Blocked : pc'[w] = "wait"
<1>1. CASE Blocked = {}
  BY <1>1 DEF bsem_post, Signal
<1>2. CASE Blocked # {}
  <2>1. PICK w \in Blocked : pc' = [at EXCEPT ![w] = "wait"]
    BY <1>2 DEF bsem_post, Signal
  <2>2. w \in Workers
    BY DEF Blocked
  <2> QED
    BY <2>1, <2>2 DEF bsem_post, Pcs
<1> QED
  BY <1>1, <1>2

-----------------------------------------------------------------------------
(* Pulling from the front of the queue.                                    *)

\* The front of a queue of work is work, and the rest is shifted by one.
LEMMA PullEffect ==
    ASSUME NEW q \in Seq(Work), Len(q) > 0
    PROVE  /\ Head(q) = q[1] /\ Head(q) \in Work
           /\ Tail(q) \in Seq(Work) /\ Len(Tail(q)) = Len(q) - 1
           /\ \A i \in 1 .. Len(Tail(q)) : Tail(q)[i] = q[i + 1]
OBVIOUS

-----------------------------------------------------------------------------
(* Types.                                                                  *)

\* A worker that runs work has pulled some.
RunsWork == \A w \in Workers : pc[w] = "running" => job_p[w] \in Work

TypeInv == TypeOK /\ RunsWork

\* Every step of a worker keeps the types.
LEMMA StepKeepsTypes ==
    ASSUME TypeInv, NEW w \in Workers, Step(w) \/ SpuriousWakeup(w)
    PROVE  TypeInv'
<1> USE DEF TypeInv, TypeOK, RunsWork, counts, caller, Pcs
<1>1. CASE Start(w)
  BY <1>1 DEF Start
<1>2. CASE BsemTake(w)
  BY <1>2 DEF BsemTake
<1>3. CASE BsemSleep(w)
  BY <1>3 DEF BsemSleep
<1>4. CASE CountUp(w)
  BY <1>4 DEF CountUp
<1>5. CASE PullLast(w)
  <2>1. Head(queue) \in Work
    <3>1. queue \in Seq(Work) /\ Len(queue) > 0
      BY <1>5 DEF PullLast
    <3> QED
      BY <3>1, PullEffect
  <2> QED
    BY <1>5, <2>1 DEF PullLast
<1>6. CASE PullMore(w)
  <2>1. [pc EXCEPT ![w] = "running"] \in [Workers -> Pcs]
    OBVIOUS
  <2>2. /\ pc' \in [Workers -> Pcs] /\ v' = 1
        /\ \A u \in Workers : \/ pc'[u] = [pc EXCEPT ![w] = "running"][u]
                              \/ pc'[u] = "wait"
    BY <1>6, <2>1, PostEffect DEF PullMore, PostRest
  <2>3. Head(queue) \in Work /\ Tail(queue) \in Seq(Work)
    <3>1. queue \in Seq(Work) /\ Len(queue) > 0
      BY <1>6 DEF PullMore
    <3> QED
      BY <3>1, PullEffect
  <2> QED
    BY <1>6, <2>2, <2>3 DEF PullMore
<1>7. CASE PullNothing(w)
  BY <1>7 DEF PullNothing
<1>8. CASE Run(w)
  BY <1>8 DEF Run
<1>9. CASE CountDown(w)
  BY <1>9 DEF CountDown
<1>10. CASE SpuriousWakeup(w)
  BY <1>10 DEF SpuriousWakeup
<1> QED
  BY <1>1, <1>2, <1>3, <1>4, <1>5, <1>6, <1>7, <1>8, <1>9, <1>10 DEF Step

\* The types, with what a worker that runs work holds, are inductive.
LEMMA TypesHold == Spec => []TypeInv
<1>1. Init => TypeInv
  BY DEF Init, jobqueue_init, thread_init, TypeInv, TypeOK, RunsWork, Pcs
<1>2. TypeInv /\ [Next]_vars => TypeInv'
  <2> SUFFICES ASSUME TypeInv, [Next]_vars PROVE TypeInv'
    OBVIOUS
  <2> USE DEF TypeInv, TypeOK, RunsWork
  <2>1. CASE thpool_add_work
    <3>1. /\ pc' \in [Workers -> Pcs] /\ v' = 1
          /\ \A u \in Workers : pc'[u] = pc[u] \/ pc'[u] = "wait"
      BY <2>1, PostEffect DEF thpool_add_work, jobqueue_push
    <3> QED
      BY <2>1, <3>1 DEF thpool_add_work, jobqueue_push, counts, caller
  <2>2. CASE thpool_wait
    BY <2>2 DEF thpool_wait, WaitCall, WaitReadLen, WaitReadWorking, WaitReturn,
                worker, counts
  <2>3. ASSUME NEW w \in Workers, Step(w) \/ SpuriousWakeup(w) PROVE TypeInv'
    BY <2>3, StepKeepsTypes
  <2>4. CASE UNCHANGED vars
    BY <2>4 DEF vars, worker, counts, caller
  <2> QED
    BY <2>1, <2>2, <2>3, <2>4 DEF Next
<1> QED
  BY <1>1, <1>2, PTL DEF Spec

\* Every variable keeps its type, whatever the workers and the caller do.
THEOREM TypeCorrect == Spec => []TypeOK
BY TypesHold, PTL DEF TypeInv

-----------------------------------------------------------------------------
(* What the queue holds: the work added last, in order; everything before  *)
(* it was taken by exactly one worker.                                     *)

Taken == added - Len(queue)

Running(w) == pc[w] = "running"

QueueInv ==
    /\ Len(queue) <= added
    /\ \A i \in 1 .. Len(queue) : queue[i] = Taken + i
    /\ \A w \in Workers : Running(w) => job_p[w] <= Taken /\ job_p[w] \notin done
    /\ \A u, w \in Workers : Running(u) /\ Running(w) /\ job_p[u] = job_p[w] => u = w
    /\ done \subseteq 1 .. Taken
    /\ \A j \in 1 .. Taken : j \in done \/ \E w \in Workers : Running(w) /\ job_p[w] = j

\* A step that leaves the work alone and neither starts nor ends any.
LEMMA QueueUntouched ==
    ASSUME TypeInv, QueueInv, UNCHANGED <<queue, added, done, job_p>>,
           \A w \in Workers : Running(w)' <=> Running(w)
    PROVE  QueueInv'
BY DEF QueueInv, Taken, TypeInv, TypeOK

\* The front of the queue goes to a worker that runs nothing.
LEMMA QueuePulled ==
    ASSUME TypeInv, QueueInv, NEW w \in Workers, ~Running(w), Len(queue) > 0,
           job_p' = [job_p EXCEPT ![w] = Head(queue)],
           queue' \in Seq(Work), Len(queue') = Len(queue) - 1,
           \A i \in 1 .. Len(queue') : queue'[i] = queue[i + 1],
           \A u \in Workers : Running(u)' <=> Running(u) \/ u = w,
           UNCHANGED <<added, done>>
    PROVE  QueueInv'
<1> USE DEF TypeInv, TypeOK
<1>1. Head(queue) = Taken + 1
  BY PullEffect DEF QueueInv, Taken
<1>2. Taken' = Taken + 1 /\ Taken \in Nat
  BY DEF QueueInv, Taken
<1>3. job_p'[w] = Taken + 1 /\ \A u \in Workers : u # w => job_p'[u] = job_p[u]
  BY <1>1
<1>4. Len(queue') <= added' /\ \A i \in 1 .. Len(queue') : queue'[i] = Taken' + i
  BY <1>2 DEF QueueInv
<1>5. \A u \in Workers : Running(u)' => job_p'[u] <= Taken' /\ job_p'[u] \notin done'
  <2>1. \A u \in Workers : Running(u) => job_p[u] \in Work
    BY DEF RunsWork, Running
  <2> QED
    BY <1>2, <1>3, <2>1 DEF QueueInv
<1>6. \A t, u \in Workers :
         Running(t)' /\ Running(u)' /\ job_p'[t] = job_p'[u] => t = u
  BY <1>2, <1>3 DEF QueueInv, RunsWork
<1>7. done' \subseteq 1 .. Taken'
  BY <1>2 DEF QueueInv
<1>8. ASSUME NEW j \in 1 .. Taken'
      PROVE  j \in done' \/ \E u \in Workers : Running(u)' /\ job_p'[u] = j
  <2>1. CASE j = Taken + 1
    BY <2>1, <1>3
  <2>2. CASE j # Taken + 1
    <3>1. j \in 1 .. Taken
      BY <2>2, <1>2
    <3>2. CASE j \in done
      BY <3>2
    <3>3. CASE \E u \in Workers : Running(u) /\ job_p[u] = j
      BY <3>3, <1>3
    <3> QED
      BY <3>1, <3>2, <3>3 DEF QueueInv
  <2> QED
    BY <2>1, <2>2
<1> QED
  BY <1>4, <1>5, <1>6, <1>7, <1>8 DEF QueueInv

\* Every step of a worker keeps the accounting of the queue.
LEMMA StepKeepsQueue ==
    ASSUME TypeInv, QueueInv, NEW w \in Workers, Step(w) \/ SpuriousWakeup(w)
    PROVE  QueueInv'
<1>1. CASE PullLast(w)
  <2>1. queue \in Seq(Work) /\ Len(queue) = 1 /\ Len(queue) > 0
    BY <1>1 DEF PullLast, TypeInv, TypeOK
  <2>2. \A u \in Workers : Running(u)' <=> Running(u) \/ u = w
    BY <1>1 DEF PullLast, Running, TypeInv, TypeOK
  <2>3. /\ queue' \in Seq(Work) /\ Len(queue') = Len(queue) - 1
        /\ \A i \in 1 .. Len(queue') : queue'[i] = queue[i + 1]
    <3>1. queue' = <<>> /\ Len(queue') = 0
      BY <1>1 DEF PullLast
    <3>2. queue' \in Seq(Work)
      BY <3>1
    <3> QED
      BY <2>1, <3>1, <3>2
  <2>4. /\ ~Running(w) /\ UNCHANGED <<added, done>>
        /\ job_p' = [job_p EXCEPT ![w] = Head(queue)]
    BY <1>1 DEF PullLast, Running
  <2> QED
    BY <2>1, <2>2, <2>3, <2>4, QueuePulled
<1>2. CASE PullMore(w)
  <2>1. queue \in Seq(Work) /\ Len(queue) > 0 /\ queue' = Tail(queue)
    BY <1>2 DEF PullMore, TypeInv, TypeOK
  <2>2. \A u \in Workers : Running(u)' <=> Running(u) \/ u = w
    <3>1. [pc EXCEPT ![w] = "running"] \in [Workers -> Pcs]
      BY DEF TypeInv, TypeOK, Pcs
    <3>2. \A u \in Workers :
             \/ pc'[u] = [pc EXCEPT ![w] = "running"][u]
             \/ u \in Blocked /\ pc'[u] = "wait"
      BY <1>2, <3>1, PostEffect DEF PullMore, PostRest
    <3> QED
      BY <1>2, <3>2 DEF PullMore, Running, Blocked, TypeInv, TypeOK
  <2>3. /\ queue' \in Seq(Work) /\ Len(queue') = Len(queue) - 1
        /\ \A i \in 1 .. Len(queue') : queue'[i] = queue[i + 1]
    BY <2>1, PullEffect
  <2>4. /\ ~Running(w) /\ UNCHANGED <<added, done>>
        /\ job_p' = [job_p EXCEPT ![w] = Head(queue)]
    BY <1>2 DEF PullMore, Running
  <2> QED
    BY <2>1, <2>2, <2>3, <2>4, QueuePulled
<1>3. CASE Run(w)
  <2> USE DEF Run, Running, TypeInv, TypeOK, Taken
  <2>1. \A u \in Workers : Running(u)' <=> Running(u) /\ u # w
    BY <1>3
  <2>2. done' = done \cup {job_p[w]} /\ job_p[w] \in 1 .. Taken
    BY <1>3 DEF QueueInv, RunsWork
  <2>3. UNCHANGED <<queue, added, job_p>>
    BY <1>3
  <2>4. \A j \in 1 .. Taken' : \/ j \in done'
                               \/ \E u \in Workers : Running(u)' /\ job_p'[u] = j
    BY <2>1, <2>2, <2>3 DEF QueueInv
  <2>5. \A u \in Workers : Running(u)' => job_p'[u] <= Taken' /\ job_p'[u] \notin done'
    BY <1>3, <2>1, <2>2, <2>3 DEF QueueInv
  <2> QED
    BY <2>1, <2>2, <2>3, <2>4, <2>5 DEF QueueInv
<1>4. CASE \/ Start(w) \/ BsemTake(w) \/ BsemSleep(w) \/ SpuriousWakeup(w)
           \/ CountUp(w) \/ PullNothing(w) \/ CountDown(w)
  <2>1. /\ UNCHANGED <<queue, added, done, job_p>>
        /\ \A u \in Workers : Running(u)' <=> Running(u)
    BY <1>4 DEF Start, BsemTake, BsemSleep, SpuriousWakeup, CountUp, PullNothing,
                CountDown, Running, TypeInv, TypeOK
  <2> QED
    BY <2>1, QueueUntouched
<1> QED
  BY <1>1, <1>2, <1>3, <1>4 DEF Step

\* Adding work keeps it too.
LEMMA AddKeepsQueue ==
    ASSUME TypeInv, QueueInv, thpool_add_work
    PROVE  QueueInv'
<1>1. \A w \in Workers : Running(w)' <=> Running(w)
  BY PostEffect DEF thpool_add_work, jobqueue_push, Running, Blocked, TypeInv, TypeOK
<1>2. /\ queue' = Append(queue, added + 1) /\ added' = added + 1
      /\ UNCHANGED <<done, job_p>>
  BY DEF thpool_add_work, jobqueue_push
<1>3. Len(queue') = Len(queue) + 1 /\ Taken' = Taken
  BY <1>2 DEF Taken, TypeInv, TypeOK
<1>4. \A i \in 1 .. Len(queue') : queue'[i] = Taken' + i
  <2> SUFFICES ASSUME NEW i \in 1 .. Len(queue') PROVE queue'[i] = Taken' + i
    OBVIOUS
  <2>1. queue \in Seq(Work) /\ added \in Nat /\ Len(queue) \in Nat
    BY DEF TypeInv, TypeOK
  <2>2. CASE i = Len(queue) + 1
    BY <1>2, <1>3, <2>1, <2>2 DEF Taken
  <2>3. CASE i \in 1 .. Len(queue)
    BY <1>2, <1>3, <2>1, <2>3 DEF QueueInv
  <2> QED
    BY <1>3, <2>1, <2>2, <2>3
<1> QED
  BY <1>1, <1>2, <1>3, <1>4 DEF QueueInv, TypeInv, TypeOK

\* The queue's accounting holds in every reachable state.
THEOREM QueueCorrect == Spec => []QueueInv
<1>1. Init => QueueInv
  BY DEF Init, jobqueue_init, thread_init, QueueInv, Taken, Running
<1>2. TypeInv /\ QueueInv /\ [Next]_vars => QueueInv'
  <2> SUFFICES ASSUME TypeInv, QueueInv, [Next]_vars PROVE QueueInv'
    OBVIOUS
  <2>1. CASE thpool_wait \/ UNCHANGED vars
    <3>1. UNCHANGED <<queue, added, done, job_p>> /\ UNCHANGED pc
      BY <2>1 DEF thpool_wait, WaitCall, WaitReadLen, WaitReadWorking, WaitReturn,
                  vars, worker
    <3> QED
      BY <3>1, QueueUntouched DEF Running
  <2> QED
    BY <2>1, AddKeepsQueue, StepKeepsQueue DEF Next
<1> QED
  BY <1>1, <1>2, TypesHold, PTL DEF Spec

-----------------------------------------------------------------------------
(* The counter of working threads.                                         *)

\* A set of workers that gains or loses one member, or none.
LEMMA CountedFinite ==
    ASSUME NEW S, S \subseteq Workers
    PROVE  IsFiniteSet(S) /\ Cardinality(S) \in Nat
BY FS_Subset, FS_CardinalityType

\* A worker that leaves pc at "counted", "running", "finish" or "exited" is
\* counted; only counting up and counting down change who is.
LEMMA StepKeepsCounter ==
    ASSUME TypeInv, CounterExact, NEW w \in Workers, Step(w) \/ SpuriousWakeup(w)
    PROVE  CounterExact'
<1> USE DEF TypeInv, TypeOK, counts
<1>0. Counted \subseteq Workers /\ IsFiniteSet(Counted)
  BY CountedFinite DEF Counted
<1>1. CASE CountUp(w)
  <2>1. w \notin Counted /\ Counted' = Counted \cup {w}
    BY <1>1 DEF CountUp, Counted
  <2>2. Cardinality(Counted') = Cardinality(Counted) + 1
    BY <1>0, <2>1, FS_AddElement
  <2> QED
    BY <1>1, <2>2 DEF CountUp, CounterExact
<1>2. CASE CountDown(w)
  <2>1. w \in Counted /\ Counted' = Counted \ {w}
    BY <1>2 DEF CountDown, Counted
  <2>2. Cardinality(Counted') = Cardinality(Counted) - 1
    BY <1>0, <2>1, FS_RemoveElement
  <2> QED
    BY <1>2, <2>2 DEF CountDown, CounterExact
<1>3. CASE PullMore(w)
  <2>1. [pc EXCEPT ![w] = "running"] \in [Workers -> Pcs]
    BY DEF Pcs
  <2>2. \A u \in Workers :
           \/ pc'[u] = [pc EXCEPT ![w] = "running"][u]
           \/ u \in Blocked /\ pc'[u] = "wait"
    BY <1>3, <2>1, PostEffect DEF PullMore, PostRest
  <2>3. Counted' = Counted
    BY <1>3, <2>2 DEF PullMore, Counted, Blocked
  <2> QED
    BY <1>3, <2>3 DEF PullMore, CounterExact
<1>4. CASE \/ Start(w) \/ BsemTake(w) \/ BsemSleep(w) \/ SpuriousWakeup(w)
           \/ PullLast(w) \/ PullNothing(w) \/ Run(w)
  <2>1. Counted' = Counted /\ UNCHANGED num_threads_working
    BY <1>4 DEF Start, BsemTake, BsemSleep, SpuriousWakeup, PullLast, PullNothing,
                Run, Counted
  <2> QED
    BY <2>1 DEF CounterExact
<1> QED
  BY <1>1, <1>2, <1>3, <1>4 DEF Step

\* num_threads_working counts exactly the workers between their two updates of
\* it: thpool_wait may rely on it being 0.
THEOREM CounterCorrect == Spec => []CounterExact
<1>1. Init => CounterExact
  <2> SUFFICES ASSUME Init PROVE CounterExact
    OBVIOUS
  <2>1. Counted = {}
    BY DEF Init, jobqueue_init, thread_init, Counted
  <2> QED
    BY <2>1, FS_EmptySet DEF Init, jobqueue_init, thread_init, CounterExact
<1>2. TypeInv /\ CounterExact /\ [Next]_vars => CounterExact'
  <2> SUFFICES ASSUME TypeInv, CounterExact, [Next]_vars PROVE CounterExact'
    OBVIOUS
  <2>1. CASE thpool_add_work
    <3>1. Counted' = Counted
      BY <2>1, PostEffect DEF thpool_add_work, jobqueue_push, Counted, Blocked, TypeInv, TypeOK
    <3> QED
      BY <2>1, <3>1 DEF thpool_add_work, jobqueue_push, counts, CounterExact
  <2>2. CASE thpool_wait \/ UNCHANGED vars
    <3>1. Counted' = Counted /\ UNCHANGED num_threads_working
      BY <2>2 DEF thpool_wait, WaitCall, WaitReadLen, WaitReadWorking, WaitReturn,
                  vars, worker, counts, Counted
    <3> QED
      BY <3>1 DEF CounterExact
  <2> QED
    BY <2>1, <2>2, StepKeepsCounter DEF Next
<1> QED
  BY <1>1, <1>2, TypesHold, PTL DEF Spec

-----------------------------------------------------------------------------
(* The semaphore.                                                          *)

WakeInv == NoLostWakeup /\ SetBitHasTaker

\* Every step of a worker keeps both facts about the semaphore.
LEMMA StepKeepsWake ==
    ASSUME TypeInv, WakeInv, NEW w \in Workers, Step(w) \/ SpuriousWakeup(w)
    PROVE  WakeInv'
<1> USE DEF TypeInv, TypeOK, WakeInv, NoLostWakeup, SetBitHasTaker, Blocked
<1>1. CASE PullMore(w)
  <2>1. [pc EXCEPT ![w] = "running"] \in [Workers -> Pcs]
    BY DEF Pcs
  <2>2. v' = 1
    BY <1>1, <2>1, PostEffect DEF PullMore, PostRest
  <2>3. Blocked' # {} => \E u \in Workers : pc'[u] = "wait"
    <3>1. Blocked' \subseteq Blocked
      BY <1>1, <2>1, PostEffect DEF PullMore, PostRest
    <3>2. Blocked # {} => \E u \in Blocked : pc'[u] = "wait"
      BY <1>1, <2>1, PostEffect DEF PullMore, PostRest
    <3> QED
      BY <3>1, <3>2
  <2> QED
    BY <2>2, <2>3
<1>2. CASE PullLast(w)
  <2>1. queue' = <<>> /\ v' = v /\ Blocked' = Blocked
    BY <1>2 DEF PullLast
  <2>2. \A u \in Workers : pc[u] = "wait" => pc'[u] = "wait"
    BY <1>2 DEF PullLast
  <2> QED
    BY <2>1, <2>2
<1>3. CASE PullNothing(w)
  <2>1. queue = <<>> /\ UNCHANGED <<queue, v>>
    BY <1>3 DEF PullNothing
  <2>2. /\ Blocked' = Blocked
        /\ \A u \in Workers : pc[u] = "wait" => pc'[u] = "wait"
    BY <1>3 DEF PullNothing
  <2> QED
    BY <2>1, <2>2
<1>4. CASE BsemTake(w)
  BY <1>4 DEF BsemTake
<1>5. CASE BsemSleep(w)
  BY <1>5 DEF BsemSleep
<1>6. CASE Start(w) \/ SpuriousWakeup(w)
  BY <1>6 DEF Start, SpuriousWakeup
<1>7. CASE CountUp(w)
  BY <1>7 DEF CountUp
<1>8. CASE Run(w) \/ CountDown(w)
  BY <1>8 DEF Run, CountDown
<1> QED
  BY <1>1, <1>2, <1>3, <1>4, <1>5, <1>6, <1>7, <1>8 DEF Step

\* Work in the queue is never forgotten by the one-bit semaphore, and no worker
\* sleeps on a set bit unless another is awake to take it.
THEOREM WakeCorrect == Spec => [](NoLostWakeup /\ SetBitHasTaker)
<1>1. Init => WakeInv
  BY DEF Init, jobqueue_init, thread_init, WakeInv, NoLostWakeup, SetBitHasTaker
<1>2. TypeInv /\ WakeInv /\ [Next]_vars => WakeInv'
  <2> SUFFICES ASSUME TypeInv, WakeInv, [Next]_vars PROVE WakeInv'
    OBVIOUS
  <2>1. CASE thpool_add_work
    <3>1. /\ v' = 1 /\ Blocked' \subseteq Blocked
          /\ Blocked # {} => \E u \in Blocked : pc'[u] = "wait"
      BY <2>1, PostEffect DEF thpool_add_work, jobqueue_push, Blocked, TypeInv, TypeOK
    <3> QED
      BY <3>1 DEF WakeInv, NoLostWakeup, SetBitHasTaker, Blocked
  <2>2. CASE thpool_wait \/ UNCHANGED vars
    <3>1. UNCHANGED <<pc, v, queue>>
      BY <2>2 DEF thpool_wait, WaitCall, WaitReadLen, WaitReadWorking, WaitReturn,
                  vars, worker
    <3> QED
      BY <3>1 DEF WakeInv, NoLostWakeup, SetBitHasTaker, Blocked
  <2> QED
    BY <2>1, <2>2, StepKeepsWake DEF Next
<1> QED
  BY <1>1, <1>2, TypesHold, PTL DEF Spec, WakeInv

-----------------------------------------------------------------------------
(* thpool_wait.                                                            *)

\* Between the read of the length and that of the counter the work promised has
\* left the queue: what has not ended is in the hands of a counted worker.
WaitInv ==
    /\ wait \in {"len", "working", "returned"} => promised <= added
    /\ wait = "working" => promised <= Taken
    /\ wait = "returned" => 1 .. promised \subseteq done

\* With the counter at 0 all the work taken has ended.
LEMMA NobodyWorks ==
    ASSUME TypeInv, QueueInv, CounterExact, num_threads_working = 0
    PROVE  1 .. Taken \subseteq done
<1>1. IsFiniteSet(Counted) /\ Cardinality(Counted) = 0
  BY CountedFinite DEF Counted, CounterExact
<1>2. Counted = {}
  BY <1>1, FS_EmptySet
<1>3. \A w \in Workers : ~Running(w)
  BY <1>2 DEF Counted, Running
<1> QED
  BY <1>3 DEF QueueInv

\* A step that does not touch the caller: work is never taken back and what has
\* ended has ended.
LEMMA OthersKeepWait ==
    ASSUME TypeInv, WaitInv, UNCHANGED caller, added <= added', Taken <= Taken',
           added' \in Int, Taken' \in Int, Taken \in Int, done \subseteq done'
    PROVE  WaitInv'
BY DEF WaitInv, TypeInv, TypeOK, caller

\* thpool_wait does not return before all the work added before the call has
\* ended, although the queue's length and the counter are read at two moments
\* and without the mutexes that protect them.
THEOREM WaitCorrect == Spec => []WaitSound
<1>1. Init => WaitInv
  BY DEF Init, jobqueue_init, thread_init, WaitInv
<1>2. TypeInv /\ QueueInv /\ CounterExact /\ QueueInv' /\ TypeInv' /\ WaitInv
         /\ [Next]_vars => WaitInv'
  <2> SUFFICES ASSUME TypeInv, QueueInv, CounterExact, QueueInv', TypeInv', WaitInv,
                      [Next]_vars
               PROVE  WaitInv'
    OBVIOUS
  <2> USE DEF TypeInv, TypeOK
  <2>0. Taken \in Int /\ Taken' \in Int /\ added \in Int /\ added' \in Int
    BY DEF Taken
  <2>1. CASE thpool_add_work
    <3>1. UNCHANGED <<caller, done>> /\ added' = added + 1 /\ Taken' = Taken
      BY <2>1 DEF thpool_add_work, jobqueue_push, Taken
    <3> QED
      BY <2>0, <3>1, OthersKeepWait
  <2>2. CASE WaitCall
    BY <2>2 DEF WaitCall, WaitInv
  <2>3. CASE WaitReadLen
    BY <2>3 DEF WaitReadLen, WaitInv, Taken
  <2>4. CASE WaitReadWorking
    <3>1. UNCHANGED <<added, queue, done, promised>> /\ wait = "working"
      BY <2>4 DEF WaitReadWorking
    <3>2. CASE num_threads_working = 0
      BY <2>0, <3>1, <3>2, NobodyWorks DEF WaitInv, Taken
    <3>3. CASE num_threads_working # 0
      BY <2>4, <3>1, <3>3 DEF WaitReadWorking, WaitInv, Taken
    <3> QED
      BY <3>2, <3>3
  <2>5. CASE WaitReturn
    BY <2>5 DEF WaitReturn, WaitInv
  <2>6. ASSUME NEW w \in Workers, Step(w) \/ SpuriousWakeup(w) PROVE WaitInv'
    <3>1. UNCHANGED <<caller, added>> /\ done \subseteq done'
      BY <2>6 DEF Step, Start, BsemTake, BsemSleep, CountUp, PullLast, PullMore,
                  PullNothing, Run, CountDown, SpuriousWakeup
    <3>2. Len(queue') <= Len(queue)
      BY <2>6 DEF Step, Start, BsemTake, BsemSleep, CountUp, PullLast, PullMore,
                  PullNothing, Run, CountDown, SpuriousWakeup
    <3> QED
      BY <2>0, <3>1, <3>2, OthersKeepWait DEF Taken
  <2>7. CASE UNCHANGED vars
    BY <2>7 DEF vars, caller, WaitInv, Taken
  <2> QED
    BY <2>1, <2>2, <2>3, <2>4, <2>5, <2>6, <2>7 DEF Next, thpool_wait
<1>3. WaitInv => WaitSound
  BY DEF WaitInv, WaitSound
<1> QED
  BY <1>1, <1>2, <1>3, TypesHold, QueueCorrect, CounterCorrect, PTL DEF Spec

-----------------------------------------------------------------------------
(* The pool implements the work queue.                                     *)

\* A pull from the front of the queue is the abstract Take.
LEMMA PullIsTake ==
    ASSUME TypeInv, QueueInv, NEW w \in Workers, ~Running(w), Len(queue) > 0,
           job_p' = [job_p EXCEPT ![w] = Head(queue)],
           queue' \in Seq(Work), Len(queue') = Len(queue) - 1,
           \A u \in Workers : Running(u)' <=> Running(u) \/ u = w,
           UNCHANGED <<added, done>>
    PROVE  Promise!Take
<1> USE DEF TypeInv, TypeOK
<1>1. Head(queue) = Taken + 1 /\ Taken < added /\ Taken' = Taken + 1
  BY PullEffect DEF QueueInv, Taken
<1>2. Active' = Active \cup {Taken + 1}
  BY <1>1 DEF Active, Running
<1> QED
  BY <1>1, <1>2 DEF Promise!Take, Taken

\* A step that changes neither the work nor who runs it is a stutter.
LEMMA SameWorkStutters ==
    ASSUME UNCHANGED <<queue, added, done, job_p>>,
           \A w \in Workers : Running(w)' <=> Running(w)
    PROVE  UNCHANGED Promise!vars
<1>1. Active' = Active
  BY DEF Active, Running
<1> QED
  BY <1>1 DEF Promise!vars

\* Every step of a worker takes work, ends work, or is a stutter.
LEMMA StepImplements ==
    ASSUME TypeInv, QueueInv, NEW w \in Workers, Step(w) \/ SpuriousWakeup(w)
    PROVE  Promise!Next \/ UNCHANGED Promise!vars
<1>1. CASE PullLast(w)
  <2>1. /\ queue \in Seq(Work) /\ Len(queue) = 1 /\ queue' = <<>>
        /\ \A u \in Workers : Running(u)' <=> Running(u) \/ u = w
        /\ ~Running(w) /\ UNCHANGED <<added, done>>
        /\ job_p' = [job_p EXCEPT ![w] = Head(queue)]
    BY <1>1 DEF PullLast, Running, TypeInv, TypeOK
  <2>2. Len(queue) > 0 /\ queue' \in Seq(Work) /\ Len(queue') = Len(queue) - 1
    <3>1. queue' \in Seq(Work) /\ Len(queue') = 0
      BY <2>1
    <3> QED
      BY <2>1, <3>1
  <2> QED
    BY <2>1, <2>2, PullIsTake DEF Promise!Next
<1>2. CASE PullMore(w)
  <2>1. queue \in Seq(Work) /\ Len(queue) > 0 /\ queue' = Tail(queue)
    BY <1>2 DEF PullMore, TypeInv, TypeOK
  <2>2. \A u \in Workers : Running(u)' <=> Running(u) \/ u = w
    <3>1. [pc EXCEPT ![w] = "running"] \in [Workers -> Pcs]
      BY DEF TypeInv, TypeOK, Pcs
    <3>2. \A u \in Workers :
             \/ pc'[u] = [pc EXCEPT ![w] = "running"][u]
             \/ u \in Blocked /\ pc'[u] = "wait"
      BY <1>2, <3>1, PostEffect DEF PullMore, PostRest
    <3> QED
      BY <1>2, <3>2 DEF PullMore, Running, Blocked, TypeInv, TypeOK
  <2>3. queue' \in Seq(Work) /\ Len(queue') = Len(queue) - 1
    BY <2>1, PullEffect
  <2>4. /\ ~Running(w) /\ UNCHANGED <<added, done>>
        /\ job_p' = [job_p EXCEPT ![w] = Head(queue)]
    BY <1>2 DEF PullMore, Running
  <2> QED
    BY <2>1, <2>2, <2>3, <2>4, PullIsTake DEF Promise!Next
<1>3. CASE Run(w)
  <2>1. /\ Running(w) /\ UNCHANGED <<queue, added, job_p>>
        /\ done' = done \cup {job_p[w]}
        /\ \A u \in Workers : Running(u)' <=> Running(u) /\ u # w
    BY <1>3 DEF Run, Running, TypeInv, TypeOK
  <2>2. job_p[w] \in Active
    BY <2>1 DEF Active, Running
  <2>3. \A u \in Workers : Running(u) /\ job_p[u] = job_p[w] => u = w
    BY <2>1 DEF QueueInv
  <2>4. Active' = Active \ {job_p[w]}
    BY <2>1, <2>3 DEF Active, Running
  <2>5. Promise!Finish(job_p[w])
    BY <2>1, <2>2, <2>4 DEF Promise!Finish
  <2> QED
    BY <2>2, <2>5 DEF Promise!Next
<1>4. CASE \/ Start(w) \/ BsemTake(w) \/ BsemSleep(w) \/ SpuriousWakeup(w)
           \/ CountUp(w) \/ PullNothing(w) \/ CountDown(w)
  <2>1. /\ UNCHANGED <<queue, added, done, job_p>>
        /\ \A u \in Workers : Running(u)' <=> Running(u)
    BY <1>4 DEF Start, BsemTake, BsemSleep, SpuriousWakeup, CountUp, PullNothing,
                CountDown, Running, TypeInv, TypeOK
  <2> QED
    BY <2>1, SameWorkStutters
<1> QED
  BY <1>1, <1>2, <1>3, <1>4 DEF Step

\* The pool is the work queue its caller thinks of: work is taken once, in the
\* order it was added, and ends at most once.
THEOREM PoolImplementsQueue == Spec => ImplementsWorkQueue
<1>1. Init => Promise!Init
  <2> SUFFICES ASSUME Init PROVE Promise!Init
    OBVIOUS
  <2>1. Len(queue) = 0 /\ added = 0 /\ done = {} /\ Active = {}
    BY DEF Init, jobqueue_init, thread_init, Active
  <2> QED
    BY <2>1 DEF Promise!Init
<1>2. TypeInv /\ QueueInv /\ [Next]_vars => [Promise!Next]_(Promise!vars)
  <2> SUFFICES ASSUME TypeInv, QueueInv, [Next]_vars
               PROVE  Promise!Next \/ UNCHANGED Promise!vars
    OBVIOUS
  <2>1. CASE thpool_add_work
    <3>1. \A w \in Workers : Running(w)' <=> Running(w)
      BY <2>1, PostEffect DEF thpool_add_work, jobqueue_push, Running, Blocked, TypeInv, TypeOK
    <3>2. /\ added < MaxWork /\ added' = added + 1 /\ UNCHANGED <<done, job_p>>
          /\ added' - Len(queue') = added - Len(queue)
      BY <2>1 DEF thpool_add_work, jobqueue_push, TypeInv, TypeOK
    <3>3. Active' = Active
      BY <3>1, <3>2 DEF Active, Running
    <3>4. Promise!Submit
      BY <3>2, <3>3 DEF Promise!Submit
    <3> QED
      BY <3>4 DEF Promise!Next
  <2>2. CASE thpool_wait \/ UNCHANGED vars
    <3>1. UNCHANGED <<queue, added, done, job_p, pc>>
      BY <2>2 DEF thpool_wait, WaitCall, WaitReadLen, WaitReadWorking, WaitReturn,
                  vars, worker
    <3> QED
      BY <3>1, SameWorkStutters DEF Running
  <2> QED
    BY <2>1, <2>2, StepImplements DEF Next
<1> QED
  BY <1>1, <1>2, TypesHold, QueueCorrect, PTL
     DEF Spec, ImplementsWorkQueue, Promise!Spec

=============================================================================
