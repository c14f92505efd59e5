------------------------- MODULE PoolControlProofs --------------------------
(***************************************************************************)
(* Proofs about PoolControl, for any pools of any size, paused and         *)
(* destroyed in any order. That a pool is freed when no thread uses it any *)
(* more rests on the counter of the living threads, which is exact though  *)
(* the signal of thpool_pause stops threads inside its mutex: a thread     *)
(* counts itself once when it starts and once when it leaves, and all have *)
(* started before thpool_init returns.                                     *)
(***************************************************************************)
EXTENDS PoolControl, FiniteSetTheorems, TLAPS

USE PoolControlAssumption DEF pool, caller, flags, worker

Calls    == {"none", "init", "idle", "add", "destroy", "freed"}
AlivePcs == {"top", "wait", "asleep", "woken", "counting", "pull", "run", "ran", "leave"}
DeadPcs  == {"unlock", "gone"}
Pcs      == {"none", "start"} \cup AlivePcs \cup DeadPcs

TypeInv ==
    /\ call \in [Pools -> Calls]
    /\ alive \in [Pools -> Int]
    /\ pc \in [All -> Pcs]

\* The threads of pool p that have started and not left.
Living(p) == {k \in 1 .. Size[p] : pc[<<p, k>>] \in AlivePcs}

AliveExact == \A p \in Pools : alive[p] = Cardinality(Living(p))

\* Threads are created by thpool_init and have started before it returns.
StartedInv ==
    \A p \in Pools : \A t \in Threads(p) :
        /\ call[p] = "none" <=> pc[t] = "none"
        /\ pc[t] = "start" => call[p] = "init"

FreedInv == \A p \in Pools : call[p] = "freed" => alive[p] = 0

ControlInv == TypeInv /\ AliveExact /\ StartedInv /\ FreedInv

-----------------------------------------------------------------------------
LEMMA ThreadOfPool ==
    ASSUME NEW t \in All
    PROVE  /\ t[1] \in Pools /\ t[2] \in 1 .. Size[t[1]] /\ t = <<t[1], t[2]>>
           /\ t \in Threads(t[1])
BY DEF All, Threads

LEMMA PoolOfThread ==
    ASSUME NEW p \in Pools
    PROVE  /\ Threads(p) \subseteq All
           /\ \A k \in 1 .. Size[p] : <<p, k>> \in Threads(p)
           /\ \A q \in Pools, t \in Threads(p) : t \in Threads(q) => q = p
BY DEF All, Threads

LEMMA IndexSets ==
    ASSUME NEW p \in Pools, NEW T \in SUBSET (1 .. Size[p])
    PROVE  /\ IsFiniteSet(T) /\ Cardinality(T) \in 0 .. Size[p]
           /\ Cardinality(T) = Size[p] => T = 1 .. Size[p]
<1>1. Size[p] \in Nat
  OBVIOUS
<1>2. IsFiniteSet(1 .. Size[p]) /\ Cardinality(1 .. Size[p]) = Size[p]
  BY <1>1, FS_Interval
<1>3. /\ IsFiniteSet(T) /\ Cardinality(T) <= Cardinality(1 .. Size[p])
      /\ Cardinality(1 .. Size[p]) = Cardinality(T) => 1 .. Size[p] = T
  BY <1>2, FS_Subset
<1>4. Cardinality(T) \in Nat
  BY <1>3, FS_CardinalityType
<1> QED
  BY <1>1, <1>2, <1>3, <1>4

LEMMA LivingFinite ==
    ASSUME NEW p \in Pools
    PROVE  /\ IsFiniteSet(Living(p)) /\ Cardinality(Living(p)) \in Nat
           /\ Cardinality(Living(p)) = Size[p] => Living(p) = 1 .. Size[p]
           /\ Cardinality(Living(p)) = 0 => Living(p) = {}
<1>1. Living(p) \in SUBSET (1 .. Size[p])
  BY DEF Living
<1> QED
  BY <1>1, IndexSets, FS_EmptySet

\* A pool that is freed has no thread that uses it.
LEMMA ControlFreed == ControlInv => FreedUnused
<1> SUFFICES ASSUME ControlInv, NEW p \in Pools, call[p] = "freed", NEW t \in Threads(p)
             PROVE  pc[t] \in DeadPcs
  BY DEF FreedUnused, DeadPcs
<1>1. Living(p) = {}
  BY LivingFinite DEF ControlInv, FreedInv, AliveExact
<1>2. pc[t] \notin AlivePcs
  BY <1>1 DEF Living, Threads
<1>3. pc[t] \in Pcs \ {"none", "start"}
  BY PoolOfThread DEF ControlInv, StartedInv, TypeInv
<1> QED
  BY <1>2, <1>3 DEF Pcs

LEMMA InitControl == Init => ControlInv
<1> SUFFICES ASSUME Init PROVE ControlInv
  OBVIOUS
<1>1. TypeInv
  BY DEF Init, TypeInv, Calls, Pcs
<1>2. ASSUME NEW p \in Pools PROVE Living(p) = {}
  BY PoolOfThread DEF Init, Living, AlivePcs
<1>3. AliveExact
  BY <1>2, FS_EmptySet DEF Init, AliveExact
<1>4. StartedInv
  BY PoolOfThread DEF Init, StartedInv
<1> QED
  BY <1>1, <1>3, <1>4 DEF Init, ControlInv, FreedInv

-----------------------------------------------------------------------------
(* Steps at which no thread starts or leaves.                              *)

SameLife(t) ==
    \/ pc'[t] = pc[t]
    \/ \E S \in {AlivePcs, DeadPcs} : pc[t] \in S /\ pc'[t] \in S

Busy == {"idle", "add", "destroy"}

SameCall(p) == call'[p] = call[p] \/ (call[p] \in Busy /\ call'[p] \in Busy)

LEMMA LifeStep ==
    ASSUME ControlInv, UNCHANGED alive,
           call' \in [Pools -> Calls], \A p \in Pools : SameCall(p),
           pc' \in [All -> Pcs], \A t \in All : SameLife(t)
    PROVE  ControlInv'
<1>1. TypeInv'
  BY DEF ControlInv, TypeInv
<1>2. ASSUME NEW p \in Pools PROVE Living(p)' = Living(p)
  <2>1. \A k \in 1 .. Size[p] : SameLife(<<p, k>>)
    BY PoolOfThread
  <2> QED
    BY <2>1 DEF Living, SameLife, AlivePcs, DeadPcs
<1>3. AliveExact'
  BY <1>2 DEF ControlInv, AliveExact
<1>4. StartedInv'
  <2> SUFFICES ASSUME NEW p \in Pools, NEW t \in Threads(p)
               PROVE  /\ call'[p] = "none" <=> pc'[t] = "none"
                      /\ pc'[t] = "start" => call'[p] = "init"
    BY DEF StartedInv
  <2>1. SameLife(t) /\ SameCall(p)
    BY PoolOfThread
  <2> QED
    BY <2>1 DEF ControlInv, StartedInv, SameLife, SameCall, Busy, AlivePcs, DeadPcs
<1>5. FreedInv'
  BY DEF ControlInv, FreedInv, SameCall, Busy
<1> QED
  BY <1>1, <1>3, <1>4, <1>5 DEF ControlInv

\* Nothing that the invariant speaks of changes.
LEMMA QuietStep == ASSUME ControlInv, UNCHANGED <<call, alive, pc>> PROVE ControlInv'
BY LifeStep DEF SameCall, SameLife, ControlInv, TypeInv

\* A thread that runs goes on, and a post may wake another.
LEMMA PostLife ==
    ASSUME TypeInv, NEW p \in Pools, NEW at \in [All -> Pcs], bsem_post(p, at),
           \A t \in All : at[t] = pc[t] \/ (pc[t] \in AlivePcs /\ at[t] \in AlivePcs)
    PROVE  pc' \in [All -> Pcs] /\ \A t \in All : SameLife(t)
<1>1. CASE pc' = at
  BY <1>1 DEF SameLife
<1>2. CASE \E t \in Asleep(p) : pc' = [at EXCEPT ![t] = "wait"]
  <2>1. PICK t \in Asleep(p) : pc' = [at EXCEPT ![t] = "wait"]
    BY <1>2
  <2>2. t \in All /\ pc[t] = "asleep"
    BY PoolOfThread DEF Asleep
  <2> QED
    BY <2>1, <2>2 DEF SameLife, Pcs, AlivePcs
<1> QED
  BY <1>1, <1>2 DEF bsem_post

-----------------------------------------------------------------------------
(* The caller.                                                             *)

LEMMA InitStep == ASSUME ControlInv, NEW p \in Pools, thpool_init(p) PROVE ControlInv'
<1> USE DEF thpool_init
<1>1. TypeInv'
  BY DEF ControlInv, TypeInv, Calls, Pcs
<1>2. \A t \in Threads(p) : pc[t] = "none" /\ pc'[t] = "start"
  BY PoolOfThread DEF ControlInv, StartedInv
<1>3. \A q \in Pools \ {p} : \A t \in Threads(q) : pc'[t] = pc[t]
  BY PoolOfThread
<1>4. ASSUME NEW q \in Pools PROVE Living(q)' = Living(q)
  BY <1>2, <1>3, PoolOfThread DEF Living, AlivePcs
<1>5. AliveExact'
  BY <1>4 DEF ControlInv, AliveExact
<1>6. StartedInv'
  BY <1>2, <1>3 DEF ControlInv, StartedInv, TypeInv
<1>7. FreedInv'
  BY DEF ControlInv, FreedInv, TypeInv
<1> QED
  BY <1>1, <1>5, <1>6, <1>7 DEF ControlInv

\* All threads are counted when the call returns, so all have started.
LEMMA InitReturnsStep == ASSUME ControlInv, NEW p \in Pools, InitReturns(p) PROVE ControlInv'
<1> USE DEF InitReturns
<1>1. TypeInv'
  BY DEF ControlInv, TypeInv, Calls
<1>2. AliveExact'
  BY DEF ControlInv, AliveExact, Living
<1>3. Living(p) = 1 .. Size[p]
  BY LivingFinite DEF ControlInv, AliveExact
<1>4. \A t \in Threads(p) : pc[t] \in AlivePcs
  BY <1>3 DEF Living, Threads
<1>5. StartedInv'
  BY <1>4 DEF ControlInv, StartedInv, TypeInv, AlivePcs
<1>6. FreedInv'
  BY DEF ControlInv, FreedInv, TypeInv
<1> QED
  BY <1>1, <1>2, <1>5, <1>6 DEF ControlInv

LEMMA DestroyReturnsStep ==
    ASSUME ControlInv, NEW p \in Pools, DestroyReturns(p) PROVE ControlInv'
<1> USE DEF DestroyReturns, NobodyAlive
<1>1. TypeInv' /\ AliveExact'
  BY DEF ControlInv, TypeInv, Calls, AliveExact, Living
<1>2. StartedInv'
  BY DEF ControlInv, StartedInv, TypeInv
<1>3. FreedInv'
  BY DEF ControlInv, FreedInv, TypeInv
<1> QED
  BY <1>1, <1>2, <1>3 DEF ControlInv

LEMMA AddReturnsStep == ASSUME ControlInv, NEW p \in Pools, AddReturns(p) PROVE ControlInv'
<1>1. pc' \in [All -> Pcs] /\ \A t \in All : SameLife(t)
  BY PostLife DEF AddReturns, ControlInv, TypeInv
<1>2. call' \in [Pools -> Calls] /\ \A q \in Pools : SameCall(q)
  BY DEF AddReturns, ControlInv, TypeInv, Calls, SameCall, Busy
<1> QED
  BY <1>1, <1>2, LifeStep DEF AddReturns

LEMMA DestroyPostsStep ==
    ASSUME ControlInv, NEW p \in Pools, DestroyPosts(p) PROVE ControlInv'
<1>1. pc' \in [All -> Pcs] /\ \A t \in All : SameLife(t)
  BY DEF DestroyPosts, bsem_post_all, Asleep, ControlInv, TypeInv, SameLife, Pcs, AlivePcs
<1>2. call' \in [Pools -> Calls] /\ \A q \in Pools : SameCall(q)
  BY DEF DestroyPosts, ControlInv, TypeInv, SameCall
<1> QED
  BY <1>1, <1>2, LifeStep DEF DestroyPosts

LEMMA CallerStep ==
    ASSUME ControlInv, NEW p \in Pools,
           \/ thpool_add_work(p) \/ thpool_pause(p) \/ thpool_resume(p) \/ thpool_destroy(p)
    PROVE  ControlInv'
<1>1. CASE thpool_add_work(p) \/ thpool_destroy(p)
  <2>1. call' \in [Pools -> Calls] /\ \A q \in Pools : SameCall(q)
    BY <1>1 DEF thpool_add_work, thpool_destroy, ControlInv, TypeInv, Calls, SameCall, Busy
  <2>2. UNCHANGED <<alive, pc>>
    BY <1>1 DEF thpool_add_work, thpool_destroy
  <2> QED
    BY <2>1, <2>2, LifeStep DEF ControlInv, TypeInv, SameLife
<1>2. CASE thpool_pause(p) \/ thpool_resume(p)
  BY <1>2, QuietStep DEF thpool_pause, thpool_resume
<1> QED
  BY <1>1, <1>2

-----------------------------------------------------------------------------
(* The threads.                                                            *)

\* A thread goes from one place to another of the same kind.
LEMMA GoesLife ==
    ASSUME ControlInv, NEW t \in All, UNCHANGED <<call, alive>>,
           NEW S \in {AlivePcs, DeadPcs}, pc[t] \in S,
           NEW to \in S, pc' = [pc EXCEPT ![t] = to]
    PROVE  ControlInv'
<1>1. pc' \in [All -> Pcs] /\ \A u \in All : SameLife(u)
  BY DEF ControlInv, TypeInv, Pcs, SameLife
<1> QED
  BY <1>1, LifeStep DEF ControlInv, TypeInv, SameCall

\* A thread counts itself when it starts.
LEMMA StartStep == ASSUME ControlInv, NEW t \in All, Start(t) PROVE ControlInv'
<1> DEFINE p == t[1]
           k == t[2]
<1>1. /\ pc[t] = "start" /\ pc' = [pc EXCEPT ![t] = "top"]
      /\ alive' = [alive EXCEPT ![p] = @ + 1] /\ UNCHANGED call
  BY DEF Start, Goes
<1>2. p \in Pools /\ k \in 1 .. Size[p] /\ t = <<p, k>> /\ t \in Threads(p)
  BY ThreadOfPool
<1> HIDE DEF p, k
<1>3. TypeInv'
  BY <1>1, <1>2 DEF ControlInv, TypeInv, Pcs, AlivePcs
<1>4. Living(p)' = Living(p) \cup {k} /\ k \notin Living(p)
  BY <1>1, <1>2, PoolOfThread DEF Living, AlivePcs, ControlInv, TypeInv
<1>5. \A q \in Pools \ {p} : Living(q)' = Living(q)
  BY <1>1, <1>2, PoolOfThread DEF Living, ControlInv, TypeInv
<1>6. AliveExact'
  <2>1. alive'[p] = Cardinality(Living(p)')
    <3>1. alive'[p] = alive[p] + 1 /\ alive[p] = Cardinality(Living(p))
      BY <1>1, <1>2 DEF ControlInv, TypeInv, AliveExact
    <3> QED
      BY <1>2, <1>4, <3>1, LivingFinite, FS_AddElement
  <2>2. ASSUME NEW q \in Pools \ {p} PROVE alive'[q] = Cardinality(Living(q)')
    BY <1>1, <1>5 DEF ControlInv, TypeInv, AliveExact
  <2> QED
    BY <2>1, <2>2 DEF AliveExact
<1>7. StartedInv'
  BY <1>1, PoolOfThread DEF ControlInv, StartedInv, TypeInv
<1>8. call[p] = "init"
  BY <1>1, <1>2 DEF ControlInv, StartedInv
<1>9. FreedInv'
  BY <1>1, <1>8 DEF ControlInv, FreedInv, TypeInv
<1> QED
  BY <1>3, <1>6, <1>7, <1>9 DEF ControlInv

\* A thread takes itself off the count when it leaves; the pool is not freed yet.
LEMMA LeaveStep == ASSUME ControlInv, NEW t \in All, Leave(t) PROVE ControlInv'
<1> DEFINE p == t[1]
           k == t[2]
<1>1. /\ pc[t] = "leave" /\ pc' = [pc EXCEPT ![t] = "unlock"]
      /\ alive' = [alive EXCEPT ![p] = @ - 1] /\ UNCHANGED call
  BY DEF Leave
<1>2. p \in Pools /\ k \in 1 .. Size[p] /\ t = <<p, k>> /\ t \in Threads(p)
  BY ThreadOfPool
<1> HIDE DEF p, k
<1>3. TypeInv'
  BY <1>1, <1>2 DEF ControlInv, TypeInv, Pcs, DeadPcs
<1>4. Living(p)' = Living(p) \ {k} /\ k \in Living(p)
  BY <1>1, <1>2, PoolOfThread DEF Living, AlivePcs, ControlInv, TypeInv
<1>5. \A q \in Pools \ {p} : Living(q)' = Living(q)
  BY <1>1, <1>2, PoolOfThread DEF Living, ControlInv, TypeInv
<1>6. AliveExact'
  <2>1. alive'[p] = Cardinality(Living(p)')
    BY <1>1, <1>2, <1>4, LivingFinite, FS_RemoveElement DEF ControlInv, TypeInv, AliveExact
  <2>2. ASSUME NEW q \in Pools \ {p} PROVE alive'[q] = Cardinality(Living(q)')
    BY <1>1, <1>5 DEF ControlInv, TypeInv, AliveExact
  <2> QED
    BY <2>1, <2>2 DEF AliveExact
<1>7. StartedInv'
  BY <1>1, PoolOfThread DEF ControlInv, StartedInv, TypeInv
<1>8. call[p] # "freed"
  BY <1>2, <1>4, LivingFinite, FS_EmptySet DEF ControlInv, FreedInv, AliveExact
<1>9. FreedInv'
  BY <1>1, <1>8 DEF ControlInv, FreedInv, TypeInv
<1> QED
  BY <1>3, <1>6, <1>7, <1>9 DEF ControlInv

LEMMA PullStep == ASSUME ControlInv, NEW t \in All, Pull(t) PROVE ControlInv'
<1> DEFINE at == [pc EXCEPT ![t] = IF len[t[1]] = 0 THEN "ran" ELSE "run"]
<1>1. pc[t] = "pull" /\ UNCHANGED <<call, alive>> /\ (bsem_post(t[1], at) \/ pc' = at)
  BY DEF Pull
<1>2. /\ at \in [All -> Pcs]
      /\ \A u \in All : at[u] = pc[u] \/ (pc[u] \in AlivePcs /\ at[u] \in AlivePcs)
  BY <1>1 DEF ControlInv, TypeInv, Pcs, AlivePcs
<1>3. t[1] \in Pools
  BY ThreadOfPool
<1> HIDE DEF at
<1>4. pc' \in [All -> Pcs] /\ \A u \in All : SameLife(u)
  BY <1>1, <1>2, <1>3, PostLife DEF ControlInv, SameLife
<1> QED
  BY <1>1, <1>4, LifeStep DEF ControlInv, TypeInv, SameCall

LEMMA ThreadStep == ASSUME ControlInv, NEW t \in All, thread_do(t) PROVE ControlInv'
<1>1. CASE Loop(t) \/ bsem_wait(t) \/ Check(t) \/ CountUp(t) \/ Run(t) \/ CountDown(t)
  <2>1. /\ UNCHANGED <<call, alive>> /\ pc[t] \in AlivePcs
        /\ \E to \in AlivePcs : pc' = [pc EXCEPT ![t] = to]
    BY <1>1 DEF Loop, bsem_wait, Check, CountUp, Run, CountDown, Goes, AlivePcs
  <2> QED
    BY <2>1, GoesLife
<1>2. CASE Unlock(t)
  <2>1. /\ UNCHANGED <<call, alive>> /\ pc[t] \in DeadPcs
        /\ \E to \in DeadPcs : pc' = [pc EXCEPT ![t] = to]
    BY <1>2 DEF Unlock, Goes, DeadPcs
  <2> QED
    BY <2>1, GoesLife
<1>3. CASE thread_hold(t) \/ HoldEnds(t)
  BY <1>3, QuietStep DEF thread_hold, HoldEnds
<1> QED
  BY <1>1, <1>2, <1>3, StartStep, LeaveStep, PullStep DEF thread_do

-----------------------------------------------------------------------------
LEMMA NextControl == ControlInv /\ [Next]_vars => ControlInv'
<1> SUFFICES ASSUME ControlInv, [Next]_vars PROVE ControlInv'
  OBVIOUS
<1>1. CASE UNCHANGED vars
  BY <1>1, QuietStep DEF vars
<1>2. ASSUME NEW p \in Pools, Returns(p) PROVE ControlInv'
  BY <1>2, InitReturnsStep, AddReturnsStep, DestroyPostsStep, DestroyReturnsStep DEF Returns
<1> QED
  BY <1>1, <1>2, InitStep, CallerStep, ThreadStep DEF Next

-----------------------------------------------------------------------------
(* Types. The counter is in its range because it is exact.                 *)

LEMMA CounterRange ==
    ASSUME ControlInv'
    PROVE  /\ alive' \in [Pools -> Nat] /\ \A p \in Pools : alive'[p] <= Size[p]
           /\ call' \in [Pools -> Calls] /\ pc' \in [All -> Pcs]
<1>1. ASSUME NEW p \in Pools PROVE alive'[p] \in 0 .. Size[p]
  <2>1. Living(p)' \in SUBSET (1 .. Size[p])
    BY DEF Living
  <2> QED
    BY <2>1, IndexSets DEF ControlInv, AliveExact
<1> QED
  BY <1>1 DEF ControlInv, TypeInv

QueueTypes ==
    /\ threads_keepalive \in BOOLEAN /\ threads_on_hold \in BOOLEAN
    /\ v \in [Pools -> {0, 1}]
    /\ len \in [Pools -> Nat] /\ added \in [Pools -> Nat]
    /\ \A p \in Pools : len[p] + (IF call[p] = "add" THEN 1 ELSE 0) <= added[p]
    /\ \A p \in Pools : added[p] <= MaxWork[p]
    /\ pauses \in 0 .. MaxPauses

StopTypes ==
    /\ signal \subseteq All /\ held \subseteq All
    /\ mutexes \in [All -> SUBSET {"count", "sem", "queue"}]

LEMMA TypeParts ==
    TypeOK <=> /\ QueueTypes /\ StopTypes
               /\ alive \in [Pools -> Nat] /\ \A p \in Pools : alive[p] <= Size[p]
               /\ call \in [Pools -> Calls] /\ pc \in [All -> Pcs]
BY DEF TypeOK, QueueTypes, StopTypes, Calls, Pcs, AlivePcs, DeadPcs

LEMMA CallerTypes ==
    ASSUME TypeOK, NEW p \in Pools,
           \/ thpool_init(p) \/ thpool_add_work(p) \/ thpool_pause(p)
           \/ thpool_resume(p) \/ thpool_destroy(p) \/ Returns(p)
    PROVE  QueueTypes' /\ StopTypes'
<1> USE TypeParts DEF QueueTypes, StopTypes
<1>1. CASE thpool_init(p) \/ thpool_resume(p) \/ thpool_destroy(p)
  BY <1>1 DEF thpool_init, thpool_resume, thpool_destroy
<1>2. CASE thpool_add_work(p)
  BY <1>2 DEF thpool_add_work
<1>3. CASE thpool_pause(p)
  <2>1. signal' \subseteq All
    <3>1. alive[p] \in Nat /\ alive[p] <= Size[p] /\ Size[p] \in Nat
      OBVIOUS
    <3>2. \A k \in 1 .. alive[p] : <<p, k>> \in All
      BY <3>1, PoolOfThread
    <3> QED
      BY <1>3, <3>2 DEF thpool_pause
  <2>2. pauses' \in 0 .. MaxPauses /\ UNCHANGED <<flags, call, added, pool, held, mutexes>>
    BY <1>3 DEF thpool_pause
  <2> QED
    BY <2>1, <2>2
<1>4. CASE InitReturns(p)
  BY <1>4 DEF InitReturns
<1>5. CASE AddReturns(p)
  BY <1>5 DEF AddReturns, bsem_post
<1>6. CASE DestroyPosts(p)
  BY <1>6 DEF DestroyPosts, bsem_post_all
<1>7. CASE DestroyReturns(p)
  BY <1>7 DEF DestroyReturns
<1> QED
  BY <1>1, <1>2, <1>3, <1>4, <1>5, <1>6, <1>7 DEF Returns

LEMMA LocksNamed ==
    ASSUME NEW t, NEW i \in 1 .. Len(Locks(t))
    PROVE  Locks(t)[i] \in {"count", "sem", "queue"}
BY DEF Locks

LEMMA ThreadTypes ==
    ASSUME TypeOK, NEW t \in All, thread_do(t)
    PROVE  QueueTypes' /\ StopTypes'
<1> USE TypeParts DEF QueueTypes, StopTypes
<1>0. t[1] \in Pools
  BY ThreadOfPool
<1>1. CASE \/ Start(t) \/ Loop(t) \/ bsem_wait(t) \/ Check(t) \/ CountUp(t)
           \/ Run(t) \/ CountDown(t) \/ Unlock(t)
  BY <1>0, <1>1 DEF Start, Loop, bsem_wait, Check, CountUp, Run, CountDown, Unlock, Goes, UnlockAll
<1>2. CASE Pull(t)
  <2>1. len' = [len EXCEPT ![t[1]] = IF @ = 0 THEN 0 ELSE @ - 1] /\ UNCHANGED <<flags, caller>>
    BY <1>2 DEF Pull
  <2>2. QueueTypes'
    BY <1>0, <1>2, <2>1 DEF Pull, bsem_post
  <2>3. StopTypes'
    BY <1>2 DEF Pull, UnlockAll
  <2> QED
    BY <2>2, <2>3
<1>3. CASE thread_hold(t)
  <2>1. ASSUME NEW n \in 1 .. Len(Locks(t)) PROVE Locked(t, n) \subseteq {"count", "sem", "queue"}
    BY LocksNamed DEF Locked
  <2> QED
    BY <1>3, <2>1 DEF thread_hold
<1>4. CASE HoldEnds(t)
  BY <1>4 DEF HoldEnds
<1>5. CASE Leave(t)
  BY <1>0, <1>5 DEF Leave
<1> QED
  BY <1>1, <1>2, <1>3, <1>4, <1>5 DEF thread_do

\* Every variable keeps its type; the counter of the living threads stays within
\* the size of its pool and the queue within what was added.
THEOREM ControlTyped == Spec => []TypeOK
<1>1. ASSUME Init PROVE TypeOK
  <2>1. \A p \in Pools : Size[p] \in Nat
    OBVIOUS
  <2>2. QueueTypes
    <3>1. threads_keepalive \in BOOLEAN /\ threads_on_hold \in BOOLEAN
      BY <1>1 DEF Init
    <3>2. /\ v \in [Pools -> {0, 1}] /\ len \in [Pools -> Nat]
          /\ added \in [Pools -> Nat] /\ pauses \in 0 .. MaxPauses
      BY <1>1 DEF Init
    <3>3. \A p \in Pools : /\ len[p] + (IF call[p] = "add" THEN 1 ELSE 0) <= added[p]
                           /\ added[p] <= MaxWork[p]
      BY <1>1 DEF Init
    <3> QED
      BY <3>1, <3>2, <3>3 DEF QueueTypes
  <2>3. StopTypes
    BY <1>1 DEF Init, StopTypes
  <2>4. alive \in [Pools -> Nat] /\ \A p \in Pools : alive[p] <= Size[p]
    BY <1>1, <2>1 DEF Init
  <2>5. call \in [Pools -> Calls] /\ pc \in [All -> Pcs]
    BY <1>1 DEF Init, Calls, Pcs
  <2> QED
    BY <2>2, <2>3, <2>4, <2>5, TypeParts
<1>2. TypeOK /\ ControlInv /\ ControlInv' /\ [Next]_vars => TypeOK'
  <2> SUFFICES ASSUME TypeOK, ControlInv', [Next]_vars PROVE TypeOK'
    OBVIOUS
  <2>1. CASE UNCHANGED vars
    BY <2>1 DEF vars, TypeOK
  <2>2. QueueTypes' /\ StopTypes' => TypeOK'
    BY CounterRange DEF TypeOK, QueueTypes, StopTypes, Calls, Pcs, AlivePcs, DeadPcs
  <2> QED
    BY <2>1, <2>2, CallerTypes, ThreadTypes DEF Next
<1> QED
  BY <1>1, <1>2, InitControl, NextControl, PTL DEF Spec

\* When thpool_destroy has freed a pool, none of its threads comes to its queue, its
\* semaphore or its counters any more, wherever the signals of thpool_pause have
\* stopped threads and whatever other pools do to the flags.
THEOREM FreedCorrect == Spec => []FreedUnused
BY InitControl, NextControl, ControlFreed, PTL DEF Spec

=============================================================================
