----------------------------- MODULE WorkQueue ------------------------------
(***************************************************************************)
(* What a thread pool promises its caller: every piece of work submitted   *)
(* is taken once, in the order of submission, and ends at most once.       *)
(***************************************************************************)
EXTENDS Naturals

CONSTANT MaxWork    \* bound: pieces of work submitted

VARIABLES submitted,  \* pieces of work handed in so far, numbered from 1
          started,    \* pieces of work taken so far: 1 .. started
          active,     \* those being executed
          ended       \* those executed

vars == <<submitted, started, active, ended>>

Init == submitted = 0 /\ started = 0 /\ active = {} /\ ended = {}

Submit == /\ submitted < MaxWork
          /\ submitted' = submitted + 1
          /\ UNCHANGED <<started, active, ended>>

Take == /\ started < submitted
        /\ started' = started + 1
        /\ active' = active \cup {started + 1}
        /\ UNCHANGED <<submitted, ended>>

Finish(j) == /\ j \in active
             /\ active' = active \ {j}
             /\ ended' = ended \cup {j}
             /\ UNCHANGED <<submitted, started>>

Next == Submit \/ Take \/ \E j \in active : Finish(j)

Spec == Init /\ [][Next]_vars

=============================================================================
