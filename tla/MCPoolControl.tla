--------------------------- MODULE MCPoolControl ----------------------------
(* Instances of PoolControl for TLC.                                       *)
EXTENDS PoolControl, TLC

CONSTANTS p1, p2

\* Pools of one thread.
Ones == [p \in Pools |-> 1]

\* More than one piece of work can wait in the queue of p1 only.
Works == [p \in Pools |-> IF p = p1 THEN 2 ELSE 1]

=============================================================================
