----------------------------- MODULE MCDispatch -----------------------------
(* Instances of Dispatch for TLC.                                          *)
EXTENDS Dispatch, TLC

CONSTANTS c1, c2

\* Two clients of one group.
OneGroup == [c \in Clients |-> {0}]

\* A client in each of two groups.
TwoGroups == (c1 :> {0}) @@ (c2 :> {1})

\* Two groups that share a client.
Shared == (c1 :> {0, 1}) @@ (c2 :> {1})
=============================================================================
