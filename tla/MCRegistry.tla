----------------------------- MODULE MCRegistry -----------------------------
(* Instances of Registry for TLC.                                          *)
EXTENDS Registry, TLC

CONSTANTS a, b, g, h

\* A client of two groups and one of the first of them.
TwoGroups == (a :> <<g, h>>) @@ (b :> <<g>>)

=============================================================================
