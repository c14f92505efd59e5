--------------------------- MODULE MessageChannel ---------------------------
(***************************************************************************)
(* What the two ends of a connection count on: the handler of a message is *)
(* called once for each message, in the order they were sent, with all of  *)
(* the message. Once the stream is torn, a message may come damaged.       *)
(***************************************************************************)
EXTENDS Naturals, Sequences

CONSTANTS Messages, Damaged

VARIABLES sent, handled, torn

vars == <<sent, handled, torn>>

Init == sent = <<>> /\ handled = <<>> /\ torn = FALSE

Send == \E m \in Messages : sent' = Append(sent, m) /\ UNCHANGED <<handled, torn>>

Tear == ~torn /\ torn' = TRUE /\ UNCHANGED <<sent, handled>>

Handle ==
    /\ Len(handled) < Len(sent)
    /\ \/ handled' = Append(handled, sent[Len(handled) + 1])
       \/ torn /\ handled' = Append(handled, Damaged)
    /\ UNCHANGED <<sent, torn>>

Next == Send \/ Tear \/ Handle

Spec == Init /\ [][Next]_vars

=============================================================================
