--------------------------- MODULE MCPartTransfer ---------------------------
(***************************************************************************)
(* PartTransfer for TLC, with chunks of 16 bytes for the 64 of the program *)
(* and reads of 31 for its 79: in both a read holds a chunk with its       *)
(* header and name, and no more. A last chunk of n bytes and the           *)
(* EXECUTE_JOB_ID after it are n + 28 bytes; up to 3 (51 in the program)   *)
(* they fit in one read, above it a full read ends in the second, and 16   *)
(* (64) fill a read.                                                       *)
(***************************************************************************)
EXTENDS PartTransfer

Reads == [client |-> 31, server |-> 16384]

=============================================================================
