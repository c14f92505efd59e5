----------------------------- MODULE JobService -----------------------------
(***************************************************************************)
(* What the multicast server promises to the operator, whatever threads,   *)
(* clients and messages do: jobs are numbered in the order of the          *)
(* commands; a job that finds clients is cut into as many parts, each part *)
(* is answered at most once, and the job is complete only when all of them *)
(* are. A complete job stays complete.                                     *)
(***************************************************************************)
EXTENDS Naturals

CONSTANTS Jobs,     \* job numbers, 1 .. some bound
          MaxParts  \* parts a job can be cut into: the clients of a group

VARIABLES phase,    \* phase[j]: how far job j is
          parts,    \* parts[j]: number of clients the job was given to
          answered  \* answered[j]: the parts whose result was recorded

vars == <<phase, parts, answered>>

Phases == {"none", "submitted", "running", "complete"}

Init == /\ phase = [j \in Jobs |-> "none"]
        /\ parts = [j \in Jobs |-> 0]
        /\ answered = [j \in Jobs |-> {}]

\* The next command.
Submit(j) ==
    /\ phase[j] = "none"
    /\ \A k \in Jobs : k < j => phase[k] # "none"
    /\ phase' = [phase EXCEPT ![j] = "submitted"]
    /\ UNCHANGED <<parts, answered>>

\* The job is cut for the n clients it found; with none it never completes.
Start(j, n) ==
    /\ phase[j] = "submitted"
    /\ phase' = [phase EXCEPT ![j] = "running"]
    /\ parts' = [parts EXCEPT ![j] = n]
    /\ UNCHANGED answered

Answer(j, i) ==
    /\ phase[j] = "running" /\ i \in 1 .. parts[j] \ answered[j]
    /\ answered' = [answered EXCEPT ![j] = @ \cup {i}]
    /\ UNCHANGED <<phase, parts>>

Finish(j) ==
    /\ phase[j] = "running" /\ parts[j] > 0 /\ answered[j] = 1 .. parts[j]
    /\ phase' = [phase EXCEPT ![j] = "complete"]
    /\ UNCHANGED <<parts, answered>>

Next == \E j \in Jobs : \/ Submit(j)
                        \/ \E n \in 0 .. MaxParts : Start(j, n)
                        \/ \E i \in 1 .. MaxParts : Answer(j, i)
                        \/ Finish(j)

Spec == Init /\ [][Next]_vars

=============================================================================
