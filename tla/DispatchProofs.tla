--------------------------- MODULE DispatchProofs ---------------------------
(***************************************************************************)
(* Proofs about Dispatch, for every set of clients, every group layout and *)
(* every bound, whatever the operator does.                                *)
(***************************************************************************)
EXTENDS Dispatch, FiniteSetTheorems, TLAPS

USE DispatchAssumption
    DEF server, work, net, answer, add_job, update_group_with_job_assigned,
        update_job_status_and_group, update_client_status_to_free,
        get_group_id_from_job, update_job_status_to_completed, update_job_result,
        NoFile

-----------------------------------------------------------------------------
(* Types. They hold together with this: every job number that a group, a   *)
(* task, a message or an answer carries on is one that was given.          *)

Given == 1 .. job_id

\* Handlers that have read their group from the argument block.
Reading(h) == handler[h].pc \notin {"none", "queued", "pulled"}

GivenInv ==
    /\ job_id > 0 => groups[args.group_id].job_id \in Given
    /\ \A h \in JobIds : handler[h].pc # "none" => h \in Given
    /\ \A h \in JobIds : Reading(h) => groups[handler[h].mg_id].job_id \in Given
    /\ \A t \in Tasks : task[t].pc # "none" =>
          task[t].prefix \in Given /\ Reading(t[1])
    /\ \A c \in Clients : \A i \in 1 .. Len(sock[c]) :
          sock[c][i].type = "exec" => sock[c][i].job \in Given
    /\ \A t \in Tasks : reply[t].pc # "none" => reply[t].job \in Given

FilesFinite == \A j \in JobIds : IsFiniteSet(results[j])

TypeInv == TypeOK /\ GivenInv /\ FilesFinite

\* The free clients of a group can be counted.
LEMMA FreeMembersFinite ==
    ASSUME TypeOK, NEW g \in Entries
    PROVE  FreeMembers(g) \subseteq Clients /\ Cardinality(FreeMembers(g)) \in Nat
<1>1. FreeMembers(g) \subseteq Clients
  BY DEF FreeMembers, TypeOK, GroupEntries
<1> QED
  BY <1>1, FS_Subset, FS_CardinalityType

\* find_free_group returns an index of the array, or the entry before it.
LEMMA FoundGroup == find_free_group \in Entries
  BY DEF find_free_group, FreeGroups, Entries, NoGroup

\* What a step may do to the handlers: one that has read its group keeps it, and
\* one that comes to read it takes it from the argument block.
HandlersMove ==
    \A h \in JobIds :
        \/ handler'[h] = handler[h]
        \/ /\ handler[h].pc # "none" /\ handler'[h].pc # "none"
           /\ Reading(h) => Reading(h)' /\ handler'[h].mg_id = handler[h].mg_id
           /\ Reading(h)' => Reading(h) \/ handler'[h].mg_id = args.group_id

\* What a step may do to the socket buffers.
MessagesMove ==
    \A c \in Clients : \A i \in 1 .. Len(sock'[c]) :
        sock'[c][i].type = "exec" => sock'[c][i].job \in Given

\* Between two commands job numbers only travel.
LEMMA GivenKept ==
    ASSUME TypeOK, GivenInv, UNCHANGED <<job_id, args>>,
           \A g \in Entries : groups'[g].job_id = groups[g].job_id,
           HandlersMove, MessagesMove,
           \A t \in Tasks : \/ task'[t] = task[t]
                            \/ task'[t].prefix \in Given /\ Reading(t[1])
                            \/ task[t].pc # "none" /\ task'[t].prefix = task[t].prefix,
           \A t \in Tasks : reply'[t].pc # "none" => reply'[t].job \in Given
    PROVE  GivenInv'
<1>1. /\ args.group_id \in Entries /\ job_id \in Nat
      /\ \A h \in JobIds : handler[h].mg_id \in Entries
      /\ \A t \in Tasks : t[1] \in JobIds
  BY DEF TypeOK, Arguments, HandlerFrames, Tasks
<1>2. Given' = Given
  BY DEF Given
<1>3. \A h \in JobIds : Reading(h) => Reading(h)'
  BY DEF HandlersMove, Reading
<1>4. (job_id > 0 => groups[args.group_id].job_id \in Given)'
  BY <1>1, <1>2 DEF GivenInv
<1>5. \A h \in JobIds : handler'[h].pc # "none" => h \in Given'
  BY <1>2 DEF HandlersMove, GivenInv
<1>6. ASSUME NEW h \in JobIds, Reading(h)'
      PROVE  groups'[handler'[h].mg_id].job_id \in Given'
  <2>1. groups'[handler'[h].mg_id].job_id = groups[handler'[h].mg_id].job_id
    BY <1>1, <1>6 DEF HandlersMove, Reading
  <2>2. groups[handler'[h].mg_id].job_id \in Given
    BY <1>1, <1>6 DEF HandlersMove, GivenInv, Reading, Given, JobIds
  <2> QED
    BY <1>2, <2>1, <2>2
<1>7. \A t \in Tasks : task'[t].pc # "none" =>
         task'[t].prefix \in Given' /\ Reading(t[1])'
  BY <1>1, <1>2, <1>3 DEF GivenInv
<1> QED
  BY <1>2, <1>4, <1>5, <1>6, <1>7 DEF GivenInv, MessagesMove

-----------------------------------------------------------------------------
(* Registration and the command.                                           *)

\* Registration keeps the types.
LEMMA RegisterTypes ==
    ASSUME TypeInv, NEW c \in Clients, Register(c)
    PROVE  TypeInv'
<1> USE DEF TypeInv
<1>1. CASE RegisterGroups(c)
  <2>1. groups \in [Entries -> GroupEntries]
    BY DEF TypeOK
  <2>2. /\ groups' \in [Entries -> GroupEntries]
        /\ \A g \in Entries : groups'[g].job_id = groups[g].job_id
    BY <1>1, <2>1 DEF RegisterGroups, GroupEntries
  <2>3. GivenInv'
    BY <1>1, <2>2, GivenKept
       DEF RegisterGroups, HandlersMove, MessagesMove, GivenInv
  <2> QED
    BY <1>1, <2>2, <2>3 DEF RegisterGroups, TypeOK, FilesFinite
<1>2. CASE RegisterClient(c)
  <2>1. clients \in [Clients -> ClientEntries]
    BY DEF TypeOK
  <2>2. [clients[c] EXCEPT !.present = TRUE] \in ClientEntries
    BY <2>1 DEF ClientEntries
  <2>3. clients' \in [Clients -> ClientEntries]
    BY <1>2, <2>1, <2>2 DEF RegisterClient
  <2>4. GivenInv'
    BY <1>2, GivenKept
       DEF RegisterClient, HandlersMove, MessagesMove, GivenInv
  <2> QED
    BY <1>2, <2>3, <2>4 DEF RegisterClient, TypeOK, FilesFinite
<1> QED
  BY <1>1, <1>2 DEF Register

\* A command keeps the types, and the number it gives is new to everybody.
LEMMA CommandTypes ==
    ASSUME TypeInv, StartJob
    PROVE  TypeInv'
<1> USE DEF TypeInv
<1> DEFINE j == job_id + 1
           g == find_free_group
<1>1. /\ job_id \in Nat /\ j \in JobIds /\ job_id' = j /\ j \in Ops
      /\ job_id' \in 0 .. MaxJobs
      /\ g \in Entries
  BY FoundGroup DEF StartJob, TypeOK, JobIds, Ops
<1> HIDE DEF j, g
<1>2. lines' \in [JobIds -> Nat]
  <2>1. PICK n \in Sizes : lines' = [lines EXCEPT ![j] = n]
    BY DEF StartJob, j
  <2> QED
    BY <1>1, <2>1 DEF TypeOK
<1>3. jobs' \in [JobIds -> JobEntries]
  <2>1. [group_id |-> 0, number_of_clients |-> 0, status |-> NOT_STARTED,
         result |-> {}] \in JobEntries
    BY DEF JobEntries, Entries, Groups
  <2> QED
    BY <1>1, <2>1 DEF StartJob, TypeOK, j
<1>4. /\ groups' \in [Entries -> GroupEntries]
      /\ groups'[g].job_id = j
      /\ \A f \in Entries : f # g => groups'[f].job_id = groups[f].job_id
  <2>1. groups \in [Entries -> GroupEntries]
    BY DEF TypeOK
  <2>2. groups' = [groups EXCEPT ![g].job_id = j, ![g].group_status = BUSY]
    BY DEF StartJob, j, g
  <2> QED
    BY <1>1, <2>1, <2>2 DEF GroupEntries
<1>5. args' \in Arguments /\ args'.group_id = g
  BY <1>1 DEF StartJob, Arguments, j, g
<1>6. /\ handler' \in [JobIds -> HandlerFrames]
      /\ \A h \in JobIds : handler'[h].mg_id = handler[h].mg_id
                           /\ (Reading(h)' => Reading(h))
                           /\ (h # j => handler'[h] = handler[h])
  <2>1. handler \in [JobIds -> HandlerFrames]
    BY DEF TypeOK
  <2>2. handler' = [handler EXCEPT ![j].pc = "queued"]
    BY DEF StartJob, j
  <2> QED
    BY <1>1, <2>1, <2>2 DEF HandlerFrames, HandlerPcs, Reading
<1>7. UNCHANGED <<clients, split, task, net, answer, up>>
  BY DEF StartJob
<1>8. TypeOK'
  BY <1>1, <1>2, <1>3, <1>4, <1>5, <1>6, <1>7 DEF TypeOK
<1>9. GivenInv'
  <2>1. Given \subseteq Given' /\ j \in Given' /\ j \notin Given
    BY <1>1 DEF Given, j
  <2>2. \A f \in Entries : groups[f].job_id \in Given => groups'[f].job_id \in Given'
    BY <1>1, <1>4, <2>1
  <2>3. \A h \in JobIds : Reading(h) => h # j /\ Reading(h)'
    BY <1>6, <2>1 DEF Reading, GivenInv
  <2>4. \A h \in JobIds : handler[h].mg_id \in Entries
    BY DEF TypeOK, HandlerFrames
  <2>5. \A h \in JobIds : Reading(h)' => groups'[handler'[h].mg_id].job_id \in Given'
    BY <1>6, <2>2, <2>4 DEF GivenInv
  <2>6. \A t \in Tasks : task'[t].pc # "none" =>
           task'[t].prefix \in Given' /\ Reading(t[1])'
    BY <1>7, <2>1, <2>3 DEF GivenInv, Tasks
  <2>7. \A h \in JobIds : handler'[h].pc # "none" => h \in Given'
    BY <1>6, <2>1 DEF GivenInv
  <2> QED
    BY <1>1, <1>4, <1>5, <1>7, <2>1, <2>5, <2>6, <2>7 DEF GivenInv
<1> QED
  BY <1>7, <1>8, <1>9 DEF FilesFinite

-----------------------------------------------------------------------------
(* The handler of a command.                                               *)

\* A job that is started keeps its other fields.
LEMMA StartedJobTyped ==
    ASSUME jobs \in [JobIds -> JobEntries], NEW j, NEW g \in Entries, NEW n \in Int
    PROVE  update_job_status_and_group(j, g, n) \in [JobIds -> JobEntries]
<1>1. CASE j \in JobIds
  BY <1>1 DEF JobEntries
<1>2. CASE j \notin JobIds
  BY <1>2
<1> QED
  BY <1>1, <1>2

\* The lines of a part are counted.
LEMMA LinesPerPart ==
    ASSUME TypeOK, NEW f \in Ops, NEW n \in Nat
    PROVE  LinesIn(f) \in Nat /\ PartLines(f, n) \in Nat
<1>1. LinesIn(f) \in Nat
  BY DEF LinesIn, TypeOK, Ops, JobIds
<1>2. ASSUME NEW l \in Nat, n >= 1
      PROVE  l \div n \in Nat
  BY <1>2
<1> QED
  BY <1>1, <1>2 DEF PartLines

\* Between two accesses a handler changes its own frame.
LEMMA HandleTypes ==
    ASSUME TypeInv, NEW h \in JobIds, Handle(h)
    PROVE  TypeInv'
<1> USE DEF TypeInv
<1>1. handler \in [JobIds -> HandlerFrames] /\ handler[h] \in HandlerFrames
  BY DEF TypeOK
<1>2. handler[h].mg_id \in Entries /\ args \in Arguments
  BY <1>1 DEF HandlerFrames, TypeOK
<1>a. ASSUME handler' \in [JobIds -> HandlerFrames], HandlersMove,
             UNCHANGED <<server, split, task, net, answer>>, up' \in BOOLEAN
      PROVE  TypeInv'
  <2>1. GivenInv'
    BY <1>a, GivenKept DEF MessagesMove, GivenInv
  <2> QED
    BY <1>a, <2>1 DEF TypeOK, FilesFinite
<1>3. CASE HandlerPull(h)
  <2>1. handler' \in [JobIds -> HandlerFrames] /\ HandlersMove
    BY <1>1, <1>3 DEF HandlerPull, HandlerFrames, HandlerPcs, HandlersMove, Reading
  <2> QED
    BY <1>3, <1>a, <2>1 DEF HandlerPull, TypeOK
<1>4. CASE HandlerArgs(h)
  <2>1. handler' \in [JobIds -> HandlerFrames] /\ HandlersMove
    BY <1>1, <1>2, <1>4
       DEF HandlerArgs, HandlerFrames, HandlerPcs, HandlersMove, Reading, Arguments
  <2> QED
    BY <1>4, <1>a, <2>1 DEF HandlerArgs, TypeOK
<1>5. CASE HandlerFile(h)
  <2>1. PICK f \in NamesRead(args.file) :
           handler' = [handler EXCEPT ![h].pc = "named", ![h].file = f]
    BY <1>5 DEF HandlerFile
  <2>2. f \in Ops /\ handler[h].pc = "args"
    BY <1>2, <1>5 DEF HandlerFile, NamesRead, Arguments, Ops
  <2>3. handler' \in [JobIds -> HandlerFrames] /\ HandlersMove
    BY <1>1, <2>1, <2>2 DEF HandlerFrames, HandlerPcs, HandlersMove, Reading
  <2> QED
    BY <1>5, <1>a, <2>3 DEF HandlerFile, TypeOK
<1>6. CASE HandlerCount(h)
  <2>1. PICK n \in Int :
           handler' = [handler EXCEPT ![h].pc = "counted", ![h].size = n]
    <3>1. Cardinality(FreeMembers(handler[h].mg_id)) \in Int 
      BY <1>2, FreeMembersFinite
    <3>2. CASE groups[handler[h].mg_id].members # {}
      BY <1>6, <3>1, <3>2 DEF HandlerCount
    <3>3. CASE groups[handler[h].mg_id].members = {}
      <4>1. PICK n \in WildSizes :
               handler' = [handler EXCEPT ![h].pc = "counted", ![h].size = n]
        BY <1>6, <3>3 DEF HandlerCount
      <4>2. WildSizes \subseteq Int
        BY DEF WildSizes
      <4>3. n \in Int
        BY <4>1, <4>2
      <4> QED
        BY <4>1, <4>3
    <3> QED
      BY <3>2, <3>3
  <2>2. handler[h].pc = "named"
    BY <1>6 DEF HandlerCount
  <2>3. handler' \in [JobIds -> HandlerFrames] /\ HandlersMove
    BY <1>1, <2>1, <2>2 DEF HandlerFrames, HandlerPcs, HandlersMove, Reading
  <2> QED
    BY <1>6, <1>a, <2>3 DEF HandlerCount, TypeOK
<1>7. CASE HandlerFill(h)
  <2> DEFINE n == IF handler[h].size = 0 THEN 1 ELSE handler[h].size
  <2>1. n \in Int
    BY <1>1 DEF HandlerFrames
  <2>2. PICK a \in [1 .. n -> Someone] :
           handler' = [handler EXCEPT ![h].pc = "filled", ![h].arr = a]
    BY <1>7 DEF HandlerFill, Someone
  <2> HIDE DEF n
  <2>3. a \in Seq(Someone)
    <3>1. CASE n \in Nat
      BY <3>1
    <3>2. CASE n \notin Nat
      <4>1. 1 .. n = 1 .. 0
        BY <2>1, <3>2
      <4>2. 0 \in Nat /\ a \in [1 .. 0 -> Someone]
        BY <4>1
      <4> QED
        BY <4>2
    <3> QED
      BY <3>1, <3>2
  <2>4. handler[h].pc = "counted"
    BY <1>7 DEF HandlerFill
  <2>5. handler' \in [JobIds -> HandlerFrames] /\ HandlersMove
    BY <1>1, <2>2, <2>3, <2>4 DEF HandlerFrames, HandlerPcs, HandlersMove, Reading
  <2> QED
    BY <1>7, <1>a, <2>5 DEF HandlerFill, TypeOK
<1>8. CASE HandlerReturn(h)
  <2>1. handler' \in [JobIds -> HandlerFrames] /\ HandlersMove
    BY <1>1, <1>8 DEF HandlerReturn, HandlerFrames, HandlerPcs, HandlersMove, Reading
  <2> QED
    BY <1>8, <1>a, <2>1 DEF HandlerReturn, TypeOK
<1>9. CASE HandlerAssign(h)
  <2>1. clients' \in [Clients -> ClientEntries]
    <3>1. ASSUME NEW c \in Clients
          PROVE  AssignedEntry(c, groups[handler[h].mg_id].job_id) \in ClientEntries
      <4>1. clients[c] \in ClientEntries
        BY DEF TypeOK
      <4>2. groups[handler[h].mg_id].job_id \in Ops
        BY <1>2 DEF TypeOK, GroupEntries
      <4> QED
        BY <4>1, <4>2 DEF AssignedEntry, ClientEntries
    <3> QED
      BY <1>9, <3>1 DEF HandlerAssign, TypeOK
  <2>2. handler' \in [JobIds -> HandlerFrames] /\ HandlersMove
    BY <1>1, <1>9 DEF HandlerAssign, HandlerFrames, HandlerPcs, HandlersMove, Reading
  <2>3. GivenInv'
    BY <1>9, <2>2, GivenKept DEF HandlerAssign, MessagesMove, GivenInv
  <2> QED
    BY <1>9, <2>1, <2>2, <2>3 DEF HandlerAssign, TypeOK, FilesFinite
<1>10. CASE HandlerUpdate(h)
  <2> HIDE DEF update_job_status_and_group
  <2>1. /\ jobs' = update_job_status_and_group(groups[handler[h].mg_id].job_id,
                                               handler[h].mg_id, handler[h].size)
        /\ handler' = [handler EXCEPT ![h].pc = "updated"] /\ handler[h].pc = "assigned"
        /\ UNCHANGED <<job_id, lines, groups, clients, args, split, task, net, answer, up>>
    BY <1>10 DEF HandlerUpdate
  <2>2. jobs' \in [JobIds -> JobEntries]
    <3>1. jobs \in [JobIds -> JobEntries] /\ handler[h].size \in Int
      BY <1>1 DEF TypeOK, HandlerFrames
    <3> QED
      BY <1>2, <2>1, <3>1, StartedJobTyped
  <2>3. handler' \in [JobIds -> HandlerFrames] /\ HandlersMove
    BY <1>1, <2>1 DEF HandlerFrames, HandlerPcs, HandlersMove, Reading
  <2>4. GivenInv'
    BY <2>1, <2>3, GivenKept DEF MessagesMove, GivenInv
  <2> QED
    BY <2>1, <2>2, <2>3, <2>4 DEF TypeOK, FilesFinite
<1>11. CASE HandlerSplit(h)
  <2>1. split' \in [JobIds -> [file : Ops, per : Nat]]
    <3>1. handler[h].file \in Ops /\ PartLines(handler[h].file, Len(handler[h].arr)) \in Nat
      BY <1>1, LinesPerPart DEF HandlerFrames
    <3> HIDE DEF PartLines
    <3> QED
      BY <1>11, <3>1 DEF HandlerSplit, TypeOK
  <2>2. handler' \in [JobIds -> HandlerFrames] /\ HandlersMove
    BY <1>1, <1>11 DEF HandlerSplit, HandlerFrames, HandlerPcs, HandlersMove, Reading
  <2>3. GivenInv'
    BY <1>11, <2>2, GivenKept DEF HandlerSplit, MessagesMove, GivenInv
  <2> QED
    BY <1>11, <2>1, <2>2, <2>3 DEF HandlerSplit, TypeOK, FilesFinite
<1>12. CASE HandlerDispatch(h)
  <2> DEFINE j == groups[handler[h].mg_id].job_id
  <2>1. j \in Given /\ j \in Ops /\ Reading(h)
    BY <1>2, <1>12 DEF HandlerDispatch, GivenInv, Reading, TypeOK, GroupEntries
  <2>2. PICK i : task' = [task EXCEPT ![<<h, i>>] = [pc |-> "queued", prefix |-> j]]
    BY <1>12 DEF HandlerDispatch
  <2> HIDE DEF j
  <2>3. /\ task \in [Tasks -> [pc : TaskPcs, prefix : Ops]]
        /\ [pc |-> "queued", prefix |-> j] \in [pc : TaskPcs, prefix : Ops]
    BY <2>1 DEF TaskPcs, TypeOK
  <2>4. /\ task' \in [Tasks -> [pc : TaskPcs, prefix : Ops]]
        /\ \A t \in Tasks :
              \/ task'[t] = task[t]
              \/ (t = <<h, i>> /\ task'[t] = [pc |-> "queued", prefix |-> j])
    <3> DEFINE e == [pc |-> "queued", prefix |-> j]
    <3>1. e \in [pc : TaskPcs, prefix : Ops] /\ task' = [task EXCEPT ![<<h, i>>] = e]
      BY <2>2, <2>3
    <3> HIDE DEF e
    <3>2. /\ task' \in [Tasks -> [pc : TaskPcs, prefix : Ops]]
          /\ \A t \in Tasks : task'[t] = task[t] \/ (t = <<h, i>> /\ task'[t] = e)
      BY <2>3, <3>1
    <3> QED
      BY <3>2 DEF e
  <2>5. \A t \in Tasks : task'[t] = task[t] \/ (task'[t].prefix \in Given /\ Reading(t[1]))
    BY <2>1, <2>4
  <2>6. HandlersMove /\ UNCHANGED <<server, handler, split, net, answer, up>>
    BY <1>12 DEF HandlerDispatch, HandlersMove
  <2>7. GivenInv'
    BY <2>5, <2>6, GivenKept DEF MessagesMove, GivenInv
  <2> QED
    BY <2>4, <2>6, <2>7 DEF TypeOK, FilesFinite
<1> QED
  BY <1>3, <1>4, <1>5, <1>6, <1>7, <1>8, <1>9, <1>10, <1>11, <1>12 DEF Handle

-----------------------------------------------------------------------------
(* Sending the parts and the answers of the clients.                       *)

\* An element of a sequence one longer is the new one or an old one.
LEMMA AppendEffect ==
    ASSUME NEW S, NEW q \in Seq(S), NEW e \in S
    PROVE  \A i \in 1 .. Len(Append(q, e)) :
              Append(q, e)[i] = e \/ (i \in 1 .. Len(q) /\ Append(q, e)[i] = q[i])
<1>1. Len(Append(q, e)) = Len(q) + 1
  OBVIOUS
<1>2. \A i \in 1 .. Len(q) + 1 :
         Append(q, e)[i] = e \/ (i \in 1 .. Len(q) /\ Append(q, e)[i] = q[i])
  OBVIOUS
<1> QED
  BY <1>1, <1>2

\* What is written to a socket is at the end of its buffer, or lost.
LEMMA SendEffect ==
    ASSUME TypeOK, GivenInv, NEW m \in Messages, NEW c, Send(c, m),
           m.type = "exec" => m.job \in Given
    PROVE  sock' \in [Clients -> Seq(Messages)] /\ MessagesMove /\ up' \in BOOLEAN
<1>1. up' \in BOOLEAN
  BY DEF Send, TypeOK
<1>2. sock \in [Clients -> Seq(Messages)] /\ alive \subseteq Clients
  BY DEF TypeOK
<1>3. CASE sock' = sock
  BY <1>1, <1>2, <1>3 DEF MessagesMove, GivenInv
<1>4. CASE c \in alive /\ sock' = [sock EXCEPT ![c] = Append(@, m)]
  <2>1. sock' \in [Clients -> Seq(Messages)]
    BY <1>2, <1>4
  <2>2. ASSUME NEW d \in Clients, NEW i \in 1 .. Len(sock'[d])
        PROVE  sock'[d][i] = m \/ (i \in 1 .. Len(sock[d]) /\ sock'[d][i] = sock[d][i])
    <3>1. CASE d = c
      <4>1. sock'[d] = Append(sock[d], m) /\ sock[d] \in Seq(Messages)
        BY <1>2, <1>4, <3>1
      <4> QED
        BY <4>1, AppendEffect
    <3>2. CASE d # c
      BY <1>2, <1>4, <3>2
    <3> QED
      BY <3>1, <3>2
  <2>3. MessagesMove
    BY <2>2 DEF MessagesMove, GivenInv
  <2> QED
    BY <1>1, <2>1, <2>3
<1> QED
  BY <1>3, <1>4 DEF Send

\* Sending a part or the order to execute keeps the types.
LEMMA SendTypes ==
    ASSUME TypeInv, NEW t \in Tasks, SendTo(t)
    PROVE  TypeInv'
<1> USE DEF TypeInv
<1>1. /\ task \in [Tasks -> [pc : TaskPcs, prefix : Ops]]
      /\ split \in [JobIds -> [file : Ops, per : Nat]]
      /\ t[1] \in JobIds /\ t[2] \in Nat
  BY DEF TypeOK, Tasks, Positions
<1>2. handler[t[1]] \in HandlerFrames
  BY <1>1 DEF TypeOK
<1>3. 0 \in Ops /\ Given \subseteq JobIds /\ Given \subseteq Ops
  BY DEF Ops, Given, JobIds, TypeOK
<1>a. ASSUME task' \in [Tasks -> [pc : TaskPcs, prefix : Ops]], task[t].pc # "none",
             task'[t].prefix = task[t].prefix,
             \A s \in Tasks : s # t => task'[s] = task[s],
             sock' \in [Clients -> Seq(Messages)], MessagesMove, up' \in BOOLEAN,
             UNCHANGED <<server, handler, split, disk, alive, answer>>
      PROVE  TypeInv'
  <2>1. GivenInv'
    BY <1>a, GivenKept DEF HandlersMove, GivenInv
  <2> QED
    BY <1>a, <2>1 DEF TypeOK, FilesFinite
<1>4. CASE SendFile(t)
  <2> DEFINE j == task[t].prefix
             m == [type |-> "file", task |-> t, op |-> 0, job |-> NoJob,
                   part |-> [file |-> split[j].file, index |-> t[2],
                             per |-> split[j].per]]
  <2>1. task[t].pc = "queued" /\ j \in Given
    BY <1>4 DEF SendFile, GivenInv
  <2>2. split[j].file \in Ops /\ split[j].per \in Nat
    BY <1>1, <1>3, <2>1
  <2>3. m \in Messages
    BY <1>1, <1>3, <2>2 DEF Messages, Parts, NoJob
  <2>4. Send(Target(t), m) /\ m.type # "exec"
    BY <1>4 DEF SendFile
  <2>5. sock' \in [Clients -> Seq(Messages)] /\ MessagesMove /\ up' \in BOOLEAN
    <3> HIDE DEF m
    <3> QED
      BY <2>3, <2>4, SendEffect
  <2>6. /\ task' \in [Tasks -> [pc : TaskPcs, prefix : Ops]]
        /\ task'[t].prefix = task[t].prefix
        /\ \A s \in Tasks : s # t => task'[s] = task[s]
    BY <1>1, <1>4 DEF SendFile, TaskPcs
  <2> QED
    BY <1>4, <1>a, <2>1, <2>5, <2>6 DEF SendFile
<1>5. CASE SendNothing(t)
  <2>1. /\ task' \in [Tasks -> [pc : TaskPcs, prefix : Ops]]
        /\ task'[t].prefix = task[t].prefix
        /\ \A s \in Tasks : s # t => task'[s] = task[s]
    BY <1>1, <1>5 DEF SendNothing, TaskPcs
  <2>2. sock' \in [Clients -> Seq(Messages)] /\ MessagesMove /\ up' \in BOOLEAN
    BY <1>5 DEF SendNothing, TypeOK, MessagesMove, GivenInv
  <2> QED
    BY <1>5, <1>a, <2>1, <2>2 DEF SendNothing
<1>6. CASE SendExec(t)
  <2> DEFINE m == [type |-> "exec", task |-> t, op |-> handler[t[1]].op,
                   job |-> groups[handler[t[1]].mg_id].job_id, part |-> NoPart]
  <2>1. task[t].pc = "filed"
    BY <1>6 DEF SendExec
  <2>2. groups[handler[t[1]].mg_id].job_id \in Given
    BY <1>1, <2>1 DEF GivenInv
  <2>3. m \in Messages
    BY <1>1, <1>2, <1>3, <2>2 DEF Messages, Parts, NoPart, HandlerFrames
  <2>4. Send(Target(t), m) /\ m.job \in Given
    BY <1>6, <2>2 DEF SendExec
  <2>5. sock' \in [Clients -> Seq(Messages)] /\ MessagesMove /\ up' \in BOOLEAN
    <3> HIDE DEF m
    <3> QED
      BY <2>3, <2>4, SendEffect
  <2>6. /\ task' \in [Tasks -> [pc : TaskPcs, prefix : Ops]]
        /\ task'[t].prefix = task[t].prefix
        /\ \A s \in Tasks : s # t => task'[s] = task[s]
    BY <1>1, <1>6 DEF SendExec, TaskPcs
  <2> QED
    BY <1>6, <1>a, <2>1, <2>5, <2>6 DEF SendExec
<1> QED
  BY <1>4, <1>5, <1>6 DEF SendTo

\* The rest of a sequence holds elements of the sequence.
LEMMA TailEffect ==
    ASSUME NEW S, NEW q \in Seq(S), q # <<>>
    PROVE  /\ Head(q) \in S /\ Tail(q) \in Seq(S) /\ Head(q) = q[1]
           /\ 1 \in 1 .. Len(q)
           /\ \A i \in 1 .. Len(Tail(q)) : i + 1 \in 1 .. Len(q) /\ Tail(q)[i] = q[i + 1]
OBVIOUS

\* What a client does keeps the types, and the answer carries the number of the
\* order.
LEMMA ClientTypes ==
    ASSUME TypeInv, NEW c \in Clients, ClientStep(c) \/ ClientCrash(c)
    PROVE  TypeInv'
<1> USE DEF TypeInv
<1>1. /\ sock \in [Clients -> Seq(Messages)] /\ disk \in [Clients -> Parts]
      /\ reply \in [Tasks -> ReplyFrames]
  BY DEF TypeOK
<1>2. 0 \in Ops /\ NoPart \in Parts /\ Given \subseteq Ops
  BY DEF NoPart, Parts, Ops, Given, TypeOK
<1>3. ASSUME sock[c] # <<>>, sock' = [sock EXCEPT ![c] = Tail(@)]
      PROVE  sock' \in [Clients -> Seq(Messages)] /\ MessagesMove
  <2>1. sock[c] \in Seq(Messages)
    BY <1>1
  <2>2. sock' \in [Clients -> Seq(Messages)]
    BY <1>1, <1>3, <2>1, TailEffect
  <2>3. ASSUME NEW d \in Clients, NEW i \in 1 .. Len(sock'[d])
        PROVE  \E k \in 1 .. Len(sock[d]) : sock'[d][i] = sock[d][k]
    <3>1. CASE d = c
      <4>1. sock'[d] = Tail(sock[c])
        BY <1>1, <1>3, <3>1
      <4>2. i + 1 \in 1 .. Len(sock[d]) /\ sock'[d][i] = sock[d][i + 1]
        BY <1>3, <2>1, <3>1, <4>1, TailEffect
      <4> QED
        BY <4>2
    <3>2. CASE d # c
      BY <1>1, <1>3, <3>2
    <3> QED
      BY <3>1, <3>2
  <2>4. MessagesMove
    <3>1. ASSUME NEW d \in Clients, NEW i \in 1 .. Len(sock'[d]), sock'[d][i].type = "exec"
          PROVE  sock'[d][i].job \in Given
      <4>1. PICK k \in 1 .. Len(sock[d]) : sock'[d][i] = sock[d][k]
        BY <2>3
      <4> QED
        BY <3>1, <4>1 DEF GivenInv
    <3> QED
      BY <3>1 DEF MessagesMove
  <2> QED
    BY <2>2, <2>4
<1>4. CASE ClientFile(c)
  <2>1. sock' \in [Clients -> Seq(Messages)] /\ MessagesMove
    BY <1>3, <1>4 DEF ClientFile
  <2>2. Head(sock[c]) \in Messages
    BY <1>1, <1>4, TailEffect DEF ClientFile
  <2>3. disk' \in [Clients -> Parts]
    BY <1>1, <1>4, <2>2 DEF ClientFile, Messages
  <2>4. GivenInv'
    BY <1>4, <2>1, GivenKept DEF ClientFile, HandlersMove, GivenInv
  <2> QED
    BY <1>4, <2>1, <2>3, <2>4 DEF ClientFile, TypeOK, FilesFinite
<1>5. CASE ClientExec(c)
  <2> DEFINE m == Head(sock[c])
             r == [pc |-> "arrived", job |-> m.job, count |-> 0, group |-> NoGroup,
                   result |-> {},
                   line |-> [from |-> c, part |-> disk[c], op |-> m.op]]
  <2>1. sock' \in [Clients -> Seq(Messages)] /\ MessagesMove
    BY <1>3, <1>5 DEF ClientExec
  <2>2. m \in Messages /\ m = sock[c][1] /\ 1 \in 1 .. Len(sock[c])
    BY <1>1, <1>5, TailEffect DEF ClientExec
  <2>3. m.job \in Given /\ m.task \in Tasks /\ m.op \in Ops
    BY <1>5, <2>2 DEF ClientExec, GivenInv, Messages
  <2> HIDE DEF m
  <2>4. r \in ReplyFrames
    <3>1. [from |-> c, part |-> disk[c], op |-> m.op] \in Lines
      BY <1>1, <2>3 DEF Lines, Someone
    <3> QED
      BY <1>2, <2>3, <3>1 DEF ReplyFrames, ReplyPcs, Entries
  <2>5. reply' = [reply EXCEPT ![m.task] = r] /\ r.job = m.job
    BY <1>5 DEF ClientExec, m
  <2> HIDE DEF r
  <2>6. /\ reply' \in [Tasks -> ReplyFrames]
        /\ \A t \in Tasks : reply'[t].pc # "none" => reply'[t].job \in Given
    BY <1>1, <2>3, <2>4, <2>5 DEF GivenInv
  <2>7. disk' \in [Clients -> Parts]
    BY <1>1, <1>2, <1>5 DEF ClientExec
  <2>8. GivenInv'
    BY <1>5, <2>1, <2>6, GivenKept DEF ClientExec, HandlersMove
  <2> QED
    BY <1>5, <2>1, <2>6, <2>7, <2>8 DEF ClientExec, TypeOK, FilesFinite
<1>6. CASE ClientWildCall(c) \/ ClientCrash(c)
  <2>1. ClientEnds(c)
    BY <1>6 DEF ClientWildCall, ClientCrash
  <2>2. sock' \in [Clients -> Seq(Messages)] /\ MessagesMove
    BY <1>1, <2>1 DEF ClientEnds, MessagesMove, GivenInv
  <2>3. GivenInv'
    BY <2>1, <2>2, GivenKept DEF ClientEnds, HandlersMove, GivenInv
  <2> QED
    BY <2>1, <2>2, <2>3 DEF ClientEnds, TypeOK, FilesFinite
<1> QED
  BY <1>4, <1>5, <1>6 DEF ClientStep

-----------------------------------------------------------------------------
(* Recording the answers.                                                  *)

\* Recording an answer keeps the types, and the result files stay finite.
LEMMA ReplyTypes ==
    ASSUME TypeInv, NEW t \in Tasks, Reply(t)
    PROVE  TypeInv'
<1> USE DEF TypeInv
<1> DEFINE j == reply[t].job
<1>1. /\ reply \in [Tasks -> ReplyFrames] /\ reply[t] \in ReplyFrames
      /\ results \in [JobIds -> SUBSET Records] /\ jobs \in [JobIds -> JobEntries]
  BY DEF TypeOK
<1>2. reply[t].pc # "none"
  BY DEF Reply, ReplyAppend, ReplyFreeClient, ReplyCount, ReplyNotLast, ReplyLast,
         ReplyFreeGroup, ReplyComplete, ReplyWildCall, ReplyResult
<1>3. j \in Given /\ j \in JobIds
  BY <1>2 DEF GivenInv, Given, JobIds, TypeOK
<1>a. ASSUME reply' \in [Tasks -> ReplyFrames], reply'[t].job = j,
             \A s \in Tasks : s # t => reply'[s] = reply[s],
             \A g \in Entries : groups'[g].job_id = groups[g].job_id,
             UNCHANGED <<job_id, args, work, net>>
      PROVE  GivenInv'
  <2>1. \A s \in Tasks : reply'[s].pc # "none" => reply'[s].job \in Given
    BY <1>a, <1>3 DEF GivenInv
  <2> QED
    BY <1>a, <2>1, GivenKept DEF HandlersMove, MessagesMove, GivenInv
<1>4. CASE ReplyAppend(t)
  <2>1. <<t, reply[t].line>> \in Records
    BY <1>1 DEF ReplyFrames, Records
  <2>2. results' = [results EXCEPT ![j] = @ \cup {<<t, reply[t].line>>}]
    BY <1>4 DEF ReplyAppend
  <2>3. results' \in [JobIds -> SUBSET Records]
    BY <1>1, <2>1, <2>2
  <2>4. FilesFinite'
    <3>1. ASSUME NEW k \in JobIds PROVE IsFiniteSet(results'[k])
      <4>1. IsFiniteSet(results[k]) /\ IsFiniteSet({<<t, reply[t].line>>})
        BY FS_Singleton DEF FilesFinite
      <4>3. IsFiniteSet(results[k] \cup {<<t, reply[t].line>>})
        BY <4>1, FS_Union
      <4>2. results'[k] = results[k] \/ results'[k] = results[k] \cup {<<t, reply[t].line>>}
        BY <1>1, <2>2
      <4> QED
        BY <4>1, <4>2, <4>3
    <3> QED
      BY <3>1 DEF FilesFinite
  <2>5. /\ reply' \in [Tasks -> ReplyFrames] /\ reply'[t].job = j
        /\ \A s \in Tasks : s # t => reply'[s] = reply[s]
    BY <1>1, <1>4 DEF ReplyAppend, ReplyFrames, ReplyPcs
  <2>6. GivenInv'
    BY <1>4, <1>a, <2>5 DEF ReplyAppend
  <2> QED
    BY <1>4, <2>3, <2>4, <2>5, <2>6 DEF ReplyAppend, TypeOK
<1>5. CASE ReplyFreeClient(t)
  <2>1. clients' \in [Clients -> ClientEntries]
    <3>1. clients \in [Clients -> ClientEntries]
      BY DEF TypeOK
    <3> QED
      BY <1>5, <3>1 DEF ReplyFreeClient, ClientEntries
  <2>2. /\ reply' \in [Tasks -> ReplyFrames] /\ reply'[t].job = j
        /\ \A s \in Tasks : s # t => reply'[s] = reply[s]
    BY <1>1, <1>5 DEF ReplyFreeClient, ReplyFrames, ReplyPcs
  <2>3. GivenInv'
    BY <1>5, <1>a, <2>2 DEF ReplyFreeClient
  <2> QED
    BY <1>5, <2>1, <2>2, <2>3 DEF ReplyFreeClient, TypeOK, FilesFinite
<1>6. CASE ReplyCount(t)
  <2>1. Cardinality(results[j]) \in Nat
    BY <1>3, FS_CardinalityType DEF FilesFinite
  <2>2. /\ reply' \in [Tasks -> ReplyFrames] /\ reply'[t].job = j
        /\ \A s \in Tasks : s # t => reply'[s] = reply[s]
    BY <1>1, <1>6, <2>1 DEF ReplyCount, ReplyFrames, ReplyPcs
  <2>3. GivenInv'
    BY <1>6, <1>a, <2>2 DEF ReplyCount
  <2> QED
    BY <1>6, <2>2, <2>3 DEF ReplyCount, TypeOK, FilesFinite
<1>7. CASE ReplyNotLast(t)
  <2>2. /\ reply' \in [Tasks -> ReplyFrames] /\ reply'[t].job = j
        /\ \A s \in Tasks : s # t => reply'[s] = reply[s]
    BY <1>1, <1>7 DEF ReplyNotLast, ReplyFrames, ReplyPcs
  <2>3. GivenInv'
    BY <1>7, <1>a, <2>2 DEF ReplyNotLast
  <2> QED
    BY <1>7, <2>2, <2>3 DEF ReplyNotLast, TypeOK, FilesFinite
<1>8. CASE ReplyLast(t)
  <2>1. jobs[j].group_id \in Entries
    BY <1>1, <1>3 DEF JobEntries
  <2>2. /\ reply' \in [Tasks -> ReplyFrames] /\ reply'[t].job = j
        /\ \A s \in Tasks : s # t => reply'[s] = reply[s]
    BY <1>1, <1>8, <2>1 DEF ReplyLast, ReplyFrames, ReplyPcs
  <2>3. GivenInv'
    BY <1>8, <1>a, <2>2 DEF ReplyLast
  <2> QED
    BY <1>8, <2>2, <2>3 DEF ReplyLast, TypeOK, FilesFinite
<1>9. CASE ReplyFreeGroup(t)
  <2>1. /\ groups' \in [Entries -> GroupEntries]
        /\ \A g \in Entries : groups'[g].job_id = groups[g].job_id
    <3>1. groups \in [Entries -> GroupEntries]
      BY DEF TypeOK
    <3> QED
      BY <1>9, <3>1 DEF ReplyFreeGroup, GroupEntries
  <2>2. /\ reply' \in [Tasks -> ReplyFrames] /\ reply'[t].job = j
        /\ \A s \in Tasks : s # t => reply'[s] = reply[s]
    BY <1>1, <1>9 DEF ReplyFreeGroup, ReplyFrames, ReplyPcs
  <2>3. GivenInv'
    BY <1>9, <1>a, <2>1, <2>2 DEF ReplyFreeGroup
  <2> QED
    BY <1>9, <2>1, <2>2, <2>3 DEF ReplyFreeGroup, TypeOK, FilesFinite
<1>10. CASE ReplyComplete(t)
  <2>1. jobs' \in [JobIds -> JobEntries]
    BY <1>1, <1>3, <1>10 DEF ReplyComplete, JobEntries
  <2>2. /\ reply' \in [Tasks -> ReplyFrames] /\ reply'[t].job = j
        /\ \A s \in Tasks : s # t => reply'[s] = reply[s]
    <3>1. results[j] \in SUBSET Records
      BY <1>1, <1>3
    <3> QED
      BY <1>1, <1>10, <3>1 DEF ReplyComplete, ReplyFrames, ReplyPcs
  <2>3. GivenInv'
    BY <1>10, <1>a, <2>2 DEF ReplyComplete
  <2> QED
    BY <1>10, <2>1, <2>2, <2>3 DEF ReplyComplete, TypeOK, FilesFinite
<1>11. CASE ReplyWildCall(t)
  <2>1. GivenInv'
    BY <1>1, <1>11, <1>a DEF ReplyWildCall
  <2> QED
    BY <1>11, <2>1 DEF ReplyWildCall, TypeOK, FilesFinite
<1>12. CASE ReplyResult(t)
  <2>1. jobs' \in [JobIds -> JobEntries]
    <3>1. reply[t].result \in SUBSET Records
      BY <1>1 DEF ReplyFrames
    <3> QED
      BY <1>1, <1>3, <1>12, <3>1 DEF ReplyResult, JobEntries
  <2>2. /\ reply' \in [Tasks -> ReplyFrames] /\ reply'[t].job = j
        /\ \A s \in Tasks : s # t => reply'[s] = reply[s]
    BY <1>1, <1>12 DEF ReplyResult, ReplyFrames, ReplyPcs
  <2>3. GivenInv'
    BY <1>12, <1>a, <2>2 DEF ReplyResult
  <2> QED
    BY <1>12, <2>1, <2>2, <2>3 DEF ReplyResult, TypeOK, FilesFinite
<1> QED
  BY <1>4, <1>5, <1>6, <1>7, <1>8, <1>9, <1>10, <1>11, <1>12 DEF Reply

\* Nothing happens.
LEMMA StutterTypes == TypeInv /\ UNCHANGED vars => TypeInv'
<1> SUFFICES ASSUME TypeInv, UNCHANGED vars PROVE TypeInv'
  OBVIOUS
<1> USE DEF TypeInv
<1>1. GivenInv'
  BY GivenKept DEF vars, HandlersMove, MessagesMove, GivenInv
<1> QED
  BY <1>1 DEF vars, TypeOK, FilesFinite

\* The types, with the numbers given and finite result files, are inductive.
LEMMA TypesHold == Spec => []TypeInv
<1>1. Init => TypeInv
  <2> SUFFICES ASSUME Init PROVE TypeInv
    OBVIOUS
  <2> USE DEF Init, FREE, BUSY, NOT_STARTED, Ops, NoJob
  <2>1. 0 \in Entries /\ NoGroup \in Entries
    BY DEF Entries, Groups
  <2>2. NoPart \in Parts /\ NoLine \in Lines
    BY DEF NoPart, NoLine, Parts, Lines, Someone
  <2>3. jobs \in [JobIds -> JobEntries] /\ groups \in [Entries -> GroupEntries]
    BY <2>1 DEF JobEntries, GroupEntries
  <2>4. clients \in [Clients -> ClientEntries] /\ args \in Arguments
    BY <2>1 DEF ClientEntries, Arguments
  <2>5. handler \in [JobIds -> HandlerFrames]
    BY <2>1 DEF HandlerFrames, HandlerPcs
  <2>6. reply \in [Tasks -> ReplyFrames]
    BY <2>1, <2>2 DEF ReplyFrames, ReplyPcs
  <2>7. task \in [Tasks -> [pc : TaskPcs, prefix : Ops]]
    BY DEF TaskPcs
  <2>a. split \in [JobIds -> [file : Ops, per : Nat]] /\ lines \in [JobIds -> Nat]
    BY DEF NoFile
  <2>b. sock \in [Clients -> Seq(Messages)] /\ disk \in [Clients -> Parts]
    BY <2>2
  <2>c. job_id \in 0 .. MaxJobs /\ results \in [JobIds -> SUBSET Records]
    BY DispatchAssumption
  <2>d. alive \in SUBSET Clients /\ up \in BOOLEAN
    OBVIOUS
  <2>8. TypeOK
    <3> HIDE DEF Init
    <3> QED
      BY <2>3, <2>4, <2>5, <2>6, <2>7, <2>a, <2>b, <2>c, <2>d DEF TypeOK
  <2>9. GivenInv
    BY DEF GivenInv, Reading, Given
  <2>10. FilesFinite
    BY FS_EmptySet DEF FilesFinite
  <2> QED
    BY <2>8, <2>9, <2>10 DEF TypeInv
<1>2. TypeInv /\ [Next]_vars => TypeInv'
  BY StutterTypes, CommandTypes, RegisterTypes, ClientTypes, HandleTypes, SendTypes,
     ReplyTypes DEF Next
<1> QED
  BY <1>1, <1>2, PTL DEF Spec

\* Every variable keeps its type, whatever the threads and the operator do.
THEOREM TypeCorrect == Spec => []TypeOK
BY TypesHold, PTL DEF TypeInv

-----------------------------------------------------------------------------
(* The group of a complete job is released, whatever jobs run beside it,   *)
(* whatever the handlers read from the argument block, and though several  *)
(* threads may complete the same job. The invariant follows the thread     *)
(* that completes a job from its decision to its last step; that it frees  *)
(* the right group rests on job numbers belonging to one group each.       *)

Started(j) == jobs[j].status # NOT_STARTED

\* A job number is recorded for one group only, and none that is still to come.
OneGroupPerJob ==
    /\ \A g \in Entries : groups[g].job_id <= job_id
    /\ \A f, g \in Entries : groups[f].job_id = groups[g].job_id /\ f # g
                             => groups[f].job_id = NoJob

\* The group a started job records is the one that works on it.
GroupRecorded ==
    \A j \in JobIds : \A g \in Entries :
        groups[g].job_id = j /\ Started(j) => jobs[j].group_id = g

\* Only a started job has clients, so that an answer can complete it.
ClientsOfStarted ==
    \A j \in JobIds : ~Started(j) => jobs[j].number_of_clients = 0

\* An answer that is counted has been recorded before.
AnswersRecorded ==
    \A t \in Tasks :
        /\ reply[t].pc \in {"appended", "freed"} => results[reply[t].job] # {}
        /\ reply[t].pc = "counted" => reply[t].count > 0

\* A thread that completes a job frees the group of this job and no other, and
\* has freed it when it comes to the final result.
FreesOwnGroup ==
    \A t \in Tasks : \A g \in Entries : groups[g].job_id = reply[t].job =>
        /\ reply[t].pc = "freeing" => g = reply[t].group
        /\ reply[t].pc = "computing" => groups[g].group_status = FREE

CompletesStarted ==
    \A t \in Tasks : reply[t].pc \in {"freeing", "computing"} => Started(reply[t].job)

Released ==
    \A g \in Entries : \A j \in JobIds :
        groups[g].job_id = j /\ jobs[j].status = COMPLETE
        => groups[g].group_status = FREE

ReleaseInv == /\ OneGroupPerJob /\ GroupRecorded /\ ClientsOfStarted
              /\ AnswersRecorded /\ FreesOwnGroup /\ CompletesStarted /\ Released

\* A step that leaves the tables and the recorded answers alone, and at most
\* lets a new answer arrive.
LEMMA ReleaseKept ==
    ASSUME TypeInv, ReleaseInv, UNCHANGED <<job_id, jobs, results>>,
           \A g \in Entries : /\ groups'[g].job_id = groups[g].job_id
                              /\ groups'[g].group_status = groups[g].group_status,
           \A t \in Tasks : reply'[t] = reply[t] \/ reply'[t].pc = "arrived"
    PROVE  ReleaseInv'
<1> USE DEF ReleaseInv
<1>1. OneGroupPerJob'
  BY DEF OneGroupPerJob
<1>2. GroupRecorded' /\ ClientsOfStarted' /\ Released'
  BY DEF GroupRecorded, ClientsOfStarted, Released, Started
<1>3. AnswersRecorded'
  BY DEF AnswersRecorded
<1>4. FreesOwnGroup'
  BY DEF FreesOwnGroup
<1>5. CompletesStarted'
  BY DEF CompletesStarted, Started
<1> QED
  BY <1>1, <1>2, <1>3, <1>4, <1>5

\* A new command: its number is new.
LEMMA CommandReleases ==
    ASSUME TypeInv, ReleaseInv, StartJob
    PROVE  ReleaseInv'
<1> USE DEF ReleaseInv
<1> DEFINE j == job_id + 1
           g == find_free_group
<1>1. /\ job_id \in Nat /\ j \in JobIds /\ job_id' = j /\ g \in Entries
      /\ groups \in [Entries -> GroupEntries] /\ jobs \in [JobIds -> JobEntries]
  BY FoundGroup DEF StartJob, TypeInv, TypeOK, JobIds
<1>2. /\ groups'[g].job_id = j
      /\ \A f \in Entries : f # g => groups'[f] = groups[f]
  <2>1. groups' = [groups EXCEPT ![g].job_id = j, ![g].group_status = BUSY]
    BY DEF StartJob
  <2> HIDE DEF j, g
  <2> QED
    BY <1>1, <2>1 DEF GroupEntries
<1>3. /\ jobs'[j].status = NOT_STARTED /\ jobs'[j].number_of_clients = 0
      /\ \A k \in JobIds : k # j => jobs'[k] = jobs[k]
  BY <1>1 DEF StartJob
<1>4. /\ UNCHANGED <<reply, results>>
      /\ \A t \in Tasks : reply[t].pc # "none" => reply[t].job \in JobIds \ {j}
  BY <1>1 DEF StartJob, TypeInv, GivenInv, Given, JobIds
<1>5. \A f \in Entries : groups[f].job_id \in Nat /\ groups[f].job_id # j
                         /\ groups[f].job_id <= job_id
  BY <1>1 DEF OneGroupPerJob, GroupEntries, Ops
<1> HIDE DEF j, g
<1>6. OneGroupPerJob'
  <2>1. \A f \in Entries : groups'[f].job_id <= job_id'
    BY <1>1, <1>2, <1>5 DEF j
  <2>2. \A f, k \in Entries : groups'[f].job_id = groups'[k].job_id /\ f # k
                              => groups'[f].job_id = NoJob
    BY <1>1, <1>2, <1>5 DEF OneGroupPerJob
  <2> QED
    BY <2>1, <2>2 DEF OneGroupPerJob
<1>7. GroupRecorded'
  BY <1>1, <1>2, <1>3 DEF GroupRecorded, Started
<1>8. ClientsOfStarted'
  BY <1>3 DEF ClientsOfStarted, Started
<1>9. AnswersRecorded'
  BY <1>4 DEF AnswersRecorded
<1>10. FreesOwnGroup'
  BY <1>1, <1>2, <1>4 DEF FreesOwnGroup
<1>11. CompletesStarted'
  BY <1>3, <1>4 DEF CompletesStarted, Started
<1>12. Released'
  BY <1>1, <1>2, <1>3 DEF Released, COMPLETE, NOT_STARTED
<1> QED
  BY <1>6, <1>7, <1>8, <1>9, <1>10, <1>11, <1>12

\* The handler records the group and starts the job.
LEMMA UpdateReleases ==
    ASSUME TypeInv, ReleaseInv, NEW h \in JobIds, HandlerUpdate(h)
    PROVE  ReleaseInv'
<1> USE DEF ReleaseInv
<1> DEFINE g == handler[h].mg_id
           k == groups[g].job_id
<1>1. g \in Entries /\ k \in JobIds /\ k # NoJob /\ jobs \in [JobIds -> JobEntries]
  <2>1. handler[h] \in HandlerFrames /\ jobs \in [JobIds -> JobEntries]
        /\ job_id \in 0 .. MaxJobs
    BY DEF TypeInv, TypeOK
  <2>2. k \in Given
    BY DEF HandlerUpdate, TypeInv, GivenInv, Reading
  <2> HIDE DEF k
  <2> QED
    BY <2>1, <2>2 DEF HandlerFrames, Given, JobIds, NoJob
<1>2. UNCHANGED <<job_id, groups, reply, results>>
  BY DEF HandlerUpdate
<1>3. /\ jobs'[k].group_id = g /\ jobs'[k].status = IN_PROGRESS
      /\ \A j \in JobIds : j # k => jobs'[j] = jobs[j]
  BY <1>1 DEF HandlerUpdate, JobEntries
<1> HIDE DEF g
<1>4. \A f \in Entries : groups[f].job_id = k => f = g
  BY <1>1 DEF OneGroupPerJob
<1> HIDE DEF k
<1>5. OneGroupPerJob' /\ AnswersRecorded' /\ FreesOwnGroup'
  BY <1>2 DEF OneGroupPerJob, AnswersRecorded, FreesOwnGroup
<1>6. GroupRecorded'
  BY <1>2, <1>3, <1>4 DEF GroupRecorded, Started
<1>7. \A j \in JobIds : Started(j) => Started(j)'
  BY <1>3 DEF Started, IN_PROGRESS, NOT_STARTED
<1>8. ClientsOfStarted'
  BY <1>3, <1>7 DEF ClientsOfStarted, Started, IN_PROGRESS, NOT_STARTED
<1>9. CompletesStarted'
  <2>1. \A t \in Tasks : reply[t].pc # "none" => reply[t].job \in JobIds
    BY DEF TypeInv, GivenInv, Given, JobIds, TypeOK
  <2> QED
    BY <1>2, <1>7, <2>1 DEF CompletesStarted, Started
<1>10. Released'
  BY <1>2, <1>3 DEF Released, COMPLETE, IN_PROGRESS
<1> QED
  BY <1>5, <1>6, <1>8, <1>9, <1>10

\* The steps of a thread that records an answer.
LEMMA ReplyReleases ==
    ASSUME TypeInv, ReleaseInv, NEW t \in Tasks, Reply(t)
    PROVE  ReleaseInv'
<1> USE DEF ReleaseInv
<1> DEFINE j == reply[t].job
<1>1. /\ reply \in [Tasks -> ReplyFrames] /\ groups \in [Entries -> GroupEntries]
      /\ jobs \in [JobIds -> JobEntries] /\ results \in [JobIds -> SUBSET Records]
      /\ FilesFinite
  BY DEF TypeInv, TypeOK
<1>2. \A s \in Tasks : reply[s].pc # "none" => reply[s].job \in JobIds
  BY DEF TypeInv, TypeOK, GivenInv, Given, JobIds
<1>3. reply[t].pc # "none" /\ j \in JobIds
  BY <1>2 DEF Reply, ReplyAppend, ReplyFreeClient, ReplyCount, ReplyNotLast, ReplyLast,
              ReplyFreeGroup, ReplyComplete, ReplyWildCall, ReplyResult
<1>a. ASSUME UNCHANGED <<job_id, jobs, groups>>
      PROVE  OneGroupPerJob' /\ GroupRecorded' /\ ClientsOfStarted' /\ Released'
  BY <1>a DEF OneGroupPerJob, GroupRecorded, ClientsOfStarted, Released, Started
<1>b. ASSUME UNCHANGED <<jobs, groups>>, reply'[t].pc \notin {"freeing", "computing"},
             \A s \in Tasks : s # t => reply'[s] = reply[s]
      PROVE  FreesOwnGroup' /\ CompletesStarted'
  BY <1>b DEF FreesOwnGroup, CompletesStarted, Started
<1>c. ASSUME UNCHANGED results, reply'[t].pc \notin {"appended", "freed", "counted"},
             \A s \in Tasks : s # t => reply'[s] = reply[s]
      PROVE  AnswersRecorded'
  BY <1>c DEF AnswersRecorded
<1>4. CASE ReplyAppend(t)
  <2>1. /\ reply'[t].pc = "appended" /\ reply'[t].job = j
        /\ \A s \in Tasks : s # t => reply'[s] = reply[s]
    BY <1>1, <1>4 DEF ReplyAppend, ReplyFrames
  <2>2. UNCHANGED <<job_id, jobs, groups>>
    BY <1>4 DEF ReplyAppend
  <2>3. \A k \in JobIds : results[k] \subseteq results'[k]
    BY <1>1, <1>4 DEF ReplyAppend
  <2>4. results'[j] # {}
    BY <1>1, <1>3, <1>4 DEF ReplyAppend
  <2>5. AnswersRecorded'
    BY <1>2, <2>1, <2>3, <2>4 DEF AnswersRecorded
  <2> QED
    BY <1>a, <1>b, <2>1, <2>2, <2>5
<1>5. CASE ReplyFreeClient(t)
  <2>1. /\ reply[t].pc = "appended" /\ reply'[t].pc = "freed" /\ reply'[t].job = j
        /\ \A s \in Tasks : s # t => reply'[s] = reply[s]
        /\ UNCHANGED <<job_id, jobs, groups, results>>
    BY <1>1, <1>5 DEF ReplyFreeClient, ReplyFrames
  <2>2. AnswersRecorded'
    BY <2>1 DEF AnswersRecorded
  <2> QED
    BY <1>a, <1>b, <2>1, <2>2
<1>6. CASE ReplyCount(t)
  <2>1. /\ reply[t].pc = "freed" /\ reply'[t].pc = "counted"
        /\ reply'[t].count = Cardinality(results[j])
        /\ \A s \in Tasks : s # t => reply'[s] = reply[s]
        /\ UNCHANGED <<job_id, jobs, groups, results>>
    BY <1>1, <1>6 DEF ReplyCount, ReplyFrames
  <2>2. results[j] # {} /\ IsFiniteSet(results[j])
    BY <1>1, <1>3, <2>1 DEF AnswersRecorded, FilesFinite
  <2>3. Cardinality(results[j]) > 0
    BY <2>2, FS_CardinalityType, FS_EmptySet
  <2>4. AnswersRecorded'
    BY <2>1, <2>3 DEF AnswersRecorded
  <2> QED
    BY <1>a, <1>b, <2>1, <2>4
<1>7. CASE ReplyNotLast(t)
  <2>1. /\ reply'[t].pc = "done" /\ UNCHANGED <<job_id, jobs, groups, results>>
        /\ \A s \in Tasks : s # t => reply'[s] = reply[s]
    BY <1>1, <1>7 DEF ReplyNotLast, ReplyFrames
  <2> QED
    BY <1>a, <1>b, <1>c, <2>1
<1>8. CASE ReplyLast(t)
  <2> DEFINE g == jobs[j].group_id
  <2>1. /\ reply'[t].group = g /\ reply'[t].job = j
        /\ reply'[t].pc = IF groups[g].job_id = j THEN "freeing" ELSE "computing"
        /\ \A s \in Tasks : s # t => reply'[s] = reply[s]
        /\ UNCHANGED <<job_id, jobs, groups, results>>
    BY <1>1, <1>8 DEF ReplyLast, ReplyFrames
  <2>2. Started(j)
    BY <1>3, <1>8 DEF ReplyLast, time_to_compute_final_result, AnswersRecorded,
                      ClientsOfStarted
  <2>3. \A f \in Entries : groups[f].job_id = j => f = g
    BY <1>3, <2>2 DEF GroupRecorded
  <2> HIDE DEF g
  <2>4. FreesOwnGroup'
    BY <2>1, <2>3 DEF FreesOwnGroup
  <2>5. CompletesStarted'
    BY <2>1, <2>2 DEF CompletesStarted, Started
  <2> QED
    BY <1>a, <1>c, <2>1, <2>4, <2>5
<1>9. CASE ReplyFreeGroup(t)
  <2>1. /\ reply[t].pc = "freeing" /\ reply'[t].pc = "computing" /\ reply'[t].job = j
        /\ \A s \in Tasks : s # t => reply'[s] = reply[s]
        /\ UNCHANGED <<job_id, jobs, results>>
    BY <1>1, <1>9 DEF ReplyFreeGroup, ReplyFrames
  <2>2. \A g \in Entries :
           /\ groups'[g].job_id = groups[g].job_id
           /\ groups[g].group_status = FREE => groups'[g].group_status = FREE
           /\ g = reply[t].group => groups'[g].group_status = FREE
    BY <1>1, <1>9 DEF ReplyFreeGroup, GroupEntries
  <2>3. OneGroupPerJob' /\ GroupRecorded' /\ ClientsOfStarted' /\ Released'
    BY <2>1, <2>2
       DEF OneGroupPerJob, GroupRecorded, ClientsOfStarted, Released, Started
  <2>4. FreesOwnGroup'
    BY <2>1, <2>2 DEF FreesOwnGroup
  <2>5. CompletesStarted'
    BY <2>1 DEF CompletesStarted, Started
  <2> QED
    BY <1>c, <2>1, <2>3, <2>4, <2>5
<1>10. CASE ReplyComplete(t)
  <2>1. /\ reply[t].pc = "computing" /\ reply'[t].pc = "completed"
        /\ \A s \in Tasks : s # t => reply'[s] = reply[s]
        /\ UNCHANGED <<job_id, groups, results>>
    BY <1>1, <1>10 DEF ReplyComplete, ReplyFrames
  <2>2. /\ jobs'[j].status = COMPLETE
        /\ \A k \in JobIds : /\ jobs'[k].group_id = jobs[k].group_id
                             /\ jobs'[k].number_of_clients = jobs[k].number_of_clients
                             /\ k # j => jobs'[k] = jobs[k]
    BY <1>1, <1>3, <1>10 DEF ReplyComplete, JobEntries
  <2>3. Started(j) /\ \A k \in JobIds : Started(k) <=> Started(k)'
    BY <1>3, <2>1, <2>2 DEF CompletesStarted, Started, COMPLETE, NOT_STARTED
  <2>4. OneGroupPerJob' /\ GroupRecorded' /\ ClientsOfStarted'
    BY <2>1, <2>2, <2>3 DEF OneGroupPerJob, GroupRecorded, ClientsOfStarted, Started
  <2>5. Released'
    BY <2>1, <2>2 DEF Released, FreesOwnGroup
  <2>6. FreesOwnGroup'
    BY <2>1 DEF FreesOwnGroup
  <2>7. CompletesStarted'
    BY <1>2, <2>1, <2>3 DEF CompletesStarted, Started
  <2> QED
    BY <1>c, <2>1, <2>4, <2>5, <2>6, <2>7
<1>11. CASE ReplyWildCall(t)
  BY <1>11, ReleaseKept DEF ReplyWildCall
<1>12. CASE ReplyResult(t)
  <2>1. /\ reply'[t].pc = "done" /\ UNCHANGED <<job_id, groups, results>>
        /\ \A s \in Tasks : s # t => reply'[s] = reply[s]
    BY <1>1, <1>12 DEF ReplyResult, ReplyFrames
  <2>2. \A k \in JobIds : /\ jobs'[k].group_id = jobs[k].group_id
                          /\ jobs'[k].number_of_clients = jobs[k].number_of_clients
                          /\ jobs'[k].status = jobs[k].status
    BY <1>1, <1>3, <1>12 DEF ReplyResult, JobEntries
  <2>3. OneGroupPerJob' /\ GroupRecorded' /\ ClientsOfStarted' /\ Released'
    BY <2>1, <2>2
       DEF OneGroupPerJob, GroupRecorded, ClientsOfStarted, Released, Started
  <2>4. FreesOwnGroup'
    BY <2>1 DEF FreesOwnGroup
  <2>5. CompletesStarted'
    BY <1>2, <2>1, <2>2 DEF CompletesStarted, Started
  <2> QED
    BY <1>c, <2>1, <2>3, <2>4, <2>5
<1> QED
  BY <1>4, <1>5, <1>6, <1>7, <1>8, <1>9, <1>10, <1>11, <1>12 DEF Reply

\* All the other steps leave the tables alone.
LEMMA OthersRelease ==
    ASSUME TypeInv, ReleaseInv,
           \/ \E c \in Clients : Register(c) \/ ClientStep(c) \/ ClientCrash(c)
           \/ \E t \in Tasks : SendTo(t)
           \/ \E h \in JobIds : Handle(h) /\ ~HandlerUpdate(h)
    PROVE  ReleaseInv'
<1>1. ASSUME NEW c \in Clients, Register(c)
      PROVE  ReleaseInv'
  <2>1. groups \in [Entries -> GroupEntries]
    BY DEF TypeInv, TypeOK
  <2>2. \A g \in Entries : /\ groups'[g].job_id = groups[g].job_id
                           /\ groups'[g].group_status = groups[g].group_status
    BY <1>1, <2>1 DEF Register, RegisterGroups, RegisterClient, GroupEntries
  <2> QED
    BY <1>1, <2>2, ReleaseKept DEF Register, RegisterGroups, RegisterClient
<1>2. ASSUME NEW c \in Clients, ClientStep(c) \/ ClientCrash(c)
      PROVE  ReleaseInv'
  <2>1. \A s \in Tasks : reply'[s] = reply[s] \/ reply'[s].pc = "arrived"
    BY <1>2 DEF ClientStep, ClientFile, ClientExec, ClientWildCall, ClientCrash,
                ClientEnds, TypeInv, TypeOK
  <2> QED
    BY <1>2, <2>1, ReleaseKept
       DEF ClientStep, ClientFile, ClientExec, ClientWildCall, ClientCrash, ClientEnds
<1>3. ASSUME NEW t \in Tasks, SendTo(t)
      PROVE  ReleaseInv'
  BY <1>3, ReleaseKept DEF SendTo, SendFile, SendNothing, SendExec
<1>4. ASSUME NEW h \in JobIds, Handle(h), ~HandlerUpdate(h)
      PROVE  ReleaseInv'
  BY <1>4, ReleaseKept
     DEF Handle, HandlerPull, HandlerArgs, HandlerFile, HandlerCount, HandlerFill,
         HandlerAssign, HandlerSplit, HandlerDispatch, HandlerReturn
<1> QED
  BY <1>1, <1>2, <1>3, <1>4

\* The group of a complete job is not left BUSY by it.
THEOREM ReleaseCorrect == Spec => []GroupReleased
<1>1. Init => ReleaseInv
  BY DEF Init, ReleaseInv, OneGroupPerJob, GroupRecorded, ClientsOfStarted,
         AnswersRecorded, FreesOwnGroup, CompletesStarted, Released, Started,
         NOT_STARTED, COMPLETE, NoJob, JobIds
<1>2. TypeInv /\ ReleaseInv /\ [Next]_vars => ReleaseInv'
  <2> SUFFICES ASSUME TypeInv, ReleaseInv, [Next]_vars PROVE ReleaseInv'
    OBVIOUS
  <2>1. CASE UNCHANGED vars
    BY <2>1, ReleaseKept DEF vars
  <2>2. CASE Next
    BY <2>2, CommandReleases, UpdateReleases, ReplyReleases, OthersRelease DEF Next
  <2> QED
    BY <2>1, <2>2
<1>3. ReleaseInv => GroupReleased
  BY DEF ReleaseInv, Released, GroupReleased, Entries
<1> QED
  BY <1>1, <1>2, <1>3, TypesHold, PTL DEF Spec
=============================================================================
