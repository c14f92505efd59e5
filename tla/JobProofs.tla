------------------------------ MODULE JobProofs ------------------------------
(***************************************************************************)
(* What the operator is promised, proved of Dispatch for every set of      *)
(* clients, every group layout and every number of commands: a complete    *)
(* job has all its answers, none is missed, the client array tells who     *)
(* works, and the whole is a JobService. The code gives this only to an    *)
(* operator who is careful, in one of two ways. Runs of TLC check some of  *)
(* it for an operator who does not look for a free client.                 *)
(***************************************************************************)
EXTENDS DispatchProofs

USE DispatchAssumption
    DEF server, work, net, answer, add_job, update_group_with_job_assigned,
        update_job_status_and_group, update_client_status_to_free,
        get_group_id_from_job, update_job_status_to_completed, update_job_result

-----------------------------------------------------------------------------
(* The careful operator gives a command when a group with a free client is *)
(* ready, and                                                              *)

\* either every job before is complete,
Alone == MaxOpen <= 1

\* or the handlers of all commands before have returned: the jobs still compute.
UnderWay == HandlerPcs \ {"none", "returned"}
Careful  == Looks /\ (Alone \/ UnderWay \subseteq Unsettled)

-----------------------------------------------------------------------------
(* The invariant. The handlers first: the one that is not done with its    *)
(* group is that of the last command, so that the argument block and the   *)
(* group's job number, read again and again, are still its own.            *)

Before   == {"none", "queued", "pulled", "args", "named"}  \* no client counted yet
Settling == Before \cup {"counted", "filled"}              \* no client assigned yet
Handed   == {"split", "returned"}                          \* client_Handlers queued

Size(h) == handler[h].size
Arr(h)  == handler[h].arr

\* A handler that has clients to assign or a part to send.
Unsent(h) ==
    \/ handler[h].pc \notin {"none"} \cup Handed
    \/ /\ handler[h].pc = "split"
       /\ \E t \in Tasks : /\ t[1] = h /\ t[2] \in 1 .. Len(Arr(h))
                          /\ task[t].pc \in {"none", "queued", "filed"}

ArgsInv ==
    job_id > 0 => /\ args.op = job_id /\ args.file = job_id
                  /\ groups[args.group_id].job_id = job_id

FrameInv ==
    \A h \in JobIds :
        /\ handler[h].pc # "none" => h <= job_id
        /\ h <= job_id => handler[h].pc # "none"
        /\ Unsent(h) => h = job_id
        /\ Reading(h) => handler[h].op = h
        /\ Reading(h) /\ h = job_id => handler[h].mg_id = args.group_id
        /\ Reading(h) /\ handler[h].pc # "args" => handler[h].file \in {h, NoFile}

AloneInv == Alone => \A j \in JobIds : j < job_id => jobs[j].status = COMPLETE

StatusInv ==
    \A h \in JobIds :
        /\ handler[h].pc \in Settling \cup {"assigned"} =>
              jobs[h].status = NOT_STARTED /\ jobs[h].number_of_clients = 0
        /\ handler[h].pc \notin Settling \cup {"assigned"} =>
              jobs[h].status # NOT_STARTED /\ jobs[h].number_of_clients = Size(h)

SplitInv ==
    \A h \in JobIds : split[h].per # 0 =>
        /\ handler[h].pc \in Handed
        /\ split[h].file = h /\ split[h].per = lines[h] \div Len(Arr(h))

\* The clients a handler counts, fills its array with and assigns.
CountGood(h) ==
    /\ handler[h].pc \in Before \ {"none"} =>
          \A g \in Entries : g = args.group_id => FreeMembers(g) # {}
    /\ handler[h].pc \notin Before => Size(h) > 0 /\ Size(h) <= Cardinality(Clients)
    /\ handler[h].pc = "counted" =>
          \A g \in Entries : g = args.group_id => Size(h) <= Cardinality(FreeMembers(g))

ArrayGood(h) ==
    /\ handler[h].pc \notin Before \cup {"counted"} =>
          /\ Len(Arr(h)) = Size(h)
          /\ \A i, k \in 1 .. Size(h) : Arr(h)[i] = Arr(h)[k] => i = k
    /\ handler[h].pc = "filled" =>
          \A i \in 1 .. Size(h) :
              \A g \in Entries : g = args.group_id => Arr(h)[i] \in FreeMembers(g)
    /\ handler[h].pc \notin Settling => \A i \in 1 .. Size(h) : Arr(h)[i] \in Clients

SizeInv == \A h \in JobIds : CountGood(h) /\ ArrayGood(h)

\* A chosen client is the job's until the thread of its answer frees it.
OwnInv ==
    \A h \in JobIds : \A i \in 1 .. Size(h) :
        handler[h].pc \notin Settling /\ reply[<<h, i>>].pc \in {"none", "arrived", "appended"}
        => clients[Arr(h)[i]].client_status = BUSY /\ clients[Arr(h)[i]].job_id = h

\* The parts on their way: what each task sends, and what a socket holds.
PartOf(t) == [file |-> t[1], index |-> t[2], per |-> lines[t[1]] \div Len(Arr(t[1]))]
LineOf(t) == [from |-> Target(t), part |-> PartOf(t), op |-> t[1]]

TaskInv ==
    \A t \in Tasks : task[t].pc # "none" =>
        /\ handler[t[1]].pc \in Handed /\ t[2] \in 1 .. Len(Arr(t[1]))
        /\ task[t].prefix = t[1]
        /\ task[t].pc \in {"queued", "filed"} => handler[t[1]].pc = "split"

File(t) == [type |-> "file", task |-> t, op |-> 0, job |-> NoJob, part |-> PartOf(t)]
Exec(t) == [type |-> "exec", task |-> t, op |-> t[1], job |-> t[1], part |-> NoPart]

Awaiting(t, c) ==
    reply[t].pc = "none" /\ task[t].pc \in {"filed", "sent"} /\ Target(t) = c

Underway(t, c) ==
    \/ task[t].pc = "filed" /\ sock[c] = <<File(t)>>
    \/ task[t].pc = "sent" /\ sock[c] = <<File(t), Exec(t)>>
    \/ task[t].pc = "sent" /\ sock[c] = <<Exec(t)>> /\ disk[c] = PartOf(t)

SockInv ==
    \A c \in Clients :
        /\ c \notin alive => sock[c] = <<>>
        /\ sock[c] # <<>> => \E t \in Tasks : Awaiting(t, c) /\ Underway(t, c)
        /\ \A t \in Tasks : c \in alive /\ Awaiting(t, c) /\ task[t].pc = "filed" =>
              sock[c] = <<File(t)>> \/ (sock[c] = <<>> /\ disk[c] = PartOf(t))

\* The answers: one line per part, and a job is complete with all of them.
Recorded(t) == reply[t].pc \notin {"none", "arrived"}

Answered(j) ==
    /\ handler[j].pc \in Handed /\ Size(j) > 0
    /\ \A i \in 1 .. Size(j) : <<j, i>> \in Tasks /\ Recorded(<<j, i>>)

ReplyInv ==
    \A t \in Tasks : reply[t].pc # "none" =>
        task[t].pc = "sent" /\ reply[t].job = t[1] /\ reply[t].line = LineOf(t)

ResultInv ==
    \A j \in JobIds :
        results[j] = {<<t, LineOf(t)>> : t \in {u \in Tasks : u[1] = j /\ Recorded(u)}}

CountsAll(t) == reply[t].pc = "counted" /\ reply[t].count = Size(t[1])

LastInv ==
    \A t \in Tasks :
        /\ CountsAll(t) \/ reply[t].pc \in {"freeing", "computing", "completed"}
              => Answered(t[1])
        /\ reply[t].pc = "completed" =>
              reply[t].result = results[t[1]] /\ jobs[t[1]].status = COMPLETE

Storing(j) == \E t \in Tasks : t[1] = j /\ reply[t].pc = "completed"

\* The result of a complete job is the final one, or still to be stored.
CompleteInv ==
    \A j \in JobIds :
        /\ jobs[j].status # COMPLETE => jobs[j].result = {}
        /\ jobs[j].status = COMPLETE =>
              Answered(j) /\ (jobs[j].result = results[j]
                              \/ (jobs[j].result = {} /\ Storing(j)))

Finishing(t) ==
    CountsAll(t) \/ reply[t].pc \in {"appended", "freed", "freeing", "computing"}

MissedInv ==
    \A j \in JobIds : jobs[j].status = IN_PROGRESS /\ Answered(j) =>
        \E t \in Tasks : t[1] = j /\ Finishing(t)

FrontInv  == ArgsInv /\ FrameInv /\ AloneInv /\ StatusInv /\ SplitInv /\ SizeInv
PartsInv  == TaskInv /\ SockInv
AnswerInv == ReplyInv /\ ResultInv /\ LastInv /\ CompleteInv /\ MissedInv

JobInv == FrontInv /\ OwnInv /\ PartsInv /\ AnswerInv

-----------------------------------------------------------------------------
(* Facts about the state.                                                  *)

LEMMA Typed ==
    ASSUME TypeInv
    PROVE  /\ job_id \in Nat /\ job_id <= MaxJobs /\ JobIds \subseteq Nat
           /\ \A h \in JobIds : /\ handler[h].pc \in HandlerPcs /\ handler[h].mg_id \in Entries
                                /\ Size(h) \in Int /\ Arr(h) \in Seq(Someone)
                                /\ Len(Arr(h)) \in Nat /\ lines[h] \in Nat
           /\ \A t \in Tasks : /\ t[1] \in JobIds /\ t[2] \in Positions
                               /\ t = <<t[1], t[2]>>
                               /\ task[t].pc \in TaskPcs /\ reply[t].pc \in ReplyPcs
                               /\ reply[t].count \in Nat
           /\ args.group_id \in Entries
<1>1. JobIds \subseteq Nat /\ (\A t \in Tasks : t[1] \in JobIds /\ t[2] \in Positions
                                                /\ t = <<t[1], t[2]>>)
  BY DEF Tasks, JobIds
<1>2. /\ job_id \in 0 .. MaxJobs /\ handler \in [JobIds -> HandlerFrames]
      /\ task \in [Tasks -> [pc : TaskPcs, prefix : Ops]]
      /\ reply \in [Tasks -> ReplyFrames] /\ args \in Arguments
      /\ lines \in [JobIds -> Nat]
  BY DEF TypeInv, TypeOK
<1>3. \A h \in JobIds : /\ handler[h].pc \in HandlerPcs /\ handler[h].mg_id \in Entries
                        /\ Size(h) \in Int /\ Arr(h) \in Seq(Someone)
                        /\ Len(Arr(h)) \in Nat /\ lines[h] \in Nat
  BY <1>2 DEF HandlerFrames, Size, Arr
<1>4. \A t \in Tasks : /\ task[t].pc \in TaskPcs /\ reply[t].pc \in ReplyPcs
                       /\ reply[t].count \in Nat
  BY <1>2 DEF ReplyFrames
<1> QED
  BY <1>1, <1>2, <1>3, <1>4 DEF Arguments

\* Sets of clients can be counted, and fewer clients count less.
LEMMA ClientsCounted ==
    ASSUME NEW T \in SUBSET Clients, NEW S \in SUBSET T
    PROVE  /\ IsFiniteSet(T) /\ IsFiniteSet(S)
           /\ Cardinality(S) \in Nat /\ Cardinality(T) \in Nat
           /\ Cardinality(S) <= Cardinality(T)
           /\ Cardinality(T) <= Cardinality(Clients) /\ Cardinality(Clients) \in Nat
<1>1. IsFiniteSet(T) /\ IsFiniteSet(S) /\ Cardinality(S) <= Cardinality(T)
      /\ Cardinality(T) <= Cardinality(Clients)
  BY FS_Subset
<1> QED
  BY <1>1, FS_CardinalityType

\* A client that has a part and has not answered for it has one only.
Live(t) == task[t].pc \in {"queued", "filed", "sent"} /\ reply[t].pc \in {"none", "arrived"}

LEMMA OneTask ==
    ASSUME TypeInv, JobInv, NEW s \in Tasks, NEW t \in Tasks, Live(s), Live(t),
           Target(s) = Target(t), Target(s) \in Clients
    PROVE  s = t
<1>1. /\ s[1] \in JobIds /\ t[1] \in JobIds /\ s = <<s[1], s[2]>> /\ t = <<t[1], t[2]>>
      /\ Size(s[1]) \in Int /\ Size(t[1]) \in Int
      /\ job_id \in Nat /\ JobIds \subseteq Nat
      /\ Len(Arr(s[1])) \in Nat /\ Len(Arr(t[1])) \in Nat
  BY Typed
<1>2. ASSUME NEW u \in Tasks, Live(u)
      PROVE  /\ handler[u[1]].pc \in Handed /\ u[2] \in 1 .. Len(Arr(u[1]))
             /\ Target(u) = Arr(u[1])[u[2]] /\ u[1] <= job_id
             /\ handler[u[1]].pc \notin Settling
  BY <1>2, Typed DEF Live, JobInv, PartsInv, TaskInv, Target, Arr, FrontInv, FrameInv,
                     Handed, Settling, Before
<1>3. ASSUME NEW u \in Tasks, Live(u)
      PROVE  Size(u[1]) > 0
  BY <1>2, <1>3, Typed DEF Settling, JobInv, FrontInv, SizeInv, CountGood
<1>4. ASSUME NEW u \in Tasks, Live(u)
      PROVE  clients[Target(u)].job_id = u[1] /\ u[2] \in 1 .. Size(u[1])
  <2>1. u[2] \in 1 .. Size(u[1])
    BY <1>2, <1>3, <1>4, Typed DEF JobInv, FrontInv, SizeInv, ArrayGood, Settling, Handed, Before
  <2>2. reply[<<u[1], u[2]>>].pc \in {"none", "arrived", "appended"}
    BY <1>4, Typed DEF Live
  <2>3. u[1] \in JobIds /\ handler[u[1]].pc \notin Settling /\ OwnInv
    BY <1>2, <1>4, Typed DEF JobInv
  <2>4. clients[Arr(u[1])[u[2]]].job_id = u[1]
    BY <2>1, <2>2, <2>3 DEF OwnInv
  <2> QED
    BY <1>2, <1>4, <2>1, <2>4
<1>5. s[1] = t[1] /\ s[2] \in 1 .. Size(s[1]) /\ t[2] \in 1 .. Size(s[1])
  BY <1>4
<1>6. Arr(s[1])[s[2]] = Arr(s[1])[t[2]] /\ handler[s[1]].pc \notin Before \cup {"counted"}
  BY <1>2, <1>5 DEF Settling
<1>7. s[2] = t[2]
  BY <1>1, <1>5, <1>6 DEF JobInv, FrontInv, SizeInv, ArrayGood
<1> QED
  BY <1>1, <1>5, <1>7

-----------------------------------------------------------------------------
(* What a step must leave alone to keep a part of the invariant.           *)

\* A step that leaves the handlers alone.
LEMMA FrontKept ==
    ASSUME TypeInv, TypeInv', FrontInv, UNCHANGED <<job_id, lines, args, handler, split>>,
           \A g \in Entries : /\ groups'[g].job_id = groups[g].job_id
                              /\ FreeMembers(g) \subseteq FreeMembers(g)',
           \A t \in Tasks : task'[t].pc \in {"none", "queued", "filed"} =>
                               task[t].pc \in {"none", "queued", "filed"},
           \A j \in JobIds :
              /\ jobs'[j].number_of_clients = jobs[j].number_of_clients
              /\ jobs[j].status = COMPLETE => jobs'[j].status = COMPLETE
              /\ jobs'[j].status = NOT_STARTED <=> jobs[j].status = NOT_STARTED
    PROVE  FrontInv'
<1>1. ArgsInv'
  BY Typed DEF FrontInv, ArgsInv
<1>2. FrameInv'
  <2>1. \A h \in JobIds : Unsent(h)' => Unsent(h)
    BY DEF Unsent, Arr
  <2> QED
    BY <2>1 DEF FrontInv, FrameInv, Reading
<1>3. AloneInv' /\ StatusInv' /\ SplitInv'
  BY DEF FrontInv, AloneInv, StatusInv, SplitInv, Size, Arr, Handed
<1>4. SizeInv'
  <2>1. \A h \in JobIds : Size(h)' = Size(h) /\ Arr(h)' = Arr(h)
    BY DEF Size, Arr
  <2>2. ASSUME NEW g \in Entries
        PROVE  /\ FreeMembers(g) # {} => FreeMembers(g)' # {}
               /\ \A x : x \in FreeMembers(g) => x \in FreeMembers(g)'
               /\ Cardinality(FreeMembers(g)) <= Cardinality(FreeMembers(g)')
               /\ Cardinality(FreeMembers(g)) \in Nat /\ Cardinality(FreeMembers(g)') \in Nat
    <3>1. groups'[g].members \subseteq Clients
      BY DEF TypeInv, TypeOK, GroupEntries
    <3>2. FreeMembers(g)' \subseteq Clients
      BY <3>1 DEF FreeMembers
    <3>3. FreeMembers(g) \subseteq FreeMembers(g)'
      OBVIOUS
    <3> QED
      BY <3>2, <3>3, ClientsCounted
  <2>3. ASSUME NEW h \in JobIds PROVE CountGood(h)' /\ ArrayGood(h)'
    <3>1. CountGood(h) /\ ArrayGood(h) /\ Size(h) \in Int
      BY Typed DEF FrontInv, SizeInv
    <3>2. CountGood(h)'
      BY <2>1, <2>2, <3>1 DEF CountGood
    <3>3. ArrayGood(h)'
      BY <2>1, <2>2, <3>1 DEF ArrayGood
    <3> QED
      BY <3>2, <3>3
  <2> QED
    BY <2>3 DEF SizeInv
<1> QED
  BY <1>1, <1>2, <1>3, <1>4 DEF FrontInv

\* What a step does to the handlers that have queued their tasks, and to the jobs
\* of the others.
HandedKept ==
    /\ \A h \in JobIds :
          handler[h].pc \in Handed =>
                /\ handler'[h].pc \in Handed
                /\ handler'[h].size = handler[h].size /\ handler'[h].arr = handler[h].arr
                /\ lines'[h] = lines[h]
    /\ \A t \in Tasks : task[t].pc \in {"queued", "filed"} /\ handler[t[1]].pc = "split" =>
                            handler'[t[1]].pc = "split"
    /\ \A j \in JobIds :
          jobs'[j] = jobs[j] \/ (jobs'[j].status # COMPLETE /\ jobs'[j].result = {}
                               /\ handler'[j].pc \notin Handed)

\* A step that leaves the tasks, the messages and the answers alone.
LEMMA WorkKept ==
    ASSUME TypeInv, TypeInv', PartsInv, AnswerInv, HandedKept,
           UNCHANGED <<task, reply, results, sock, disk, alive>>
    PROVE  PartsInv' /\ AnswerInv'
<1>1. ASSUME NEW h \in JobIds, handler[h].pc \in Handed
      PROVE  handler'[h].pc \in Handed /\ Size(h)' = Size(h) /\ Arr(h)' = Arr(h)
             /\ lines'[h] = lines[h]
  BY <1>1 DEF HandedKept, Size, Arr
<1>2. ASSUME NEW t \in Tasks, task[t].pc # "none"
      PROVE  /\ handler[t[1]].pc \in Handed /\ handler'[t[1]].pc \in Handed
             /\ Size(t[1])' = Size(t[1]) /\ Arr(t[1])' = Arr(t[1])
             /\ Target(t)' = Target(t) /\ PartOf(t)' = PartOf(t) /\ LineOf(t)' = LineOf(t)
             /\ File(t)' = File(t) /\ Exec(t)' = Exec(t)
  <2>1. t[1] \in JobIds /\ handler[t[1]].pc \in Handed
    BY <1>2, Typed DEF PartsInv, TaskInv
  <2>2. Size(t[1])' = Size(t[1]) /\ Arr(t[1])' = Arr(t[1]) /\ handler'[t[1]].pc \in Handed
        /\ lines'[t[1]] = lines[t[1]]
    BY <1>1, <2>1
  <2>3. Target(t)' = Target(t)
    BY <2>2 DEF Target, Arr
  <2>4. PartOf(t)' = PartOf(t)
    BY <2>2 DEF PartOf
  <2> QED
    BY <2>1, <2>2, <2>3, <2>4 DEF LineOf, File, Exec
<1>3. ASSUME NEW t \in Tasks, reply[t].pc # "none"
      PROVE  task[t].pc # "none"
  BY <1>3 DEF AnswerInv, ReplyInv
<1>4. TaskInv'
  BY <1>2 DEF PartsInv, TaskInv, HandedKept
<1>5. SockInv'
  <2>1. ASSUME NEW t \in Tasks, NEW c \in Clients
        PROVE  /\ Awaiting(t, c)' <=> Awaiting(t, c)
               /\ Awaiting(t, c) => (Underway(t, c)' <=> Underway(t, c))
               /\ Awaiting(t, c) => File(t)' = File(t) /\ PartOf(t)' = PartOf(t)
    <3>1. task[t].pc \in {"filed", "sent"} => task[t].pc # "none"
      OBVIOUS
    <3>2. Awaiting(t, c)' <=> Awaiting(t, c)
      BY <1>2, <3>1 DEF Awaiting
    <3>3. ASSUME Awaiting(t, c)
          PROVE  /\ File(t)' = File(t) /\ PartOf(t)' = PartOf(t)
                 /\ Underway(t, c)' <=> Underway(t, c)
      BY <1>2, <3>1, <3>3 DEF Awaiting, Underway
    <3> QED
      BY <3>2, <3>3
  <2> QED
    BY <2>1 DEF PartsInv, SockInv
<1>6. ReplyInv' /\ ResultInv'
  <2>1. ReplyInv'
    BY <1>2, <1>3 DEF AnswerInv, ReplyInv
  <2>2. ASSUME NEW j \in JobIds
        PROVE  {<<t, LineOf(t)'>> : t \in {u \in Tasks : u[1] = j /\ Recorded(u)'}}
                  = {<<t, LineOf(t)>> : t \in {u \in Tasks : u[1] = j /\ Recorded(u)}}
    <3>1. \A t \in Tasks : /\ Recorded(t)' <=> Recorded(t)
                           /\ Recorded(t) => LineOf(t)' = LineOf(t)
      BY <1>2, <1>3 DEF Recorded
    <3> QED
      BY <3>1
  <2>3. ResultInv'
    BY <2>2 DEF AnswerInv, ResultInv
  <2> QED
    BY <2>1, <2>3
<1>7. ASSUME NEW j \in JobIds
      PROVE  Answered(j)' <=> Answered(j)
  <2>1. CASE handler[j].pc \in Handed
    BY <1>1, <2>1 DEF Answered, Recorded
  <2>2. CASE handler[j].pc \notin Handed
    <3>1. Size(j)' \in Int
      BY DEF TypeInv, TypeOK, HandlerFrames, Size
    <3>2. ASSUME Answered(j)' PROVE FALSE
      <4>1. <<j, 1>> \in Tasks /\ Recorded(<<j, 1>>)'
        BY <3>1, <3>2 DEF Answered
      <4>2. reply[<<j, 1>>].pc # "none"
        BY <4>1 DEF Recorded
      <4> QED
        BY <1>2, <1>3, <2>2, <4>1, <4>2
    <3> QED
      BY <2>2, <3>2 DEF Answered
  <2> QED
    BY <2>1, <2>2
<1>8. ASSUME NEW t \in Tasks
      PROVE  /\ CountsAll(t)' <=> CountsAll(t)
             /\ Finishing(t)' <=> Finishing(t)
  <2>1. CountsAll(t)' <=> CountsAll(t)
    BY <1>2, <1>3 DEF CountsAll
  <2> QED
    BY <2>1 DEF Finishing
<1>9. LastInv'
  <2> SUFFICES ASSUME NEW t \in Tasks
               PROVE  /\ (CountsAll(t) \/ reply[t].pc \in {"freeing", "computing", "completed"})'
                            => Answered(t[1])'
                      /\ reply[t].pc = "completed" =>
                            reply[t].result = results[t[1]] /\ jobs'[t[1]].status = COMPLETE
    BY DEF LastInv
  <2>1. t[1] \in JobIds
    BY Typed
  <2>2. (CountsAll(t) \/ reply[t].pc \in {"freeing", "computing", "completed"})'
           => Answered(t[1])'
    BY <1>7, <1>8, <2>1 DEF AnswerInv, LastInv
  <2>3. ASSUME reply[t].pc = "completed"
        PROVE  reply[t].result = results[t[1]] /\ jobs'[t[1]].status = COMPLETE
    <3>1. reply[t].result = results[t[1]] /\ jobs[t[1]].status = COMPLETE
      BY <2>3 DEF AnswerInv, LastInv
    <3>2. handler'[t[1]].pc \in Handed
      BY <1>2, <1>3, <2>3
    <3> QED
      BY <2>1, <3>1, <3>2 DEF HandedKept
  <2> QED
    BY <2>2, <2>3
<1>10. CompleteInv'
  BY <1>7 DEF AnswerInv, CompleteInv, Storing, HandedKept
<1>11. MissedInv'
  <2>1. \A j \in JobIds : Answered(j) => jobs'[j] = jobs[j]
    BY DEF HandedKept, Answered
  <2> QED
    BY <1>7, <1>8, <2>1 DEF AnswerInv, MissedInv
<1> QED
  BY <1>4, <1>5, <1>6, <1>9, <1>10, <1>11 DEF PartsInv, AnswerInv

\* A step that leaves the handlers, the jobs and the answers alone.
LEMMA AnswersKept ==
    ASSUME AnswerInv, UNCHANGED <<lines, handler, jobs, reply, results>>,
           \A t \in Tasks : task[t].pc = "sent" => task'[t].pc = "sent"
    PROVE  AnswerInv'
<1>1. \A t \in Tasks : LineOf(t)' = LineOf(t) /\ Recorded(t)' = Recorded(t)
  BY DEF LineOf, Target, PartOf, Arr, Recorded
<1>2. ReplyInv' /\ ResultInv'
  BY <1>1 DEF AnswerInv, ReplyInv, ResultInv
<1>3. /\ \A j \in JobIds : Answered(j)' = Answered(j)
      /\ \A t \in Tasks : CountsAll(t)' = CountsAll(t) /\ Finishing(t)' = Finishing(t)
      /\ \A t \in Tasks : Answered(t[1])' = Answered(t[1])
  BY DEF Answered, CountsAll, Finishing, Recorded, Size
<1>4. LastInv' /\ CompleteInv' /\ MissedInv'
  BY <1>3 DEF AnswerInv, LastInv, CompleteInv, Storing, MissedInv
<1> QED
  BY <1>2, <1>4 DEF AnswerInv

\* The messages keep their task when neither the handlers nor the answers change.
LEMMA SameMessages ==
    ASSUME UNCHANGED <<lines, handler>>, NEW t \in Tasks
    PROVE  /\ Target(t)' = Target(t) /\ PartOf(t)' = PartOf(t)
           /\ LineOf(t)' = LineOf(t) /\ File(t)' = File(t) /\ Exec(t)' = Exec(t)
BY DEF Target, PartOf, LineOf, File, Exec, Arr

-----------------------------------------------------------------------------
(* The command.                                                            *)

\* All tasks of an answered job are recorded.
LEMMA AnsweredTasks ==
    ASSUME TypeInv, JobInv, NEW t \in Tasks, task[t].pc # "none", Answered(t[1])
    PROVE  Recorded(t) /\ task[t].pc = "sent" /\ t[2] \in 1 .. Size(t[1])
<1>1. /\ t[1] \in JobIds /\ t = <<t[1], t[2]>> /\ t[2] \in 1 .. Len(Arr(t[1]))
      /\ handler[t[1]].pc \in Handed /\ Size(t[1]) > 0
  BY Typed DEF JobInv, PartsInv, TaskInv, Answered
<1>2. t[2] \in 1 .. Size(t[1])
  BY <1>1 DEF JobInv, FrontInv, SizeInv, ArrayGood, Handed, Before
<1>3. Recorded(t)
  BY <1>1, <1>2 DEF Answered
<1> QED
  BY <1>2, <1>3 DEF Recorded, JobInv, AnswerInv, ReplyInv

\* An operator who gives one command at a time gives it when no job is open.
LEMMA NoneOpen ==
    ASSUME TypeInv, Alone, StartJob, NEW j \in 1 .. job_id
    PROVE  jobs[j].status = COMPLETE
<1>1. Cardinality(Open) < MaxOpen /\ MaxOpen \in Nat /\ MaxOpen <= 1 /\ job_id \in Nat
  BY Typed DEF StartJob, Alone
<1>2. job_id \in Int /\ 1 \in Int /\ Open \subseteq 1 .. job_id
  BY <1>1 DEF Open
<1>3. IsFiniteSet(Open)
  BY <1>2, FS_Interval, FS_Subset
<1>4. Cardinality(Open) \in Nat /\ (Cardinality(Open) = 0 <=> Open = {})
  BY <1>3, FS_CardinalityType, FS_EmptySet
<1> QED
  BY <1>1, <1>4 DEF Open

\* When the careful operator gives a command, no handler and no task of an
\* earlier one still reads what the command overwrites.
LEMMA AllSent ==
    ASSUME Careful, TypeInv, JobInv, StartJob, NEW h \in JobIds
    PROVE  ~Unsent(h) /\ handler[h].pc \in {"none"} \cup Handed
<1> SUFFICES ASSUME Unsent(h) PROVE FALSE
  BY DEF Unsent
<1>2. handler[h].pc \in HandlerPcs \ {"none", "returned"}
  BY Typed DEF Unsent, Handed
<1>3. h \in 1 .. job_id /\ job_id \in Nat
  BY <1>2, Typed DEF JobInv, FrontInv, FrameInv, JobIds
<1>4. CASE Alone
  <2>5. jobs[h].status = COMPLETE
    BY <1>3, <1>4, NoneOpen
  <2>6. Answered(h)
    BY <2>5 DEF JobInv, AnswerInv, CompleteInv
  <2>7. PICK t \in Tasks : /\ t[1] = h /\ t[2] \in 1 .. Len(Arr(h))
                           /\ task[t].pc \in {"none", "queued", "filed"}
    BY <2>6 DEF Unsent, Answered
  <2>8. t[2] \in 1 .. Size(h) /\ t = <<h, t[2]>>
    BY <2>6, <2>7, Typed DEF JobInv, FrontInv, SizeInv, ArrayGood, Answered, Handed, Before
  <2>9. reply[t].pc # "none"
    BY <2>6, <2>8 DEF Answered, Recorded
  <2> QED
    BY <2>7, <2>9 DEF JobInv, AnswerInv, ReplyInv
<1>5. CASE Looks /\ UnderWay \subseteq Unsettled
  BY <1>2, <1>5 DEF StartJob, UnderWay
<1> QED
  BY <1>4, <1>5 DEF Careful

\* A command keeps the invariant.
LEMMA CommandKeeps ==
    ASSUME Careful, TypeInv, TypeInv', JobInv, StartJob
    PROVE  JobInv'
<1>0. PICK j, g : j = job_id + 1 /\ g = find_free_group
  OBVIOUS
<1>1. /\ job_id \in Nat /\ j \in JobIds /\ job_id' = j /\ j > 0 /\ JobIds \subseteq Nat
      /\ g \in Entries /\ job_id < j
  BY <1>0, FoundGroup, Typed DEF StartJob, JobIds
<1>2. /\ args' = [group_id |-> g, op |-> j, file |-> j]
      /\ UNCHANGED <<clients, split, task, net, answer, up>>
      /\ \A k \in JobIds : k # j => lines'[k] = lines[k]
      /\ FreeMembers(g) # {}
  <2>1. lines \in [JobIds -> Nat]
    BY DEF TypeInv, TypeOK
  <2> QED
    BY <1>0, <2>1 DEF StartJob, Careful
<1>3. /\ groups'[g].job_id = j
      /\ \A e \in Entries : groups'[e].members = groups[e].members
  <2>1. groups \in [Entries -> GroupEntries]
    BY DEF TypeInv, TypeOK
  <2>2. groups' = [groups EXCEPT ![g].job_id = j, ![g].group_status = BUSY]
    BY <1>0 DEF StartJob
  <2> QED
    BY <1>1, <2>1, <2>2 DEF GroupEntries
<1>4. /\ jobs'[j].status = NOT_STARTED /\ jobs'[j].number_of_clients = 0 /\ jobs'[j].result = {}
      /\ \A k \in JobIds : k # j => jobs'[k] = jobs[k]
  <2>1. jobs \in [JobIds -> JobEntries]
    BY DEF TypeInv, TypeOK
  <2> QED
    BY <1>0, <1>1, <2>1 DEF StartJob
<1>5. /\ handler'[j].pc = "queued"
      /\ \A h \in JobIds : h # j => handler'[h] = handler[h]
  <2>1. handler \in [JobIds -> HandlerFrames]
    BY DEF TypeInv, TypeOK
  <2> QED
    BY <1>0, <1>1, <2>1 DEF StartJob, HandlerFrames
<1>6. \A h \in JobIds : ~Unsent(h) /\ handler[h].pc \in {"none"} \cup Handed
  BY AllSent
<1>7. handler[j].pc = "none"
  BY <1>1, <1>6 DEF JobInv, FrontInv, FrameInv
<1>8. \A h \in JobIds : h # j => Size(h)' = Size(h) /\ Arr(h)' = Arr(h)
  BY <1>5 DEF Size, Arr
<1>9. ArgsInv'
  BY <1>1, <1>2, <1>3 DEF ArgsInv
<1>10. FrameInv'
  <2>1. \A h \in JobIds : (h < j <=> h <= job_id) /\ (h <= j <=> h <= job_id \/ h = j)
    BY <1>0, <1>1
  <2>2. ASSUME NEW h \in JobIds, h # j
        PROVE  ~Unsent(h)' /\ (Reading(h)' => Reading(h))
    BY <1>2, <1>5, <1>6, <1>8, <2>2 DEF Unsent, Reading
  <2>3. ~Reading(j)'
    BY <1>5 DEF Reading
  <2> QED
    BY <1>1, <1>5, <2>1, <2>2, <2>3 DEF FrameInv, JobInv, FrontInv, Reading
<1>11. AloneInv'
  <2> SUFFICES ASSUME Alone, NEW k \in JobIds, k < j PROVE jobs'[k].status = COMPLETE
    BY <1>1 DEF AloneInv
  <2>5. k \in 1 .. job_id
    BY <1>0, <1>1 DEF JobIds
  <2>6. jobs[k].status = COMPLETE
    BY <2>5, NoneOpen
  <2> QED
    BY <1>1, <1>4, <2>6
<1>12. StatusInv'
  BY <1>1, <1>4, <1>5, <1>8 DEF JobInv, FrontInv, StatusInv, Settling, Before
<1>13. SplitInv'
  <2>1. split[j].per = 0
    BY <1>1, <1>7 DEF JobInv, FrontInv, SplitInv, Handed
  <2> QED
    BY <1>1, <1>2, <1>5, <1>8, <2>1 DEF JobInv, FrontInv, SplitInv
<1>14. SizeInv'
  <2>1. \A e \in Entries : FreeMembers(e)' = FreeMembers(e)
    BY <1>2, <1>3 DEF FreeMembers
  <2>2. CountGood(j)' /\ ArrayGood(j)'
    <3> QED
      BY <1>2, <1>5, <2>1 DEF CountGood, ArrayGood, Before, Settling
  <2>3. ASSUME NEW h \in JobIds, h # j
        PROVE  CountGood(h)' /\ ArrayGood(h)'
    <3>1. CountGood(h) /\ ArrayGood(h) /\ handler[h].pc \in {"none"} \cup Handed
      BY <1>6 DEF JobInv, FrontInv, SizeInv
    <3> QED
      BY <1>5, <1>8, <2>3, <3>1 DEF CountGood, ArrayGood, Before, Settling, Handed
  <2> QED
    BY <2>2, <2>3 DEF SizeInv
<1>15. OwnInv'
  <2>1. handler'[j].pc \in Settling
    BY <1>5 DEF Settling, Before
  <2> QED
    BY <1>2, <1>5, <1>8, <2>1 DEF JobInv, OwnInv
<1>16. HandedKept
  <2>1. NOT_STARTED # COMPLETE /\ "none" \notin Handed /\ "queued" \notin Handed
        /\ "split" \in Handed
    BY DEF Handed, COMPLETE, NOT_STARTED
  <2>2. \A k \in JobIds :
           jobs'[k] = jobs[k] \/ (jobs'[k].status # COMPLETE /\ jobs'[k].result = {}
                                /\ handler'[k].pc \notin Handed)
    BY <1>4, <1>5, <2>1
  <2>3. \A h \in JobIds : h = j \/ handler'[h] = handler[h]
    BY <1>5
  <2> QED
    BY <1>2, <1>5, <1>7, <2>1, <2>2, <2>3, Typed DEF HandedKept
<1>17. PartsInv' /\ AnswerInv'
  BY <1>2, <1>16, WorkKept DEF JobInv
<1> QED
  BY <1>9, <1>10, <1>11, <1>12, <1>13, <1>14, <1>15, <1>17 DEF JobInv, FrontInv

-----------------------------------------------------------------------------
(* The handlers.                                                           *)

\* A handler that has not queued its tasks is that of the last command.
LEMMA LastHandler ==
    ASSUME TypeInv, JobInv, NEW h \in JobIds, handler[h].pc \notin {"none"} \cup Handed
    PROVE  /\ h = job_id /\ args.op = h /\ args.file = h /\ groups[args.group_id].job_id = h
           /\ Reading(h) => handler[h].mg_id = args.group_id
           /\ \A k \in JobIds : k # h => handler[k].pc \in {"none"} \cup Handed
           /\ \A t \in Tasks : t[1] = h => task[t].pc = "none" /\ reply[t].pc = "none"
<1>1. \A k \in JobIds : handler[k].pc \notin {"none"} \cup Handed => k = job_id
  BY DEF JobInv, FrontInv, FrameInv, Unsent
<1>2. h = job_id /\ job_id > 0
  BY <1>1, Typed DEF JobIds
<1>3. \A t \in Tasks : t[1] = h => task[t].pc = "none" /\ reply[t].pc = "none"
  BY DEF JobInv, PartsInv, TaskInv, AnswerInv, ReplyInv
<1> QED
  BY <1>1, <1>2, <1>3 DEF JobInv, FrontInv, ArgsInv, FrameInv

\* A step of such a handler that leaves the groups, the tasks and the answers alone.
LEMMA HandlerKeeps ==
    ASSUME TypeInv, TypeInv', JobInv, NEW h \in JobIds,
           handler[h].pc \notin {"none"} \cup Handed, handler'[h].pc # "none",
           UNCHANGED <<job_id, lines, groups, args, task, net, answer>>,
           \A k \in JobIds : k # h => /\ handler'[k] = handler[k]
                                      /\ jobs'[k] = jobs[k] /\ split'[k] = split[k],
           Reading(h)' => handler'[h].op = h /\ handler'[h].mg_id = args.group_id,
           Reading(h)' /\ handler'[h].pc # "args" => handler'[h].file \in {h, NoFile},
           handler'[h].pc \in Settling \cup {"assigned"} =>
              jobs'[h].status = NOT_STARTED /\ jobs'[h].number_of_clients = 0,
           handler'[h].pc \notin Settling \cup {"assigned"} =>
              jobs'[h].status # NOT_STARTED /\ jobs'[h].number_of_clients = Size(h)',
           jobs'[h] = jobs[h] \/ (jobs'[h].status # COMPLETE /\ jobs'[h].result = {}
                                /\ handler'[h].pc \notin Handed),
           split'[h].per # 0 => /\ handler'[h].pc = "split" /\ split'[h].file = h
                                /\ split'[h].per = lines[h] \div Len(Arr(h)'),
           CountGood(h)', ArrayGood(h)', OwnInv'
    PROVE  JobInv'
<1>1. /\ h = job_id /\ groups[args.group_id].job_id = h
      /\ \A k \in JobIds : k # h => handler[k].pc \in {"none"} \cup Handed
  BY LastHandler
<1>2. \A k \in JobIds : k # h => Size(k)' = Size(k) /\ Arr(k)' = Arr(k)
  BY DEF Size, Arr
<1>3. ArgsInv'
  BY DEF JobInv, FrontInv, ArgsInv
<1>4. FrameInv'
  <2>1. \A k \in JobIds : k # h => (Unsent(k)' => Unsent(k)) /\ (Reading(k)' => Reading(k))
    BY <1>2 DEF Unsent, Reading
  <2> QED
    BY <1>1, <2>1 DEF JobInv, FrontInv, FrameInv
<1>5. AloneInv' /\ StatusInv' /\ SplitInv'
  <2>1. AloneInv'
    <3>1. \A k \in JobIds : k < job_id => k # h
      BY <1>1, Typed
    <3> QED
      BY <3>1 DEF JobInv, FrontInv, AloneInv
  <2>2. StatusInv'
    BY <1>2 DEF JobInv, FrontInv, StatusInv
  <2>3. SplitInv'
    BY <1>2 DEF JobInv, FrontInv, SplitInv, Handed
  <2> QED
    BY <2>1, <2>2, <2>3
<1>6. SizeInv'
  <2>1. ASSUME NEW k \in JobIds, k # h
        PROVE  CountGood(k)' /\ ArrayGood(k)'
    <3>1. CountGood(k) /\ ArrayGood(k) /\ handler[k].pc \in {"none"} \cup Handed
      BY <1>1, <2>1 DEF JobInv, FrontInv, SizeInv
    <3> QED
      BY <1>2, <2>1, <3>1 DEF CountGood, ArrayGood, Before, Settling, Handed
  <2> QED
    BY <2>1 DEF SizeInv
<1>7. HandedKept
  <2>1. \A t \in Tasks : task[t].pc \in {"queued", "filed"} /\ handler[t[1]].pc = "split" =>
                            handler'[t[1]].pc = "split"
    BY Typed DEF Handed
  <2>2. \A k \in JobIds :
           jobs'[k] = jobs[k] \/ (jobs'[k].status # COMPLETE /\ jobs'[k].result = {}
                                /\ handler'[k].pc \notin Handed)
    OBVIOUS
  <2> QED
    BY <2>1, <2>2 DEF HandedKept
<1>8. PartsInv' /\ AnswerInv'
  BY <1>7, WorkKept DEF JobInv
<1> QED
  BY <1>3, <1>4, <1>5, <1>6, <1>8 DEF JobInv, FrontInv

\* A step that changes only how far the handler is.
LEMMA PcMoves ==
    ASSUME TypeInv, NEW h \in JobIds, NEW p, handler' = [handler EXCEPT ![h].pc = p]
    PROVE  /\ handler'[h].pc = p
           /\ handler'[h].mg_id = handler[h].mg_id /\ handler'[h].op = handler[h].op
           /\ handler'[h].file = handler[h].file
           /\ Size(h)' = Size(h) /\ Arr(h)' = Arr(h)
           /\ \A k \in JobIds : k # h => handler'[k] = handler[k]
<1>1. handler \in [JobIds -> HandlerFrames] /\ handler[h] \in HandlerFrames
  BY DEF TypeInv, TypeOK
<1> QED
  BY <1>1 DEF HandlerFrames, Size, Arr

\* The clients of the others are left alone.
LEMMA OwnKept ==
    ASSUME OwnInv, NEW h \in JobIds, UNCHANGED <<clients, reply>>,
           \A k \in JobIds : k # h => handler'[k] = handler[k],
           handler'[h].pc \notin Settling =>
              handler[h].pc \notin Settling /\ Size(h)' = Size(h) /\ Arr(h)' = Arr(h)
    PROVE  OwnInv'
<1>1. ASSUME NEW k \in JobIds, NEW i \in 1 .. Size(k)', handler'[k].pc \notin Settling,
             reply'[<<k, i>>].pc \in {"none", "arrived", "appended"}
      PROVE  clients'[Arr(k)'[i]].client_status = BUSY /\ clients'[Arr(k)'[i]].job_id = k
  <2>1. handler[k].pc \notin Settling /\ Size(k)' = Size(k) /\ Arr(k)' = Arr(k)
    <3>1. CASE k = h
      BY <1>1, <3>1
    <3>2. CASE k # h
      BY <1>1, <3>2 DEF Size, Arr
    <3> QED
      BY <3>1, <3>2
  <2> QED
    BY <1>1, <2>1 DEF OwnInv
<1> QED
  BY <1>1 DEF OwnInv

\* The steps up to the file name, and the split, read the argument block and
\* the group.
LEMMA PullKeeps ==
    ASSUME TypeInv, TypeInv', JobInv, NEW h \in JobIds, HandlerPull(h)
    PROVE  JobInv'
<1>1. /\ handler[h].pc = "queued" /\ UNCHANGED <<server, split, task, net, answer, up>>
      /\ handler' = [handler EXCEPT ![h].pc = "pulled"]
  BY DEF HandlerPull
<1>2. /\ handler'[h].pc = "pulled" /\ Size(h)' = Size(h) /\ Arr(h)' = Arr(h)
      /\ \A k \in JobIds : k # h => handler'[k] = handler[k]
  BY <1>1, PcMoves
<1>3. handler[h].pc \notin {"none"} \cup Handed /\ handler'[h].pc \notin {"none"} \cup Handed
      /\ handler[h].pc \in Settling /\ handler'[h].pc \in Settling /\ ~Reading(h)'
  BY <1>1, <1>2 DEF Handed, Settling, Before, Reading
<1>4. \A e \in Entries : FreeMembers(e)' = FreeMembers(e)
  BY <1>1 DEF FreeMembers
<1>5. CountGood(h)' /\ ArrayGood(h)'
  <2>1. CountGood(h) /\ ArrayGood(h)
    BY DEF JobInv, FrontInv, SizeInv
  <2> QED
    BY <1>1, <1>2, <1>4, <2>1 DEF CountGood, ArrayGood, Before, Settling
<1>6. OwnInv'
  BY <1>1, <1>2, <1>3, OwnKept DEF JobInv
<1>7. jobs[h].status = NOT_STARTED /\ jobs[h].number_of_clients = 0 /\ split[h].per = 0
  BY <1>1, <1>3 DEF JobInv, FrontInv, StatusInv, SplitInv, Handed
<1> QED
  BY <1>1, <1>2, <1>3, <1>5, <1>6, <1>7, HandlerKeeps

LEMMA ArgsKeeps ==
    ASSUME TypeInv, TypeInv', JobInv, NEW h \in JobIds, HandlerArgs(h)
    PROVE  JobInv'
<1>1. /\ handler[h].pc = "pulled" /\ UNCHANGED <<server, split, task, net, answer, up>>
      /\ handler' = [handler EXCEPT ![h].pc = "args", ![h].mg_id = args.group_id,
                                    ![h].op = args.op]
  BY DEF HandlerArgs
<1>2. /\ handler'[h].pc = "args" /\ handler'[h].op = args.op
      /\ handler'[h].mg_id = args.group_id
      /\ handler'[h].size = handler[h].size /\ handler'[h].arr = handler[h].arr
      /\ \A k \in JobIds : k # h => handler'[k] = handler[k]
  <2>1. handler \in [JobIds -> HandlerFrames] /\ handler[h] \in HandlerFrames
    BY DEF TypeInv, TypeOK
  <2> QED
    BY <1>1, <2>1 DEF HandlerFrames
<1>3. handler[h].pc \notin {"none"} \cup Handed /\ handler'[h].pc \notin {"none"} \cup Handed
      /\ handler[h].pc \in Settling /\ handler'[h].pc \in Settling
  BY <1>1, <1>2 DEF Handed, Settling, Before
<1>4. \A e \in Entries : FreeMembers(e)' = FreeMembers(e)
  BY <1>1 DEF FreeMembers
<1>5. CountGood(h)' /\ ArrayGood(h)'
  <2>1. CountGood(h) /\ ArrayGood(h)
    BY DEF JobInv, FrontInv, SizeInv
  <2> QED
    BY <1>1, <1>2, <1>4, <2>1 DEF CountGood, ArrayGood, Before, Settling
<1>6. OwnInv'
  BY <1>1, <1>2, <1>3, OwnKept DEF JobInv
<1>7. jobs[h].status = NOT_STARTED /\ jobs[h].number_of_clients = 0 /\ split[h].per = 0
  BY <1>1, <1>3 DEF JobInv, FrontInv, StatusInv, SplitInv, Handed
<1>8. args.op = h
  BY <1>3, LastHandler
<1> QED
  BY <1>1, <1>2, <1>3, <1>5, <1>6, <1>7, <1>8, HandlerKeeps

LEMMA FileKeeps ==
    ASSUME TypeInv, TypeInv', JobInv, NEW h \in JobIds, HandlerFile(h)
    PROVE  JobInv'
<1>0. PICK f \in NamesRead(args.file) :
         handler' = [handler EXCEPT ![h].pc = "named", ![h].file = f]
  BY DEF HandlerFile
<1>1. handler[h].pc = "args" /\ UNCHANGED <<server, split, task, net, answer, up>>
  BY DEF HandlerFile
<1>2. /\ handler'[h].pc = "named" /\ handler'[h].file = f
      /\ handler'[h].mg_id = handler[h].mg_id /\ handler'[h].op = handler[h].op
      /\ handler'[h].size = handler[h].size /\ handler'[h].arr = handler[h].arr
      /\ \A k \in JobIds : k # h => handler'[k] = handler[k]
  <2>1. handler \in [JobIds -> HandlerFrames] /\ handler[h] \in HandlerFrames
    BY DEF TypeInv, TypeOK
  <2> QED
    BY <1>0, <1>1, <2>1 DEF HandlerFrames
<1>3. handler[h].pc \notin {"none"} \cup Handed /\ handler'[h].pc \notin {"none"} \cup Handed
      /\ handler[h].pc \in Settling /\ handler'[h].pc \in Settling /\ Reading(h)
  BY <1>1, <1>2 DEF Handed, Settling, Before, Reading
<1>4. \A e \in Entries : FreeMembers(e)' = FreeMembers(e)
  BY <1>1 DEF FreeMembers
<1>5. CountGood(h)' /\ ArrayGood(h)'
  <2>1. CountGood(h) /\ ArrayGood(h)
    BY DEF JobInv, FrontInv, SizeInv
  <2> QED
    BY <1>1, <1>2, <1>4, <2>1 DEF CountGood, ArrayGood, Before, Settling
<1>6. OwnInv'
  BY <1>1, <1>2, <1>3, OwnKept DEF JobInv
<1>7. jobs[h].status = NOT_STARTED /\ jobs[h].number_of_clients = 0 /\ split[h].per = 0
      /\ handler[h].op = h
  BY <1>1, <1>3 DEF JobInv, FrontInv, FrameInv, StatusInv, SplitInv, Handed
<1>8. f \in {h, NoFile} /\ handler[h].mg_id = args.group_id
  <2>1. args.file = h /\ handler[h].mg_id = args.group_id
    BY <1>3, LastHandler
  <2> QED
    BY <1>0, <2>1 DEF NamesRead
<1> QED
  BY <1>1, <1>2, <1>3, <1>5, <1>6, <1>7, <1>8, HandlerKeeps

\* The free clients are counted: there are some, as when the command was given.
LEMMA CountKeeps ==
    ASSUME TypeInv, TypeInv', JobInv, NEW h \in JobIds, HandlerCount(h)
    PROVE  JobInv'
<1>0. PICK g : g = args.group_id
  OBVIOUS
<1>1. handler[h].pc = "named" /\ UNCHANGED <<server, split, task, net, answer>>
  BY DEF HandlerCount
<1>2. handler[h].pc \notin {"none"} \cup Handed /\ handler[h].pc \in Settling /\ Reading(h)
      /\ handler[h].pc \in Before \ {"none"}
  BY <1>1 DEF Handed, Settling, Before, Reading
<1>3. g \in Entries /\ handler[h].mg_id = g
  BY <1>0, <1>2, LastHandler, Typed
<1>4. /\ FreeMembers(g) \subseteq groups[g].members /\ FreeMembers(g) \subseteq Clients
      /\ Cardinality(FreeMembers(g)) \in Nat
      /\ Cardinality(FreeMembers(g)) <= Cardinality(Clients) /\ Cardinality(Clients) \in Nat
      /\ Cardinality(FreeMembers(g)) > 0 /\ FreeMembers(g) # {}
  <2>1. FreeMembers(g) \subseteq groups[g].members
    BY DEF FreeMembers
  <2>2. FreeMembers(g) \subseteq Clients
    BY <1>3 DEF TypeInv, TypeOK, GroupEntries, FreeMembers
  <2>3. /\ IsFiniteSet(FreeMembers(g)) /\ Cardinality(FreeMembers(g)) \in Nat
        /\ Cardinality(FreeMembers(g)) <= Cardinality(Clients) /\ Cardinality(Clients) \in Nat
    BY <2>2, ClientsCounted
  <2>4. FreeMembers(g) # {} => Cardinality(FreeMembers(g)) # 0
    BY <2>3, FS_EmptySet
  <2>5. FreeMembers(g) # {}
    BY <1>0, <1>2, <1>3 DEF JobInv, FrontInv, SizeInv, CountGood
  <2> QED
    BY <2>1, <2>2, <2>3, <2>4, <2>5
<1>5. PICK n \in Int : /\ handler' = [handler EXCEPT ![h].pc = "counted", ![h].size = n]
                       /\ n = Cardinality(FreeMembers(g))
  <2>1. groups[g].members # {}
    BY <1>4
  <2>2. handler' = [handler EXCEPT ![h].pc = "counted",
                                   ![h].size = Cardinality(FreeMembers(g))]
    BY <1>3, <2>1 DEF HandlerCount
  <2> Cardinality(FreeMembers(g)) \in Int
    BY <1>4
  <2> WITNESS Cardinality(FreeMembers(g)) \in Int
  <2> QED
    BY <2>2
<1>6. /\ handler'[h].pc = "counted" /\ Size(h)' = n
      /\ handler'[h].mg_id = handler[h].mg_id /\ handler'[h].op = handler[h].op
      /\ handler'[h].file = handler[h].file
      /\ \A k \in JobIds : k # h => handler'[k] = handler[k]
  <2>1. handler \in [JobIds -> HandlerFrames] /\ handler[h] \in HandlerFrames
    BY DEF TypeInv, TypeOK
  <2> QED
    BY <1>5, <2>1 DEF HandlerFrames, Size
<1>7. handler'[h].pc \notin {"none"} \cup Handed /\ handler'[h].pc \in Settling
      /\ handler'[h].pc \notin Before
  BY <1>6 DEF Handed, Settling, Before
<1>8. n > 0 /\ n <= Cardinality(Clients) /\ n <= Cardinality(FreeMembers(g))
  BY <1>4, <1>5
<1>9. CountGood(h)' /\ ArrayGood(h)'
  <2>1. FreeMembers(g)' = FreeMembers(g) /\ args'.group_id = g
    BY <1>0, <1>1 DEF FreeMembers
  <2>2. CountGood(h)'
    BY <1>6, <1>7, <1>8, <2>1 DEF CountGood
  <2>3. ArrayGood(h)'
    BY <1>6, <1>7 DEF ArrayGood
  <2> QED
    BY <2>2, <2>3
<1>10. OwnInv'
  BY <1>1, <1>6, <1>7, OwnKept DEF JobInv
<1>11. jobs[h].status = NOT_STARTED /\ jobs[h].number_of_clients = 0 /\ split[h].per = 0
       /\ handler[h].op = h /\ handler[h].file \in {h, NoFile}
  BY <1>1, <1>2 DEF JobInv, FrontInv, FrameInv, StatusInv, SplitInv, Handed
<1> QED
  BY <1>0, <1>1, <1>2, <1>3, <1>6, <1>7, <1>9, <1>10, <1>11, HandlerKeeps

\* The array is filled with different free clients, as many as were counted: no
\* other handler assigns a client in between.
LEMMA FillKeeps ==
    ASSUME TypeInv, TypeInv', JobInv, NEW h \in JobIds, HandlerFill(h)
    PROVE  JobInv'
<1>0. PICK g, s, n : /\ g = args.group_id /\ s = Size(h)
                     /\ n = IF s = 0 THEN 1 ELSE s
  OBVIOUS
<1>1. handler[h].pc = "counted" /\ UNCHANGED <<server, split, task, net, answer, up>>
  BY DEF HandlerFill
<1>2. handler[h].pc \notin {"none"} \cup Handed /\ handler[h].pc \in Settling /\ Reading(h)
      /\ handler[h].pc \notin Before
  BY <1>1 DEF Handed, Settling, Before, Reading
<1>3. g \in Entries /\ handler[h].mg_id = g /\ s \in Int
  BY <1>0, <1>2, LastHandler, Typed
<1>4. PICK a \in [1 .. n -> Clients \cup {NoClient}] :
         /\ \A i \in 1 .. n : i <= Cardinality(FreeMembers(g)) =>
               a[i] \in FreeMembers(g) /\ \A k \in 1 .. i - 1 : a[k] # a[i]
         /\ handler' = [handler EXCEPT ![h].pc = "filled", ![h].arr = a]
  BY <1>0, <1>3 DEF HandlerFill, Size
<1>5. /\ handler'[h].pc = "filled" /\ Size(h)' = s /\ Arr(h)' = a
      /\ handler'[h].mg_id = handler[h].mg_id /\ handler'[h].op = handler[h].op
      /\ handler'[h].file = handler[h].file
      /\ \A k \in JobIds : k # h => handler'[k] = handler[k]
  <2>1. handler \in [JobIds -> HandlerFrames] /\ handler[h] \in HandlerFrames
    BY DEF TypeInv, TypeOK
  <2> QED
    BY <1>0, <1>4, <2>1 DEF HandlerFrames, Size, Arr
<1>6. handler'[h].pc \notin {"none"} \cup Handed /\ handler'[h].pc \in Settling
      /\ handler'[h].pc \notin Before \cup {"counted"}
  BY <1>5 DEF Handed, Settling, Before
<1>7. CountGood(h)
  BY DEF JobInv, FrontInv, SizeInv
<1>8. s > 0 /\ s <= Cardinality(Clients) /\ s <= Cardinality(FreeMembers(g))
  BY <1>0, <1>1, <1>2, <1>3, <1>7 DEF CountGood
<1>9. a \in Seq(Someone) /\ Len(a) \in Nat /\ 1 .. Len(a) = 1 .. n
  <2>1. handler'[h].arr \in Seq(Someone)
    BY DEF TypeInv, TypeOK, HandlerFrames
  <2> QED
    BY <1>4, <1>5, <2>1 DEF Arr
<1>10. n = s /\ s \in Nat /\ Len(a) = s
  <2>1. n = s /\ s \in Nat
    BY <1>0, <1>3, <1>8
  <2>2. \A l, m \in Nat : 1 .. l = 1 .. m => l = m
    <3> SUFFICES ASSUME NEW l \in Nat, NEW m \in Nat, 1 .. l = 1 .. m PROVE l = m
      OBVIOUS
    <3>1. (l > 0 => l \in 1 .. m) /\ (m > 0 => m \in 1 .. l)
      OBVIOUS
    <3> QED
      BY <3>1
  <2> QED
    BY <1>9, <2>1, <2>2
<1>11. /\ \A i \in 1 .. s : a[i] \in FreeMembers(g)
       /\ \A i, k \in 1 .. s : a[i] = a[k] => i = k
  <2>1. Cardinality(FreeMembers(g)) \in Nat
    BY <1>3, FreeMembersFinite DEF TypeInv
  <2>2. \A i \in 1 .. s : a[i] \in FreeMembers(g) /\ \A k \in 1 .. i - 1 : a[k] # a[i]
    BY <1>4, <1>8, <1>10, <2>1
  <2>3. \A i, k \in 1 .. s : i = k \/ i \in 1 .. k - 1 \/ k \in 1 .. i - 1
    BY <1>10
  <2> QED
    BY <2>2, <2>3
<1>12. CountGood(h)' /\ ArrayGood(h)'
  <2>1. FreeMembers(g)' = FreeMembers(g) /\ args'.group_id = g
    BY <1>0, <1>1 DEF FreeMembers
  <2>2. CountGood(h)'
    BY <1>5, <1>6, <1>8, <2>1 DEF CountGood
  <2>4. ArrayGood(h)'
    BY <1>3, <1>5, <1>6, <1>10, <1>11, <2>1 DEF ArrayGood
  <2> QED
    BY <2>2, <2>4
<1>13. OwnInv'
  BY <1>1, <1>5, <1>6, OwnKept DEF JobInv
<1>14. jobs[h].status = NOT_STARTED /\ jobs[h].number_of_clients = 0 /\ split[h].per = 0
       /\ handler[h].op = h /\ handler[h].file \in {h, NoFile}
  BY <1>1, <1>2 DEF JobInv, FrontInv, FrameInv, StatusInv, SplitInv, Handed
<1> QED
  BY <1>0, <1>1, <1>2, <1>3, <1>5, <1>6, <1>12, <1>13, <1>14, HandlerKeeps

\* The clients in the array are assigned: all of them are still free, so none of
\* another job is taken away.
LEMMA AssignKeeps ==
    ASSUME TypeInv, TypeInv', JobInv, NEW h \in JobIds, HandlerAssign(h)
    PROVE  JobInv'
<1>0. PICK g : g = args.group_id
  OBVIOUS
<1>1. /\ handler[h].pc = "filled" /\ handler' = [handler EXCEPT ![h].pc = "assigned"]
      /\ UNCHANGED <<job_id, lines, jobs, groups, args, split, task, net, answer, up>>
  BY DEF HandlerAssign
<1>2. handler[h].pc \notin {"none"} \cup Handed /\ handler[h].pc \in Settling /\ Reading(h)
      /\ handler[h].pc \notin Before \cup {"counted"}
  BY <1>1 DEF Handed, Settling, Before, Reading
<1>3. g \in Entries /\ handler[h].mg_id = g /\ groups[g].job_id = h /\ Size(h) \in Int
      /\ \A k \in JobIds : Size(k) \in Int
  BY <1>0, <1>2, LastHandler, Typed
<1>4. /\ handler'[h].pc = "assigned" /\ Size(h)' = Size(h) /\ Arr(h)' = Arr(h)
      /\ handler'[h].mg_id = handler[h].mg_id /\ handler'[h].op = handler[h].op
      /\ handler'[h].file = handler[h].file
      /\ \A k \in JobIds : k # h => handler'[k] = handler[k]
  BY <1>1, PcMoves
<1>5. handler'[h].pc \notin {"none"} \cup Handed /\ handler'[h].pc \notin Settling
      /\ handler'[h].pc \notin Before \cup {"counted", "filled"}
  BY <1>4 DEF Handed, Settling, Before
<1>6. CountGood(h) /\ ArrayGood(h)
  BY DEF JobInv, FrontInv, SizeInv
<1>7. ASSUME NEW i \in 1 .. Size(h)
      PROVE  /\ Arr(h)[i] \in Clients /\ Arr(h)[i] \in groups[g].members
             /\ clients[Arr(h)[i]].present /\ clients[Arr(h)[i]].client_status = FREE
  <2>1. Arr(h)[i] \in FreeMembers(g)
    BY <1>0, <1>1, <1>3, <1>6 DEF ArrayGood
  <2>2. groups[g].members \subseteq Clients
    BY <1>3 DEF TypeInv, TypeOK, GroupEntries
  <2> QED
    BY <2>1, <2>2 DEF FreeMembers
<1>8. CountGood(h)'
  BY <1>4, <1>5, <1>2, <1>6 DEF CountGood
<1>9. ArrayGood(h)'
  BY <1>2, <1>4, <1>5, <1>6, <1>7 DEF ArrayGood
<1>10. \A c \in Clients :
          /\ clients[c].client_status = BUSY => clients'[c] = clients[c]
          /\ (\E i \in 1 .. Size(h) : c = Arr(h)[i]) =>
                clients'[c].client_status = BUSY /\ clients'[c].job_id = h
  <2>1. clients \in [Clients -> ClientEntries]
    BY DEF TypeInv, TypeOK
  <2>2. Chosen(h) = {Arr(h)[i] : i \in 1 .. Size(h)}
    BY DEF Chosen, Size, Arr
  <2>3. clients' = [c \in Clients |->
           IF c \in Chosen(h) \cap groups[g].members /\ clients[c].present
             THEN AssignedEntry(c, h) ELSE clients[c]]
    BY <1>3 DEF HandlerAssign
  <2>4. \A c \in Clients : AssignedEntry(c, h).client_status = BUSY
                           /\ AssignedEntry(c, h).job_id = h
    BY <2>1 DEF AssignedEntry, ClientEntries
  <2>5. ASSUME NEW c \in Clients, clients[c].client_status = BUSY
        PROVE  clients'[c] = clients[c]
    <3>1. c \notin Chosen(h)
      BY <1>7, <2>2, <2>5 DEF FREE, BUSY
    <3> QED
      BY <2>3, <3>1
  <2>6. ASSUME NEW c \in Clients, NEW i \in 1 .. Size(h), c = Arr(h)[i]
        PROVE  clients'[c].client_status = BUSY /\ clients'[c].job_id = h
    <3>1. c \in Chosen(h) \cap groups[g].members /\ clients[c].present
      BY <1>7, <2>2, <2>6
    <3>2. clients'[c] = AssignedEntry(c, h)
      BY <2>3, <3>1
    <3> QED
      BY <2>4, <3>2
  <2> QED
    BY <2>5, <2>6
<1>11. OwnInv'
  <2>1. ASSUME NEW k \in JobIds, NEW i \in 1 .. Size(k)', handler'[k].pc \notin Settling,
               reply'[<<k, i>>].pc \in {"none", "arrived", "appended"}
        PROVE  clients'[Arr(k)'[i]].client_status = BUSY /\ clients'[Arr(k)'[i]].job_id = k
    <3>1. CASE k = h
      BY <1>4, <1>7, <1>10, <2>1, <3>1
    <3>2. CASE k # h
      <4>1. handler[k].pc \notin Settling /\ Size(k)' = Size(k) /\ Arr(k)' = Arr(k)
            /\ reply[<<k, i>>].pc \in {"none", "arrived", "appended"}
        BY <1>1, <1>4, <2>1, <3>2 DEF Size, Arr
      <4>2. clients[Arr(k)[i]].client_status = BUSY /\ clients[Arr(k)[i]].job_id = k
        BY <2>1, <4>1 DEF JobInv, OwnInv
      <4>3. Arr(k)[i] \in Clients
        BY <2>1, <4>1 DEF JobInv, FrontInv, SizeInv, ArrayGood
      <4> QED
        BY <1>10, <4>1, <4>2, <4>3
    <3> QED
      BY <3>1, <3>2
  <2> QED
    BY <2>1 DEF OwnInv
<1>12. jobs[h].status = NOT_STARTED /\ jobs[h].number_of_clients = 0 /\ split[h].per = 0
       /\ handler[h].op = h /\ handler[h].file \in {h, NoFile}
  BY <1>1, <1>2 DEF JobInv, FrontInv, FrameInv, StatusInv, SplitInv, Handed
<1> QED
  BY <1>0, <1>1, <1>2, <1>3, <1>4, <1>5, <1>8, <1>9, <1>11, <1>12, HandlerKeeps

\* The sizes and the clients of a handler that has assigned its clients stay.
LEMMA SizesKept ==
    ASSUME TypeInv, JobInv, NEW h \in JobIds,
           handler[h].pc \notin Settling, handler'[h].pc \notin Settling,
           Size(h)' = Size(h), Arr(h)' = Arr(h)
    PROVE  CountGood(h)' /\ ArrayGood(h)'
<1>1. CountGood(h) /\ ArrayGood(h)
  BY DEF JobInv, FrontInv, SizeInv
<1>2. /\ handler[h].pc \notin Before \cup {"counted", "filled"}
      /\ handler'[h].pc \notin Before \cup {"counted", "filled"}
  BY DEF Settling
<1> QED
  BY <1>1, <1>2 DEF CountGood, ArrayGood

LEMMA UpdateKeeps ==
    ASSUME TypeInv, TypeInv', JobInv, NEW h \in JobIds, HandlerUpdate(h)
    PROVE  JobInv'
<1>1. /\ handler[h].pc = "assigned" /\ handler' = [handler EXCEPT ![h].pc = "updated"]
      /\ UNCHANGED <<job_id, lines, groups, clients, args, split, task, net, answer, up>>
  BY DEF HandlerUpdate
<1>2. handler[h].pc \notin {"none"} \cup Handed /\ handler[h].pc \notin Settling /\ Reading(h)
  BY <1>1 DEF Handed, Settling, Before, Reading
<1>3. handler[h].mg_id = args.group_id /\ groups[handler[h].mg_id].job_id = h
  BY <1>2, LastHandler
<1>4. /\ handler'[h].pc = "updated" /\ Size(h)' = Size(h) /\ Arr(h)' = Arr(h)
      /\ handler'[h].mg_id = handler[h].mg_id /\ handler'[h].op = handler[h].op
      /\ handler'[h].file = handler[h].file
      /\ \A k \in JobIds : k # h => handler'[k] = handler[k]
  BY <1>1, PcMoves
<1>5. handler'[h].pc \notin {"none"} \cup Handed
      /\ handler'[h].pc \notin Settling \cup {"assigned"}
  BY <1>4 DEF Handed, Settling, Before
<1>6. /\ jobs'[h].status = IN_PROGRESS /\ jobs'[h].number_of_clients = Size(h)
      /\ jobs'[h].result = {}
      /\ \A k \in JobIds : k # h => jobs'[k] = jobs[k]
  <2>1. jobs \in [JobIds -> JobEntries]
    BY DEF TypeInv, TypeOK
  <2>2. jobs[h].status = NOT_STARTED
    BY <1>1 DEF JobInv, FrontInv, StatusInv
  <2>3. jobs[h].result = {}
    BY <2>2 DEF JobInv, AnswerInv, CompleteInv, NOT_STARTED, COMPLETE
  <2> QED
    BY <1>3, <2>1, <2>3 DEF HandlerUpdate, JobEntries, Size
<1>7. CountGood(h)' /\ ArrayGood(h)'
  BY <1>2, <1>4, <1>5, SizesKept
<1>8. OwnInv'
  BY <1>1, <1>2, <1>4, OwnKept DEF JobInv
<1>9. split[h].per = 0 /\ handler[h].op = h /\ handler[h].file \in {h, NoFile}
  BY <1>1, <1>2 DEF JobInv, FrontInv, FrameInv, SplitInv, Handed
<1>10. jobs'[h].status # NOT_STARTED /\ jobs'[h].status # COMPLETE
  BY <1>6 DEF NOT_STARTED, COMPLETE, IN_PROGRESS
<1> QED
  BY <1>1, <1>2, <1>3, <1>4, <1>5, <1>6, <1>7, <1>8, <1>9, <1>10, HandlerKeeps

LEMMA SplitKeeps ==
    ASSUME TypeInv, TypeInv', JobInv, NEW h \in JobIds, HandlerSplit(h)
    PROVE  JobInv'
<1>1. /\ handler[h].pc = "updated" /\ handler' = [handler EXCEPT ![h].pc = "split"]
      /\ UNCHANGED <<server, task, net, answer, up>>
  BY DEF HandlerSplit
<1>2. handler[h].pc \notin {"none"} \cup Handed /\ Reading(h)
      /\ handler[h].pc \notin Settling \cup {"assigned"}
  BY <1>1 DEF Handed, Settling, Before, Reading
<1>3. handler[h].mg_id = args.group_id /\ groups[handler[h].mg_id].job_id = h
  BY <1>2, LastHandler
<1>4. /\ handler'[h].pc = "split" /\ Size(h)' = Size(h) /\ Arr(h)' = Arr(h)
      /\ handler'[h].mg_id = handler[h].mg_id /\ handler'[h].op = handler[h].op
      /\ handler'[h].file = handler[h].file
      /\ \A k \in JobIds : k # h => handler'[k] = handler[k]
  BY <1>1, PcMoves
<1>5. handler'[h].pc # "none" /\ handler'[h].pc \notin Settling \cup {"assigned"}
  BY <1>4 DEF Handed, Settling, Before
<1>6. /\ split'[h].per # 0 => /\ split'[h].file = h
                             /\ split'[h].per = lines[h] \div Len(Arr(h))
      /\ \A k \in JobIds : k # h => split'[k] = split[k]
  <2>1. split \in [JobIds -> [file : Ops, per : Nat]]
    BY DEF TypeInv, TypeOK
  <2>2. split[h].per = 0
    BY <1>1 DEF JobInv, FrontInv, SplitInv, Handed
  <2>3. PICK f, n : f = handler[h].file /\ n = PartLines(f, Len(Arr(h)))
    OBVIOUS
  <2>4. \/ split' = split
        \/ n > 0 /\ split' = [split EXCEPT ![h] = [file |-> f, per |-> n]]
    BY <1>3, <2>3 DEF HandlerSplit, Arr
  <2>5. f \in {h, NoFile} /\ h # NoFile
    BY <1>2, <2>3 DEF JobInv, FrontInv, FrameInv, Reading, JobIds, NoFile, Settling, Before
  <2>6. n > 0 => f = h /\ n = lines[h] \div Len(Arr(h))
    <3>1. Len(Arr(h)) \in Nat /\ Len(Arr(h)) > 0
      BY <1>2, Typed DEF JobInv, FrontInv, SizeInv, CountGood, ArrayGood, Settling
    <3>2. CASE f = NoFile
      <4>1. n = 0 \div Len(Arr(h))
        BY <2>3, <3>1, <3>2 DEF PartLines, LinesIn
      <4> QED
        BY <3>1, <4>1
    <3>3. CASE f # NoFile
      BY <2>3, <2>5, <3>1, <3>3 DEF PartLines, LinesIn
    <3> QED
      BY <3>2, <3>3
  <2> QED
    BY <2>1, <2>2, <2>4, <2>6
<1>7. CountGood(h)' /\ ArrayGood(h)'
  BY <1>2, <1>4, <1>5, SizesKept
<1>8. OwnInv'
  BY <1>1, <1>2, <1>4, OwnKept DEF JobInv
<1>9. handler[h].op = h /\ handler[h].file \in {h, NoFile}
      /\ jobs[h].status # NOT_STARTED /\ jobs[h].number_of_clients = Size(h)
  BY <1>1, <1>2 DEF JobInv, FrontInv, FrameInv, StatusInv
<1> QED
  BY <1>1, <1>2, <1>3, <1>4, <1>5, <1>6, <1>7, <1>8, <1>9, HandlerKeeps

\* A task is queued: the handler is that of the last command, and the group still
\* has its job number.
LEMMA DispatchKeeps ==
    ASSUME TypeInv, TypeInv', JobInv, NEW h \in JobIds, HandlerDispatch(h)
    PROVE  JobInv'
<1>1. handler[h].pc = "split" /\ UNCHANGED <<server, handler, split, net, answer, up>>
  BY DEF HandlerDispatch
<1>2. PICK i \in 1 .. Len(Arr(h)) :
         /\ task[<<h, i>>].pc = "none"
         /\ task' = [task EXCEPT ![<<h, i>>] =
                        [pc |-> "queued", prefix |-> groups[handler[h].mg_id].job_id]]
  <2>1. Arr(h) \in Seq(Someone)
    BY Typed
  <2>2. DOMAIN handler[h].arr = 1 .. Len(Arr(h)) /\ Len(Arr(h)) \in Nat
    BY <2>1 DEF Arr
  <2>3. PICK i \in DOMAIN handler[h].arr :
           /\ \A k \in 1 .. i : (task[<<h, k>>].pc = "none") <=> (k = i)
           /\ task' = [task EXCEPT ![<<h, i>>] =
                          [pc |-> "queued", prefix |-> groups[handler[h].mg_id].job_id]]
    BY DEF HandlerDispatch
  <2>4. i \in 1 .. i /\ i \in 1 .. Len(Arr(h))
    BY <2>2
  <2>5. task[<<h, i>>].pc = "none"
    BY <2>3, <2>4
  <2> QED
    BY <2>3, <2>4, <2>5
<1>3. PICK t \in Tasks : t = <<h, i>> /\ t[1] = h /\ t[2] = i
  <2>1. handler[h].pc \notin Before \cup {"counted"}
    BY <1>1 DEF Before
  <2>2. Len(Arr(h)) = Size(h) /\ Size(h) <= Cardinality(Clients)
        /\ Size(h) \in Int
    BY <2>1, Typed DEF JobInv, FrontInv, SizeInv, CountGood, ArrayGood
  <2>3. Cardinality(Clients) \in Nat
    BY ClientsCounted
  <2>4. i \in Positions
    BY <2>2, <2>3 DEF Positions
  <2>5. <<h, i>> \in Tasks
    BY <2>4 DEF Tasks
  <2> QED
    BY <2>5
<1>4. h = job_id /\ groups[handler[h].mg_id].job_id = h
  <2>1. Unsent(h) /\ Reading(h)
    BY <1>1, <1>2, <1>3 DEF Unsent, Reading
  <2>2. h = job_id /\ handler[h].mg_id = args.group_id /\ job_id > 0
    BY <2>1 DEF JobInv, FrontInv, FrameInv, JobIds
  <2> QED
    BY <2>2 DEF JobInv, FrontInv, ArgsInv
<1>5. /\ task[t].pc = "none" /\ task'[t].pc = "queued" /\ task'[t].prefix = h
      /\ \A s \in Tasks : s # t => task'[s] = task[s]
  <2>1. task \in [Tasks -> [pc : TaskPcs, prefix : Ops]]
    BY DEF TypeInv, TypeOK
  <2> QED
    BY <1>2, <1>3, <1>4, <2>1
<1>6. FrontInv'
  <2>1. \A g \in Entries : FreeMembers(g)' = FreeMembers(g)
    BY <1>1 DEF FreeMembers
  <2> QED
    BY <1>1, <1>5, <2>1, FrontKept DEF JobInv
<1>7. OwnInv'
  BY <1>1 DEF JobInv, OwnInv, Size, Arr
<1>8. AnswerInv'
  BY <1>1, <1>5, AnswersKept DEF JobInv
<1>9. TaskInv'
  BY <1>1, <1>2, <1>3, <1>5 DEF JobInv, PartsInv, TaskInv, Arr, Handed
<1>10. SockInv'
  <2>1. \A s \in Tasks : /\ PartOf(s)' = PartOf(s) /\ File(s)' = File(s)
                         /\ Exec(s)' = Exec(s) /\ Target(s)' = Target(s)
    BY <1>1, SameMessages
  <2>2. ASSUME NEW s \in Tasks, NEW c \in Clients
        PROVE  /\ Awaiting(s, c)' <=> Awaiting(s, c)
               /\ Awaiting(s, c) => task'[s] = task[s]
               /\ Awaiting(s, c) => (Underway(s, c)' <=> Underway(s, c))
    BY <1>1, <1>5, <2>1 DEF Awaiting, Underway
  <2> QED
    BY <1>1, <2>1, <2>2 DEF JobInv, PartsInv, SockInv
<1> QED
  BY <1>6, <1>7, <1>8, <1>9, <1>10 DEF JobInv, PartsInv

\* A handler returns when all its tasks are sent.
LEMMA ReturnKeeps ==
    ASSUME TypeInv, TypeInv', JobInv, NEW h \in JobIds, HandlerReturn(h)
    PROVE  JobInv'
<1>1. /\ handler[h].pc = "split" /\ handler' = [handler EXCEPT ![h].pc = "returned"]
      /\ UNCHANGED <<server, split, task, net, answer, up>>
      /\ \A i \in DOMAIN Arr(h) : task[<<h, i>>].pc = "sent"
  BY DEF HandlerReturn, Arr
<1>2. /\ handler[h].pc \in Handed /\ handler'[h].pc \in Handed /\ handler'[h].pc = "returned"
      /\ Size(h)' = Size(h) /\ Arr(h)' = Arr(h)
      /\ handler'[h].mg_id = handler[h].mg_id /\ handler'[h].op = handler[h].op
      /\ handler'[h].file = handler[h].file
      /\ \A k \in JobIds : k # h => handler'[k] = handler[k]
  BY <1>1, PcMoves DEF Handed
<1>3. /\ handler[h].pc \notin Settling \cup {"assigned"} /\ Reading(h)
      /\ handler'[h].pc \notin Settling \cup {"assigned"}
      /\ handler[h].pc \notin {"none", "args"} /\ handler'[h].pc \notin {"none", "args"}
  BY <1>1, <1>2 DEF Handed, Settling, Before, Reading
<1>4. \A k \in JobIds : Size(k)' = Size(k) /\ Arr(k)' = Arr(k)
  BY <1>2 DEF Size, Arr
<1>5. \A t \in Tasks : t[1] = h => task[t].pc \notin {"queued", "filed"}
  <2> SUFFICES ASSUME NEW t \in Tasks, t[1] = h, task[t].pc # "none" PROVE task[t].pc = "sent"
    OBVIOUS
  <2>1. t[2] \in 1 .. Len(Arr(h)) /\ t = <<h, t[2]>> /\ Arr(h) \in Seq(Someone)
    BY Typed DEF JobInv, PartsInv, TaskInv
  <2> QED
    BY <1>1, <2>1
<1>6. FrontInv'
  <2>1. ArgsInv' /\ AloneInv'
    BY <1>1 DEF JobInv, FrontInv, ArgsInv, AloneInv
  <2>2. FrameInv'
    <3>1. \A k \in JobIds : (Unsent(k)' => Unsent(k)) /\ (Reading(k)' => Reading(k))
      BY <1>1, <1>2, <1>3, <1>4 DEF Unsent, Reading, Handed
    <3> QED
      BY <1>1, <1>2, <1>3, <3>1 DEF JobInv, FrontInv, FrameInv
  <2>3. StatusInv'
    BY <1>1, <1>2, <1>3, <1>4 DEF JobInv, FrontInv, StatusInv
  <2>4. SplitInv'
    BY <1>1, <1>2, <1>4 DEF JobInv, FrontInv, SplitInv
  <2>5. SizeInv'
    <3>1. CountGood(h)' /\ ArrayGood(h)'
      BY <1>2, <1>3, SizesKept
    <3>2. ASSUME NEW k \in JobIds, k # h
          PROVE  CountGood(k)' /\ ArrayGood(k)'
      <4>1. \A e \in Entries : FreeMembers(e)' = FreeMembers(e)
        BY <1>1 DEF FreeMembers
      <4>2. CountGood(k) /\ ArrayGood(k)
        BY DEF JobInv, FrontInv, SizeInv
      <4> QED
        BY <1>1, <1>2, <1>4, <3>2, <4>1, <4>2 DEF CountGood, ArrayGood
    <3> QED
      BY <3>1, <3>2 DEF SizeInv
  <2> QED
    BY <2>1, <2>2, <2>3, <2>4, <2>5 DEF FrontInv
<1>7. OwnInv'
  BY <1>1, <1>2, <1>3, OwnKept DEF JobInv
<1>8. HandedKept
  <2>1. \A t \in Tasks : task[t].pc \in {"queued", "filed"} /\ handler[t[1]].pc = "split" =>
                            handler'[t[1]].pc = "split"
    BY <1>2, <1>5, Typed
  <2> QED
    BY <1>1, <1>2, <2>1 DEF HandedKept, Size, Arr
<1>9. PartsInv' /\ AnswerInv'
  BY <1>1, <1>8, WorkKept DEF JobInv
<1> QED
  BY <1>6, <1>7, <1>9 DEF JobInv

-----------------------------------------------------------------------------
(* Registration, sending, and the clients.                                 *)

\* Registration: the groups have more free clients, never fewer.
LEMMA RegisterKeeps ==
    ASSUME TypeInv, TypeInv', JobInv, NEW c \in Clients, Register(c)
    PROVE  JobInv'
<1>1. UNCHANGED <<job_id, lines, jobs, args, work, net, answer, up>>
  BY DEF Register, RegisterGroups, RegisterClient
<1>2. /\ \A g \in Entries : /\ groups'[g].job_id = groups[g].job_id
                            /\ groups[g].members \subseteq groups'[g].members
      /\ \A d \in Clients : /\ clients'[d].client_status = clients[d].client_status
                            /\ clients'[d].job_id = clients[d].job_id
                            /\ clients[d].present => clients'[d].present
  <2>1. groups \in [Entries -> GroupEntries] /\ clients \in [Clients -> ClientEntries]
    BY DEF TypeInv, TypeOK
  <2>2. CASE RegisterGroups(c)
    BY <2>1, <2>2 DEF RegisterGroups, GroupEntries
  <2>3. CASE RegisterClient(c)
    BY <2>1, <2>3 DEF RegisterClient, ClientEntries
  <2> QED
    BY <2>2, <2>3 DEF Register
<1>3. \A g \in Entries : FreeMembers(g) \subseteq FreeMembers(g)'
  <2>1. \A g \in Entries : groups[g].members \subseteq Clients
    BY DEF TypeInv, TypeOK, GroupEntries
  <2> QED
    BY <1>2, <2>1 DEF FreeMembers
<1>4. FrontInv'
  BY <1>1, <1>2, <1>3, FrontKept DEF JobInv
<1>5. OwnInv'
  <2>1. \A h \in JobIds : handler[h].pc \notin Settling =>
           \A i \in 1 .. Size(h) : Arr(h)[i] \in Clients
    BY DEF JobInv, FrontInv, SizeInv, ArrayGood
  <2> QED
    BY <1>1, <1>2, <2>1 DEF JobInv, OwnInv, Size, Arr
<1>6. PartsInv' /\ AnswerInv'
  BY <1>1, WorkKept DEF HandedKept, JobInv
<1> QED
  BY <1>4, <1>5, <1>6 DEF JobInv

\* A thread that sends changes its own task and the socket of its client.
LEMMA SendFront ==
    ASSUME TypeInv, TypeInv', JobInv, NEW t \in Tasks, SendTo(t)
    PROVE  FrontInv' /\ OwnInv' /\ AnswerInv' /\ TaskInv'
<1>1. UNCHANGED <<server, handler, split, disk, alive, answer>>
  BY DEF SendTo, SendFile, SendNothing, SendExec
<1>2. /\ task[t].pc \in {"queued", "filed"} /\ task'[t].prefix = task[t].prefix
      /\ task'[t].pc \in {"filed", "sent", "exited"}
      /\ task'[t].pc \in {"none", "queued", "filed"} => task[t].pc = "queued"
      /\ \A s \in Tasks : s # t => task'[s] = task[s]
  <2>1. task \in [Tasks -> [pc : TaskPcs, prefix : Ops]]
    BY DEF TypeInv, TypeOK
  <2> QED
    BY <2>1 DEF SendTo, SendFile, SendNothing, SendExec
<1>3. FrontInv'
  <2>1. \A g \in Entries : FreeMembers(g)' = FreeMembers(g)
    BY <1>1 DEF FreeMembers
  <2> QED
    BY <1>1, <1>2, <2>1, FrontKept DEF JobInv
<1>4. OwnInv'
  BY <1>1 DEF JobInv, OwnInv, Size, Arr
<1>5. AnswerInv'
  BY <1>1, <1>2, AnswersKept DEF JobInv
<1>6. TaskInv'
  BY <1>1, <1>2 DEF JobInv, PartsInv, TaskInv, Arr
<1> QED
  BY <1>3, <1>4, <1>5, <1>6

\* The part goes to a client whose socket is empty.
LEMMA SendFileKeeps ==
    ASSUME TypeInv, TypeInv', JobInv, NEW t \in Tasks, SendFile(t)
    PROVE  JobInv'
<1>0. PICK d : d = Target(t)
  OBVIOUS
<1>1. /\ task[t].pc = "queued" /\ UNCHANGED <<server, handler, split, disk, alive, answer>>
      /\ task' = [task EXCEPT ![t].pc = "filed"]
  BY DEF SendFile
<1>2. /\ task'[t].pc = "filed" /\ \A s \in Tasks : s # t => task'[s] = task[s]
  <2>1. task \in [Tasks -> [pc : TaskPcs, prefix : Ops]]
    BY DEF TypeInv, TypeOK
  <2> QED
    BY <1>1, <2>1
<1>3. /\ task[t].prefix = t[1] /\ handler[t[1]].pc \in Handed /\ t[1] \in JobIds
      /\ reply[t].pc = "none" /\ Live(t)
  <2>1. reply[t].pc = "none"
    BY <1>1 DEF JobInv, AnswerInv, ReplyInv
  <2> QED
    BY <1>1, <2>1, Typed DEF JobInv, PartsInv, TaskInv, Live
<1>4. /\ split[t[1]].file = t[1]
      /\ split[t[1]].per = lines[t[1]] \div Len(Arr(t[1]))
  <2>1. split[t[1]].per > 0 /\ split[t[1]].per \in Nat
    BY <1>3 DEF SendFile, PartExists, TypeInv, TypeOK
  <2> QED
    BY <1>3, <2>1 DEF JobInv, FrontInv, SplitInv
<1>5. Send(d, File(t))
  BY <1>0, <1>3, <1>4 DEF SendFile, File, PartOf
<1>6. alive \subseteq Clients /\ sock \in [Clients -> Seq(Messages)]
  BY DEF TypeInv, TypeOK
<1>7. /\ \A c \in Clients : c # d \/ d \notin alive => sock'[c] = sock[c]
      /\ d \in alive => sock'[d] = Append(sock[d], File(t))
  BY <1>5, <1>6 DEF Send
<1>8. \A s \in Tasks : \A c \in Clients :
         /\ Awaiting(s, c) => Live(s) /\ s # t /\ Target(s) = c
         /\ s # t => (Awaiting(s, c)' <=> Awaiting(s, c))
         /\ Awaiting(t, c)' => c = d
  BY <1>0, <1>1, <1>2, SameMessages DEF Awaiting, Live
<1>9. d \in Clients => \A s \in Tasks : ~Awaiting(s, d)
  BY <1>0, <1>3, <1>8, OneTask
<1>10. d \in Clients => sock[d] = <<>>
  BY <1>9 DEF JobInv, PartsInv, SockInv
<1>11. d \in alive => sock'[d] = <<File(t)>>
  BY <1>6, <1>7, <1>10
<1>12. SockInv'
  <2>1. ASSUME NEW c \in Clients, c \notin alive
        PROVE  sock'[c] = <<>>
    BY <1>7, <2>1 DEF JobInv, PartsInv, SockInv
  <2>2. ASSUME NEW c \in Clients, sock'[c] # <<>>
        PROVE  \E s \in Tasks : Awaiting(s, c)' /\ Underway(s, c)'
    <3>1. CASE c = d
      <4>1. d \in alive
        BY <2>1, <2>2, <3>1
      <4>2. Awaiting(t, c)'
        BY <1>0, <1>1, <1>2, <1>3, <3>1, SameMessages DEF Awaiting
      <4>3. Underway(t, c)'
        BY <1>1, <1>2, <1>11, <3>1, <4>1, SameMessages DEF Underway
      <4> QED
        BY <4>2, <4>3
    <3>2. CASE c # d
      <4>1. sock'[c] = sock[c]
        BY <1>7, <3>2
      <4>2. PICK s \in Tasks : Awaiting(s, c) /\ Underway(s, c)
        BY <2>2, <4>1 DEF JobInv, PartsInv, SockInv
      <4>3. s # t /\ Awaiting(s, c)'
        BY <1>8, <4>2
      <4>4. Underway(s, c)'
        BY <1>1, <1>2, <4>1, <4>2, <4>3, SameMessages DEF Underway
      <4> QED
        BY <4>3, <4>4
    <3> QED
      BY <3>1, <3>2
  <2>3. ASSUME NEW c \in Clients, NEW s \in Tasks, c \in alive, Awaiting(s, c)',
               task'[s].pc = "filed"
        PROVE  sock'[c] = <<File(s)>> \/ (sock'[c] = <<>> /\ disk[c] = PartOf(s))
    <3>1. CASE s = t
      BY <1>8, <1>11, <2>3, <3>1
    <3>2. CASE s # t
      <4>1. Awaiting(s, c) /\ task[s].pc = "filed"
        BY <1>2, <1>8, <2>3, <3>2
      <4>2. c # d
        BY <1>9, <4>1
      <4>3. sock'[c] = sock[c]
        BY <1>7, <4>2
      <4> QED
        BY <2>3, <4>1, <4>3 DEF JobInv, PartsInv, SockInv
    <3> QED
      BY <3>1, <3>2
  <2> QED
    BY <1>1, <2>1, <2>2, <2>3, SameMessages DEF SockInv
<1> QED
  BY <1>12, SendFront DEF SendTo, JobInv, PartsInv

\* No part, no message.
LEMMA SendNothingKeeps ==
    ASSUME TypeInv, TypeInv', JobInv, NEW t \in Tasks, SendNothing(t)
    PROVE  JobInv'
<1>1. /\ task[t].pc = "queued" /\ UNCHANGED <<server, handler, split, net, answer, up>>
      /\ task' = [task EXCEPT ![t].pc = "exited"]
  BY DEF SendNothing
<1>2. /\ task'[t].pc = "exited" /\ \A s \in Tasks : s # t => task'[s] = task[s]
  <2>1. task \in [Tasks -> [pc : TaskPcs, prefix : Ops]]
    BY DEF TypeInv, TypeOK
  <2> QED
    BY <1>1, <2>1
<1>3. \A s \in Tasks : \A c \in Clients :
         /\ Awaiting(s, c)' <=> Awaiting(s, c)
         /\ Awaiting(s, c) => s # t /\ task'[s] = task[s]
         /\ Awaiting(s, c) => (Underway(s, c)' <=> Underway(s, c))
  BY <1>1, <1>2, SameMessages DEF Awaiting, Underway
<1>4. SockInv'
  BY <1>1, <1>3, SameMessages DEF JobInv, PartsInv, SockInv
<1> QED
  BY <1>4, SendFront DEF SendTo, JobInv, PartsInv

\* The order to execute follows the part; the group still has the job's number.
LEMMA SendExecKeeps ==
    ASSUME TypeInv, TypeInv', JobInv, NEW t \in Tasks, SendExec(t)
    PROVE  JobInv'
<1>0. PICK d : d = Target(t)
  OBVIOUS
<1>1. /\ task[t].pc = "filed" /\ UNCHANGED <<server, handler, split, disk, alive, answer>>
      /\ task' = [task EXCEPT ![t].pc = "sent"]
  BY DEF SendExec
<1>2. /\ task'[t].pc = "sent" /\ \A s \in Tasks : s # t => task'[s] = task[s]
  <2>1. task \in [Tasks -> [pc : TaskPcs, prefix : Ops]]
    BY DEF TypeInv, TypeOK
  <2> QED
    BY <1>1, <2>1
<1>3. handler[t[1]].pc \in Handed /\ t[1] \in JobIds /\ reply[t].pc = "none" /\ Live(t)
  <2>1. reply[t].pc = "none"
    BY <1>1 DEF JobInv, AnswerInv, ReplyInv
  <2> QED
    BY <1>1, <2>1, Typed DEF JobInv, PartsInv, TaskInv, Live
<1>4. handler[t[1]].op = t[1] /\ groups[handler[t[1]].mg_id].job_id = t[1]
  <2>1. Unsent(t[1]) /\ Reading(t[1])
    BY <1>1, <1>3 DEF Unsent, Reading, Handed, JobInv, PartsInv, TaskInv
  <2>2. t[1] = job_id /\ job_id > 0
    BY <1>3, <2>1, Typed DEF JobInv, FrontInv, FrameInv, JobIds
  <2> QED
    BY <1>3, <2>1, <2>2 DEF JobInv, FrontInv, FrameInv, ArgsInv
<1>5. Send(d, Exec(t))
  BY <1>0, <1>4 DEF SendExec, Exec
<1>6. alive \subseteq Clients /\ sock \in [Clients -> Seq(Messages)]
  BY DEF TypeInv, TypeOK
<1>7. /\ \A c \in Clients : c # d \/ d \notin alive => sock'[c] = sock[c]
      /\ d \in alive => sock'[d] = Append(sock[d], Exec(t))
  BY <1>5, <1>6 DEF Send
<1>8. \A s \in Tasks : \A c \in Clients :
         /\ Awaiting(s, c) => Live(s) /\ Target(s) = c
         /\ Awaiting(s, c)' <=> Awaiting(s, c)
         /\ c = d => Awaiting(t, c)
         /\ Awaiting(t, c) => c = d
  BY <1>0, <1>1, <1>2, <1>3, SameMessages DEF Awaiting, Live
<1>9. ASSUME d \in alive
      PROVE  \/ sock'[d] = <<File(t), Exec(t)>>
             \/ sock'[d] = <<Exec(t)>> /\ disk[d] = PartOf(t)
  <2>1. d \in Clients /\ Awaiting(t, d)
    BY <1>6, <1>8, <1>9
  <2>2. sock[d] = <<File(t)>> \/ (sock[d] = <<>> /\ disk[d] = PartOf(t))
    BY <1>1, <1>9, <2>1 DEF JobInv, PartsInv, SockInv
  <2> QED
    BY <1>7, <1>9, <2>2
<1>10. SockInv'
  <2>1. ASSUME NEW c \in Clients, c \notin alive
        PROVE  sock'[c] = <<>>
    BY <1>7, <2>1 DEF JobInv, PartsInv, SockInv
  <2>2. ASSUME NEW c \in Clients, sock'[c] # <<>>
        PROVE  \E s \in Tasks : Awaiting(s, c)' /\ Underway(s, c)'
    <3>1. CASE c = d
      <4>1. d \in alive /\ Awaiting(t, c)'
        BY <1>8, <2>1, <2>2, <3>1
      <4>2. Underway(t, c)'
        BY <1>1, <1>2, <1>9, <3>1, <4>1, SameMessages DEF Underway
      <4> QED
        BY <4>1, <4>2
    <3>2. CASE c # d
      <4>1. sock'[c] = sock[c]
        BY <1>7, <3>2
      <4>2. PICK s \in Tasks : Awaiting(s, c) /\ Underway(s, c)
        BY <2>2, <4>1 DEF JobInv, PartsInv, SockInv
      <4>3. s # t /\ Awaiting(s, c)'
        BY <1>8, <3>2, <4>2
      <4>4. Underway(s, c)'
        BY <1>1, <1>2, <4>1, <4>2, <4>3, SameMessages DEF Underway
      <4> QED
        BY <4>3, <4>4
    <3> QED
      BY <3>1, <3>2
  <2>3. ASSUME NEW c \in Clients, NEW s \in Tasks, c \in alive, Awaiting(s, c)',
               task'[s].pc = "filed"
        PROVE  sock'[c] = <<File(s)>> \/ (sock'[c] = <<>> /\ disk[c] = PartOf(s))
    <3>1. s # t /\ Awaiting(s, c) /\ task[s].pc = "filed"
      BY <1>2, <1>8, <2>3
    <3>2. c # d
      BY <1>0, <1>3, <1>8, <3>1, OneTask
    <3>3. sock'[c] = sock[c]
      BY <1>7, <3>2
    <3> QED
      BY <2>3, <3>1, <3>3 DEF JobInv, PartsInv, SockInv
  <2> QED
    BY <1>1, <2>1, <2>2, <2>3, SameMessages DEF SockInv
<1> QED
  BY <1>10, SendFront DEF SendTo, JobInv, PartsInv

\* The clients stay with their job when answers only move on.
LEMMA OwnAnswers ==
    ASSUME TypeInv, JobInv, UNCHANGED <<clients, handler>>,
           \A s \in Tasks : reply'[s].pc \in {"none", "arrived", "appended"} =>
                               reply[s].pc \in {"none", "arrived", "appended"}
    PROVE  OwnInv'
<1>1. ASSUME NEW h \in JobIds, NEW i \in 1 .. Size(h), handler[h].pc \notin Settling
      PROVE  <<h, i>> \in Tasks
  <2>1. Size(h) \in Int /\ Size(h) <= Cardinality(Clients) /\ Cardinality(Clients) \in Nat
    <3>1. handler[h].pc \notin Before
      BY <1>1 DEF Settling
    <3> QED
      BY <3>1, Typed, ClientsCounted DEF JobInv, FrontInv, SizeInv, CountGood
  <2> QED
    BY <2>1 DEF Tasks, Positions
<1> QED
  BY <1>1 DEF JobInv, OwnInv, Size, Arr

\* A client changes what it has and its answer.
LEMMA ClientFront ==
    ASSUME TypeInv, TypeInv', JobInv, UNCHANGED <<server, work, results, up>>,
           \A s \in Tasks : \/ reply'[s] = reply[s]
                            \/ reply[s].pc = "none" /\ reply'[s].pc = "arrived"
    PROVE  FrontInv' /\ OwnInv' /\ TaskInv'
<1>1. FrontInv'
  <2>1. \A g \in Entries : FreeMembers(g)' = FreeMembers(g)
    BY DEF FreeMembers
  <2> QED
    BY <2>1, FrontKept DEF JobInv
<1>2. OwnInv'
  BY OwnAnswers
<1>3. TaskInv'
  BY DEF JobInv, PartsInv, TaskInv, Arr
<1> QED
  BY <1>1, <1>2, <1>3

\* The part is stored.
LEMMA ClientFileKeeps ==
    ASSUME TypeInv, TypeInv', JobInv, NEW c \in Clients, ClientFile(c)
    PROVE  JobInv'
<1>1. /\ c \in alive /\ sock[c] # <<>> /\ Head(sock[c]).type = "file"
      /\ disk' = [disk EXCEPT ![c] = Head(sock[c]).part]
      /\ sock' = [sock EXCEPT ![c] = Tail(@)]
      /\ UNCHANGED <<server, work, alive, answer, up>>
  BY DEF ClientFile
<1>2. sock \in [Clients -> Seq(Messages)] /\ disk \in [Clients -> Parts]
  BY DEF TypeInv, TypeOK
<1>3. /\ sock'[c] = Tail(sock[c]) /\ disk'[c] = Head(sock[c]).part
      /\ \A e \in Clients : e # c => sock'[e] = sock[e] /\ disk'[e] = disk[e]
  BY <1>1, <1>2
<1>4. PICK t \in Tasks : Awaiting(t, c) /\ Underway(t, c)
  BY <1>1 DEF JobInv, PartsInv, SockInv
<1>5. disk'[c] = PartOf(t) /\ \/ task[t].pc = "filed" /\ sock'[c] = <<>>
                              \/ task[t].pc = "sent" /\ sock'[c] = <<Exec(t)>>
  <2>1. CASE task[t].pc = "filed" /\ sock[c] = <<File(t)>>
    BY <1>3, <2>1 DEF File
  <2>2. CASE task[t].pc = "sent" /\ sock[c] = <<File(t), Exec(t)>>
    BY <1>3, <2>2 DEF File
  <2>3. CASE sock[c] = <<Exec(t)>>
    BY <1>1, <2>3 DEF Exec
  <2> QED
    BY <1>4, <2>1, <2>2, <2>3 DEF Underway
<1>6. \A s \in Tasks : \A e \in Clients :
         /\ Awaiting(s, e)' <=> Awaiting(s, e)
         /\ e # c => (Underway(s, e)' <=> Underway(s, e))
         /\ Awaiting(s, e) => Live(s) /\ Target(s) = e
  BY <1>1, <1>3, SameMessages DEF Awaiting, Underway, Live
<1>7. \A s \in Tasks : Awaiting(s, c) => s = t
  BY <1>4, <1>6, OneTask
<1>8. Underway(t, c)' \/ sock'[c] = <<>>
  BY <1>1, <1>5, SameMessages DEF Underway
<1>9. SockInv'
  <2>1. ASSUME NEW e \in Clients
        PROVE  /\ e \notin alive => sock'[e] = <<>>
               /\ sock'[e] # <<>> => \E s \in Tasks : Awaiting(s, e)' /\ Underway(s, e)'
               /\ \A s \in Tasks : e \in alive /\ Awaiting(s, e)' /\ task[s].pc = "filed" =>
                     sock'[e] = <<File(s)>> \/ (sock'[e] = <<>> /\ disk'[e] = PartOf(s))
    <3>1. CASE e = c
      BY <1>1, <1>4, <1>5, <1>6, <1>7, <1>8, <3>1
    <3>2. CASE e # c
      BY <1>3, <1>6, <3>2 DEF JobInv, PartsInv, SockInv
    <3> QED
      BY <3>1, <3>2
  <2> QED
    BY <1>1, <2>1, SameMessages DEF SockInv
<1>10. AnswerInv'
  BY <1>1, AnswersKept DEF JobInv
<1> QED
  BY <1>1, <1>9, <1>10, ClientFront DEF JobInv, PartsInv

\* The answer is about the part of the task, with the job's operation and number.
LEMMA ClientExecKeeps ==
    ASSUME TypeInv, TypeInv', JobInv, NEW c \in Clients, ClientExec(c)
    PROVE  JobInv'
<1>0. PICK m : m = Head(sock[c])
  OBVIOUS
<1>1. /\ c \in alive /\ sock[c] # <<>> /\ m.type = "exec"
      /\ reply' = [reply EXCEPT ![m.task] =
                     [pc |-> "arrived", job |-> m.job, count |-> 0, group |-> NoGroup,
                      result |-> {},
                      line |-> [from |-> c, part |-> disk[c], op |-> m.op]]]
      /\ disk' = [disk EXCEPT ![c] = NoPart]
      /\ sock' = [sock EXCEPT ![c] = Tail(@)]
      /\ UNCHANGED <<server, work, alive, results, up>>
  BY <1>0 DEF ClientExec
<1>2. /\ sock \in [Clients -> Seq(Messages)] /\ disk \in [Clients -> Parts]
      /\ reply \in [Tasks -> ReplyFrames]
  BY DEF TypeInv, TypeOK
<1>3. /\ sock'[c] = Tail(sock[c])
      /\ \A e \in Clients : e # c => sock'[e] = sock[e] /\ disk'[e] = disk[e]
  BY <1>1, <1>2
<1>4. PICK t \in Tasks : Awaiting(t, c) /\ Underway(t, c)
  BY <1>1 DEF JobInv, PartsInv, SockInv
<1>5. /\ sock'[c] = <<>> /\ disk[c] = PartOf(t) /\ task[t].pc = "sent"
      /\ m.task = t /\ m.job = t[1] /\ m.op = t[1]
  <2>1. Head(sock[c]) # File(t)
    BY <1>0, <1>1 DEF File
  <2>2. sock[c] = <<Exec(t)>> /\ disk[c] = PartOf(t) /\ task[t].pc = "sent"
    BY <1>4, <2>1 DEF Underway
  <2> QED
    BY <1>0, <1>3, <2>2 DEF Exec
<1>6. /\ reply'[t].pc = "arrived" /\ reply'[t].job = t[1] /\ reply'[t].line = LineOf(t)
      /\ reply[t].pc = "none" /\ Target(t) = c
      /\ \A s \in Tasks : s # t => reply'[s] = reply[s]
  <2>1. reply[t].pc = "none" /\ Target(t) = c
    BY <1>4 DEF Awaiting
  <2> QED
    BY <1>1, <1>2, <1>5, <2>1 DEF LineOf
<1>7. \A s \in Tasks : \A e \in Clients :
         /\ Awaiting(s, e)' <=> Awaiting(s, e) /\ s # t
         /\ e # c => (Underway(s, e)' <=> Underway(s, e))
         /\ Awaiting(s, e) => Live(s) /\ Target(s) = e
  BY <1>1, <1>3, <1>6, SameMessages DEF Awaiting, Underway, Live
<1>8. \A s \in Tasks : Awaiting(s, c) => s = t
  BY <1>4, <1>7, OneTask
<1>9. SockInv'
  <2>1. ASSUME NEW e \in Clients
        PROVE  /\ e \notin alive => sock'[e] = <<>>
               /\ sock'[e] # <<>> => \E s \in Tasks : Awaiting(s, e)' /\ Underway(s, e)'
               /\ \A s \in Tasks : e \in alive /\ Awaiting(s, e)' /\ task[s].pc = "filed" =>
                     sock'[e] = <<File(s)>> \/ (sock'[e] = <<>> /\ disk'[e] = PartOf(s))
    <3>1. CASE e = c
      BY <1>5, <1>7, <1>8, <3>1
    <3>2. CASE e # c
      <4>1. \A s \in Tasks : Awaiting(s, e) => s # t
        BY <1>6, <1>7, <3>2
      <4> QED
        BY <1>3, <1>7, <3>2, <4>1 DEF JobInv, PartsInv, SockInv
    <3> QED
      BY <3>1, <3>2
  <2> QED
    BY <1>1, <2>1, SameMessages DEF SockInv
<1>10. \A s \in Tasks : /\ Recorded(s)' <=> Recorded(s)
                        /\ LineOf(s)' = LineOf(s)
                        /\ CountsAll(s)' <=> CountsAll(s)
                        /\ Finishing(s)' <=> Finishing(s)
                        /\ reply'[s].pc \in {"freeing", "computing", "completed"} =>
                              reply'[s] = reply[s]
                        /\ reply[s].pc = "completed" => reply'[s] = reply[s]
  BY <1>1, <1>6, SameMessages DEF Recorded, CountsAll, Finishing, Size
<1>11. \A j \in JobIds : Answered(j)' <=> Answered(j)
  BY <1>1, <1>10 DEF Answered, Size
<1>12. ReplyInv' /\ ResultInv'
  <2>1. ReplyInv'
    BY <1>1, <1>5, <1>6, <1>10 DEF JobInv, AnswerInv, ReplyInv
  <2>2. ASSUME NEW j \in JobIds
        PROVE  {<<s, LineOf(s)'>> : s \in {u \in Tasks : u[1] = j /\ Recorded(u)'}}
                  = {<<s, LineOf(s)>> : s \in {u \in Tasks : u[1] = j /\ Recorded(u)}}
    BY <1>10
  <2> QED
    BY <1>1, <2>1, <2>2 DEF JobInv, AnswerInv, ResultInv
<1>13. LastInv' /\ CompleteInv' /\ MissedInv'
  <2>1. LastInv'
    BY <1>1, <1>10, <1>11, Typed DEF JobInv, AnswerInv, LastInv
  <2>2. \A j \in JobIds : Storing(j)' <=> Storing(j)
    BY <1>10 DEF Storing
  <2> QED
    BY <1>1, <1>10, <1>11, <2>1, <2>2 DEF JobInv, AnswerInv, CompleteInv, MissedInv
<1> QED
  BY <1>1, <1>6, <1>9, <1>12, <1>13, ClientFront DEF JobInv, PartsInv, AnswerInv

\* What was sent to a client that dies is gone.
LEMMA ClientEndsKeeps ==
    ASSUME TypeInv, TypeInv', JobInv, NEW c \in Clients, ClientEnds(c)
    PROVE  JobInv'
<1>1. /\ alive' = alive \ {c} /\ sock' = [sock EXCEPT ![c] = <<>>]
      /\ UNCHANGED <<server, work, disk, answer, up>>
  BY DEF ClientEnds
<1>2. sock'[c] = <<>> /\ \A e \in Clients : e # c => sock'[e] = sock[e]
  BY <1>1 DEF TypeInv, TypeOK
<1>3. \A s \in Tasks : \A e \in Clients :
         /\ Awaiting(s, e)' <=> Awaiting(s, e)
         /\ e # c => (Underway(s, e)' <=> Underway(s, e))
  BY <1>1, <1>2, SameMessages DEF Awaiting, Underway
<1>4. SockInv'
  BY <1>1, <1>2, <1>3, SameMessages DEF JobInv, PartsInv, SockInv
<1>5. AnswerInv'
  BY <1>1, AnswersKept DEF JobInv
<1> QED
  BY <1>1, <1>4, <1>5, ClientFront DEF JobInv, PartsInv

-----------------------------------------------------------------------------
(* Counting the answers.                                                   *)

\* The positions of a job whose answer is recorded.
Places(j) == {i \in Positions : <<j, i>> \in Tasks /\ Recorded(<<j, i>>)}

\* The result file has one line for each of them.
LEMMA LinesAndPlaces ==
    ASSUME TypeInv, JobInv, NEW j \in JobIds
    PROVE  /\ Cardinality(results[j]) = Cardinality(Places(j)) /\ IsFiniteSet(Places(j))
           /\ Places(j) # {} => handler[j].pc \in Handed /\ Places(j) \subseteq 1 .. Len(Arr(j))
           /\ results[j] # {} <=> Places(j) # {}
<1> DEFINE f == [i \in Places(j) |-> <<<<j, i>>, LineOf(<<j, i>>)>>]
<1>1. results[j] = {<<t, LineOf(t)>> : t \in {u \in Tasks : u[1] = j /\ Recorded(u)}}
  BY DEF JobInv, AnswerInv, ResultInv
<1>2. \A i \in Places(j) : <<j, i>> \in Tasks /\ Recorded(<<j, i>>)
  BY DEF Places
<1>3. \A u \in Tasks : u[1] = j /\ Recorded(u) => u[2] \in Places(j) /\ u = <<j, u[2]>>
  <2> SUFFICES ASSUME NEW u \in Tasks, u[1] = j, Recorded(u)
               PROVE  u[2] \in Places(j) /\ u = <<j, u[2]>>
    OBVIOUS
  <2>1. u = <<j, u[2]>> /\ u[2] \in Positions
    BY Typed
  <2>2. <<j, u[2]>> \in Tasks /\ Recorded(<<j, u[2]>>)
    BY <2>1
  <2> QED
    BY <2>1, <2>2 DEF Places
<1>4. IsFiniteSet(Places(j))
  <2>1. Cardinality(Clients) \in Nat
    BY FS_CardinalityType
  <2>2. IsFiniteSet(Positions)
    BY <2>1, FS_Interval DEF Positions
  <2>3. Places(j) \subseteq Positions
    BY DEF Places
  <2> QED
    BY <2>2, <2>3, FS_Subset
<1>5. \A i \in Places(j) : f[i] = <<<<j, i>>, LineOf(<<j, i>>)>>
  OBVIOUS
<1>6. \A i \in Places(j) : f[i] \in results[j]
  <2> SUFFICES ASSUME NEW i \in Places(j) PROVE f[i] \in results[j]
    OBVIOUS
  <2>1. PICK u \in Tasks : u = <<j, i>> /\ Recorded(u) /\ u[1] = j
    BY <1>2
  <2>2. <<u, LineOf(u)>> \in results[j]
    BY <1>1, <2>1
  <2> QED
    BY <1>5, <2>1, <2>2
<1>7. \A r \in results[j] : \E i \in Places(j) : f[i] = r
  <2> SUFFICES ASSUME NEW r \in results[j] PROVE \E i \in Places(j) : f[i] = r
    OBVIOUS
  <2>1. PICK u \in Tasks : u[1] = j /\ Recorded(u) /\ r = <<u, LineOf(u)>>
    BY <1>1
  <2>2. u[2] \in Places(j) /\ u = <<j, u[2]>>
    BY <1>3, <2>1
  <2>3. PICK i \in Places(j) : u = <<j, i>>
    BY <2>2
  <2>4. f[i] = r
    BY <1>5, <2>1, <2>3
  <2> QED
    BY <2>4
<1>8. \A i, k \in Places(j) : f[i] = f[k] => i = k
  BY <1>5
<1>9. f \in [Places(j) -> results[j]]
  BY <1>6
<1>10. Cardinality(results[j]) = Cardinality(Places(j))
  <2> HIDE DEF f
  <2>1. f \in Bijection(Places(j), results[j])
    BY <1>7, <1>8, <1>9 DEF Bijection, Injection, Surjection, IsInjective
  <2>2. ExistsBijection(Places(j), results[j])
    BY <2>1 DEF ExistsBijection
  <2> QED
    BY <1>4, <2>2, FS_Bijection
<1>11. ASSUME NEW i \in Places(j)
       PROVE  handler[j].pc \in Handed /\ i \in 1 .. Len(Arr(j))
  <2>1. PICK u \in Tasks : u = <<j, i>> /\ u[1] = j /\ u[2] = i /\ reply[u].pc # "none"
    BY <1>2, <1>11 DEF Recorded
  <2>2. task[u].pc # "none"
    BY <2>1 DEF JobInv, AnswerInv, ReplyInv
  <2> QED
    BY <2>1, <2>2 DEF JobInv, PartsInv, TaskInv
<1> QED
  BY <1>4, <1>6, <1>7, <1>10, <1>11

\* Counting the lines decides whether all the answers are there.
LEMMA CountTells ==
    ASSUME TypeInv, JobInv, NEW j \in JobIds
    PROVE  /\ results[j] # {} /\ Cardinality(results[j]) = Size(j) => Answered(j)
           /\ Answered(j) => /\ Cardinality(results[j]) = Size(j)
                             /\ Places(j) = 1 .. Size(j) /\ Len(Arr(j)) = Size(j)
<1>1. /\ Size(j) \in Int /\ Len(Arr(j)) \in Nat
  BY Typed
<1>2. handler[j].pc \in Handed /\ Size(j) > 0 => Len(Arr(j)) = Size(j)
  BY DEF JobInv, FrontInv, SizeInv, ArrayGood, Handed, Before
<1>3. Size(j) > 0 => IsFiniteSet(1 .. Size(j)) /\ Cardinality(1 .. Size(j)) = Size(j)
  BY <1>1, FS_Interval
<1>4. ASSUME results[j] # {}, Cardinality(results[j]) = Size(j)
      PROVE  Answered(j)
  <2>1. /\ Places(j) # {} /\ handler[j].pc \in Handed /\ IsFiniteSet(Places(j))
        /\ Places(j) \subseteq 1 .. Len(Arr(j)) /\ Cardinality(Places(j)) = Size(j)
    BY <1>4, LinesAndPlaces
  <2>2. Size(j) > 0
    BY <1>1, <2>1, FS_CardinalityType, FS_EmptySet
  <2>3. Places(j) = 1 .. Size(j)
    BY <1>2, <1>3, <2>1, <2>2, FS_Subset
  <2> QED
    BY <2>1, <2>2, <2>3 DEF Answered, Places
<1>5. ASSUME Answered(j)
      PROVE  /\ Cardinality(results[j]) = Size(j)
             /\ Places(j) = 1 .. Size(j) /\ Len(Arr(j)) = Size(j)
  <2>1. handler[j].pc \in Handed /\ Size(j) > 0 /\ Len(Arr(j)) = Size(j)
    BY <1>2, <1>5 DEF Answered
  <2>2. 1 .. Size(j) \subseteq Places(j)
    BY <1>5 DEF Answered, Places, Tasks
  <2>3. Places(j) \subseteq 1 .. Size(j)
    BY <2>1, LinesAndPlaces
  <2> QED
    BY <1>3, <2>1, <2>2, <2>3, LinesAndPlaces
<1> QED
  BY <1>4, <1>5

-----------------------------------------------------------------------------
(* Recording the answers.                                                  *)

\* A thread that records an answer keeps its task.
LEMMA ReplyMoves ==
    ASSUME TypeInv, JobInv, NEW t \in Tasks, UNCHANGED <<lines, work, net>>,
           reply[t].pc # "none", reply'[t].pc # "none",
           reply'[t].job = reply[t].job, reply'[t].line = reply[t].line,
           \A s \in Tasks : s # t => reply'[s] = reply[s]
    PROVE  PartsInv' /\ ReplyInv'
<1>1. \A s \in Tasks : \A c \in Clients :
         /\ Awaiting(s, c)' <=> Awaiting(s, c)
         /\ Underway(s, c)' <=> Underway(s, c)
  BY SameMessages DEF Awaiting, Underway
<1>2. SockInv'
  BY <1>1, SameMessages DEF JobInv, PartsInv, SockInv
<1>3. TaskInv'
  BY DEF JobInv, PartsInv, TaskInv, Arr
<1>4. ReplyInv'
  BY SameMessages DEF JobInv, AnswerInv, ReplyInv
<1> QED
  BY <1>2, <1>3, <1>4 DEF PartsInv

\* After the line is written, nothing is recorded any more.
LEMMA RecordedStays ==
    ASSUME TypeInv, JobInv, NEW t \in Tasks, UNCHANGED <<lines, handler, results>>,
           reply[t].pc \notin {"none", "arrived"}, reply'[t].pc \notin {"none", "arrived"},
           \A s \in Tasks : s # t => reply'[s] = reply[s]
    PROVE  ResultInv' /\ \A j \in JobIds : Answered(j)' <=> Answered(j)
<1>1. \A s \in Tasks : (Recorded(s)' <=> Recorded(s)) /\ LineOf(s)' = LineOf(s)
  BY SameMessages DEF Recorded
<1>2. ASSUME NEW j \in JobIds
      PROVE  {<<s, LineOf(s)'>> : s \in {u \in Tasks : u[1] = j /\ Recorded(u)'}}
                = {<<s, LineOf(s)>> : s \in {u \in Tasks : u[1] = j /\ Recorded(u)}}
  BY <1>1
<1>3. ResultInv'
  BY <1>2 DEF JobInv, AnswerInv, ResultInv
<1>4. \A j \in JobIds : Answered(j)' <=> Answered(j)
  BY <1>1 DEF Answered, Size
<1> QED
  BY <1>3, <1>4

\* The steps after the line is written, up to the last: nothing is recorded and
\* no job changes. The invariant rests on what the thread knows about its job.
LEMMA ReplyKeeps ==
    ASSUME TypeInv, TypeInv', JobInv, NEW t \in Tasks,
           UNCHANGED <<job_id, lines, jobs, args, work, net, results>>,
           reply[t].pc \notin {"none", "arrived", "completed"},
           reply'[t].pc \notin {"none", "arrived", "completed"},
           reply'[t].job = reply[t].job, reply'[t].line = reply[t].line,
           \A s \in Tasks : s # t => reply'[s] = reply[s],
           \A g \in Entries : /\ groups'[g].job_id = groups[g].job_id
                              /\ FreeMembers(g) \subseteq FreeMembers(g)',
           OwnInv',
           CountsAll(t)' \/ reply'[t].pc \in {"freeing", "computing"} => Answered(t[1]),
           Finishing(t) /\ Answered(t[1]) => Finishing(t)'
    PROVE  JobInv'
<1>1. PartsInv' /\ ReplyInv'
  BY ReplyMoves
<1>2. ResultInv' /\ \A j \in JobIds : Answered(j)' <=> Answered(j)
  BY RecordedStays
<1>3. FrontInv'
  BY FrontKept DEF JobInv
<1>4. \A s \in Tasks : s # t => (CountsAll(s)' <=> CountsAll(s)) /\ (Finishing(s)' <=> Finishing(s))
  BY DEF CountsAll, Finishing, Size
<1>5. LastInv'
  BY <1>2, <1>4, Typed DEF JobInv, AnswerInv, LastInv
<1>6. CompleteInv'
  <2>1. \A j \in JobIds : Storing(j) => Storing(j)'
    BY DEF Storing
  <2> QED
    BY <1>2, <2>1 DEF JobInv, AnswerInv, CompleteInv
<1>7. MissedInv'
  BY <1>2, <1>4 DEF JobInv, AnswerInv, MissedInv
<1> QED
  BY <1>1, <1>2, <1>3, <1>5, <1>6, <1>7 DEF JobInv, AnswerInv

\* What the thread works with: the job of its task, which counts its clients.
LEMMA ReplyTask ==
    ASSUME TypeInv, JobInv, NEW t \in Tasks, reply[t].pc # "none"
    PROVE  /\ reply[t].job = t[1] /\ t[1] \in JobIds /\ task[t].pc = "sent"
           /\ handler[t[1]].pc \in Handed /\ handler[t[1]].pc \notin Settling
           /\ reply[t].line.from = Target(t)
           /\ jobs[t[1]].status # NOT_STARTED /\ jobs[t[1]].number_of_clients = Size(t[1])
<1>1. reply[t].job = t[1] /\ t[1] \in JobIds /\ task[t].pc = "sent"
      /\ reply[t].line = LineOf(t)
  BY Typed DEF JobInv, AnswerInv, ReplyInv
<1>2. handler[t[1]].pc \in Handed
  BY <1>1 DEF JobInv, PartsInv, TaskInv
<1>3. handler[t[1]].pc \notin Settling \cup {"assigned"}
  BY <1>2 DEF Handed, Settling, Before
<1> QED
  BY <1>1, <1>2, <1>3 DEF JobInv, FrontInv, StatusInv, LineOf

\* The line is written: the one answer more.
LEMMA AppendKeeps ==
    ASSUME TypeInv, TypeInv', JobInv, NEW t \in Tasks, ReplyAppend(t)
    PROVE  JobInv'
<1>1. /\ reply[t].pc = "arrived" /\ UNCHANGED <<server, work, net, up>>
      /\ reply' = [reply EXCEPT ![t].pc = "appended"]
      /\ results' = [results EXCEPT ![t[1]] = @ \cup {<<t, LineOf(t)>>}]
  BY DEF ReplyAppend, JobInv, AnswerInv, ReplyInv
<1>2. /\ reply'[t].pc = "appended" /\ reply'[t].job = reply[t].job
      /\ reply'[t].line = reply[t].line
      /\ \A s \in Tasks : s # t => reply'[s] = reply[s]
  <2>1. reply \in [Tasks -> ReplyFrames] /\ reply[t] \in ReplyFrames
    BY DEF TypeInv, TypeOK
  <2> QED
    BY <1>1, <2>1 DEF ReplyFrames
<1>3. t[1] \in JobIds /\ task[t].pc # "none"
  BY <1>1, ReplyTask
<1>4. /\ results'[t[1]] = results[t[1]] \cup {<<t, LineOf(t)>>}
      /\ \A j \in JobIds : j # t[1] => results'[j] = results[j]
  BY <1>1, <1>3 DEF TypeInv, TypeOK
<1>5. PartsInv' /\ ReplyInv'
  BY <1>1, <1>2, ReplyMoves
<1>6. FrontInv'
  <2>1. \A g \in Entries : FreeMembers(g)' = FreeMembers(g)
    BY <1>1 DEF FreeMembers
  <2> QED
    BY <1>1, <2>1, FrontKept DEF JobInv
<1>7. OwnInv'
  <2>1. \A s \in Tasks : reply'[s].pc \in {"none", "arrived", "appended"} =>
                            reply[s].pc \in {"none", "arrived", "appended"}
    BY <1>1, <1>2
  <2> QED
    BY <1>1, <2>1, OwnAnswers
<1>8. /\ Recorded(t)' /\ ~Recorded(t)
      /\ \A s \in Tasks : s # t => (Recorded(s)' <=> Recorded(s))
      /\ \A s \in Tasks : LineOf(s)' = LineOf(s)
  BY <1>1, <1>2, SameMessages DEF Recorded
<1>9. ResultInv'
  <2>1. ASSUME NEW j \in JobIds
        PROVE  results'[j] = {<<s, LineOf(s)'>> : s \in {u \in Tasks : u[1] = j /\ Recorded(u)'}}
    <3>1. results[j] = {<<s, LineOf(s)>> : s \in {u \in Tasks : u[1] = j /\ Recorded(u)}}
      BY DEF JobInv, AnswerInv, ResultInv
    <3>2. CASE j = t[1]
      <4>1. {u \in Tasks : u[1] = j /\ Recorded(u)'}
               = {u \in Tasks : u[1] = j /\ Recorded(u)} \cup {t}
        BY <1>8, <3>2
      <4>2. {<<s, LineOf(s)>> : s \in {u \in Tasks : u[1] = j /\ Recorded(u)} \cup {t}}
               = {<<s, LineOf(s)>> : s \in {u \in Tasks : u[1] = j /\ Recorded(u)}}
                    \cup {<<t, LineOf(t)>>}
        OBVIOUS
      <4> QED
        BY <1>4, <1>8, <3>1, <3>2, <4>1, <4>2
    <3>3. CASE j # t[1]
      <4>1. {u \in Tasks : u[1] = j /\ Recorded(u)'} = {u \in Tasks : u[1] = j /\ Recorded(u)}
        BY <1>8, <3>3
      <4> QED
        BY <1>4, <1>8, <3>1, <3>3, <4>1
    <3> QED
      BY <3>2, <3>3
  <2> QED
    BY <2>1 DEF ResultInv
<1>10. ~Answered(t[1])
  BY <1>3, <1>8, AnsweredTasks
<1>11. \A j \in JobIds : Answered(j) => Answered(j)'
  BY <1>1, <1>8 DEF Answered, Size
<1>12. \A j \in JobIds : j # t[1] /\ Answered(j)' => Answered(j)
  BY <1>1, <1>8 DEF Answered, Size
<1>13. /\ \A s \in Tasks : s # t => (CountsAll(s)' <=> CountsAll(s))
                                    /\ (Finishing(s)' <=> Finishing(s))
       /\ ~CountsAll(t)' /\ Finishing(t)'
  BY <1>1, <1>2 DEF CountsAll, Finishing, Size
<1>14. LastInv'
  <2>1. ASSUME NEW s \in Tasks,
               CountsAll(s)' \/ reply'[s].pc \in {"freeing", "computing", "completed"}
        PROVE  /\ Answered(s[1])'
               /\ reply'[s].pc = "completed" =>
                     reply'[s].result = results'[s[1]] /\ jobs'[s[1]].status = COMPLETE
    <3>1. s # t /\ reply'[s] = reply[s] /\ s[1] \in JobIds
      BY <1>2, <1>13, <2>1, Typed
    <3>2. Answered(s[1])
      BY <1>13, <2>1, <3>1 DEF JobInv, AnswerInv, LastInv
    <3> QED
      BY <1>1, <1>4, <1>10, <1>11, <3>1, <3>2 DEF JobInv, AnswerInv, LastInv
  <2> QED
    BY <2>1 DEF LastInv
<1>15. CompleteInv'
  <2>1. \A j \in JobIds : Storing(j) => Storing(j)'
    BY <1>1, <1>2 DEF Storing
  <2> QED
    BY <1>1, <1>4, <1>10, <1>11, <2>1 DEF JobInv, AnswerInv, CompleteInv
<1>16. MissedInv'
  BY <1>1, <1>12, <1>13 DEF JobInv, AnswerInv, MissedInv
<1> QED
  BY <1>5, <1>6, <1>7, <1>9, <1>14, <1>15, <1>16 DEF JobInv, AnswerInv

\* The array of a job that found clients has a place for each of its tasks.
LEMMA OwnPlaces ==
    ASSUME TypeInv, JobInv, NEW h \in JobIds, handler[h].pc \notin Settling, Size(h) > 0
    PROVE  /\ Size(h) \in Int /\ Len(Arr(h)) = Size(h)
           /\ \A i \in 1 .. Size(h) : <<h, i>> \in Tasks /\ Arr(h)[i] \in Clients
           /\ \A i, k \in 1 .. Size(h) : Arr(h)[i] = Arr(h)[k] => i = k
<1>1. handler[h].pc \notin Before /\ handler[h].pc \notin Before \cup {"counted"}
  BY DEF Settling
<1>2. Size(h) \in Int /\ Size(h) <= Cardinality(Clients) /\ Cardinality(Clients) \in Nat
  BY <1>1, Typed, ClientsCounted DEF JobInv, FrontInv, SizeInv, CountGood
<1>3. \A i \in 1 .. Size(h) : <<h, i>> \in Tasks
  BY <1>2 DEF Tasks, Positions
<1> QED
  BY <1>1, <1>2, <1>3 DEF JobInv, FrontInv, SizeInv, ArrayGood

\* The client is freed: no other part of a job is with it.
LEMMA FreeClientKeeps ==
    ASSUME TypeInv, TypeInv', JobInv, NEW t \in Tasks, ReplyFreeClient(t)
    PROVE  JobInv'
<1>1. /\ reply[t].pc = "appended"
      /\ reply' = [reply EXCEPT ![t].pc = "freed"]
      /\ UNCHANGED <<job_id, lines, jobs, groups, args, work, net, results, up>>
      /\ clients' = update_client_status_to_free(reply[t].line.from, reply[t].job)
  BY DEF ReplyFreeClient
<1>2. /\ reply'[t].pc = "freed" /\ reply'[t].job = reply[t].job
      /\ reply'[t].line = reply[t].line
      /\ \A s \in Tasks : s # t => reply'[s] = reply[s]
  <2>1. reply \in [Tasks -> ReplyFrames] /\ reply[t] \in ReplyFrames
    BY DEF TypeInv, TypeOK
  <2> QED
    BY <1>1, <2>1 DEF ReplyFrames
<1>3. /\ reply[t].job = t[1] /\ reply[t].line.from = Target(t) /\ t[1] \in JobIds
      /\ task[t].pc # "none" /\ handler[t[1]].pc \notin Settling
  BY <1>1, ReplyTask
<1>4. clients \in [Clients -> ClientEntries]
  BY DEF TypeInv, TypeOK
<1>5. ASSUME NEW c \in Clients
      PROVE  /\ clients'[c].job_id = clients[c].job_id /\ clients'[c].present = clients[c].present
             /\ \/ clients'[c].client_status = clients[c].client_status
                \/ /\ c = Target(t) /\ clients[c].job_id = t[1]
                   /\ clients'[c].client_status = FREE
  BY <1>1, <1>3, <1>4 DEF ClientEntries
<1>6. \A g \in Entries : FreeMembers(g) \subseteq FreeMembers(g)'
  <2>1. \A g \in Entries : groups[g].members \subseteq Clients
    BY DEF TypeInv, TypeOK, GroupEntries
  <2> QED
    BY <1>1, <1>5, <2>1 DEF FreeMembers
<1>7. OwnInv'
  <2> SUFFICES ASSUME NEW h \in JobIds, NEW i \in 1 .. Size(h), handler[h].pc \notin Settling,
                      reply'[<<h, i>>].pc \in {"none", "arrived", "appended"}
               PROVE  clients'[Arr(h)[i]].client_status = BUSY /\ clients'[Arr(h)[i]].job_id = h
    BY <1>1 DEF OwnInv, Size, Arr
  <2>1. Size(h) > 0 /\ Size(h) \in Int
    BY Typed
  <2>2. <<h, i>> \in Tasks /\ Arr(h)[i] \in Clients /\ Len(Arr(h)) = Size(h)
    BY <2>1, OwnPlaces
  <2>3. <<h, i>> # t /\ reply'[<<h, i>>] = reply[<<h, i>>]
    BY <1>2, <2>2
  <2>4. clients[Arr(h)[i]].client_status = BUSY /\ clients[Arr(h)[i]].job_id = h
    BY <2>3 DEF JobInv, OwnInv
  <2>5. ASSUME Arr(h)[i] = Target(t), h = t[1] PROVE FALSE
    <3>1. t[2] \in 1 .. Size(h) /\ Target(t) = Arr(h)[t[2]]
      BY <1>3, <2>2, <2>5 DEF JobInv, PartsInv, TaskInv, Target, Arr
    <3>2. i = t[2]
      BY <2>1, <2>5, <3>1, OwnPlaces
    <3>3. t = <<t[1], t[2]>>
      BY Typed
    <3> QED
      BY <2>3, <2>5, <3>2, <3>3
  <2> QED
    BY <1>5, <2>2, <2>4, <2>5
<1>8. Finishing(t)' /\ ~CountsAll(t)'
  BY <1>2 DEF Finishing, CountsAll
<1> QED
  BY <1>1, <1>2, <1>6, <1>7, <1>8, ReplyKeeps

\* The lines are counted: all are there, or another answer is still to come.
LEMMA CountLinesKeeps ==
    ASSUME TypeInv, TypeInv', JobInv, NEW t \in Tasks, ReplyCount(t)
    PROVE  JobInv'
<1>1. /\ reply[t].pc = "freed" /\ UNCHANGED <<server, work, net, results, up>>
      /\ reply' = [reply EXCEPT ![t].pc = "counted",
                                ![t].count = Cardinality(results[reply[t].job])]
  BY DEF ReplyCount
<1>2. reply[t].job = t[1] /\ t[1] \in JobIds
  BY <1>1, ReplyTask
<1>3. /\ reply'[t].pc = "counted" /\ reply'[t].count = Cardinality(results[t[1]])
      /\ reply'[t].job = reply[t].job /\ reply'[t].line = reply[t].line
      /\ \A s \in Tasks : s # t => reply'[s] = reply[s]
  <2>1. reply \in [Tasks -> ReplyFrames] /\ reply[t] \in ReplyFrames
    BY DEF TypeInv, TypeOK
  <2> QED
    BY <1>1, <1>2, <2>1 DEF ReplyFrames
<1>4. results[t[1]] # {}
  <2>1. Recorded(t)
    BY <1>1 DEF Recorded
  <2>2. <<t, LineOf(t)>> \in results[t[1]]
    BY <1>2, <2>1 DEF JobInv, AnswerInv, ResultInv
  <2> QED
    BY <2>2
<1>5. CountsAll(t)' <=> Cardinality(results[t[1]]) = Size(t[1])
  BY <1>1, <1>3 DEF CountsAll, Size
<1>6. CountsAll(t)' => Answered(t[1])
  BY <1>2, <1>4, <1>5, CountTells
<1>7. Answered(t[1]) => Finishing(t)'
  BY <1>2, <1>5, CountTells DEF Finishing
<1>8. OwnInv'
  <2>1. \A s \in Tasks : reply'[s].pc \in {"none", "arrived", "appended"} =>
                            reply[s].pc \in {"none", "arrived", "appended"}
    BY <1>3
  <2> QED
    BY <1>1, <2>1, OwnAnswers
<1>9. \A g \in Entries : FreeMembers(g)' = FreeMembers(g)
  BY <1>1 DEF FreeMembers
<1> QED
  BY <1>1, <1>3, <1>6, <1>7, <1>8, <1>9, ReplyKeeps

\* The decision, and the release of the group.
LEMMA DecisionKeeps ==
    ASSUME TypeInv, TypeInv', JobInv, NEW t \in Tasks,
           ReplyNotLast(t) \/ ReplyLast(t) \/ ReplyFreeGroup(t)
    PROVE  JobInv'
<1>1. /\ reply[t].pc \in {"counted", "freeing"}
      /\ UNCHANGED <<job_id, lines, jobs, clients, args, work, net, results>>
      /\ \A g \in Entries : /\ groups'[g].job_id = groups[g].job_id
                            /\ groups'[g].members = groups[g].members
  <2>1. groups \in [Entries -> GroupEntries]
    BY DEF TypeInv, TypeOK
  <2> QED
    BY <2>1 DEF ReplyNotLast, ReplyLast, ReplyFreeGroup, GroupEntries
<1>2. /\ reply[t].job = t[1] /\ t[1] \in JobIds /\ jobs[t[1]].number_of_clients = Size(t[1])
  BY <1>1, ReplyTask
<1>3. /\ reply'[t].job = reply[t].job /\ reply'[t].line = reply[t].line
      /\ reply'[t].count = reply[t].count
      /\ \A s \in Tasks : s # t => reply'[s] = reply[s]
      /\ \/ reply'[t].pc = "done" /\ reply[t].pc = "counted" /\ reply[t].count # Size(t[1])
         \/ reply'[t].pc \in {"freeing", "computing"} /\ reply[t].pc = "counted"
            /\ reply[t].count = Size(t[1])
         \/ reply'[t].pc = "computing" /\ reply[t].pc = "freeing"
  <2>1. reply \in [Tasks -> ReplyFrames] /\ reply[t] \in ReplyFrames
    BY DEF TypeInv, TypeOK
  <2>2. CASE ReplyNotLast(t)
    BY <1>2, <2>1, <2>2 DEF ReplyNotLast, time_to_compute_final_result, ReplyFrames
  <2>3. CASE ReplyLast(t)
    BY <1>2, <2>1, <2>3 DEF ReplyLast, time_to_compute_final_result, ReplyFrames
  <2>4. CASE ReplyFreeGroup(t)
    BY <1>2, <2>1, <2>4 DEF ReplyFreeGroup, ReplyFrames
  <2> QED
    BY <2>2, <2>3, <2>4
<1>4. CountsAll(t)' \/ reply'[t].pc \in {"freeing", "computing"} => Answered(t[1])
  BY <1>3 DEF CountsAll, JobInv, AnswerInv, LastInv
<1>5. Finishing(t) => Finishing(t)'
  BY <1>3 DEF Finishing, CountsAll
<1>6. OwnInv'
  <2>1. \A s \in Tasks : reply'[s].pc \in {"none", "arrived", "appended"} =>
                            reply[s].pc \in {"none", "arrived", "appended"}
    BY <1>3
  <2> QED
    BY <1>1, <2>1, OwnAnswers
<1>7. \A g \in Entries : FreeMembers(g)' = FreeMembers(g)
  BY <1>1 DEF FreeMembers
<1> QED
  BY <1>1, <1>3, <1>4, <1>5, <1>6, <1>7, ReplyKeeps

\* The job is shown complete, and the thread has the result of all the lines.
LEMMA CompleteKeeps ==
    ASSUME TypeInv, TypeInv', JobInv, NEW t \in Tasks, ReplyComplete(t)
    PROVE  JobInv'
<1>1. /\ reply[t].pc = "computing"
      /\ UNCHANGED <<job_id, lines, groups, clients, args, work, net, results, up>>
      /\ reply' = [reply EXCEPT ![t].pc = "completed", ![t].result = results[t[1]]]
  BY DEF ReplyComplete, JobInv, AnswerInv, ReplyInv
<1>2. /\ reply[t].job = t[1] /\ t[1] \in JobIds /\ jobs[t[1]].status # NOT_STARTED
  BY <1>1, ReplyTask
<1>3. /\ reply'[t].pc = "completed" /\ reply'[t].job = reply[t].job
      /\ reply'[t].line = reply[t].line /\ reply'[t].result = results[t[1]]
      /\ \A s \in Tasks : s # t => reply'[s] = reply[s]
  <2>1. reply \in [Tasks -> ReplyFrames] /\ reply[t] \in ReplyFrames
    BY DEF TypeInv, TypeOK
  <2> QED
    BY <1>1, <2>1 DEF ReplyFrames
<1>4. /\ jobs'[t[1]].status = COMPLETE /\ jobs'[t[1]].result = jobs[t[1]].result
      /\ jobs'[t[1]].number_of_clients = jobs[t[1]].number_of_clients
      /\ \A j \in JobIds : j # t[1] => jobs'[j] = jobs[j]
  <2>1. jobs \in [JobIds -> JobEntries] /\ jobs[t[1]] \in JobEntries
    BY <1>2 DEF TypeInv, TypeOK
  <2> QED
    BY <1>2, <2>1 DEF ReplyComplete, JobEntries
<1>5. FrontInv'
  <2>1. \A g \in Entries : FreeMembers(g)' = FreeMembers(g)
    BY <1>1 DEF FreeMembers
  <2>2. COMPLETE # NOT_STARTED
    BY DEF COMPLETE, NOT_STARTED
  <2>3. \A j \in JobIds :
           /\ jobs'[j].number_of_clients = jobs[j].number_of_clients
           /\ jobs[j].status = COMPLETE => jobs'[j].status = COMPLETE
           /\ jobs'[j].status = NOT_STARTED <=> jobs[j].status = NOT_STARTED
    BY <1>2, <1>4, <2>2
  <2> QED
    BY <1>1, <2>1, <2>3, FrontKept DEF JobInv
<1>6. OwnInv'
  <2>1. \A s \in Tasks : reply'[s].pc \in {"none", "arrived", "appended"} =>
                            reply[s].pc \in {"none", "arrived", "appended"}
    BY <1>3
  <2> QED
    BY <1>1, <2>1, OwnAnswers
<1>7. PartsInv' /\ ReplyInv'
  BY <1>1, <1>3, ReplyMoves
<1>8. ResultInv' /\ \A j \in JobIds : Answered(j)' <=> Answered(j)
  BY <1>1, <1>3, RecordedStays
<1>9. /\ \A s \in Tasks : s # t => (CountsAll(s)' <=> CountsAll(s))
                                   /\ (Finishing(s)' <=> Finishing(s))
      /\ ~CountsAll(t)'
  BY <1>1, <1>3 DEF CountsAll, Finishing, Size
<1>10. Answered(t[1])
  BY <1>1 DEF JobInv, AnswerInv, LastInv
<1>a. LastInv'
  <2>1. ASSUME NEW s \in Tasks,
               CountsAll(s)' \/ reply'[s].pc \in {"freeing", "computing", "completed"}
        PROVE  /\ Answered(s[1])'
               /\ reply'[s].pc = "completed" =>
                     reply'[s].result = results'[s[1]] /\ jobs'[s[1]].status = COMPLETE
    <3>1. CASE s = t
      BY <1>1, <1>2, <1>3, <1>4, <1>8, <1>10, <3>1
    <3>2. CASE s # t
      <4>1. s[1] \in JobIds /\ reply'[s] = reply[s] /\ Answered(s[1])
        BY <1>3, <1>9, <2>1, <3>2, Typed DEF JobInv, AnswerInv, LastInv
      <4> QED
        BY <1>1, <1>4, <1>8, <3>2, <4>1 DEF JobInv, AnswerInv, LastInv
    <3> QED
      BY <3>1, <3>2
  <2> QED
    BY <2>1 DEF LastInv
<1>11. CompleteInv'
  <2>1. \A j \in JobIds : Storing(j) => Storing(j)'
    BY <1>1, <1>3 DEF Storing
  <2>2. Storing(t[1])'
    BY <1>3 DEF Storing
  <2>3. jobs'[t[1]].result = results[t[1]] \/ jobs'[t[1]].result = {}
    BY <1>2, <1>4 DEF JobInv, AnswerInv, CompleteInv
  <2> QED
    BY <1>1, <1>2, <1>4, <1>8, <1>10, <2>1, <2>2, <2>3 DEF JobInv, AnswerInv, CompleteInv
<1>12. MissedInv'
  <2>1. COMPLETE # IN_PROGRESS
    BY DEF COMPLETE, IN_PROGRESS
  <2> QED
    BY <1>4, <1>8, <1>9, <2>1 DEF JobInv, AnswerInv, MissedInv
<1> QED
  BY <1>5, <1>6, <1>7, <1>8, <1>a, <1>11, <1>12 DEF JobInv, AnswerInv

\* The result is stored: it is that of all the lines.
LEMMA ResultKeeps ==
    ASSUME TypeInv, TypeInv', JobInv, NEW t \in Tasks, ReplyResult(t)
    PROVE  JobInv'
<1>1. /\ reply[t].pc = "completed"
      /\ UNCHANGED <<job_id, lines, groups, clients, args, work, net, results, up>>
      /\ reply' = [reply EXCEPT ![t].pc = "done"]
  BY DEF ReplyResult
<1>2. reply[t].job = t[1] /\ t[1] \in JobIds
  BY <1>1, ReplyTask
<1>3. /\ reply'[t].pc = "done" /\ reply'[t].job = reply[t].job
      /\ reply'[t].line = reply[t].line
      /\ \A s \in Tasks : s # t => reply'[s] = reply[s]
  <2>1. reply \in [Tasks -> ReplyFrames] /\ reply[t] \in ReplyFrames
    BY DEF TypeInv, TypeOK
  <2> QED
    BY <1>1, <2>1 DEF ReplyFrames
<1>4. reply[t].result = results[t[1]] /\ jobs[t[1]].status = COMPLETE
  BY <1>1 DEF JobInv, AnswerInv, LastInv
<1>5. /\ jobs'[t[1]].result = results[t[1]] /\ jobs'[t[1]].status = jobs[t[1]].status
      /\ jobs'[t[1]].number_of_clients = jobs[t[1]].number_of_clients
      /\ \A j \in JobIds : j # t[1] => jobs'[j] = jobs[j]
  <2>1. jobs \in [JobIds -> JobEntries] /\ jobs[t[1]] \in JobEntries
    BY <1>2 DEF TypeInv, TypeOK
  <2> QED
    BY <1>2, <1>4, <2>1 DEF ReplyResult, JobEntries
<1>6. FrontInv'
  <2>1. \A g \in Entries : FreeMembers(g)' = FreeMembers(g)
    BY <1>1 DEF FreeMembers
  <2>2. \A j \in JobIds : /\ jobs'[j].number_of_clients = jobs[j].number_of_clients
                          /\ jobs'[j].status = jobs[j].status
    BY <1>2, <1>5
  <2> QED
    BY <1>1, <2>1, <2>2, FrontKept DEF JobInv
<1>7. OwnInv'
  <2>1. \A s \in Tasks : reply'[s].pc \in {"none", "arrived", "appended"} =>
                            reply[s].pc \in {"none", "arrived", "appended"}
    BY <1>3
  <2> QED
    BY <1>1, <2>1, OwnAnswers
<1>8. PartsInv' /\ ReplyInv'
  BY <1>1, <1>3, ReplyMoves
<1>9. ResultInv' /\ \A j \in JobIds : Answered(j)' <=> Answered(j)
  BY <1>1, <1>3, RecordedStays
<1>10. /\ \A s \in Tasks : (CountsAll(s)' => CountsAll(s) /\ s # t)
                            /\ (Finishing(s) => Finishing(s)')
  BY <1>1, <1>3 DEF CountsAll, Finishing, Size
<1>11. LastInv'
  <2>1. ASSUME NEW s \in Tasks,
               CountsAll(s)' \/ reply'[s].pc \in {"freeing", "computing", "completed"}
        PROVE  /\ Answered(s[1])'
               /\ reply'[s].pc = "completed" =>
                     reply'[s].result = results'[s[1]] /\ jobs'[s[1]].status = COMPLETE
    <3>1. s # t /\ s[1] \in JobIds /\ reply'[s] = reply[s]
      BY <1>3, <1>10, <2>1, Typed
    <3>2. Answered(s[1])
      BY <1>10, <2>1, <3>1 DEF JobInv, AnswerInv, LastInv
    <3> QED
      BY <1>1, <1>5, <1>9, <3>1, <3>2 DEF JobInv, AnswerInv, LastInv
  <2> QED
    BY <2>1 DEF LastInv
<1>12. CompleteInv'
  <2>1. \A j \in JobIds : j # t[1] => (Storing(j) => Storing(j)')
    BY <1>3 DEF Storing
  <2> QED
    BY <1>1, <1>2, <1>4, <1>5, <1>9, <2>1 DEF JobInv, AnswerInv, CompleteInv
<1>13. MissedInv'
  <2>1. \A j \in JobIds : jobs'[j].status = jobs[j].status
    BY <1>2, <1>5
  <2> QED
    BY <1>9, <1>10, <2>1 DEF JobInv, AnswerInv, MissedInv
<1> QED
  BY <1>6, <1>7, <1>8, <1>9, <1>11, <1>12, <1>13 DEF JobInv, AnswerInv

-----------------------------------------------------------------------------
(* The invariant holds for the careful operator.                           *)

LEMMA HandleKeeps ==
    ASSUME TypeInv, TypeInv', JobInv, NEW h \in JobIds, Handle(h)
    PROVE  JobInv'
BY PullKeeps, ArgsKeeps, FileKeeps, CountKeeps, FillKeeps, AssignKeeps, UpdateKeeps,
   SplitKeeps, DispatchKeeps, ReturnKeeps DEF Handle

\* So does the end of the server, and a step that changes nothing.
LEMMA StutterKeeps ==
    ASSUME TypeInv, TypeInv', JobInv, UNCHANGED <<server, work, net, answer>>
    PROVE  JobInv'
<1>1. FrontInv'
  <2>1. \A g \in Entries : FreeMembers(g)' = FreeMembers(g)
    BY DEF FreeMembers
  <2> QED
    BY <2>1, FrontKept DEF JobInv
<1>2. OwnInv'
  BY OwnAnswers
<1>3. PartsInv' /\ AnswerInv'
  <2>1. HandedKept
    BY DEF HandedKept
  <2> QED
    BY <2>1, WorkKept DEF JobInv
<1> QED
  BY <1>1, <1>2, <1>3 DEF JobInv

LEMMA TaskKeeps ==
    ASSUME TypeInv, TypeInv', JobInv, NEW t \in Tasks, SendTo(t) \/ Reply(t)
    PROVE  JobInv'
BY SendFileKeeps, SendNothingKeeps, SendExecKeeps, AppendKeeps, FreeClientKeeps,
   CountLinesKeeps, DecisionKeeps, CompleteKeeps, ResultKeeps, StutterKeeps
   DEF SendTo, Reply, ReplyWildCall

LEMMA PeerKeeps ==
    ASSUME TypeInv, TypeInv', JobInv, NEW c \in Clients,
           Register(c) \/ ClientStep(c) \/ ClientCrash(c)
    PROVE  JobInv'
BY RegisterKeeps, ClientFileKeeps, ClientExecKeeps, ClientEndsKeeps
   DEF ClientStep, ClientWildCall, ClientCrash

LEMMA NextTypes == TypeInv /\ Next => TypeInv'
  BY CommandTypes, RegisterTypes, ClientTypes, HandleTypes, SendTypes, ReplyTypes DEF Next

LEMMA InitKeeps == Init => JobInv
<1> SUFFICES ASSUME Init PROVE JobInv
  OBVIOUS
<1>1. /\ job_id = 0
      /\ \A j \in JobIds : /\ jobs[j].status = NOT_STARTED /\ jobs[j].number_of_clients = 0
                           /\ jobs[j].result = {}
      /\ \A h \in JobIds : handler[h].pc = "none"
      /\ \A h \in JobIds : split[h].per = 0 /\ results[h] = {}
      /\ \A t \in Tasks : task[t].pc = "none" /\ reply[t].pc = "none"
      /\ \A c \in Clients : sock[c] = <<>>
  BY DEF Init
<1>2. COMPLETE # NOT_STARTED /\ IN_PROGRESS # NOT_STARTED
  BY DEF COMPLETE, NOT_STARTED, IN_PROGRESS
<1>3. JobIds \subseteq Nat \ {0} /\ \A t \in Tasks : t[1] \in JobIds
  BY DEF JobIds, Tasks
<1>4. ArgsInv /\ FrameInv /\ AloneInv
  <2>1. \A h \in JobIds : ~Unsent(h) /\ ~Reading(h) /\ ~(h <= job_id) /\ ~(h < job_id)
    BY <1>1, <1>3 DEF Unsent, Reading
  <2> QED
    BY <1>1, <2>1 DEF ArgsInv, FrameInv, AloneInv
<1>5. StatusInv /\ SplitInv /\ SizeInv
  BY <1>1 DEF StatusInv, SplitInv, SizeInv, CountGood, ArrayGood, Settling, Before
<1>6. OwnInv /\ TaskInv /\ SockInv
  BY <1>1 DEF OwnInv, TaskInv, SockInv, Settling, Before, Awaiting
<1>7. ReplyInv /\ ResultInv /\ LastInv
  BY <1>1 DEF ReplyInv, ResultInv, LastInv, CountsAll, Recorded
<1>8. CompleteInv /\ MissedInv
  BY <1>1, <1>2 DEF CompleteInv, MissedInv
<1> QED
  BY <1>4, <1>5, <1>6, <1>7, <1>8 DEF JobInv, FrontInv, PartsInv, AnswerInv

LEMMA JobHolds == ASSUME Careful PROVE Spec => []JobInv
<1>1. Init => JobInv
  BY InitKeeps
<1>2. TypeInv /\ TypeInv' /\ JobInv /\ [Next]_vars => JobInv'
  BY CommandKeeps, PeerKeeps, HandleKeeps, TaskKeeps, StutterKeeps DEF Next, vars
<1> QED
  BY <1>1, <1>2, TypesHold, PTL DEF Spec

-----------------------------------------------------------------------------
(* What follows: complete jobs, completion, the client array.              *)

\* The first n parts of p lines each: they end with line n * p, and every line
\* up to there is in one of them.
LEMMA PartsTile ==
    ASSUME NEW n \in Nat, NEW p \in Nat
    PROVE  /\ \A i \in 1 .. n : i * p \in Int /\ i * p <= n * p /\ (i - 1) * p \in Nat
           /\ \A k \in 1 .. n * p : \E i \in 1 .. n : (i - 1) * p < k /\ k <= i * p
<1>1. ASSUME NEW i \in 1 .. n
      PROVE  i * p \in Int /\ i * p <= n * p /\ (i - 1) * p \in Nat
  <2>1. i \in Nat /\ i <= n /\ i - 1 \in Nat
    OBVIOUS
  <2> QED
    BY <2>1
<1>2. ASSUME NEW k \in 1 .. n * p
      PROVE  \E i \in 1 .. n : (i - 1) * p < k /\ k <= i * p
  <2>1. p >= 1 /\ k \in Nat /\ k >= 1 /\ k <= n * p
    OBVIOUS
  <2> DEFINE i == ((k - 1) \div p) + 1
  <2>2. /\ (k - 1) \div p \in Nat /\ p * ((k - 1) \div p) <= k - 1
        /\ k - 1 < p * ((k - 1) \div p) + p
    BY <2>1
  <2>3. /\ i \in Nat /\ i >= 1 /\ (i - 1) * p = p * ((k - 1) \div p)
        /\ i * p = p * ((k - 1) \div p) + p
    BY <2>2
  <2> HIDE DEF i
  <2>4. (i - 1) * p < k /\ k <= i * p
    BY <2>1, <2>2, <2>3
  <2>5. i <= n
    <3>1. ASSUME i > n PROVE (i - 1) * p >= n * p
      BY <2>3, <3>1
    <3> QED
      BY <2>1, <2>3, <2>4, <3>1
  <2> QED
    BY <2>3, <2>4, <2>5
<1> QED
  BY <1>1, <1>2

\* Cutting l lines into n parts of l \div n each: the parts end before the
\* remainder.
LEMMA PartsOfLines ==
    ASSUME NEW l \in Nat, NEW n \in Nat, n >= 1
    PROVE  /\ l \div n \in Nat /\ n * (l \div n) = l - (l % n)
           /\ n * (l \div n) \in Nat /\ n * (l \div n) <= l
OBVIOUS

\* A complete job has the answers of all its clients, one for each of the first
\* parts of its own data set and computed with its own operation: they are all the
\* lines but the remainder, none is lost, counted twice or recorded for another
\* job, and the result shown is that of all of them, if it is shown
\* (append_result to end of Handle_result, update_job_status_to_completed).
THEOREM CompleteJobs == ASSUME Careful PROVE Spec => []CompleteHasAllResults
<1>1. TypeInv /\ JobInv => CompleteHasAllResults
  <2> SUFFICES ASSUME TypeInv, JobInv, NEW j \in JobIds, jobs[j].status = COMPLETE,
                      NEW n, n = jobs[j].number_of_clients
               PROVE  /\ n >= 1
                      /\ Cardinality(results[j]) = n
                      /\ {r[2].part : r \in results[j]}
                            = {[file |-> j, index |-> i, per |-> lines[j] \div n] : i \in 1 .. n}
                      /\ UNION {LinesOf(r[2].part) : r \in results[j]}
                            = 1 .. lines[j] - (lines[j] % n)
                      /\ \A r \in results[j] : r[2].op = j
                      /\ \/ jobs[j].result = results[j]
                         \/ (jobs[j].result = {} /\ \E t \in Tasks : /\ reply[t].job = j
                                                                   /\ reply[t].pc = "completed")
    BY DEF CompleteHasAllResults
  <2>1. /\ Answered(j)
        /\ jobs[j].result = results[j] \/ (jobs[j].result = {} /\ Storing(j))
    BY DEF JobInv, AnswerInv, CompleteInv
  <2>a. Storing(j) => \E t \in Tasks : reply[t].job = j /\ reply[t].pc = "completed"
    <3> SUFFICES ASSUME NEW t \in Tasks, t[1] = j, reply[t].pc = "completed"
                 PROVE  reply[t].job = j
      BY DEF Storing
    <3> QED
      BY ReplyTask
  <2>b. PICK p : p = lines[j] \div n
    OBVIOUS
  <2>2. n = Size(j) /\ Size(j) \in Int /\ Size(j) > 0
    <3>1. COMPLETE # NOT_STARTED
      BY DEF COMPLETE, NOT_STARTED
    <3> QED
      BY <2>1, <3>1, Typed DEF JobInv, FrontInv, StatusInv, Answered
  <2>3. /\ Cardinality(results[j]) = n /\ Places(j) = 1 .. n /\ Len(Arr(j)) = n
    BY <2>1, <2>2, CountTells
  <2>4. \A u \in Tasks : u[1] = j /\ Recorded(u) => u[2] \in 1 .. n
    <3> SUFFICES ASSUME NEW u \in Tasks, u[1] = j, Recorded(u) PROVE u[2] \in Places(j)
      BY <2>3
    <3>1. u = <<j, u[2]>> /\ u[2] \in Positions
      BY Typed
    <3> QED
      BY <3>1 DEF Places
  <2>5. \A i \in 1 .. n : <<j, i>> \in Tasks /\ Recorded(<<j, i>>)
    BY <2>3 DEF Places
  <2>6. results[j] = {<<u, LineOf(u)>> : u \in {v \in Tasks : v[1] = j /\ Recorded(v)}}
    BY DEF JobInv, AnswerInv, ResultInv
  <2>7. \A u \in Tasks : u[1] = j => /\ LineOf(u).part = [file |-> j, index |-> u[2], per |-> p]
                                     /\ LineOf(u).op = j
    BY <2>3, <2>b DEF LineOf, PartOf
  <2>8. ASSUME NEW r \in results[j]
        PROVE  r[2].op = j /\ \E i \in 1 .. n : r[2].part = [file |-> j, index |-> i, per |-> p]
    <3>1. PICK u \in Tasks : u[1] = j /\ Recorded(u) /\ r = <<u, LineOf(u)>>
      BY <2>6
    <3> QED
      BY <2>4, <2>7, <3>1
  <2>9. ASSUME NEW i \in 1 .. n
        PROVE  \E r \in results[j] : r[2].part = [file |-> j, index |-> i, per |-> p]
    <3>1. PICK u \in Tasks : u = <<j, i>> /\ u[1] = j /\ u[2] = i /\ Recorded(u)
      BY <2>5
    <3>2. <<u, LineOf(u)>> \in results[j]
      BY <2>6, <3>1
    <3> QED
      BY <2>7, <3>1, <3>2
  <2>10. {r[2].part : r \in results[j]} = {[file |-> j, index |-> i, per |-> p] : i \in 1 .. n}
    <3>1. ASSUME NEW x \in {r[2].part : r \in results[j]}
          PROVE  x \in {[file |-> j, index |-> i, per |-> p] : i \in 1 .. n}
      <4>1. PICK r \in results[j] : x = r[2].part
        OBVIOUS
      <4>2. PICK i \in 1 .. n : r[2].part = [file |-> j, index |-> i, per |-> p]
        BY <2>8
      <4> QED
        BY <4>1, <4>2
    <3>2. ASSUME NEW x \in {[file |-> j, index |-> i, per |-> p] : i \in 1 .. n}
          PROVE  x \in {r[2].part : r \in results[j]}
      <4>1. PICK i \in 1 .. n : x = [file |-> j, index |-> i, per |-> p]
        OBVIOUS
      <4>2. PICK r \in results[j] : r[2].part = [file |-> j, index |-> i, per |-> p]
        BY <2>9
      <4> QED
        BY <4>1, <4>2
    <3> QED
      BY <3>1, <3>2
  <2>11. UNION {LinesOf(r[2].part) : r \in results[j]} = 1 .. lines[j] - (lines[j] % n)
    <3>1. /\ p \in Nat /\ n * p = lines[j] - (lines[j] % n) /\ n * p \in Nat /\ n * p <= lines[j]
          /\ \A i \in 1 .. n : i * p \in Int /\ i * p <= n * p /\ (i - 1) * p \in Nat
          /\ \A k \in 1 .. n * p : \E i \in 1 .. n : (i - 1) * p < k /\ k <= i * p
      <4>1. lines[j] \in Nat /\ n \in Nat /\ n >= 1
        BY <2>2, Typed
      <4>2. p \in Nat /\ n * p = lines[j] - (lines[j] % n) /\ n * p \in Nat /\ n * p <= lines[j]
        BY <2>b, <4>1, PartsOfLines
      <4> QED
        BY <4>1, <4>2, PartsTile
    <3>2. ASSUME NEW i \in 1 .. n, NEW x, x = [file |-> j, index |-> i, per |-> p]
          PROVE  LinesOf(x) = {k \in 1 .. lines[j] : (i - 1) * p < k /\ k <= i * p}
      BY <3>2 DEF LinesOf
    <3>3. ASSUME NEW r \in results[j], NEW k \in LinesOf(r[2].part)
          PROVE  k \in 1 .. n * p
      <4>1. PICK i \in 1 .. n : r[2].part = [file |-> j, index |-> i, per |-> p]
        BY <2>8
      <4>2. k \in 1 .. lines[j] /\ k <= i * p
        BY <3>2, <3>3, <4>1
      <4>3. i * p \in Int /\ i * p <= n * p /\ n * p \in Nat /\ lines[j] \in Nat
        BY <3>1, Typed
      <4> QED
        BY <4>2, <4>3
    <3>4. ASSUME NEW k \in 1 .. n * p
          PROVE  \E r \in results[j] : k \in LinesOf(r[2].part)
      <4>1. PICK i \in 1 .. n : (i - 1) * p < k /\ k <= i * p
        BY <3>1
      <4>2. PICK r \in results[j] : r[2].part = [file |-> j, index |-> i, per |-> p]
        BY <2>9
      <4>a. n * p \in Nat /\ n * p <= lines[j] /\ lines[j] \in Nat
        BY <3>1, Typed
      <4>b. \A m \in Nat : k \in 1 .. m /\ m <= lines[j] => k \in 1 .. lines[j]
        BY <4>a
      <4>3. k \in 1 .. lines[j]
        BY <3>4, <4>a, <4>b
      <4>4. k \in LinesOf(r[2].part)
        BY <3>2, <4>1, <4>2, <4>3
      <4> QED
        BY <4>4
    <3>5. UNION {LinesOf(r[2].part) : r \in results[j]} = 1 .. n * p
      BY <3>3, <3>4
    <3> QED
      BY <3>1, <3>5
  <2> QED
    BY <2>1, <2>2, <2>3, <2>8, <2>10, <2>11, <2>a, <2>b
<1> QED
  BY <1>1, TypesHold, JobHolds, PTL

\* When the last line is written, the job is complete or a thread that will see
\* all the lines is on its way, in whatever order the threads of the answers
\* write and count (append_result and the wc -l of Handle_result).
THEOREM CompletionNotMissed == ASSUME Careful PROVE Spec => []NoMissedCompletion
<1>1. TypeInv /\ JobInv => NoMissedCompletion
  <2> SUFFICES ASSUME TypeInv, JobInv, NEW j \in JobIds, jobs[j].status = IN_PROGRESS,
                      Cardinality(results[j]) = jobs[j].number_of_clients,
                      jobs[j].number_of_clients > 0
               PROVE  \E t \in Tasks : reply[t].job = j
                                       /\ reply[t].pc \in {"appended", "freed", "counted",
                                                           "freeing", "computing"}
    BY DEF NoMissedCompletion
  <2>1. Cardinality(results[j]) = Size(j) /\ Cardinality(results[j]) # 0
    <3>1. IN_PROGRESS # NOT_STARTED
      BY DEF IN_PROGRESS, NOT_STARTED
    <3>2. jobs[j].number_of_clients = Size(j)
      BY <3>1 DEF JobInv, FrontInv, StatusInv
    <3> QED
      BY <3>2
  <2>2. results[j] # {}
    BY <2>1, FS_EmptySet
  <2>3. PICK t \in Tasks : t[1] = j /\ Finishing(t)
    BY <2>1, <2>2, CountTells DEF JobInv, AnswerInv, MissedInv
  <2>4. reply[t].job = j
    BY <2>3, ReplyTask DEF Finishing, CountsAll
  <2> QED
    BY <2>3, <2>4 DEF Finishing, CountsAll
<1> QED
  BY <1>1, TypesHold, JobHolds, PTL

\* Work a client was chosen for is a live task of its own.
LEMMA OutstandingLive ==
    ASSUME TypeInv, JobInv, NEW c \in Clients, NEW t \in Outstanding(c)
    PROVE  t \in Tasks /\ Size(t[1]) > 0 /\ Live(t) /\ Target(t) = c
<1>1. t \in Tasks /\ Size(t[1]) > 0
  BY DEF Outstanding, Size
<1>2. CASE task[t].pc \in {"queued", "filed"} /\ Target(t) = c
  BY <1>1, <1>2 DEF JobInv, AnswerInv, ReplyInv, Live
<1>3. CASE \E i \in DOMAIN sock[c] : sock[c][i].task = t
  <2>1. PICK i \in DOMAIN sock[c] : sock[c][i].task = t
    BY <1>3
  <2>2. sock[c] # <<>>
    BY <2>1
  <2>3. PICK s \in Tasks : Awaiting(s, c) /\ Underway(s, c)
    BY <2>2 DEF JobInv, PartsInv, SockInv
  <2>4. sock[c][i].task = s
    <3>1. sock[c] \in {<<File(s)>>, <<Exec(s)>>, <<File(s), Exec(s)>>}
      BY <2>3 DEF Underway
    <3>2. sock[c][i] \in {File(s), Exec(s)}
      BY <2>1, <3>1
    <3> QED
      BY <3>2 DEF File, Exec
  <2> QED
    BY <1>1, <2>1, <2>3, <2>4 DEF Awaiting, Live
<1>4. CASE reply[t].pc = "arrived" /\ reply[t].line.from = c
  BY <1>1, <1>4, ReplyTask DEF Live
<1> QED
  BY <1>1, <1>2, <1>3, <1>4 DEF Outstanding

\* A client shown FREE has nothing to do and one shown BUSY works on the job the
\* array names, on one part: the array never gives a working client away
\* (find_free_clients_in_a_group and update_client_status_to_free).
THEOREM ArrayTellsWork == ASSUME Careful PROVE Spec => []StatusTellsWork
<1>1. TypeInv /\ JobInv => StatusTellsWork
  <2> SUFFICES ASSUME TypeInv, JobInv, NEW c \in Clients
               PROVE  /\ clients[c].client_status = FREE => Outstanding(c) = {}
                      /\ \A s, t \in Outstanding(c) : s = t
                      /\ \A t \in Outstanding(c) : clients[c].job_id = t[1]
    BY DEF StatusTellsWork
  <2>1. ASSUME NEW t \in Outstanding(c)
        PROVE  clients[c].client_status = BUSY /\ clients[c].job_id = t[1]
    <3>1. t \in Tasks /\ Size(t[1]) > 0 /\ Live(t) /\ Target(t) = c
      BY OutstandingLive
    <3>2. t[1] \in JobIds /\ t = <<t[1], t[2]>>
      BY <3>1, Typed
    <3>3. handler[t[1]].pc \notin Settling /\ t[2] \in 1 .. Len(Arr(t[1]))
      BY <3>1 DEF Live, JobInv, PartsInv, TaskInv, Handed, Settling, Before
    <3>4. t[2] \in 1 .. Size(t[1]) /\ Arr(t[1])[t[2]] = c
      BY <3>1, <3>2, <3>3, OwnPlaces DEF Target, Arr
    <3>5. reply[<<t[1], t[2]>>].pc \in {"none", "arrived", "appended"}
      BY <3>1, <3>2 DEF Live
    <3> QED
      BY <3>2, <3>3, <3>4, <3>5 DEF JobInv, OwnInv
  <2>2. \A s, t \in Outstanding(c) : s = t
    BY OutstandingLive, OneTask
  <2>3. FREE # BUSY
    BY DEF FREE, BUSY
  <2> QED
    BY <2>1, <2>2, <2>3
<1> QED
  BY <1>1, TypesHold, JobHolds, PTL

\* Only the command, the handler that has assigned its clients and the thread of
\* the last answer change the job list; only the command gives a number, and only
\* the thread of an answer writes a result file.
LEMMA JobsChange ==
    ASSUME [Next]_vars
    PROVE  \/ StartJob \/ (\E h \in JobIds : HandlerUpdate(h))
           \/ (\E t \in Tasks : ReplyComplete(t) \/ ReplyResult(t) \/ ReplyAppend(t))
           \/ UNCHANGED <<job_id, jobs, results>>
<1>1. CASE UNCHANGED vars
  BY <1>1 DEF vars
<1>2. ASSUME NEW c \in Clients, Register(c) \/ ClientStep(c) \/ ClientCrash(c)
      PROVE  UNCHANGED <<job_id, jobs, results>>
  BY <1>2 DEF Register, RegisterGroups, RegisterClient, ClientStep, ClientFile, ClientExec,
              ClientWildCall, ClientCrash, ClientEnds
<1>3. ASSUME NEW h \in JobIds, Handle(h)
      PROVE  HandlerUpdate(h) \/ UNCHANGED <<job_id, jobs, results>>
  BY <1>3 DEF Handle, HandlerPull, HandlerArgs, HandlerFile, HandlerCount, HandlerFill,
              HandlerAssign, HandlerSplit, HandlerDispatch, HandlerReturn
<1>4. ASSUME NEW t \in Tasks, SendTo(t)
      PROVE  UNCHANGED <<job_id, jobs, results>>
  BY <1>4 DEF SendTo, SendFile, SendNothing, SendExec
<1>5. ASSUME NEW t \in Tasks, Reply(t)
      PROVE  \/ ReplyComplete(t) \/ ReplyResult(t) \/ ReplyAppend(t)
             \/ UNCHANGED <<job_id, jobs, results>>
  BY <1>5 DEF Reply, ReplyFreeClient, ReplyCount, ReplyNotLast, ReplyLast, ReplyFreeGroup,
              ReplyWildCall
<1> QED
  BY <1>1, <1>2, <1>3, <1>4, <1>5 DEF Next

\* A complete job is never taken back, and once a result is shown it never changes,
\* though a second thread may complete the job again and store the result again,
\* and threads go on answering for other jobs (update_job_status_and_group and the
\* two stores of update_job_status_to_completed).
THEOREM ResultsStay == ASSUME Careful PROVE Spec => ResultStable
<1>1. ASSUME TypeInv, JobInv, [Next]_vars, NEW j \in JobIds, jobs[j].status = COMPLETE
      PROVE  /\ jobs'[j].status = COMPLETE
             /\ jobs[j].result # {} => jobs'[j].result = jobs[j].result
  <2>1. /\ jobs[j].result # {} => jobs[j].result = results[j]
        /\ handler[j].pc \in Handed /\ j <= job_id
        /\ jobs[j].status # NOT_STARTED /\ job_id \in Nat
    BY <1>1, Typed DEF JobInv, AnswerInv, CompleteInv, Answered, FrontInv, FrameInv, Handed,
                       COMPLETE, NOT_STARTED
  <2>2. jobs \in [JobIds -> JobEntries]
    BY <1>1 DEF TypeInv, TypeOK
  <2>3. CASE StartJob
    <3>1. j # job_id + 1
      BY <2>1
    <3>2. jobs'[j] = jobs[j]
      BY <2>2, <2>3, <3>1 DEF StartJob
    <3> QED
      BY <1>1, <3>2
  <2>4. ASSUME NEW h \in JobIds, HandlerUpdate(h)
        PROVE  jobs'[j] = jobs[j]
    <3>1. handler[h].pc = "assigned"
      BY <2>4 DEF HandlerUpdate
    <3>2. /\ groups[args.group_id].job_id = h /\ handler[h].mg_id = args.group_id
      BY <1>1, <3>1, LastHandler DEF Reading, Handed
    <3>3. h # j
      BY <2>1, <3>1 DEF Handed
    <3> QED
      BY <2>2, <2>4, <3>2, <3>3 DEF HandlerUpdate
  <2>5. ASSUME NEW t \in Tasks, ReplyComplete(t)
        PROVE  jobs'[j].status = COMPLETE /\ jobs'[j].result = jobs[j].result
    <3>1. jobs' = [jobs EXCEPT ![reply[t].job].status = COMPLETE]
      BY <2>5 DEF ReplyComplete
    <3> QED
      BY <1>1, <2>2, <3>1 DEF JobEntries
  <2>6. ASSUME NEW t \in Tasks, ReplyResult(t)
        PROVE  /\ jobs'[j].status = COMPLETE
               /\ jobs[j].result # {} => jobs'[j].result = jobs[j].result
    <3>1. reply[t].job = t[1] /\ reply[t].result = results[t[1]]
      BY <1>1, <2>6, ReplyTask DEF ReplyResult, JobInv, AnswerInv, LastInv
    <3>2. jobs' = [jobs EXCEPT ![t[1]].result = results[t[1]]]
      BY <2>6, <3>1 DEF ReplyResult
    <3>3. CASE t[1] = j
      BY <1>1, <2>1, <2>2, <3>2, <3>3 DEF JobEntries
    <3>4. CASE t[1] # j
      BY <1>1, <2>2, <3>2, <3>4
    <3> QED
      BY <3>3, <3>4
  <2>7. \/ StartJob \/ (\E h \in JobIds : HandlerUpdate(h))
        \/ (\E t \in Tasks : ReplyComplete(t) \/ ReplyResult(t)) \/ jobs' = jobs
    BY <1>1, JobsChange DEF ReplyAppend
  <2> QED
    BY <1>1, <2>3, <2>4, <2>5, <2>6, <2>7
<1>2. TypeInv /\ JobInv /\ [Next]_vars =>
         [\A j \in JobIds : jobs[j].status = COMPLETE =>
             /\ jobs'[j].status = COMPLETE
             /\ jobs[j].result # {} => jobs'[j].result = jobs[j].result]_vars
  BY <1>1
<1> QED
  BY <1>2, TypesHold, JobHolds, PTL DEF Spec, ResultStable

-----------------------------------------------------------------------------
(* The system is a JobService: every step of the threads is a step of the  *)
(* service or changes nothing the operator sees.                           *)

\* What the service sees of job j.
PartsOf(j)    == IF jobs[j].number_of_clients > 0 THEN jobs[j].number_of_clients ELSE 0
AnsweredOf(j) == {i \in 1 .. jobs[j].number_of_clients : \E r \in results[j] : r[1] = <<j, i>>}

PhaseMap    == [j \in JobIds |-> Phase(j)]
PartsMap    == [j \in JobIds |-> PartsOf(j)]
AnsweredMap == [j \in JobIds |-> AnsweredOf(j)]

\* What it sees of the other jobs does not change.
OthersKept(j) ==
    \A k \in JobIds : k # j =>
        Phase(k)' = Phase(k) /\ PartsOf(k)' = PartsOf(k) /\ AnsweredOf(k)' = AnsweredOf(k)

LEMMA MapsMove ==
    ASSUME NEW j \in JobIds, OthersKept(j)
    PROVE  /\ PhaseMap[j] = Phase(j) /\ PartsMap[j] = PartsOf(j) /\ AnsweredMap[j] = AnsweredOf(j)
           /\ PhaseMap' = [PhaseMap EXCEPT ![j] = Phase(j)']
           /\ PartsMap' = [PartsMap EXCEPT ![j] = PartsOf(j)']
           /\ AnsweredMap' = [AnsweredMap EXCEPT ![j] = AnsweredOf(j)']
           /\ Phase(j)' = Phase(j) => PhaseMap' = PhaseMap
           /\ PartsOf(j)' = PartsOf(j) => PartsMap' = PartsMap
           /\ AnsweredOf(j)' = AnsweredOf(j) => AnsweredMap' = AnsweredMap
BY DEF OthersKept, PhaseMap, PartsMap, AnsweredMap

\* The steps of the service.
LEMMA SubmitStep ==
    ASSUME NEW j \in JobIds, OthersKept(j), Phase(j) = "none", Phase(j)' = "submitted",
           \A k \in JobIds : k < j => Phase(k) # "none",
           PartsOf(j)' = PartsOf(j), AnsweredOf(j)' = AnsweredOf(j)
    PROVE  Service!Submit(j)
<1>1. \A k \in JobIds : PhaseMap[k] = Phase(k)
  BY DEF PhaseMap
<1>2. /\ PhaseMap[j] = "none" /\ \A k \in JobIds : k < j => PhaseMap[k] # "none"
      /\ PhaseMap' = [PhaseMap EXCEPT ![j] = "submitted"]
      /\ PartsMap' = PartsMap /\ AnsweredMap' = AnsweredMap
  BY <1>1, MapsMove
<1> QED
  BY <1>2 DEF Service!Submit, PhaseMap, PartsMap, AnsweredMap, PartsOf, AnsweredOf

LEMMA StartStep ==
    ASSUME NEW j \in JobIds, OthersKept(j), Phase(j) = "submitted", Phase(j)' = "running",
           NEW n, PartsOf(j)' = n, AnsweredOf(j)' = AnsweredOf(j)
    PROVE  Service!Start(j, n)
<1>1. /\ PhaseMap[j] = "submitted" /\ PhaseMap' = [PhaseMap EXCEPT ![j] = "running"]
      /\ PartsMap' = [PartsMap EXCEPT ![j] = n] /\ AnsweredMap' = AnsweredMap
  BY MapsMove
<1> QED
  BY <1>1 DEF Service!Start, PhaseMap, PartsMap, AnsweredMap, PartsOf, AnsweredOf

LEMMA AnswerStep ==
    ASSUME NEW j \in JobIds, OthersKept(j), Phase(j) = "running", Phase(j)' = Phase(j),
           PartsOf(j)' = PartsOf(j), NEW i \in 1 .. PartsOf(j), i \notin AnsweredOf(j),
           AnsweredOf(j)' = AnsweredOf(j) \cup {i}
    PROVE  Service!Answer(j, i)
<1>1. /\ PhaseMap[j] = "running" /\ i \in 1 .. PartsMap[j] \ AnsweredMap[j]
      /\ AnsweredMap' = [AnsweredMap EXCEPT ![j] = @ \cup {i}]
      /\ PhaseMap' = PhaseMap /\ PartsMap' = PartsMap
  BY MapsMove
<1> QED
  BY <1>1 DEF Service!Answer, PhaseMap, PartsMap, AnsweredMap, PartsOf, AnsweredOf

LEMMA FinishStep ==
    ASSUME NEW j \in JobIds, OthersKept(j), Phase(j) = "running", Phase(j)' = "complete",
           PartsOf(j)' = PartsOf(j), PartsOf(j) > 0, AnsweredOf(j) = 1 .. PartsOf(j),
           AnsweredOf(j)' = AnsweredOf(j)
    PROVE  Service!Finish(j)
<1>1. /\ PhaseMap[j] = "running" /\ PartsMap[j] > 0 /\ AnsweredMap[j] = 1 .. PartsMap[j]
      /\ PhaseMap' = [PhaseMap EXCEPT ![j] = "complete"]
      /\ PartsMap' = PartsMap /\ AnsweredMap' = AnsweredMap
  BY MapsMove
<1> QED
  BY <1>1 DEF Service!Finish, PhaseMap, PartsMap, AnsweredMap, PartsOf, AnsweredOf

LEMMA NothingSeen ==
    ASSUME NEW j \in JobIds, OthersKept(j), Phase(j)' = Phase(j), PartsOf(j)' = PartsOf(j),
           AnsweredOf(j)' = AnsweredOf(j)
    PROVE  UNCHANGED Service!vars
<1>1. PhaseMap' = PhaseMap /\ PartsMap' = PartsMap /\ AnsweredMap' = AnsweredMap
  BY MapsMove
<1> QED
  BY <1>1 DEF Service!vars, PhaseMap, PartsMap, AnsweredMap, PartsOf, AnsweredOf

LEMMA PhaseTells ==
    ASSUME TypeInv, NEW j \in JobIds, NEW s, jobs[j].status = s
    PROVE  /\ job_id \in Nat /\ j \in Nat /\ j > 0
           /\ s \in {NOT_STARTED, IN_PROGRESS, COMPLETE}
           /\ j > job_id => Phase(j) = "none"
           /\ j <= job_id => Phase(j) # "none"
           /\ j <= job_id /\ s = NOT_STARTED => Phase(j) = "submitted"
           /\ j <= job_id /\ s = IN_PROGRESS => Phase(j) = "running"
           /\ j <= job_id /\ s = COMPLETE => Phase(j) = "complete"
<1>1. job_id \in Nat /\ j \in Nat /\ j > 0
  BY Typed DEF JobIds
<1>2. s \in {NOT_STARTED, IN_PROGRESS, COMPLETE}
  BY DEF TypeInv, TypeOK, JobEntries
<1> QED
  BY <1>1, <1>2 DEF Phase, NOT_STARTED, IN_PROGRESS, COMPLETE

\* A command submits the next job.
LEMMA CommandSubmits ==
    ASSUME TypeInv, JobInv, StartJob
    PROVE  \E j \in JobIds : Service!Submit(j)
<1>0. PICK j : j = job_id + 1
  OBVIOUS
<1>1. /\ job_id \in Nat /\ j \in JobIds /\ job_id' = j /\ UNCHANGED results
      /\ jobs'[j].status = NOT_STARTED /\ jobs'[j].number_of_clients = 0
      /\ \A k \in JobIds : k # j => jobs'[k] = jobs[k]
  <2>1. jobs \in [JobIds -> JobEntries]
    BY DEF TypeInv, TypeOK
  <2> QED
    BY <1>0, <2>1, Typed DEF StartJob, JobIds
<1>2. handler[j].pc = "none" /\ jobs[j].number_of_clients = 0
  BY <1>0, <1>1 DEF JobInv, FrontInv, FrameInv, StatusInv, Settling, Before
<1>3. OthersKept(j)
  <2> SUFFICES ASSUME NEW k \in JobIds, k # j
               PROVE  Phase(k)' = Phase(k) /\ PartsOf(k)' = PartsOf(k)
                      /\ AnsweredOf(k)' = AnsweredOf(k)
    BY DEF OthersKept
  <2>1. /\ jobs'[k] = jobs[k] /\ results' = results
        /\ \/ k > job_id /\ k > job_id'
           \/ ~(k > job_id) /\ ~(k > job_id')
    BY <1>0, <1>1, Typed
  <2>2. Phase(k)' = Phase(k)
    <3>1. CASE k > job_id /\ k > job_id'
      BY <3>1 DEF Phase
    <3>2. CASE ~(k > job_id) /\ ~(k > job_id')
      <4>1. jobs[k].status \in {NOT_STARTED, IN_PROGRESS, COMPLETE}
        BY PhaseTells
      <4> QED
        BY <2>1, <3>2, <4>1 DEF Phase, NOT_STARTED, IN_PROGRESS, COMPLETE
    <3> QED
      BY <2>1, <3>1, <3>2
  <2>3. PartsOf(k)' = PartsOf(k)
    BY <2>1 DEF PartsOf
  <2>4. AnsweredOf(k)' = AnsweredOf(k)
    BY <2>1 DEF AnsweredOf
  <2> QED
    BY <2>2, <2>3, <2>4
<1>4. Phase(j) = "none" /\ Phase(j)' = "submitted"
  <2>1. Phase(j)' = "submitted"
    BY <1>1, Typed DEF Phase, NOT_STARTED, IN_PROGRESS, COMPLETE
  <2> QED
    BY <1>0, <1>1, <2>1, PhaseTells
<1>5. ASSUME NEW k \in JobIds, k < j
      PROVE  Phase(k) # "none"
  <2>1. k <= job_id
    BY <1>0, <1>1, <1>5, Typed
  <2> QED
    BY <2>1, PhaseTells
<1>6. PartsOf(j)' = PartsOf(j) /\ AnsweredOf(j)' = AnsweredOf(j)
  BY <1>1, <1>2 DEF PartsOf, AnsweredOf
<1> QED
  BY <1>1, <1>3, <1>4, <1>5, <1>6, SubmitStep

\* The handler starts its job for the clients it found.
LEMMA UpdateStarts ==
    ASSUME TypeInv, TypeInv', JobInv, NEW h \in JobIds, HandlerUpdate(h)
    PROVE  \E n \in 0 .. Cardinality(Clients) : Service!Start(h, n)
<1>1. handler[h].pc = "assigned" /\ UNCHANGED <<job_id, results>>
      /\ jobs' = update_job_status_and_group(groups[handler[h].mg_id].job_id,
                                             handler[h].mg_id, handler[h].size)
  BY DEF HandlerUpdate
<1>2. /\ groups[args.group_id].job_id = h /\ handler[h].mg_id = args.group_id
      /\ h = job_id /\ \A t \in Tasks : t[1] = h => reply[t].pc = "none"
  BY <1>1, LastHandler DEF Reading, Handed
<1>3. /\ jobs[h].status = NOT_STARTED /\ jobs[h].number_of_clients = 0
      /\ Size(h) \in Int /\ Size(h) <= Cardinality(Clients) /\ Cardinality(Clients) \in Nat
  BY <1>1, Typed, ClientsCounted DEF JobInv, FrontInv, StatusInv, SizeInv, CountGood, Before
<1>4. /\ jobs'[h].status = IN_PROGRESS /\ jobs'[h].number_of_clients = Size(h)
      /\ \A k \in JobIds : k # h => jobs'[k] = jobs[k]
  <2>1. jobs \in [JobIds -> JobEntries]
    BY DEF TypeInv, TypeOK
  <2> QED
    BY <1>1, <1>2, <2>1 DEF JobEntries, Size
<1>5. OthersKept(h)
  <2> SUFFICES ASSUME NEW k \in JobIds, k # h
               PROVE  Phase(k)' = Phase(k) /\ PartsOf(k)' = PartsOf(k)
                      /\ AnsweredOf(k)' = AnsweredOf(k)
    BY DEF OthersKept
  <2>1. jobs'[k] = jobs[k] /\ job_id' = job_id /\ results' = results
    BY <1>1, <1>4
  <2>2. Phase(k)' = Phase(k)
    BY <2>1 DEF Phase
  <2>3. PartsOf(k)' = PartsOf(k)
    BY <2>1 DEF PartsOf
  <2>4. AnsweredOf(k)' = AnsweredOf(k)
    BY <2>1 DEF AnsweredOf
  <2> QED
    BY <2>2, <2>3, <2>4
<1>6. Phase(h) = "submitted" /\ Phase(h)' = "running"
  <2>0. job_id' = h /\ h \in Nat
    BY <1>1, <1>2, Typed
  <2>1. ~(h > job_id') /\ jobs'[h].status = IN_PROGRESS
    BY <1>4, <2>0
  <2>2. Phase(h)' = "running"
    BY <2>1 DEF Phase, NOT_STARTED, IN_PROGRESS, COMPLETE
  <2> QED
    BY <1>2, <1>3, <2>2, Typed, PhaseTells
<1>7. results[h] = {}
  BY <1>2 DEF JobInv, AnswerInv, ResultInv, Recorded
<1>8. AnsweredOf(h)' = {} /\ AnsweredOf(h) = {}
  BY <1>1, <1>7 DEF AnsweredOf
<1>9. PICK n \in 0 .. Cardinality(Clients) : PartsOf(h)' = n
  BY <1>3, <1>4 DEF PartsOf
<1> QED
  BY <1>5, <1>6, <1>8, <1>9, StartStep

\* The positions answered are those recorded.
LEMMA AnsweredPlaces ==
    ASSUME TypeInv, JobInv, NEW j \in JobIds
    PROVE  AnsweredOf(j) = {i \in 1 .. jobs[j].number_of_clients : i \in Places(j)}
<1>1. results[j] = {<<u, LineOf(u)>> : u \in {v \in Tasks : v[1] = j /\ Recorded(v)}}
  BY DEF JobInv, AnswerInv, ResultInv
<1>2. ASSUME NEW i
      PROVE  (\E r \in results[j] : r[1] = <<j, i>>) <=> i \in Places(j)
  <2>1. ASSUME NEW r \in results[j], r[1] = <<j, i>>
        PROVE  i \in Places(j)
    <3>1. PICK u \in Tasks : Recorded(u) /\ r = <<u, LineOf(u)>>
      BY <1>1
    <3>2. u = <<j, i>> /\ u[2] \in Positions /\ u[2] = i
      BY <2>1, <3>1, Typed
    <3> QED
      BY <3>1, <3>2 DEF Places
  <2>2. ASSUME i \in Places(j)
        PROVE  \E r \in results[j] : r[1] = <<j, i>>
    <3>1. PICK u \in Tasks : u = <<j, i>> /\ u[1] = j /\ Recorded(u)
      BY <2>2 DEF Places
    <3>2. <<u, LineOf(u)>> \in results[j]
      BY <1>1, <3>1
    <3> QED
      BY <3>1, <3>2
  <2> QED
    BY <2>1, <2>2
<1> QED
  BY <1>2 DEF AnsweredOf

\* A recorded line answers its part.
LEMMA AppendAnswers ==
    ASSUME TypeInv, JobInv, NEW t \in Tasks, ReplyAppend(t)
    PROVE  \/ \E j \in JobIds : \E i \in 1 .. Cardinality(Clients) : Service!Answer(j, i)
           \/ UNCHANGED Service!vars
<1>0. PICK j, i : j = t[1] /\ i = t[2]
  OBVIOUS
<1>1. /\ reply[t].pc = "arrived" /\ UNCHANGED <<job_id, jobs>>
      /\ results' = [results EXCEPT ![j] = @ \cup {<<t, LineOf(t)>>}]
  BY <1>0 DEF ReplyAppend, JobInv, AnswerInv, ReplyInv
<1>2. /\ j \in JobIds /\ i \in Positions /\ t = <<j, i>> /\ task[t].pc # "none"
      /\ handler[j].pc \in Handed /\ handler[j].pc \notin Settling
      /\ jobs[j].status # NOT_STARTED /\ jobs[j].number_of_clients = Size(j)
  BY <1>0, <1>1, ReplyTask, Typed
<1>3. /\ results'[j] = results[j] \cup {<<t, LineOf(t)>>}
      /\ \A k \in JobIds : k # j => results'[k] = results[k]
  BY <1>1, <1>2 DEF TypeInv, TypeOK
<1>4. OthersKept(j) /\ Phase(j)' = Phase(j) /\ PartsOf(j)' = PartsOf(j)
  <2> SUFFICES ASSUME NEW k \in JobIds
               PROVE  /\ Phase(k)' = Phase(k) /\ PartsOf(k)' = PartsOf(k)
                      /\ k # j => AnsweredOf(k)' = AnsweredOf(k)
    BY <1>2 DEF OthersKept
  <2>1. jobs' = jobs /\ job_id' = job_id
    BY <1>1
  <2>2. Phase(k)' = Phase(k)
    BY <2>1 DEF Phase
  <2>3. PartsOf(k)' = PartsOf(k)
    BY <2>1 DEF PartsOf
  <2>4. k # j => AnsweredOf(k)' = AnsweredOf(k)
    BY <1>3, <2>1 DEF AnsweredOf
  <2> QED
    BY <2>2, <2>3, <2>4
<1>5. AnsweredOf(j)' = AnsweredOf(j) \cup {m \in 1 .. Size(j) : m = i}
  <2>1. \A m : <<t, LineOf(t)>>[1] = <<j, m>> <=> m = i
    BY <1>2
  <2>2. \A m : (\E r \in results'[j] : r[1] = <<j, m>>)
                  <=> (\E r \in results[j] : r[1] = <<j, m>>) \/ m = i
    BY <1>3, <2>1
  <2>3. jobs' = jobs /\ jobs[j].number_of_clients = Size(j)
    BY <1>1, <1>2
  <2> QED
    BY <2>2, <2>3 DEF AnsweredOf
<1>6. CASE Size(j) > 0
  <2>1. i \in 1 .. Size(j)
    <3>1. i \in 1 .. Len(Arr(j))
      BY <1>0, <1>2 DEF JobInv, PartsInv, TaskInv
    <3> QED
      BY <1>2, <1>6, <3>1, OwnPlaces
  <2>2. ~Recorded(t) /\ i \notin AnsweredOf(j)
    BY <1>1, <1>2, AnsweredPlaces DEF Recorded, Places
  <2>3. Phase(j) = "running"
    <3>1. j <= job_id
      BY <1>2 DEF JobInv, FrontInv, FrameInv, Handed
    <3>2. jobs[j].status # COMPLETE
      BY <1>0, <1>2, <2>2, AnsweredTasks DEF JobInv, AnswerInv, CompleteInv
    <3> QED
      BY <1>2, <3>1, <3>2, PhaseTells
  <2>4. PartsOf(j) = Size(j) /\ AnsweredOf(j)' = AnsweredOf(j) \cup {i}
    BY <1>2, <1>5, <1>6, <2>1 DEF PartsOf
  <2>5. i \in 1 .. PartsOf(j) /\ i \in 1 .. Cardinality(Clients)
    BY <1>2, <2>1, <2>4 DEF Positions
  <2> QED
    BY <1>2, <1>4, <2>2, <2>3, <2>4, <2>5, AnswerStep
<1>7. CASE ~(Size(j) > 0)
  <2>1. 1 .. Size(j) = {}
    BY <1>2, <1>7, Typed
  <2>2. AnsweredOf(j)' = AnsweredOf(j)
    BY <1>5, <2>1
  <2> QED
    BY <1>2, <1>4, <2>2, NothingSeen
<1> QED
  BY <1>6, <1>7

\* The last thread finishes its job; a thread that completes it again is not seen.
LEMMA CompleteFinishes ==
    ASSUME TypeInv, JobInv, NEW t \in Tasks, ReplyComplete(t)
    PROVE  (\E j \in JobIds : Service!Finish(j)) \/ UNCHANGED Service!vars
<1>0. PICK j : j = t[1]
  OBVIOUS
<1>1. reply[t].pc = "computing" /\ UNCHANGED <<job_id, results>>
      /\ jobs' = update_job_status_to_completed(reply[t].job)
  BY DEF ReplyComplete
<1>2. /\ j \in JobIds /\ reply[t].job = j /\ jobs[j].status # NOT_STARTED
      /\ jobs[j].number_of_clients = Size(j) /\ Answered(j)
  BY <1>0, <1>1, ReplyTask DEF JobInv, AnswerInv, LastInv
<1>3. /\ jobs'[j].status = COMPLETE
      /\ jobs'[j].number_of_clients = jobs[j].number_of_clients
      /\ \A k \in JobIds : k # j => jobs'[k] = jobs[k]
  <2>1. jobs \in [JobIds -> JobEntries] /\ jobs[j] \in JobEntries
    BY <1>2 DEF TypeInv, TypeOK
  <2> QED
    BY <1>1, <1>2, <2>1 DEF JobEntries
<1>4. \A k \in JobIds : PartsOf(k)' = PartsOf(k) /\ AnsweredOf(k)' = AnsweredOf(k)
  <2> SUFFICES ASSUME NEW k \in JobIds
               PROVE  PartsOf(k)' = PartsOf(k) /\ AnsweredOf(k)' = AnsweredOf(k)
    OBVIOUS
  <2>1. jobs'[k].number_of_clients = jobs[k].number_of_clients /\ results' = results
    BY <1>1, <1>3
  <2>2. PartsOf(k)' = PartsOf(k)
    BY <2>1 DEF PartsOf
  <2>3. AnsweredOf(k)' = AnsweredOf(k)
    BY <2>1 DEF AnsweredOf
  <2> QED
    BY <2>2, <2>3
<1>5. OthersKept(j)
  <2> SUFFICES ASSUME NEW k \in JobIds, k # j PROVE Phase(k)' = Phase(k)
    BY <1>4 DEF OthersKept
  <2>1. jobs'[k] = jobs[k] /\ job_id' = job_id
    BY <1>1, <1>3
  <2> QED
    BY <2>1 DEF Phase
<1>6. j <= job_id /\ job_id' = job_id
  BY <1>1, <1>2 DEF Answered, JobInv, FrontInv, FrameInv, Handed
<1>7. Phase(j)' = "complete"
  <2>1. ~(j > job_id')
    BY <1>2, <1>6, Typed
  <2> QED
    BY <1>3, <2>1 DEF Phase, NOT_STARTED, IN_PROGRESS, COMPLETE
<1>8. CASE jobs[j].status = COMPLETE
  <2>1. Phase(j) = "complete"
    BY <1>2, <1>6, <1>8, PhaseTells
  <2> QED
    BY <1>2, <1>4, <1>5, <1>7, <2>1, NothingSeen
<1>9. CASE jobs[j].status # COMPLETE
  <2>1. Phase(j) = "running"
    BY <1>2, <1>6, <1>9, PhaseTells
  <2>2. Size(j) > 0 /\ Places(j) = 1 .. Size(j)
    BY <1>2, CountTells DEF Answered
  <2>3. PartsOf(j) = Size(j) /\ AnsweredOf(j) = 1 .. Size(j)
    <3>1. PartsOf(j) = Size(j)
      BY <1>2, <2>2 DEF PartsOf
    <3>2. AnsweredOf(j) = 1 .. Size(j)
      BY <1>2, <2>2, AnsweredPlaces
    <3> QED
      BY <3>1, <3>2
  <2> QED
    BY <1>2, <1>4, <1>5, <1>7, <2>1, <2>2, <2>3, FinishStep
<1> QED
  BY <1>8, <1>9

\* The second store of a completion is not seen.
LEMMA ResultUnseen ==
    ASSUME TypeInv, JobInv, NEW t \in Tasks, ReplyResult(t)
    PROVE  UNCHANGED Service!vars
<1>1. /\ UNCHANGED <<job_id, results>>
      /\ jobs' = update_job_result(reply[t].job, reply[t].result)
  BY DEF ReplyResult
<1>2. \A k \in JobIds : /\ jobs'[k].status = jobs[k].status
                        /\ jobs'[k].number_of_clients = jobs[k].number_of_clients
  <2>1. jobs \in [JobIds -> JobEntries] /\ \A k \in JobIds : jobs[k] \in JobEntries
    BY DEF TypeInv, TypeOK
  <2> QED
    BY <1>1, <2>1 DEF JobEntries
<1>3. ASSUME NEW k \in JobIds
      PROVE  Phase(k)' = Phase(k) /\ PartsOf(k)' = PartsOf(k)
             /\ AnsweredOf(k)' = AnsweredOf(k)
  <2>1. /\ job_id' = job_id /\ results' = results /\ jobs'[k].status = jobs[k].status
        /\ jobs'[k].number_of_clients = jobs[k].number_of_clients
    BY <1>1, <1>2
  <2>2. Phase(k)' = Phase(k)
    BY <2>1 DEF Phase
  <2>3. PartsOf(k)' = PartsOf(k)
    BY <2>1 DEF PartsOf
  <2>4. AnsweredOf(k)' = AnsweredOf(k)
    BY <2>1 DEF AnsweredOf
  <2> QED
    BY <2>2, <2>3, <2>4
<1>4. t[1] \in JobIds
  BY Typed
<1> QED
  BY <1>3, <1>4, NothingSeen DEF OthersKept

\* For the careful operator the multicast server is a JobService: jobs in the
\* order of the commands, each part answered at most once, a job complete only
\* when all its parts are, and then for good.
THEOREM ServiceImplemented == ASSUME Careful PROVE Spec => ImplementsJobService
<1>1. Init => Service!Init
  <2> SUFFICES ASSUME Init PROVE Service!Init
    OBVIOUS
  <2>1. job_id = 0 /\ \A j \in JobIds : jobs[j].number_of_clients = 0 /\ ~(j <= job_id)
    BY DEF Init, JobIds
  <2>2. \A j \in JobIds : Phase(j) = "none" /\ PartsOf(j) = 0 /\ AnsweredOf(j) = {}
    <3> SUFFICES ASSUME NEW j \in JobIds
                 PROVE  Phase(j) = "none" /\ PartsOf(j) = 0 /\ AnsweredOf(j) = {}
      OBVIOUS
    <3>1. j > job_id
      BY <2>1 DEF JobIds
    <3>2. Phase(j) = "none"
      BY <3>1 DEF Phase
    <3> QED
      BY <2>1, <3>2 DEF PartsOf, AnsweredOf
  <2> QED
    BY <2>2 DEF Service!Init, PartsOf, AnsweredOf
<1>2. TypeInv /\ TypeInv' /\ JobInv /\ [Next]_vars => [Service!Next]_(Service!vars)
  <2> SUFFICES ASSUME TypeInv, TypeInv', JobInv, [Next]_vars
               PROVE  Service!Next \/ UNCHANGED Service!vars
    OBVIOUS
  <2>1. CASE StartJob
    BY <2>1, CommandSubmits DEF Service!Next
  <2>2. CASE \E h \in JobIds : HandlerUpdate(h)
    BY <2>2, UpdateStarts DEF Service!Next
  <2>3. CASE \E t \in Tasks : ReplyComplete(t) \/ ReplyAppend(t)
    BY <2>3, AppendAnswers, CompleteFinishes DEF Service!Next
  <2>4. CASE \E t \in Tasks : ReplyResult(t)
    BY <2>4, ResultUnseen
  <2>5. CASE UNCHANGED <<job_id, jobs, results>>
    BY <2>5 DEF Service!vars, Phase
  <2> QED
    BY <2>1, <2>2, <2>3, <2>4, <2>5, JobsChange
<1> QED
  BY <1>1, <1>2, TypesHold, JobHolds, PTL DEF Spec, ImplementsJobService, Service!Spec

=============================================================================
