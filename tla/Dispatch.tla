------------------------------ MODULE Dispatch ------------------------------
(***************************************************************************)
(* The life of a job in the multicast server: the shell thread submits it  *)
(* (job_addition), a worker of the pool thpool_job picks clients of its    *)
(* group and splits the data set (multicast_Group_Handler), a worker of    *)
(* the job's own pool sends every client its part and the order to execute *)
(* (client_Handler), the client computes and answers                       *)
(* (Handle_execute_job), and a thread of the server started for the answer *)
(* records it and, if it is the last, completes the job (Handle_result).   *)
(*                                                                         *)
(* The job list, the group array and the client array are shared by all    *)
(* these threads and no lock protects them: every action is one stretch of *)
(* code between two accesses that another thread can separate.             *)
(***************************************************************************)
EXTENDS Integers, FiniteSets, Sequences

CONSTANTS
    Clients,      \* the sockets clients are connected on
    NoClient,     \* a garbage descriptor: no client is behind it
    NumGroups,    \* NUMBER_OF_GROUPS
    Joins,        \* Joins[c]: the groups client c registers for
    Sizes,        \* the numbers of lines a data set may have, 0: no such file
    LongNames,    \* the commands whose data set has a name of 15 or more characters
    Invalid,      \* the commands whose operation is none (the shell refuses only
                  \* what is greater than 2)
    PoolSize,     \* workers of thpool_job (24)
    MaxJobs,      \* bound: commands the operator gives
    MaxOpen,      \* bound: jobs not yet complete when a command is given
    Unsettled,    \* the operator gives no command while a handler is at one of
                  \* these points
    Looks,        \* the operator looks for a group ready to work first
    MaxWild,      \* bound: an uninitialized size
    MaxCrashes    \* bound: clients that die

Groups  == 0 .. NumGroups - 1
NoGroup == -1                     \* find_free_group found none
Entries == Groups \cup {NoGroup}  \* multicast_groups[-1] is written too
JobIds  == 1 .. MaxJobs
NoJob   == 0
NoFile  == 0

FREE == 0
BUSY == 1

NOT_STARTED == -1
IN_PROGRESS == 0
COMPLETE    == 1

Positions == 1 .. Cardinality(Clients)  \* indices of arr_clients
Tasks     == JobIds \X Positions        \* client_Handler(s) of a job

\* How far a handler is: named for what it did last.
HandlerPcs == {"none", "queued", "pulled", "args", "named", "counted", "filled",
               "assigned", "updated", "split", "returned"}

ASSUME DispatchAssumption ==
    /\ IsFiniteSet(Clients) /\ Clients # {} /\ NoClient \notin Clients
    /\ NumGroups \in Nat \ {0}
    /\ Joins \in [Clients -> SUBSET Groups]
    /\ Sizes \subseteq Nat /\ Sizes # {}
    /\ LongNames \subseteq JobIds /\ Invalid \subseteq JobIds
    /\ PoolSize \in Nat \ {0}
    /\ MaxJobs \in Nat /\ MaxOpen \in Nat /\ MaxCrashes \in Nat
    /\ MaxWild \in 0 .. Cardinality(Clients)
    /\ Unsettled \subseteq HandlerPcs /\ Looks \in BOOLEAN

VARIABLES
    job_id,    \* the last job number given
    lines,     \* lines[j]: lines in the data set named by the j-th command
    jobs,      \* the job list
    groups,    \* multicast_groups; members: the clients in the list at head
    clients,   \* the clients array
    args,      \* the stack frame slot job_addition passes to its handler
    handler,   \* handler[j]: the multicast_Group_Handler queued for job j
    split,     \* split[j]: the data set of the files <j>_in_file* and the lines
               \* that each of them has
    task,      \* task[<<h, i>>]: i-th client_Handler queued by handler h
    sock,      \* sock[c]: messages sent to client c, not yet processed
    disk,      \* disk[c]: the part that is in b.txt of client c
    reply,     \* reply[t]: the answer to task t and the thread handling it
    results,   \* results[j]: the lines of file Result_<j>
    alive,     \* clients whose process runs
    up         \* the server process runs

server == <<job_id, lines, jobs, groups, clients, args>>
work   == <<handler, split, task>>
net    == <<sock, disk, alive>>
answer == <<reply, results>>
vars   == <<server, work, net, answer, up>>

\* The index-th of the files of "per" lines a data set was split into.
NoPart == [file |-> NoFile, index |-> 0, per |-> 0]
NoLine == [from |-> NoClient, part |-> NoPart, op |-> 0]

-----------------------------------------------------------------------------
Init ==
    /\ job_id = 0
    /\ lines = [j \in JobIds |-> 0]
    /\ jobs = [j \in JobIds |-> [group_id |-> 0, number_of_clients |-> 0,
                                 status |-> NOT_STARTED, result |-> {}]]
    /\ groups = [g \in Entries |-> [group_status |-> FREE, job_id |-> NoJob,
                                    members |-> {}]]
    /\ clients = [c \in Clients |-> [present |-> FALSE, client_status |-> FREE,
                                     job_id |-> NoJob]]
    /\ args = [group_id |-> NoGroup, op |-> 0, file |-> NoFile]
    /\ handler = [h \in JobIds |-> [pc |-> "none", mg_id |-> NoGroup, op |-> 0,
                                    file |-> NoFile, size |-> 0, arr |-> <<>>]]
    /\ split = [j \in JobIds |-> [file |-> NoFile, per |-> 0]]
    /\ task = [t \in Tasks |-> [pc |-> "none", prefix |-> NoJob]]
    /\ sock = [c \in Clients |-> <<>>]
    /\ disk = [c \in Clients |-> NoPart]
    /\ reply = [t \in Tasks |-> [pc |-> "none", job |-> NoJob, line |-> NoLine,
                                 count |-> 0, group |-> NoGroup, result |-> {}]]
    /\ results = [j \in JobIds |-> {}]
    /\ alive = Clients
    /\ up = TRUE

-----------------------------------------------------------------------------
(* Registration (Handle_group_id_regs): the client enters the lists of its *)
(* groups first and the client array second.                               *)

Listed(c) == \E g \in Groups : c \in groups[g].members

\* add_a_client_to_groups
RegisterGroups(c) ==
    /\ up /\ c \in alive /\ ~Listed(c) /\ Joins[c] # {}
    /\ groups' = [g \in Entries |->
                    IF g \in Joins[c]
                      THEN [groups[g] EXCEPT !.members = @ \cup {c}]
                      ELSE groups[g]]
    /\ UNCHANGED <<job_id, lines, jobs, clients, args, work, net, answer, up>>

\* add_client: status and job_id of the array entry are left as they are.
RegisterClient(c) ==
    /\ up /\ Listed(c) /\ ~clients[c].present
    /\ clients' = [clients EXCEPT ![c].present = TRUE]
    /\ UNCHANGED <<job_id, lines, jobs, groups, args, work, net, answer, up>>

-----------------------------------------------------------------------------
(* The shell thread.                                                       *)

FreeGroups == {g \in Groups : groups[g].group_status = FREE
                              /\ groups[g].members # {}}

\* Mutant: the client's status is not looked at.
MutAnyMember(g) == {c \in groups[g].members : clients[c].present}

FreeMembers(g) == {c \in groups[g].members :
                     clients[c].present /\ clients[c].client_status = FREE}

\* Mutant: the loop index is returned when the loop finds nothing.
MutFindNone ==
    IF FreeGroups = {} THEN NumGroups
    ELSE CHOOSE g \in FreeGroups : \A f \in FreeGroups : g <= f

find_free_group ==
    IF FreeGroups = {} THEN NoGroup
    ELSE CHOOSE g \in FreeGroups : \A f \in FreeGroups : g <= f

\* A job is created without clients, in group 0 and with the result -1, for
\* which {} stands.
add_job(j) == [jobs EXCEPT ![j] = [group_id |-> 0, number_of_clients |-> 0,
                                   status |-> NOT_STARTED, result |-> {}]]

update_group_with_job_assigned(g, j) ==
    [groups EXCEPT ![g].job_id = j, ![g].group_status = BUSY]

Open == {j \in 1 .. job_id : jobs[j].status # COMPLETE}

\* job_addition, from the command to thpool_add_work: the argument block is a
\* local variable, so every command writes the same slot.
StartJob ==
    LET j == job_id + 1
        g == find_free_group
    IN  /\ up /\ job_id < MaxJobs /\ Cardinality(Open) < MaxOpen
        /\ \A h \in JobIds : handler[h].pc \notin Unsettled
        /\ Looks => g # NoGroup /\ FreeMembers(g) # {}
        /\ \E n \in Sizes : lines' = [lines EXCEPT ![j] = n]
        /\ job_id' = j
        /\ jobs' = add_job(j)
        /\ groups' = update_group_with_job_assigned(g, j)
        /\ args' = [group_id |-> g, op |-> j, file |-> j]
        /\ handler' = [handler EXCEPT ![j].pc = "queued"]
        /\ UNCHANGED <<clients, split, task, net, answer, up>>

-----------------------------------------------------------------------------
(* multicast_Group_Handler, one worker of thpool_job per command.          *)

Running(h) == handler[h].pc \notin {"none", "queued", "returned"}

\* A free worker takes the oldest command off the queue.
HandlerPull(h) ==
    /\ up /\ handler[h].pc = "queued"
    /\ \A k \in JobIds : k < h => handler[k].pc # "queued"
    /\ Cardinality({k \in JobIds : Running(k)}) < PoolSize
    /\ handler' = [handler EXCEPT ![h].pc = "pulled"]
    /\ UNCHANGED <<server, split, task, net, answer, up>>

\* group_id and job_id are read first, the file name only after the workers
\* of the job's own pool have been created (thpool_init).
HandlerArgs(h) ==
    /\ up /\ handler[h].pc = "pulled"
    /\ handler' = [handler EXCEPT ![h].pc = "args", ![h].mg_id = args.group_id,
                                  ![h].op = args.op]
    /\ UNCHANGED <<server, split, task, net, answer, up>>

\* The name is copied into 15 bytes. One of 15 or more characters is cut and has
\* no end: what is opened is another file than the one named, that is, none,
\* unless the byte behind happens to end a name of exactly 15.
NamesRead(f) == IF f \in LongNames THEN {f, NoFile} ELSE {f}

HandlerFile(h) ==
    /\ up /\ handler[h].pc = "args"
    /\ \E f \in NamesRead(args.file) :
          handler' = [handler EXCEPT ![h].pc = "named", ![h].file = f]
    /\ UNCHANGED <<server, split, task, net, answer, up>>

\* What an uninitialized size may be.
WildSizes == -1 .. MaxWild

\* find_free_clients_in_a_group, first pass. For an empty list (the entry
\* before the array) size and array stay uninitialized, and the wild array may
\* kill the server.
HandlerCount(h) ==
    LET g == handler[h].mg_id
    IN  /\ up /\ handler[h].pc = "named"
        /\ \/ /\ groups[g].members # {}
              /\ handler' = [handler EXCEPT ![h].pc = "counted",
                                            ![h].size = Cardinality(FreeMembers(g))]
              /\ up' = up
           \/ /\ groups[g].members = {}
              /\ \E n \in WildSizes :
                   handler' = [handler EXCEPT ![h].pc = "counted", ![h].size = n]
              /\ up' \in BOOLEAN
        /\ UNCHANGED <<server, split, task, net, answer>>

\* Second pass: the list is walked again, into an array of the size counted.
\* The order of the list is abstracted: the free clients come in any order.
\* Entries the walk does not reach are whatever malloc returned; for a size of
\* zero one entry is used all the same.
HandlerFill(h) ==
    LET free == FreeMembers(handler[h].mg_id)
        n    == IF handler[h].size = 0 THEN 1 ELSE handler[h].size
    IN  /\ up /\ handler[h].pc = "counted"
        /\ \E a \in [1 .. n -> Clients \cup {NoClient}] :
              /\ \A i \in 1 .. n : i <= Cardinality(free) =>
                    a[i] \in free /\ \A k \in 1 .. i - 1 : a[k] # a[i]
              /\ handler' = [handler EXCEPT ![h].pc = "filled", ![h].arr = a]
        /\ UNCHANGED <<server, split, task, net, answer, up>>

Chosen(h) == {handler[h].arr[i] : i \in 1 .. handler[h].size}

AssignedEntry(c, j) == [clients[c] EXCEPT !.job_id = j, !.client_status = BUSY]

\* update_client_with_job_assigned
HandlerAssign(h) ==
    LET g == handler[h].mg_id
    IN  /\ up /\ handler[h].pc = "filled"
        /\ clients' = [c \in Clients |->
              IF c \in Chosen(h) \cap groups[g].members /\ clients[c].present
                THEN AssignedEntry(c, groups[g].job_id)
                ELSE clients[c]]
        /\ handler' = [handler EXCEPT ![h].pc = "assigned"]
        /\ UNCHANGED <<job_id, lines, jobs, groups, args, split, task, net,
                       answer, up>>

\* Mutant: the group is not recorded and stays the 0 of add_job.
MutNoGroupRecorded(j, g, n) ==
    [jobs EXCEPT ![j].status = IN_PROGRESS, ![j].number_of_clients = n]

update_job_status_and_group(j, g, n) ==
    [jobs EXCEPT ![j].group_id = g, ![j].status = IN_PROGRESS,
                 ![j].number_of_clients = n]

HandlerUpdate(h) ==
    LET g == handler[h].mg_id
    IN  /\ up /\ handler[h].pc = "assigned"
        /\ jobs' = update_job_status_and_group(groups[g].job_id, g,
                                               handler[h].size)
        /\ handler' = [handler EXCEPT ![h].pc = "updated"]
        /\ UNCHANGED <<job_id, lines, groups, clients, args, split, task, net,
                       answer, up>>

\* Lines of a part when the data set of command f is split for n clients. The
\* split command refuses 0 and negative numbers, and a file that is not there,
\* and then writes nothing. When the lines do not divide it writes more files
\* than there are clients.
LinesIn(f) == IF f = NoFile THEN 0 ELSE lines[f]

PartLines(f, n) == IF n < 1 THEN 0 ELSE LinesIn(f) \div n

HandlerSplit(h) ==
    LET j   == groups[handler[h].mg_id].job_id
        f   == handler[h].file
        per == PartLines(f, Len(handler[h].arr))
    IN  /\ up /\ handler[h].pc = "updated"
        /\ split' = IF per > 0 THEN [split EXCEPT ![j] = [file |-> f, per |-> per]]
                              ELSE split
        /\ handler' = [handler EXCEPT ![h].pc = "split"]
        /\ UNCHANGED <<server, task, net, answer, up>>

\* One turn of the loop over the array: a client_Handler is queued, with the
\* name of a part file made from the job number the group has by now. The
\* client_Handlers of earlier turns may be running or over.
HandlerDispatch(h) ==
    /\ up /\ handler[h].pc = "split"
    /\ \E i \in DOMAIN handler[h].arr :
          /\ \A k \in 1 .. i : (task[<<h, k>>].pc = "none") <=> (k = i)
          /\ task' = [task EXCEPT ![<<h, i>>] =
                        [pc |-> "queued", prefix |-> groups[handler[h].mg_id].job_id]]
    /\ UNCHANGED <<server, handler, split, net, answer, up>>

\* thpool_wait comes after the loop and returns when no worker of the job's pool
\* counts as working; a worker that left by pthread_exit counts for ever.
HandlerReturn(h) ==
    /\ up /\ handler[h].pc = "split"
    /\ \A i \in DOMAIN handler[h].arr : task[<<h, i>>].pc = "sent"
    /\ handler' = [handler EXCEPT ![h].pc = "returned"]
    /\ UNCHANGED <<server, split, task, net, answer, up>>

-----------------------------------------------------------------------------
(* client_Handler, one worker of the job's own pool per client.            *)

Target(t) == handler[t[1]].arr[t[2]]

PartExists(j, i) ==
    split[j].per > 0 /\ (i - 1) * split[j].per < LinesIn(split[j].file)

\* A write to the socket of a dead client is lost, or its SIGPIPE ends the
\* server; a garbage descriptor only fails.
Send(c, m) ==
    \/ c \in alive /\ sock' = [sock EXCEPT ![c] = Append(@, m)] /\ up' = up
    \/ c \notin alive /\ sock' = sock /\ up' = up
    \/ c \in Clients \ alive /\ sock' = sock /\ up' = FALSE

\* FILE_WRITE and the FILE_APPENDs that follow it.
SendFile(t) ==
    LET j == task[t].prefix
    IN  /\ up /\ task[t].pc = "queued" /\ PartExists(j, t[2])
        /\ Send(Target(t), [type |-> "file", task |-> t, op |-> 0, job |-> NoJob,
                            part |-> [file |-> split[j].file, index |-> t[2],
                                      per |-> split[j].per]])
        /\ task' = [task EXCEPT ![t].pc = "filed"]
        /\ UNCHANGED <<server, handler, split, disk, alive, answer>>

\* stat fails: pthread_exit in a worker of the pool.
SendNothing(t) ==
    /\ up /\ task[t].pc = "queued" /\ ~PartExists(task[t].prefix, t[2])
    /\ task' = [task EXCEPT ![t].pc = "exited"]
    /\ UNCHANGED <<server, handler, split, net, answer, up>>

\* EXECUTE_JOB_ID carries the job number the group has by now.
SendExec(t) ==
    /\ up /\ task[t].pc = "filed"
    /\ Send(Target(t), [type |-> "exec", task |-> t, op |-> handler[t[1]].op,
                        job |-> groups[handler[t[1]].mg_id].job_id,
                        part |-> NoPart])
    /\ task' = [task EXCEPT ![t].pc = "sent"]
    /\ UNCHANGED <<server, handler, split, disk, alive, answer>>

-----------------------------------------------------------------------------
(* The client process (process_job reads one message after the other).     *)

\* Handle_file_write, Handle_file_append
ClientFile(c) ==
    /\ c \in alive /\ sock[c] # <<>> /\ Head(sock[c]).type = "file"
    /\ disk' = [disk EXCEPT ![c] = Head(sock[c]).part]
    /\ sock' = [sock EXCEPT ![c] = Tail(@)]
    /\ UNCHANGED <<server, work, alive, answer, up>>

\* Handle_execute_job: compute on b.txt, answer, remove b.txt. For an operation
\* that is none the function called is whatever an earlier call left.
ClientExec(c) ==
    LET m == Head(sock[c])
    IN  /\ c \in alive /\ sock[c] # <<>> /\ m.type = "exec"
        /\ reply' = [reply EXCEPT ![m.task] =
                       [pc |-> "arrived", job |-> m.job, count |-> 0,
                        group |-> NoGroup, result |-> {},
                        line |-> [from |-> c, part |-> disk[c], op |-> m.op]]]
        /\ disk' = [disk EXCEPT ![c] = NoPart]
        /\ sock' = [sock EXCEPT ![c] = Tail(@)]
        /\ UNCHANGED <<server, work, alive, results, up>>

\* What was sent to a client whose process ends is gone.
ClientEnds(c) ==
    /\ alive' = alive \ {c}
    /\ sock' = [sock EXCEPT ![c] = <<>>]
    /\ UNCHANGED <<server, work, disk, answer, up>>

\* The pointer that no case of the switch sets leads nowhere.
ClientWildCall(c) ==
    /\ c \in alive /\ sock[c] # <<>>
    /\ Head(sock[c]).type = "exec" /\ Head(sock[c]).op \in Invalid
    /\ ClientEnds(c)

ClientCrash(c) ==
    /\ c \in alive /\ Cardinality(Clients \ alive) < MaxCrashes
    /\ ClientEnds(c)

-----------------------------------------------------------------------------
(* Handle_result, in a thread of the server started for the answer.        *)

\* One line is appended to Result_<job>.
ReplyAppend(t) ==
    LET j == reply[t].job
    IN  /\ up /\ reply[t].pc = "arrived"
        /\ results' = [results EXCEPT ![j] = @ \cup {<<t, reply[t].line>>}]
        /\ reply' = [reply EXCEPT ![t].pc = "appended"]
        /\ UNCHANGED <<server, work, net, up>>

update_client_status_to_free(c, j) ==
    IF clients[c].present /\ clients[c].job_id = j
      THEN [clients EXCEPT ![c].client_status = FREE]
      ELSE clients

ReplyFreeClient(t) ==
    /\ up /\ reply[t].pc = "appended"
    /\ clients' = update_client_status_to_free(reply[t].line.from, reply[t].job)
    /\ reply' = [reply EXCEPT ![t].pc = "freed"]
    /\ UNCHANGED <<job_id, lines, jobs, groups, args, work, net, results, up>>

\* wc -l Result_<job>
ReplyCount(t) ==
    /\ up /\ reply[t].pc = "freed"
    /\ reply' = [reply EXCEPT ![t].pc = "counted",
                              ![t].count = Cardinality(results[reply[t].job])]
    /\ UNCHANGED <<server, work, net, results, up>>

\* Mutants: one answer too few is enough, or one too many is needed.
MutOneTooFew(j, n) == jobs[j].number_of_clients <= n + 1
MutNeedsMore(j, n) == jobs[j].number_of_clients < n

time_to_compute_final_result(j, n) == jobs[j].number_of_clients = n

ReplyNotLast(t) ==
    /\ up /\ reply[t].pc = "counted"
    /\ ~time_to_compute_final_result(reply[t].job, reply[t].count)
    /\ reply' = [reply EXCEPT ![t].pc = "done"]
    /\ UNCHANGED <<server, work, net, results, up>>

get_group_id_from_job(j) == jobs[j].group_id

\* The last answer: the group is looked up and update_group_status_to_free tests
\* whether it still works on the job.
ReplyLast(t) ==
    LET j == reply[t].job
        g == get_group_id_from_job(j)
    IN  /\ up /\ reply[t].pc = "counted"
        /\ time_to_compute_final_result(j, reply[t].count)
        /\ reply' = [reply EXCEPT
              ![t].group = g,
              ![t].pc = IF groups[g].job_id = j THEN "freeing" ELSE "computing"]
        /\ UNCHANGED <<server, work, net, results, up>>

\* The assignment of update_group_status_to_free.
ReplyFreeGroup(t) ==
    /\ up /\ reply[t].pc = "freeing"
    /\ groups' = [groups EXCEPT ![reply[t].group].group_status = FREE]
    /\ reply' = [reply EXCEPT ![t].pc = "computing"]
    /\ UNCHANGED <<job_id, lines, jobs, clients, args, work, net, results, up>>

update_job_status_to_completed(j) == [jobs EXCEPT ![j].status = COMPLETE]

\* The final result is computed over the file and the job marked complete.
ReplyComplete(t) ==
    LET j == reply[t].job
    IN  /\ up /\ reply[t].pc = "computing"
        /\ jobs' = update_job_status_to_completed(j)
        /\ reply' = [reply EXCEPT ![t].pc = "completed", ![t].result = results[j]]
        /\ UNCHANGED <<job_id, lines, groups, clients, args, work, net, results, up>>

\* The switch of the server has no case for the operation either.
ReplyWildCall(t) ==
    /\ up /\ reply[t].pc = "computing" /\ reply[t].job \in Invalid
    /\ up' = FALSE
    /\ UNCHANGED <<server, work, net, answer>>

update_job_result(j, r) == [jobs EXCEPT ![j].result = r]

\* The second store of update_job_status_to_completed: until then the operator
\* sees a complete job with the result -1.
ReplyResult(t) ==
    /\ up /\ reply[t].pc = "completed"
    /\ jobs' = update_job_result(reply[t].job, reply[t].result)
    /\ reply' = [reply EXCEPT ![t].pc = "done"]
    /\ UNCHANGED <<job_id, lines, groups, clients, args, work, net, results, up>>

-----------------------------------------------------------------------------
Register(c) == RegisterGroups(c) \/ RegisterClient(c)

Handle(h) == \/ HandlerPull(h) \/ HandlerArgs(h) \/ HandlerFile(h)
             \/ HandlerCount(h) \/ HandlerFill(h) \/ HandlerAssign(h)
             \/ HandlerUpdate(h) \/ HandlerSplit(h) \/ HandlerDispatch(h)
             \/ HandlerReturn(h)

SendTo(t) == SendFile(t) \/ SendNothing(t) \/ SendExec(t)

ClientStep(c) == ClientFile(c) \/ ClientExec(c) \/ ClientWildCall(c)

Reply(t) == \/ ReplyAppend(t) \/ ReplyFreeClient(t) \/ ReplyCount(t)
            \/ ReplyNotLast(t) \/ ReplyLast(t) \/ ReplyFreeGroup(t)
            \/ ReplyComplete(t) \/ ReplyWildCall(t) \/ ReplyResult(t)

Next == \/ StartJob
        \/ \E c \in Clients : Register(c) \/ ClientStep(c) \/ ClientCrash(c)
        \/ \E h \in JobIds : Handle(h)
        \/ \E t \in Tasks : SendTo(t) \/ Reply(t)

Spec == Init /\ [][Next]_vars

\* Threads run and clients answer; nobody has to give a command or to connect,
\* but a registration that has begun is finished.
Fairness ==
    /\ \A c \in Clients : WF_vars(RegisterClient(c)) /\ WF_vars(ClientStep(c))
    /\ \A h \in JobIds : WF_vars(Handle(h))
    /\ \A t \in Tasks : WF_vars(SendTo(t)) /\ WF_vars(Reply(t))

FairSpec == Spec /\ Fairness

-----------------------------------------------------------------------------
(* Properties.                                                             *)

TaskPcs  == {"none", "queued", "filed", "sent", "exited"}
ReplyPcs == {"none", "arrived", "appended", "freed", "counted", "freeing",
             "computing", "completed", "done"}

Ops     == 0 .. MaxJobs
Someone == Clients \cup {NoClient}
Parts   == [file : Ops, index : Nat, per : Nat]
Lines   == [from : Someone, part : Parts, op : Ops]
Records == Tasks \X Lines
Messages == [type : {"file", "exec"}, task : Tasks, op : Ops, job : Ops,
             part : Parts]

JobEntries == [group_id : Entries, number_of_clients : Int,
               status : {NOT_STARTED, IN_PROGRESS, COMPLETE},
               result : SUBSET Records]
GroupEntries  == [group_status : {FREE, BUSY}, job_id : Ops,
                  members : SUBSET Clients]
ClientEntries == [present : BOOLEAN, client_status : {FREE, BUSY}, job_id : Ops]
Arguments     == [group_id : Entries, op : Ops, file : Ops]
HandlerFrames == [pc : HandlerPcs, mg_id : Entries, op : Ops, file : Ops,
                  size : Int, arr : Seq(Someone)]
ReplyFrames   == [pc : ReplyPcs, job : Ops, line : Lines, count : Nat,
                  group : Entries, result : SUBSET Records]

\* Every variable has its type.
TypeOK ==
    /\ job_id \in 0 .. MaxJobs
    /\ lines \in [JobIds -> Nat]
    /\ jobs \in [JobIds -> JobEntries]
    /\ groups \in [Entries -> GroupEntries]
    /\ clients \in [Clients -> ClientEntries]
    /\ args \in Arguments
    /\ handler \in [JobIds -> HandlerFrames]
    /\ split \in [JobIds -> [file : Ops, per : Nat]]
    /\ task \in [Tasks -> [pc : TaskPcs, prefix : Ops]]
    /\ sock \in [Clients -> Seq(Messages)]
    /\ disk \in [Clients -> Parts]
    /\ reply \in [Tasks -> ReplyFrames]
    /\ results \in [JobIds -> SUBSET Records]
    /\ alive \in SUBSET Clients
    /\ up \in BOOLEAN

\* A job that a group works on. (One that found no group may send to whatever
\* the wild array names.)
Grouped(j) == jobs[j].group_id # NoGroup

\* The lines of its data set that a part has.
LinesOf(p) == {k \in 1 .. lines[p.file] : (p.index - 1) * p.per < k /\ k <= p.index * p.per}

\* A job is reported complete ("Job %d complete !") only with the answers of
\* all the clients it was given to: one line for each of the first parts of its
\* own data set, each computed with its own operation. They are all the lines of
\* the data set but the remainder of its division by the clients. The result is
\* not that of fewer answers; where it is still -1, a thread is about to store it.
CompleteHasAllResults ==
    \A j \in JobIds : jobs[j].status = COMPLETE /\ Grouped(j) =>
        LET n == jobs[j].number_of_clients
        IN  /\ n >= 1
            /\ Cardinality(results[j]) = n
            /\ {r[2].part : r \in results[j]}
                  = {[file |-> j, index |-> i, per |-> lines[j] \div n] : i \in 1 .. n}
            /\ UNION {LinesOf(r[2].part) : r \in results[j]}
                  = 1 .. lines[j] - (lines[j] % n)
            /\ \A r \in results[j] : r[2].op = j
            /\ \/ jobs[j].result = results[j]
               \/ jobs[j].result = {} /\ \E t \in Tasks : /\ reply[t].job = j
                                                         /\ reply[t].pc = "completed"

\* The answer that completes a job is never missed: when the result file has
\* as many lines as the job has clients, the job is complete or a thread that
\* will still count the lines is on its way.
NoMissedCompletion ==
    \A j \in JobIds :
        jobs[j].status = IN_PROGRESS
        /\ Cardinality(results[j]) = jobs[j].number_of_clients
        /\ jobs[j].number_of_clients > 0
        => \E t \in Tasks : reply[t].job = j
                            /\ reply[t].pc \in {"appended", "freed", "counted",
                                                "freeing", "computing"}

\* The work a client was chosen for: parts sent to it or being sent, and
\* answers of it the server has not recorded. (A job that found no group or no
\* free client sends to garbage descriptors; that is not work of a chosen client.)
Outstanding(c) ==
    {t \in Tasks : /\ handler[t[1]].mg_id # NoGroup /\ handler[t[1]].size > 0
                   /\ \/ task[t].pc \in {"queued", "filed"} /\ Target(t) = c
                      \/ \E i \in DOMAIN sock[c] : sock[c][i].task = t
                      \/ reply[t].pc = "arrived" /\ reply[t].line.from = c}

\* A client that the array shows FREE has nothing to do, and one that is BUSY
\* works on the job the array names and on one part of it.
StatusTellsWork ==
    \A c \in Clients :
        /\ clients[c].client_status = FREE => Outstanding(c) = {}
        /\ \A s, t \in Outstanding(c) : s = t
        /\ \A t \in Outstanding(c) : clients[c].job_id = t[1]

\* The group of a complete job is not left BUSY by it: it can be given to the
\* next command.
GroupReleased ==
    \A g \in Groups : \A j \in JobIds :
        groups[g].job_id = j /\ jobs[j].status = COMPLETE
        => groups[g].group_status = FREE

\* What has been reported stays: a complete job never goes back to another
\* state, and a result that the operator can see does not change, though a second
\* thread may complete the job again and its handler may still be running.
ResultStable ==
    [][\A j \in JobIds : jobs[j].status = COMPLETE =>
          /\ jobs'[j].status = COMPLETE
          /\ jobs[j].result # {} => jobs'[j].result = jobs[j].result]_vars

\* A job that was given to clients of a group and whose data set has a line for
\* each is completed and gets its result, if the name of the data set fits into
\* the handler's buffer, and unless one of its own clients dies or the server
\* does: the death of another job's client does not hold it up.
JobCompletes ==
    \A j \in JobIds :
        (/\ jobs[j].status = IN_PROGRESS /\ Grouped(j) /\ j \notin LongNames
         /\ jobs[j].number_of_clients \in 1 .. lines[j])
        ~> (\/ jobs[j].status = COMPLETE /\ jobs[j].result # {}
            \/ \E c \in Clients \ alive : clients[c].job_id = j
            \/ ~up)

\* The result the operator sees for a complete job was computed on the data set
\* of the command that started it, with the operation of that command ("start
\* job <job_id> <data-set>").
ResultIsOfOwnCommand ==
    \A j \in JobIds : jobs[j].status = COMPLETE =>
        \A r \in jobs[j].result : r[2].part.file = j /\ r[2].op = j

-----------------------------------------------------------------------------
(* What the operator sees is a JobService: a part counts as answered when  *)
(* the line of its own task is in the result file.                         *)

Phase(j) == IF j > job_id THEN "none"
            ELSE CASE jobs[j].status = NOT_STARTED -> "submitted"
                   [] jobs[j].status = IN_PROGRESS -> "running"
                   [] jobs[j].status = COMPLETE    -> "complete"

Service == INSTANCE JobService WITH
    Jobs     <- JobIds,
    MaxParts <- Cardinality(Clients),
    phase    <- [j \in JobIds |-> Phase(j)],
    parts    <- [j \in JobIds |-> IF jobs[j].number_of_clients > 0
                                   THEN jobs[j].number_of_clients ELSE 0],
    answered <- [j \in JobIds |-> {i \in 1 .. jobs[j].number_of_clients :
                                     \E r \in results[j] : r[1] = <<j, i>>}]

\* The detailed system implements the abstract service.
ImplementsJobService == Service!Spec

=============================================================================
