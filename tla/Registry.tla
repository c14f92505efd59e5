------------------------------ MODULE Registry ------------------------------
(***************************************************************************)
(* Who the server believes it serves: the group lists and the array of     *)
(* clients, written by the threads that handle registrations, stamped by   *)
(* those that handle keep-alives, and read and cleared by the timer thread *)
(* when a client was silent for more than two minutes.                     *)
(*                                                                         *)
(* Time is counted in ticks of a minute, CLIENT_KA_INT, and a time stamp   *)
(* is kept as its age. The threads of a connection are started with the    *)
(* message they read; EventLoop models how.                                *)
(***************************************************************************)
EXTENDS Integers, FiniteSets, Sequences

CONSTANTS
    Clients,    \* client processes; each connects once
    Groups,
    Joins,      \* the groups that each client is started with
    FirstFd,    \* the descriptor of the first connection
    Late,       \* ticks that the server may take over a message
    Resets,     \* bound: connections that are reset
    None

Limit == 2      \* a client may be silent for 120 seconds
Sleep == 2      \* CLIENT_KA_INT + 60 seconds
Old   == Limit + 1

Fds     == FirstFd .. FirstFd + Cardinality(Clients) - 1
Threads == 1 .. Cardinality(Clients)
Nodes   == {<<c, k>> : c \in Clients, k \in 1 .. 2}

ASSUME RegistryAssumption ==
    /\ IsFiniteSet(Clients) /\ Clients # {} /\ None \notin Clients \cup Nodes
    /\ Joins \in [Clients -> Seq(Groups)]
    /\ \A c \in Clients : Len(Joins[c]) \in 1 .. 2
    /\ FirstFd \in Nat \ {0} /\ Late \in Nat /\ Resets \in Nat

VARIABLES
    conn,       \* conn[c]: "new", "up", "gone" (the process has ended), "reset" or
                \* "closed" (the server has closed it, at an error or by the timer)
    fd,         \* fd[c]: the descriptor of its connection
    wire,       \* wire[c]: what is there to be read of "register", "alive", "eof"
    age,        \* age[c]: since when
    open,       \* descriptors of the server that are open
    client_count,
    client_thread_id,   \* [i]: None, c as long as the thread registers c, or "other"
    client_socket_fd, groups_joined, timestamp,     \* clients[f]
    head, next,         \* the lists of the groups; a node is <<client, index>>
    reg,        \* reg[c]: the thread that registers c
    timer,      \* the timer thread: where it is, at which client, ticks to sleep
    crashed,    \* pthread_cancel was called with no thread
    raced,      \* groups with a list whose head was written by two at once
    hasty       \* clients the timer took to be silent before their first stamp

client   == <<conn, fd, wire, age>>
server   == <<open, client_count, client_thread_id, crashed>>
table    == <<client_socket_fd, groups_joined, timestamp>>
lists    == <<head, next, raced>>
vars     == <<client, server, table, lists, reg, timer, hasty>>

initialize_client_array ==
    /\ client_socket_fd = [f \in Fds |-> -1]
    /\ groups_joined = [f \in Fds |-> None]
    /\ timestamp = [f \in Fds |-> Old]

initialize_group_array ==
    head = [g \in Groups |-> None] /\ next = [n \in Nodes |-> None]

\* A registration that is not under way.
Idle(at) == [pc |-> at, k |-> 0, temp |-> None, doomed |-> FALSE]

Init ==
    /\ conn = [c \in Clients |-> "new"] /\ fd = [c \in Clients |-> -1]
    /\ wire = [c \in Clients |-> {}] /\ age = [c \in Clients |-> 0]
    /\ open = {} /\ client_count = 0
    /\ client_thread_id = [t \in Threads |-> None]
    /\ initialize_client_array
    /\ initialize_group_array
    /\ reg = [c \in Clients |-> Idle("none")]
    /\ timer = [pc |-> "sleep", i |-> FirstFd, t |-> Sleep]
    /\ crashed = FALSE /\ raced = {} /\ hasty = {}

-----------------------------------------------------------------------------
(* The clients.                                                            *)

Send(c, m) == wire' = [wire EXCEPT ![c] = @ \cup {m}] /\ UNCHANGED age

\* connect and the registration of the client; accept gives its connection the
\* lowest free descriptor.
Connect(c) ==
    /\ conn[c] = "new"
    /\ conn' = [conn EXCEPT ![c] = "up"]
    /\ \E f \in Fds \ open :
          /\ \A e \in Fds \ open : f <= e
          /\ fd' = [fd EXCEPT ![c] = f]
          /\ open' = open \cup {f}
    /\ client_count' = client_count + 1
    /\ Send(c, "register")
    /\ UNCHANGED <<client_thread_id, crashed, table, lists, reg, timer, hasty>>

\* What a client has sent a minute later.
keep_alive_handler(c) ==
    IF conn[c] = "up" THEN {"alive"} ELSE {}

\* The process ends: the server reads the end of the stream.
Exit(c) ==
    /\ conn[c] = "up"
    /\ conn' = [conn EXCEPT ![c] = "gone"]
    /\ Send(c, "eof")
    /\ UNCHANGED <<fd, server, table, lists, reg, timer, hasty>>

\* The connection is reset, because the process ended with data unread or the
\* server has written to a process that ended: add_client_handler sees the error
\* and closes the descriptor.
Reset(c) ==
    /\ conn[c] \in {"up", "gone"}
    /\ Cardinality({d \in Clients : conn[d] = "reset"}) < Resets
    /\ conn' = [conn EXCEPT ![c] = "reset"]
    /\ wire' = [wire EXCEPT ![c] = {}] /\ age' = [age EXCEPT ![c] = 0]
    /\ open' = open \ {fd[c]}
    /\ UNCHANGED <<fd, client_count, client_thread_id, crashed, table, lists,
                   reg, timer, hasty>>

-----------------------------------------------------------------------------
(* The threads of the connections.                                         *)

Stamp(f) == timestamp' = [timestamp EXCEPT ![f] = 0]

\* Mutant: a thread that reads the end of the stream closes the descriptor.
MutAfterRead(c) ==
    IF "eof" \in wire[c]
      THEN conn' = [conn EXCEPT ![c] = "closed"] /\ open' = open \ {fd[c]}
      ELSE UNCHANGED <<conn, open>>

\* The end of the stream is stamped like a message, and the descriptor kept.
AfterRead(c) == UNCHANGED <<conn, open>>

\* A thread, whose number is stored at the count of clients, reads all the
\* messages that are there; the end of the stream may be left to a thread of its
\* own, or come with no event. It handles the registration, or stamps the client.
client_Communication(c) ==
    /\ conn[c] \in {"up", "gone"} /\ wire[c] # {}
    /\ \E left \in SUBSET (wire[c] \cap {"eof"}) :
          /\ left # wire[c]
          /\ wire' = [wire EXCEPT ![c] = left]
    /\ age' = [age EXCEPT ![c] = 0]
    /\ IF "register" \in wire[c]
         THEN /\ reg' = [reg EXCEPT ![c].pc = "look", ![c].k = 1]
              /\ client_thread_id' = [client_thread_id EXCEPT ![client_count] = c]
              /\ UNCHANGED timestamp
         ELSE /\ Stamp(fd[c])
              /\ client_thread_id' = [client_thread_id EXCEPT ![client_count] = "other"]
              /\ UNCHANGED reg
    /\ AfterRead(c)
    /\ UNCHANGED <<fd, client_count, crashed, client_socket_fd,
                   groups_joined, lists, timer, hasty>>

Group(c) == Joins[c][reg[c].k]
Node(c)  == <<c, reg[c].k>>

\* What follows a group: the next one, or add_client.
NextGroup(c) ==
    IF reg[c].k < Len(Joins[c])
      THEN reg' = [reg EXCEPT ![c].pc = "look", ![c].k = @ + 1]
      ELSE reg' = [reg EXCEPT ![c].pc = "claim"]

\* add_a_client_to_groups: the head is read. Before it the thread prints, and is
\* cancelled there if it was to be.
LookAtHead(c) ==
    /\ reg[c].pc = "look"
    /\ IF reg[c].doomed
         THEN reg' = [reg EXCEPT ![c] = Idle("cancelled")]
         ELSE reg' = [reg EXCEPT ![c].pc = "push", ![c].temp = head[Group(c)]]
    /\ UNCHANGED <<head, next, raced, table>>

\* Mutant: the head stays when the list is not empty.
MutSetHead(c) ==
    head' = [head EXCEPT ![Group(c)] = IF reg[c].temp = None THEN Node(c) ELSE @]

SetHead(c) == head' = [head EXCEPT ![Group(c)] = Node(c)]

\* The new node becomes the head; if another was put there since the head was
\* read, it is lost.
PushNode(c) ==
    /\ reg[c].pc = "push"
    /\ SetHead(c)
    /\ raced' = IF head[Group(c)] # reg[c].temp THEN raced \cup {Group(c)} ELSE raced
    /\ IF reg[c].temp = None
         THEN NextGroup(c)
         ELSE reg' = [reg EXCEPT ![c].pc = "link"]
    /\ UNCHANGED <<next, table>>

LinkNode(c) ==
    /\ reg[c].pc = "link"
    /\ next' = [next EXCEPT ![Node(c)] = reg[c].temp]
    /\ NextGroup(c)
    /\ UNCHANGED <<head, raced, table>>

\* add_client, unless the place in the array is taken. The test and the claim are
\* one step: they could only be separated by another thread of the same descriptor.
ClaimPlace(c) ==
    /\ reg[c].pc = "claim"
    /\ IF client_socket_fd[fd[c]] = -1
         THEN /\ client_socket_fd' = [client_socket_fd EXCEPT ![fd[c]] = fd[c]]
              /\ reg' = [reg EXCEPT ![c].pc = "groups"]
         ELSE /\ reg' = [reg EXCEPT ![c] = IF reg[c].doomed THEN Idle("cancelled")
                                           ELSE [@ EXCEPT !.pc = "end"]]
              /\ UNCHANGED client_socket_fd
    /\ UNCHANGED <<lists, groups_joined, timestamp>>

KeepGroups(c) ==
    /\ reg[c].pc = "groups"
    /\ groups_joined' = [groups_joined EXCEPT ![fd[c]] = c]
    /\ reg' = [reg EXCEPT ![c].pc = "stamp"]
    /\ UNCHANGED <<lists, client_socket_fd, timestamp>>

\* add_client stamps the client, or client_Communication alone when its place was
\* taken.
StampClient(c) ==
    /\ reg[c].pc \in {"stamp", "end"}
    /\ Stamp(fd[c])
    /\ reg' = [reg EXCEPT ![c] = Idle("done")]
    /\ client_thread_id' = [t \in Threads |->
                              IF client_thread_id[t] = c THEN "other"
                                                         ELSE client_thread_id[t]]
    /\ UNCHANGED <<lists, client_socket_fd, groups_joined>>

Handle_group_id_regs(c) ==
    /\ \/ /\ \/ LookAtHead(c) \/ PushNode(c) \/ LinkNode(c)
             \/ ClaimPlace(c) \/ KeepGroups(c)
          /\ UNCHANGED client_thread_id
       \/ StampClient(c)
    /\ UNCHANGED <<client, open, client_count, crashed, timer, hasty>>

-----------------------------------------------------------------------------
(* timer_handler                                                           *)

\* Mutants: the array has no end; the loop goes on from where it ended.
MutNextClientPast == timer' = [timer EXCEPT !.pc = "look", !.i = @ + 1]

MutNextClient ==
    timer' = IF timer.i + 1 \in Fds
               THEN [timer EXCEPT !.pc = "look", !.i = @ + 1]
               ELSE [timer EXCEPT !.pc = "sleep", !.t = Sleep]

\* The clients are looked at in the order of their descriptors.
NextClient ==
    timer' = IF timer.i + 1 \in Fds
               THEN [timer EXCEPT !.pc = "look", !.i = @ + 1]
               ELSE [pc |-> "sleep", i |-> FirstFd, t |-> Sleep]

Wake ==
    /\ timer.pc = "sleep" /\ timer.t = 0
    /\ timer' = IF client_count # 0 THEN [timer EXCEPT !.pc = "look"]
                                    ELSE [timer EXCEPT !.t = Sleep]
    /\ UNCHANGED <<client, server, table, lists, reg, hasty>>

\* The clients that the timer looks at too early: add_client has written the
\* descriptor f and not the time stamp.
HastyAt(f) ==
    {c \in Clients : fd[c] = f /\ \E d \in Clients :
                        fd[d] = f /\ reg[d].pc \in {"groups", "stamp"}}

\* Mutant: a client may be silent for a minute only.
MutExpired(f) == client_socket_fd[f] # -1 /\ timestamp[f] > Limit - 1

Expired(f) == client_socket_fd[f] # -1 /\ timestamp[f] > Limit

LookAtClient ==
    /\ timer.pc = "look"
    /\ IF Expired(timer.i)
         THEN /\ timer' = [timer EXCEPT !.pc = "cancel"]
              /\ hasty' = hasty \cup HastyAt(timer.i)
         ELSE NextClient /\ UNCHANGED hasty
    /\ UNCHANGED <<client, server, table, lists, reg>>

Registering(c) == reg[c].pc \notin {"none", "done", "cancelled"}

\* The thread stored at the place of the client is cancelled, whoever's it is. A
\* registration notices at its next cancellation point.
CancelThread ==
    /\ timer.pc = "cancel"
    /\ IF timer.i \in Threads /\ client_thread_id[timer.i] # None
         THEN /\ timer' = [timer EXCEPT !.pc = "remove"]
              /\ reg' = [c \in Clients |->
                           IF client_thread_id[timer.i] = c /\ Registering(c)
                             THEN [reg[c] EXCEPT !.doomed = TRUE] ELSE reg[c]]
              /\ UNCHANGED crashed
         ELSE crashed' = TRUE /\ UNCHANGED <<timer, reg>>
    /\ UNCHANGED <<client, open, client_count, client_thread_id, table, lists, hasty>>

\* remove_client. Its writes are one step: of what it clears, only the descriptor
\* is read by another thread, but for the display.
RemoveClient ==
    /\ timer.pc = "remove"
    /\ client_socket_fd' = [client_socket_fd EXCEPT ![timer.i] = -1]
    /\ groups_joined' = [groups_joined EXCEPT ![timer.i] = None]
    /\ timer' = [timer EXCEPT !.pc = "close"]
    /\ UNCHANGED <<client, server, timestamp, lists, reg, hasty>>

\* What is closed is the descriptor in the array, which was removed from it.
CloseRemoved ==
    /\ timer.pc = "close"
    /\ LET f == client_socket_fd[timer.i]
       IN  /\ open' = open \ {f}
           /\ conn' = [c \in Clients |->
                         IF fd[c] = f /\ conn[c] \in {"up", "gone"}
                           THEN "closed" ELSE conn[c]]
    /\ NextClient
    /\ UNCHANGED <<fd, wire, age, client_count, client_thread_id, crashed, table,
                   lists, reg, hasty>>

timer_handler ==
    \/ Wake \/ LookAtClient \/ CancelThread
    \/ RemoveClient \/ CloseRemoved

-----------------------------------------------------------------------------
\* A tick passes when no message has waited for too long and the threads that were
\* woken have done what they had to.
Tick ==
    /\ timer.pc = "sleep" /\ timer.t > 0
    /\ \A c \in Clients :
          /\ wire[c] # {} => age[c] < Late
          /\ ~Registering(c)
    /\ timer' = [timer EXCEPT !.t = @ - 1]
    /\ wire' = [c \in Clients |-> wire[c] \cup keep_alive_handler(c)]
    /\ age' = [c \in Clients |-> IF wire[c] = {} THEN 0 ELSE age[c] + 1]
    /\ timestamp' = [f \in Fds |-> IF timestamp[f] = Old THEN Old ELSE timestamp[f] + 1]
    /\ UNCHANGED <<conn, fd, server, client_socket_fd, groups_joined, lists, reg, hasty>>

Server ==
    \/ \E c \in Clients : client_Communication(c) \/ Handle_group_id_regs(c)
    \/ timer_handler

\* What happens when the server has crashed is left out.
Next ==
    /\ ~crashed
    /\ \/ \E c \in Clients : Connect(c) \/ Exit(c) \/ Reset(c)
       \/ Server
       \/ Tick

\* The server or time goes on. Between two ticks a thread has finitely many steps,
\* so no thread needs a fairness of its own.
Fairness == WF_vars(~crashed /\ (Server \/ Tick))

Spec == Init /\ [][Next]_vars /\ Fairness

-----------------------------------------------------------------------------
(* Properties.                                                             *)

TypeOK ==
    /\ conn \in [Clients -> {"new", "up", "gone", "reset", "closed"}]
    /\ fd \in [Clients -> Fds \cup {-1}]
    /\ wire \in [Clients -> SUBSET {"register", "alive", "eof"}]
    /\ age \in [Clients -> 0 .. Late]
    /\ open \subseteq Fds /\ client_count \in 0 .. Cardinality(Clients)
    /\ client_thread_id \in [Threads -> Clients \cup {None, "other"}]
    /\ client_socket_fd \in [Fds -> Fds \cup {-1}]
    /\ \A f \in Fds : client_socket_fd[f] \in {-1, f}
    /\ groups_joined \in [Fds -> Clients \cup {None}]
    /\ timestamp \in [Fds -> 0 .. Old]
    /\ head \in [Groups -> Nodes \cup {None}] /\ next \in [Nodes -> Nodes \cup {None}]
    /\ reg \in [Clients -> [pc : {"none", "look", "push", "link", "claim",
                                  "groups", "stamp", "end", "done", "cancelled"},
                            k : 0 .. 2, temp : Nodes \cup {None}, doomed : BOOLEAN]]
    /\ timer \in [pc : {"sleep", "look", "cancel", "remove", "close"},
                  i : Fds, t : 0 .. Sleep]
    /\ crashed \in BOOLEAN /\ raced \subseteq Groups /\ hasty \subseteq Clients

\* The nodes that a walk over the list of g comes to: they are in every set that
\* has the head and, with a node, the next one.
HasList(g, S) ==
    /\ head[g] # None => head[g] \in S
    /\ \A x \in S : next[x] # None => next[x] \in S

Walk(g) == {n \in Nodes : \A S \in SUBSET Nodes : HasList(g, S) => n \in S}

\* find_free_clients_in_a_group passes over nodes whose place is not taken.
Served(g) == {fd[n[1]] : n \in {m \in Walk(g) : client_socket_fd[fd[m[1]]] = fd[m[1]]}}

\* The entry of c is in the array.
InArray(c) == \E f \in Fds : fd[c] = f /\ client_socket_fd[f] = f /\ groups_joined[f] = c

NoReset == \A c \in Clients : conn[c] # "reset"

\* A client that is there is never removed, as long as messages are handled
\* within a minute, unless the timer looked at its place between the write of the
\* descriptor and that of the time stamp in add_client.
NoFalseExpiry ==
    [][\A c \in Clients :
         conn[c] = "up" /\ InArray(c) /\ client_socket_fd'[fd[c]] = -1 => c \in hasty]_vars

\* A registered client stays in the lists of its groups and in the array as long
\* as it is there: a walk misses it only while a node is being linked, or after
\* two registrations at once.
StaysServed ==
    \A c \in Clients :
        NoReset /\ conn[c] = "up" /\ reg[c].pc = "done" /\ c \notin hasty =>
            \A k \in DOMAIN Joins[c] :
                LET group == Joins[c][k]
                IN  \/ group \in raced
                    \/ \E d \in Clients : reg[d].pc = "link" /\ Group(d) = group
                    \/ fd[c] \in Served(group)

\* As long as no connection is reset, a group is served by clients that joined it
\* only, though the nodes of clients that are gone stay in its list for good:
\* neither the timer nor a thread that reads the end of the stream closes their
\* descriptors, so none is given to another client.
OnlyMembers ==
    NoReset =>
        \A g \in Groups : \A c \in Clients :
            fd[c] \in Served(g) => \E k \in DOMAIN Joins[c] : Joins[c][k] = g

\* A client that is there is registered, unless two registered at once, the
\* expiry of another client broke its registration off or crashed the server, the
\* timer was hasty, or the place of a connection that was reset is still taken.
Registered ==
    \A c \in Clients :
        conn[c] = "up" ~>
            \/ conn[c] # "up" \/ crashed \/ ~NoReset
            \/ raced # {} \/ c \in hasty \/ reg[c].pc = "cancelled"
            \/ \A k \in DOMAIN Joins[c] : fd[c] \in Served(Joins[c][k])

\* A client that is gone leaves the array, unless its descriptor was given to
\* another client.
Forgotten ==
    \A c \in Clients :
        conn[c] # "up" /\ InArray(c) ~>
            crashed \/ ~InArray(c) \/ \E d \in Clients \ {c} : fd[d] = fd[c]

=============================================================================
