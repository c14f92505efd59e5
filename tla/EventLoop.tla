----------------------------- MODULE EventLoop ------------------------------
(***************************************************************************)
(* How the server comes to read what its clients send: one thread accepts  *)
(* connections and waits for events, edge-triggered, in an array that the  *)
(* next wait fills anew; for every event it starts a thread that is given  *)
(* a pointer into that array, reads the descriptor there when it comes to  *)
(* run, and reads from it once, sleeping if nothing is there.              *)
(*                                                                         *)
(* What the threads do with the messages is modelled in TlvAssembler,      *)
(* Registry and Dispatch.                                                  *)
(***************************************************************************)
EXTENDS Integers, Sequences, FiniteSets, SequencesExt, Functions

CONSTANTS
    Clients,    \* client processes; each connects once
    Leaving,    \* those whose connection may end or be reset
    MaxSends,   \* bound: messages of all clients together
    MAXEVENTS,
    MaxThreads, \* threads that the system lets the server create
    None

server_sd == 1
Fds       == server_sd + 1 .. server_sd + Cardinality(Clients)

ASSUME EventLoopAssumption ==
    /\ IsFiniteSet(Clients) /\ None \notin Clients /\ Leaving \subseteq Clients
    /\ MaxSends \in Nat /\ MaxThreads \in Nat /\ MAXEVENTS \in Nat \ {0}

VARIABLES
    conn,       \* conn[c]: "new", "waiting" (to be accepted), "open" or "closed"
    fd,         \* fd[c]: the descriptor it was accepted with
    sent, taken,\* messages of c written and read so far
    over,       \* over[c]: "no", "end" of the stream or "reset"
    backlog,    \* connections to be accepted, in order
    ready,      \* the ready list of epoll: clients, None for the listening socket
    new_events, n, i,
    loop,       \* add_client_handler: in epoll_wait, at an "event", in "accept"
    thread,     \* the threads created so far
    missed,     \* clients of whose last event nobody is aware
    astray,     \* a thread took the descriptor of an event that is not its own
    refused,    \* accept failed, and nobody has connected since
    mistaken,   \* clients of whom a message was handled as one of another
    broken      \* a read failed: assemble_tlv is called for 2^32 - 1 bytes

socket  == <<conn, fd, sent, taken, over, backlog>>
batch   == <<new_events, n, i>>
history == <<missed, astray, refused, mistaken>>
vars    == <<socket, ready, batch, loop, thread, history, broken>>

Init ==
    /\ conn = [c \in Clients |-> "new"] /\ fd = [c \in Clients |-> 0]
    /\ sent = [c \in Clients |-> 0] /\ taken = [c \in Clients |-> 0]
    /\ over = [c \in Clients |-> "no"]
    /\ backlog = <<>> /\ ready = <<>>
    /\ new_events = [k \in 1 .. MAXEVENTS |-> [fd |-> 0, err |-> FALSE]]
    /\ n = 0 /\ i = 1
    /\ loop = "wait" /\ thread = <<>>
    /\ missed = {} /\ astray = FALSE /\ refused = FALSE /\ mistaken = {}
    /\ broken = FALSE

Unread(c)   == taken[c] < sent[c]
Readable(c) == Unread(c) \/ over[c] # "no"

\* The client whose connection is open at descriptor f.
Owner(f) == IF \E c \in Clients : conn[c] = "open" /\ fd[c] = f
              THEN CHOOSE c \in Clients : conn[c] = "open" /\ fd[c] = f
              ELSE None

-----------------------------------------------------------------------------
(* The clients, and what epoll notices of them.                            *)

Notice(x) == ready' = IF x \in ToSet(ready) THEN ready ELSE Append(ready, x)

\* An accepted connection is watched.
NoticeOpen(c) ==
    IF conn[c] = "open" THEN Notice(c) /\ missed' = missed \ {c}
                        ELSE UNCHANGED <<ready, missed>>

Connect(c) ==
    /\ conn[c] = "new"
    /\ conn' = [conn EXCEPT ![c] = "waiting"]
    /\ backlog' = Append(backlog, c)
    /\ Notice(None)
    /\ refused' = FALSE
    /\ UNCHANGED <<fd, sent, taken, over, batch, loop, thread, missed, astray,
                   mistaken, broken>>

Send(c) ==
    /\ conn[c] \in {"waiting", "open"} /\ over[c] = "no"
    /\ FoldFunction(+, 0, sent) < MaxSends
    /\ sent' = [sent EXCEPT ![c] = @ + 1]
    /\ NoticeOpen(c)
    /\ UNCHANGED <<conn, fd, taken, over, backlog, batch, loop, thread, astray,
                   refused, mistaken, broken>>

Leave(c) ==
    /\ c \in Leaving
    /\ conn[c] \in {"waiting", "open"} /\ over[c] = "no"
    /\ \E how \in {"end", "reset"} : over' = [over EXCEPT ![c] = how]
    /\ NoticeOpen(c)
    /\ UNCHANGED <<conn, fd, sent, taken, backlog, batch, loop, thread, astray,
                   refused, mistaken, broken>>

-----------------------------------------------------------------------------
(* add_client_handler                                                      *)

HasEvent(x) == IF x = None THEN backlog # <<>> ELSE Readable(x)

Event(x) == IF x = None THEN [fd |-> server_sd, err |-> FALSE]
                        ELSE [fd |-> fd[x], err |-> over[x] = "reset"]

\* Places in the ready list where there is something to report.
Live == {k \in DOMAIN ready : HasEvent(ready[k])}

\* The kernel goes through the list from its front; it leaves what comes after the
\* last event that the array can hold, and drops the entries it has passed. The
\* slots after the n-th keep the events of earlier waits.
epoll_wait ==
    /\ loop = "wait"
    /\ \E m \in 1 .. MAXEVENTS : \E at \in [1 .. m -> Live] :
          /\ \A j, k \in 1 .. m : j < k => at[j] < at[k]
          /\ \A k \in Live : k \in Range(at) \/ (m = MAXEVENTS /\ k > at[m])
          /\ n' = m /\ i' = 1
          /\ new_events' = [k \in 1 .. MAXEVENTS |->
                              IF k <= m THEN Event(ready[at[k]]) ELSE new_events[k]]
          /\ ready' = IF m = MAXEVENTS THEN SubSeq(ready, at[m] + 1, Len(ready))
                                       ELSE <<>>
    /\ loop' = "event"
    /\ UNCHANGED <<socket, thread, history, broken>>

\* Nothing in the list has an event any more: the call drops it and sleeps on.
WaitOn ==
    /\ loop = "wait" /\ ready # <<>> /\ Live = {}
    /\ ready' = <<>>
    /\ UNCHANGED <<socket, batch, loop, thread, history, broken>>

\* Mutants: one event too many is looked at; the last one is left out.
MutMorePast == i <= n
MutMore     == i < n - 1

More == i < n

NextEvent == i' = i + 1 /\ loop' = IF More THEN "event" ELSE "wait"

\* What is closed is no longer watched.
Forget(x) ==
    \/ x \notin ToSet(ready) /\ UNCHANGED ready
    \/ \E k \in DOMAIN ready : ready[k] = x /\ ready' = RemoveAt(ready, k)

\* An event with an error: the connection is closed.
CloseFailed ==
    /\ loop = "event" /\ new_events[i].err
    /\ conn' = [conn EXCEPT ![Owner(new_events[i].fd)] = "closed"]
    /\ Forget(Owner(new_events[i].fd))
    /\ NextEvent
    /\ UNCHANGED <<fd, sent, taken, over, backlog, new_events, n, thread, history,
                   broken>>

BeginAccept ==
    /\ loop = "event" /\ new_events[i].fd = server_sd
    /\ loop' = "accept"
    /\ UNCHANGED <<socket, ready, batch, thread, history, broken>>

\* Mutant: one connection is accepted per event.
MutAfterAccept == NextEvent

AfterAccept == UNCHANGED <<i, loop>>

\* accept gives the lowest free descriptor, and epoll_ctl has the connection
\* watched; if there is something to be read already, that is an event.
Accept ==
    /\ loop = "accept" /\ backlog # <<>>
    /\ LET c == Head(backlog)
       IN  /\ conn' = [conn EXCEPT ![c] = "open"]
           /\ \E f \in Fds :
                 /\ Owner(f) = None /\ \A e \in Fds : Owner(e) = None => f <= e
                 /\ fd' = [fd EXCEPT ![c] = f]
           /\ IF Readable(c) THEN Notice(c) ELSE UNCHANGED ready
    /\ backlog' = Tail(backlog)
    /\ AfterAccept
    /\ UNCHANGED <<sent, taken, over, new_events, n, thread, history, broken>>

\* accept may fail, when the files of jobs have used up the descriptors.
AcceptFails ==
    /\ loop = "accept" /\ backlog # <<>>
    /\ refused' = TRUE
    /\ NextEvent
    /\ UNCHANGED <<socket, ready, new_events, n, thread, missed, astray, mistaken,
                   broken>>

\* pthread_create gives the thread a pointer to the slot. If there is no thread,
\* its result is an error number, not a negative one: nobody notices.
Create(c) ==
    IF Len(thread) < MaxThreads
      THEN /\ thread' = Append(thread, [pc |-> "new", slot |-> i, own |-> c,
                                        sd |-> 0, of |-> None])
           /\ UNCHANGED missed
      ELSE missed' = missed \cup {c} /\ UNCHANGED thread

\* Mutant: no "else": a thread is created for the listening socket, too.
MutAcceptEnds ==
    /\ loop = "accept" /\ backlog = <<>>
    /\ Create(None)
    /\ NextEvent
    /\ UNCHANGED <<socket, ready, new_events, n, astray, refused, mistaken, broken>>

\* EAGAIN: all connections are accepted.
AcceptEnds ==
    /\ loop = "accept" /\ backlog = <<>>
    /\ NextEvent
    /\ UNCHANGED <<socket, ready, new_events, n, thread, history, broken>>

\* An event of a connection.
StartThread ==
    /\ loop = "event" /\ ~new_events[i].err /\ new_events[i].fd # server_sd
    /\ Create(Owner(new_events[i].fd))
    /\ NextEvent
    /\ UNCHANGED <<socket, ready, new_events, n, astray, refused, mistaken, broken>>

add_client_handler ==
    \/ epoll_wait \/ WaitOn \/ CloseFailed \/ StartThread
    \/ BeginAccept \/ Accept \/ AcceptFails \/ AcceptEnds

-----------------------------------------------------------------------------
(* client_Communication, in thread t                                       *)

Done == [pc |-> "done", slot |-> 1, own |-> None, sd |-> 0, of |-> None]

ReadSlot(t) ==
    /\ thread[t].pc = "new"
    /\ LET f   == new_events[thread[t].slot].fd
           c   == thread[t].own
           own == c # None /\ f = fd[c]
       IN  /\ thread' = [thread EXCEPT ![t].pc = "read", ![t].sd = f]
           /\ missed' = IF own THEN missed ELSE missed \cup ({c} \ {None})
           /\ astray' = (astray \/ (c # None /\ ~own))
    /\ UNCHANGED <<socket, ready, batch, loop, refused, mistaken, broken>>

\* The connection that a read is about: that of the descriptor, or the one that
\* the thread is asleep at.
Target(t) == IF thread[t].pc = "blocked" THEN thread[t].of ELSE Owner(thread[t].sd)

HasData(t) == Target(t) # None /\ Unread(Target(t)) /\ conn[Target(t)] = "open"

ReadData(t) ==
    /\ HasData(t)
    /\ taken' = [taken EXCEPT ![Target(t)] = sent[Target(t)]]
    /\ thread' = [thread EXCEPT ![t].pc = "handle", ![t].of = Target(t)]
    /\ UNCHANGED broken

ReadEnd(t) ==
    /\ Target(t) # None /\ ~Unread(Target(t)) /\ over[Target(t)] = "end"
    /\ thread' = [thread EXCEPT ![t] = Done]
    /\ UNCHANGED <<taken, broken>>

\* Nothing to read: the socket blocks.
ReadSleeps(t) ==
    /\ thread[t].pc = "read" /\ Target(t) # None /\ ~Readable(Target(t))
    /\ thread' = [thread EXCEPT ![t].pc = "blocked", ![t].of = Target(t)]
    /\ UNCHANGED <<taken, broken>>

\* No connection at the descriptor, or one that was reset.
Failing(t) ==
    Target(t) # None =>
        /\ over[Target(t)] = "reset"
        /\ Unread(Target(t)) => conn[Target(t)] = "closed"

\* -1 is taken for a size.
ReadFails(t) ==
    /\ Failing(t)
    /\ broken' = TRUE
    /\ UNCHANGED <<taken, thread>>

\* What is compared with -1 is not what read returned but read_size, which nobody
\* sets: where it happens to be -1, a failure is noticed, and what was read is lost.
PassOver(t) ==
    /\ \/ HasData(t) /\ taken' = [taken EXCEPT ![Target(t)] = sent[Target(t)]]
       \/ Failing(t) /\ UNCHANGED taken
    /\ thread' = [thread EXCEPT ![t] = Done]
    /\ UNCHANGED broken

Read(t) ==
    /\ thread[t].pc \in {"read", "blocked"}
    /\ ReadData(t) \/ ReadEnd(t) \/ ReadSleeps(t) \/ ReadFails(t) \/ PassOver(t)
    /\ UNCHANGED <<conn, fd, sent, over, backlog, ready, batch, loop, history>>

\* Mutant: the descriptor is not copied.
MutHandledFor(t) == new_events[thread[t].slot].fd

HandledFor(t) == thread[t].sd

\* assemble_tlv handles the messages as those of the descriptor.
Handle(t) ==
    /\ thread[t].pc = "handle"
    /\ mistaken' = IF Owner(HandledFor(t)) = thread[t].of THEN mistaken
                                                          ELSE mistaken \cup {thread[t].of}
    /\ thread' = [thread EXCEPT ![t] = Done]
    /\ UNCHANGED <<socket, ready, batch, loop, missed, astray, refused, broken>>

client_Communication(t) == ReadSlot(t) \/ Read(t) \/ Handle(t)

-----------------------------------------------------------------------------
Server ==
    add_client_handler \/ \E t \in DOMAIN thread : client_Communication(t)

\* What happens after a failed read is left out: it is not defined.
Next ==
    /\ ~broken
    /\ (\E c \in Clients : Connect(c) \/ Send(c) \/ Leave(c)) \/ Server

\* The server goes on. Every client causes finitely many of its steps, so no thread
\* needs a fairness of its own.
Fairness == WF_vars(~broken /\ Server)

Spec == Init /\ [][Next]_vars /\ Fairness

-----------------------------------------------------------------------------
(* Properties.                                                             *)

TypeOK ==
    /\ conn \in [Clients -> {"new", "waiting", "open", "closed"}]
    /\ fd \in [Clients -> Fds \cup {0}]
    /\ sent \in [Clients -> Nat] /\ taken \in [Clients -> Nat]
    /\ \A c \in Clients : taken[c] <= sent[c]
    /\ over \in [Clients -> {"no", "end", "reset"}]
    /\ backlog \in Seq(Clients) /\ ready \in Seq(Clients \cup {None})
    /\ new_events \in [1 .. MAXEVENTS -> [fd : 0 .. server_sd + Cardinality(Clients),
                                          err : BOOLEAN]]
    /\ n \in 0 .. MAXEVENTS /\ i \in 1 .. n + 1
    /\ loop \in {"wait", "event", "accept"} /\ loop # "wait" => i <= n
    /\ thread \in Seq([pc : {"new", "read", "blocked", "handle", "done"},
                       slot : 1 .. MAXEVENTS, own : Clients \cup {None},
                       sd : 0 .. server_sd + Cardinality(Clients),
                       of : Clients \cup {None}])
    /\ missed \subseteq Clients /\ astray \in BOOLEAN /\ refused \in BOOLEAN
    /\ mistaken \subseteq Clients /\ broken \in BOOLEAN

\* Somebody is going to read what c has sent: its event is in the ready list or in
\* the array, or a thread of its own is on the way.
Awaited(c) ==
    \/ c \in ToSet(ready)
    \/ loop # "wait" /\ \E k \in i .. n : new_events[k].fd = fd[c]
    \/ \E t \in DOMAIN thread :
          \/ thread[t].own = c /\ thread[t].pc = "new"
          \/ thread[t].sd = fd[c] /\ thread[t].pc = "read"
          \/ thread[t].of = c /\ thread[t].pc = "blocked"

\* An edge comes once: no message is left unread with nobody on the way, but for
\* those of whose last event nobody is aware, because the thread came to its slot
\* after the next wait had filled it, or because there was no thread. The next
\* message of the client makes up for it.
NothingForgotten ==
    \A c \in Clients :
        conn[c] = "open" /\ Unread(c) /\ c \notin missed => Awaited(c)

\* A message is handled as one of the client that sent it, unless its connection
\* was reset, closed and its descriptor given away before.
Attributed == \A c \in mistaken : conn[c] = "closed"

\* No read fails, unless a client resets its connection or a thread went astray:
\* to the listening socket, or to a connection that is closed.
NoFailedRead ==
    broken => astray \/ \E c \in Clients : over[c] = "reset"

\* What a client sends is read at last, if only to be passed over.
DataRead ==
    \A c \in Clients :
        conn[c] = "open" /\ Unread(c) ~>
            conn[c] # "open" \/ ~Unread(c) \/ c \in missed \/ broken

\* A connection is accepted at last, unless accept failed: then it waits for the
\* next client to connect.
BacklogAccepted ==
    \A c \in Clients :
        conn[c] = "waiting" ~> conn[c] # "waiting" \/ refused \/ broken

=============================================================================
