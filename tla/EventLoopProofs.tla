-------------------------- MODULE EventLoopProofs ---------------------------
(***************************************************************************)
(* Proofs about EventLoop, for any clients, any size of the array of       *)
(* events and any number of threads. A thread that has read from a         *)
(* connection handles what it read under the number of its descriptor;     *)
(* what makes this right is that open connections have different           *)
(* descriptors, and that a descriptor is given away only when its          *)
(* connection is closed. That nothing is forgotten rests on what the loop  *)
(* watches: the ready list and the events it has not come to name open     *)
(* connections, each at most once.                                         *)
(***************************************************************************)
EXTENDS EventLoop, SequenceTheorems, FiniteSetTheorems, TLAPS

USE EventLoopAssumption DEF socket, batch, history

Pcs == {"new", "read", "blocked", "handle", "done"}

\* The frames of threads that hold descriptors of the set S. What the array of
\* events holds need not be known.
Frames(S) ==
    [pc : Pcs, slot : Int, own : Clients \cup {None}, sd : S, of : Clients \cup {None}]

TypeInv ==
    /\ conn \in [Clients -> {"new", "waiting", "open", "closed"}]
    /\ fd \in [Clients -> Fds \cup {0}]
    /\ i \in Int
    /\ backlog \in Seq(Clients)
    /\ mistaken \subseteq Clients
    /\ \E S : thread \in Seq(Frames(S))

\* A connection is in the backlog once, and only until it is accepted.
BacklogInv ==
    /\ \A k \in DOMAIN backlog : conn[backlog[k]] = "waiting"
    /\ \A k, l \in DOMAIN backlog : backlog[k] = backlog[l] => k = l

FdsUnique ==
    \A c, d \in Clients :
        conn[c] = "open" /\ conn[d] = "open" /\ fd[c] = fd[d] => c = d

\* What thread t has read, or sleeps at, came from the connection of its descriptor.
FrameOwned(t) ==
    thread[t].pc \in {"blocked", "handle"} =>
        /\ thread[t].of \in Clients /\ fd[thread[t].of] = thread[t].sd
        /\ conn[thread[t].of] \in {"open", "closed"}

FramesOwned == \A t \in DOMAIN thread : FrameOwned(t)

LoopInv == TypeInv /\ BacklogInv /\ FdsUnique /\ FramesOwned /\ Attributed

-----------------------------------------------------------------------------
(* The owner of a descriptor.                                              *)

LEMMA OwnerOpen ==
    ASSUME NEW f, Owner(f) # None
    PROVE  Owner(f) \in Clients /\ conn[Owner(f)] = "open" /\ fd[Owner(f)] = f
BY DEF Owner

LEMMA OwnerOfOpen ==
    ASSUME FdsUnique, NEW c \in Clients, conn[c] = "open"
    PROVE  Owner(fd[c]) = c
BY DEF Owner, FdsUnique

LEMMA OwnerNone ==
    ASSUME NEW f, Owner(f) = None, NEW c \in Clients, conn[c] = "open"
    PROVE  fd[c] # f
BY DEF Owner

-----------------------------------------------------------------------------
(* Sequences of frames.                                                    *)

\* A frame of descriptors in S is one of descriptors in any larger set.
LEMMA FramesGrow ==
    ASSUME NEW S, NEW T, S \subseteq T, NEW s \in Seq(Frames(S))
    PROVE  s \in Seq(Frames(T))
<1>1. Frames(S) \subseteq Frames(T)
  BY DEF Frames
<1> QED
  BY <1>1

-----------------------------------------------------------------------------
LEMMA InitLoop == Init => LoopInv
<1> SUFFICES ASSUME Init PROVE LoopInv
  OBVIOUS
<1>1. thread \in Seq(Frames({})) /\ DOMAIN thread = {}
  BY DEF Init
<1> QED
  BY <1>1 DEF Init, LoopInv, TypeInv, BacklogInv, FdsUnique, FramesOwned, Attributed

-----------------------------------------------------------------------------
(* Steps that leave connections, the backlog and the threads as they are.  *)

LEMMA QuietStep ==
    ASSUME LoopInv, UNCHANGED <<conn, fd, backlog, thread, mistaken>>, i' \in Int
    PROVE  LoopInv'
BY DEF LoopInv, TypeInv, BacklogInv, FdsUnique, FramesOwned, FrameOwned, Attributed

LEMMA IndexStep == ASSUME LoopInv, NextEvent PROVE i' \in Int
BY DEF LoopInv, TypeInv, NextEvent

-----------------------------------------------------------------------------
(* Connections.                                                            *)

LEMMA ConnectStep == ASSUME LoopInv, NEW c \in Clients, Connect(c) PROVE LoopInv'
<1> USE DEF Connect, LoopInv, TypeInv
<1>1. TypeInv'
  BY AppendProperties
<1>2. BacklogInv'
  <2>1. ASSUME NEW k \in DOMAIN backlog' PROVE conn'[backlog'[k]] = "waiting"
    BY AppendProperties, <2>1 DEF BacklogInv
  <2>2. ASSUME NEW k \in DOMAIN backlog', NEW l \in DOMAIN backlog',
               backlog'[k] = backlog'[l]
        PROVE  k = l
    BY AppendProperties, <2>2 DEF BacklogInv
  <2> QED
    BY <2>1, <2>2 DEF BacklogInv
<1>3. FdsUnique'
  BY DEF FdsUnique
<1>4. FramesOwned'
  BY DEF FramesOwned, FrameOwned
<1>5. Attributed'
  BY DEF Attributed
<1> QED
  BY <1>1, <1>2, <1>3, <1>4, <1>5 DEF LoopInv

\* The connection that is accepted was not open before, and no open one has the
\* descriptor it gets.
LEMMA AcceptStep == ASSUME LoopInv, Accept PROVE LoopInv'
<1> USE DEF Accept, AfterAccept
<1> DEFINE c == Head(backlog)
<1>1. /\ backlog \in Seq(Clients) /\ backlog # <<>>
      /\ c \in Clients /\ c = backlog[1] /\ conn[c] = "waiting"
  BY HeadTailProperties DEF LoopInv, TypeInv, BacklogInv
<1>2. PICK f \in Fds : Owner(f) = None /\ fd' = [fd EXCEPT ![c] = f]
  OBVIOUS
<1>3. conn' = [conn EXCEPT ![c] = "open"]
  OBVIOUS
<1> HIDE DEF c
<1>4. TypeInv'
  BY <1>1, <1>2, <1>3, HeadTailProperties DEF LoopInv, TypeInv
<1>5. BacklogInv'
  <2>1. ASSUME NEW k \in DOMAIN backlog'
        PROVE  k + 1 \in DOMAIN backlog /\ k \in Nat /\ k # 0 /\ backlog'[k] = backlog[k + 1]
    BY <1>1, <2>1, HeadTailProperties
  <2>2. ASSUME NEW k \in DOMAIN backlog' PROVE conn'[backlog'[k]] = "waiting"
    <3>1. backlog[k + 1] # c
      BY <1>1, <2>1 DEF LoopInv, BacklogInv
    <3> QED
      BY <1>1, <1>3, <2>1, <3>1 DEF LoopInv, BacklogInv, TypeInv
  <2>3. ASSUME NEW k \in DOMAIN backlog', NEW l \in DOMAIN backlog',
               backlog'[k] = backlog'[l]
        PROVE  k = l
    <3>1. k + 1 = l + 1
      BY <2>1, <2>3 DEF LoopInv, BacklogInv
    <3> QED
      BY <2>1, <3>1
  <2> QED
    BY <2>2, <2>3 DEF BacklogInv
<1>6. FdsUnique'
  <2> SUFFICES ASSUME NEW a \in Clients, NEW b \in Clients,
                      conn'[a] = "open", conn'[b] = "open", fd'[a] = fd'[b]
               PROVE  a = b
    BY DEF FdsUnique
  <2>1. \A d \in Clients \ {c} : conn'[d] = conn[d] /\ fd'[d] = fd[d]
    BY <1>1, <1>2, <1>3 DEF LoopInv, TypeInv
  <2>2. fd'[c] = f
    BY <1>1, <1>2 DEF LoopInv, TypeInv
  <2>3. \A d \in Clients \ {c} : conn[d] = "open" => fd[d] # f
    BY <1>2, OwnerNone
  <2> QED
    BY <1>1, <2>1, <2>2, <2>3 DEF LoopInv, FdsUnique
<1>7. FramesOwned'
  <2> SUFFICES ASSUME NEW t \in DOMAIN thread, FrameOwned(t) PROVE FrameOwned(t)'
    BY DEF LoopInv, FramesOwned
  <2> QED
    BY <1>1, <1>2, <1>3 DEF FrameOwned, LoopInv, TypeInv
<1>8. Attributed'
  BY <1>1, <1>3 DEF LoopInv, TypeInv, Attributed
<1> QED
  BY <1>4, <1>5, <1>6, <1>7, <1>8 DEF LoopInv

LEMMA CloseStep == ASSUME LoopInv, CloseFailed PROVE LoopInv'
<1> USE DEF CloseFailed
<1> DEFINE x == Owner(new_events[i].fd)
<1>1. /\ conn' = [conn EXCEPT ![x] = "closed"]
      /\ x # None => x \in Clients /\ conn[x] = "open"
  BY OwnerOpen
<1> HIDE DEF x
<1>2. \A d \in Clients : conn'[d] = conn[d] \/ (conn[d] = "open" /\ conn'[d] = "closed")
  BY <1>1 DEF LoopInv, TypeInv
<1>3. TypeInv'
  BY <1>1, IndexStep DEF LoopInv, TypeInv
<1>4. BacklogInv'
  BY <1>2 DEF LoopInv, TypeInv, BacklogInv
<1>5. FdsUnique'
  BY <1>2 DEF LoopInv, FdsUnique
<1>6. FramesOwned'
  BY <1>2 DEF LoopInv, FramesOwned, FrameOwned
<1>7. Attributed'
  BY <1>2 DEF LoopInv, TypeInv, Attributed
<1> QED
  BY <1>3, <1>4, <1>5, <1>6, <1>7 DEF LoopInv

-----------------------------------------------------------------------------
(* Threads.                                                                *)

\* A thread is created.
LEMMA CreateStep ==
    ASSUME LoopInv, NEW c \in Clients \cup {None}, Create(c), NextEvent,
           UNCHANGED <<conn, fd, backlog, mistaken>>
    PROVE  LoopInv'
<1> DEFINE new == [pc |-> "new", slot |-> i, own |-> c, sd |-> 0, of |-> None]
<1>1. CASE thread' = Append(thread, new)
  <2>1. PICK S : thread \in Seq(Frames(S))
    BY DEF LoopInv, TypeInv
  <2>2. new \in Frames(S \cup {0})
    BY DEF Frames, Pcs, LoopInv, TypeInv
  <2>3. thread \in Seq(Frames(S \cup {0}))
    BY <2>1, FramesGrow
  <2>4. thread' \in Seq(Frames(S \cup {0}))
    BY <1>1, <2>2, <2>3
  <2>5. TypeInv'
    BY <2>4, IndexStep DEF LoopInv, TypeInv
  <2>6. FramesOwned'
    <3> SUFFICES ASSUME NEW t \in DOMAIN thread' PROVE FrameOwned(t)'
      BY DEF FramesOwned
    <3>1. thread'[t] = new \/ (t \in DOMAIN thread /\ thread'[t] = thread[t])
      BY <1>1, <2>3
    <3> QED
      BY <3>1 DEF LoopInv, FramesOwned, FrameOwned
  <2> QED
    BY <2>5, <2>6 DEF LoopInv, TypeInv, BacklogInv, FdsUnique, Attributed
<1>2. CASE UNCHANGED thread
  BY <1>2, IndexStep, QuietStep
<1> QED
  BY <1>1, <1>2 DEF Create

\* Thread t goes on in the frame r.
LEMMA FrameStep ==
    ASSUME LoopInv, NEW t \in DOMAIN thread, NEW r, \E S : r \in Frames(S),
           thread' = [thread EXCEPT ![t] = r],
           r.pc \in {"blocked", "handle"} =>
              /\ r.of \in Clients /\ fd[r.of] = r.sd /\ conn[r.of] \in {"open", "closed"},
           \A c \in mistaken' : c \in Clients /\ conn[c] = "closed",
           UNCHANGED <<conn, fd, backlog, i>>
    PROVE  LoopInv'
<1>1. PICK T : thread \in Seq(Frames(T))
  BY DEF LoopInv, TypeInv
<1> PICK S : r \in Frames(S)
  OBVIOUS
<1>2. r \in Frames(S \cup T) /\ thread \in Seq(Frames(S \cup T))
  BY <1>1, FramesGrow DEF Frames
<1>3. thread' \in Seq(Frames(S \cup T))
  BY <1>2
<1>4. TypeInv'
  BY <1>3 DEF LoopInv, TypeInv
<1>5. FramesOwned'
  <2> SUFFICES ASSUME NEW u \in DOMAIN thread' PROVE FrameOwned(u)'
    BY DEF FramesOwned
  <2>1. u \in DOMAIN thread /\ thread'[u] = IF u = t THEN r ELSE thread[u]
    BY <1>2
  <2> QED
    BY <2>1 DEF LoopInv, FramesOwned, FrameOwned
<1>6. Attributed'
  BY DEF LoopInv, Attributed
<1> QED
  BY <1>4, <1>5, <1>6 DEF LoopInv, TypeInv, BacklogInv, FdsUnique

LEMMA FrameOf ==
    ASSUME LoopInv, NEW t \in DOMAIN thread
    PROVE  \E S : /\ thread \in Seq(Frames(S)) /\ thread[t] \in Frames(S)
BY DEF LoopInv, TypeInv

LEMMA MistakenClosed ==
    ASSUME LoopInv PROVE \A c \in mistaken : c \in Clients /\ conn[c] = "closed"
BY DEF LoopInv, TypeInv, Attributed

LEMMA ReadSlotStep ==
    ASSUME LoopInv, NEW t \in DOMAIN thread, ReadSlot(t) PROVE LoopInv'
<1> DEFINE f == new_events[thread[t].slot].fd
           r == [thread[t] EXCEPT !.pc = "read", !.sd = f]
<1>1. PICK S : thread \in Seq(Frames(S)) /\ thread[t] \in Frames(S)
  BY FrameOf
<1>2. r \in Frames(S \cup {f}) /\ r.pc = "read"
  BY <1>1 DEF Frames, Pcs
<1>3. thread' = [thread EXCEPT ![t] = r]
  BY <1>1 DEF ReadSlot
<1>4. UNCHANGED <<conn, fd, backlog, i, mistaken>>
  BY DEF ReadSlot
<1> HIDE DEF f, r
<1> QED
  BY <1>2, <1>3, <1>4, FrameStep, MistakenClosed

\* The target of a thread that sleeps, or is to read, is the connection of its
\* descriptor.
LEMMA TargetOwned ==
    ASSUME LoopInv, NEW t \in DOMAIN thread, thread[t].pc \in {"read", "blocked"},
           Target(t) # None
    PROVE  /\ Target(t) \in Clients /\ fd[Target(t)] = thread[t].sd
           /\ conn[Target(t)] \in {"open", "closed"}
BY OwnerOpen DEF Target, LoopInv, FramesOwned, FrameOwned

LEMMA ReadStep == ASSUME LoopInv, NEW t \in DOMAIN thread, Read(t) PROVE LoopInv'
<1>1. PICK S : thread \in Seq(Frames(S)) /\ thread[t] \in Frames(S)
  BY FrameOf
<1>2. /\ UNCHANGED <<conn, fd, backlog, i>> /\ mistaken' = mistaken
      /\ thread[t].pc \in {"read", "blocked"}
  BY DEF Read
<1>3. ASSUME NEW at \in {"handle", "blocked"}, Target(t) # None,
             thread' = [thread EXCEPT ![t].pc = at, ![t].of = Target(t)]
      PROVE  LoopInv'
  <2> DEFINE r == [thread[t] EXCEPT !.pc = at, !.of = Target(t)]
  <2>1. thread' = [thread EXCEPT ![t] = r]
    BY <1>1, <1>3
  <2>2. r \in Frames(S) /\ r.of = Target(t) /\ r.sd = thread[t].sd
    BY <1>1, <1>2, <1>3, TargetOwned DEF Frames, Pcs
  <2> HIDE DEF r
  <2> QED
    <3>1. /\ r.of \in Clients /\ fd[r.of] = r.sd /\ conn[r.of] \in {"open", "closed"}
      BY <1>2, <1>3, <2>2, TargetOwned
    <3> QED
      BY <1>2, <2>1, <2>2, <3>1, FrameStep, MistakenClosed
<1>4. CASE ReadData(t)
  BY <1>3, <1>4 DEF ReadData, HasData
<1>5. CASE ReadSleeps(t)
  BY <1>3, <1>5 DEF ReadSleeps
<1>6. CASE ReadEnd(t)
  <2>1. Done \in Frames({0}) /\ Done.pc = "done"
    BY DEF Done, Frames, Pcs
  <2> QED
    BY <1>2, <1>6, <2>1, FrameStep, MistakenClosed DEF ReadEnd
<1>7. CASE ReadFails(t)
  BY <1>2, <1>7, QuietStep DEF ReadFails, LoopInv, TypeInv
<1>8. CASE PassOver(t)
  <2>1. Done \in Frames({0}) /\ Done.pc = "done"
    BY DEF Done, Frames, Pcs
  <2> QED
    BY <1>2, <1>8, <2>1, FrameStep, MistakenClosed DEF PassOver
<1> QED
  BY <1>4, <1>5, <1>6, <1>7, <1>8 DEF Read

\* What is handled under a number that is not its owner's came from a connection
\* that is closed: an open one is the owner of its descriptor.
LEMMA HandleStep == ASSUME LoopInv, NEW t \in DOMAIN thread, Handle(t) PROVE LoopInv'
<1> DEFINE c == thread[t].of
<1>1. c \in Clients /\ fd[c] = thread[t].sd /\ conn[c] \in {"open", "closed"}
  BY DEF Handle, LoopInv, FramesOwned, FrameOwned
<1>2. Done \in Frames({0}) /\ Done.pc = "done"
  BY DEF Done, Frames, Pcs
<1>3. Owner(thread[t].sd) # c => conn[c] = "closed"
  BY <1>1, OwnerOfOpen DEF LoopInv
<1>4. \A d \in mistaken' : d \in Clients /\ conn[d] = "closed"
  BY <1>1, <1>3, MistakenClosed DEF Handle, HandledFor
<1>5. thread' = [thread EXCEPT ![t] = Done] /\ UNCHANGED <<conn, fd, backlog, i>>
  BY DEF Handle
<1> QED
  BY <1>2, <1>4, <1>5, FrameStep

-----------------------------------------------------------------------------
LEMMA NextLoop == LoopInv /\ [Next]_vars => LoopInv'
<1> SUFFICES ASSUME LoopInv, [Next]_vars PROVE LoopInv'
  OBVIOUS
<1>1. CASE UNCHANGED vars
  BY <1>1, QuietStep DEF vars, LoopInv, TypeInv
<1>2. ASSUME NEW c \in Clients, Connect(c) \/ Send(c) \/ Leave(c) PROVE LoopInv'
  <2>1. CASE Send(c) \/ Leave(c)
    BY <2>1, QuietStep DEF Send, Leave, NoticeOpen, LoopInv, TypeInv
  <2> QED
    BY <1>2, <2>1, ConnectStep
<1>3. CASE add_client_handler
  <2>1. CASE epoll_wait \/ WaitOn
    BY <2>1, QuietStep DEF epoll_wait, WaitOn, LoopInv, TypeInv
  <2>2. CASE BeginAccept
    BY <2>2, QuietStep DEF BeginAccept, LoopInv, TypeInv
  <2>3. CASE AcceptFails
    BY <2>3, QuietStep, IndexStep DEF AcceptFails
  <2>4. CASE AcceptEnds
    BY <2>4, QuietStep, IndexStep DEF AcceptEnds
  <2>5. CASE StartThread
    <3>1. Owner(new_events[i].fd) \in Clients \cup {None}
      BY OwnerOpen
    <3> QED
      BY <2>5, <3>1, CreateStep DEF StartThread
  <2> QED
    BY <1>3, <2>1, <2>2, <2>3, <2>4, <2>5, CloseStep, AcceptStep DEF add_client_handler
<1>4. ASSUME NEW t \in DOMAIN thread, client_Communication(t) PROVE LoopInv'
  BY <1>4, ReadSlotStep, ReadStep, HandleStep DEF client_Communication
<1> QED
  BY <1>1, <1>2, <1>3, <1>4 DEF Next, Server

\* What a thread has read is handled as a message of the client that sent it,
\* unless its connection has been closed meanwhile (client_Communication).
THEOREM AttributedCorrect == Spec => []Attributed
<1>1. LoopInv => Attributed
  BY DEF LoopInv
<1> QED
  BY <1>1, InitLoop, NextLoop, PTL DEF Spec

-----------------------------------------------------------------------------
(* What the loop watches.                                                  *)

OpenFds == \A c \in Clients : conn[c] = "open" => fd[c] \in Fds

\* There is an open connection at descriptor f.
Held(f) == \E c \in Clients : conn[c] = "open" /\ fd[c] = f

Distinct(s) == \A j, k \in DOMAIN s : s[j] = s[k] => j = k

\* The ready list has every open connection at most once, and no other.
ReadyOpen ==
    /\ \A c \in Clients : c \in ToSet(ready) => conn[c] = "open"
    /\ Distinct(ready)

\* The events that the loop has not come to are of different descriptors, each the
\* listening socket or that of an open connection.
BatchOpen ==
    loop # "wait" =>
        /\ \A k \in i .. n : new_events[k].fd = server_sd \/ Held(new_events[k].fd)
        /\ \A j, k \in i .. n : new_events[j].fd = new_events[k].fd => j = k

AtSocket == loop = "accept" => new_events[i].fd = server_sd

\* No reset, and no thread astray: nothing is closed, and who is to read from a
\* descriptor finds a connection there.
CalmInv ==
    ~astray /\ (\A c \in Clients : over[c] # "reset") =>
        /\ ~broken
        /\ \A c \in Clients : conn[c] # "closed"
        /\ \A k \in 1 .. MAXEVENTS : ~new_events[k].err
        /\ \A t \in DOMAIN thread :
              /\ thread[t].pc = "new" =>
                    thread[t].own \in Clients /\ conn[thread[t].own] = "open"
              /\ thread[t].pc = "read" => Held(thread[t].sd)

WatchInv == OpenFds /\ ReadyOpen /\ BatchOpen /\ AtSocket

-----------------------------------------------------------------------------
(* Types.                                                                  *)

AnyFd == 0 .. server_sd + Cardinality(Clients)

LEMMA FdTypes ==
    Cardinality(Clients) \in Nat /\ Fds \cup {0} \subseteq AnyFd /\ server_sd \in AnyFd
    /\ server_sd \notin Fds /\ 0 \notin Fds
BY FS_CardinalityType DEF AnyFd, Fds, server_sd

\* The types that no other part of the invariant mentions.
SentTypes ==
    /\ sent \in [Clients -> Nat] /\ taken \in [Clients -> Nat]
    /\ \A c \in Clients : taken[c] <= sent[c]

BatchTypes ==
    /\ new_events \in [1 .. MAXEVENTS -> [fd : AnyFd, err : BOOLEAN]]
    /\ n \in 0 .. MAXEVENTS /\ i \in 1 .. n + 1
    /\ loop \in {"wait", "event", "accept"} /\ (loop # "wait" => i <= n)

OtherTypes ==
    /\ over \in [Clients -> {"no", "end", "reset"}]
    /\ ready \in Seq(Clients \cup {None})
    /\ missed \subseteq Clients /\ astray \in BOOLEAN /\ refused \in BOOLEAN
    /\ broken \in BOOLEAN

EventTypes == SentTypes /\ BatchTypes /\ OtherTypes

Frame == [pc : Pcs, slot : 1 .. MAXEVENTS, own : Clients \cup {None},
          sd : AnyFd, of : Clients \cup {None}]

ThreadTypes == thread \in Seq(Frame)

LEMMA TypesGiven == LoopInv /\ EventTypes /\ ThreadTypes => TypeOK
BY DEF LoopInv, TypeInv, EventTypes, SentTypes, BatchTypes, OtherTypes, ThreadTypes,
       Frame, TypeOK, AnyFd, Pcs

LEMMA NoticeTypes ==
    ASSUME ready \in Seq(Clients \cup {None}), NEW x \in Clients \cup {None}, Notice(x)
    PROVE  /\ ready' \in Seq(Clients \cup {None})
           /\ ToSet(ready') = ToSet(ready) \cup {x}
           /\ Distinct(ready) => Distinct(ready')
<1>1. CASE x \in ToSet(ready)
  BY <1>1 DEF Notice
<1>2. CASE x \notin ToSet(ready)
  <2>1. ready' = Append(ready, x)
    BY <1>2 DEF Notice
  <2>2. /\ ready' \in Seq(Clients \cup {None}) /\ DOMAIN ready' = 1 .. Len(ready) + 1
        /\ DOMAIN ready = 1 .. Len(ready) /\ Len(ready) \in Nat
        /\ ready'[Len(ready) + 1] = x
        /\ \A k \in 1 .. Len(ready) : ready'[k] = ready[k]
    BY <2>1
  <2>3. ToSet(ready') = {ready'[k] : k \in 1 .. Len(ready) + 1}
        /\ ToSet(ready) = {ready[k] : k \in 1 .. Len(ready)}
    BY <2>2 DEF ToSet, Range
  <2>4. \A k \in 1 .. Len(ready) + 1 : k \in 1 .. Len(ready) \/ k = Len(ready) + 1
    BY <2>2
  <2>5. Len(ready) + 1 \in 1 .. Len(ready) + 1 /\ 1 .. Len(ready) \subseteq 1 .. Len(ready) + 1
    BY <2>2
  <2>6. \A k \in 1 .. Len(ready) : ready[k] # x
    BY <1>2, <2>2 DEF ToSet
  <2>7. Distinct(ready) => Distinct(ready')
    BY <2>2, <2>4, <2>6 DEF Distinct
  <2> QED
    BY <2>2, <2>3, <2>4, <2>5, <2>7
<1> QED
  BY <1>1, <1>2

LEMMA RemoveAtElements ==
    ASSUME NEW S, NEW s \in Seq(S), NEW k \in 1 .. Len(s)
    PROVE  /\ RemoveAt(s, k) \in Seq(S) /\ Len(RemoveAt(s, k)) = Len(s) - 1
           /\ \A j \in 1 .. Len(s) - 1 :
                 RemoveAt(s, k)[j] = IF j < k THEN s[j] ELSE s[j + 1]
<1> DEFINE a == SubSeq(s, 1, k - 1)
           b == SubSeq(s, k + 1, Len(s))
<1>1. a \in Seq(S) /\ Len(a) = k - 1 /\ \A j \in 1 .. k - 1 : a[j] = s[j]
  BY SubSeqProperties
<1>2. b \in Seq(S) /\ Len(b) = Len(s) - k /\ \A j \in 1 .. Len(s) - k : b[j] = s[k + j]
  BY SubSeqProperties
<1>3. RemoveAt(s, k) = a \o b
  BY DEF RemoveAt
<1> HIDE DEF a, b
<1>4. a \o b \in Seq(S) /\ Len(a \o b) = Len(s) - 1
  <2>1. a \o b \in Seq(S) /\ Len(a \o b) = Len(a) + Len(b)
    BY <1>1, <1>2, ConcatProperties
  <2>2. Len(s) \in Nat /\ k \in Nat
    OBVIOUS
  <2>3. (k - 1) + (Len(s) - k) = Len(s) - 1
    BY <2>2
  <2> QED
    BY <1>1, <1>2, <2>1, <2>3
<1>5. ASSUME NEW j \in 1 .. Len(s) - 1
      PROVE  (a \o b)[j] = IF j < k THEN s[j] ELSE s[j + 1]
  <2>1. CASE j < k
    BY <1>1, <1>2, <2>1, ConcatProperties
  <2>2. CASE ~(j < k)
    <3>1. j - (k - 1) \in 1 .. Len(s) - k /\ k + (j - (k - 1)) = j + 1
          /\ j \in Len(a) + 1 .. Len(a) + Len(b)
      BY <1>1, <1>2, <2>2
    <3>2. (a \o b)[j] = b[j - (k - 1)]
      BY <1>1, <1>2, <2>2, <3>1, ConcatProperties
    <3> QED
      BY <1>2, <2>2, <3>1, <3>2
  <2> QED
    BY <2>1, <2>2
<1> QED
  BY <1>3, <1>4, <1>5

\* Only what is closed leaves the list.
LEMMA ForgetTypes ==
    ASSUME ready \in Seq(Clients \cup {None}), NEW x, Forget(x)
    PROVE  /\ ready' \in Seq(Clients \cup {None})
           /\ ToSet(ready') \subseteq ToSet(ready)
           /\ \A y \in ToSet(ready) : y # x => y \in ToSet(ready')
           /\ Distinct(ready) => Distinct(ready') /\ x \notin ToSet(ready')
<1>1. CASE x \notin ToSet(ready) /\ ready' = ready
  BY <1>1
<1>2. CASE \E k \in DOMAIN ready : ready[k] = x /\ ready' = RemoveAt(ready, k)
  <2>1. PICK k \in DOMAIN ready : ready[k] = x /\ ready' = RemoveAt(ready, k)
    BY <1>2
  <2> DEFINE l == Len(ready)
  <2>2. l \in Nat /\ k \in 1 .. l /\ DOMAIN ready = 1 .. l
    OBVIOUS
  <2>3. /\ ready' \in Seq(Clients \cup {None}) /\ DOMAIN ready' = 1 .. l - 1
        /\ \A j \in 1 .. l - 1 : ready'[j] = IF j < k THEN ready[j] ELSE ready[j + 1]
    BY <2>1, <2>2, RemoveAtElements
  <2>4. \A j \in 1 .. l - 1 : j \in 1 .. l /\ j + 1 \in 1 .. l
    BY <2>2
  <2>5. ToSet(ready') \subseteq ToSet(ready)
    BY <2>2, <2>3, <2>4 DEF ToSet, Range
  <2>6. ASSUME NEW y \in ToSet(ready), y # x PROVE y \in ToSet(ready')
    <3>1. PICK j \in 1 .. l : ready[j] = y
      BY <2>2, <2>6 DEF ToSet, Range
    <3>2. CASE j < k
      <4>1. j \in 1 .. l - 1 /\ ready'[j] = y
        BY <2>2, <2>3, <3>1, <3>2
      <4> QED
        BY <2>3, <4>1 DEF ToSet, Range
    <3>3. CASE j > k
      <4>1. j - 1 \in 1 .. l - 1 /\ ~(j - 1 < k) /\ (j - 1) + 1 = j
        BY <2>2, <3>1, <3>3
      <4>2. ready'[j - 1] = y
        BY <2>3, <3>1, <4>1
      <4> QED
        BY <2>3, <4>1, <4>2 DEF ToSet, Range
    <3>4. j # k
      BY <2>1, <2>6, <3>1
    <3> QED
      BY <2>2, <3>1, <3>2, <3>3, <3>4
  <2>7. ASSUME Distinct(ready) PROVE Distinct(ready') /\ x \notin ToSet(ready')
    <3>1. \A j, m \in 1 .. l : ready[j] = ready[m] => j = m
      BY <2>2, <2>7 DEF Distinct
    <3>2. \A j \in 1 .. l - 1 : ready'[j] # x
      BY <2>1, <2>2, <2>3, <2>4, <3>1
    <3>3. ASSUME NEW j \in 1 .. l - 1, NEW m \in 1 .. l - 1, ready'[j] = ready'[m]
          PROVE  j = m
      <4> DEFINE jj == IF j < k THEN j ELSE j + 1
                 mm == IF m < k THEN m ELSE m + 1
      <4>1. ready[jj] = ready[mm] /\ jj \in 1 .. l /\ mm \in 1 .. l
        BY <2>2, <2>3, <2>4, <3>3
      <4>2. jj = mm
        BY <3>1, <4>1
      <4> QED
        BY <2>2, <4>2
    <3> QED
      BY <2>3, <3>2, <3>3 DEF Distinct, ToSet
  <2> QED
    BY <2>3, <2>5, <2>6, <2>7
<1> QED
  BY <1>1, <1>2 DEF Forget

\* A message or the end of an open connection is noticed.
LEMMA NoticeOpenTypes ==
    ASSUME LoopInv, EventTypes, NEW c \in Clients, NoticeOpen(c)
    PROVE  /\ ready' \in Seq(Clients \cup {None}) /\ missed' \subseteq missed
           /\ ToSet(ready) \subseteq ToSet(ready')
           /\ ToSet(ready') \subseteq ToSet(ready) \cup {d \in Clients : conn[d] = "open"}
           /\ conn[c] = "open" => c \in ToSet(ready')
           /\ missed \ {c} \subseteq missed'
           /\ Distinct(ready) => Distinct(ready')
BY NoticeTypes DEF NoticeOpen, EventTypes, OtherTypes

\* The wait hands over the m entries at the places at of the list.
Reported(m, at) ==
    /\ \A j, k \in 1 .. m : j < k => at[j] < at[k]
    /\ \A k \in Live : k \in Range(at) \/ (m = MAXEVENTS /\ k > at[m])
    /\ n' = m /\ i' = 1
    /\ new_events' = [k \in 1 .. MAXEVENTS |->
                        IF k <= m THEN Event(ready[at[k]]) ELSE new_events[k]]
    /\ ready' = IF m = MAXEVENTS THEN SubSeq(ready, at[m] + 1, Len(ready)) ELSE <<>>

\* What has an event is handed over or stays in the list.
LEMMA WaitReports ==
    ASSUME EventTypes, epoll_wait
    PROVE  /\ n' \in 1 .. MAXEVENTS /\ i' = 1 /\ loop' = "event"
           /\ ready' \in Seq(Clients \cup {None}) /\ ToSet(ready') \subseteq ToSet(ready)
           /\ new_events' = [k \in 1 .. MAXEVENTS |->
                               IF k <= n' THEN new_events'[k] ELSE new_events[k]]
           /\ \E at \in [1 .. n' -> DOMAIN ready] :
                 /\ \A k \in 1 .. n' : new_events'[k] = Event(ready[at[k]])
                 /\ \A j, k \in 1 .. n' : j < k => at[j] < at[k]
           /\ \E from \in Nat : \A j \in DOMAIN ready' :
                 from + j \in DOMAIN ready /\ ready'[j] = ready[from + j]
           /\ \A x \in ToSet(ready) :
                 HasEvent(x) => \/ x \in ToSet(ready')
                                \/ \E k \in 1 .. n' : new_events'[k] = Event(x)
<1>0. PICK m \in 1 .. MAXEVENTS : \E at \in [1 .. m -> Live] : Reported(m, at)
  BY DEF epoll_wait, Reported
<1>1. PICK at \in [1 .. m -> Live] : Reported(m, at)
  BY <1>0
<1> USE DEF Reported
<1> DEFINE l == Len(ready)
<1>2. /\ ready \in Seq(Clients \cup {None}) /\ DOMAIN ready = 1 .. l /\ l \in Nat
      /\ Live \subseteq 1 .. l /\ m \in Nat /\ 1 .. m \subseteq 1 .. MAXEVENTS
      /\ m \in 1 .. m
  BY DEF EventTypes, OtherTypes, Live
<1>3. at[m] \in 1 .. l
  BY <1>2
<1>4. ASSUME m = MAXEVENTS
      PROVE  /\ ready' \in Seq(Clients \cup {None})
             /\ Len(ready') = l - at[m]
             /\ \A j \in 1 .. l - at[m] : ready'[j] = ready[at[m] + j]
  <2>1. ready' = SubSeq(ready, at[m] + 1, l)
    BY <1>1, <1>4
  <2> QED
    BY <1>2, <1>3, <2>1, SubSeqProperties
<1>5. ready' \in Seq(Clients \cup {None}) /\ ToSet(ready') \subseteq ToSet(ready)
  <2>1. CASE m = MAXEVENTS
    <3>1. \A j \in 1 .. l - at[m] : at[m] + j \in 1 .. l
      BY <1>2, <1>3
    <3>2. DOMAIN ready' = 1 .. l - at[m]
      BY <1>4, <2>1
    <3> QED
      BY <1>2, <1>4, <2>1, <3>1, <3>2 DEF ToSet
  <2>2. CASE m # MAXEVENTS
    BY <1>1, <2>2 DEF ToSet
  <2> QED
    BY <2>1, <2>2
<1>6. \A k \in 1 .. m : at[k] \in Live /\ new_events'[k] = Event(ready[at[k]])
  BY <1>1, <1>2
<1>7. \E a \in [1 .. n' -> DOMAIN ready] :
         /\ \A k \in 1 .. n' : new_events'[k] = Event(ready[a[k]])
         /\ \A j, k \in 1 .. n' : j < k => a[j] < a[k]
  <2>1. at \in [1 .. m -> DOMAIN ready]
    BY <1>1 DEF Live
  <2> QED
    BY <1>1, <1>6, <2>1
<1>10. \E from \in Nat : \A j \in DOMAIN ready' :
          from + j \in DOMAIN ready /\ ready'[j] = ready[from + j]
  <2>1. CASE m = MAXEVENTS
    <3>1. at[m] \in Nat /\ \A j \in 1 .. l - at[m] : at[m] + j \in 1 .. l
      BY <1>2, <1>3
    <3>2. DOMAIN ready' = 1 .. l - at[m]
      BY <1>4, <2>1
    <3> QED
      BY <1>2, <1>4, <2>1, <3>1, <3>2
  <2>2. CASE m # MAXEVENTS
    <3>1. DOMAIN ready' = {}
      BY <1>1, <2>2
    <3>2. 0 \in Nat
      OBVIOUS
    <3> QED
      BY <3>1, <3>2
  <2> QED
    BY <2>1, <2>2
<1>8. ASSUME NEW x \in ToSet(ready), HasEvent(x)
      PROVE  x \in ToSet(ready') \/ \E k \in 1 .. n' : new_events'[k] = Event(x)
  <2>1. PICK p \in 1 .. l : ready[p] = x /\ p \in Live
    BY <1>2, <1>8 DEF ToSet, Live
  <2>2. CASE p \in Range(at)
    <3>1. PICK k \in 1 .. m : at[k] = p
      BY <2>2 DEF Range
    <3> QED
      BY <1>1, <1>6, <2>1, <3>1
  <2>3. CASE m = MAXEVENTS /\ p > at[m]
    <3>1. p - at[m] \in 1 .. l - at[m] /\ at[m] + (p - at[m]) = p
      BY <1>2, <1>3, <2>1, <2>3
    <3>2. ready'[p - at[m]] = x /\ p - at[m] \in DOMAIN ready'
      BY <1>2, <1>3, <1>4, <2>1, <2>3, <3>1
    <3> QED
      BY <3>2 DEF ToSet
  <2> QED
    BY <1>1, <2>1, <2>2, <2>3
<1>9. new_events' = [k \in 1 .. MAXEVENTS |->
                       IF k <= n' THEN new_events'[k] ELSE new_events[k]]
  BY <1>1
<1> QED
  BY <1>1, <1>5, <1>7, <1>8, <1>9, <1>10 DEF epoll_wait

LEMMA EventTyped ==
    ASSUME LoopInv, NEW x \in Clients \cup {None}
    PROVE  Event(x) \in [fd : AnyFd, err : BOOLEAN]
BY FdTypes DEF Event, LoopInv, TypeInv

LEMMA NextEventTypes ==
    ASSUME BatchTypes, NextEvent, loop # "wait", UNCHANGED <<new_events, n>>
    PROVE  BatchTypes'
BY DEF BatchTypes, NextEvent, More

LEMMA ClientTypes ==
    ASSUME LoopInv, EventTypes, ThreadTypes, NEW c \in Clients,
           Connect(c) \/ Send(c) \/ Leave(c)
    PROVE  EventTypes' /\ ThreadTypes'
<1>1. ThreadTypes' /\ BatchTypes'
  BY DEF Connect, Send, Leave, EventTypes, ThreadTypes, BatchTypes
<1>2. CASE Connect(c)
  <2>1. SentTypes'
    BY <1>2 DEF Connect, EventTypes, SentTypes
  <2>2. OtherTypes'
    BY <1>2, NoticeTypes DEF Connect, EventTypes, OtherTypes
  <2> QED
    BY <1>1, <2>1, <2>2 DEF EventTypes
<1>3. CASE Send(c)
  <2>1. sent' = [sent EXCEPT ![c] = @ + 1] /\ taken' = taken
    BY <1>3 DEF Send
  <2>2. SentTypes'
    BY <2>1 DEF EventTypes, SentTypes
  <2>3. ready' \in Seq(Clients \cup {None}) /\ missed' \subseteq missed
    BY <1>3, NoticeOpenTypes DEF Send
  <2>4. OtherTypes'
    BY <1>3, <2>3 DEF Send, EventTypes, OtherTypes
  <2> QED
    BY <1>1, <2>2, <2>4 DEF EventTypes
<1>4. CASE Leave(c)
  <2>1. ready' \in Seq(Clients \cup {None}) /\ missed' \subseteq missed
    BY <1>4, NoticeOpenTypes DEF Leave
  <2>2. SentTypes'
    BY <1>4 DEF Leave, EventTypes, SentTypes
  <2>3. PICK how \in {"end", "reset"} : over' = [over EXCEPT ![c] = how]
    BY <1>4 DEF Leave
  <2>4. over' \in [Clients -> {"no", "end", "reset"}]
    BY <2>3 DEF EventTypes, OtherTypes
  <2>5. OtherTypes'
    BY <1>4, <2>1, <2>4 DEF Leave, EventTypes, OtherTypes
  <2> QED
    BY <1>1, <2>2, <2>5 DEF EventTypes
<1> QED
  BY <1>2, <1>3, <1>4

LEMMA CreateTypes ==
    ASSUME BatchTypes, ThreadTypes, missed \subseteq Clients, loop # "wait",
           NEW c \in Clients, Create(c)
    PROVE  ThreadTypes' /\ missed' \subseteq Clients
<1> DEFINE new == [pc |-> "new", slot |-> i, own |-> c, sd |-> 0, of |-> None]
<1>1. i \in 1 .. MAXEVENTS
  BY DEF BatchTypes
<1>2. new \in Frame
  BY <1>1, FdTypes DEF Pcs, Frame
<1>3. thread' = Append(thread, new) \/ thread' = thread
  BY DEF Create
<1> HIDE DEF new
<1>4. ThreadTypes'
  BY <1>2, <1>3 DEF ThreadTypes
<1> QED
  BY <1>4 DEF Create

-----------------------------------------------------------------------------
(* What is watched, one action after the other.                            *)

EventInv ==
    /\ LoopInv /\ EventTypes /\ ThreadTypes
    /\ WatchInv /\ NothingForgotten /\ CalmInv

\* All parts, as an action has to give them.
LEMMA Together ==
    ASSUME LoopInv', SentTypes', BatchTypes', OtherTypes', ThreadTypes', OpenFds',
           ReadyOpen', BatchOpen', AtSocket', NothingForgotten', CalmInv'
    PROVE  EventInv'
BY DEF EventInv, EventTypes, WatchInv

LEMMA HeldOwner ==
    ASSUME NEW f
    PROVE  Held(f) <=> Owner(f) # None
BY OwnerOpen DEF Held, Owner

\* No open connection is closed: what was held still is.
LEMMA HeldKept ==
    ASSUME \A c \in Clients : conn[c] = "open" => conn'[c] = "open" /\ fd'[c] = fd[c],
           NEW f, Held(f)
    PROVE  Held(f)'
BY DEF Held

LEMMA AwaitedKept ==
    ASSUME NEW d, Awaited(d), d \in ToSet(ready) => d \in ToSet(ready'),
           fd'[d] = fd[d], UNCHANGED <<new_events, n, i, thread>>,
           (loop # "wait") => (loop' # "wait")
    PROVE  Awaited(d)'
BY DEF Awaited

\* Another descriptor's event is done with: what d waits for is still to come.
LEMMA AwaitedNext ==
    ASSUME NEW d, Awaited(d), BatchTypes, loop # "wait", NextEvent,
           new_events[i].fd # fd[d], fd' = fd, UNCHANGED <<new_events, n>>,
           d \in ToSet(ready) => d \in ToSet(ready'),
           \A t \in DOMAIN thread : t \in DOMAIN thread' /\ thread'[t] = thread[t]
    PROVE  Awaited(d)'
<1>1. CASE d \in ToSet(ready)
  BY <1>1 DEF Awaited
<1>2. CASE \E t \in DOMAIN thread :
          \/ thread[t].own = d /\ thread[t].pc = "new"
          \/ thread[t].sd = fd[d] /\ thread[t].pc = "read"
          \/ thread[t].of = d /\ thread[t].pc = "blocked"
  BY <1>2 DEF Awaited
<1>3. CASE \E k \in i .. n : new_events[k].fd = fd[d]
  <2>1. PICK k \in i .. n : new_events[k].fd = fd[d]
    BY <1>3
  <2>2. k # i /\ i \in Nat /\ n \in Nat
    BY <2>1 DEF BatchTypes
  <2>3. i < n /\ k \in i + 1 .. n
    BY <2>1, <2>2
  <2>4. i' = i + 1 /\ loop' = "event"
    BY <2>3 DEF NextEvent, More
  <2> QED
    BY <2>1, <2>3, <2>4 DEF Awaited
<1> QED
  BY <1>1, <1>2, <1>3 DEF Awaited

\* The loop goes to the next event.
LEMMA NextEventWatch ==
    ASSUME BatchTypes, BatchOpen, NextEvent, loop # "wait", UNCHANGED <<new_events, n>>,
           \A k \in i .. n : k # i /\ Held(new_events[k].fd) => Held(new_events[k].fd)'
    PROVE  BatchOpen' /\ AtSocket'
<1>1. i \in Nat /\ n \in Nat /\ i' = i + 1 /\ loop' # "accept"
  BY DEF BatchTypes, NextEvent
<1>2. \A k \in i' .. n : k \in i .. n /\ k # i
  BY <1>1
<1>3. AtSocket'
  BY <1>1 DEF AtSocket
<1>4. BatchOpen'
  BY <1>2 DEF BatchOpen
<1> QED
  BY <1>3, <1>4

LEMMA ClientWatch ==
    ASSUME EventInv, LoopInv', NEW c \in Clients, Connect(c) \/ Send(c) \/ Leave(c)
    PROVE  EventInv'
<1>1. EventTypes' /\ ThreadTypes'
  BY ClientTypes DEF EventInv
<1>2. /\ fd' = fd /\ UNCHANGED <<new_events, n, i, loop, thread, broken, astray>>
      /\ \A d \in Clients : (conn'[d] = "open") = (conn[d] = "open")
      /\ \A d \in Clients : (conn'[d] = "closed") = (conn[d] = "closed")
  <2>1. Connect(c) => conn' = [conn EXCEPT ![c] = "waiting"] /\ conn[c] = "new"
    BY DEF Connect
  <2>2. ~Connect(c) => conn' = conn
    BY DEF Send, Leave
  <2>3. conn \in [Clients -> {"new", "waiting", "open", "closed"}]
    BY DEF EventInv, LoopInv, TypeInv
  <2>4. fd' = fd /\ UNCHANGED <<new_events, n, i, loop, thread, broken, astray>>
    BY DEF Connect, Send, Leave
  <2> QED
    BY <2>1, <2>2, <2>3, <2>4
<1>3. /\ ToSet(ready) \subseteq ToSet(ready') /\ Distinct(ready')
      /\ \A d \in Clients : d \in ToSet(ready') => d \in ToSet(ready) \/ conn[d] = "open"
  <2>1. Distinct(ready) /\ ready \in Seq(Clients \cup {None})
    BY DEF EventInv, WatchInv, ReadyOpen, EventTypes, OtherTypes
  <2>2. CASE Connect(c)
    BY <2>1, <2>2, NoticeTypes DEF Connect
  <2>3. CASE NoticeOpen(c)
    BY <2>1, <2>3, NoticeOpenTypes DEF EventInv
  <2> QED
    BY <2>2, <2>3 DEF Send, Leave
<1>4. \A f : Held(f)' <=> Held(f)
  BY <1>2 DEF Held
<1>5. OpenFds' /\ ReadyOpen' /\ BatchOpen' /\ AtSocket'
  BY <1>2, <1>3, <1>4 DEF EventInv, WatchInv, OpenFds, ReadyOpen, BatchOpen, AtSocket
<1>6. NothingForgotten'
  <2> SUFFICES ASSUME NEW d \in Clients, conn'[d] = "open", Unread(d)', d \notin missed'
               PROVE  Awaited(d)'
    BY DEF NothingForgotten
  <2>1. conn[d] = "open"
    BY <1>2
  <2>2. CASE d = c /\ ~Connect(c)
    <3>1. d \in ToSet(ready')
      BY <2>1, <2>2, NoticeOpenTypes DEF Send, Leave, EventInv
    <3> QED
      BY <3>1 DEF Awaited
  <2>3. CASE d # c \/ Connect(c)
    <3>1. sent'[d] = sent[d] /\ taken' = taken
      BY <2>3 DEF Connect, Send, Leave, EventInv, EventTypes, SentTypes
    <3>2. Unread(d)
      BY <3>1 DEF Unread
    <3>3. d \notin missed
      <4>1. CASE Connect(c)
        BY <4>1 DEF Connect
      <4>2. CASE d # c /\ NoticeOpen(c)
        BY <4>2, NoticeOpenTypes DEF EventInv
      <4> QED
        BY <2>3, <4>1, <4>2 DEF Send, Leave
    <3>4. Awaited(d)
      BY <2>1, <3>2, <3>3 DEF EventInv, NothingForgotten
    <3> QED
      BY <1>2, <1>3, <3>4, AwaitedKept
  <2> QED
    BY <2>2, <2>3
<1>7. CalmInv'
  <2> SUFFICES ASSUME ~astray', \A d \in Clients : over'[d] # "reset"
               PROVE  /\ ~broken /\ \A d \in Clients : conn'[d] # "closed"
                      /\ \A k \in 1 .. MAXEVENTS : ~new_events[k].err
                      /\ \A t \in DOMAIN thread :
                            /\ thread[t].pc = "new" =>
                                  thread[t].own \in Clients /\ conn'[thread[t].own] = "open"
                            /\ thread[t].pc = "read" => Held(thread[t].sd)
    BY <1>2, <1>4 DEF CalmInv
  <2>1. \A d \in Clients : over[d] # "reset"
    <3>1. ~Leave(c) => over' = over
      BY DEF Connect, Send
    <3>2. CASE Leave(c)
      <4>1. PICK how \in {"end", "reset"} : over' = [over EXCEPT ![c] = how]
        BY <3>2 DEF Leave
      <4>2. over[c] = "no"
        BY <3>2 DEF Leave
      <4>3. over \in [Clients -> {"no", "end", "reset"}]
        BY DEF EventInv, EventTypes, OtherTypes
      <4> QED
        BY <4>1, <4>2, <4>3
    <3> QED
      BY <3>1, <3>2
  <2> QED
    BY <1>2, <2>1 DEF EventInv, CalmInv
<1> QED
  BY <1>1, <1>5, <1>6, <1>7, Together DEF EventTypes

LEMMA WaitWatch == ASSUME EventInv, LoopInv', epoll_wait PROVE EventInv'
<1>1. /\ UNCHANGED <<conn, fd, sent, taken, over, thread, missed, astray, refused,
                     mistaken, broken>>
      /\ loop = "wait"
  BY DEF epoll_wait
<1>2. PICK m : m = n'
  OBVIOUS
<1>3. /\ n' = m /\ m \in 1 .. MAXEVENTS /\ i' = 1 /\ loop' = "event"
      /\ ready' \in Seq(Clients \cup {None}) /\ ToSet(ready') \subseteq ToSet(ready)
      /\ new_events' = [k \in 1 .. MAXEVENTS |->
                          IF k <= m THEN new_events'[k] ELSE new_events[k]]
  BY <1>2, WaitReports DEF EventInv
<1>4. PICK at \in [1 .. m -> DOMAIN ready] :
          /\ \A k \in 1 .. m : new_events'[k] = Event(ready[at[k]])
          /\ \A j, k \in 1 .. m : j < k => at[j] < at[k]
  BY <1>2, WaitReports DEF EventInv
<1>5. PICK from \in Nat : \A j \in DOMAIN ready' :
          from + j \in DOMAIN ready /\ ready'[j] = ready[from + j]
  BY WaitReports DEF EventInv
<1>6. \A x \in ToSet(ready) :
         HasEvent(x) => x \in ToSet(ready') \/ \E k \in 1 .. m : new_events'[k] = Event(x)
  BY <1>2, WaitReports DEF EventInv
<1>7. /\ ready \in Seq(Clients \cup {None})
      /\ DOMAIN ready = 1 .. Len(ready) /\ Len(ready) \in Nat
      /\ \A k \in DOMAIN ready : ready[k] \in Clients \cup {None} /\ ready[k] \in ToSet(ready)
  BY DEF EventInv, EventTypes, OtherTypes, ToSet
<1>8. /\ \A x \in Clients : x \in ToSet(ready) => conn[x] = "open"
      /\ \A j, k \in DOMAIN ready : ready[j] = ready[k] => j = k
  BY DEF EventInv, WatchInv, ReadyOpen, Distinct
<1>9. BatchTypes'
  <2>1. ASSUME NEW k \in 1 .. MAXEVENTS PROVE new_events'[k] \in [fd : AnyFd, err : BOOLEAN]
    <3>1. CASE k \in 1 .. m
      BY <1>4, <1>7, <3>1, EventTyped DEF EventInv
    <3>2. CASE k \notin 1 .. m
      <4>1. new_events'[k] = new_events[k]
        BY <1>3, <3>2
      <4> QED
        BY <4>1 DEF EventInv, EventTypes, BatchTypes
    <3> QED
      BY <3>1, <3>2
  <2>2. DOMAIN new_events' = 1 .. MAXEVENTS
    BY <1>3
  <2>3. new_events' \in [1 .. MAXEVENTS -> [fd : AnyFd, err : BOOLEAN]]
    BY <1>3, <2>1, <2>2
  <2> QED
    BY <1>3, <2>3 DEF BatchTypes
<1>10. SentTypes' /\ OtherTypes' /\ ThreadTypes' /\ OpenFds' /\ AtSocket'
  BY <1>1, <1>3 DEF EventInv, EventTypes, SentTypes, OtherTypes, ThreadTypes, WatchInv,
                    OpenFds, AtSocket
<1>11. ReadyOpen'
  <2>1. ASSUME NEW j \in DOMAIN ready', NEW k \in DOMAIN ready', ready'[j] = ready'[k]
        PROVE  j = k
    <3>1. from + j = from + k
      BY <1>5, <1>8, <2>1
    <3>2. j \in Nat /\ k \in Nat
      BY <1>3
    <3> QED
      BY <3>1, <3>2
  <2> QED
    BY <1>1, <1>3, <1>8, <2>1 DEF ReadyOpen, Distinct
<1>12. BatchOpen'
  <2> DEFINE x(k) == ready[at[k]]
  <2>1. ASSUME NEW k \in 1 .. m
        PROVE  /\ at[k] \in DOMAIN ready /\ x(k) \in Clients \cup {None}
               /\ x(k) = None => new_events'[k].fd = server_sd
               /\ x(k) # None => /\ x(k) \in Clients /\ conn[x(k)] = "open"
                                 /\ new_events'[k].fd = fd[x(k)] /\ fd[x(k)] # server_sd
    <3>1. at[k] \in DOMAIN ready /\ new_events'[k] = Event(x(k))
      BY <1>4
    <3>2. x(k) \in Clients \cup {None} /\ x(k) \in ToSet(ready)
      BY <1>7, <3>1
    <3>3. x(k) # None => conn[x(k)] = "open" /\ fd[x(k)] # server_sd
      BY <1>8, <3>2, FdTypes DEF EventInv, WatchInv, OpenFds
    <3> QED
      BY <3>1, <3>2, <3>3 DEF Event
  <2> HIDE DEF x
  <2>2. ASSUME NEW k \in 1 .. m
        PROVE  \/ new_events'[k].fd = server_sd
               \/ \E c \in Clients : conn'[c] = "open" /\ fd'[c] = new_events'[k].fd
    BY <1>1, <2>1
  <2>3. ASSUME NEW j \in 1 .. m, NEW k \in 1 .. m, new_events'[j].fd = new_events'[k].fd
        PROVE  j = k
    <3>1. x(j) = x(k)
      BY <2>1, <2>3 DEF EventInv, LoopInv, FdsUnique
    <3>2. at[j] = at[k]
      BY <1>8, <2>1, <3>1 DEF x
    <3>3. at[j] \in Nat /\ at[k] \in Nat /\ j \in Nat /\ k \in Nat
      BY <1>7, <2>1
    <3> QED
      BY <1>4, <3>2, <3>3
  <2> QED
    BY <1>3, <2>2, <2>3 DEF BatchOpen, Held
<1>13. NothingForgotten'
  <2> SUFFICES ASSUME NEW d \in Clients, conn'[d] = "open", Unread(d)', d \notin missed'
               PROVE  Awaited(d)'
    BY DEF NothingForgotten
  <2>1. Unread(d) /\ HasEvent(d) /\ Event(d).fd = fd[d]
    BY <1>1 DEF Unread, HasEvent, Readable, Event
  <2>2. Awaited(d)
    BY <1>1, <2>1 DEF EventInv, NothingForgotten
  <2>3. CASE d \in ToSet(ready)
    BY <1>1, <1>3, <1>6, <2>1, <2>3 DEF Awaited
  <2>4. CASE d \notin ToSet(ready)
    BY <1>1, <2>2, <2>4 DEF Awaited
  <2> QED
    BY <2>3, <2>4
<1>14. CalmInv'
  <2> SUFFICES ASSUME ~astray, \A d \in Clients : over[d] # "reset"
               PROVE  /\ ~broken /\ \A d \in Clients : conn[d] # "closed"
                      /\ \A k \in 1 .. MAXEVENTS : ~new_events'[k].err
                      /\ \A t \in DOMAIN thread :
                            /\ thread[t].pc = "new" =>
                                  thread[t].own \in Clients /\ conn[thread[t].own] = "open"
                            /\ thread[t].pc = "read" => Held(thread[t].sd)
    BY <1>1 DEF CalmInv, Held
  <2>1. ASSUME NEW k \in 1 .. MAXEVENTS PROVE ~new_events'[k].err
    <3>1. CASE k \in 1 .. m
      <4>1. PICK x \in Clients \cup {None} : new_events'[k] = Event(x)
        BY <1>4, <1>7, <3>1
      <4>2. CASE x = None
        BY <4>1, <4>2 DEF Event
      <4>3. CASE x # None
        <5>1. over[x] # "reset" /\ Event(x).err = (over[x] = "reset")
          BY <4>3 DEF Event
        <5> QED
          BY <4>1, <5>1
      <4> QED
        BY <4>2, <4>3
    <3>2. CASE k \notin 1 .. m
      <4>1. new_events'[k] = new_events[k]
        BY <1>3, <3>2
      <4> QED
        BY <4>1 DEF EventInv, CalmInv
    <3> QED
      BY <3>1, <3>2
  <2> QED
    BY <2>1 DEF EventInv, CalmInv
<1> QED
  BY <1>9, <1>10, <1>11, <1>12, <1>13, <1>14, Together

LEMMA WaitOnWatch == ASSUME EventInv, LoopInv', WaitOn PROVE EventInv'
<1>1. /\ UNCHANGED <<conn, fd, sent, taken, over, new_events, n, i, loop, thread, missed,
                     astray, refused, mistaken, broken>>
      /\ loop = "wait" /\ ready' = <<>> /\ Live = {}
  BY DEF WaitOn
<1>2. SentTypes' /\ BatchTypes' /\ OtherTypes' /\ ThreadTypes' /\ OpenFds' /\ AtSocket'
      /\ BatchOpen'
  BY <1>1 DEF EventInv, EventTypes, SentTypes, BatchTypes, OtherTypes, ThreadTypes,
              WatchInv, OpenFds, AtSocket, BatchOpen
<1>3. ReadyOpen'
  BY <1>1 DEF ReadyOpen, ToSet, Distinct
<1>4. NothingForgotten'
  <2> SUFFICES ASSUME NEW d \in Clients, conn'[d] = "open", Unread(d)', d \notin missed'
               PROVE  Awaited(d)'
    BY DEF NothingForgotten
  <2>1. Unread(d) /\ HasEvent(d)
    BY <1>1 DEF Unread, HasEvent, Readable
  <2>2. d \notin ToSet(ready)
    BY <1>1, <2>1 DEF Live, ToSet
  <2>3. Awaited(d)
    BY <1>1, <2>1 DEF EventInv, NothingForgotten
  <2> QED
    BY <1>1, <2>2, <2>3 DEF Awaited
<1>5. CalmInv'
  BY <1>1 DEF EventInv, CalmInv, Held
<1> QED
  BY <1>2, <1>3, <1>4, <1>5, Together

\* What the invariant says of the loop at an event.
LEMMA AtEvent ==
    ASSUME EventInv, loop # "wait"
    PROVE  /\ BatchTypes /\ BatchOpen /\ i \in 1 .. MAXEVENTS /\ i \in i .. n
           /\ new_events[i].fd = server_sd \/ Held(new_events[i].fd)
           /\ \A k \in i .. n : new_events[k].fd = new_events[i].fd => k = i
<1>1. BatchTypes /\ BatchOpen
  BY DEF EventInv, EventTypes, WatchInv
<1>2. i \in 1 .. MAXEVENTS /\ i \in i .. n
  BY <1>1 DEF BatchTypes
<1> QED
  BY <1>1, <1>2 DEF BatchOpen

\* The connection that is closed is that of the event, which no other event is of.
LEMMA CloseWatch == ASSUME EventInv, LoopInv', CloseFailed PROVE EventInv'
<1> DEFINE x == Owner(new_events[i].fd)
<1>1. /\ loop = "event" /\ new_events[i].err
      /\ conn' = [conn EXCEPT ![x] = "closed"] /\ Forget(x) /\ NextEvent
      /\ UNCHANGED <<fd, sent, taken, over, new_events, n, thread, missed, astray,
                     refused, broken>>
  BY DEF CloseFailed
<1>2. x # None => x \in Clients /\ conn[x] = "open" /\ fd[x] = new_events[i].fd
  BY OwnerOpen
<1>3. \A d \in Clients : conn[d] = "open" /\ fd[d] = new_events[i].fd => d = x
  BY OwnerOfOpen DEF EventInv, LoopInv
<1> HIDE DEF x
<1>4. \A d \in Clients : conn'[d] = IF d = x THEN "closed" ELSE conn[d]
  BY <1>1 DEF EventInv, LoopInv, TypeInv
<1>5. /\ ready' \in Seq(Clients \cup {None})
      /\ ToSet(ready') \subseteq ToSet(ready) /\ Distinct(ready') /\ x \notin ToSet(ready')
      /\ \A y \in ToSet(ready) : y # x => y \in ToSet(ready')
  BY <1>1, ForgetTypes DEF EventInv, EventTypes, OtherTypes, WatchInv, ReadyOpen
<1>6. SentTypes' /\ OtherTypes' /\ ThreadTypes'
  BY <1>1, <1>5 DEF EventInv, EventTypes, SentTypes, OtherTypes, ThreadTypes
<1>7. BatchTypes'
  BY <1>1, AtEvent, NextEventTypes
<1>8. OpenFds'
  BY <1>1, <1>4 DEF EventInv, WatchInv, OpenFds
<1>9. ReadyOpen'
  BY <1>4, <1>5 DEF EventInv, WatchInv, ReadyOpen
<1>10. BatchOpen' /\ AtSocket'
  <2>1. ASSUME NEW k \in i .. n, k # i, Held(new_events[k].fd)
        PROVE  \E c \in Clients : conn'[c] = "open" /\ fd'[c] = new_events[k].fd
    <3>1. PICK c \in Clients : conn[c] = "open" /\ fd[c] = new_events[k].fd
      BY <2>1 DEF Held
    <3>2. new_events[k].fd # new_events[i].fd
      BY <1>1, <2>1, AtEvent
    <3>3. c # x
      BY <1>2, <3>1, <3>2
    <3> QED
      BY <1>1, <1>4, <3>1, <3>3
  <2>2. \A k \in i .. n : k # i /\ Held(new_events[k].fd) => Held(new_events[k].fd)'
    BY <1>1, <2>1 DEF Held
  <2> QED
    BY <1>1, <2>2, AtEvent, NextEventWatch
<1>11. NothingForgotten'
  <2> SUFFICES ASSUME NEW d \in Clients, conn'[d] = "open", Unread(d)', d \notin missed'
               PROVE  Awaited(d)'
    BY DEF NothingForgotten
  <2>1. d # x /\ conn[d] = "open" /\ Unread(d) /\ d \notin missed
    BY <1>1, <1>4 DEF Unread
  <2>2. new_events[i].fd # fd[d]
    BY <1>3, <2>1
  <2>3. Awaited(d)
    BY <2>1 DEF EventInv, NothingForgotten
  <2> QED
    BY <1>1, <1>5, <2>1, <2>2, <2>3, AtEvent, AwaitedNext
<1>12. CalmInv'
  <2>1. i \in 1 .. MAXEVENTS
    BY <1>1, AtEvent
  <2>2. ~(~astray /\ \A d \in Clients : over[d] # "reset")
    BY <1>1, <2>1 DEF EventInv, CalmInv
  <2> QED
    BY <1>1, <2>2 DEF CalmInv
<1> QED
  BY <1>6, <1>7, <1>8, <1>9, <1>10, <1>11, <1>12, Together

LEMMA BeginAcceptWatch == ASSUME EventInv, LoopInv', BeginAccept PROVE EventInv'
<1>1. /\ loop = "event" /\ new_events[i].fd = server_sd /\ loop' = "accept"
      /\ UNCHANGED <<conn, fd, sent, taken, over, ready, new_events, n, i, thread, missed,
                     astray, refused, broken>>
  BY DEF BeginAccept
<1>2. SentTypes' /\ OtherTypes' /\ ThreadTypes' /\ BatchTypes'
  BY <1>1 DEF EventInv, EventTypes, SentTypes, OtherTypes, ThreadTypes, BatchTypes
<1>3. OpenFds' /\ ReadyOpen' /\ AtSocket'
  BY <1>1 DEF EventInv, WatchInv, OpenFds, ReadyOpen, AtSocket
<1>4. BatchOpen'
  BY <1>1 DEF EventInv, WatchInv, BatchOpen, Held
<1>5. NothingForgotten'
  <2> SUFFICES ASSUME NEW d \in Clients, conn'[d] = "open", Unread(d)', d \notin missed'
               PROVE  Awaited(d)'
    BY DEF NothingForgotten
  <2>1. Awaited(d)
    BY <1>1 DEF Unread, EventInv, NothingForgotten
  <2> QED
    BY <1>1, <2>1, AwaitedKept
<1>6. CalmInv'
  BY <1>1 DEF EventInv, CalmInv, Held
<1> QED
  BY <1>2, <1>3, <1>4, <1>5, <1>6, Together

\* A connection in which something can be read already is in the list at once.
LEMMA AcceptWatch == ASSUME EventInv, LoopInv', Accept PROVE EventInv'
<1> DEFINE c == Head(backlog)
<1>1. c \in Clients /\ conn[c] = "waiting"
  BY HeadTailProperties DEF Accept, EventInv, LoopInv, TypeInv, BacklogInv
<1>2. PICK f \in Fds : fd' = [fd EXCEPT ![c] = f]
  BY DEF Accept
<1>3. /\ loop = "accept" /\ conn' = [conn EXCEPT ![c] = "open"]
      /\ IF Readable(c) THEN Notice(c) ELSE UNCHANGED ready
      /\ UNCHANGED <<sent, taken, over, new_events, n, i, loop, thread, missed, astray,
                     refused, broken>>
  BY DEF Accept, AfterAccept
<1> HIDE DEF c
<1>4. /\ conn'[c] = "open" /\ fd'[c] = f
      /\ \A d \in Clients : d # c => conn'[d] = conn[d] /\ fd'[d] = fd[d]
  BY <1>1, <1>2, <1>3 DEF EventInv, LoopInv, TypeInv
<1>5. \A d \in Clients : conn[d] = "open" => conn'[d] = "open" /\ fd'[d] = fd[d]
  BY <1>1, <1>4
<1>6. ready \in Seq(Clients \cup {None}) /\ Distinct(ready)
  BY DEF EventInv, EventTypes, OtherTypes, WatchInv, ReadyOpen
<1>7. /\ ready' \in Seq(Clients \cup {None}) /\ Distinct(ready')
      /\ ToSet(ready) \subseteq ToSet(ready') /\ ToSet(ready') \subseteq ToSet(ready) \cup {c}
      /\ Readable(c) => c \in ToSet(ready')
  BY <1>1, <1>3, <1>6, NoticeTypes
<1>8. SentTypes' /\ OtherTypes' /\ ThreadTypes' /\ BatchTypes'
  BY <1>3, <1>7 DEF EventInv, EventTypes, SentTypes, OtherTypes, ThreadTypes, BatchTypes
<1>9. OpenFds'
  BY <1>4 DEF EventInv, WatchInv, OpenFds
<1>10. ReadyOpen'
  BY <1>4, <1>5, <1>7 DEF EventInv, WatchInv, ReadyOpen
<1>11. \A e : Held(e) => \E d \in Clients : conn'[d] = "open" /\ fd'[d] = e
  BY <1>5 DEF Held
<1>12. BatchOpen' /\ AtSocket'
  BY <1>3, <1>11 DEF EventInv, WatchInv, BatchOpen, AtSocket, Held
<1>13. NothingForgotten'
  <2> SUFFICES ASSUME NEW d \in Clients, conn'[d] = "open", Unread(d)', d \notin missed'
               PROVE  Awaited(d)'
    BY DEF NothingForgotten
  <2>1. Unread(d)
    BY <1>3 DEF Unread
  <2>2. CASE d = c
    BY <1>7, <2>1, <2>2 DEF Readable, Awaited
  <2>3. CASE d # c
    <3>1. Awaited(d)
      BY <1>3, <1>4, <2>1, <2>3 DEF EventInv, NothingForgotten
    <3> QED
      BY <1>3, <1>4, <1>7, <2>3, <3>1, AwaitedKept
  <2> QED
    BY <2>2, <2>3
<1>14. CalmInv'
  <2> SUFFICES ASSUME ~astray, \A d \in Clients : over[d] # "reset"
               PROVE  /\ ~broken /\ \A d \in Clients : conn'[d] # "closed"
                      /\ \A k \in 1 .. MAXEVENTS : ~new_events[k].err
                      /\ \A t \in DOMAIN thread :
                            /\ thread[t].pc = "new" =>
                                  thread[t].own \in Clients /\ conn'[thread[t].own] = "open"
                            /\ thread[t].pc = "read" =>
                                  \E d \in Clients : conn'[d] = "open" /\ fd'[d] = thread[t].sd
    BY <1>3 DEF CalmInv, Held
  <2>1. /\ ~broken /\ \A d \in Clients : conn[d] # "closed"
        /\ \A k \in 1 .. MAXEVENTS : ~new_events[k].err
        /\ \A t \in DOMAIN thread :
              /\ thread[t].pc = "new" =>
                    thread[t].own \in Clients /\ conn[thread[t].own] = "open"
              /\ thread[t].pc = "read" => Held(thread[t].sd)
    BY DEF EventInv, CalmInv
  <2>2. \A d \in Clients : conn'[d] # "closed"
    BY <1>4, <2>1
  <2> QED
    BY <1>5, <1>11, <2>1, <2>2
<1> QED
  BY <1>8, <1>9, <1>10, <1>12, <1>13, <1>14, Together

\* No connection waits for the event of the listening socket.
LEMMA AcceptedWatch ==
    ASSUME EventInv, LoopInv', AcceptFails \/ AcceptEnds
    PROVE  EventInv'
<1>1. /\ loop = "accept" /\ NextEvent /\ refused' \in {refused, TRUE}
      /\ UNCHANGED <<conn, fd, sent, taken, over, ready, new_events, n, thread, missed,
                     astray, broken>>
  BY DEF AcceptFails, AcceptEnds
<1>2. SentTypes' /\ OtherTypes' /\ ThreadTypes'
  BY <1>1 DEF EventInv, EventTypes, SentTypes, OtherTypes, ThreadTypes
<1>3. BatchTypes'
  BY <1>1, AtEvent, NextEventTypes
<1>4. OpenFds' /\ ReadyOpen'
  BY <1>1 DEF EventInv, WatchInv, OpenFds, ReadyOpen
<1>5. \A k \in i .. n : k # i /\ Held(new_events[k].fd) => Held(new_events[k].fd)'
  BY <1>1 DEF Held
<1>6. BatchOpen' /\ AtSocket'
  BY <1>1, <1>5, AtEvent, NextEventWatch
<1>7. NothingForgotten'
  <2> SUFFICES ASSUME NEW d \in Clients, conn'[d] = "open", Unread(d)', d \notin missed'
               PROVE  Awaited(d)'
    BY DEF NothingForgotten
  <2>1. conn[d] = "open" /\ Awaited(d)
    BY <1>1 DEF Unread, EventInv, NothingForgotten
  <2>2. new_events[i].fd # fd[d]
    BY <1>1, <2>1, FdTypes DEF EventInv, WatchInv, OpenFds, AtSocket
  <2> QED
    BY <1>1, <2>1, <2>2, AtEvent, AwaitedNext
<1>8. CalmInv'
  BY <1>1 DEF EventInv, CalmInv, Held
<1> QED
  BY <1>2, <1>3, <1>4, <1>6, <1>7, <1>8, Together

\* The thread of an event is the one that its connection waits for, or nobody knows.
LEMMA StartThreadWatch == ASSUME EventInv, LoopInv', StartThread PROVE EventInv'
<1> DEFINE c == Owner(new_events[i].fd)
           new == [pc |-> "new", slot |-> i, own |-> c, sd |-> 0, of |-> None]
           l == Len(thread)
<1>1. /\ loop = "event" /\ new_events[i].fd # server_sd /\ Create(c) /\ NextEvent
      /\ UNCHANGED <<conn, fd, sent, taken, over, ready, new_events, n, astray, refused,
                     broken>>
  BY DEF StartThread
<1>2. c \in Clients /\ conn[c] = "open" /\ fd[c] = new_events[i].fd
  BY <1>1, AtEvent, HeldOwner, OwnerOpen
<1>3. BatchTypes /\ ThreadTypes /\ missed \subseteq Clients
  BY DEF EventInv, EventTypes, OtherTypes
<1>4. ThreadTypes' /\ missed' \subseteq Clients
  BY <1>1, <1>2, <1>3, CreateTypes
<1>5. \/ thread' = Append(thread, new) /\ missed' = missed
      \/ thread' = thread /\ missed' = missed \cup {c}
  BY <1>1 DEF Create
<1> HIDE DEF c
<1>6. l \in Nat /\ DOMAIN thread = 1 .. l
  BY <1>3 DEF ThreadTypes
<1>7. /\ \A t \in DOMAIN thread : t \in DOMAIN thread' /\ thread'[t] = thread[t]
      /\ missed \subseteq missed'
      /\ \A t \in DOMAIN thread' : t \in DOMAIN thread \/ thread'[t] = new
      /\ c \in missed' \/ \E t \in DOMAIN thread' : thread'[t] = new
  <2>1. CASE thread' = Append(thread, new) /\ missed' = missed
    <3>1. /\ DOMAIN thread' = 1 .. l + 1 /\ thread'[l + 1] = new
          /\ \A t \in 1 .. l : thread'[t] = thread[t]
      BY <1>3, <1>6, <2>1 DEF ThreadTypes
    <3> HIDE DEF new, l
    <3>2. /\ l + 1 \in 1 .. l + 1 /\ 1 .. l \subseteq 1 .. l + 1
          /\ \A t \in 1 .. l + 1 : t \in 1 .. l \/ t = l + 1
      BY <1>6
    <3> QED
      BY <1>6, <2>1, <3>1, <3>2
  <2>2. CASE thread' = thread /\ missed' = missed \cup {c}
    BY <2>2
  <2> QED
    BY <1>5, <2>1, <2>2
<1> HIDE DEF l
<1>8. SentTypes' /\ OtherTypes'
  BY <1>1, <1>4 DEF EventInv, EventTypes, SentTypes, OtherTypes
<1>9. BatchTypes'
  BY <1>1, AtEvent, NextEventTypes
<1>10. OpenFds' /\ ReadyOpen'
  BY <1>1 DEF EventInv, WatchInv, OpenFds, ReadyOpen
<1>11. \A k \in i .. n : k # i /\ Held(new_events[k].fd) => Held(new_events[k].fd)'
  BY <1>1 DEF Held
<1>12. BatchOpen' /\ AtSocket'
  BY <1>1, <1>11, AtEvent, NextEventWatch
<1>13. NothingForgotten'
  <2> SUFFICES ASSUME NEW d \in Clients, conn'[d] = "open", Unread(d)', d \notin missed'
               PROVE  Awaited(d)'
    BY DEF NothingForgotten
  <2>1. CASE d = c
    BY <1>7, <2>1 DEF Awaited
  <2>2. CASE d # c
    <3>1. conn[d] = "open" /\ Awaited(d)
      BY <1>1, <1>7 DEF Unread, EventInv, NothingForgotten
    <3>2. new_events[i].fd # fd[d]
      BY <1>2, <2>2, <3>1 DEF EventInv, LoopInv, FdsUnique
    <3> QED
      BY <1>1, <1>7, <3>1, <3>2, AtEvent, AwaitedNext
  <2> QED
    BY <2>1, <2>2
<1>14. CalmInv'
  <2> SUFFICES ASSUME ~astray, \A d \in Clients : over[d] # "reset"
               PROVE  /\ ~broken /\ \A d \in Clients : conn[d] # "closed"
                      /\ \A k \in 1 .. MAXEVENTS : ~new_events[k].err
                      /\ \A t \in DOMAIN thread' :
                            /\ thread'[t].pc = "new" =>
                                  thread'[t].own \in Clients /\ conn[thread'[t].own] = "open"
                            /\ thread'[t].pc = "read" =>
                                  \E d \in Clients : conn[d] = "open" /\ fd[d] = thread'[t].sd
    BY <1>1 DEF CalmInv, Held
  <2>1. /\ ~broken /\ \A d \in Clients : conn[d] # "closed"
        /\ \A k \in 1 .. MAXEVENTS : ~new_events[k].err
        /\ \A t \in DOMAIN thread :
              /\ thread[t].pc = "new" =>
                    thread[t].own \in Clients /\ conn[thread[t].own] = "open"
              /\ thread[t].pc = "read" =>
                    \E d \in Clients : conn[d] = "open" /\ fd[d] = thread[t].sd
    BY DEF EventInv, CalmInv, Held
  <2>2. new.pc = "new" /\ new.own = c
    OBVIOUS
  <2> HIDE DEF new
  <2> QED
    BY <1>2, <1>7, <2>1, <2>2
<1> QED
  BY <1>4, <1>8, <1>9, <1>10, <1>12, <1>13, <1>14, Together

-----------------------------------------------------------------------------
(* The threads.                                                            *)

\* Connection d waits for a thread in this frame.
AwaitedFrom(r, d) ==
    \/ r.own = d /\ r.pc = "new"
    \/ r.sd = fd[d] /\ r.pc = "read"
    \/ r.of = d /\ r.pc = "blocked"

\* Thread t goes on in frame r. Whoever waited for it has been read from, still
\* waits for it, or is one of whom nobody is aware.
LEMMA ThreadWatch ==
    ASSUME EventInv, LoopInv', SentTypes', NEW t \in DOMAIN thread, NEW r \in Frame,
           thread' = [thread EXCEPT ![t] = r], r.pc # "new",
           UNCHANGED <<conn, fd, over, ready, new_events, n, i, loop, refused, broken>>,
           missed \subseteq missed', missed' \subseteq Clients,
           astray' \in BOOLEAN, astray => astray',
           r.pc = "read" /\ ~astray' /\ (\A d \in Clients : over[d] # "reset") => Held(r.sd),
           \A d \in Clients : Unread(d)' => Unread(d),
           \A d \in Clients :
              conn[d] = "open" /\ Unread(d)' /\ d \notin missed' /\ AwaitedFrom(thread[t], d)
                 => AwaitedFrom(r, d)
    PROVE  EventInv'
<1>1. ThreadTypes'
  BY DEF EventInv, ThreadTypes
<1>2. DOMAIN thread' = DOMAIN thread
      /\ \A u \in DOMAIN thread : thread'[u] = IF u = t THEN r ELSE thread[u]
  OBVIOUS
<1>3. OtherTypes'
  BY DEF EventInv, EventTypes, OtherTypes
<1>4. BatchTypes'
  BY DEF EventInv, EventTypes, BatchTypes
<1>5. OpenFds' /\ ReadyOpen' /\ AtSocket'
  BY DEF EventInv, WatchInv, OpenFds, ReadyOpen, AtSocket
<1>6. BatchOpen'
  BY DEF EventInv, WatchInv, BatchOpen, Held
<1>7. NothingForgotten'
  <2> SUFFICES ASSUME NEW d \in Clients, conn'[d] = "open", Unread(d)', d \notin missed'
               PROVE  Awaited(d)'
    BY DEF NothingForgotten
  <2>1. Awaited(d)
    BY DEF EventInv, NothingForgotten
  <2>2. CASE \E u \in DOMAIN thread : AwaitedFrom(thread[u], d)
    <3>1. PICK u \in DOMAIN thread : AwaitedFrom(thread[u], d)
      BY <2>2
    <3>2. AwaitedFrom(thread'[u], d)
      BY <1>2, <3>1
    <3> QED
      BY <1>2, <3>2 DEF Awaited, AwaitedFrom
  <2>3. CASE ~\E u \in DOMAIN thread : AwaitedFrom(thread[u], d)
    BY <2>1, <2>3 DEF Awaited, AwaitedFrom
  <2> QED
    BY <2>2, <2>3
<1>8. CalmInv'
  <2> SUFFICES ASSUME ~astray', \A d \in Clients : over[d] # "reset"
               PROVE  /\ ~broken /\ \A d \in Clients : conn[d] # "closed"
                      /\ \A k \in 1 .. MAXEVENTS : ~new_events[k].err
                      /\ \A u \in DOMAIN thread' :
                            /\ thread'[u].pc = "new" =>
                                  thread'[u].own \in Clients /\ conn[thread'[u].own] = "open"
                            /\ thread'[u].pc = "read" => Held(thread'[u].sd)
    BY DEF CalmInv, Held
  <2>1. /\ ~broken /\ \A d \in Clients : conn[d] # "closed"
        /\ \A k \in 1 .. MAXEVENTS : ~new_events[k].err
        /\ \A u \in DOMAIN thread :
              /\ thread[u].pc = "new" =>
                    thread[u].own \in Clients /\ conn[thread[u].own] = "open"
              /\ thread[u].pc = "read" => Held(thread[u].sd)
    BY DEF EventInv, CalmInv
  <2> QED
    BY <1>2, <2>1
<1> QED
  BY <1>1, <1>3, <1>4, <1>5, <1>6, <1>7, <1>8, Together

\* A thread that comes to its slot in time is on the way to its connection; from
\* one that is late nobody waits any more.
LEMMA ReadSlotWatch ==
    ASSUME EventInv, LoopInv', NEW t \in DOMAIN thread, ReadSlot(t)
    PROVE  EventInv'
<1> DEFINE f   == new_events[thread[t].slot].fd
           c   == thread[t].own
           r   == [thread[t] EXCEPT !.pc = "read", !.sd = f]
           own == c # None /\ f = fd[c]
<1>1. thread[t] \in Frame /\ thread \in Seq(Frame) /\ thread[t].pc = "new"
  BY DEF EventInv, ThreadTypes, ReadSlot
<1>2. c \in Clients \cup {None} /\ thread[t].slot \in 1 .. MAXEVENTS
  BY <1>1 DEF Frame
<1>3. f \in AnyFd
  BY <1>2 DEF EventInv, EventTypes, BatchTypes
<1>4. /\ missed' = IF own THEN missed ELSE missed \cup ({c} \ {None})
      /\ astray' = (astray \/ (c # None /\ ~own))
      /\ UNCHANGED <<conn, fd, sent, taken, over, ready, new_events, n, i, loop, refused,
                     broken>>
  BY DEF ReadSlot
<1>5. r \in Frame /\ r.pc = "read" /\ r.sd = f /\ r.own = c
  BY <1>1, <1>3 DEF Frame, Pcs
<1>6. thread' = [thread EXCEPT ![t] = r]
  BY <1>1 DEF ReadSlot
<1> HIDE DEF r
<1>7. SentTypes' /\ \A d \in Clients : Unread(d)' => Unread(d)
  BY <1>4 DEF EventInv, EventTypes, SentTypes, Unread
<1>8. /\ missed \subseteq missed' /\ missed' \subseteq Clients
      /\ astray' \in BOOLEAN /\ (astray => astray')
  BY <1>2, <1>4 DEF EventInv, EventTypes, OtherTypes
<1>9. ASSUME ~astray', \A d \in Clients : over[d] # "reset" PROVE Held(f)
  <2>1. c \in Clients /\ conn[c] = "open"
    BY <1>1, <1>4, <1>9 DEF EventInv, CalmInv
  <2>2. f = fd[c]
    BY <1>4, <1>9, <2>1
  <2> QED
    BY <2>1, <2>2 DEF Held
<1>10. ASSUME NEW d \in Clients, d \notin missed', AwaitedFrom(thread[t], d)
       PROVE  AwaitedFrom(r, d)
  <2>1. c = d
    BY <1>1, <1>10 DEF AwaitedFrom
  <2>2. f = fd[d]
    BY <1>4, <1>10, <2>1
  <2> QED
    BY <1>5, <2>2 DEF AwaitedFrom
<1> HIDE DEF f, c, own
<1> QED
  BY <1>4, <1>5, <1>6, <1>7, <1>8, <1>9, <1>10, ThreadWatch

\* Who waits for a thread that reads is the connection it reads from.
LEMMA TargetAwaits ==
    ASSUME EventInv, NEW t \in DOMAIN thread, thread[t].pc \in {"read", "blocked"},
           NEW d \in Clients, conn[d] = "open", AwaitedFrom(thread[t], d)
    PROVE  d = Target(t)
BY OwnerOfOpen DEF AwaitedFrom, Target, EventInv, LoopInv

\* Thread t goes on in r, having left nothing unread at its connection, or waiting
\* for more.
LEMMA ReadOnWatch ==
    ASSUME EventInv, LoopInv', SentTypes', NEW t \in DOMAIN thread,
           thread[t].pc \in {"read", "blocked"}, NEW r \in Frame,
           r.pc \in {"blocked", "handle", "done"}, thread' = [thread EXCEPT ![t] = r],
           UNCHANGED <<conn, fd, sent, over, ready, new_events, n, i, loop, history, broken>>,
           \A d \in Clients : Unread(d)' => Unread(d),
           NEW c, c = Target(t), c \in Clients /\ conn[c] = "open" => ~Unread(c)'
    PROVE  EventInv'
<1>1. \A d \in Clients :
         conn[d] = "open" /\ AwaitedFrom(thread[t], d) => d = Target(t)
  BY TargetAwaits
<1>2. /\ astray' = astray /\ refused' = refused /\ astray \in BOOLEAN
      /\ missed' = missed /\ missed \subseteq Clients
  BY DEF EventInv, EventTypes, OtherTypes
<1>3. ASSUME NEW d \in Clients, conn[d] = "open", Unread(d)' PROVE d # Target(t)
  <2>1. d # c
    BY <1>3
  <2> QED
    BY <2>1
<1>4. \A d \in Clients :
         conn[d] = "open" /\ Unread(d)' /\ d \notin missed' /\ AwaitedFrom(thread[t], d)
            => AwaitedFrom(r, d)
  BY <1>1, <1>3
<1> HIDE DEF history
<1> QED
  BY <1>2, <1>4, ThreadWatch

LEMMA ReadWatch ==
    ASSUME EventInv, LoopInv', NEW t \in DOMAIN thread, Read(t)
    PROVE  EventInv'
<1> PICK c : c = Target(t)
  OBVIOUS
<1>1. /\ thread[t] \in Frame /\ thread \in Seq(Frame)
      /\ thread[t].pc \in {"read", "blocked"}
      /\ UNCHANGED <<conn, fd, sent, over, ready, new_events, n, i, loop, history>>
  BY DEF EventInv, ThreadTypes, Read
<1>2. SentTypes /\ sent' = sent
  BY <1>1 DEF EventInv, EventTypes
<1>3. c # None => c \in Clients
  BY <1>1, TargetOwned DEF EventInv
<1>4. ASSUME NEW at \in {"handle", "blocked"}, c # None,
             thread' = [thread EXCEPT ![t].pc = at, ![t].of = c]
      PROVE  \E r \in Frame : r.pc = at /\ thread' = [thread EXCEPT ![t] = r]
  <2> DEFINE r == [thread[t] EXCEPT !.pc = at, !.of = c]
  <2>1. r \in Frame /\ r.pc = at
    BY <1>1, <1>3, <1>4 DEF Frame, Pcs
  <2>2. thread' = [thread EXCEPT ![t] = r]
    BY <1>1, <1>4
  <2> QED
    BY <2>1, <2>2
<1>5. CASE ReadData(t)
  <2>1. /\ c # None /\ taken' = [taken EXCEPT ![c] = sent[c]] /\ broken' = broken
        /\ thread' = [thread EXCEPT ![t].pc = "handle", ![t].of = c]
    BY <1>5 DEF ReadData, HasData
  <2>2. SentTypes'
    BY <1>2, <1>3, <2>1 DEF SentTypes
  <2>3. (\A d \in Clients : Unread(d)' => Unread(d)) /\ taken'[c] = sent'[c]
    BY <1>2, <1>3, <2>1 DEF Unread, SentTypes
  <2>4. sent'[c] \in Nat
    BY <1>2, <1>3, <2>1 DEF SentTypes
  <2>5. ~Unread(c)'
    BY <2>3, <2>4 DEF Unread
  <2>6. PICK r \in Frame : r.pc = "handle" /\ thread' = [thread EXCEPT ![t] = r]
    BY <1>4, <2>1
  <2> HIDE DEF history
  <2> QED
    BY <1>1, <2>1, <2>2, <2>3, <2>5, <2>6, ReadOnWatch
<1>6. ASSUME UNCHANGED taken
      PROVE  SentTypes' /\ \A d \in Clients : Unread(d)' <=> Unread(d)
  BY <1>2, <1>6 DEF SentTypes, Unread
<1>7. CASE ReadEnd(t)
  <2>1. /\ c # None /\ ~Unread(c) /\ taken' = taken /\ broken' = broken
        /\ thread' = [thread EXCEPT ![t] = Done]
    BY <1>7 DEF ReadEnd
  <2>2. Done \in Frame /\ Done.pc = "done"
    BY FdTypes DEF Done, Frame, Pcs, AnyFd
  <2> HIDE DEF history
  <2> QED
    BY <1>1, <1>3, <1>6, <2>1, <2>2, ReadOnWatch
<1>8. CASE ReadSleeps(t)
  <2>1. /\ c # None /\ ~Unread(c) /\ taken' = taken /\ broken' = broken
        /\ thread' = [thread EXCEPT ![t].pc = "blocked", ![t].of = c]
    BY <1>8 DEF ReadSleeps, Readable
  <2>2. PICK r \in Frame : r.pc = "blocked" /\ thread' = [thread EXCEPT ![t] = r]
    BY <1>4, <2>1
  <2> HIDE DEF history
  <2> QED
    BY <1>1, <1>3, <1>6, <2>1, <2>2, ReadOnWatch
\* Where nothing was reset and no thread is astray, there is a connection to read
\* from, and it is not broken.
<1>9. CASE ReadFails(t)
  <2>1. /\ UNCHANGED <<taken, thread>>
        /\ Target(t) # None => over[Target(t)] = "reset"
    BY <1>9 DEF ReadFails, Failing
  <2>2. broken' \in BOOLEAN
    BY <1>9 DEF ReadFails
  <2>3. BatchTypes' /\ OtherTypes' /\ ThreadTypes'
    BY <1>1, <2>1, <2>2 DEF EventInv, EventTypes, BatchTypes, OtherTypes, ThreadTypes
  <2>4. OpenFds' /\ ReadyOpen' /\ AtSocket'
    BY <1>1 DEF EventInv, WatchInv, OpenFds, ReadyOpen, AtSocket
  <2>5. BatchOpen'
    BY <1>1 DEF EventInv, WatchInv, BatchOpen, Held
  <2>6. NothingForgotten'
    BY <1>1, <2>1 DEF EventInv, NothingForgotten, Unread, Awaited
  <2>7. ~(~astray /\ \A d \in Clients : over[d] # "reset")
    <3> SUFFICES ASSUME ~astray, \A d \in Clients : over[d] # "reset" PROVE FALSE
      OBVIOUS
    <3>1. CASE thread[t].pc = "read"
      <4>1. Held(thread[t].sd)
        BY <3>1 DEF EventInv, CalmInv
      <4>2. Target(t) # None
        BY <3>1, <4>1, HeldOwner DEF Target
      <4> QED
        BY <1>1, <2>1, <4>2, TargetOwned DEF EventInv
    <3>2. CASE thread[t].pc = "blocked"
      <4>1. Target(t) \in Clients
        BY <3>2 DEF Target, EventInv, LoopInv, FramesOwned, FrameOwned
      <4> QED
        BY <2>1, <4>1
    <3> QED
      BY <1>1, <3>1, <3>2
  <2>8. CalmInv'
    BY <1>1, <2>7 DEF CalmInv
  <2> QED
    BY <1>6, <2>1, <2>3, <2>4, <2>5, <2>6, <2>8, Together
<1>10. CASE PassOver(t)
  <2>1. broken' = broken /\ thread' = [thread EXCEPT ![t] = Done]
    BY <1>10 DEF PassOver
  <2>2. Done \in Frame /\ Done.pc = "done"
    BY FdTypes DEF Done, Frame, Pcs, AnyFd
  <2>3. CASE c # None /\ taken' = [taken EXCEPT ![c] = sent[c]]
    <3>1. SentTypes'
      BY <1>2, <1>3, <2>3 DEF SentTypes
    <3>2. (\A d \in Clients : Unread(d)' => Unread(d)) /\ taken'[c] = sent'[c]
      BY <1>2, <1>3, <2>3 DEF Unread, SentTypes
    <3>3. sent'[c] \in Nat
      BY <1>2, <1>3, <2>3 DEF SentTypes
    <3>4. ~Unread(c)'
      BY <3>2, <3>3 DEF Unread
    <3> HIDE DEF history
    <3> QED
      BY <1>1, <2>1, <2>2, <3>1, <3>2, <3>4, ReadOnWatch
  <2>4. CASE Failing(t) /\ taken' = taken
    <3>1. c \in Clients /\ conn[c] = "open" => ~Unread(c)'
      <4>1. c \in Clients => c # None
        BY EventLoopAssumption DEF EventLoopAssumption
      <4> QED
        BY <1>2, <1>6, <2>4, <4>1 DEF Failing
    <3> HIDE DEF history
    <3> QED
      BY <1>1, <1>6, <2>1, <2>2, <2>4, <3>1, ReadOnWatch
  <2> QED
    BY <1>10, <2>3, <2>4 DEF PassOver, HasData
<1> QED
  BY <1>5, <1>7, <1>8, <1>9, <1>10 DEF Read

LEMMA HandleWatch ==
    ASSUME EventInv, LoopInv', NEW t \in DOMAIN thread, Handle(t)
    PROVE  EventInv'
<1>1. /\ thread[t].pc = "handle" /\ thread' = [thread EXCEPT ![t] = Done]
      /\ UNCHANGED <<conn, fd, sent, taken, over, ready, new_events, n, i, loop, missed,
                     astray, refused, broken>>
  BY DEF Handle
<1>2. Done \in Frame /\ Done.pc = "done"
  BY FdTypes DEF Done, Frame, Pcs, AnyFd
<1>3. SentTypes' /\ \A d \in Clients : Unread(d)' => Unread(d)
  BY <1>1 DEF EventInv, EventTypes, SentTypes, Unread
<1>4. astray \in BOOLEAN /\ missed \subseteq Clients
  BY DEF EventInv, EventTypes, OtherTypes
<1>5. \A d \in Clients : ~AwaitedFrom(thread[t], d)
  BY <1>1 DEF AwaitedFrom
<1> QED
  BY <1>1, <1>2, <1>3, <1>4, <1>5, ThreadWatch

-----------------------------------------------------------------------------
LEMMA InitWatch == Init => EventInv
<1> SUFFICES ASSUME Init PROVE EventInv
  OBVIOUS
<1>1. LoopInv
  BY InitLoop
<1>2. SentTypes /\ BatchTypes /\ OtherTypes /\ ThreadTypes
  <2>1. SentTypes
    BY DEF Init, SentTypes
  <2>2. new_events = [k \in 1 .. MAXEVENTS |-> [fd |-> 0, err |-> FALSE]]
    BY DEF Init
  <2>3. [fd |-> 0, err |-> FALSE] \in [fd : AnyFd, err : BOOLEAN]
    BY FdTypes
  <2>4. BatchTypes
    BY <2>2, <2>3 DEF Init, BatchTypes
  <2>5. OtherTypes
    <3>1. over \in [Clients -> {"no", "end", "reset"}] /\ ready \in Seq(Clients \cup {None})
      BY DEF Init
    <3>2. /\ missed \subseteq Clients /\ astray \in BOOLEAN /\ refused \in BOOLEAN
          /\ broken \in BOOLEAN
      BY DEF Init
    <3> QED
      BY <3>1, <3>2 DEF OtherTypes
  <2>6. ThreadTypes
    BY DEF Init, ThreadTypes
  <2> QED
    BY <2>1, <2>4, <2>5, <2>6
<1>3. WatchInv
  BY DEF Init, WatchInv, OpenFds, ReadyOpen, BatchOpen, AtSocket, ToSet, Distinct
<1>4. NothingForgotten
  BY DEF Init, NothingForgotten
<1>5. CalmInv
  <2>1. DOMAIN thread = {} /\ \A k \in 1 .. MAXEVENTS : ~new_events[k].err
    BY DEF Init
  <2> QED
    BY <2>1 DEF Init, CalmInv
<1> QED
  BY <1>1, <1>2, <1>3, <1>4, <1>5 DEF EventInv, EventTypes

LEMMA NextWatch == EventInv /\ [Next]_vars => EventInv'
<1> SUFFICES ASSUME EventInv, [Next]_vars PROVE EventInv'
  OBVIOUS
<1>1. LoopInv'
  BY NextLoop DEF EventInv
<1>2. CASE UNCHANGED vars
  <2>1. SentTypes' /\ BatchTypes' /\ OtherTypes' /\ ThreadTypes'
    BY <1>2 DEF vars, EventInv, EventTypes, SentTypes, BatchTypes, OtherTypes, ThreadTypes
  <2>2. OpenFds' /\ ReadyOpen' /\ BatchOpen' /\ AtSocket'
    BY <1>2 DEF vars, EventInv, WatchInv, OpenFds, ReadyOpen, BatchOpen, AtSocket, Held
  <2>3. NothingForgotten'
    BY <1>2 DEF vars, EventInv, NothingForgotten, Unread, Awaited
  <2>4. CalmInv'
    BY <1>2 DEF vars, EventInv, CalmInv, Held
  <2> QED
    BY <1>1, <2>1, <2>2, <2>3, <2>4, Together
<1>3. ASSUME NEW c \in Clients, Connect(c) \/ Send(c) \/ Leave(c) PROVE EventInv'
  BY <1>1, <1>3, ClientWatch
<1>4. CASE add_client_handler
  BY <1>1, <1>4, WaitWatch, WaitOnWatch, CloseWatch, StartThreadWatch, BeginAcceptWatch,
     AcceptWatch, AcceptedWatch DEF add_client_handler
<1>5. ASSUME NEW t \in DOMAIN thread, client_Communication(t) PROVE EventInv'
  BY <1>1, <1>5, ReadSlotWatch, ReadWatch, HandleWatch DEF client_Communication
<1> QED
  BY <1>2, <1>3, <1>4, <1>5 DEF Next, Server

\* Every descriptor, event and frame of a thread is what it is meant to be: no
\* event is looked at beyond those of the wait, and no thread is given the slot of
\* none (add_client_handler).
THEOREM TypeCorrect == Spec => []TypeOK
<1>1. EventInv => TypeOK
  BY TypesGiven DEF EventInv
<1> QED
  BY <1>1, InitWatch, NextWatch, PTL DEF Spec

\* An edge comes once, and nothing a client has sent lies unread with nobody on the
\* way to it, but for the clients of whose last event nobody is aware.
THEOREM NothingForgottenHolds == Spec => []NothingForgotten
<1>1. EventInv => NothingForgotten
  BY DEF EventInv
<1> QED
  BY <1>1, InitWatch, NextWatch, PTL DEF Spec

\* A read fails, and assemble_tlv is called with a size of -1, only when a client
\* resets its connection or a thread has been led astray by its slot.
THEOREM NoFailedReadHolds == Spec => []NoFailedRead
<1>1. EventInv => NoFailedRead
  BY DEF EventInv, CalmInv, NoFailedRead
<1> QED
  BY <1>1, InitWatch, NextWatch, PTL DEF Spec

=============================================================================
