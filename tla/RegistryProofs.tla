--------------------------- MODULE RegistryProofs ---------------------------
(***************************************************************************)
(* Proofs about Registry, for any clients, groups and resets. Who stays in *)
(* the array is a matter of time: the age of a stamp is never more than    *)
(* one above the age of the oldest message that waits. Who stays in the    *)
(* lists is a matter of order: a node that is being linked still leads to  *)
(* all that a walk came to before.                                         *)
(***************************************************************************)
EXTENDS Registry, SequenceTheorems, FiniteSetTheorems, TLAPS

Pcs == {"none", "look", "push", "link", "claim", "groups", "stamp", "end", "done",
        "cancelled"}

Frame == [pc : Pcs, k : 0 .. 2, temp : Nodes \cup {None}, doomed : BOOLEAN]

\* The places of a registration in the lists, and those after it has claimed a
\* place in the array.
Listing == {"look", "push", "link"}
Claimed == {"groups", "stamp", "done"}

-----------------------------------------------------------------------------
(* The constants.                                                          *)

LEMMA FdFacts ==
    /\ Cardinality(Clients) \in Nat /\ Cardinality(Clients) > 0
    /\ FirstFd \in Fds /\ -1 \notin Fds /\ Fds \subseteq Nat
<1>1. Cardinality(Clients) \in Nat /\ Cardinality(Clients) # 0
  BY RegistryAssumption, FS_CardinalityType, FS_EmptySet
<1> QED
  BY <1>1, RegistryAssumption DEF Fds

LEMMA JoinFacts ==
    ASSUME NEW c \in Clients
    PROVE  /\ Len(Joins[c]) \in 1 .. 2 /\ DOMAIN Joins[c] = 1 .. Len(Joins[c])
           /\ \A k \in DOMAIN Joins[c] :
                 k \in 1 .. 2 /\ Joins[c][k] \in Groups /\ <<c, k>> \in Nodes
<1>1. Joins[c] \in Seq(Groups) /\ Len(Joins[c]) \in 1 .. 2
  BY RegistryAssumption
<1>2. DOMAIN Joins[c] = 1 .. Len(Joins[c])
  BY <1>1
<1>3. ASSUME NEW k \in DOMAIN Joins[c]
      PROVE  k \in 1 .. 2 /\ Joins[c][k] \in Groups /\ <<c, k>> \in Nodes
  <2>1. k \in 1 .. 2
    <3>1. ASSUME NEW l \in 1 .. 2, k \in 1 .. l PROVE k \in 1 .. 2
      BY <3>1
    <3> QED
      BY <1>1, <1>2, <1>3, <3>1
  <2>2. Joins[c][k] \in Groups
    BY <1>1, <1>2, ElementOfSeq
  <2>3. <<c, k>> \in Nodes
    BY <2>1 DEF Nodes
  <2> QED
    BY <2>1, <2>2, <2>3
<1> QED
  BY <1>1, <1>2, <1>3

-----------------------------------------------------------------------------
(* Types.                                                                  *)

ClientTypes ==
    /\ conn \in [Clients -> {"new", "up", "gone", "reset", "closed"}]
    /\ fd \in [Clients -> Fds \cup {-1}]
    /\ wire \in [Clients -> SUBSET {"register", "alive", "eof"}]
    /\ age \in [Clients -> 0 .. Late]

ServerTypes ==
    /\ open \subseteq Fds /\ client_count \in 0 .. Cardinality(Clients)
    /\ client_thread_id \in [Threads -> Clients \cup {None, "other"}]
    /\ crashed \in BOOLEAN

TableTypes ==
    /\ client_socket_fd \in [Fds -> Fds \cup {-1}]
    /\ \A f \in Fds : client_socket_fd[f] \in {-1, f}
    /\ groups_joined \in [Fds -> Clients \cup {None}]
    /\ timestamp \in [Fds -> 0 .. Old]

ListTypes ==
    /\ head \in [Groups -> Nodes \cup {None}] /\ next \in [Nodes -> Nodes \cup {None}]
    /\ raced \subseteq Groups

RegTypes == reg \in [Clients -> Frame]

TimerTypes ==
    /\ timer \in [pc : {"sleep", "look", "cancel", "remove", "close"}, i : Fds, t : 0 .. Sleep]
    /\ hasty \subseteq Clients

Types == ClientTypes /\ ServerTypes /\ TableTypes /\ ListTypes /\ RegTypes /\ TimerTypes

CountInv == client_count = Cardinality({c \in Clients : conn[c] # "new"})

\* How far a client has come.
PhaseOf(c) ==
    /\ conn[c] = "new" => fd[c] = -1 /\ reg[c].pc = "none" /\ wire[c] = {}
    /\ conn[c] # "new" => fd[c] # -1
    /\ "register" \in wire[c] => reg[c].pc = "none"
    /\ "eof" \in wire[c] => conn[c] # "up"
    /\ reg[c].pc \in Listing => reg[c].k \in DOMAIN Joins[c]

\* Only a client that has written its groups is the one of an entry.
EntryOf(c) ==
    \A f \in Fds : groups_joined[f] = c => fd[c] = f /\ reg[c].pc \in {"stamp", "done"}

Phases == \A c \in Clients : PhaseOf(c) /\ EntryOf(c)

TypeInv == Types /\ CountInv /\ Phases

LEMMA TypesGiven == Types <=> TypeOK
BY DEF Types, ClientTypes, ServerTypes, TableTypes, ListTypes, RegTypes, TimerTypes,
       Frame, Pcs, TypeOK

LEMMA InitTypes == Init => TypeInv
<1> SUFFICES ASSUME Init PROVE TypeInv
  OBVIOUS
<1> USE DEF Init
<1>1. ClientTypes /\ ServerTypes
  <2>1. 0 \in 0 .. Late /\ 0 \in 0 .. Cardinality(Clients)
    BY FdFacts, RegistryAssumption
  <2>2. age \in [Clients -> 0 .. Late] /\ client_count \in 0 .. Cardinality(Clients)
    BY <2>1
  <2>3. /\ conn \in [Clients -> {"new", "up", "gone", "reset", "closed"}]
        /\ fd \in [Clients -> Fds \cup {-1}]
        /\ wire \in [Clients -> SUBSET {"register", "alive", "eof"}]
    OBVIOUS
  <2>4. client_thread_id \in [Threads -> Clients \cup {None, "other"}]
    OBVIOUS
  <2> QED
    BY <2>2, <2>3, <2>4 DEF ClientTypes, ServerTypes
<1>2. TableTypes
  BY DEF TableTypes, initialize_client_array, Old, Limit
<1>3. ListTypes
  BY DEF ListTypes, initialize_group_array
<1>4. RegTypes
  BY DEF RegTypes, Idle, Frame, Pcs
<1>5. TimerTypes
  BY FdFacts DEF TimerTypes, Sleep
<1>6. CountInv
  <2>1. {c \in Clients : conn[c] # "new"} = {}
    OBVIOUS
  <2> QED
    BY <2>1, FS_EmptySet DEF CountInv
<1>7. Phases
  BY RegistryAssumption DEF Phases, PhaseOf, EntryOf, Idle, Listing, initialize_client_array
<1> QED
  BY <1>1, <1>2, <1>3, <1>4, <1>5, <1>6, <1>7 DEF TypeInv, Types

\* A step that connects nobody.
LEMMA CountKept ==
    ASSUME CountInv, client_count' = client_count,
           \A c \in Clients : conn'[c] = "new" <=> conn[c] = "new"
    PROVE  CountInv'
<1>1. {c \in Clients : conn'[c] # "new"} = {c \in Clients : conn[c] # "new"}
  OBVIOUS
<1> QED
  BY <1>1 DEF CountInv

-----------------------------------------------------------------------------
(* What the steps of a registration do to its frame.                       *)

LEMMA FrameOf ==
    ASSUME TypeInv, NEW c \in Clients, reg[c].pc \in Listing
    PROVE  /\ reg[c] \in Frame /\ reg[c].k \in DOMAIN Joins[c]
           /\ Group(c) \in Groups /\ Node(c) \in Nodes /\ Node(c) = <<c, reg[c].k>>
BY JoinFacts DEF TypeInv, Types, RegTypes, Phases, PhaseOf, Group, Node

\* The step after a node is in the list.
After(c, r) ==
    /\ r.pc = "look" => r.k = reg[c].k + 1 /\ r.k \in DOMAIN Joins[c]
    /\ r.pc = "claim" => reg[c].k = Len(Joins[c])
    /\ r.pc \in {"look", "claim"}

LEMMA NextGroupFrame ==
    ASSUME TypeInv, NEW c \in Clients, reg[c].pc \in Listing, NextGroup(c)
    PROVE  \E r \in Frame : reg' = [reg EXCEPT ![c] = r] /\ After(c, r)
<1>1. /\ reg[c] \in Frame /\ reg \in [Clients -> Frame]
      /\ reg[c].k \in 1 .. Len(Joins[c]) /\ Len(Joins[c]) \in 1 .. 2
  BY FrameOf, JoinFacts DEF TypeInv, Types, RegTypes
<1>2. CASE reg[c].k < Len(Joins[c])
  <2> DEFINE r == [reg[c] EXCEPT !.pc = "look", !.k = reg[c].k + 1]
  <2>1. reg[c].k + 1 \in 1 .. Len(Joins[c]) /\ reg[c].k + 1 \in 0 .. 2
    <3>1. \A l \in 1 .. 2 : \A k \in 1 .. l : k < l => k + 1 \in 1 .. l /\ k + 1 \in 0 .. 2
      OBVIOUS
    <3> QED
      BY <1>1, <1>2, <3>1
  <2>2. r \in Frame /\ r.pc = "look" /\ r.k = reg[c].k + 1
    BY <1>1, <2>1 DEF Frame, Pcs
  <2>3. reg' = [reg EXCEPT ![c] = r]
    BY <1>1, <1>2 DEF NextGroup
  <2> HIDE DEF r
  <2> QED
    BY <2>1, <2>2, <2>3, JoinFacts DEF After
<1>3. CASE ~(reg[c].k < Len(Joins[c]))
  <2> DEFINE r == [reg[c] EXCEPT !.pc = "claim"]
  <2>1. r \in Frame /\ r.pc = "claim"
    BY <1>1 DEF Frame, Pcs
  <2>2. reg' = [reg EXCEPT ![c] = r]
    BY <1>1, <1>3 DEF NextGroup
  <2>3. reg[c].k = Len(Joins[c])
    BY <1>1, <1>3
  <2> HIDE DEF r
  <2> QED
    BY <2>1, <2>2, <2>3 DEF After
<1> QED
  BY <1>2, <1>3

LEMMA LookAtHeadFrame ==
    ASSUME TypeInv, NEW c \in Clients, LookAtHead(c)
    PROVE  \E r \in Frame :
              /\ reg' = [reg EXCEPT ![c] = r] /\ reg[c].pc = "look"
              /\ r.pc \in {"cancelled", "push"}
              /\ r.pc = "push" => r.k = reg[c].k /\ r.temp = head[Group(c)]
<1>1. reg[c] \in Frame /\ reg \in [Clients -> Frame] /\ reg[c].pc = "look"
  BY DEF TypeInv, Types, RegTypes, LookAtHead
<1>2. Group(c) \in Groups
  BY <1>1, FrameOf DEF Listing
<1>3. head[Group(c)] \in Nodes \cup {None}
  BY <1>2 DEF TypeInv, Types, ListTypes
<1>4. CASE reg[c].doomed
  <2>1. Idle("cancelled") \in Frame /\ Idle("cancelled").pc = "cancelled"
    BY DEF Idle, Frame, Pcs
  <2> QED
    BY <1>1, <1>4, <2>1 DEF LookAtHead
<1>5. CASE ~reg[c].doomed
  <2> DEFINE r == [reg[c] EXCEPT !.pc = "push", !.temp = head[Group(c)]]
  <2>1. r \in Frame /\ r.pc = "push" /\ r.k = reg[c].k /\ r.temp = head[Group(c)]
    BY <1>1, <1>3 DEF Frame, Pcs
  <2>2. reg' = [reg EXCEPT ![c] = r]
    BY <1>1, <1>5 DEF LookAtHead
  <2> HIDE DEF r
  <2> QED
    BY <1>1, <2>1, <2>2
<1> QED
  BY <1>4, <1>5

LEMMA PushNodeFrame ==
    ASSUME TypeInv, NEW c \in Clients, PushNode(c)
    PROVE  \E r \in Frame :
              /\ reg' = [reg EXCEPT ![c] = r] /\ reg[c].pc = "push"
              /\ \/ reg[c].temp = None /\ After(c, r)
                 \/ /\ reg[c].temp # None /\ r.pc = "link"
                    /\ r.k = reg[c].k /\ r.temp = reg[c].temp
<1>1. reg[c] \in Frame /\ reg \in [Clients -> Frame] /\ reg[c].pc = "push"
  BY DEF TypeInv, Types, RegTypes, PushNode
<1>2. CASE reg[c].temp = None
  BY <1>1, <1>2, NextGroupFrame DEF PushNode, Listing
<1>3. CASE reg[c].temp # None
  <2> DEFINE r == [reg[c] EXCEPT !.pc = "link"]
  <2>1. r \in Frame /\ r.pc = "link" /\ r.k = reg[c].k /\ r.temp = reg[c].temp
    BY <1>1 DEF Frame, Pcs
  <2>2. reg' = [reg EXCEPT ![c] = r]
    BY <1>1, <1>3 DEF PushNode
  <2> HIDE DEF r
  <2> QED
    BY <1>1, <1>3, <2>1, <2>2
<1> QED
  BY <1>2, <1>3

LEMMA LinkNodeFrame ==
    ASSUME TypeInv, NEW c \in Clients, LinkNode(c)
    PROVE  \E r \in Frame :
              reg' = [reg EXCEPT ![c] = r] /\ reg[c].pc = "link" /\ After(c, r)
BY NextGroupFrame DEF LinkNode, Listing

LEMMA ClaimPlaceFrame ==
    ASSUME TypeInv, NEW c \in Clients, ClaimPlace(c)
    PROVE  \E r \in Frame :
              /\ reg' = [reg EXCEPT ![c] = r] /\ reg[c].pc = "claim"
              /\ \/ client_socket_fd[fd[c]] = -1 /\ r.pc = "groups"
                 \/ client_socket_fd[fd[c]] # -1 /\ r.pc \in {"cancelled", "end"}
<1>1. reg[c] \in Frame /\ reg \in [Clients -> Frame] /\ reg[c].pc = "claim"
  BY DEF TypeInv, Types, RegTypes, ClaimPlace
<1>2. CASE client_socket_fd[fd[c]] = -1
  <2> DEFINE r == [reg[c] EXCEPT !.pc = "groups"]
  <2>1. r \in Frame /\ r.pc = "groups"
    BY <1>1 DEF Frame, Pcs
  <2>2. reg' = [reg EXCEPT ![c] = r]
    BY <1>1, <1>2 DEF ClaimPlace
  <2> HIDE DEF r
  <2> QED
    BY <1>1, <1>2, <2>1, <2>2
<1>3. CASE client_socket_fd[fd[c]] # -1
  <2> DEFINE r == IF reg[c].doomed THEN Idle("cancelled") ELSE [reg[c] EXCEPT !.pc = "end"]
  <2>1. r \in Frame /\ r.pc \in {"cancelled", "end"}
    BY <1>1 DEF Frame, Pcs, Idle
  <2>2. reg' = [reg EXCEPT ![c] = r]
    BY <1>1, <1>3 DEF ClaimPlace
  <2> HIDE DEF r
  <2> QED
    BY <1>1, <1>3, <2>1, <2>2
<1> QED
  BY <1>2, <1>3

LEMMA KeepGroupsFrame ==
    ASSUME TypeInv, NEW c \in Clients, KeepGroups(c)
    PROVE  \E r \in Frame :
              reg' = [reg EXCEPT ![c] = r] /\ reg[c].pc = "groups" /\ r.pc = "stamp"
<1>1. reg[c] \in Frame /\ reg \in [Clients -> Frame] /\ reg[c].pc = "groups"
  BY DEF TypeInv, Types, RegTypes, KeepGroups
<1> DEFINE r == [reg[c] EXCEPT !.pc = "stamp"]
<1>2. r \in Frame /\ r.pc = "stamp"
  BY <1>1 DEF Frame, Pcs
<1>3. reg' = [reg EXCEPT ![c] = r]
  BY <1>1 DEF KeepGroups
<1> HIDE DEF r
<1> QED
  BY <1>1, <1>2, <1>3

LEMMA StampClientFrame ==
    ASSUME TypeInv, NEW c \in Clients, StampClient(c)
    PROVE  \E r \in Frame :
              reg' = [reg EXCEPT ![c] = r] /\ reg[c].pc \in {"stamp", "end"} /\ r.pc = "done"
<1>1. Idle("done") \in Frame /\ Idle("done").pc = "done"
  BY DEF Idle, Frame, Pcs
<1> QED
  BY <1>1 DEF StampClient

-----------------------------------------------------------------------------
(* Every step keeps the types and the phases.                              *)

LEMMA MoveTypes ==
    ASSUME TypeInv, NEW c \in Clients, NEW r \in Frame, reg' = [reg EXCEPT ![c] = r],
           reg[c].pc # "none", r.pc # "none",
           r.pc \in Listing => r.k \in DOMAIN Joins[c],
           reg[c].pc \in {"stamp", "done"} => r.pc \in {"stamp", "done"},
           \A f \in Fds : \/ groups_joined'[f] = groups_joined[f]
                          \/ groups_joined'[f] = c /\ f = fd[c] /\ r.pc = "stamp",
           UNCHANGED client
    PROVE  RegTypes' /\ ClientTypes' /\ Phases'
<1>1. RegTypes'
  BY DEF TypeInv, Types, RegTypes
<1>2. \A d \in Clients : reg'[d] = IF d = c THEN r ELSE reg[d]
  BY DEF TypeInv, Types, RegTypes
<1>3. UNCHANGED <<conn, fd, wire, age>>
  BY DEF client
<1>4. ClientTypes'
  BY <1>3 DEF TypeInv, Types, ClientTypes
<1>5. ASSUME NEW d \in Clients PROVE PhaseOf(d)' /\ EntryOf(d)'
  <2>1. PhaseOf(d) /\ EntryOf(d) /\ PhaseOf(c)
    BY DEF TypeInv, Phases
  <2>2. PhaseOf(d)'
    BY <1>2, <1>3, <2>1 DEF PhaseOf
  <2>3. EntryOf(d)'
    BY <1>2, <1>3, <2>1 DEF EntryOf
  <2> QED
    BY <2>2, <2>3
<1> QED
  BY <1>1, <1>4, <1>5 DEF Phases

LEMMA HandleTypes ==
    ASSUME TypeInv, NEW c \in Clients, Handle_group_id_regs(c)
    PROVE  TypeInv'
<1>1. /\ UNCHANGED <<open, client_count, crashed, timer, hasty>> /\ UNCHANGED client
      /\ conn' = conn
  BY DEF Handle_group_id_regs, client
<1>2. TimerTypes' /\ CountInv'
  BY <1>1, CountKept DEF TypeInv, Types, TimerTypes
<1>3. CASE LookAtHead(c) /\ UNCHANGED client_thread_id
  <2>1. PICK r \in Frame :
              /\ reg' = [reg EXCEPT ![c] = r] /\ reg[c].pc = "look"
              /\ r.pc \in {"cancelled", "push"}
              /\ r.pc = "push" => r.k = reg[c].k /\ r.temp = head[Group(c)]
    BY <1>3, LookAtHeadFrame
  <2>2. reg[c].k \in DOMAIN Joins[c]
    BY <2>1, FrameOf DEF Listing
  <2>3. UNCHANGED <<client_thread_id, table>> /\ UNCHANGED <<head, next, raced>>
    BY <1>3 DEF LookAtHead
  <2>4. RegTypes' /\ ClientTypes' /\ Phases'
    BY <1>1, <2>1, <2>2, <2>3, MoveTypes DEF Listing, table
  <2>5. ServerTypes' /\ TableTypes' /\ ListTypes'
    BY <1>1, <2>3 DEF TypeInv, Types, ServerTypes, TableTypes, ListTypes, table
  <2> QED
    BY <1>2, <2>4, <2>5 DEF TypeInv, Types
<1>4. CASE (PushNode(c) \/ LinkNode(c)) /\ UNCHANGED client_thread_id
  <2>1. PICK r \in Frame :
              /\ reg' = [reg EXCEPT ![c] = r] /\ reg[c].pc \in {"push", "link"}
              /\ r.pc \in {"link", "look", "claim"}
              /\ r.pc = "link" => r.k = reg[c].k
              /\ r.pc = "look" => r.k \in DOMAIN Joins[c]
    BY <1>4, PushNodeFrame, LinkNodeFrame DEF After
  <2>2. /\ reg[c].k \in DOMAIN Joins[c] /\ Group(c) \in Groups /\ Node(c) \in Nodes
        /\ reg[c].temp \in Nodes \cup {None}
    BY <2>1, FrameOf DEF Listing, Frame
  <2>3. UNCHANGED <<client_thread_id, table>>
    BY <1>4 DEF PushNode, LinkNode
  <2>4. RegTypes' /\ ClientTypes' /\ Phases'
    BY <1>1, <2>1, <2>2, <2>3, MoveTypes DEF Listing, table
  <2>5. ListTypes'
    BY <1>4, <2>2 DEF PushNode, LinkNode, SetHead, TypeInv, Types, ListTypes
  <2>6. ServerTypes' /\ TableTypes'
    BY <1>1, <2>3 DEF TypeInv, Types, ServerTypes, TableTypes, table
  <2> QED
    BY <1>2, <2>4, <2>5, <2>6 DEF TypeInv, Types
<1>5. ASSUME fd[c] \in Fds,
             \/ (ClaimPlace(c) \/ KeepGroups(c)) /\ UNCHANGED client_thread_id
             \/ StampClient(c)
      PROVE  TypeInv'
  <2>1. UNCHANGED <<head, next, raced>>
    BY <1>5 DEF ClaimPlace, KeepGroups, StampClient, lists
  <2>2. ListTypes'
    BY <2>1 DEF TypeInv, Types, ListTypes
  <2>3. client_thread_id' \in [Threads -> Clients \cup {None, "other"}]
    <3>1. client_thread_id \in [Threads -> Clients \cup {None, "other"}]
      BY DEF TypeInv, Types, ServerTypes
    <3> QED
      BY <1>5, <3>1 DEF StampClient
  <2>4. ServerTypes'
    BY <1>1, <2>3 DEF TypeInv, Types, ServerTypes
  <2>5. TableTypes'
    <3>1. CASE ClaimPlace(c)
      BY <1>5, <3>1 DEF ClaimPlace, TypeInv, Types, TableTypes
    <3>2. CASE KeepGroups(c)
      BY <1>5, <3>2 DEF KeepGroups, TypeInv, Types, TableTypes
    <3>3. CASE StampClient(c)
      <4>1. 0 \in 0 .. Old
        BY DEF Old, Limit
      <4> QED
        BY <1>5, <3>3, <4>1 DEF StampClient, Stamp, TypeInv, Types, TableTypes
    <3> QED
      BY <1>5, <3>1, <3>2, <3>3
  <2>6. \A f \in Fds : \/ groups_joined'[f] = groups_joined[f]
                       \/ groups_joined'[f] = c /\ f = fd[c] /\ KeepGroups(c)
    BY <1>5 DEF ClaimPlace, KeepGroups, StampClient, TypeInv, Types, TableTypes
  <2>7. RegTypes' /\ ClientTypes' /\ Phases'
    <3>1. CASE ClaimPlace(c)
      <4>1. PICK r \in Frame :
                /\ reg' = [reg EXCEPT ![c] = r] /\ reg[c].pc = "claim"
                /\ r.pc \in {"groups", "cancelled", "end"}
        BY <3>1, ClaimPlaceFrame
      <4>2. groups_joined' = groups_joined
        BY <3>1 DEF ClaimPlace
      <4> QED
        BY <1>1, <4>1, <4>2, MoveTypes DEF Listing
    <3>2. CASE KeepGroups(c)
      <4>1. PICK r \in Frame :
                reg' = [reg EXCEPT ![c] = r] /\ reg[c].pc = "groups" /\ r.pc = "stamp"
        BY <3>2, KeepGroupsFrame
      <4> QED
        BY <1>1, <2>6, <4>1, MoveTypes DEF Listing
    <3>3. CASE StampClient(c)
      <4>1. PICK r \in Frame :
                /\ reg' = [reg EXCEPT ![c] = r] /\ reg[c].pc \in {"stamp", "end"}
                /\ r.pc = "done"
        BY <3>3, StampClientFrame
      <4>2. groups_joined' = groups_joined
        BY <3>3 DEF StampClient
      <4> QED
        BY <1>1, <4>1, <4>2, MoveTypes DEF Listing
    <3> QED
      BY <1>5, <3>1, <3>2, <3>3
  <2> QED
    BY <1>2, <2>2, <2>4, <2>5, <2>7 DEF TypeInv, Types
<1>6. fd[c] \in Fds
  <2>1. reg[c].pc # "none"
    BY DEF Handle_group_id_regs, LookAtHead, PushNode, LinkNode, ClaimPlace, KeepGroups,
           StampClient
  <2> QED
    BY <2>1 DEF TypeInv, Phases, PhaseOf, Types, ClientTypes
<1> QED
  BY <1>3, <1>4, <1>5, <1>6 DEF Handle_group_id_regs

LEMMA ConnectTypes == ASSUME TypeInv, NEW c \in Clients, Connect(c) PROVE TypeInv'
<1>1. PICK f \in Fds \ open :
          fd' = [fd EXCEPT ![c] = f] /\ open' = open \cup {f}
  BY DEF Connect
<1>2. /\ conn[c] = "new" /\ conn' = [conn EXCEPT ![c] = "up"]
      /\ client_count' = client_count + 1
      /\ wire' = [wire EXCEPT ![c] = @ \cup {"register"}] /\ age' = age
      /\ UNCHANGED <<client_thread_id, crashed, client_socket_fd, groups_joined, timestamp>>
      /\ UNCHANGED <<head, next, raced, reg, timer, hasty>>
  BY DEF Connect, Send, table, lists
<1>3. reg[c].pc = "none" /\ wire[c] = {} /\ PhaseOf(c)
  BY <1>2 DEF TypeInv, Phases, PhaseOf
<1>4. ClientTypes'
  BY <1>1, <1>2, <1>3 DEF TypeInv, Types, ClientTypes
<1>5. TableTypes' /\ ListTypes' /\ RegTypes' /\ TimerTypes'
  BY <1>2 DEF TypeInv, Types, TableTypes, ListTypes, RegTypes, TimerTypes
<1>6. CountInv' /\ client_count' <= Cardinality(Clients)
  <2> DEFINE S == {d \in Clients : conn[d] # "new"}
             T == {d \in Clients : conn'[d] # "new"}
  <2>1. IsFiniteSet(S) /\ S \subseteq Clients /\ c \notin S
    BY <1>2, RegistryAssumption, FS_Subset
  <2>2. T = S \cup {c} /\ T \subseteq Clients
    BY <1>2 DEF TypeInv, Types, ClientTypes
  <2>3. client_count = Cardinality(S)
    BY DEF TypeInv, CountInv
  <2> HIDE DEF S
  <2>4. Cardinality(S \cup {c}) = Cardinality(S) + 1
    BY <2>1, FS_AddElement
  <2>5. Cardinality(T) <= Cardinality(Clients)
    BY <2>2, RegistryAssumption, FS_Subset
  <2>6. client_count' = Cardinality(T)
    BY <1>2, <2>2, <2>3, <2>4
  <2> QED
    BY <2>5, <2>6 DEF CountInv
<1>7. ServerTypes'
  <2>1. client_count \in 0 .. Cardinality(Clients) /\ Cardinality(Clients) \in Nat
    BY FdFacts DEF TypeInv, Types, ServerTypes
  <2>2. client_count' \in 0 .. Cardinality(Clients)
    BY <1>2, <1>6, <2>1
  <2> QED
    BY <1>1, <1>2, <2>2 DEF TypeInv, Types, ServerTypes
<1>8. Phases'
  <2> SUFFICES ASSUME NEW d \in Clients PROVE PhaseOf(d)' /\ EntryOf(d)'
    BY DEF Phases
  <2>1. PhaseOf(d) /\ EntryOf(d) /\ EntryOf(c)
    BY DEF TypeInv, Phases
  <2>2. d # c => conn'[d] = conn[d] /\ fd'[d] = fd[d] /\ wire'[d] = wire[d]
    BY <1>1, <1>2 DEF TypeInv, Types, ClientTypes
  <2>3. conn'[c] = "up" /\ fd'[c] # -1 /\ wire'[c] = {"register"}
    BY <1>1, <1>2, <1>3, FdFacts DEF TypeInv, Types, ClientTypes
  <2>4. PhaseOf(d)'
    BY <1>2, <1>3, <2>1, <2>2, <2>3 DEF PhaseOf
  <2>5. EntryOf(d)'
    BY <1>2, <1>3, <2>1, <2>2 DEF EntryOf
  <2> QED
    BY <2>4, <2>5
<1> QED
  BY <1>4, <1>5, <1>6, <1>7, <1>8 DEF TypeInv, Types

\* The process ends, or its connection is reset.
LEMMA EndTypes ==
    ASSUME TypeInv, NEW c \in Clients, Exit(c) \/ Reset(c)
    PROVE  TypeInv'
<1>1. PICK at \in {"gone", "reset"} :
          /\ conn[c] # "new" /\ conn' = [conn EXCEPT ![c] = at]
  BY DEF Exit, Reset
<1>2. PICK w \in {wire[c] \cup {"eof"}, {}} : wire' = [wire EXCEPT ![c] = w]
  BY DEF Exit, Reset, Send
<1>3. /\ fd' = fd /\ open' \subseteq open /\ age' \in {age, [age EXCEPT ![c] = 0]}
      /\ UNCHANGED <<client_count, client_thread_id, crashed, client_socket_fd,
                     groups_joined, timestamp>>
      /\ UNCHANGED <<head, next, raced, reg, timer, hasty>>
  BY DEF Exit, Reset, Send, server, table, lists
<1>4. age' \in [Clients -> 0 .. Late]
  <2>1. 0 \in 0 .. Late
    BY RegistryAssumption
  <2> QED
    BY <1>3, <2>1 DEF TypeInv, Types, ClientTypes
<1>5. ClientTypes'
  BY <1>1, <1>2, <1>3, <1>4 DEF TypeInv, Types, ClientTypes
<1>6. ServerTypes' /\ TableTypes' /\ ListTypes' /\ RegTypes' /\ TimerTypes'
  BY <1>3 DEF TypeInv, Types, ServerTypes, TableTypes, ListTypes, RegTypes, TimerTypes
<1>7. \A d \in Clients : conn'[d] = (IF d = c THEN at ELSE conn[d])
                         /\ wire'[d] = (IF d = c THEN w ELSE wire[d])
  BY <1>1, <1>2 DEF TypeInv, Types, ClientTypes
<1>8. CountInv'
  BY <1>1, <1>3, <1>7, CountKept DEF TypeInv
<1>9. Phases'
  <2> SUFFICES ASSUME NEW d \in Clients PROVE PhaseOf(d)' /\ EntryOf(d)'
    BY DEF Phases
  <2>1. PhaseOf(d) /\ EntryOf(d)
    BY DEF TypeInv, Phases
  <2>2. PhaseOf(d)'
    BY <1>1, <1>2, <1>3, <1>7, <2>1 DEF PhaseOf
  <2>3. EntryOf(d)'
    BY <1>3, <2>1 DEF EntryOf
  <2> QED
    BY <2>2, <2>3
<1> QED
  BY <1>5, <1>6, <1>8, <1>9 DEF TypeInv, Types

LEMMA CommunicationTypes ==
    ASSUME TypeInv, NEW c \in Clients, client_Communication(c)
    PROVE  TypeInv'
<1>1. PICK left \in SUBSET (wire[c] \cap {"eof"}) : wire' = [wire EXCEPT ![c] = left]
  BY DEF client_Communication
<1>2. /\ conn[c] \in {"up", "gone"} /\ age' = [age EXCEPT ![c] = 0]
      /\ UNCHANGED <<conn, open, fd, client_count, crashed, client_socket_fd, groups_joined>>
      /\ UNCHANGED <<head, next, raced, timer, hasty>>
  BY DEF client_Communication, AfterRead, lists
<1>3. 0 \in 0 .. Late /\ 0 \in 0 .. Old
  BY RegistryAssumption DEF Old, Limit
<1>4. ClientTypes'
  BY <1>1, <1>2, <1>3 DEF TypeInv, Types, ClientTypes
<1>5. CountInv' /\ ListTypes' /\ TimerTypes'
  BY <1>2, CountKept DEF TypeInv, Types, ListTypes, TimerTypes
<1>6. /\ \/ client_thread_id' = [client_thread_id EXCEPT ![client_count] = c]
         \/ client_thread_id' = [client_thread_id EXCEPT ![client_count] = "other"]
      /\ timestamp' \in {timestamp, [timestamp EXCEPT ![fd[c]] = 0]}
  BY DEF client_Communication, Stamp
<1>7. ServerTypes'
  BY <1>2, <1>6 DEF TypeInv, Types, ServerTypes
<1>8. TableTypes'
  BY <1>2, <1>3, <1>6 DEF TypeInv, Types, TableTypes
<1>9. \A d \in Clients : wire'[d] = IF d = c THEN left ELSE wire[d]
  BY <1>1 DEF TypeInv, Types, ClientTypes
<1>10. CASE "register" \in wire[c]
  <2> DEFINE r == [reg[c] EXCEPT !.pc = "look", !.k = 1]
  <2>1. reg[c].pc = "none" /\ PhaseOf(c) /\ reg[c] \in Frame /\ reg \in [Clients -> Frame]
    BY <1>10 DEF TypeInv, Phases, PhaseOf, Types, RegTypes
  <2>2. 1 \in DOMAIN Joins[c]
    <3>1. \A l \in 1 .. 2 : 1 \in 1 .. l
      OBVIOUS
    <3> QED
      BY <3>1, JoinFacts
  <2>3. r \in Frame /\ r.pc = "look" /\ r.k = 1
    <3>1. 1 \in 0 .. 2 /\ reg[c] \in Frame
      BY <2>1
    <3> QED
      BY <3>1 DEF Frame, Pcs
  <2>4. reg' = [reg EXCEPT ![c] = r]
    BY <1>10, <2>1 DEF client_Communication
  <2> HIDE DEF r
  <2>5. RegTypes' /\ \A d \in Clients : reg'[d] = IF d = c THEN r ELSE reg[d]
    BY <2>1, <2>3, <2>4 DEF RegTypes
  <2>6. "register" \notin wire'[c]
    BY <1>9
  <2>7. ASSUME NEW d \in Clients PROVE PhaseOf(d)' /\ EntryOf(d)'
    <3>1. PhaseOf(d) /\ EntryOf(d)
      BY DEF TypeInv, Phases
    <3>2. PhaseOf(d)'
      BY <1>2, <1>9, <2>1, <2>2, <2>3, <2>5, <2>6, <3>1 DEF PhaseOf
    <3>3. EntryOf(d)'
      BY <1>2, <2>1, <2>5, <3>1 DEF EntryOf
    <3> QED
      BY <3>2, <3>3
  <2> QED
    BY <1>4, <1>5, <1>7, <1>8, <2>5, <2>7 DEF TypeInv, Types, Phases
<1>11. CASE "register" \notin wire[c]
  <2>1. reg' = reg
    BY <1>11 DEF client_Communication
  <2>2. ASSUME NEW d \in Clients PROVE PhaseOf(d)' /\ EntryOf(d)'
    <3>1. PhaseOf(d) /\ EntryOf(d)
      BY DEF TypeInv, Phases
    <3>2. PhaseOf(d)'
      BY <1>2, <1>9, <2>1, <3>1 DEF PhaseOf
    <3>3. EntryOf(d)'
      BY <1>2, <2>1, <3>1 DEF EntryOf
    <3> QED
      BY <3>2, <3>3
  <2> QED
    BY <1>4, <1>5, <1>7, <1>8, <2>1, <2>2 DEF TypeInv, Types, RegTypes, Phases
<1> QED
  BY <1>10, <1>11

\* A step that leaves what PhaseOf and EntryOf are about.
LEMMA PhasesKept ==
    ASSUME Phases, UNCHANGED <<fd, wire>>,
           \A c \in Clients : /\ conn'[c] = "new" <=> conn[c] = "new"
                              /\ conn'[c] = "up" => conn[c] = "up"
                              /\ reg'[c].pc = reg[c].pc /\ reg'[c].k = reg[c].k,
           \A f \in Fds : groups_joined'[f] \in {groups_joined[f], None}
    PROVE  Phases'
<1> SUFFICES ASSUME NEW c \in Clients PROVE PhaseOf(c)' /\ EntryOf(c)'
  BY DEF Phases
<1>1. PhaseOf(c) /\ EntryOf(c)
  BY DEF Phases
<1>2. PhaseOf(c)'
  BY <1>1 DEF PhaseOf
<1>3. EntryOf(c)'
  BY <1>1, RegistryAssumption DEF EntryOf
<1> QED
  BY <1>2, <1>3

LEMMA NextClientTypes ==
    ASSUME TimerTypes, NextClient
    PROVE  /\ timer' \in [pc : {"sleep", "look"}, i : Fds, t : 0 .. Sleep]
<1>1. FirstFd \in Fds /\ Sleep \in 0 .. Sleep
  BY FdFacts DEF Sleep
<1> QED
  BY <1>1 DEF TimerTypes, NextClient

\* CancelThread marks a registration, and leaves it where it is.
LEMMA CancelFrame ==
    ASSUME TypeInv, CancelThread
    PROVE  /\ reg' \in [Clients -> Frame]
           /\ \A c \in Clients : /\ reg'[c].pc = reg[c].pc /\ reg'[c].k = reg[c].k
                                 /\ reg'[c].temp = reg[c].temp
           /\ timer' = timer \/ timer' = [timer EXCEPT !.pc = "remove"]
<1>1. reg \in [Clients -> Frame]
  BY DEF TypeInv, Types, RegTypes
<1>2. CASE reg' = reg
  BY <1>1, <1>2 DEF CancelThread
<1>3. CASE reg' = [c \in Clients |-> IF client_thread_id[timer.i] = c /\ Registering(c)
                                       THEN [reg[c] EXCEPT !.doomed = TRUE] ELSE reg[c]]
  <2>1. ASSUME NEW c \in Clients
        PROVE  /\ reg'[c] \in Frame /\ reg'[c].pc = reg[c].pc /\ reg'[c].k = reg[c].k
               /\ reg'[c].temp = reg[c].temp
    <3>1. reg[c] \in Frame
      BY <1>1
    <3>2. reg'[c] \in {reg[c], [reg[c] EXCEPT !.doomed = TRUE]}
      BY <1>3
    <3> QED
      BY <3>1, <3>2 DEF Frame
  <2>2. DOMAIN reg' = Clients /\ reg' = [c \in Clients |-> reg'[c]]
    BY <1>3
  <2> QED
    BY <2>1, <2>2 DEF CancelThread
<1> QED
  BY <1>2, <1>3 DEF CancelThread

LEMMA TimerStepTypes == ASSUME TypeInv, timer_handler PROVE TypeInv'
<1>1. CASE Wake
  <2>1. /\ UNCHANGED <<conn, fd, wire, age, open, client_count, client_thread_id, crashed>>
        /\ UNCHANGED <<client_socket_fd, groups_joined, timestamp, head, next, raced, reg>>
        /\ hasty' = hasty
    BY <1>1 DEF Wake, client, server, table, lists
  <2>2. TimerTypes'
    <3>1. Sleep \in 0 .. Sleep
      BY DEF Sleep
    <3> QED
      BY <1>1, <2>1, <3>1 DEF Wake, TypeInv, Types, TimerTypes
  <2>3. CountInv' /\ Phases'
    BY <2>1, CountKept, PhasesKept DEF TypeInv
  <2> QED
    BY <2>1, <2>2, <2>3 DEF TypeInv, Types, ClientTypes, ServerTypes, TableTypes,
       ListTypes, RegTypes
<1>2. CASE LookAtClient
  <2>1. /\ UNCHANGED <<conn, fd, wire, age, open, client_count, client_thread_id, crashed>>
        /\ UNCHANGED <<client_socket_fd, groups_joined, timestamp, head, next, raced, reg>>
    BY <1>2 DEF LookAtClient, client, server, table, lists
  <2>2. TimerTypes'
    <3>1. HastyAt(timer.i) \subseteq Clients
      BY DEF HastyAt
    <3> QED
      BY <1>2, <3>1, NextClientTypes DEF LookAtClient, TypeInv, Types, TimerTypes
  <2>3. CountInv' /\ Phases'
    BY <2>1, CountKept, PhasesKept DEF TypeInv
  <2> QED
    BY <2>1, <2>2, <2>3 DEF TypeInv, Types, ClientTypes, ServerTypes, TableTypes,
       ListTypes, RegTypes
<1>3. CASE CancelThread
  <2>1. /\ UNCHANGED <<conn, fd, wire, age, open, client_count, client_thread_id>>
        /\ UNCHANGED <<client_socket_fd, groups_joined, timestamp, head, next, raced>>
        /\ hasty' = hasty /\ crashed' \in {crashed, TRUE}
    BY <1>3 DEF CancelThread, client, table, lists
  <2>2. TimerTypes' /\ RegTypes'
    BY <1>3, <2>1, CancelFrame DEF TypeInv, Types, TimerTypes, RegTypes
  <2>3. CountInv' /\ Phases'
    BY <1>3, <2>1, CountKept, PhasesKept, CancelFrame DEF TypeInv
  <2> QED
    BY <2>1, <2>2, <2>3 DEF TypeInv, Types, ClientTypes, ServerTypes, TableTypes, ListTypes
<1>4. CASE RemoveClient
  <2>1. /\ UNCHANGED <<conn, fd, wire, age, open, client_count, client_thread_id, crashed>>
        /\ UNCHANGED <<timestamp, head, next, raced, reg, hasty>>
        /\ client_socket_fd' = [client_socket_fd EXCEPT ![timer.i] = -1]
        /\ groups_joined' = [groups_joined EXCEPT ![timer.i] = None]
        /\ timer' = [timer EXCEPT !.pc = "close"]
    BY <1>4 DEF RemoveClient, client, server, lists
  <2>2. TimerTypes' /\ TableTypes'
    BY <2>1 DEF TypeInv, Types, TimerTypes, TableTypes
  <2>3. \A f \in Fds : groups_joined'[f] \in {groups_joined[f], None}
    BY <2>1 DEF TypeInv, Types, TableTypes
  <2>4. CountInv' /\ Phases'
    BY <2>1, <2>3, CountKept, PhasesKept DEF TypeInv
  <2> QED
    BY <2>1, <2>2, <2>4 DEF TypeInv, Types, ClientTypes, ServerTypes, ListTypes, RegTypes
<1>5. CASE CloseRemoved
  <2>1. /\ UNCHANGED <<fd, wire, age, client_count, client_thread_id, crashed>>
        /\ UNCHANGED <<client_socket_fd, groups_joined, timestamp, head, next, raced, reg>>
        /\ hasty' = hasty /\ open' \subseteq open
    BY <1>5 DEF CloseRemoved, table, lists
  <2>2. /\ conn' = [c \in Clients |-> conn'[c]]
        /\ \A c \in Clients : conn'[c] = conn[c]
                              \/ (conn[c] \in {"up", "gone"} /\ conn'[c] = "closed")
    BY <1>5 DEF CloseRemoved
  <2>3. ClientTypes'
    BY <2>1, <2>2 DEF TypeInv, Types, ClientTypes
  <2>4. TimerTypes'
    BY <1>5, <2>1, NextClientTypes DEF CloseRemoved, TypeInv, Types, TimerTypes
  <2>5. CountInv' /\ Phases'
    BY <2>1, <2>2, CountKept, PhasesKept DEF TypeInv
  <2> QED
    BY <2>1, <2>3, <2>4, <2>5 DEF TypeInv, Types, ServerTypes, TableTypes, ListTypes, RegTypes
<1> QED
  BY <1>1, <1>2, <1>3, <1>4, <1>5 DEF timer_handler

\* What a tick does.
LEMMA TickFrame ==
    ASSUME TypeInv, Tick
    PROVE  /\ UNCHANGED <<conn, fd, open, client_count, client_thread_id, crashed>>
           /\ UNCHANGED <<client_socket_fd, groups_joined, head, next, raced, reg, hasty>>
           /\ timer.pc = "sleep" /\ timer'.pc = "sleep" /\ timer'.i = timer.i
           /\ \A c \in Clients :
                 /\ wire'[c] = wire[c] \cup (IF conn[c] = "up" THEN {"alive"} ELSE {})
                 /\ wire[c] # {} => age[c] < Late
                 /\ age'[c] = IF wire[c] = {} THEN 0 ELSE age[c] + 1
                 /\ ~Registering(c)
           /\ \A f \in Fds :
                 timestamp'[f] = IF timestamp[f] = Old THEN Old ELSE timestamp[f] + 1
BY DEF Tick, server, lists, keep_alive_handler, TypeInv, Types, TimerTypes

LEMMA TickTypes == ASSUME TypeInv, Tick PROVE TypeInv'
<1>1. ASSUME NEW c \in Clients PROVE age'[c] \in 0 .. Late
  <2>1. age[c] \in 0 .. Late /\ Late \in Nat
    BY RegistryAssumption DEF TypeInv, Types, ClientTypes
  <2>2. wire[c] # {} => age[c] < Late
    BY TickFrame
  <2>3. age'[c] = IF wire[c] = {} THEN 0 ELSE age[c] + 1
    BY TickFrame
  <2> QED
    BY <2>1, <2>2, <2>3
<1>2. ASSUME NEW f \in Fds PROVE timestamp'[f] \in 0 .. Old
  <2>1. timestamp[f] \in 0 .. Old
    BY DEF TypeInv, Types, TableTypes
  <2>2. timestamp'[f] = IF timestamp[f] = Old THEN Old ELSE timestamp[f] + 1
    BY TickFrame
  <2> QED
    BY <2>1, <2>2 DEF Old, Limit
<1>3. /\ age' = [c \in Clients |-> age'[c]] /\ timestamp' = [f \in Fds |-> timestamp'[f]]
      /\ wire' = [c \in Clients |-> wire'[c]]
  BY DEF Tick
<1>4. ClientTypes'
  <2>1. \A c \in Clients : wire'[c] \in SUBSET {"register", "alive", "eof"}
    BY TickFrame DEF TypeInv, Types, ClientTypes
  <2> QED
    BY <1>1, <1>3, <2>1, TickFrame DEF TypeInv, Types, ClientTypes
<1>5. TableTypes'
  BY <1>2, <1>3, TickFrame DEF TypeInv, Types, TableTypes
<1>6. TimerTypes'
  <2>1. /\ timer \in [pc : {"sleep", "look", "cancel", "remove", "close"}, i : Fds, t : 0 .. Sleep]
        /\ timer.t > 0 /\ timer' = [timer EXCEPT !.t = @ - 1] /\ hasty' = hasty
    BY TickFrame DEF Tick, TypeInv, Types, TimerTypes
  <2>2. timer.t - 1 \in 0 .. Sleep
    BY <2>1 DEF Sleep
  <2> QED
    BY <2>1, <2>2 DEF TypeInv, Types, TimerTypes
<1>7. CountInv' /\ ServerTypes' /\ ListTypes' /\ RegTypes'
  BY TickFrame, CountKept DEF TypeInv, Types, ServerTypes, ListTypes, RegTypes
<1>8. Phases'
  <2> SUFFICES ASSUME NEW c \in Clients PROVE PhaseOf(c)' /\ EntryOf(c)'
    BY DEF Phases
  <2>1. PhaseOf(c) /\ EntryOf(c)
    BY DEF TypeInv, Phases
  <2>2. PhaseOf(c)'
    BY <2>1, TickFrame DEF PhaseOf
  <2>3. EntryOf(c)'
    BY <2>1, TickFrame DEF EntryOf
  <2> QED
    BY <2>2, <2>3
<1> QED
  BY <1>4, <1>5, <1>6, <1>7, <1>8 DEF TypeInv, Types

LEMMA NextTypes == TypeInv /\ [Next]_vars => TypeInv'
<1> SUFFICES ASSUME TypeInv, [Next]_vars PROVE TypeInv'
  OBVIOUS
<1>1. CASE UNCHANGED vars
  <2>1. /\ UNCHANGED <<conn, fd, wire, age, open, client_count, client_thread_id, crashed>>
        /\ UNCHANGED <<client_socket_fd, groups_joined, timestamp, head, next, raced, reg>>
        /\ UNCHANGED <<timer, hasty>>
    BY <1>1 DEF vars, client, server, table, lists
  <2>2. CountInv' /\ Phases'
    BY <2>1, CountKept, PhasesKept DEF TypeInv
  <2> QED
    BY <2>1, <2>2 DEF TypeInv, Types, ClientTypes, ServerTypes, TableTypes, ListTypes,
                      RegTypes, TimerTypes
<1>2. ASSUME NEW c \in Clients, Connect(c) \/ Exit(c) \/ Reset(c) PROVE TypeInv'
  BY <1>2, ConnectTypes, EndTypes
<1>3. ASSUME NEW c \in Clients, client_Communication(c) \/ Handle_group_id_regs(c)
      PROVE  TypeInv'
  BY <1>3, CommunicationTypes, HandleTypes
<1> QED
  BY <1>1, <1>2, <1>3, TimerStepTypes, TickTypes DEF Next, Server

\* Every variable of the registry keeps its type: no thread number is stored, and no
\* place looked at, beyond the clients that have connected (timer_handler, add_client).
THEOREM RegistryTyped == Spec => []TypeOK
<1>1. TypeInv => TypeOK
  BY TypesGiven DEF TypeInv
<1> QED
  BY <1>1, InitTypes, NextTypes, PTL DEF Spec

-----------------------------------------------------------------------------
(* Time.                                                                   *)

\* add_client has claimed the place of descriptor f and not stamped it.
Writing(f) == \E d \in Clients : fd[d] = f /\ reg[d].pc \in {"groups", "stamp"}

\* A stamp is older than the oldest message that waits by no more than a tick.
StampOf(c) ==
    conn[c] = "up" /\ InArray(c) /\ ~Writing(fd[c])
      => timestamp[fd[c]] <= IF wire[c] = {} THEN 0 ELSE age[c] + 1

StampInv == \A c \in Clients : StampOf(c)

\* Whoever is about to lose the place that the timer is at.
Losing(c) == reg[c].pc \in {"groups", "stamp"} \/ (InArray(c) /\ conn[c] = "up")

TimerInv ==
    timer.pc \in {"cancel", "remove"} =>
        /\ client_socket_fd[timer.i] # -1
        /\ \A c \in Clients : fd[c] = timer.i /\ Losing(c) => c \in hasty

ExpiryInv == TypeInv /\ StampInv /\ TimerInv

LEMMA InArrayAt ==
    ASSUME NEW c
    PROVE  InArray(c) <=> /\ fd[c] \in Fds /\ client_socket_fd[fd[c]] = fd[c]
                          /\ groups_joined[fd[c]] = c
BY DEF InArray

LEMMA StampKept ==
    ASSUME TypeInv, NEW d \in Clients, StampOf(d),
           conn'[d] = "up" => conn[d] = "up",
           fd'[d] = fd[d], wire'[d] = wire[d], age'[d] = age[d],
           fd[d] \in Fds => timestamp'[fd[d]] \in {timestamp[fd[d]], 0},
           InArray(d)' /\ ~Writing(fd[d])' =>
              (InArray(d) /\ ~Writing(fd[d])) \/ timestamp'[fd[d]] = 0
    PROVE  StampOf(d)'
<1>1. age[d] \in Nat
  BY RegistryAssumption DEF TypeInv, Types, ClientTypes
<1>2. timestamp'[fd[d]] = 0 => StampOf(d)'
  BY <1>1 DEF StampOf
<1>3. InArray(d)' => fd[d] \in Fds
  BY DEF InArray
<1>4. CASE timestamp'[fd[d]] = timestamp[fd[d]] /\ timestamp'[fd[d]] # 0
  <2> SUFFICES ASSUME conn'[d] = "up", InArray(d)', ~Writing(fd[d])'
               PROVE  timestamp'[fd[d]] <= IF wire[d] = {} THEN 0 ELSE age[d] + 1
    BY DEF StampOf
  <2>1. InArray(d) /\ ~Writing(fd[d])
    BY <1>4
  <2> QED
    BY <1>4, <2>1 DEF StampOf
<1>5. CASE fd[d] \notin Fds
  BY <1>3, <1>5 DEF StampOf
<1> QED
  BY <1>2, <1>4, <1>5

LEMMA ConnectStamp ==
    ASSUME TypeInv, StampInv, NEW c \in Clients, Connect(c)
    PROVE  StampInv'
<1>1. PICK f \in Fds : fd' = [fd EXCEPT ![c] = f]
  BY DEF Connect
<1>2. /\ conn[c] = "new" /\ conn' = [conn EXCEPT ![c] = "up"]
      /\ wire' = [wire EXCEPT ![c] = @ \cup {"register"}] /\ age' = age
      /\ UNCHANGED <<client_socket_fd, groups_joined, timestamp, reg>>
  BY DEF Connect, Send, table
<1>3. PhaseOf(c) /\ EntryOf(c) /\ reg[c].pc = "none" /\ fd[c] = -1
  BY <1>2 DEF TypeInv, Phases, PhaseOf
<1>4. \A d \in Clients \ {c} : conn'[d] = conn[d] /\ fd'[d] = fd[d] /\ wire'[d] = wire[d]
  BY <1>1, <1>2 DEF TypeInv, Types, ClientTypes
<1>5. ~InArray(c)'
  <2>1. \A e \in Fds : groups_joined[e] # c
    BY <1>3 DEF EntryOf
  <2> QED
    BY <1>2, <2>1 DEF InArray
<1>6. ASSUME NEW d \in Clients, d # c PROVE StampOf(d)'
  <2>1. InArray(d)' => InArray(d)
    BY <1>2, <1>4, <1>6 DEF InArray
  <2>2. Writing(fd[d]) => Writing(fd[d])'
    <3>1. ASSUME NEW e \in Clients, fd[e] = fd[d], reg[e].pc \in {"groups", "stamp"}
          PROVE  fd'[e] = fd'[d] /\ reg'[e].pc \in {"groups", "stamp"}
      BY <1>2, <1>3, <1>4, <1>6, <3>1
    <3> QED
      BY <3>1 DEF Writing
  <2>3. StampOf(d)
    BY DEF StampInv
  <2> QED
    BY <1>2, <1>4, <1>6, <2>1, <2>2, <2>3, StampKept
<1>7. StampOf(c)'
  BY <1>5 DEF StampOf
<1> QED
  BY <1>6, <1>7 DEF StampInv

\* Steps that write no entry and end no registration.
LEMMA QuietStamp ==
    ASSUME TypeInv, StampInv, UNCHANGED <<fd, wire, age, timestamp>>,
           \A c \in Clients : conn'[c] = "up" => conn[c] = "up",
           \A c \in Clients : reg[c].pc \in {"groups", "stamp"}
                                 => reg'[c].pc \in {"groups", "stamp"},
           \A f \in Fds : client_socket_fd'[f] \in {client_socket_fd[f], -1},
           \A f \in Fds : groups_joined'[f] \in {groups_joined[f], None}
    PROVE  StampInv'
<1> SUFFICES ASSUME NEW d \in Clients PROVE StampOf(d)'
  BY DEF StampInv
<1>1. InArray(d)' => InArray(d)
  BY FdFacts, RegistryAssumption DEF InArray
<1>2. Writing(fd[d]) => Writing(fd[d])'
  BY DEF Writing
<1> QED
  BY <1>1, <1>2, StampKept DEF StampInv

\* Of a client that is gone nothing is asked.
LEMMA EndStamp ==
    ASSUME TypeInv, StampInv, NEW c \in Clients, Exit(c) \/ Reset(c)
    PROVE  StampInv'
<1>1. PICK at \in {"gone", "reset"} : conn' = [conn EXCEPT ![c] = at]
  BY DEF Exit, Reset
<1>2. /\ \A d \in Clients \ {c} :
            conn'[d] = conn[d] /\ wire'[d] = wire[d] /\ age'[d] = age[d]
      /\ conn'[c] # "up"
  BY <1>1 DEF Exit, Reset, Send, TypeInv, Types, ClientTypes
<1>3. UNCHANGED <<fd, client_socket_fd, groups_joined, timestamp, reg>>
  BY DEF Exit, Reset, table
<1>4. ASSUME NEW d \in Clients, d # c PROVE StampOf(d)'
  <2>1. InArray(d)' <=> InArray(d)
    BY <1>3 DEF InArray
  <2>2. Writing(fd[d])' <=> Writing(fd[d])
    BY <1>3 DEF Writing
  <2> QED
    BY <1>2, <1>3, <1>4, <2>1, <2>2, StampKept DEF StampInv
<1>5. StampOf(c)'
  BY <1>2 DEF StampOf
<1> QED
  BY <1>4, <1>5 DEF StampInv

\* All that is there is read, and the stamp is new.
LEMMA CommunicationStamp ==
    ASSUME TypeInv, StampInv, NEW c \in Clients, client_Communication(c)
    PROVE  StampInv'
<1>1. PICK left \in SUBSET (wire[c] \cap {"eof"}) : wire' = [wire EXCEPT ![c] = left]
  BY DEF client_Communication
<1>2. /\ age' = [age EXCEPT ![c] = 0] /\ UNCHANGED <<conn, fd>>
      /\ UNCHANGED <<client_socket_fd, groups_joined>>
  BY DEF client_Communication, AfterRead
<1>3. /\ "register" \in wire[c] => timestamp' = timestamp
      /\ "register" \notin wire[c] => timestamp' = [timestamp EXCEPT ![fd[c]] = 0]
  BY DEF client_Communication, Stamp
<1>4. /\ PhaseOf(c) /\ EntryOf(c)
      /\ \A d \in Clients \ {c} : wire'[d] = wire[d] /\ age'[d] = age[d]
      /\ wire'[c] = left
  BY <1>1, <1>2 DEF TypeInv, Phases, Types, ClientTypes
<1>5. \A d \in Clients : reg'[d].pc = reg[d].pc
                         \/ (d = c /\ reg[d].pc = "none" /\ reg'[d].pc = "look")
  <2>1. CASE "register" \in wire[c]
    <3>1. reg' = [reg EXCEPT ![c].pc = "look", ![c].k = 1]
      BY <2>1 DEF client_Communication
    <3>2. reg \in [Clients -> Frame] /\ reg[c].pc = "none"
      BY <1>4, <2>1 DEF TypeInv, Types, RegTypes, PhaseOf
    <3> QED
      BY <3>1, <3>2 DEF Frame
  <2>2. CASE "register" \notin wire[c]
    BY <2>2 DEF client_Communication
  <2> QED
    BY <2>1, <2>2
<1>6. \A f \in Fds : timestamp'[f] \in {timestamp[f], 0}
  BY <1>3 DEF TypeInv, Types, TableTypes
<1>7. ASSUME NEW d \in Clients, d # c PROVE StampOf(d)'
  <2>1. InArray(d)' <=> InArray(d)
    BY <1>2 DEF InArray
  <2>2. Writing(fd[d])' <=> Writing(fd[d])
    BY <1>2, <1>5 DEF Writing
  <2> QED
    BY <1>2, <1>4, <1>6, <1>7, <2>1, <2>2, StampKept DEF StampInv
<1>8. StampOf(c)'
  <2> SUFFICES ASSUME conn[c] = "up", InArray(c)
               PROVE  timestamp'[fd[c]] <= IF wire'[c] = {} THEN 0 ELSE age'[c] + 1
    BY <1>2 DEF StampOf, InArray
  <2>1. fd[c] \in Fds /\ groups_joined[fd[c]] = c
    BY InArrayAt
  <2>2. "register" \notin wire[c] /\ "eof" \notin wire[c]
    BY <1>4, <2>1 DEF PhaseOf, EntryOf
  <2>3. wire'[c] = {}
    BY <1>4, <2>2
  <2>4. timestamp'[fd[c]] = 0
    BY <1>3, <2>1, <2>2 DEF TypeInv, Types, TableTypes
  <2> QED
    BY <2>3, <2>4
<1> QED
  BY <1>7, <1>8 DEF StampInv

\* Where a registration is that takes a step, what it becomes, and what else the
\* step changes.
LEMMA HandleFrame ==
    ASSUME TypeInv, NEW c \in Clients, Handle_group_id_regs(c)
    PROVE  /\ UNCHANGED <<conn, fd, wire, age, open, client_count, timer, hasty>>
           /\ \/ LookAtHead(c) /\ UNCHANGED <<client_socket_fd, groups_joined, timestamp>>
                 /\ UNCHANGED <<head, next, raced>>
              \/ PushNode(c) /\ UNCHANGED <<client_socket_fd, groups_joined, timestamp, next>>
              \/ LinkNode(c) /\ UNCHANGED <<client_socket_fd, groups_joined, timestamp>>
                 /\ UNCHANGED <<head, raced>>
              \/ ClaimPlace(c) /\ UNCHANGED <<groups_joined, timestamp, head, next, raced>>
              \/ KeepGroups(c) /\ UNCHANGED <<client_socket_fd, timestamp, head, next, raced>>
              \/ StampClient(c) /\ UNCHANGED <<client_socket_fd, groups_joined>>
                 /\ UNCHANGED <<head, next, raced>>
BY DEF Handle_group_id_regs, LookAtHead, PushNode, LinkNode, ClaimPlace, KeepGroups,
       StampClient, client, table, lists

\* The step leaves the other registrations alone.
LEMMA HandleOthers ==
    ASSUME TypeInv, NEW c \in Clients, Handle_group_id_regs(c)
    PROVE  \E r \in Frame : reg' = [reg EXCEPT ![c] = r] /\ reg'[c] = r
                            /\ \A d \in Clients \ {c} : reg'[d] = reg[d]
<1>1. \E r \in Frame : reg' = [reg EXCEPT ![c] = r]
  BY HandleFrame, LookAtHeadFrame, PushNodeFrame, LinkNodeFrame, ClaimPlaceFrame,
     KeepGroupsFrame, StampClientFrame
<1> QED
  BY <1>1 DEF TypeInv, Types, RegTypes

LEMMA HandleSteps ==
    ASSUME TypeInv, NEW c \in Clients, Handle_group_id_regs(c)
    PROVE  /\ LookAtHead(c) =>
                 /\ reg[c].pc = "look" /\ reg'[c].pc \in {"cancelled", "push"}
                 /\ reg'[c].pc = "push" => reg'[c].k = reg[c].k /\ reg'[c].temp = head[Group(c)]
           /\ PushNode(c) =>
                 /\ reg[c].pc = "push"
                 /\ \/ reg[c].temp = None /\ After(c, reg'[c])
                    \/ /\ reg[c].temp # None /\ reg'[c].pc = "link"
                       /\ reg'[c].k = reg[c].k /\ reg'[c].temp = reg[c].temp
           /\ LinkNode(c) => reg[c].pc = "link" /\ After(c, reg'[c])
           /\ ClaimPlace(c) =>
                 /\ reg[c].pc = "claim"
                 /\ \/ client_socket_fd[fd[c]] = -1 /\ reg'[c].pc = "groups"
                    \/ client_socket_fd[fd[c]] # -1 /\ reg'[c].pc \in {"cancelled", "end"}
           /\ KeepGroups(c) => reg[c].pc = "groups" /\ reg'[c].pc = "stamp"
           /\ StampClient(c) => reg[c].pc \in {"stamp", "end"} /\ reg'[c].pc = "done"
<1>1. \A r \in Frame : reg' = [reg EXCEPT ![c] = r] => reg'[c] = r
  BY DEF TypeInv, Types, RegTypes
<1>2. LookAtHead(c) =>
        /\ reg[c].pc = "look" /\ reg'[c].pc \in {"cancelled", "push"}
        /\ reg'[c].pc = "push" => reg'[c].k = reg[c].k /\ reg'[c].temp = head[Group(c)]
  BY <1>1, LookAtHeadFrame
<1>3. PushNode(c) =>
        /\ reg[c].pc = "push"
        /\ \/ reg[c].temp = None /\ After(c, reg'[c])
           \/ /\ reg[c].temp # None /\ reg'[c].pc = "link"
              /\ reg'[c].k = reg[c].k /\ reg'[c].temp = reg[c].temp
  BY <1>1, PushNodeFrame
<1>4. LinkNode(c) => reg[c].pc = "link" /\ After(c, reg'[c])
  BY <1>1, LinkNodeFrame
<1>5. ClaimPlace(c) =>
        /\ reg[c].pc = "claim"
        /\ \/ client_socket_fd[fd[c]] = -1 /\ reg'[c].pc = "groups"
           \/ client_socket_fd[fd[c]] # -1 /\ reg'[c].pc \in {"cancelled", "end"}
  BY <1>1, ClaimPlaceFrame
<1>6. KeepGroups(c) => reg[c].pc = "groups" /\ reg'[c].pc = "stamp"
  BY <1>1, KeepGroupsFrame
<1>7. StampClient(c) => reg[c].pc \in {"stamp", "end"} /\ reg'[c].pc = "done"
  BY <1>1, StampClientFrame
<1> QED
  BY <1>2, <1>3, <1>4, <1>5, <1>6, <1>7

LEMMA HandleStamp ==
    ASSUME TypeInv, StampInv, NEW c \in Clients, Handle_group_id_regs(c)
    PROVE  StampInv'
<1>1. UNCHANGED <<conn, fd, wire, age>>
  BY HandleFrame
<1>2. PICK r \in Frame : /\ reg' = [reg EXCEPT ![c] = r] /\ reg'[c] = r
                         /\ \A d \in Clients \ {c} : reg'[d] = reg[d]
  BY HandleOthers
<1>3. CASE LookAtHead(c) \/ PushNode(c) \/ LinkNode(c)
  <2>1. reg[c].pc \in Listing
    BY <1>3 DEF LookAtHead, PushNode, LinkNode, Listing
  <2>2. UNCHANGED <<client_socket_fd, groups_joined, timestamp>>
    BY <1>3 DEF LookAtHead, PushNode, LinkNode, table
  <2> QED
    BY <1>1, <1>2, <2>1, <2>2, QuietStamp DEF Listing
<1>4. CASE ClaimPlace(c)
  <2>1. /\ reg[c].pc = "claim" /\ r.pc \in {"groups", "cancelled", "end"}
        /\ r.pc # "groups" => client_socket_fd' = client_socket_fd
        /\ r.pc = "groups" => client_socket_fd' = [client_socket_fd EXCEPT ![fd[c]] = fd[c]]
    <3>1. PICK s \in Frame :
              /\ reg' = [reg EXCEPT ![c] = s] /\ reg[c].pc = "claim"
              /\ \/ client_socket_fd[fd[c]] = -1 /\ s.pc = "groups"
                 \/ client_socket_fd[fd[c]] # -1 /\ s.pc \in {"cancelled", "end"}
      BY <1>4, ClaimPlaceFrame
    <3>2. s = r
      BY <1>2, <3>1 DEF TypeInv, Types, RegTypes
    <3> QED
      BY <1>4, <3>1, <3>2 DEF ClaimPlace
  <2>2. UNCHANGED <<groups_joined, timestamp>>
    BY <1>4 DEF ClaimPlace
  <2> SUFFICES ASSUME NEW d \in Clients PROVE StampOf(d)'
    BY DEF StampInv
  <2>3. r.pc = "groups" /\ fd[d] = fd[c] => Writing(fd[d])'
    BY <1>1, <1>2 DEF Writing
  <2>4. Writing(fd[d]) => Writing(fd[d])'
    BY <1>1, <1>2, <2>1 DEF Writing
  <2>5. r.pc = "groups" /\ fd[d] # fd[c] => (InArray(d)' => InArray(d))
    BY <1>1, <2>1, <2>2 DEF InArray, TypeInv, Types, TableTypes
  <2>6. r.pc # "groups" => (InArray(d)' => InArray(d))
    BY <1>1, <2>1, <2>2 DEF InArray
  <2> QED
    BY <1>1, <2>2, <2>3, <2>4, <2>5, <2>6, StampKept DEF StampInv
<1>5. CASE KeepGroups(c)
  <2>1. /\ reg[c].pc = "groups" /\ r.pc = "stamp"
        /\ groups_joined' = [groups_joined EXCEPT ![fd[c]] = c]
        /\ UNCHANGED <<client_socket_fd, timestamp>>
    <3>1. r = [reg[c] EXCEPT !.pc = "stamp"]
      BY <1>2, <1>5 DEF KeepGroups, TypeInv, Types, RegTypes
    <3> QED
      BY <1>5, <3>1 DEF KeepGroups, TypeInv, Types, RegTypes, Frame
  <2> SUFFICES ASSUME NEW d \in Clients PROVE StampOf(d)'
    BY DEF StampInv
  <2>2. fd[d] = fd[c] => Writing(fd[d])'
    BY <1>1, <1>2, <2>1 DEF Writing
  <2>3. Writing(fd[d]) => Writing(fd[d])'
    BY <1>1, <1>2, <2>1 DEF Writing
  <2>4. fd[d] # fd[c] => (InArray(d)' => InArray(d))
    BY <1>1, <2>1 DEF InArray, TypeInv, Types, TableTypes
  <2> QED
    BY <1>1, <2>1, <2>2, <2>3, <2>4, StampKept DEF StampInv
<1>6. CASE StampClient(c)
  <2>1. /\ timestamp' = [timestamp EXCEPT ![fd[c]] = 0]
        /\ UNCHANGED <<client_socket_fd, groups_joined>>
    BY <1>6 DEF StampClient, Stamp
  <2> SUFFICES ASSUME NEW d \in Clients PROVE StampOf(d)'
    BY DEF StampInv
  <2>2. InArray(d)' => InArray(d)
    BY <1>1, <2>1 DEF InArray
  <2>3. fd[d] # fd[c] => (Writing(fd[d]) => Writing(fd[d])')
    BY <1>1, <1>2 DEF Writing
  <2>4. fd[d] \in Fds => /\ timestamp'[fd[d]] \in {timestamp[fd[d]], 0}
                         /\ fd[d] = fd[c] => timestamp'[fd[d]] = 0
    BY <2>1 DEF TypeInv, Types, TableTypes
  <2>5. InArray(d)' => fd[d] \in Fds
    BY <1>1 DEF InArray
  <2> QED
    BY <1>1, <2>1, <2>2, <2>3, <2>4, <2>5, StampKept DEF StampInv
<1> QED
  BY <1>3, <1>4, <1>5, <1>6, HandleFrame

LEMMA TimerStamp == ASSUME TypeInv, StampInv, timer_handler PROVE StampInv'
<1>1. CASE Wake \/ LookAtClient
  BY <1>1, QuietStamp DEF Wake, LookAtClient, client, table
<1>2. CASE CancelThread
  BY <1>2, CancelFrame, QuietStamp DEF CancelThread, client, table
<1>3. CASE RemoveClient
  <2>1. /\ UNCHANGED <<conn, fd, wire, age, timestamp, reg>>
        /\ client_socket_fd' = [client_socket_fd EXCEPT ![timer.i] = -1]
        /\ groups_joined' = [groups_joined EXCEPT ![timer.i] = None]
    BY <1>3 DEF RemoveClient, client
  <2>2. \A f \in Fds : /\ client_socket_fd'[f] \in {client_socket_fd[f], -1}
                       /\ groups_joined'[f] \in {groups_joined[f], None}
    BY <2>1 DEF TypeInv, Types, TableTypes
  <2> QED
    BY <2>1, <2>2, QuietStamp
<1>4. CASE CloseRemoved
  <2>1. \A d \in Clients : conn'[d] = "up" => conn[d] = "up"
    BY <1>4 DEF CloseRemoved
  <2> QED
    BY <1>4, <2>1, QuietStamp DEF CloseRemoved, table
<1> QED
  BY <1>1, <1>2, <1>3, <1>4 DEF timer_handler

\* With the time stamp ages the keep-alive that a client sends each minute.
LEMMA TickStamp == ASSUME TypeInv, StampInv, Tick PROVE StampInv'
<1> SUFFICES ASSUME NEW d \in Clients, conn'[d] = "up", InArray(d)'
             PROVE  timestamp'[fd'[d]] <= IF wire'[d] = {} THEN 0 ELSE age'[d] + 1
  BY DEF StampInv, StampOf
<1>1. UNCHANGED <<conn, fd, client_socket_fd, groups_joined, reg>>
  BY TickFrame
<1>2. InArray(d) /\ fd[d] \in Fds
  BY <1>1 DEF InArray
<1>3. ~Writing(fd[d])
  BY TickFrame DEF Writing, Registering
<1>4. timestamp[fd[d]] <= IF wire[d] = {} THEN 0 ELSE age[d] + 1
  BY <1>1, <1>2, <1>3 DEF StampInv, StampOf
<1>5. /\ wire'[d] # {} /\ age'[d] = IF wire[d] = {} THEN 0 ELSE age[d] + 1
      /\ timestamp'[fd[d]] = IF timestamp[fd[d]] = Old THEN Old ELSE timestamp[fd[d]] + 1
  BY <1>1, <1>2, TickFrame
<1>6. timestamp[fd[d]] \in Int /\ age[d] \in Int
  <2>1. timestamp[fd[d]] \in 0 .. Old /\ age[d] \in 0 .. Late
    BY <1>2 DEF TypeInv, Types, TableTypes, ClientTypes
  <2> QED
    BY <2>1, RegistryAssumption DEF Old, Limit
<1>7. timestamp'[fd[d]] <= timestamp[fd[d]] + 1
  BY <1>5, <1>6 DEF Old, Limit
<1>8. timestamp[fd[d]] + 1 <= age'[d] + 1
  BY <1>4, <1>5, <1>6
<1>9. timestamp'[fd[d]] <= age'[d] + 1
  BY <1>5, <1>6, <1>7, <1>8 DEF Old, Limit
<1> QED
  BY <1>1, <1>5, <1>9

LEMMA StepStamp == ASSUME TypeInv, StampInv, [Next]_vars PROVE StampInv'
<1>1. CASE UNCHANGED vars
  BY <1>1, QuietStamp DEF vars, client, table
<1>2. ASSUME NEW c \in Clients, Connect(c) \/ Exit(c) \/ Reset(c) PROVE StampInv'
  BY <1>2, ConnectStamp, EndStamp
<1>3. ASSUME NEW c \in Clients, client_Communication(c) \/ Handle_group_id_regs(c)
      PROVE  StampInv'
  BY <1>3, CommunicationStamp, HandleStamp
<1> QED
  BY <1>1, <1>2, <1>3, TimerStamp, TickStamp DEF Next, Server

-----------------------------------------------------------------------------
(* The clients that the timer removes.                                     *)

\* The server handles a message within a minute.
Prompt == Late <= 1

\* Steps after which whoever is about to lose its place was so before.
LEMMA TimerKept ==
    ASSUME TypeInv, TimerInv, timer'.pc \in {"cancel", "remove"} =>
                                 timer.pc \in {"cancel", "remove"} /\ timer'.i = timer.i,
           timer.pc \in {"cancel", "remove"} /\ client_socket_fd[timer.i] # -1
              => client_socket_fd'[timer.i] # -1,
           hasty' = hasty,
           \A d \in Clients : fd'[d] = timer.i /\ Losing(d)' => fd[d] = timer.i /\ Losing(d)
    PROVE  TimerInv'
BY DEF TimerInv

LEMMA ClientTimer ==
    ASSUME TypeInv, TimerInv, NEW c \in Clients, Connect(c) \/ Exit(c) \/ Reset(c)
    PROVE  TimerInv'
<1>1. UNCHANGED <<client_socket_fd, groups_joined, reg, timer, hasty>>
  BY DEF Connect, Exit, Reset, table
<1>2. CASE Connect(c)
  <2>1. PICK f \in Fds : fd' = [fd EXCEPT ![c] = f]
    BY <1>2 DEF Connect
  <2>2. conn[c] = "new" /\ conn' = [conn EXCEPT ![c] = "up"]
    BY <1>2 DEF Connect
  <2>3. PhaseOf(c) /\ EntryOf(c) /\ reg[c].pc = "none"
    BY <2>2 DEF TypeInv, Phases, PhaseOf
  <2>4. ~Losing(c)'
    BY <1>1, <2>3 DEF Losing, InArray, EntryOf
  <2>5. \A d \in Clients \ {c} : fd'[d] = fd[d] /\ conn'[d] = conn[d]
    BY <2>1, <2>2 DEF TypeInv, Types, ClientTypes
  <2>6. \A d \in Clients \ {c} : Losing(d)' => Losing(d)
    BY <1>1, <2>5 DEF Losing, InArray
  <2> QED
    BY <1>1, <2>4, <2>5, <2>6, TimerKept
<1>3. CASE Exit(c) \/ Reset(c)
  <2>1. fd' = fd /\ \A d \in Clients : conn'[d] = "up" => conn[d] = "up"
    BY <1>3 DEF Exit, Reset, TypeInv, Types, ClientTypes
  <2>2. \A d \in Clients : Losing(d)' => Losing(d)
    BY <1>1, <2>1 DEF Losing, InArray
  <2> QED
    BY <1>1, <2>1, <2>2, TimerKept
<1> QED
  BY <1>2, <1>3

LEMMA CommunicationFrame ==
    ASSUME TypeInv, NEW c \in Clients, client_Communication(c)
    PROVE  /\ UNCHANGED <<conn, fd, open, client_count, crashed, timer, hasty>>
           /\ UNCHANGED <<client_socket_fd, groups_joined, head, next, raced>>
           /\ reg' \in [Clients -> Frame]
           /\ \A d \in Clients :
                 \/ reg'[d] = reg[d]
                 \/ /\ d = c /\ reg[d].pc = "none" /\ reg'[d].pc = "look"
                    /\ reg'[d].k = 1
<1>1. /\ UNCHANGED <<conn, fd, open, client_count, crashed, timer, hasty>>
      /\ UNCHANGED <<client_socket_fd, groups_joined, head, next, raced>>
  BY DEF client_Communication, AfterRead, lists
<1>2. reg \in [Clients -> Frame] /\ PhaseOf(c)
  BY DEF TypeInv, Phases, Types, RegTypes
<1>3. CASE "register" \in wire[c]
  <2>1. reg' = [reg EXCEPT ![c].pc = "look", ![c].k = 1] /\ reg[c].pc = "none"
    BY <1>2, <1>3 DEF client_Communication, PhaseOf
  <2>2. 1 \in 0 .. 2
    OBVIOUS
  <2> QED
    BY <1>1, <1>2, <2>1, <2>2 DEF Frame, Pcs
<1>4. CASE "register" \notin wire[c]
  BY <1>1, <1>2, <1>4 DEF client_Communication
<1> QED
  BY <1>3, <1>4

LEMMA CommunicationTimer ==
    ASSUME TypeInv, TimerInv, NEW c \in Clients, client_Communication(c)
    PROVE  TimerInv'
<1>1. \A d \in Clients : Losing(d)' => Losing(d)
  BY CommunicationFrame DEF Losing, InArray
<1> QED
  BY <1>1, CommunicationFrame, TimerKept

LEMMA HandleTimer ==
    ASSUME TypeInv, TimerInv, NEW c \in Clients, Handle_group_id_regs(c)
    PROVE  TimerInv'
<1>1. UNCHANGED <<conn, fd, timer, hasty>> /\ timer.i \in Fds
  BY HandleFrame DEF TypeInv, Types, TimerTypes
<1>2. PICK r \in Frame : /\ reg' = [reg EXCEPT ![c] = r] /\ reg'[c] = r
                         /\ \A d \in Clients \ {c} : reg'[d] = reg[d]
  BY HandleOthers
<1>3. CASE LookAtHead(c) \/ PushNode(c) \/ LinkNode(c) \/ StampClient(c)
  <2>1. UNCHANGED <<client_socket_fd, groups_joined>>
    BY <1>3, HandleFrame DEF LookAtHead, PushNode, LinkNode, StampClient, table
  <2>2. r.pc \notin {"groups", "stamp"}
    BY <1>2, <1>3, HandleSteps DEF After
  <2>3. \A d \in Clients : Losing(d)' => Losing(d)
    BY <1>1, <1>2, <2>1, <2>2 DEF Losing, InArray
  <2> QED
    BY <1>1, <2>1, <2>3, TimerKept
<1>4. CASE ClaimPlace(c)
  <2>1. /\ groups_joined' = groups_joined
        /\ \/ client_socket_fd' = client_socket_fd /\ r.pc \in {"cancelled", "end"}
           \/ /\ client_socket_fd[fd[c]] = -1
              /\ client_socket_fd' = [client_socket_fd EXCEPT ![fd[c]] = fd[c]]
    BY <1>2, <1>4, HandleSteps DEF ClaimPlace
  <2>2. CASE client_socket_fd' = client_socket_fd /\ r.pc \in {"cancelled", "end"}
    <3>1. \A d \in Clients : Losing(d)' => Losing(d)
      BY <1>1, <1>2, <2>1, <2>2 DEF Losing, InArray
    <3> QED
      BY <1>1, <2>2, <3>1, TimerKept
  <2>3. CASE /\ client_socket_fd[fd[c]] = -1
             /\ client_socket_fd' = [client_socket_fd EXCEPT ![fd[c]] = fd[c]]
    <3>1. CASE timer.pc \in {"cancel", "remove"}
      <4>1. client_socket_fd[timer.i] # -1 /\ fd[c] # timer.i
        BY <2>3, <3>1 DEF TimerInv
      <4>2. client_socket_fd'[timer.i] = client_socket_fd[timer.i]
        BY <1>1, <2>3, <4>1 DEF TypeInv, Types, TableTypes
      <4>3. \A d \in Clients : fd[d] = timer.i /\ Losing(d)' => Losing(d)
        BY <1>1, <1>2, <2>1, <4>1, <4>2 DEF Losing, InArray
      <4> QED
        BY <1>1, <4>2, <4>3, TimerKept
    <3>2. CASE timer.pc \notin {"cancel", "remove"}
      BY <1>1, <3>2 DEF TimerInv
    <3> QED
      BY <3>1, <3>2
  <2> QED
    BY <2>1, <2>2, <2>3
<1>5. CASE KeepGroups(c)
  <2>1. reg[c].pc = "groups" /\ groups_joined' = [groups_joined EXCEPT ![fd[c]] = c]
        /\ client_socket_fd' = client_socket_fd
    BY <1>5 DEF KeepGroups
  <2>2. \A d \in Clients \ {c} : Losing(d)' => Losing(d)
    BY <1>1, <1>2, <2>1 DEF Losing, InArray, TypeInv, Types, TableTypes
  <2>3. Losing(c)
    BY <2>1 DEF Losing
  <2> QED
    BY <1>1, <2>1, <2>2, <2>3, TimerKept
<1> QED
  BY <1>3, <1>4, <1>5, HandleFrame

\* A stamp that is too old is that of a client that is not there, or is not
\* written yet.
LEMMA LookTimer ==
    ASSUME Prompt, TypeInv, StampInv, TimerInv, LookAtClient
    PROVE  TimerInv'
<1>1. UNCHANGED <<conn, fd, client_socket_fd, groups_joined, reg>>
      /\ timer.i \in Fds /\ timer \in [pc : {"sleep", "look", "cancel", "remove", "close"},
                                       i : Fds, t : 0 .. Sleep]
  BY DEF LookAtClient, client, table, TypeInv, Types, TimerTypes
<1>2. CASE Expired(timer.i)
  <2>1. /\ timer'.i = timer.i /\ hasty' = hasty \cup HastyAt(timer.i)
        /\ client_socket_fd[timer.i] # -1 /\ timestamp[timer.i] > Limit
    BY <1>1, <1>2 DEF LookAtClient, Expired
  <2>2. ASSUME NEW c \in Clients, fd[c] = timer.i, Losing(c)
        PROVE  c \in HastyAt(timer.i)
    <3>1. CASE Writing(timer.i)
      BY <2>2, <3>1 DEF Writing, HastyAt
    <3>2. CASE ~Writing(timer.i)
      <4>1. InArray(c) /\ conn[c] = "up"
        BY <2>2, <3>2 DEF Losing, Writing
      <4>2. timestamp[timer.i] <= IF wire[c] = {} THEN 0 ELSE age[c] + 1
        BY <2>2, <3>2, <4>1 DEF StampInv, StampOf
      <4>3. age[c] \in 0 .. Late /\ timestamp[timer.i] \in 0 .. Old
        BY <1>1 DEF TypeInv, Types, ClientTypes, TableTypes
      <4>4. timestamp[timer.i] <= 2
        BY <4>2, <4>3, RegistryAssumption DEF Prompt, Old, Limit
      <4> QED
        BY <2>1, <4>3, <4>4 DEF Limit, Old
    <3> QED
      BY <3>1, <3>2
  <2> QED
    BY <1>1, <2>1, <2>2 DEF TimerInv, Losing, InArray
<1>3. CASE ~Expired(timer.i)
  <2>1. timer'.pc \in {"sleep", "look"}
    BY <1>1, <1>3, NextClientTypes DEF LookAtClient, TypeInv, Types
  <2> QED
    BY <2>1 DEF TimerInv
<1> QED
  BY <1>2, <1>3

LEMMA StepTimer ==
    ASSUME Prompt, TypeInv, StampInv, TimerInv, [Next]_vars
    PROVE  TimerInv'
<1>1. CASE UNCHANGED vars
  BY <1>1 DEF vars, client, table, TimerInv, Losing, InArray
<1>2. ASSUME NEW c \in Clients, Connect(c) \/ Exit(c) \/ Reset(c) PROVE TimerInv'
  BY <1>2, ClientTimer
<1>3. ASSUME NEW c \in Clients, client_Communication(c) \/ Handle_group_id_regs(c)
      PROVE  TimerInv'
  BY <1>3, CommunicationTimer, HandleTimer
<1>4. CASE timer_handler
  <2>1. timer \in [pc : {"sleep", "look", "cancel", "remove", "close"},
                   i : Fds, t : 0 .. Sleep]
    BY DEF TypeInv, Types, TimerTypes
  <2>2. CASE Wake \/ RemoveClient \/ CloseRemoved
    <3>1. timer'.pc \notin {"cancel", "remove"}
      BY <2>1, <2>2, NextClientTypes DEF Wake, RemoveClient, CloseRemoved, TypeInv, Types
    <3> QED
      BY <3>1 DEF TimerInv
  <2>3. CASE CancelThread
    <3>1. UNCHANGED <<conn, fd, client_socket_fd, groups_joined, hasty>>
          /\ timer.pc = "cancel"
      BY <2>3 DEF CancelThread, client, table
    <3>2. timer'.i = timer.i
      BY <2>1, <2>3, CancelFrame
    <3>3. \A d \in Clients : Losing(d)' => Losing(d)
      BY <2>3, <3>1, CancelFrame DEF Losing, InArray
    <3> QED
      BY <3>1, <3>2, <3>3, TimerKept
  <2> QED
    BY <1>4, <2>2, <2>3, LookTimer DEF timer_handler
<1>5. CASE Tick
  BY <1>5, TickFrame DEF TimerInv
<1> QED
  BY <1>1, <1>2, <1>3, <1>4, <1>5 DEF Next, Server

\* Only the timer takes a place away.
LEMMA StepExpiry ==
    ASSUME TypeInv, TimerInv, [Next]_vars, NEW c \in Clients,
           conn[c] = "up", InArray(c), client_socket_fd'[fd[c]] = -1
    PROVE  c \in hasty
<1>1. fd[c] \in Fds /\ client_socket_fd[fd[c]] # -1
  BY FdFacts, InArrayAt
<1>2. CASE RemoveClient
  <2>1. timer.pc = "remove" /\ client_socket_fd' = [client_socket_fd EXCEPT ![timer.i] = -1]
    BY <1>2 DEF RemoveClient
  <2>2. fd[c] = timer.i
    BY <1>1, <2>1 DEF TypeInv, Types, TableTypes
  <2> QED
    BY <2>1, <2>2 DEF TimerInv, Losing
<1>3. CASE client_socket_fd' = client_socket_fd
  BY <1>1, <1>3
<1>4. ASSUME NEW d \in Clients, Handle_group_id_regs(d) PROVE FALSE
  <2>1. ClaimPlace(d)
    BY <1>1, <1>4, HandleFrame
  <2>2. client_socket_fd' = [client_socket_fd EXCEPT ![fd[d]] = fd[d]]
        \/ client_socket_fd' = client_socket_fd
    BY <2>1 DEF ClaimPlace
  <2> QED
    BY <1>1, <2>2, FdFacts DEF TypeInv, Types, TableTypes
<1>5. UNCHANGED vars => client_socket_fd' = client_socket_fd
  BY DEF vars, table
<1>6. ASSUME NEW d \in Clients, Connect(d) \/ Exit(d) \/ Reset(d)
      PROVE  client_socket_fd' = client_socket_fd
  BY <1>6 DEF Connect, Exit, Reset, table
<1>7. ASSUME NEW d \in Clients, client_Communication(d)
      PROVE  client_socket_fd' = client_socket_fd
  BY <1>7 DEF client_Communication
<1>8. timer_handler => client_socket_fd' = client_socket_fd \/ RemoveClient
  BY DEF timer_handler, Wake, LookAtClient, CancelThread, CloseRemoved, table
<1>9. Tick => client_socket_fd' = client_socket_fd
  BY DEF Tick
<1> QED
  BY <1>2, <1>3, <1>4, <1>5, <1>6, <1>7, <1>8, <1>9 DEF Next, Server

LEMMA InitExpiry == Init => StampInv /\ TimerInv
BY RegistryAssumption DEF Init, StampInv, StampOf, TimerInv, Idle

\* Under Prompt, the timer removes a client that is there only if it looked at its
\* place before the first stamp (timer_handler, client_ka_handler, add_client).
THEOREM NoFalseExpiryHolds == ASSUME Prompt PROVE Spec => NoFalseExpiry
<1>1. Init => ExpiryInv
  BY InitTypes, InitExpiry DEF ExpiryInv
<1>2. ExpiryInv /\ [Next]_vars => ExpiryInv'
  BY NextTypes, StepStamp, StepTimer DEF ExpiryInv
<1>3. ExpiryInv /\ [Next]_vars =>
        [\A c \in Clients :
           conn[c] = "up" /\ InArray(c) /\ client_socket_fd'[fd[c]] = -1 => c \in hasty]_vars
  BY StepExpiry DEF ExpiryInv
<1> QED
  BY <1>1, <1>2, <1>3, PTL DEF Spec, NoFalseExpiry

-----------------------------------------------------------------------------
(* Who a place belongs to, as long as no connection is reset.              *)

\* A client that was given the place of descriptor f.
Place(f) == \E c \in Clients : fd[c] = f /\ reg[c].pc \in Claimed

OpenInv ==
    \A c \in Clients : conn[c] # "closed" /\ (conn[c] # "new" => fd[c] \in open)

UniqueInv == \A c, d \in Clients : fd[c] = fd[d] /\ fd[c] # -1 => c = d

PlaceInv ==
    /\ \A f \in Fds : client_socket_fd[f] # -1 => Place(f)
    /\ timer.pc \in {"cancel", "remove", "close"} => Place(timer.i)
    /\ timer.pc = "close" => client_socket_fd[timer.i] = -1

FdInv == NoReset => OpenInv /\ UniqueInv /\ PlaceInv

LEMMA InitFd == Init => FdInv
BY FdFacts DEF Init, FdInv, OpenInv, UniqueInv, PlaceInv, initialize_client_array

\* Steps that leave the descriptors and take no claim back.
LEMMA FdKept ==
    ASSUME FdInv, NoReset' => NoReset, fd' = fd, open' = open,
           \A c \in Clients : conn'[c] # "closed" \/ conn[c] = "closed",
           \A c \in Clients : conn'[c] # "new" => conn[c] # "new",
           \A c \in Clients : reg[c].pc \in Claimed => reg'[c].pc \in Claimed,
           NoReset /\ PlaceInv /\ (\A f \in Fds : Place(f) => Place(f)') => PlaceInv'
    PROVE  FdInv'
<1> SUFFICES ASSUME NoReset' PROVE OpenInv' /\ UniqueInv' /\ PlaceInv'
  BY DEF FdInv
<1>1. OpenInv /\ UniqueInv /\ PlaceInv
  BY DEF FdInv
<1>2. OpenInv' /\ UniqueInv'
  BY <1>1 DEF OpenInv, UniqueInv
<1>3. \A f \in Fds : Place(f) => Place(f)'
  BY DEF Place
<1> QED
  BY <1>1, <1>2, <1>3

\* accept gives a descriptor that no connection has.
LEMMA ConnectFd ==
    ASSUME TypeInv, FdInv, NEW c \in Clients, Connect(c)
    PROVE  FdInv'
<1>1. PICK f \in Fds \ open : fd' = [fd EXCEPT ![c] = f] /\ open' = open \cup {f}
  BY DEF Connect
<1>2. /\ conn[c] = "new" /\ conn' = [conn EXCEPT ![c] = "up"]
      /\ UNCHANGED <<client_socket_fd, reg, timer>>
  BY DEF Connect, table
<1>3. fd'[c] = f /\ conn'[c] = "up" /\ f # -1
  BY <1>1, <1>2, FdFacts DEF TypeInv, Types, ClientTypes
<1>4. \A d \in Clients \ {c} : fd'[d] = fd[d] /\ conn'[d] = conn[d]
  BY <1>1, <1>2 DEF TypeInv, Types, ClientTypes
<1>5. reg[c].pc = "none" /\ \A d \in Clients : conn[d] = "new" => fd[d] = -1
  BY <1>2 DEF TypeInv, Phases, PhaseOf
<1> SUFFICES ASSUME NoReset' PROVE OpenInv' /\ UniqueInv' /\ PlaceInv'
  BY DEF FdInv
<1>6. NoReset
  BY <1>2, <1>4 DEF NoReset
<1>7. OpenInv /\ UniqueInv /\ PlaceInv
  BY <1>6 DEF FdInv
<1>8. OpenInv'
  <2>1. ASSUME NEW d \in Clients PROVE conn'[d] # "closed" /\ (conn'[d] # "new" => fd'[d] \in open')
    BY <1>1, <1>3, <1>4, <1>7 DEF OpenInv
  <2> QED
    BY <2>1 DEF OpenInv
<1>9. \A d \in Clients \ {c} : fd'[d] # f
  BY <1>1, <1>3, <1>4, <1>5, <1>7 DEF OpenInv
<1>10. UniqueInv'
  BY <1>3, <1>4, <1>7, <1>9 DEF UniqueInv
<1>11. \A e \in Fds : Place(e) => Place(e)'
  BY <1>2, <1>4, <1>5 DEF Place, Claimed
<1>12. timer.i \in Fds
  BY DEF TypeInv, Types, TimerTypes
<1>13. PlaceInv'
  BY <1>2, <1>7, <1>11, <1>12 DEF PlaceInv
<1> QED
  BY <1>8, <1>10, <1>13

LEMMA EndFd ==
    ASSUME TypeInv, FdInv, NEW c \in Clients, Exit(c) \/ Reset(c)
    PROVE  FdInv'
<1>1. CASE Reset(c)
  <2>1. conn'[c] = "reset"
    BY <1>1 DEF Reset, TypeInv, Types, ClientTypes
  <2> QED
    BY <2>1 DEF FdInv, NoReset
<1>2. CASE Exit(c)
  <2>1. /\ UNCHANGED <<fd, open, client_socket_fd, reg, timer>>
        /\ conn[c] = "up" /\ conn' = [conn EXCEPT ![c] = "gone"]
    BY <1>2 DEF Exit, server, table
  <2>2. \A d \in Clients : conn'[d] = conn[d] \/ (conn[d] = "up" /\ conn'[d] = "gone")
    BY <2>1 DEF TypeInv, Types, ClientTypes
  <2>3. NoReset' => NoReset
    BY <2>2 DEF NoReset
  <2>4. PlaceInv => PlaceInv'
    BY <2>1 DEF PlaceInv, Place
  <2> QED
    BY <2>1, <2>2, <2>3, <2>4, FdKept
<1> QED
  BY <1>1, <1>2

LEMMA CommunicationFd ==
    ASSUME TypeInv, FdInv, NEW c \in Clients, client_Communication(c)
    PROVE  FdInv'
<1>1. \A d \in Clients : reg[d].pc \in Claimed => reg'[d].pc \in Claimed
  BY CommunicationFrame DEF Claimed
<1>2. timer.i \in Fds
  BY DEF TypeInv, Types, TimerTypes
<1>3. (\A f \in Fds : Place(f) => Place(f)') /\ PlaceInv => PlaceInv'
  BY <1>2, CommunicationFrame DEF PlaceInv
<1> QED
  BY <1>1, <1>3, CommunicationFrame, FdKept DEF NoReset

\* Nobody claims the place that the timer is about to close: its owner has, and is
\* the only one with the descriptor.
LEMMA HandleFd ==
    ASSUME TypeInv, FdInv, NEW c \in Clients, Handle_group_id_regs(c)
    PROVE  FdInv'
<1>1. UNCHANGED <<conn, fd, open, timer>>
  BY HandleFrame
<1>2. timer.i \in Fds /\ timer.i # -1
  BY FdFacts DEF TypeInv, Types, TimerTypes
<1>3. \A d \in Clients \ {c} : reg'[d] = reg[d]
  BY HandleOthers
<1>4. \A d \in Clients : reg[d].pc \in Claimed => reg'[d].pc \in Claimed
  <2>1. reg[c].pc \in Claimed => reg'[c].pc \in Claimed
    BY HandleFrame, HandleSteps DEF Claimed
  <2> QED
    BY <1>3, <2>1
<1>5. ASSUME NoReset, PlaceInv, \A f \in Fds : Place(f) => Place(f)'
      PROVE  PlaceInv'
  <2>1. CASE client_socket_fd' = client_socket_fd
    BY <1>1, <1>2, <1>5, <2>1 DEF PlaceInv
  <2>2. CASE client_socket_fd' # client_socket_fd
    <3>1. ClaimPlace(c) /\ client_socket_fd[fd[c]] = -1
          /\ client_socket_fd' = [client_socket_fd EXCEPT ![fd[c]] = fd[c]]
      BY <2>2, HandleFrame DEF ClaimPlace
    <3>2. reg[c].pc = "claim" /\ reg'[c].pc = "groups"
      BY <3>1, HandleSteps
    <3>3. Place(fd[c])'
      BY <1>1, <3>2 DEF Place, Claimed
    <3>4. \A f \in Fds : f # fd[c] => client_socket_fd'[f] = client_socket_fd[f]
      BY <3>1 DEF TypeInv, Types, TableTypes
    <3>5. \A f \in Fds : client_socket_fd'[f] # -1 => Place(f)'
      BY <1>1, <1>5, <3>3, <3>4 DEF PlaceInv
    <3>6. timer.pc = "close" => timer.i # fd[c]
      <4>1. UniqueInv
        BY <1>5 DEF FdInv
      <4> QED
        BY <1>2, <1>5, <3>2, <4>1 DEF PlaceInv, Place, UniqueInv, Claimed
    <3> QED
      BY <1>1, <1>2, <1>5, <3>4, <3>5, <3>6 DEF PlaceInv
  <2> QED
    BY <2>1, <2>2
<1> QED
  BY <1>1, <1>4, <1>5, FdKept DEF NoReset

\* What the timer closes is -1: the place was cleared before.
LEMMA TimerFd == ASSUME TypeInv, FdInv, timer_handler PROVE FdInv'
<1>1. timer \in [pc : {"sleep", "look", "cancel", "remove", "close"}, i : Fds, t : 0 .. Sleep]
      /\ timer.i \in Fds
  BY DEF TypeInv, Types, TimerTypes
<1>2. CASE Wake \/ LookAtClient
  <2>1. UNCHANGED <<conn, fd, open, client_socket_fd, reg>>
    BY <1>2 DEF Wake, LookAtClient, client, server, table
  <2>2. \/ timer'.pc \in {"sleep", "look"}
        \/ timer'.pc = "cancel" /\ timer'.i = timer.i /\ client_socket_fd[timer.i] # -1
    BY <1>1, <1>2, NextClientTypes DEF Wake, LookAtClient, Expired, TypeInv, Types
  <2>3. PlaceInv => PlaceInv'
    BY <1>1, <2>1, <2>2 DEF PlaceInv, Place
  <2> QED
    BY <2>1, <2>3, FdKept DEF NoReset
<1>3. CASE CancelThread
  <2>1. UNCHANGED <<conn, fd, open, client_socket_fd>> /\ timer.pc = "cancel"
        /\ timer'.i = timer.i /\ timer'.pc \in {"cancel", "remove"}
    BY <1>1, <1>3, CancelFrame DEF CancelThread, client, table
  <2>2. \A d \in Clients : reg'[d].pc = reg[d].pc
    BY <1>3, CancelFrame
  <2>3. (\A f \in Fds : Place(f) => Place(f)') /\ PlaceInv => PlaceInv'
    BY <1>1, <2>1 DEF PlaceInv
  <2> QED
    BY <2>1, <2>2, <2>3, FdKept DEF NoReset
<1>4. CASE RemoveClient
  <2>1. /\ UNCHANGED <<conn, fd, open, reg>> /\ timer.pc = "remove"
        /\ client_socket_fd' = [client_socket_fd EXCEPT ![timer.i] = -1]
        /\ timer' = [timer EXCEPT !.pc = "close"]
    BY <1>4 DEF RemoveClient, client, server
  <2>2. timer'.i = timer.i /\ client_socket_fd'[timer.i] = -1
        /\ \A f \in Fds : client_socket_fd'[f] \in {client_socket_fd[f], -1}
    BY <1>1, <2>1 DEF TypeInv, Types, TableTypes
  <2>3. (\A f \in Fds : Place(f) => Place(f)') /\ PlaceInv => PlaceInv'
    BY <1>1, <2>1, <2>2 DEF PlaceInv
  <2> QED
    BY <2>1, <2>3, FdKept DEF NoReset
<1>5. CASE CloseRemoved
  <2>1. UNCHANGED <<fd, client_socket_fd, reg>> /\ timer.pc = "close"
        /\ timer'.pc \in {"sleep", "look"}
    BY <1>5, NextClientTypes DEF CloseRemoved, table, TypeInv, Types
  <2> SUFFICES ASSUME NoReset' PROVE OpenInv' /\ UniqueInv' /\ PlaceInv'
    BY DEF FdInv
  <2>2. conn' = [c \in Clients |->
                   IF fd[c] = client_socket_fd[timer.i] /\ conn[c] \in {"up", "gone"}
                     THEN "closed" ELSE conn[c]]
        /\ open' = open \ {client_socket_fd[timer.i]}
    BY <1>5 DEF CloseRemoved
  <2>3. NoReset
    BY <2>2 DEF NoReset
  <2>4. OpenInv /\ UniqueInv /\ PlaceInv
    BY <2>3 DEF FdInv
  <2>5. client_socket_fd[timer.i] = -1
    BY <2>1, <2>4 DEF PlaceInv
  <2>6. \A c \in Clients : conn[c] \in {"up", "gone"} => fd[c] # -1
    BY DEF TypeInv, Phases, PhaseOf
  <2>7. \A c \in Clients : conn'[c] = conn[c]
    BY <2>2, <2>5, <2>6
  <2>8. open' = open
    BY <2>2, <2>5, FdFacts DEF TypeInv, Types, ServerTypes
  <2>9. OpenInv'
    BY <2>1, <2>4, <2>7, <2>8 DEF OpenInv
  <2>10. UniqueInv' /\ PlaceInv'
    BY <2>1, <2>4 DEF UniqueInv, PlaceInv, Place
  <2> QED
    BY <2>9, <2>10
<1> QED
  BY <1>2, <1>3, <1>4, <1>5 DEF timer_handler

LEMMA NextFd == ASSUME TypeInv, FdInv, [Next]_vars PROVE FdInv'
<1>1. CASE UNCHANGED vars
  BY <1>1 DEF vars, client, server, table, FdInv, NoReset, OpenInv, UniqueInv, PlaceInv, Place
<1>2. CASE Tick
  <2>1. PlaceInv => PlaceInv'
    BY <1>2, TickFrame DEF PlaceInv, Place
  <2> QED
    BY <1>2, <2>1, TickFrame, FdKept DEF NoReset
<1>3. ASSUME NEW c \in Clients, Connect(c) \/ Exit(c) \/ Reset(c) PROVE FdInv'
  BY <1>3, ConnectFd, EndFd
<1>4. ASSUME NEW c \in Clients, client_Communication(c) \/ Handle_group_id_regs(c)
      PROVE  FdInv'
  BY <1>4, CommunicationFd, HandleFd
<1> QED
  BY <1>1, <1>2, <1>3, <1>4, TimerFd DEF Next, Server

-----------------------------------------------------------------------------
(* Whose nodes are in a list.                                              *)

\* Node n is for group g, of one of the clients in C.
NodeOf(n, g, C) ==
    n \in Nodes /\ n[1] \in C /\ n[2] \in DOMAIN Joins[n[1]] /\ Joins[n[1]][n[2]] = g

\* The clients that register or have registered.
Known == {c \in Clients : reg[c].pc # "none"}

HeadInv == \A g \in Groups : head[g] # None => NodeOf(head[g], g, Known)

NextInv ==
    \A n \in Nodes :
        next[n] # None => \E g \in Groups : NodeOf(n, g, Known) /\ NodeOf(next[n], g, Known)

TempInv ==
    \A c \in Clients :
        reg[c].pc \in {"push", "link"} /\ reg[c].temp # None => NodeOf(reg[c].temp, Group(c), Known)

ListInv == HeadInv /\ NextInv /\ TempInv

LEMMA InitList == Init => ListInv
BY DEF Init, initialize_group_array, ListInv, HeadInv, NextInv, TempInv, Idle

LEMMA NodeOfKept ==
    ASSUME NEW C, NEW D, C \subseteq D
    PROVE  \A n, g : NodeOf(n, g, C) => NodeOf(n, g, D)
BY DEF NodeOf

\* The node that a registration is about to link.
LEMMA OwnNode ==
    ASSUME TypeInv, NEW c \in Clients, reg[c].pc \in Listing
    PROVE  NodeOf(Node(c), Group(c), Known)
<1>1. Node(c) \in Nodes /\ Node(c) = <<c, reg[c].k>> /\ reg[c].k \in DOMAIN Joins[c]
  BY FrameOf
<1>2. c \in Known
  BY DEF Listing, Known
<1> QED
  BY <1>1, <1>2 DEF NodeOf, Group

\* Steps that leave the lists.
LEMMA ListKept ==
    ASSUME ListInv, UNCHANGED <<head, next>>,
           \A c \in Clients : reg[c].pc # "none" => reg'[c].pc # "none",
           \A c \in Clients :
              \/ reg'[c].pc \notin {"push", "link"}
              \/ /\ reg[c].pc \in {"push", "link"} /\ reg'[c].k = reg[c].k
                 /\ reg'[c].temp = reg[c].temp
    PROVE  ListInv'
<1>0. Known \subseteq Known'
  BY DEF Known
<1>1. HeadInv' /\ NextInv'
  BY <1>0, NodeOfKept DEF ListInv, HeadInv, NextInv
<1>2. ASSUME NEW c \in Clients, reg'[c].pc \in {"push", "link"}, reg'[c].temp # None
      PROVE  NodeOf(reg'[c].temp, Joins[c][reg'[c].k], Known')
  <2>1. NodeOf(reg[c].temp, Group(c), Known) /\ reg'[c].k = reg[c].k /\ reg'[c].temp = reg[c].temp
    BY <1>2 DEF ListInv, TempInv
  <2> QED
    BY <1>0, <2>1, NodeOfKept DEF Group
<1>3. TempInv'
  BY <1>2 DEF TempInv, Group
<1> QED
  BY <1>1, <1>3 DEF ListInv

LEMMA HandleList ==
    ASSUME TypeInv, ListInv, NEW c \in Clients, Handle_group_id_regs(c)
    PROVE  ListInv'
<1>1. \A d \in Clients \ {c} : reg'[d] = reg[d]
  BY HandleOthers
<1>2. Known \subseteq Known' /\ \A d \in Clients : reg[d].pc # "none" => reg'[d].pc # "none"
  <2>1. reg'[c].pc # "none"
    BY HandleFrame, HandleSteps DEF After
  <2> QED
    BY <1>1, <2>1 DEF Known
<1>3. ASSUME NEW d \in Clients \ {c}, reg'[d].pc \in {"push", "link"}, reg'[d].temp # None
      PROVE  NodeOf(reg'[d].temp, Joins[d][reg'[d].k], Known')
  <2>1. NodeOf(reg[d].temp, Group(d), Known) /\ reg'[d] = reg[d]
    BY <1>1, <1>3 DEF ListInv, TempInv
  <2> QED
    BY <1>2, <2>1, NodeOfKept DEF Group
<1>4. CASE ClaimPlace(c) \/ KeepGroups(c) \/ StampClient(c)
  <2>1. reg'[c].pc \notin {"push", "link"} /\ UNCHANGED <<head, next>>
    BY <1>4, HandleFrame, HandleSteps DEF ClaimPlace, KeepGroups, StampClient, lists
  <2> QED
    BY <1>1, <1>2, <2>1, ListKept
<1>5. CASE LookAtHead(c)
  <2>1. UNCHANGED <<head, next>> /\ reg[c].pc = "look" /\ reg'[c].pc \in {"cancelled", "push"}
    BY <1>5, HandleSteps DEF LookAtHead
  <2>2. HeadInv' /\ NextInv'
    BY <1>2, <2>1, NodeOfKept DEF ListInv, HeadInv, NextInv
  <2>3. ASSUME reg'[c].pc \in {"push", "link"}, reg'[c].temp # None
        PROVE  NodeOf(reg'[c].temp, Joins[c][reg'[c].k], Known')
    <3>1. reg'[c].temp = head[Group(c)] /\ reg'[c].k = reg[c].k
      BY <1>5, <2>3, HandleSteps
    <3>2. Group(c) \in Groups
      BY <2>1, FrameOf DEF Listing
    <3>3. NodeOf(head[Group(c)], Group(c), Known)
      BY <2>3, <3>1, <3>2 DEF ListInv, HeadInv
    <3> QED
      BY <1>2, <3>1, <3>3, NodeOfKept DEF Group
  <2>4. TempInv'
    BY <1>3, <2>3 DEF TempInv, Group
  <2> QED
    BY <2>2, <2>4 DEF ListInv
<1>6. CASE PushNode(c) \/ LinkNode(c)
  <2>1. reg[c].pc \in {"push", "link"} /\ reg[c].pc \in Listing
    BY <1>6 DEF PushNode, LinkNode, Listing
  <2>2. PICK n \in Nodes, g \in Groups : n = Node(c) /\ g = Group(c)
    BY <2>1, FrameOf
  <2>3. NodeOf(n, g, Known')
    BY <1>2, <2>1, <2>2, OwnNode, NodeOfKept
  <2>4. /\ head' \in {head, [head EXCEPT ![g] = n]}
        /\ \/ next' = next
           \/ reg[c].pc = "link" /\ next' = [next EXCEPT ![n] = reg[c].temp]
    BY <1>6, <2>2 DEF PushNode, SetHead, LinkNode
  <2>5. HeadInv'
    <3>1. ASSUME NEW h \in Groups, head'[h] # None PROVE NodeOf(head'[h], h, Known')
      <4>1. CASE head'[h] = head[h]
        BY <1>2, <3>1, <4>1, NodeOfKept DEF ListInv, HeadInv
      <4>2. CASE head'[h] # head[h]
        <5>1. h = g /\ head'[h] = n
          BY <2>4, <4>2 DEF TypeInv, Types, ListTypes
        <5> QED
          BY <2>3, <5>1
      <4> QED
        BY <4>1, <4>2
    <3> QED
      BY <3>1 DEF HeadInv
  <2>6. NextInv'
    <3>1. ASSUME NEW m \in Nodes, next'[m] # None
          PROVE  \E h \in Groups : NodeOf(m, h, Known') /\ NodeOf(next'[m], h, Known')
      <4>1. CASE next'[m] = next[m]
        <5>1. PICK h \in Groups : NodeOf(m, h, Known) /\ NodeOf(next[m], h, Known)
          BY <3>1, <4>1 DEF ListInv, NextInv
        <5> QED
          BY <1>2, <4>1, <5>1, NodeOfKept
      <4>2. CASE next'[m] # next[m]
        <5>1. m = n /\ reg[c].pc = "link" /\ next'[m] = reg[c].temp
          BY <2>4, <4>2 DEF TypeInv, Types, ListTypes
        <5>2. NodeOf(reg[c].temp, g, Known)
          BY <2>2, <3>1, <5>1 DEF ListInv, TempInv
        <5> QED
          BY <1>2, <2>3, <5>1, <5>2, NodeOfKept
      <4> QED
        BY <4>1, <4>2
    <3> QED
      BY <3>1 DEF NextInv
  <2>7. ASSUME reg'[c].pc \in {"push", "link"}, reg'[c].temp # None
        PROVE  NodeOf(reg'[c].temp, Joins[c][reg'[c].k], Known')
    <3>1. reg'[c].temp = reg[c].temp /\ reg'[c].k = reg[c].k
      BY <1>6, <2>7, HandleSteps DEF After
    <3>2. NodeOf(reg[c].temp, Group(c), Known)
      BY <2>1, <2>7, <3>1 DEF ListInv, TempInv
    <3> QED
      BY <1>2, <3>1, <3>2, NodeOfKept DEF Group
  <2>8. TempInv'
    BY <1>3, <2>7 DEF TempInv, Group
  <2> QED
    BY <2>5, <2>6, <2>8 DEF ListInv
<1> QED
  BY <1>4, <1>5, <1>6, HandleFrame

LEMMA NextList == ASSUME TypeInv, ListInv, [Next]_vars PROVE ListInv'
<1>1. CASE UNCHANGED vars
  BY <1>1, ListKept DEF vars, lists
<1>2. CASE Tick
  BY <1>2, TickFrame, ListKept
<1>3. CASE timer_handler
  <2>1. UNCHANGED <<head, next>>
    BY <1>3 DEF timer_handler, Wake, LookAtClient, CancelThread, RemoveClient,
                CloseRemoved, lists
  <2>2. \A c \in Clients : /\ reg'[c].pc = reg[c].pc /\ reg'[c].k = reg[c].k
                           /\ reg'[c].temp = reg[c].temp
    BY <1>3, CancelFrame DEF timer_handler, Wake, LookAtClient, RemoveClient, CloseRemoved
  <2> QED
    BY <2>1, <2>2, ListKept
<1>4. ASSUME NEW c \in Clients, Connect(c) \/ Exit(c) \/ Reset(c) PROVE ListInv'
  BY <1>4, ListKept DEF Connect, Exit, Reset, lists
<1>5. ASSUME NEW c \in Clients, client_Communication(c) PROVE ListInv'
  BY <1>5, CommunicationFrame, ListKept
<1>6. ASSUME NEW c \in Clients, Handle_group_id_regs(c) PROVE ListInv'
  BY <1>6, HandleList
<1> QED
  BY <1>1, <1>2, <1>3, <1>4, <1>5, <1>6 DEF Next, Server

\* A walk comes to nodes of the group only, and a descriptor belongs to one client.
LEMMA MembersServed ==
    ASSUME TypeInv, FdInv, ListInv, NoReset, NEW g \in Groups, NEW c \in Clients,
           fd[c] \in Served(g)
    PROVE  \E k \in DOMAIN Joins[c] : Joins[c][k] = g
<1>1. PICK m \in Walk(g) : client_socket_fd[fd[m[1]]] = fd[m[1]] /\ fd[c] = fd[m[1]]
  BY DEF Served
<1> DEFINE S == {n \in Nodes : NodeOf(n, g, Known)}
<1>2. HasList(g, S)
  <2>1. head[g] # None => head[g] \in S
    BY DEF ListInv, HeadInv, NodeOf
  <2>2. ASSUME NEW x \in S, next[x] # None PROVE next[x] \in S
    <3>1. PICK h \in Groups : NodeOf(x, h, Known) /\ NodeOf(next[x], h, Known)
      BY <2>2 DEF ListInv, NextInv
    <3>2. h = g
      BY <3>1 DEF NodeOf
    <3> QED
      BY <3>1, <3>2 DEF NodeOf
  <2> QED
    BY <2>1, <2>2 DEF HasList
<1>3. NodeOf(m, g, Known)
  BY <1>2 DEF Walk
<1>4. m[1] \in Clients /\ reg[m[1]].pc # "none"
  BY <1>3 DEF NodeOf, Known
<1>5. fd[m[1]] # -1
  BY <1>4 DEF TypeInv, Phases, PhaseOf
<1>6. c = m[1]
  BY <1>1, <1>4, <1>5 DEF FdInv, UniqueInv
<1> QED
  BY <1>3, <1>6 DEF NodeOf

\* A group is served by its members only, as long as no connection is reset
\* (add_a_client_to_groups, find_free_clients_in_a_group, timer_handler).
THEOREM OnlyMembersHolds == Spec => []OnlyMembers
<1>1. Init => TypeInv /\ FdInv /\ ListInv
  BY InitTypes, InitFd, InitList
<1>2. (TypeInv /\ FdInv /\ ListInv) /\ [Next]_vars => (TypeInv /\ FdInv /\ ListInv)'
  BY NextTypes, NextFd, NextList
<1>3. TypeInv /\ FdInv /\ ListInv => OnlyMembers
  BY MembersServed DEF OnlyMembers
<1> QED
  BY <1>1, <1>2, <1>3, PTL DEF Spec

-----------------------------------------------------------------------------
(* Who stays in the array, as long as no connection is reset.              *)

LEMMA NoResetKept == ASSUME TypeInv, [Next]_vars, NoReset' PROVE NoReset
<1>1. CASE UNCHANGED vars \/ Tick
  BY <1>1, TickFrame DEF vars, client, NoReset
<1>2. ASSUME NEW c \in Clients, Connect(c) \/ Exit(c) \/ Reset(c) PROVE NoReset
  <2>1. PICK at \in {"up", "gone", "reset"} :
            conn[c] # "reset" /\ conn' = [conn EXCEPT ![c] = at]
    BY <1>2 DEF Connect, Exit, Reset
  <2>2. \A d \in Clients \ {c} : conn'[d] = conn[d]
    BY <2>1 DEF TypeInv, Types, ClientTypes
  <2> QED
    BY <2>1, <2>2 DEF NoReset
<1>3. ASSUME NEW c \in Clients, client_Communication(c) \/ Handle_group_id_regs(c)
      PROVE  NoReset
  BY <1>3, CommunicationFrame, HandleFrame DEF NoReset
<1>4. CASE timer_handler
  <2>1. CASE CloseRemoved
    BY <2>1 DEF CloseRemoved, NoReset
  <2>2. CASE Wake \/ LookAtClient \/ CancelThread \/ RemoveClient
    BY <2>2 DEF Wake, LookAtClient, CancelThread, RemoveClient, client, NoReset
  <2> QED
    BY <1>4, <2>1, <2>2 DEF timer_handler
<1> QED
  BY <1>1, <1>2, <1>3, <1>4 DEF Next, Server

\* What a client that is there has of its entry.
Kept(c) ==
    /\ client_socket_fd[fd[c]] = fd[c]
    /\ reg[c].pc # "groups" => groups_joined[fd[c]] = c

StaysOf(c) ==
    /\ reg[c].pc # "end"
    /\ conn[c] = "up" /\ c \notin hasty /\ reg[c].pc \in Claimed => Kept(c)

StaysInv == NoReset => \A c \in Clients : StaysOf(c)

LEMMA InitStays == Init => StaysInv
BY DEF Init, StaysInv, StaysOf, Idle, Claimed

\* Steps that change no entry.
LEMMA StaysKept ==
    ASSUME StaysInv, NoReset' => NoReset,
           UNCHANGED <<client_socket_fd, groups_joined>>, hasty \subseteq hasty',
           \A c \in Clients :
              \/ /\ reg'[c].pc = reg[c].pc /\ fd'[c] = fd[c]
                 /\ conn'[c] = "up" => conn[c] = "up"
              \/ reg'[c].pc \notin Claimed \cup {"end"}
    PROVE  StaysInv'
BY DEF StaysInv, StaysOf, Kept

\* The place of a client that registers is free.
LEMMA HandleStays ==
    ASSUME TypeInv, FdInv, StaysInv, NEW c \in Clients, Handle_group_id_regs(c)
    PROVE  StaysInv'
<1>1. UNCHANGED <<conn, fd, hasty>>
  BY HandleFrame
<1>2. \A d \in Clients \ {c} : reg'[d] = reg[d]
  BY HandleOthers
<1>3. CASE LookAtHead(c) \/ PushNode(c) \/ LinkNode(c)
  <2>1. UNCHANGED <<client_socket_fd, groups_joined>>
        /\ reg'[c].pc \notin Claimed \cup {"end"}
    BY <1>3, HandleSteps DEF LookAtHead, PushNode, LinkNode, table, After, Claimed
  <2> QED
    BY <1>1, <1>2, <2>1, StaysKept DEF NoReset
<1>4. ASSUME ClaimPlace(c) \/ KeepGroups(c) \/ StampClient(c), NoReset
      PROVE  \A d \in Clients : StaysOf(d)'
  <2>1. UniqueInv /\ PlaceInv /\ \A d \in Clients : StaysOf(d)
    BY <1>4 DEF FdInv, StaysInv
  <2>2. reg[c].pc # "none" /\ fd[c] \in Fds
    <3>1. reg[c].pc # "none"
      BY <1>4, HandleSteps
    <3>2. fd[c] # -1
      BY <3>1 DEF TypeInv, Phases, PhaseOf
    <3> QED
      BY <3>1, <3>2 DEF TypeInv, Types, ClientTypes
  <2>3. \A d \in Clients \ {c} : fd[d] # fd[c]
    BY <2>1, <2>2, FdFacts DEF UniqueInv
  <2>4. /\ ClaimPlace(c) \/ (reg[c].pc \in Claimed /\ reg'[c].pc \in Claimed)
        /\ ClaimPlace(c) => /\ reg'[c].pc = "groups"
                            /\ client_socket_fd' = [client_socket_fd EXCEPT ![fd[c]] = fd[c]]
    <3>1. KeepGroups(c) \/ StampClient(c) => reg[c].pc \in Claimed /\ reg'[c].pc \in Claimed
      BY <2>1, HandleSteps DEF StaysOf, Claimed
    <3>2. ASSUME ClaimPlace(c) PROVE client_socket_fd[fd[c]] = -1
      <4>1. SUFFICES ASSUME client_socket_fd[fd[c]] # -1 PROVE FALSE
        OBVIOUS
      <4>2. PICK d \in Clients : fd[d] = fd[c] /\ reg[d].pc \in Claimed
        BY <2>1, <2>2, <4>1 DEF PlaceInv, Place
      <4>3. d = c
        BY <2>3, <4>2
      <4> QED
        BY <3>2, <4>2, <4>3, HandleSteps DEF Claimed
    <3> QED
      BY <1>4, <3>1, <3>2, HandleSteps DEF ClaimPlace
  <2>5. /\ \A f \in Fds : f # fd[c] => /\ client_socket_fd'[f] = client_socket_fd[f]
                                       /\ groups_joined'[f] = groups_joined[f]
        /\ ClaimPlace(c) => client_socket_fd'[fd[c]] = fd[c]
        /\ ~ClaimPlace(c) => client_socket_fd' = client_socket_fd
    BY <1>4, <2>2, <2>4 DEF ClaimPlace, KeepGroups, StampClient, TypeInv, Types, TableTypes
  <2>6. KeepGroups(c) => reg[c].pc = "groups" /\ groups_joined'[fd[c]] = c
    BY <2>2 DEF KeepGroups, TypeInv, Types, TableTypes
  <2>7. StampClient(c) => groups_joined' = groups_joined /\ reg[c].pc = "stamp"
    BY <2>1 DEF StampClient, StaysOf
  <2>8. ASSUME NEW d \in Clients \ {c} PROVE StaysOf(d)'
    <3>1. StaysOf(d) /\ reg'[d] = reg[d] /\ fd[d] # fd[c]
      BY <1>2, <2>1, <2>3
    <3>2. reg[d].pc \in Claimed => fd[d] \in Fds
      BY DEF TypeInv, Phases, PhaseOf, Types, ClientTypes, Claimed
    <3> QED
      BY <1>1, <2>5, <3>1, <3>2 DEF StaysOf, Kept
  <2>9. StaysOf(c)'
    <3>1. CASE ClaimPlace(c)
      BY <1>1, <2>4, <2>5, <3>1 DEF StaysOf, Kept
    <3>2. CASE ~ClaimPlace(c)
      <4>1. client_socket_fd' = client_socket_fd /\ StaysOf(c)
            /\ reg[c].pc \in Claimed /\ reg'[c].pc \in Claimed
        BY <2>1, <2>4, <2>5, <3>2
      <4>2. groups_joined'[fd[c]] = c \/ (groups_joined' = groups_joined /\ reg[c].pc # "groups")
        BY <1>4, <2>6, <2>7, <3>2
      <4> QED
        BY <1>1, <4>1, <4>2 DEF StaysOf, Kept, Claimed
    <3> QED
      BY <3>1, <3>2
  <2> QED
    BY <2>8, <2>9
<1>5. CASE (ClaimPlace(c) \/ KeepGroups(c) \/ StampClient(c)) /\ NoReset'
  BY <1>1, <1>4, <1>5 DEF StaysInv, NoReset
<1>6. CASE ~NoReset'
  BY <1>6 DEF StaysInv
<1> QED
  BY <1>3, <1>5, <1>6, HandleFrame

\* Whoever the timer removes is marked.
LEMMA RemoveStays ==
    ASSUME TypeInv, TimerInv, StaysInv, RemoveClient
    PROVE  StaysInv'
<1>1. /\ UNCHANGED <<conn, fd, reg, hasty>> /\ timer.pc = "remove"
      /\ client_socket_fd' = [client_socket_fd EXCEPT ![timer.i] = -1]
      /\ groups_joined' = [groups_joined EXCEPT ![timer.i] = None]
  BY DEF RemoveClient, client
<1> SUFFICES ASSUME NoReset', NEW c \in Clients PROVE StaysOf(c)'
  BY DEF StaysInv
<1>2. StaysOf(c)
  BY <1>1 DEF NoReset, StaysInv
<1> SUFFICES ASSUME conn[c] = "up", c \notin hasty, reg[c].pc \in Claimed PROVE Kept(c)'
  BY <1>1, <1>2 DEF StaysOf
<1>3. Kept(c)
  BY <1>2 DEF StaysOf
<1>4. fd[c] \in Fds
  BY DEF TypeInv, Phases, PhaseOf, Types, ClientTypes
<1>5. Losing(c)
  BY <1>3, <1>4 DEF Losing, Kept, InArray, Claimed
<1>6. fd[c] # timer.i
  BY <1>1, <1>5 DEF TimerInv
<1> QED
  BY <1>1, <1>3, <1>4, <1>6 DEF Kept, TypeInv, Types, TableTypes

LEMMA NextStays ==
    ASSUME TypeInv, TimerInv, FdInv, StaysInv, [Next]_vars
    PROVE  StaysInv'
<1>0. NoReset' => NoReset
  BY NoResetKept
<1>1. CASE UNCHANGED vars
  BY <1>0, <1>1, StaysKept DEF vars, client, table
<1>2. CASE Tick
  BY <1>0, <1>2, TickFrame, StaysKept
<1>3. ASSUME NEW c \in Clients, Connect(c) PROVE StaysInv'
  <2>1. UNCHANGED <<client_socket_fd, groups_joined, reg, hasty>> /\ conn[c] = "new"
    BY <1>3 DEF Connect, table
  <2>2. \A d \in Clients \ {c} : fd'[d] = fd[d] /\ conn'[d] = conn[d]
    BY <1>3 DEF Connect, TypeInv, Types, ClientTypes
  <2>3. reg[c].pc = "none"
    BY <2>1 DEF TypeInv, Phases, PhaseOf
  <2> QED
    BY <1>0, <2>1, <2>2, <2>3, StaysKept DEF Claimed
<1>4. ASSUME NEW c \in Clients, Exit(c) \/ Reset(c) PROVE StaysInv'
  <2>1. UNCHANGED <<client_socket_fd, groups_joined, reg, hasty, fd>>
    BY <1>4 DEF Exit, Reset, table
  <2>2. \A d \in Clients : conn'[d] = "up" => conn[d] = "up"
    BY <1>4 DEF Exit, Reset, TypeInv, Types, ClientTypes
  <2> QED
    BY <1>0, <2>1, <2>2, StaysKept
<1>5. ASSUME NEW c \in Clients, client_Communication(c) PROVE StaysInv'
  BY <1>0, <1>5, CommunicationFrame, StaysKept DEF Claimed
<1>6. ASSUME NEW c \in Clients, Handle_group_id_regs(c) PROVE StaysInv'
  BY <1>6, HandleStays
<1>7. CASE timer_handler
  <2>1. CASE Wake \/ LookAtClient
    BY <1>0, <2>1, StaysKept DEF Wake, LookAtClient, client, table
  <2>2. CASE CancelThread
    BY <1>0, <2>2, CancelFrame, StaysKept DEF CancelThread, client, table
  <2>3. CASE CloseRemoved
    <3>1. UNCHANGED <<client_socket_fd, groups_joined, reg, hasty, fd>>
      BY <2>3 DEF CloseRemoved, table
    <3>2. \A d \in Clients : conn'[d] = "up" => conn[d] = "up"
      BY <2>3 DEF CloseRemoved
    <3> QED
      BY <1>0, <3>1, <3>2, StaysKept
  <2> QED
    BY <1>7, <2>1, <2>2, <2>3, RemoveStays DEF timer_handler
<1> QED
  BY <1>1, <1>2, <1>3, <1>4, <1>5, <1>6, <1>7 DEF Next, Server

-----------------------------------------------------------------------------
(* Who stays in the lists, unless two write a head at once.                *)

\* Where a list goes on at node n, once the registration that links n has done so.
VNext(n) ==
    IF reg[n[1]].pc = "link" /\ n[2] = reg[n[1]].k THEN reg[n[1]].temp ELSE next[n]

Closed(g, S) ==
    /\ head[g] # None => head[g] \in S
    /\ \A x \in S : VNext(x) # None => VNext(x) \in S

\* Node n has become the head of its list, and may be anywhere in it now.
Pushed(n) ==
    LET r == reg[n[1]]
    IN  /\ n[2] \in DOMAIN Joins[n[1]]
        /\ \/ r.pc \in {"claim", "groups", "stamp", "end", "done"}
           \/ r.pc \in Listing /\ n[2] < r.k
           \/ r.pc = "link" /\ n[2] = r.k

\* Nodes that are not in a list yet.
Fresh(n) ==
    LET r == reg[n[1]]
    IN  r.pc = "none" \/ (r.pc \in Listing /\ n[2] >= r.k)

FreshInv == \A n \in Nodes : Fresh(n) => next[n] = None

ListedIn(n, g) == \A S \in SUBSET Nodes : Closed(g, S) => n \in S

ListedInv ==
    \A n \in Nodes :
        LET g == Joins[n[1]][n[2]]
        IN  Pushed(n) /\ g \notin raced => ListedIn(n, g)

LinkedInv == FreshInv /\ ListedInv

LEMMA InitLinked == Init => LinkedInv
BY DEF Init, initialize_group_array, LinkedInv, FreshInv, ListedInv, Pushed, Nodes, Idle,
       Listing

LEMMA NodeFacts ==
    ASSUME NEW n \in Nodes
    PROVE  n[1] \in Clients /\ n[2] \in 1 .. 2 /\ n = <<n[1], n[2]>>
BY DEF Nodes

\* Steps that put no node into a list.
LEMMA LinkedKept ==
    ASSUME LinkedInv, UNCHANGED <<head, next>>, raced \subseteq raced',
           \A n \in Nodes : VNext(n)' = VNext(n),
           \A n \in Nodes : Pushed(n)' => Pushed(n),
           \A n \in Nodes : Fresh(n)' => Fresh(n)
    PROVE  LinkedInv'
<1>1. FreshInv'
  BY DEF LinkedInv, FreshInv
<1>2. \A g : \A S \in SUBSET Nodes : Closed(g, S)' => Closed(g, S)
  BY DEF Closed
<1>3. ListedInv'
  BY <1>2 DEF LinkedInv, ListedInv, ListedIn
<1> QED
  BY <1>1, <1>3 DEF LinkedInv

\* A registration that is not in the lists, before and after.
LEMMA OutsideLists ==
    ASSUME NEW n \in Nodes,
           reg'[n[1]] = reg[n[1]]
           \/ (/\ reg'[n[1]].pc = reg[n[1]].pc /\ reg'[n[1]].k = reg[n[1]].k
               /\ reg'[n[1]].temp = reg[n[1]].temp),
           next'[n] = next[n]
    PROVE  /\ VNext(n)' = VNext(n)
           /\ Pushed(n)' <=> Pushed(n)
           /\ Fresh(n)' <=> Fresh(n)
BY DEF VNext, Pushed, Fresh

\* The step of add_a_client_to_groups that makes node m the head of the list of g.
LEMMA PushLinked ==
    ASSUME TypeInv, LinkedInv, NEW c \in Clients, Handle_group_id_regs(c), PushNode(c)
    PROVE  LinkedInv'
<1>1. \A d \in Clients \ {c} : reg'[d] = reg[d]
  BY HandleOthers
<1>2. /\ reg[c].pc = "push"
      /\ \/ reg[c].temp = None /\ After(c, reg'[c])
         \/ /\ reg[c].temp # None /\ reg'[c].pc = "link"
            /\ reg'[c].k = reg[c].k /\ reg'[c].temp = reg[c].temp
  BY HandleSteps
<1>3. reg[c].k \in DOMAIN Joins[c] /\ reg[c].k \in 1 .. 2
  BY <1>2, FrameOf, JoinFacts DEF Listing
<1>4. PICK m \in Nodes, g \in Groups :
         m = Node(c) /\ m = <<c, reg[c].k>> /\ g = Group(c) /\ g = Joins[m[1]][m[2]]
  BY <1>2, FrameOf DEF Listing, Group
<1>5. /\ head' = [head EXCEPT ![g] = m] /\ next' = next
      /\ raced' = IF head[g] # reg[c].temp THEN raced \cup {g} ELSE raced
  BY <1>4 DEF PushNode, SetHead
<1>6. m[1] = c /\ m[2] = reg[c].k
  BY <1>4
<1>7. Fresh(m) /\ next[m] = None /\ VNext(m) = None
  <2>1. Fresh(m)
    BY <1>2, <1>3, <1>6 DEF Fresh, Listing
  <2> QED
    BY <1>2, <1>6, <2>1 DEF LinkedInv, FreshInv, VNext
<1>8. VNext(m)' = reg[c].temp
  BY <1>2, <1>5, <1>6, <1>7 DEF VNext, After
<1>9. ASSUME NEW n \in Nodes, n # m
      PROVE  VNext(n)' = VNext(n) /\ (Pushed(n)' => Pushed(n)) /\ (Fresh(n)' => Fresh(n))
  <2>1. CASE n[1] # c
    BY <1>1, <1>5, <2>1, NodeFacts, OutsideLists
  <2>2. CASE n[1] = c
    <3>1. n[2] # reg[c].k /\ n[2] \in 1 .. 2
      BY <1>4, <1>9, <2>2, NodeFacts
    <3>2. /\ VNext(n) = next[n] /\ VNext(n)' = next[n]
      BY <1>2, <1>5, <2>2, <3>1 DEF VNext, After
    <3>3. Pushed(n)' => Pushed(n)
      <4>1. CASE reg'[c].pc = "link" /\ reg'[c].k = reg[c].k
        BY <1>2, <2>2, <3>1, <4>1 DEF Pushed, Listing
      <4>2. CASE reg'[c].pc = "look" /\ reg'[c].k = reg[c].k + 1
        BY <1>2, <1>3, <2>2, <3>1, <4>2 DEF Pushed, Listing
      <4>3. CASE reg'[c].pc = "claim" /\ reg[c].k = Len(Joins[c])
        <5>1. n[2] \in DOMAIN Joins[c] => n[2] < reg[c].k
          <6>1. \A l \in 1 .. 2 : \A k \in 1 .. l : k # l => k < l
            OBVIOUS
          <6> QED
            BY <3>1, <4>3, <6>1, JoinFacts
        <5> QED
          BY <1>2, <2>2, <4>3, <5>1 DEF Pushed, Listing
      <4> QED
        BY <1>2, <4>1, <4>2, <4>3 DEF After
    <3>4. Fresh(n)' => Fresh(n)
      BY <1>2, <1>3, <2>2, <3>1 DEF Fresh, Listing, After
    <3> QED
      BY <3>2, <3>3, <3>4
  <2> QED
    BY <2>1, <2>2
<1>10. FreshInv'
  BY <1>5, <1>7, <1>9 DEF LinkedInv, FreshInv
<1>11. ASSUME NEW h, h \notin raced', NEW S \in SUBSET Nodes, Closed(h, S)'
       PROVE  Closed(h, S)
  <2>1. \A x \in S : VNext(x) # None => VNext(x) \in S
    BY <1>7, <1>9, <1>11 DEF Closed
  <2>2. head[h] # None => head[h] \in S
    <3>1. CASE h = g
      <4>1. head[g] = reg[c].temp /\ head'[g] = m
        BY <1>5, <1>11, <3>1 DEF TypeInv, Types, ListTypes
      <4>2. m \in S
        <5>1. m # None
          BY RegistryAssumption
        <5> QED
          BY <1>11, <3>1, <4>1, <5>1 DEF Closed
      <4>3. reg[c].temp # None => reg[c].temp \in S
        BY <1>8, <1>11, <4>2 DEF Closed
      <4> QED
        BY <3>1, <4>1, <4>3
    <3>2. CASE h # g
      <4>1. head'[h] = head[h]
        BY <1>5, <3>2 DEF TypeInv, Types, ListTypes
      <4> QED
        BY <1>11, <4>1 DEF Closed
    <3> QED
      BY <3>1, <3>2
  <2> QED
    BY <2>1, <2>2 DEF Closed
<1>12. ASSUME NEW S \in SUBSET Nodes, Closed(g, S)'
       PROVE  m \in S
  BY <1>5, <1>12, RegistryAssumption DEF Closed, TypeInv, Types, ListTypes
<1>13. ListedInv'
  <2> SUFFICES ASSUME NEW n \in Nodes, Pushed(n)', Joins[n[1]][n[2]] \notin raced',
                      NEW S \in SUBSET Nodes, Closed(Joins[n[1]][n[2]], S)'
               PROVE  n \in S
    BY DEF ListedInv, ListedIn
  <2>1. CASE n = m
    BY <1>4, <1>12, <2>1
  <2>2. CASE n # m
    <3>1. Pushed(n) /\ Joins[n[1]][n[2]] \notin raced
      BY <1>5, <1>9, <2>2
    <3>2. Closed(Joins[n[1]][n[2]], S)
      BY <1>11
    <3> QED
      BY <3>1, <3>2 DEF LinkedInv, ListedInv, ListedIn
  <2> QED
    BY <2>1, <2>2
<1> QED
  BY <1>10, <1>13 DEF LinkedInv

\* To link a node changes nothing of where the list is to go on.
LEMMA LinkLinked ==
    ASSUME TypeInv, LinkedInv, NEW c \in Clients, Handle_group_id_regs(c), LinkNode(c)
    PROVE  LinkedInv'
<1>1. \A d \in Clients \ {c} : reg'[d] = reg[d]
  BY HandleOthers
<1>2. reg[c].pc = "link" /\ After(c, reg'[c])
  BY HandleSteps
<1>3. reg[c].k \in DOMAIN Joins[c] /\ reg[c].k \in 1 .. 2
  BY <1>2, FrameOf, JoinFacts DEF Listing
<1>4. PICK m \in Nodes : m = Node(c) /\ m = <<c, reg[c].k>>
  BY <1>2, FrameOf DEF Listing
<1>5. /\ next' = [next EXCEPT ![m] = reg[c].temp] /\ UNCHANGED <<head, raced>>
      /\ m[1] = c /\ m[2] = reg[c].k
  BY <1>4 DEF LinkNode
<1>6. ASSUME NEW n \in Nodes
      PROVE  VNext(n)' = VNext(n) /\ (Pushed(n)' => Pushed(n))
             /\ (Fresh(n)' => Fresh(n) /\ n # m)
  <2>1. next'[n] = IF n = m THEN reg[c].temp ELSE next[n]
    BY <1>5 DEF TypeInv, Types, ListTypes
  <2>2. CASE n[1] # c
    BY <1>1, <1>5, <2>1, <2>2, NodeFacts, OutsideLists
  <2>3. CASE n[1] = c
    <3>1. n[2] \in 1 .. 2 /\ (n = m <=> n[2] = reg[c].k)
      BY <1>4, <2>3, NodeFacts
    <3>2. VNext(n)' = VNext(n)
      BY <1>2, <2>1, <2>3, <3>1 DEF VNext, After
    <3>3. Pushed(n)' => Pushed(n)
      <4>1. CASE reg'[c].pc = "look" /\ reg'[c].k = reg[c].k + 1
        BY <1>2, <1>3, <2>3, <3>1, <4>1 DEF Pushed, Listing
      <4>2. CASE reg'[c].pc = "claim" /\ reg[c].k = Len(Joins[c])
        <5>1. n[2] \in DOMAIN Joins[c] => n[2] < reg[c].k \/ n[2] = reg[c].k
          <6>1. \A l \in 1 .. 2 : \A k \in 1 .. l : k < l \/ k = l
            OBVIOUS
          <6> QED
            BY <3>1, <4>2, <6>1, JoinFacts
        <5> QED
          BY <1>2, <2>3, <4>2, <5>1 DEF Pushed, Listing
      <4> QED
        BY <1>2, <4>1, <4>2 DEF After
    <3>4. Fresh(n)' => Fresh(n) /\ n # m
      BY <1>2, <1>3, <2>3, <3>1 DEF Fresh, Listing, After
    <3> QED
      BY <3>2, <3>3, <3>4
  <2> QED
    BY <2>2, <2>3
<1>7. FreshInv'
  BY <1>5, <1>6 DEF LinkedInv, FreshInv, TypeInv, Types, ListTypes
<1>8. \A h : \A S \in SUBSET Nodes : Closed(h, S)' => Closed(h, S)
  BY <1>5, <1>6 DEF Closed
<1>9. ListedInv'
  BY <1>5, <1>6, <1>8 DEF LinkedInv, ListedInv, ListedIn
<1> QED
  BY <1>7, <1>9 DEF LinkedInv

LEMMA NextLinked == ASSUME TypeInv, LinkedInv, [Next]_vars PROVE LinkedInv'
<1>1. CASE UNCHANGED vars
  <2>1. UNCHANGED <<head, next, raced, reg>>
    BY <1>1 DEF vars, lists
  <2> QED
    BY <2>1, LinkedKept DEF VNext, Pushed, Fresh
<1>2. CASE Tick
  BY <1>2, TickFrame, LinkedKept DEF VNext, Pushed, Fresh
<1>3. ASSUME NEW c \in Clients, Connect(c) \/ Exit(c) \/ Reset(c) PROVE LinkedInv'
  <2>1. UNCHANGED <<head, next, raced, reg>>
    BY <1>3 DEF Connect, Exit, Reset, lists
  <2> QED
    BY <2>1, LinkedKept DEF VNext, Pushed, Fresh
<1>4. CASE timer_handler
  <2>1. UNCHANGED <<head, next, raced>>
    BY <1>4 DEF timer_handler, Wake, LookAtClient, CancelThread, RemoveClient,
                CloseRemoved, lists
  <2>2. \A c \in Clients : /\ reg'[c].pc = reg[c].pc /\ reg'[c].k = reg[c].k
                           /\ reg'[c].temp = reg[c].temp
    BY <1>4, CancelFrame DEF timer_handler, Wake, LookAtClient, RemoveClient, CloseRemoved
  <2>3. \A n \in Nodes : VNext(n)' = VNext(n) /\ (Pushed(n)' => Pushed(n))
                         /\ (Fresh(n)' => Fresh(n))
    BY <2>1, <2>2, NodeFacts, OutsideLists
  <2> QED
    BY <2>1, <2>3, LinkedKept
<1>5. ASSUME NEW c \in Clients, client_Communication(c) PROVE LinkedInv'
  <2>1. UNCHANGED <<head, next, raced>>
    BY <1>5, CommunicationFrame
  <2>2. ASSUME NEW n \in Nodes
        PROVE  VNext(n)' = VNext(n) /\ (Pushed(n)' => Pushed(n)) /\ (Fresh(n)' => Fresh(n))
    <3>1. CASE reg'[n[1]] = reg[n[1]]
      BY <2>1, <3>1, OutsideLists
    <3>2. CASE reg[n[1]].pc = "none" /\ reg'[n[1]].pc = "look" /\ reg'[n[1]].k = 1
      <4>1. n[2] \in 1 .. 2 /\ ~(n[2] < 1)
        BY NodeFacts
      <4> QED
        BY <2>1, <3>2, <4>1 DEF VNext, Pushed, Fresh, Listing
    <3> QED
      BY <1>5, <3>1, <3>2, NodeFacts, CommunicationFrame
  <2> QED
    BY <2>1, <2>2, LinkedKept
<1>6. ASSUME NEW c \in Clients, Handle_group_id_regs(c) PROVE LinkedInv'
  <2>1. CASE PushNode(c) \/ LinkNode(c)
    BY <1>6, <2>1, PushLinked, LinkLinked
  <2>2. CASE LookAtHead(c) \/ ClaimPlace(c) \/ KeepGroups(c) \/ StampClient(c)
    <3>1. UNCHANGED <<head, next, raced>>
      BY <2>2 DEF LookAtHead, ClaimPlace, KeepGroups, StampClient, lists
    <3>2. ASSUME NEW n \in Nodes
          PROVE  VNext(n)' = VNext(n) /\ (Pushed(n)' => Pushed(n)) /\ (Fresh(n)' => Fresh(n))
      <4>1. CASE n[1] # c
        BY <1>6, <3>1, <4>1, NodeFacts, HandleOthers, OutsideLists
      <4>2. CASE n[1] = c
        BY <1>6, <2>2, <3>1, <4>2, HandleSteps DEF VNext, Pushed, Fresh, Listing
      <4> QED
        BY <4>1, <4>2
    <3> QED
      BY <3>1, <3>2, LinkedKept
  <2> QED
    BY <1>6, <2>1, <2>2, HandleFrame
<1> QED
  BY <1>1, <1>2, <1>3, <1>4, <1>5, <1>6 DEF Next, Server

\* A list goes on within its group.
LEMMA VNextOf ==
    ASSUME TypeInv, ListInv, NEW x \in Nodes, VNext(x) # None
    PROVE  \E h \in Groups : NodeOf(x, h, Known) /\ NodeOf(VNext(x), h, Known)
<1>1. CASE reg[x[1]].pc = "link" /\ x[2] = reg[x[1]].k
  <2>1. x[1] \in Clients /\ x = Node(x[1]) /\ VNext(x) = reg[x[1]].temp
    BY <1>1, NodeFacts DEF VNext, Node
  <2>2. Group(x[1]) \in Groups /\ NodeOf(x, Group(x[1]), Known)
    BY <1>1, <2>1, FrameOf, OwnNode DEF Listing
  <2>3. NodeOf(VNext(x), Group(x[1]), Known)
    BY <1>1, <2>1 DEF ListInv, TempInv
  <2> QED
    BY <2>2, <2>3
<1>2. CASE ~(reg[x[1]].pc = "link" /\ x[2] = reg[x[1]].k)
  BY <1>2 DEF VNext, ListInv, NextInv
<1> QED
  BY <1>1, <1>2

\* What the server needs to find a client for each group that it joined.
LEMMA ServedWhenDone ==
    ASSUME TypeInv, ListInv, LinkedInv, StaysInv, NEW c \in Clients, NEW k \in DOMAIN Joins[c],
           NoReset, conn[c] = "up", reg[c].pc = "done", c \notin hasty,
           Joins[c][k] \notin raced,
           \A d \in Clients : ~(reg[d].pc = "link" /\ Group(d) = Joins[c][k])
    PROVE  fd[c] \in Served(Joins[c][k])
<1> DEFINE g == Joins[c][k]
           n == <<c, k>>
<1>1. n \in Nodes /\ n[1] = c /\ n[2] = k
  BY JoinFacts
<1>2. Pushed(n) /\ ListedIn(n, g)
  BY <1>1 DEF Pushed, LinkedInv, ListedInv
<1>3. NodeOf(n, g, Known)
  BY <1>1 DEF NodeOf, Known
<1>4. ASSUME NEW S \in SUBSET Nodes, HasList(g, S)
      PROVE  n \in S
  <2> DEFINE T == S \cup {x \in Nodes : ~NodeOf(x, g, Known)}
  <2>1. ASSUME NEW x \in T, VNext(x) # None PROVE VNext(x) \in T
    <3>1. x \in Nodes
      OBVIOUS
    <3>2. PICK h \in Groups : NodeOf(x, h, Known) /\ NodeOf(VNext(x), h, Known)
      BY <2>1, <3>1, VNextOf
    <3>3. VNext(x) \in Nodes
      BY <3>2 DEF NodeOf
    <3>4. CASE h # g
      <4>1. ~NodeOf(VNext(x), g, Known)
        BY <3>2, <3>4 DEF NodeOf
      <4> QED
        BY <3>3, <4>1
    <3>5. CASE h = g
      <4>1. x \in S
        BY <3>2, <3>5
      <4>2. ~(reg[x[1]].pc = "link" /\ x[2] = reg[x[1]].k)
        BY <3>1, <3>2, <3>5, NodeFacts DEF NodeOf, Group
      <4>3. VNext(x) = next[x]
        BY <4>2 DEF VNext
      <4> QED
        BY <1>4, <2>1, <4>1, <4>3 DEF HasList
    <3> QED
      BY <3>4, <3>5
  <2>2. Closed(g, T)
    BY <1>4, <2>1 DEF Closed, HasList
  <2>3. n \in T
    BY <1>2, <2>2 DEF ListedIn
  <2> QED
    BY <1>3, <2>3
<1>5. n \in Walk(g)
  BY <1>1, <1>4 DEF Walk
<1>6. client_socket_fd[fd[c]] = fd[c]
  BY DEF StaysInv, StaysOf, Kept, Claimed
<1> QED
  BY <1>1, <1>5, <1>6 DEF Served

ServedInv == ExpiryInv /\ FdInv /\ ListInv /\ StaysInv /\ LinkedInv

\* Under Prompt, a registered client that is there is found for each of its groups,
\* but while a node is linked, after two registrations at once, or after the timer
\* was hasty (add_a_client_to_groups, add_client, timer_handler).
THEOREM StaysServedHolds == ASSUME Prompt PROVE Spec => []StaysServed
<1>1. Init => ServedInv
  BY InitTypes, InitExpiry, InitFd, InitList, InitStays, InitLinked DEF ServedInv, ExpiryInv
<1>2. ServedInv /\ [Next]_vars => ServedInv'
  BY NextTypes, StepStamp, StepTimer, NextFd, NextList, NextStays, NextLinked
     DEF ServedInv, ExpiryInv
<1>3. ServedInv => StaysServed
  BY ServedWhenDone DEF ServedInv, ExpiryInv, StaysServed
<1> QED
  BY <1>1, <1>2, <1>3, PTL DEF Spec

=============================================================================
