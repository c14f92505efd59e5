----------------------------- MODULE TlvProofs -----------------------------
(***************************************************************************)
(* Proofs about the framing, for both ends of a connection and for the     *)
(* transfer of parts. The argument is where the parser is: between two     *)
(* messages, in a header, or in the body of the message it assembles; at   *)
(* the server, which forgets the state, it may have strayed; and each      *)
(* place it cannot recover from was preceded by a read that cut a message. *)
(***************************************************************************)
EXTENDS PartTransfer, TLAPS

\* The messages of both ends.
Message == [len : 1 .. Byte - 1]
    \cup [type : {"FILE_WRITE", "FILE_APPEND", "EXECUTE_JOB_ID"},
          len : 1 .. Byte - 1, from : Nat]

\* Where message k begins, or will.
Boundary(k) == IF k \in DOMAIN msgs THEN starts[k] ELSE total

StreamInv ==
    /\ end \in Ends
    /\ msgs \in Seq(Message) /\ starts \in Seq(Nat) /\ total \in Nat
    /\ Len(starts) = Len(msgs)
    /\ Boundary(1) = 0
    /\ \A k \in 1 .. Len(msgs) :
          /\ starts[k] <= total
          /\ Boundary(k + 1) = starts[k] + Header + msgs[k].len

\* The bytes at hand, and what the read that brought them has cut.
PieceInv ==
    /\ base + Bufflen <= total
    /\ pc = "read" => Bufflen = 0
    /\ pc \in {"start", "body"} => CutAt(base + Bufflen) \subseteq cuts

\* Nothing of a message is kept.
Reset ==
    /\ c = 0 /\ remaining_bytes = 0 /\ length = 0 /\ intact = 0
    /\ tlv_header_is_complete = TRUE /\ tlv_is_complete = TRUE

Between == Reset /\ base + r = Boundary(Next1)

\* In the header of the message: its type and some length bytes are read.
InHeader ==
    /\ Next1 \in 1 .. Len(msgs) /\ "header" \in cuts
    /\ c = 0 /\ remaining_bytes = 0 /\ length = 0 /\ intact = 0
    /\ tlv_header_is_complete = FALSE /\ tlv_is_complete = TRUE
    /\ len_bytes_processed < Header - 1 /\ r = 0
    /\ base + r = starts[Next1] + 1 + len_bytes_processed

\* c bytes into the body of the message.
InBody ==
    /\ Next1 \in 1 .. Len(msgs)
    /\ length = msgs[Next1].len /\ c + remaining_bytes = length
    /\ remaining_bytes > 0 /\ tlv_header_is_complete = TRUE
    /\ base + r = starts[Next1] + Header + c
    /\ tlv_is_complete = TRUE => c = 0
    /\ tlv_is_complete = FALSE => r = 0 /\ cuts # {}
    /\ c > 0 => "body" \in cuts
    /\ c = 0 => intact = 0
    /\ end = "server" /\ pc # "read" => tlv_is_complete = TRUE

\* The server begins anew inside a message.
Stray ==
    /\ Reset /\ end = "server" /\ cuts # {} /\ r = 0 /\ Bufflen > 0
    /\ Next1 \in 1 .. Len(msgs) /\ base + r > starts[Next1]

PlaceInv ==
    \/ pc \in {"lost", "crashed"} /\ InStep
    \/ pc = "reset"
    \/ pc \in {"read", "start"} /\ Between
    \/ pc \in {"read", "start"} /\ InHeader
    \/ pc = "body" /\ InBody
    \/ pc \in {"read", "start"} /\ tlv_is_complete = FALSE /\ InBody
    \/ pc = "start" /\ Stray

HandledInv == Len(handled) <= Len(msgs) /\ LengthsRight /\ BodiesWhole

Inv == StreamInv /\ TypeOK /\ PieceInv /\ PlaceInv /\ HandledInv

\* A step that writes one message, and one of the assembler.
AnyWrite ==
    /\ \E m \in Message : Put(m, m.len)
    /\ UNCHANGED <<handled, cuts, pc, buffer, state>>

Step == AnyWrite \/ Read \/ assemble_tlv \/ Stop

-----------------------------------------------------------------------------
(* The stream.                                                             *)

LEMMA SeqElement ==
    ASSUME NEW S, NEW q \in Seq(S), NEW k \in 1 .. Len(q)
    PROVE  q[k] \in S
OBVIOUS

LEMMA MessageLen ==
    ASSUME NEW m \in Message
    PROVE  m.len \in 1 .. Byte - 1
BY DEF Message

LEMMA NothingRead == \A x, y, n : x = 0 /\ y = n /\ n \in Nat /\ n > 0 => y > 0 /\ x + y = n
OBVIOUS

LEMMA LenNat ==
    ASSUME NEW n \in 1 .. Byte - 1
    PROVE  n \in Nat /\ n > 0
BY DEF Byte

\* A message that is there lies between two boundaries.
LEMMA MessageTypes ==
    ASSUME StreamInv, NEW k \in 1 .. Len(msgs)
    PROVE  /\ starts[k] \in Nat /\ msgs[k].len \in 1 .. Byte - 1
           /\ msgs[k].len \in Nat /\ msgs[k].len > 0
           /\ Boundary(k) = starts[k]
           /\ Boundary(k + 1) = starts[k] + Header + msgs[k].len
<1>1. msgs[k] \in Message
  <2>1. msgs \in Seq(Message)
    BY DEF StreamInv
  <2> QED
    BY <2>1, SeqElement
<1>2. starts[k] \in Nat
  BY DEF StreamInv
<1>3. Boundary(k) = starts[k]
  BY DEF StreamInv, Boundary
<1>4. Boundary(k + 1) = starts[k] + Header + msgs[k].len
  BY DEF StreamInv
<1>5. msgs[k].len \in 1 .. Byte - 1
  BY <1>1, MessageLen
<1> QED
  BY <1>2, <1>3, <1>4, <1>5, LenNat

\* Where the message that is assembled begins.
LEMMA NextTypes ==
    ASSUME StreamInv, TypeOK, HandledInv
    PROVE  /\ Len(handled) \in Nat /\ Len(msgs) \in Nat
           /\ Next1 \in 1 .. Len(msgs) + 1 /\ DOMAIN msgs = 1 .. Len(msgs)
           /\ Next1 \notin 1 .. Len(msgs) => Boundary(Next1) = total
BY DEF HandledInv, TypeOK, StreamInv, Next1, Boundary

\* What a read cuts.
LEMMA CutKinds ==
    ASSUME NEW e, NEW k \in DOMAIN msgs
    PROVE  LET o == e - starts[k]
           IN  /\ o \in 1 .. Header - 1 => "header" \in CutAt(e)
               /\ o = Header => "gap" \in CutAt(e)
               /\ o \in Header + 1 .. Header + msgs[k].len - 1 => "body" \in CutAt(e)
<1> DEFINE o == e - starts[k]
           n == msgs[k].len
<1>1. Cut(o, n) \subseteq CutAt(e)
  BY DEF CutAt
<1> HIDE DEF o, n
<1>2. o \in 1 .. Header - 1 => Cut(o, n) = {"header"}
  BY DEF Cut, Header
<1>3. o = Header => Cut(o, n) = {"gap"}
  BY DEF Cut, Header
<1>4. o \in Header + 1 .. Header + n - 1 => Cut(o, n) = {"body"}
  BY DEF Cut, Header
<1> QED
  BY <1>1, <1>2, <1>3, <1>4 DEF o, n

LEMMA CutTypes == \A e : CutAt(e) \subseteq {"header", "gap", "body"}
BY DEF CutAt, Cut

\* Writing keeps the boundaries where they are and adds one at the end; bytes
\* that were there are cut as before.
LEMMA WriteStream ==
    ASSUME StreamInv, AnyWrite
    PROVE  /\ StreamInv'
           /\ Len(msgs') = Len(msgs) + 1 /\ total' >= total
           /\ \A k \in 1 .. Len(msgs) :
                 msgs'[k] = msgs[k] /\ starts'[k] = starts[k]
           /\ \A k \in 1 .. Len(msgs) + 1 : Boundary(k)' = Boundary(k)
           /\ starts'[Len(msgs) + 1] = total
<1>1. PICK m \in Message : Put(m, m.len)
  BY DEF AnyWrite
<1> DEFINE n == m.len
<1>2. n \in Nat \ {0}
  BY MessageLen DEF Byte
<1>3. /\ msgs' = Append(msgs, m) /\ starts' = Append(starts, total)
      /\ total' = total + Header + n /\ end' = end
  BY <1>1 DEF Put
<1>4. /\ msgs' \in Seq(Message) /\ starts' \in Seq(Nat) /\ total' \in Nat
      /\ Len(msgs') = Len(msgs) + 1 /\ Len(starts') = Len(msgs) + 1
      /\ total' >= total
  BY <1>2, <1>3 DEF StreamInv, Header
<1>5. \A k \in 1 .. Len(msgs) : msgs'[k] = msgs[k] /\ starts'[k] = starts[k]
  BY <1>2, <1>3 DEF StreamInv
<1>6. msgs'[Len(msgs) + 1] = m /\ starts'[Len(msgs) + 1] = total
  BY <1>2, <1>3 DEF StreamInv
<1>7. \A k \in 1 .. Len(msgs) + 1 : Boundary(k)' = Boundary(k)
  BY <1>4, <1>5, <1>6 DEF StreamInv, Boundary
<1>8. \A k \in 1 .. Len(msgs') :
         starts'[k] <= total' /\ Boundary(k + 1)' = starts'[k] + Header + msgs'[k].len
  <2> SUFFICES ASSUME NEW k \in 1 .. Len(msgs')
               PROVE  /\ starts'[k] <= total'
                      /\ Boundary(k + 1)' = starts'[k] + Header + msgs'[k].len
    OBVIOUS
  <2>1. CASE k \in 1 .. Len(msgs)
    <3>1. starts[k] <= total /\ starts[k] \in Nat
      BY <2>1 DEF StreamInv
    <3>2. Boundary(k + 1)' = Boundary(k + 1)
      BY <2>1, <1>7 DEF StreamInv
    <3>3. Boundary(k + 1) = starts[k] + Header + msgs[k].len
      BY <2>1 DEF StreamInv
    <3>4. starts'[k] = starts[k] /\ msgs'[k] = msgs[k]
      BY <2>1, <1>5
    <3>5. total \in Nat /\ total' >= total /\ total' \in Nat
      BY <1>4 DEF StreamInv
    <3>6. starts'[k] <= total'
      BY <3>1, <3>4, <3>5
    <3> QED
      BY <3>2, <3>3, <3>4, <3>6
  <2>2. CASE k = Len(msgs) + 1
    BY <2>2, <1>2, <1>3, <1>4, <1>6 DEF StreamInv, Boundary, Header
  <2> QED
    BY <1>4, <2>1, <2>2 DEF StreamInv
<1>9. Boundary(1)' = 0
  BY <1>7 DEF StreamInv
<1> QED
  BY <1>3, <1>4, <1>5, <1>6, <1>7, <1>8, <1>9 DEF StreamInv

LEMMA WriteCuts ==
    ASSUME StreamInv, AnyWrite, NEW e \in Nat, e <= total
    PROVE  CutAt(e)' \subseteq CutAt(e)
<1> SUFFICES ASSUME NEW k \in DOMAIN msgs', NEW x \in Cut(e - starts'[k], msgs'[k].len)
             PROVE  x \in CutAt(e)
  BY DEF CutAt, Cut
<1>1. k \in 1 .. Len(msgs) + 1 /\ DOMAIN msgs = 1 .. Len(msgs)
  BY WriteStream DEF StreamInv
<1>2. CASE k \in 1 .. Len(msgs)
  <2>1. starts'[k] = starts[k] /\ msgs'[k] = msgs[k]
    BY <1>2, WriteStream
  <2> QED
    BY <1>1, <1>2, <2>1 DEF CutAt
<1>3. CASE k = Len(msgs) + 1
  <2>1. starts'[k] = total
    BY <1>3, WriteStream
  <2> DEFINE o == e - total
             n == msgs'[k].len
  <2>2. o \notin 1 .. Header - 1 /\ o # Header
        /\ o \notin Header + 1 .. Header + n - 1
    BY DEF StreamInv, Header
  <2> HIDE DEF o, n
  <2>3. Cut(o, n) = {}
    BY <2>2 DEF Cut
  <2> QED
    BY <2>1, <2>3 DEF o, n
<1> QED
  BY <1>1, <1>2, <1>3 DEF StreamInv

\* A step inside a call leaves the stream and what was handled as they are.
LEMMA InsideSame ==
    ASSUME UNCHANGED <<stream, handled, cuts>>, Inv
    PROVE  /\ StreamInv' /\ Next1' = Next1 /\ HandledInv'
           /\ msgs' = msgs /\ starts' = starts /\ total' = total
           /\ handled' = handled /\ cuts' = cuts /\ end' = end
           /\ \A k : Boundary(k)' = Boundary(k)
           /\ \A e : CutAt(e)' = CutAt(e)
<1>1. /\ msgs' = msgs /\ starts' = starts /\ total' = total
      /\ handled' = handled /\ cuts' = cuts /\ end' = end
  BY DEF stream
<1>2. (\A k : Boundary(k)' = Boundary(k)) /\ (\A e : CutAt(e)' = CutAt(e))
  BY <1>1 DEF Boundary, CutAt, Cut
<1>3. StreamInv'
  BY <1>1, <1>2 DEF Inv, StreamInv
<1>4. HandledInv' /\ Next1' = Next1
  BY <1>1 DEF Inv, HandledInv, LengthsRight, BodiesWhole, Next1
<1> QED
  BY <1>1, <1>2, <1>3, <1>4

\* What is left to say of the types when the stream and handled stay.
LEMMA InsideTypes ==
    ASSUME UNCHANGED <<stream, handled, cuts>>, TypeOK,
           pc' \in {"read", "start", "body", "lost", "crashed", "reset"},
           base' \in Nat, Bufflen' \in Nat, r' \in 0 .. Bufflen',
           c' \in Nat, remaining_bytes' \in Nat, length' \in Nat, intact' \in Nat,
           len_bytes_processed' \in 0 .. Header - 1,
           tlv_header_is_complete' \in BOOLEAN, tlv_is_complete' \in BOOLEAN
    PROVE  TypeOK'
<1>1. /\ starts' = starts /\ total' = total /\ end' = end
      /\ handled' = handled /\ cuts' = cuts
  BY DEF stream
<1> QED
  BY <1>1 DEF TypeOK

-----------------------------------------------------------------------------
(* One step.                                                               *)

LEMMA InitInv == Init => Inv
BY DEF Init, init_tlv_state, Inv, StreamInv, TypeOK, PieceInv, PlaceInv, Between,
       Reset, HandledInv, LengthsRight, BodiesWhole, Boundary, Next1, Header, Ends

LEMMA AnyWriteInv == Inv /\ AnyWrite => Inv'
<1> SUFFICES ASSUME Inv, AnyWrite PROVE Inv'
  OBVIOUS
<1>1. UNCHANGED <<handled, cuts, pc, buffer, state>> /\ end' = end
  BY DEF AnyWrite, Put
<1>2. StreamInv' /\ StreamInv /\ TypeOK /\ HandledInv /\ PieceInv /\ PlaceInv
  BY WriteStream DEF Inv
<1>3. TypeOK'
  BY <1>1, <1>2 DEF TypeOK, StreamInv, buffer, state
<1>4. base' = base /\ Bufflen' = Bufflen /\ r' = r /\ pc' = pc /\ cuts' = cuts
      /\ handled' = handled /\ UNCHANGED state
  BY <1>1 DEF buffer
<1>5. PieceInv'
  <2>1. total \in Nat /\ total' >= total /\ total' \in Nat /\ base \in Nat
        /\ Bufflen \in Nat /\ base + Bufflen <= total
    BY <1>2, WriteStream DEF StreamInv, TypeOK, PieceInv
  <2>2. ASSUME pc \in {"start", "body"} PROVE CutAt(base + Bufflen)' \subseteq cuts
    <3>1. PICK e : e = base + Bufflen
      OBVIOUS
    <3>2. e \in Nat /\ e <= total /\ CutAt(e) \subseteq cuts
      BY <2>1, <2>2, <3>1, <1>2 DEF PieceInv
    <3>3. CutAt(e)' \subseteq CutAt(e)
      BY <3>2, <1>2, WriteCuts
    <3>4. base' + Bufflen' = e
      BY <1>4, <3>1
    <3>5. CutAt(base + Bufflen)' = CutAt(e)'
      BY <3>4 DEF CutAt, Cut
    <3> QED
      BY <3>2, <3>3, <3>5
  <2> QED
    BY <1>2, <1>4, <2>1, <2>2 DEF PieceInv
<1>6. Next1 \in 1 .. Len(msgs) + 1 /\ Next1' = Next1 /\ Len(msgs) \in Nat
  BY <1>2, <1>4, NextTypes DEF Next1
<1>7. Boundary(Next1)' = Boundary(Next1)
  BY <1>6, WriteStream, <1>2 DEF Boundary
<1>8. ASSUME Next1 \in 1 .. Len(msgs)
      PROVE  /\ Next1 \in 1 .. Len(msgs') /\ msgs'[Next1] = msgs[Next1]
             /\ starts'[Next1] = starts[Next1]
  BY <1>2, <1>6, <1>8, WriteStream
<1>9. Between => Between'
  BY <1>4, <1>6, <1>7 DEF Between, Reset, state
<1>10. InHeader => InHeader'
  BY <1>4, <1>6, <1>8 DEF InHeader, state
<1>11. InBody => InBody'
  BY <1>1, <1>4, <1>6, <1>8 DEF InBody, state
<1>12. Stray => Stray'
  BY <1>1, <1>4, <1>6, <1>8 DEF Stray, Reset, state
<1>13. PlaceInv'
  BY <1>1, <1>2, <1>4, <1>9, <1>10, <1>11, <1>12 DEF PlaceInv, InStep, state
<1>14. HandledInv'
  <2>1. Len(handled) \in Nat /\ DOMAIN handled = 1 .. Len(handled)
        /\ DOMAIN msgs = 1 .. Len(msgs) /\ DOMAIN msgs' = 1 .. Len(msgs')
    BY <1>2 DEF TypeOK, StreamInv
  <2>2. Len(handled) <= Len(msgs) /\ LengthsRight /\ BodiesWhole
    BY <1>2 DEF HandledInv
  <2>3. \A k \in 1 .. Len(handled) : k \in 1 .. Len(msgs) /\ handled[k].len = msgs[k].len
    BY <2>1, <2>2 DEF LengthsRight
  <2>4. \A k \in 1 .. Len(msgs) : msgs'[k] = msgs[k]
    BY <1>2, WriteStream
  <2>5. Len(msgs') = Len(msgs) + 1
    BY <1>2, WriteStream
  <2>6. LengthsRight'
    BY <1>4, <1>6, <2>1, <2>3, <2>4, <2>5 DEF LengthsRight
  <2>7. BodiesWhole'
    BY <1>1, <1>4, <2>2 DEF BodiesWhole
  <2> QED
    BY <1>4, <1>6, <2>1, <2>2, <2>5, <2>6, <2>7 DEF HandledInv
<1> QED
  BY <1>2, <1>3, <1>5, <1>13, <1>14 DEF Inv

\* A read puts a piece before the parser. The client goes on from where it was;
\* the server, if it was inside a message, has strayed.
LEMMA ReadInv ==
    ASSUME Inv, Read
    PROVE  Inv'
<1>1. UNCHANGED <<stream, handled, base, r>> /\ pc = "read" /\ pc' = "start"
  BY DEF Read, ReadKeeping, ReadFresh, Piece
<1>2. PICK n \in 1 .. ReadSize[end] : Piece(n)
  BY DEF Read, ReadKeeping, ReadFresh
<1>3. n \in Nat \ {0}
  BY AssemblerAssumption DEF AssemblerAssumption, Inv, StreamInv
<1>4. /\ n <= total - base /\ Bufflen' = n /\ cuts' = cuts \cup CutAt(base + n)
      /\ base' = base /\ r' = 0 /\ r = 0 /\ Bufflen = 0
      /\ base \in Nat /\ total \in Nat /\ handled' = handled
  BY <1>1, <1>2 DEF Piece, Inv, TypeOK, PieceInv, StreamInv
<1>5. /\ msgs' = msgs /\ starts' = starts /\ total' = total /\ end' = end
      /\ Next1' = Next1
  BY <1>1 DEF stream, Next1
<1>6. (\A k : Boundary(k)' = Boundary(k)) /\ StreamInv'
  BY <1>5 DEF Boundary, Inv, StreamInv
<1>7. cuts' \subseteq {"header", "gap", "body"}
  BY <1>4, CutTypes DEF Inv, TypeOK
<1>8. PieceInv'
  <2>1. CutAt(base + Bufflen)' = CutAt(base + n)
    BY <1>4, <1>5 DEF CutAt, Cut
  <2> QED
    BY <1>1, <1>3, <1>4, <1>5, <2>1 DEF PieceInv
<1>9. HandledInv'
  BY <1>4, <1>5 DEF Inv, HandledInv, LengthsRight, BodiesWhole
<1>10. CASE ReadKeeping
  <2>1. UNCHANGED state
    BY <1>10 DEF ReadKeeping
  <2>2. TypeOK'
    BY <1>1, <1>3, <1>4, <1>5, <1>6, <1>7, <2>1 DEF Inv, TypeOK, StreamInv, state
  <2>3. end = "client"
    BY <1>10 DEF ReadKeeping
  <2>4. Between => Between'
    BY <1>4, <1>5, <1>6, <2>1 DEF Between, Reset, state
  <2>5. InHeader => InHeader'
    BY <1>4, <1>5, <2>1 DEF InHeader, state
  <2>6. InBody => InBody'
    BY <1>4, <1>5, <2>1, <2>3 DEF InBody, state
  <2>7. PlaceInv'
    BY <1>1, <2>1, <2>4, <2>5, <2>6 DEF Inv, PlaceInv, state
  <2> QED
    BY <1>6, <1>8, <1>9, <2>2, <2>7 DEF Inv
<1>11. CASE ReadFresh
  <2>1. Reset' /\ len_bytes_processed' = 0 /\ end = "server"
    BY <1>11 DEF ReadFresh, Reset
  <2>2. TypeOK'
    BY <1>1, <1>3, <1>4, <1>5, <1>6, <1>7, <2>1
    DEF Inv, TypeOK, StreamInv, Reset, Header
  <2>3. Between => Between'
    BY <1>4, <1>5, <1>6, <2>1 DEF Between
  <2>4. ASSUME InHeader \/ (tlv_is_complete = FALSE /\ InBody) PROVE Stray'
    <3>1. Next1 \in 1 .. Len(msgs) /\ cuts # {} /\ starts[Next1] \in Nat
      BY <2>4, MessageTypes DEF InHeader, InBody, Inv
    <3>2. base + r > starts[Next1]
      <4> DEFINE s == starts[Next1]
      <4>1. s \in Nat
        BY <3>1
      <4>2. c \in Nat /\ len_bytes_processed \in Nat
        BY DEF Inv, TypeOK, Header
      <4>3. base + r = s + 1 + len_bytes_processed \/ base + r = s + Header + c
        BY <2>4 DEF InHeader, InBody
      <4> HIDE DEF s
      <4>4. base + r > s
        BY <1>4, <4>1, <4>2, <4>3 DEF Header
      <4> QED
        BY <4>4 DEF s
    <3> QED
      BY <1>3, <1>4, <1>5, <2>1, <3>1, <3>2 DEF Stray
  <2>5. PlaceInv'
    BY <1>1, <2>3, <2>4 DEF Inv, PlaceInv
  <2> QED
    BY <1>6, <1>8, <1>9, <2>2, <2>5 DEF Inv
<1> QED
  BY <1>10, <1>11 DEF Read

\* The steps of assemble_tlv that handle nothing.
LEMMA NothingLeftInv ==
    ASSUME Inv, NothingLeft
    PROVE  Inv'
<1>1. UNCHANGED <<stream, handled, cuts>> /\ UNCHANGED state /\ pc = "start"
      /\ tlv_is_complete
  BY DEF NothingLeft
<1>2. pc' = "read" /\ base' = base + Bufflen /\ Bufflen' = 0 /\ r' = 0
      /\ Bufflen - r = 0
  BY DEF NothingLeft, Return, Left
<1>3. base \in Nat /\ Bufflen \in Nat /\ r \in Nat /\ total \in Nat
      /\ base + Bufflen <= total
  BY DEF Inv, TypeOK, PieceInv, StreamInv
<1>4. TypeOK' /\ PieceInv'
  BY <1>1, <1>2, <1>3, InsideSame DEF Inv, TypeOK, PieceInv, state
<1>5. base' + r' = base + r
  BY <1>2, <1>3
<1>6. Between => Between'
  BY <1>1, <1>5, InsideSame DEF Between, Reset, state
<1>7. InHeader => InHeader'
  BY <1>1, <1>2, <1>5, InsideSame DEF InHeader, state
<1>8. ~Stray
  BY <1>2, <1>3 DEF Stray
<1>9. PlaceInv'
  BY <1>1, <1>2, <1>6, <1>7, <1>8 DEF Inv, PlaceInv, state
<1> QED
  BY <1>1, <1>4, <1>9, InsideSame DEF Inv

LEMMA GoOnInv ==
    ASSUME Inv, GoOn
    PROVE  Inv'
<1>1. UNCHANGED <<stream, handled, cuts>> /\ UNCHANGED buffer /\ UNCHANGED state
      /\ pc = "start" /\ ~tlv_is_complete /\ pc' = "body"
  BY DEF GoOn
<1>2. TypeOK' /\ PieceInv'
  BY <1>1, InsideSame DEF Inv, TypeOK, PieceInv, buffer, state
<1>3. InBody /\ tlv_is_complete = FALSE
  BY <1>1 DEF Inv, PlaceInv, Between, InHeader, Stray, Reset
<1>4. InBody'
  BY <1>1, <1>3, InsideSame DEF InBody, buffer, state
<1> QED
  BY <1>1, <1>2, <1>4, InsideSame DEF Inv, PlaceInv

\* A header is read where there is none only by a server that has strayed.
LEMMA MisreadInv ==
    ASSUME Inv, Misread
    PROVE  Inv'
<1>1. UNCHANGED <<stream, handled, cuts>> /\ UNCHANGED buffer /\ UNCHANGED state
      /\ pc = "start" /\ tlv_is_complete /\ tlv_header_is_complete
      /\ Bufflen - r > 0 /\ ~AtHeader /\ pc' = "lost"
  BY DEF Misread, Left
<1>2. TypeOK' /\ PieceInv'
  BY <1>1, InsideSame DEF Inv, TypeOK, PieceInv, buffer, state
<1>3. ~Between
  <2> SUFFICES ASSUME Between PROVE FALSE
    OBVIOUS
  <2>1. Boundary(Next1) = total
    BY <1>1 DEF Between, AtHeader, Boundary
  <2>2. base + Bufflen <= total /\ base \in Nat /\ Bufflen \in Nat /\ r \in Nat
        /\ total \in Nat
    BY DEF Inv, TypeOK, PieceInv, StreamInv
  <2> QED
    BY <1>1, <2>1, <2>2 DEF Between
<1>4. Stray
  BY <1>1, <1>3 DEF Inv, PlaceInv, InHeader, InBody
<1>5. InStep'
  BY <1>1, <1>4, InsideSame DEF InStep, Stray
<1> QED
  BY <1>1, <1>2, <1>5, InsideSame DEF Inv, PlaceInv

\* The read has ended in the header.
LEMMA SplitHeaderInv ==
    ASSUME Inv, SplitHeader
    PROVE  Inv'
<1>1. UNCHANGED <<stream, handled, cuts>>
      /\ UNCHANGED <<c, remaining_bytes, length, tlv_is_complete, intact>>
      /\ pc = "start" /\ tlv_header_is_complete /\ remaining_bytes = 0 /\ AtHeader
      /\ Bufflen - r \in 1 .. Header - 1
  BY DEF SplitHeader, Left
<1>2. tlv_header_is_complete' = FALSE /\ len_bytes_processed' = (Bufflen - r) - 1
      /\ pc' = "read" /\ base' = base + Bufflen /\ Bufflen' = 0 /\ r' = 0
  BY DEF SplitHeader, Return, Left
<1>3. base \in Nat /\ Bufflen \in Nat /\ r \in Nat /\ total \in Nat
      /\ base + Bufflen <= total /\ CutAt(base + Bufflen) \subseteq cuts
  BY <1>1 DEF Inv, TypeOK, PieceInv, StreamInv
<1>4. TypeOK' /\ PieceInv'
  <2>1. base' \in Nat /\ len_bytes_processed' \in 0 .. Header - 1
    BY <1>1, <1>2, <1>3 DEF Header
  <2>2. /\ c' \in Nat /\ remaining_bytes' \in Nat /\ length' \in Nat /\ intact' \in Nat
        /\ tlv_is_complete' \in BOOLEAN /\ Bufflen' = 0 /\ r' = 0
    BY <1>1, <1>2 DEF Inv, TypeOK
  <2>3. r' \in 0 .. Bufflen' /\ Bufflen' \in Nat /\ TypeOK
    BY <2>2 DEF Inv
  <2>4. TypeOK'
    BY <1>1, <1>2, <2>1, <2>2, <2>3, InsideTypes
  <2> QED
    BY <1>1, <1>2, <1>3, <2>4, InsideSame DEF PieceInv
<1>5. Between
  <2>1. tlv_is_complete = FALSE /\ InBody => remaining_bytes # 0
    BY DEF InBody, Inv, TypeOK
  <2>2. ~InHeader
    BY <1>1 DEF InHeader
  <2>3. ~Stray
    <3>1. Next1 \in 1 .. Len(msgs) => starts[Next1] \in Nat
      BY MessageTypes DEF Inv
    <3>2. base \in Nat /\ r \in Nat
      BY <1>3
    <3> QED
      BY <1>1, <3>1, <3>2 DEF Stray, AtHeader
  <2> QED
    BY <1>1, <2>1, <2>2, <2>3 DEF Inv, PlaceInv
<1>6. Next1 \in 1 .. Len(msgs) /\ starts[Next1] \in Nat /\ base + r = starts[Next1]
  BY <1>1, MessageTypes DEF AtHeader, Inv, StreamInv
<1>7. "header" \in cuts
  <2>1. (base + Bufflen) - starts[Next1] \in 1 .. Header - 1
    BY <1>1, <1>3, <1>6 DEF Header
  <2>2. Next1 \in DOMAIN msgs
    BY <1>1 DEF AtHeader
  <2> QED
    BY <1>3, <2>1, <2>2, CutKinds
<1>8. base' + r' = starts[Next1] + 1 + len_bytes_processed'
  BY <1>1, <1>2, <1>3, <1>6 DEF Header
<1>9. len_bytes_processed' < Header - 1
  BY <1>1, <1>2, <1>3 DEF Header
<1>10. InHeader'
  BY <1>1, <1>2, <1>5, <1>6, <1>7, <1>8, <1>9, InsideSame DEF InHeader, Between, Reset
<1> QED
  BY <1>1, <1>2, <1>4, <1>10, InsideSame DEF Inv, PlaceInv

LEMMA MoreHeaderInv ==
    ASSUME Inv, MoreHeader
    PROVE  Inv'
<1>1. UNCHANGED <<stream, handled, cuts>>
      /\ UNCHANGED <<c, remaining_bytes, length, tlv_header_is_complete,
                     tlv_is_complete, intact>>
      /\ pc = "start" /\ ~tlv_header_is_complete
      /\ len_bytes_processed + (Bufflen - r) < Header - 1
  BY DEF MoreHeader, Left
<1>2. len_bytes_processed' = len_bytes_processed + (Bufflen - r)
      /\ pc' = "read" /\ base' = base + Bufflen /\ Bufflen' = 0 /\ r' = 0
  BY DEF MoreHeader, Return, Left
<1>3. base \in Nat /\ Bufflen \in Nat /\ r \in 0 .. Bufflen /\ total \in Nat
      /\ base + Bufflen <= total /\ len_bytes_processed \in Nat
  BY <1>1 DEF Inv, TypeOK, PieceInv, StreamInv
<1>4. TypeOK' /\ PieceInv'
  BY <1>1, <1>2, <1>3, InsideSame DEF Inv, TypeOK, PieceInv, Header
<1>5. InHeader
  BY <1>1 DEF Inv, PlaceInv, InBody, Between, Reset, Stray
<1>6. Next1 \in 1 .. Len(msgs) /\ starts[Next1] \in Nat
  BY <1>5, MessageTypes DEF InHeader, Inv
<1>7. base' + r' = starts[Next1] + 1 + len_bytes_processed'
  <2> DEFINE s == starts[Next1]
  <2>1. s \in Nat /\ base + r = s + 1 + len_bytes_processed
    BY <1>5, <1>6 DEF InHeader
  <2> HIDE DEF s
  <2>2. base' + r' = s + 1 + len_bytes_processed'
    BY <1>2, <1>3, <2>1
  <2> QED
    BY <2>2 DEF s
<1>8. InHeader'
  BY <1>1, <1>2, <1>5, <1>6, <1>7, InsideSame DEF InHeader
<1> QED
  BY <1>1, <1>2, <1>4, <1>8, InsideSame DEF Inv, PlaceInv

\* The last length bytes: the value is that of the last one, since all lengths
\* fit in a byte.
LEMMA FinishHeaderInv ==
    ASSUME Inv, FinishHeader
    PROVE  Inv'
<1> DEFINE k == Header - 1 - len_bytes_processed
<1>1. UNCHANGED <<stream, handled, cuts>>
      /\ UNCHANGED <<base, Bufflen, c, tlv_is_complete, intact>>
      /\ pc = "start" /\ ~tlv_header_is_complete /\ Bufflen - r >= k
  BY DEF FinishHeader, Left
<1>2. r' = r + k /\ len_bytes_processed' = Header - 1
      /\ tlv_header_is_complete' = TRUE
      /\ length' = SplitLength(msgs[Next1].len) /\ remaining_bytes' = length'
      /\ pc' = IF (Bufflen - r) - k >= Header THEN "lost" ELSE "body"
  BY DEF FinishHeader, Left
<1>3. InHeader
  BY <1>1 DEF Inv, PlaceInv, InBody, Between, Reset, Stray
<1>4. base \in Nat /\ Bufflen \in Nat /\ r \in Nat /\ total \in Nat
      /\ base + Bufflen <= total /\ len_bytes_processed \in Nat
      /\ CutAt(base + Bufflen) \subseteq cuts
  BY <1>1 DEF Inv, TypeOK, PieceInv, StreamInv, Header
<1>5. k \in Nat /\ k > 0
  BY <1>3, <1>4 DEF InHeader, Header
<1>6. Next1 \in 1 .. Len(msgs) /\ starts[Next1] \in Nat
      /\ msgs[Next1].len \in 1 .. Byte - 1
      /\ msgs[Next1].len \in Nat /\ msgs[Next1].len > 0
  BY <1>3, MessageTypes DEF InHeader, Inv
<1>7. length' = msgs[Next1].len
  <2> DEFINE n == msgs[Next1].len
  <2>1. n \in 1 .. 255 /\ length = 0
    BY <1>3, <1>6 DEF InHeader, Byte
  <2> HIDE DEF n
  <2>2. SplitLength(n) = n
    BY <2>1 DEF SplitLength, Byte
  <2> QED
    BY <1>2, <2>2 DEF n
<1>8. base' + r' = starts[Next1] + Header + c'
  <2> DEFINE s == starts[Next1]
  <2>1. s \in Nat /\ base + r = s + 1 + len_bytes_processed /\ c = 0
    BY <1>3, <1>6 DEF InHeader
  <2> HIDE DEF s
  <2>2. base' + r' = s + Header + c'
    BY <1>1, <1>2, <1>4, <2>1 DEF Header
  <2> QED
    BY <2>2 DEF s
<1>9. TypeOK'
  <2>1. r' \in 0 .. Bufflen /\ length' \in Nat /\ remaining_bytes' \in Nat
    <3>1. r' \in 0 .. Bufflen
      BY <1>1, <1>2, <1>4, <1>5
    <3>2. length' \in Nat
      BY <1>6, <1>7
    <3> QED
      BY <1>2, <3>1, <3>2
  <2>2. len_bytes_processed' \in 0 .. Header - 1 /\ pc' \in {"lost", "body"}
    BY <1>2 DEF Header
  <2>3. /\ c' \in Nat /\ intact' \in Nat /\ base' \in Nat /\ Bufflen' = Bufflen
        /\ Bufflen' \in Nat /\ tlv_is_complete' \in BOOLEAN /\ TypeOK
    BY <1>1 DEF Inv, TypeOK
  <2> QED
    BY <1>1, <1>2, <2>1, <2>2, <2>3, InsideTypes
<1>10. PieceInv'
  BY <1>1, <1>2, <1>4, InsideSame DEF Inv, PieceInv
<1>11. CASE pc' = "lost"
  BY <1>1, <1>3, <1>9, <1>10, <1>11, InsideSame DEF Inv, PlaceInv, InStep, InHeader
<1>12. CASE pc' = "body"
  <2>1. remaining_bytes' > 0 /\ c' + remaining_bytes' = length' /\ c' = 0
    <3>1. c' = 0 /\ remaining_bytes' = length'
      BY <1>1, <1>2, <1>3 DEF InHeader
    <3>2. length' \in Nat /\ length' > 0
      BY <1>6, <1>7
    <3> QED
      BY <3>1, <3>2, NothingRead
  <2>2. InBody'
    BY <1>1, <1>2, <1>3, <1>6, <1>7, <1>8, <2>1, InsideSame DEF InBody, InHeader
  <2> QED
    BY <1>1, <1>9, <1>10, <1>12, <2>2, InsideSame DEF Inv, PlaceInv
<1> QED
  BY <1>2, <1>11, <1>12

LEMMA TakeHeaderInv ==
    ASSUME Inv, TakeHeader
    PROVE  Inv'
<1>1. UNCHANGED <<stream, handled, cuts>>
      /\ UNCHANGED <<base, Bufflen, c, len_bytes_processed, tlv_header_is_complete,
                     tlv_is_complete>>
      /\ pc = "start" /\ tlv_header_is_complete /\ tlv_is_complete
      /\ Bufflen - r >= Header /\ AtHeader
  BY DEF TakeHeader, Left
<1>2. r' = r + Header /\ length' = msgs[Next1].len /\ intact' = 0
      /\ remaining_bytes' = msgs[Next1].len /\ pc' = "body"
  BY DEF TakeHeader
<1>3. base \in Nat /\ Bufflen \in Nat /\ r \in Nat /\ total \in Nat
      /\ base + Bufflen <= total /\ CutAt(base + Bufflen) \subseteq cuts
  BY <1>1 DEF Inv, TypeOK, PieceInv, StreamInv
<1>4. Next1 \in 1 .. Len(msgs) /\ starts[Next1] \in Nat /\ base + r = starts[Next1]
      /\ msgs[Next1].len \in Nat /\ msgs[Next1].len > 0
  BY <1>1, MessageTypes DEF AtHeader, Inv, StreamInv
<1>5. c = 0 /\ tlv_is_complete = TRUE /\ tlv_header_is_complete = TRUE
  BY <1>1 DEF Inv, PlaceInv, TypeOK, Between, InHeader, Stray, Reset
<1>6. TypeOK'
  <2>1. r' \in 0 .. Bufflen
    BY <1>1, <1>2, <1>3 DEF Header
  <2>2. length' \in Nat /\ remaining_bytes' \in Nat
    BY <1>2, <1>4
  <2>3. /\ c' \in Nat /\ base' \in Nat /\ Bufflen' = Bufflen
        /\ Bufflen' \in Nat /\ tlv_is_complete' \in BOOLEAN
        /\ tlv_header_is_complete' \in BOOLEAN
        /\ len_bytes_processed' \in 0 .. Header - 1 /\ TypeOK
    BY <1>1 DEF Inv, TypeOK
  <2> QED
    BY <1>1, <1>2, <2>1, <2>2, <2>3, InsideTypes
<1>7. PieceInv'
  BY <1>1, <1>2, <1>3, InsideSame DEF Inv, PieceInv
<1>8. base' + r' = starts[Next1] + Header + c'
  BY <1>1, <1>2, <1>3, <1>4, <1>5 DEF Header
<1>9. remaining_bytes' > 0 /\ c' + remaining_bytes' = length' /\ c' = 0
  <2>1. c' = 0 /\ remaining_bytes' = length'
    BY <1>1, <1>2, <1>5
  <2>2. length' \in Nat /\ length' > 0
    BY <1>2, <1>4
  <2> QED
    BY <2>1, <2>2, NothingRead
<1>10. InBody'
  BY <1>1, <1>2, <1>4, <1>5, <1>8, <1>9, InsideSame DEF InBody
<1> QED
  BY <1>1, <1>2, <1>6, <1>7, <1>10, InsideSame DEF Inv, PlaceInv

\* The read has ended in the body, or just before it.
LEMMA FillPartialInv ==
    ASSUME Inv, FillPartial
    PROVE  Inv'
<1> DEFINE n == Bufflen - r
<1>1. UNCHANGED <<stream, handled, cuts>>
      /\ UNCHANGED <<len_bytes_processed, length, tlv_header_is_complete>>
      /\ pc = "body" /\ remaining_bytes > n
  BY DEF FillPartial, Left
<1>2. intact' = Store(n) /\ remaining_bytes' = remaining_bytes - n /\ c' = c + n
      /\ tlv_is_complete' = FALSE
      /\ pc' = "read" /\ base' = base + Bufflen /\ Bufflen' = 0 /\ r' = 0
  BY DEF FillPartial, Return, Left
<1>3. base \in Nat /\ Bufflen \in Nat /\ r \in 0 .. Bufflen /\ total \in Nat
      /\ base + Bufflen <= total /\ CutAt(base + Bufflen) \subseteq cuts
      /\ c \in Nat /\ intact \in Nat /\ remaining_bytes \in Nat
  BY <1>1 DEF Inv, TypeOK, PieceInv, StreamInv
<1>4. n \in Nat /\ Store(n) \in Nat
  BY <1>3 DEF Store
<1>5. TypeOK'
  <2>1. base' \in Nat /\ c' \in Nat /\ remaining_bytes' \in Nat /\ intact' \in Nat
        /\ Bufflen' = 0 /\ r' = 0
    BY <1>1, <1>2, <1>3, <1>4
  <2>2. /\ length' \in Nat /\ tlv_header_is_complete' \in BOOLEAN
        /\ len_bytes_processed' \in 0 .. Header - 1 /\ TypeOK
    BY <1>1 DEF Inv, TypeOK
  <2>3. r' \in 0 .. Bufflen' /\ Bufflen' \in Nat
    BY <2>1
  <2> QED
    BY <1>1, <1>2, <2>1, <2>2, <2>3, InsideTypes
<1>6. PieceInv'
  BY <1>1, <1>2, <1>3, InsideSame DEF Inv, PieceInv
<1>7. InBody
  BY <1>1 DEF Inv, PlaceInv
<1>8. Next1 \in 1 .. Len(msgs) /\ starts[Next1] \in Nat
      /\ msgs[Next1].len \in Nat /\ Next1 \in DOMAIN msgs
  BY <1>7, MessageTypes DEF InBody, Inv, StreamInv
<1> DEFINE s == starts[Next1]
           m == msgs[Next1].len
<1>9. s \in Nat /\ m \in Nat /\ base + r = s + Header + c /\ length = m
      /\ c + remaining_bytes = m
  <2>1. s \in Nat /\ base + r = s + Header + c /\ length = m /\ c + remaining_bytes = length
    BY <1>7, <1>8 DEF InBody
  <2>2. m \in Nat
    BY <1>8
  <2> QED
    BY <2>1, <2>2
<1>10. (base + Bufflen) - s = Header + c'
  <2> HIDE DEF s, m
  <2> QED
    BY <1>2, <1>3, <1>9 DEF Header
<1>11. base' + r' = s + Header + c' /\ c' + remaining_bytes' = m
       /\ remaining_bytes' > 0
  <2> HIDE DEF s, m
  <2> QED
    BY <1>1, <1>2, <1>3, <1>4, <1>9 DEF Header
<1>12. /\ c' = 0 => (base + Bufflen) - s = Header
       /\ c' > 0 => (base + Bufflen) - s \in Header + 1 .. Header + m - 1
  <2> HIDE DEF s, m
  <2>1. (base + Bufflen) - s = Header + c'
    BY <1>10
  <2>2. c' \in Nat /\ c' < m
    BY <1>1, <1>2, <1>3, <1>4, <1>9
  <2> QED
    BY <1>9, <2>1, <2>2 DEF Header
<1>13. /\ c' = 0 => "gap" \in cuts
       /\ c' > 0 => "body" \in cuts
  BY <1>3, <1>8, <1>12, CutKinds
<1>14. cuts # {} /\ c' \in Nat
  BY <1>2, <1>3, <1>4, <1>13
<1>15. ASSUME c' = 0 PROVE intact' = 0
  <2>1. c = 0 /\ n = 0
    BY <1>2, <1>3, <1>4, <1>15
  <2>2. intact = 0
    BY <1>7, <2>1 DEF InBody
  <2>3. Store(0) = 0
    BY <2>1, <2>2 DEF Store
  <2> QED
    BY <1>2, <2>1, <2>3
<1>16. InBody'
  BY <1>1, <1>2, <1>7, <1>8, <1>9, <1>11, <1>13, <1>14, <1>15, InsideSame DEF InBody
<1> QED
  BY <1>1, <1>2, <1>5, <1>6, <1>16, InsideSame DEF Inv, PlaceInv

\* The message is complete. Its body was not cut if it begins in this piece, as
\* it always does at the server.
LEMMA CompleteBodyInv ==
    ASSUME Inv, CompleteBody
    PROVE  Inv'
<1> DEFINE h == [len |-> length, whole |-> Store(remaining_bytes) = length]
<1>1. UNCHANGED <<stream, cuts, base, Bufflen, len_bytes_processed,
                  tlv_header_is_complete>>
      /\ pc = "body" /\ remaining_bytes <= Bufflen - r
  BY DEF CompleteBody, Left
<1>2. handled' = Append(handled, h) /\ r' = r + remaining_bytes
      /\ remaining_bytes' = 0 /\ c' = 0 /\ length' = 0 /\ intact' = 0
      /\ tlv_is_complete' = TRUE /\ pc' = "start"
  BY DEF CompleteBody
<1>3. InBody
  BY <1>1 DEF Inv, PlaceInv
<1>4. Next1 \in 1 .. Len(msgs) /\ length = msgs[Next1].len
      /\ starts[Next1] \in Nat /\ msgs[Next1].len \in Nat
      /\ Boundary(Next1 + 1) = starts[Next1] + Header + msgs[Next1].len
  BY <1>3, MessageTypes DEF InBody, Inv
<1>5. base \in Nat /\ Bufflen \in Nat /\ r \in 0 .. Bufflen /\ remaining_bytes \in Nat
      /\ c \in Nat /\ handled \in Seq([len : Nat, whole : BOOLEAN])
  BY DEF Inv, TypeOK
<1>6. /\ msgs' = msgs /\ starts' = starts /\ total' = total /\ end' = end
      /\ cuts' = cuts /\ base' = base /\ Bufflen' = Bufflen
  BY <1>1 DEF stream
<1>7. (\A k : Boundary(k)' = Boundary(k)) /\ CutAt(base + Bufflen)' = CutAt(base + Bufflen)
  BY <1>6 DEF Boundary, CutAt, Cut
<1>8. StreamInv' /\ PieceInv'
  BY <1>1, <1>2, <1>6, <1>7 DEF Inv, StreamInv, PieceInv
<1>9. h \in [len : Nat, whole : BOOLEAN]
  BY <1>4
<1> HIDE DEF h
<1>10. /\ handled' \in Seq([len : Nat, whole : BOOLEAN])
       /\ Len(handled') = Len(handled) + 1 /\ Len(handled) \in Nat
       /\ \A k \in 1 .. Len(handled) : handled'[k] = handled[k]
       /\ handled'[Len(handled) + 1] = h
  BY <1>2, <1>5, <1>9
<1>11. Next1' = Next1 + 1
  BY <1>10 DEF Next1
<1>12. TypeOK'
  <2>1. r' \in 0 .. Bufflen'
    BY <1>1, <1>2, <1>5, <1>6
  <2> QED
    BY <1>1, <1>2, <1>6, <1>10, <2>1 DEF Inv, TypeOK
<1>13. base' + r' = Boundary(Next1)'
  <2>1. Boundary(Next1)' = Boundary(Next1 + 1)
    BY <1>6, <1>11 DEF Boundary
  <2> DEFINE s == starts[Next1]
             m == msgs[Next1].len
             b == Boundary(Next1 + 1)
  <2>2. base + r = s + Header + c /\ c + remaining_bytes = m /\ b = s + Header + m
    BY <1>3, <1>4 DEF InBody
  <2>3. s \in Nat /\ m \in Nat
    BY <1>4
  <2> HIDE DEF s, m, b
  <2>4. base + (r + remaining_bytes) = b
    BY <1>5, <2>2, <2>3 DEF Header
  <2> QED
    BY <1>2, <1>6, <2>1, <2>4 DEF b
<1>14. Between'
  BY <1>1, <1>2, <1>3, <1>13 DEF Between, Reset, InBody
<1>15. LengthsRight' /\ Len(handled') <= Len(msgs')
  <2>1. Len(handled) + 1 = Next1
    BY DEF Next1
  <2>2. Len(msgs) \in Nat /\ DOMAIN msgs = 1 .. Len(msgs)
    BY DEF Inv, StreamInv
  <2>3. \A k \in 1 .. Len(handled) : k \in 1 .. Len(msgs) /\ handled[k].len = msgs[k].len
    BY <1>10, <1>5, <2>2 DEF Inv, HandledInv, LengthsRight
  <2>4. h.len = msgs[Next1].len
    BY <1>4 DEF h
  <2>5. DOMAIN handled' = 1 .. Len(handled) + 1
    BY <1>10
  <2>6. \A k \in 1 .. Len(handled) + 1 : k \in 1 .. Len(handled) \/ k = Next1
    BY <1>10, <2>1
  <2>7. handled'[Next1] = h
    BY <1>10, <2>1
  <2>8. \A k \in DOMAIN handled' : k \in 1 .. Len(msgs) /\ handled'[k].len = msgs[k].len
    BY <1>4, <1>10, <2>3, <2>4, <2>5, <2>6, <2>7
  <2> QED
    BY <1>4, <1>6, <1>10, <2>1, <2>2, <2>8 DEF LengthsRight
<1>16. BodiesWhole'
  <2> SUFFICES ASSUME "body" \in cuts => end = "server", NEW k \in DOMAIN handled'
               PROVE  handled'[k].whole
    BY <1>6 DEF BodiesWhole
  <2>1. k \in 1 .. Len(handled) \/ k = Len(handled) + 1
    BY <1>10
  <2>2. CASE k \in 1 .. Len(handled)
    BY <1>5, <1>10, <2>2 DEF Inv, HandledInv, BodiesWhole
  <2>3. CASE k = Len(handled) + 1
    <3>1. c = 0
      <4>1. c > 0 => "body" \in cuts
        BY <1>3 DEF InBody
      <4>2. end = "server" => c = 0
        BY <1>1, <1>3 DEF InBody
      <4> QED
        BY <1>5, <4>1, <4>2
    <3>2. intact = 0 /\ length = remaining_bytes /\ remaining_bytes > 0
      <4>1. c + remaining_bytes = length /\ remaining_bytes > 0 /\ intact = 0
        BY <1>3, <3>1 DEF InBody
      <4> QED
        BY <1>5, <3>1, <4>1
    <3>3. Store(remaining_bytes) = remaining_bytes
      BY <1>5, <3>1, <3>2 DEF Store
    <3>4. h.whole
      BY <3>2, <3>3 DEF h
    <3> QED
      BY <1>10, <2>3, <3>4
  <2> QED
    BY <2>1, <2>2, <2>3
<1> QED
  BY <1>2, <1>8, <1>12, <1>14, <1>15, <1>16 DEF Inv, PlaceInv, HandledInv

\* Only a body that was cut brings the client down.
LEMMA StopInv ==
    ASSUME Inv, Stop
    PROVE  Inv'
<1>1. UNCHANGED <<stream, handled, cuts>> /\ UNCHANGED buffer /\ UNCHANGED state
      /\ pc' \in {"crashed", "reset"}
  BY DEF Stop, Abort, ReadFails
<1>2. TypeOK' /\ PieceInv'
  BY <1>1, InsideSame DEF Inv, TypeOK, PieceInv, buffer, state
<1>3. ASSUME Abort PROVE "body" \in cuts /\ end = "client"
  <2>1. CASE pc = "body" /\ c > 0
    <3>1. InBody /\ c # 0
      BY <2>1 DEF Inv, PlaceInv, TypeOK
    <3> QED
      BY <2>1, <3>1 DEF InBody, Inv, TypeOK, Ends
  <2>2. CASE \E k \in DOMAIN handled : ~handled[k].whole
    BY <2>2 DEF Inv, HandledInv, BodiesWhole, TypeOK, Ends
  <2> QED
    BY <1>3, <2>1, <2>2 DEF Abort, Overrun
<1>4. pc' = "crashed" => Abort
  BY DEF Stop, ReadFails
<1>5. PlaceInv'
  BY <1>1, <1>3, <1>4, InsideSame DEF PlaceInv, InStep
<1> QED
  BY <1>1, <1>2, <1>5, InsideSame DEF Inv

\* Every step keeps the invariant.
LEMMA StepInv == Inv /\ (Step \/ UNCHANGED vars) => Inv'
<1> SUFFICES ASSUME Inv, Step \/ UNCHANGED vars PROVE Inv'
  OBVIOUS
<1>1. CASE AnyWrite
  BY <1>1, AnyWriteInv
<1>2. CASE Read
  BY <1>2, ReadInv
<1>3. CASE assemble_tlv
  BY <1>3, NothingLeftInv, SplitHeaderInv, MoreHeaderInv, FinishHeaderInv,
     TakeHeaderInv, MisreadInv, GoOnInv, FillPartialInv, CompleteBodyInv
  DEF assemble_tlv
<1>4. CASE Stop
  BY <1>4, StopInv
<1>5. CASE UNCHANGED vars
  <2>1. UNCHANGED <<stream, handled, cuts>> /\ UNCHANGED buffer /\ UNCHANGED state
        /\ pc' = pc
    BY <1>5 DEF vars
  <2>2. TypeOK' /\ PieceInv'
    BY <2>1, InsideSame DEF Inv, TypeOK, PieceInv, buffer, state
  <2>3. /\ Between => Between'
        /\ InHeader => InHeader'
        /\ Stray => Stray'
    BY <2>1, InsideSame DEF Between, InHeader, Stray, Reset, buffer, state
  <2>4. InBody => InBody'
    BY <2>1, InsideSame DEF InBody, buffer, state
  <2>5. InStep => InStep'
    BY <2>1, InsideSame DEF InStep
  <2>6. PlaceInv'
    BY <2>1, <2>3, <2>4, <2>5 DEF Inv, PlaceInv, state
  <2> QED
    BY <2>1, <2>2, <2>6, InsideSame DEF Inv
<1> QED
  BY <1>1, <1>2, <1>3, <1>4, <1>5 DEF Step

-----------------------------------------------------------------------------
(* The transfer of parts.                                                  *)

PartTypes ==
    /\ parts \in Seq(Nat) /\ i \in Nat \cup {Done}
    /\ i # Done => Len(parts) > 0

LEMMA PartTypesStep == PartTypes /\ [TransferNext]_tvars => PartTypes'
<1> SUFFICES ASSUME PartTypes, [TransferNext]_tvars PROVE PartTypes'
  OBVIOUS
<1>1. CASE NextPart
  <2>1. PICK n \in Sizes : parts' = Append(parts, n)
    BY <1>1 DEF NextPart
  <2>2. n \in Nat /\ i' = 0
    BY <1>1, TransferAssumption DEF TransferAssumption, NextPart
  <2> QED
    BY <2>1, <2>2 DEF PartTypes
<1>2. CASE SendChunk
  <2>1. parts' = parts /\ i' = i + copied /\ i # Done /\ Rest > 0
    BY <1>2 DEF SendChunk
  <2>2. i \in Nat /\ Len(parts) > 0
    BY <2>1 DEF PartTypes
  <2>3. Rest \in Int
    BY <2>2 DEF PartTypes, Rest
  <2>4. copied \in Nat
    BY <2>1, <2>3, TransferAssumption DEF copied, TransferAssumption
  <2> QED
    BY <2>1, <2>2, <2>4 DEF PartTypes
<1>3. CASE SendExecute
  BY <1>3 DEF SendExecute, PartTypes
<1>4. CASE parts' = parts /\ i' = i
  BY <1>4 DEF PartTypes
<1>5. ClientWrites \/ Receive \/ Stops \/ UNCHANGED tvars => parts' = parts /\ i' = i
  BY DEF ClientWrites, Receive, ReadPiece, Assemble, HandleMessage, HandleAnswer, Stops,
     tvars, part
<1> QED
  BY <1>1, <1>2, <1>3, <1>4, <1>5 DEF TransferNext, client_Handler

\* A chunk, the order to compute and what a client writes are messages.
LEMMA TransferStep ==
    PartTypes /\ [TransferNext]_tvars => Step \/ UNCHANGED vars
<1> SUFFICES ASSUME PartTypes, [TransferNext]_tvars PROVE Step \/ UNCHANGED vars
  OBVIOUS
<1>1. CASE NextPart \/ UNCHANGED tvars
  BY <1>1 DEF NextPart, tvars
<1>2. CASE SendChunk
  <2> DEFINE m == [type |-> ChunkType, len |-> ChunkLen, from |-> i]
  <2>1. i # Done /\ Rest > 0 /\ Put(m, FileName + copied)
        /\ UNCHANGED <<handled, cuts, pc, buffer, state>>
    BY <1>2 DEF SendChunk
  <2>2. i \in Nat /\ Rest \in Int
    BY <2>1 DEF PartTypes, Rest
  <2>3. FILE_CHUNK \in Nat /\ FILE_CHUNK > 0 /\ FILE_CHUNK + 10 <= 255
    BY TransferAssumption DEF TransferAssumption, FileName, Byte
  <2>4. ChunkLen = FileName + copied /\ ChunkLen \in 1 .. Byte - 1
    BY <2>1, <2>2, <2>3 DEF ChunkLen, copied, FileName, Byte
  <2>5. m \in Message /\ m.len = FileName + copied
    BY <2>2, <2>4 DEF ChunkType, Message
  <2> QED
    BY <2>1, <2>5 DEF Step, AnyWrite
<1>3. CASE SendExecute
  <2> DEFINE m == [type |-> "EXECUTE_JOB_ID", len |-> ExecBody, from |-> 0]
  <2>1. m \in Message /\ m.len = ExecBody
    BY DEF Message, ExecBody, Byte
  <2> QED
    BY <1>3, <2>1 DEF SendExecute, Step, AnyWrite
<1>4. CASE ClientWrites
  <2>1. PICK n \in Lengths : Put([len |-> n], n)
    BY <1>4 DEF ClientWrites, Write
  <2>2. [len |-> n] \in Message /\ [len |-> n].len = n
    BY AssemblerAssumption DEF AssemblerAssumption, Message
  <2> QED
    BY <1>4, <2>1, <2>2 DEF ClientWrites, Write, Step, AnyWrite
<1>5. CASE Receive
  BY <1>5 DEF Receive, ReadPiece, Assemble, HandleMessage, HandleAnswer, Step,
     assemble_tlv
<1>6. CASE Stops
  BY <1>6 DEF Stops, Step
<1> QED
  BY <1>1, <1>2, <1>3, <1>4, <1>5, <1>6 DEF TransferNext, client_Handler

LEMMA TransferInv == TransferSpec => [](Inv /\ PartTypes)
<1>1. TransferInit => Inv /\ PartTypes
  BY InitInv DEF TransferInit, PartTypes
<1>2. Inv /\ PartTypes /\ [TransferNext]_tvars => (Inv /\ PartTypes)'
  BY StepInv, TransferStep, PartTypesStep
<1> QED
  BY <1>1, <1>2, PTL DEF TransferSpec

\* The variables of the assembler keep their types (init_tlv_state and the
\* assignments of assemble_tlv).
THEOREM TransferTyped == TransferSpec => []TypeOK
<1>1. Inv => TypeOK
  BY DEF Inv
<1> QED
  BY <1>1, TransferInv, PTL

\* Handlers are called in the order and with the lengths of the messages, at
\* both ends and for messages and reads of every size.
THEOREM TransferLengths == TransferSpec => []LengthsRight
<1>1. Inv => LengthsRight
  BY DEF Inv, HandledInv
<1> QED
  BY <1>1, TransferInv, PTL

\* The assembler takes something for a header that is none only after a read
\* has ended in a header or, at the server, in a message, and a client dies of it
\* only after one has ended in a body.
THEOREM TransferInStep == TransferSpec => []InStep
<1>1. Inv => InStep
  BY DEF Inv, PlaceInv, InStep
<1> QED
  BY <1>1, TransferInv, PTL

\* Bodies come whole unless a read of the client has ended in one.
THEOREM TransferWhole == TransferSpec => []BodiesWhole
<1>1. Inv => BodiesWhole
  BY DEF Inv, HandledInv
<1> QED
  BY <1>1, TransferInv, PTL

-----------------------------------------------------------------------------
(* The connection implements the channel.                                  *)

\* The mapping of MessageChannel's variables.
Sent == [k \in DOMAIN msgs |-> [len |-> msgs[k].len]]

Got == [k \in DOMAIN handled |->
          IF handled[k].whole THEN [len |-> handled[k].len] ELSE Damaged]

Torn == end = "client" /\ "body" \in cuts

\* Writing a message sends it.
LEMMA WriteSends ==
    ASSUME Inv, AnyWrite
    PROVE  Channel!Next
<1>1. PICK m \in Message : Put(m, m.len)
  BY DEF AnyWrite
<1>2. msgs' = Append(msgs, m) /\ end' = end /\ handled' = handled /\ cuts' = cuts
  BY <1>1 DEF AnyWrite, Put
<1>3. msgs \in Seq(Message)
  BY DEF Inv, StreamInv
<1> DEFINE a == [len |-> m.len]
<1>4. a \in [len : 1 .. Byte - 1]
  BY MessageLen
<1>5. Sent' = Append(Sent, a)
  <2>1. Sent = [k \in 1 .. Len(msgs) |-> [len |-> msgs[k].len]]
    BY <1>3 DEF Sent
  <2>2. Len(msgs) \in Nat /\ Len(msgs') = Len(msgs) + 1
        /\ DOMAIN msgs' = 1 .. Len(msgs) + 1
        /\ (\A k \in 1 .. Len(msgs) : msgs'[k] = msgs[k])
        /\ msgs'[Len(msgs) + 1] = m
    BY <1>2, <1>3
  <2>3. Sent' = [k \in 1 .. Len(msgs) + 1 |-> [len |-> msgs'[k].len]]
    BY <2>2 DEF Sent
  <2>4. Sent \in Seq([len : 1 .. Byte - 1]) /\ Len(Sent) = Len(msgs)
    <3>1. \A k \in 1 .. Len(msgs) : msgs[k].len \in 1 .. Byte - 1
      BY <1>3, SeqElement, MessageLen
    <3> QED
      BY <2>1, <2>2, <3>1
  <2>5. Append(Sent, a) = [k \in 1 .. Len(msgs) + 1 |->
                             IF k \in 1 .. Len(msgs) THEN Sent[k] ELSE a]
    BY <2>2, <2>4, <1>4
  <2>6. \A k \in 1 .. Len(msgs) + 1 :
           [len |-> msgs'[k].len] = IF k \in 1 .. Len(msgs) THEN Sent[k] ELSE a
    <3> SUFFICES ASSUME NEW k \in 1 .. Len(msgs) + 1
                 PROVE  [len |-> msgs'[k].len] = IF k \in 1 .. Len(msgs) THEN Sent[k] ELSE a
      OBVIOUS
    <3>1. CASE k \in 1 .. Len(msgs)
      BY <2>1, <2>2, <3>1
    <3>2. CASE k = Len(msgs) + 1
      <4>1. k \notin 1 .. Len(msgs)
        BY <2>2, <3>2
      <4> QED
        BY <2>2, <3>2, <4>1
    <3> QED
      BY <2>2, <3>1, <3>2
  <2> QED
    BY <2>3, <2>5, <2>6
<1>6. Got' = Got /\ Torn' = Torn
  BY <1>2 DEF Got, Torn
<1> QED
  BY <1>4, <1>5, <1>6 DEF Channel!Next, Channel!Send, Sent, Got, Torn

\* A read that ends in a body tears the channel; the rest of assemble_tlv shows
\* nothing until a message is complete.
LEMMA ReadTears ==
    ASSUME Inv, Read
    PROVE  Channel!Next \/ UNCHANGED <<Sent, Got, Torn>>
<1>1. msgs' = msgs /\ handled' = handled /\ end' = end
  BY DEF Read, ReadKeeping, ReadFresh, stream
<1>2. cuts \subseteq cuts'
  BY DEF Read, ReadKeeping, ReadFresh, Piece
<1>3. Sent' = Sent /\ Got' = Got
  BY <1>1 DEF Sent, Got
<1>4. Torn => Torn'
  BY <1>1, <1>2 DEF Torn
<1>5. CASE Torn' = Torn
  BY <1>3, <1>5
<1>6. CASE ~Torn /\ Torn'
  <2>1. Torn' = TRUE
    BY <1>6 DEF Torn
  <2> QED
    BY <1>3, <1>6, <2>1 DEF Channel!Next, Channel!Tear, Sent, Got, Torn
<1>7. Torn \in BOOLEAN /\ Torn' \in BOOLEAN
  BY DEF Torn
<1> QED
  BY <1>4, <1>5, <1>6, <1>7

\* A handler is called with the next message, damaged only if the channel is torn.
LEMMA CompleteHandles ==
    ASSUME Inv, CompleteBody
    PROVE  Channel!Next
<1> DEFINE h == [len |-> length, whole |-> Store(remaining_bytes) = length]
           d == IF h.whole THEN [len |-> h.len] ELSE Damaged
<1>1. handled' = Append(handled, h) /\ msgs' = msgs /\ end' = end /\ cuts' = cuts
  BY DEF CompleteBody, stream
<1>2. Inv' /\ handled \in Seq([len : Nat, whole : BOOLEAN])
  BY CompleteBodyInv DEF Inv, TypeOK
<1>3. InBody
  BY DEF Inv, PlaceInv, CompleteBody
<1>4. Next1 \in 1 .. Len(msgs) /\ length = msgs[Next1].len /\ length \in Nat
      /\ DOMAIN msgs = 1 .. Len(msgs)
  BY <1>3, MessageTypes DEF InBody, Inv, StreamInv
<1>5. h \in [len : Nat, whole : BOOLEAN] /\ h.len = length
  BY <1>4
<1> HIDE DEF h
<1>6. /\ Len(handled) \in Nat /\ Len(handled') = Len(handled) + 1
      /\ DOMAIN handled = 1 .. Len(handled) /\ DOMAIN handled' = 1 .. Len(handled) + 1
      /\ \A k \in 1 .. Len(handled) : handled'[k] = handled[k]
      /\ handled'[Len(handled) + 1] = h
  BY <1>1, <1>2, <1>5
<1>7. Got' = Append(Got, d)
  <2>1. Got = [k \in 1 .. Len(handled) |->
                 IF handled[k].whole THEN [len |-> handled[k].len] ELSE Damaged]
    BY <1>6 DEF Got
  <2>2. Got' = [k \in 1 .. Len(handled) + 1 |->
                  IF handled'[k].whole THEN [len |-> handled'[k].len] ELSE Damaged]
    BY <1>6 DEF Got
  <2>3. Got \in Seq([len : Int]) /\ Len(Got) = Len(handled)
    <3>1. \A k \in 1 .. Len(handled) : handled[k] \in [len : Nat, whole : BOOLEAN]
      BY <1>2, SeqElement
    <3> QED
      BY <1>6, <2>1, <3>1 DEF Damaged
  <2>4. Append(Got, d) = [k \in 1 .. Len(handled) + 1 |->
                            IF k \in 1 .. Len(handled) THEN Got[k] ELSE d]
    BY <1>6, <2>3
  <2>5. \A k \in 1 .. Len(handled) + 1 :
           (IF handled'[k].whole THEN [len |-> handled'[k].len] ELSE Damaged)
              = IF k \in 1 .. Len(handled) THEN Got[k] ELSE d
    <3> SUFFICES ASSUME NEW k \in 1 .. Len(handled) + 1
                 PROVE  (IF handled'[k].whole THEN [len |-> handled'[k].len] ELSE Damaged)
                          = IF k \in 1 .. Len(handled) THEN Got[k] ELSE d
      OBVIOUS
    <3>1. CASE k \in 1 .. Len(handled)
      BY <1>6, <2>1, <3>1
    <3>2. CASE k = Len(handled) + 1
      <4>1. k \notin 1 .. Len(handled)
        BY <1>6, <3>2
      <4> QED
        BY <1>6, <3>2, <4>1
    <3> QED
      BY <1>6, <3>1, <3>2
  <2> QED
    BY <2>2, <2>4, <2>5
<1>8. Len(Got) = Len(handled) /\ Len(Sent) = Len(msgs)
      /\ Sent[Len(Got) + 1] = [len |-> length]
  <2>1. Len(Got) = Len(handled)
    BY <1>6 DEF Got
  <2>2. Len(msgs) \in Nat
    BY DEF Inv, StreamInv
  <2>3. Len(Sent) = Len(msgs) /\ DOMAIN Sent = 1 .. Len(msgs)
    BY <1>4, <2>2 DEF Sent
  <2> QED
    BY <1>4, <2>1, <2>3 DEF Sent, Next1
<1>9. Len(Got) < Len(Sent)
  <2>1. Len(msgs) \in Nat
    BY DEF Inv, StreamInv
  <2> QED
    BY <1>4, <1>6, <1>8, <2>1 DEF Next1
<1>10. d = [len |-> length] \/ (Torn /\ d = Damaged)
  <2>1. CASE h.whole
    BY <1>5, <2>1
  <2>2. CASE ~h.whole
    <3>1. ~handled'[Len(handled) + 1].whole
      BY <1>6, <2>2
    <3>2. "body" \in cuts /\ end # "server"
      BY <1>1, <1>2, <1>6, <3>1 DEF Inv, HandledInv, BodiesWhole
    <3> QED
      BY <2>2, <3>2 DEF Torn, Inv, StreamInv, Ends
  <2> QED
    BY <2>1, <2>2
<1>11. Sent' = Sent /\ Torn' = Torn
  BY <1>1 DEF Sent, Torn
<1> HIDE DEF d
<1> QED
  BY <1>7, <1>8, <1>9, <1>10, <1>11 DEF Channel!Next, Channel!Handle, Sent, Got, Torn

\* The connection delivers whole messages, each once and in order, until a body
\* is cut.
THEOREM TransferImplementsChannel == TransferSpec => ImplementsChannel
<1>1. TransferInit => Channel!Init
  BY DEF TransferInit, Init, Channel!Init, Ends
<1>2. Inv /\ PartTypes /\ [TransferNext]_tvars => [Channel!Next]_(Channel!vars)
  <2> SUFFICES ASSUME Inv, PartTypes, [TransferNext]_tvars
               PROVE  Channel!Next \/ UNCHANGED <<Sent, Got, Torn>>
    BY DEF Channel!vars, Sent, Got, Torn
  <2>1. Step \/ UNCHANGED vars
    BY TransferStep
  <2>2. CASE AnyWrite
    BY <2>2, WriteSends
  <2>3. CASE Read
    BY <2>3, ReadTears
  <2>4. CASE CompleteBody
    BY <2>4, CompleteHandles
  <2>5. CASE UNCHANGED <<msgs, handled, end, cuts>>
    BY <2>5 DEF Sent, Got, Torn
  <2>6. assemble_tlv \/ Stop => CompleteBody \/ UNCHANGED <<stream, handled, cuts>>
    BY DEF assemble_tlv, NothingLeft, SplitHeader, MoreHeader, FinishHeader,
       TakeHeader, Misread, GoOn, FillPartial, Stop, Abort, ReadFails
  <2>7. UNCHANGED <<stream, handled, cuts>> \/ UNCHANGED vars
          => UNCHANGED <<msgs, handled, end, cuts>>
    BY DEF stream, vars
  <2> QED
    BY <2>1, <2>2, <2>3, <2>4, <2>5, <2>6, <2>7 DEF Step
<1> QED
  BY <1>1, <1>2, TransferInv, PTL DEF TransferSpec, ImplementsChannel, Channel!Spec

=============================================================================
