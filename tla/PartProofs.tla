---------------------------- MODULE PartProofs ----------------------------
(***************************************************************************)
(* Proofs about the transfer of parts, on top of those about the framing.  *)
(* The argument is what is on its way: from what b_txt has to where        *)
(* client_Handler is, the messages that are not handled are the chunks of  *)
(* the part one after the other, and at their end the order to compute.    *)
(***************************************************************************)
EXTENDS TlvProofs

\* The part that is sent, and the bytes of it in the message that begins at f.
Size == parts[Len(parts)]
Chunk(f) == IF Size - f > FILE_CHUNK THEN FILE_CHUNK ELSE Size - f

\* Where in the part message k goes on; for the one that is not yet written, i.
From(k) ==
    IF k \in DOMAIN msgs
    THEN IF msgs[k].type = "EXECUTE_JOB_ID" THEN Size ELSE msgs[k].from
    ELSE i

\* The bytes from f on leave the same last chunk.
SameRest(f) == f = Size \/ (Size - f) % FILE_CHUNK = Size % FILE_CHUNK

IsChunk(k) ==
    LET f == msgs[k].from
    IN  /\ f \in Nat /\ f < Size /\ SameRest(f)
        /\ msgs[k].type = IF f = 0 THEN "FILE_WRITE" ELSE "FILE_APPEND"
        /\ msgs[k].len = FileName + Chunk(f)
        /\ From(k + 1) = f + Chunk(f)
        /\ k = Len(msgs) => i # Done

IsOrder(k) ==
    /\ k = Len(msgs) /\ i = Done
    /\ msgs[k].type = "EXECUTE_JOB_ID" /\ msgs[k].len = ExecBody

\* The client has computed from all that it was sent.
Idle ==
    /\ Len(executed) = Len(parts) /\ i = Done
    /\ b_txt = NoFile /\ (end = "client" => Len(handled) = Len(msgs))

\* A part is on its way.
Busy ==
    /\ end = "client" /\ Len(parts) = Len(executed) + 1
    /\ i \in {Done} \cup 0 .. Size
    /\ i # Done => SameRest(i)
    /\ \A k \in Next1 .. Len(msgs) : IsChunk(k) \/ IsOrder(k)
    /\ From(Next1) = b_txt.n
    /\ "body" \notin cuts => b_txt.exact

\* PartTypes says the types of parts and i.
FileTypes ==
    /\ parts \in Seq(Sizes) /\ executed \in Seq([n : Nat, exact : BOOLEAN])
    /\ b_txt \in [n : Nat, exact : BOOLEAN] /\ full \in BOOLEAN
    /\ end = "server" => parts = <<>>

PartInv == FileTypes /\ (Idle \/ Busy) /\ PartExact

-----------------------------------------------------------------------------
(* What is on its way.                                                     *)

\* A chunk less leaves the same remainder.
LEMMA LessChunk ==
    ASSUME NEW n \in Nat, NEW k \in Nat \ {0}, n >= k
    PROVE  (n - k) % k = n % k
<1> DEFINE q == n \div k
           x == n % k
<1>1. n = k * q + x /\ q \in Int /\ x \in 0 .. k - 1
  OBVIOUS
<1> HIDE DEF q, x
<1>2. n - k = k * (q - 1) + x
  BY <1>1
<1>3. (n - k) % k = x
  BY <1>1, <1>2
<1> QED
  BY <1>3 DEF x

LEMMA PartTyped ==
    ASSUME FileTypes, Len(parts) > 0
    PROVE  Size \in Nat /\ Size > 0 /\ Size \in Sizes
<1>1. parts \in Seq(Sizes) /\ Len(parts) \in 1 .. Len(parts)
  BY DEF FileTypes
<1>2. Size \in Sizes
  BY <1>1, SeqElement DEF Size
<1> QED
  BY <1>2, TransferAssumption DEF TransferAssumption

LEMMA ChunkTyped ==
    ASSUME NEW s \in Nat, Size = s, NEW f \in Nat, f < s
    PROVE  /\ FILE_CHUNK \in Nat /\ FILE_CHUNK > 0
           /\ Chunk(f) \in Nat /\ Chunk(f) > 0 /\ Chunk(f) <= FILE_CHUNK
           /\ f + Chunk(f) \in 0 .. s
BY TransferAssumption DEF TransferAssumption, FileName, Byte, Chunk

LEMMA RestKept ==
    ASSUME NEW s \in Nat, Size = s, NEW f \in Nat, f < s, SameRest(f)
    PROVE  SameRest(f + Chunk(f))
<1>1. FILE_CHUNK \in Nat \ {0} /\ f # s
  BY TransferAssumption DEF TransferAssumption, FileName, Byte
<1>2. (s - f) % FILE_CHUNK = s % FILE_CHUNK
  BY <1>1 DEF SameRest
<1>3. CASE s - f > FILE_CHUNK
  <2>1. Chunk(f) = FILE_CHUNK /\ s - f \in Nat /\ s - f >= FILE_CHUNK
    BY <1>1, <1>3 DEF Chunk
  <2>2. ((s - f) - FILE_CHUNK) % FILE_CHUNK = (s - f) % FILE_CHUNK
    BY <1>1, <2>1, LessChunk
  <2>3. (s - f) - FILE_CHUNK = s - (f + FILE_CHUNK)
    BY <1>1
  <2> QED
    BY <1>2, <2>1, <2>2, <2>3 DEF SameRest
<1>4. CASE ~(s - f > FILE_CHUNK)
  <2>1. f + Chunk(f) = s
    BY <1>1, <1>4 DEF Chunk
  <2> QED
    BY <2>1 DEF SameRest
<1> QED
  BY <1>3, <1>4

\* What does not send, handle or compute keeps the invariant.
LEMMA PartSame ==
    ASSUME PartInv,
           msgs' = msgs /\ handled' = handled /\ end' = end /\ cuts \subseteq cuts',
           parts' = parts /\ i' = i /\ b_txt' = b_txt /\ executed' = executed,
           full' \in BOOLEAN
    PROVE  PartInv'
<1>1. FileTypes'
  BY DEF PartInv, FileTypes
<1>2. Idle => Idle'
  BY DEF Idle
<1>3. Size' = Size /\ Next1' = Next1 /\ (\A f : Chunk(f)' = Chunk(f) /\ SameRest(f)' = SameRest(f))
  BY DEF Size, Chunk, SameRest, Next1
<1>4. \A k : From(k)' = From(k)
  BY <1>3 DEF From
<1>5. \A k : IsChunk(k)' = IsChunk(k) /\ IsOrder(k)' = IsOrder(k)
  BY <1>3, <1>4 DEF IsChunk, IsOrder
<1>6. Busy => Busy'
  BY <1>3, <1>4, <1>5 DEF Busy
<1>7. PartExact'
  BY DEF PartInv, PartExact
<1> QED
  BY <1>1, <1>2, <1>6, <1>7 DEF PartInv

-----------------------------------------------------------------------------
(* One step.                                                               *)

\* The client is sent a part.
LEMMA NextPartKeeps ==
    ASSUME Inv, PartInv, NextPart
    PROVE  PartInv'
<1>1. PICK n \in Sizes : parts' = Append(parts, n)
  BY DEF NextPart
<1>2. /\ i' = 0 /\ UNCHANGED <<vars, b_txt, executed, full>>
      /\ end = "client" /\ Len(executed) = Len(parts)
  BY DEF NextPart
<1>3. /\ msgs' = msgs /\ handled' = handled /\ cuts' = cuts /\ end' = end
      /\ b_txt' = b_txt /\ executed' = executed /\ full' = full
  BY <1>2 DEF vars, stream
<1>4. FileTypes /\ PartExact
  BY DEF PartInv
<1>5. Idle
  BY <1>2, <1>4 DEF PartInv, Busy, FileTypes
<1>6. n \in Nat /\ n > 0
  BY TransferAssumption DEF TransferAssumption
<1>7. parts' \in Seq(Sizes) /\ Len(parts') = Len(parts) + 1 /\ Size' = n
  BY <1>1, <1>4 DEF FileTypes, Size
<1>8. FileTypes'
  BY <1>2, <1>3, <1>4, <1>7 DEF FileTypes
<1>9. Next1' = Len(msgs) + 1 /\ Len(msgs) \in Nat /\ DOMAIN msgs = 1 .. Len(msgs)
  BY <1>2, <1>3, <1>5 DEF Idle, Next1, Inv, StreamInv
<1>10. Busy'
  <2>1. From(Next1)' = 0 /\ SameRest(i)'
    BY <1>2, <1>3, <1>6, <1>7, <1>9 DEF From, SameRest
  <2>2. b_txt'.n = 0 /\ b_txt'.exact
    BY <1>3, <1>5 DEF Idle, NoFile
  <2>3. \A k \in Next1' .. Len(msgs') : FALSE
    BY <1>3, <1>9
  <2> QED
    BY <1>2, <1>3, <1>4, <1>6, <1>7, <2>1, <2>2, <2>3 DEF Busy, FileTypes
<1>11. PartExact'
  <2> SUFFICES ASSUME "body" \notin cuts, NEW k \in DOMAIN executed
               PROVE  executed[k] = [n |-> parts'[k], exact |-> TRUE]
    BY <1>3 DEF PartExact
  <2>1. executed[k] = [n |-> parts[k], exact |-> TRUE]
    BY <1>4 DEF PartExact
  <2>2. k \in 1 .. Len(parts)
    BY <1>2, <1>4 DEF FileTypes
  <2>3. parts'[k] = parts[k]
    BY <1>1, <1>4, <2>2 DEF FileTypes
  <2> QED
    BY <2>1, <2>3
<1> QED
  BY <1>8, <1>10, <1>11 DEF PartInv

\* A message is written, whatever it is: those that were there stay as they are.
LEMMA PutKeeps ==
    ASSUME Inv, NEW m, NEW n, Put(m, n), handled' = handled, msgs' \in Seq(Message)
    PROVE  /\ Len(msgs) \in Nat /\ Len(msgs') = Len(msgs) + 1
           /\ Next1' = Next1 /\ Next1 \in 1 .. Len(msgs) + 1 /\ Next1 \in Nat
           /\ DOMAIN msgs = 1 .. Len(msgs) /\ DOMAIN msgs' = 1 .. Len(msgs) + 1
           /\ \A k \in 1 .. Len(msgs) : msgs'[k] = msgs[k]
           /\ msgs'[Len(msgs) + 1] = m
<1>1. msgs \in Seq(Message) /\ msgs' = Append(msgs, m)
  BY DEF Inv, StreamInv, Put
<1>2. Next1' = Next1 /\ Next1 \in 1 .. Len(msgs) + 1
  BY NextTypes DEF Inv, Next1
<1> QED
  BY <1>1, <1>2

\* A chunk goes on where the one before it has ended.
LEMMA SendChunkKeeps ==
    ASSUME Inv, PartTypes, PartInv, SendChunk, Inv'
    PROVE  PartInv'
<1> DEFINE m == [type |-> ChunkType, len |-> ChunkLen, from |-> i]
<1>1. /\ i # Done /\ Rest > 0 /\ Put(m, FileName + copied) /\ i' = i + copied
      /\ UNCHANGED <<handled, cuts, pc, buffer, state, parts, b_txt, executed, full>>
  BY DEF SendChunk
<1>2. FileTypes /\ Busy /\ PartExact
  BY <1>1 DEF PartInv, Idle
<1>3. PICK s, f : s = Size /\ f = i
  OBVIOUS
<1>4. s \in Nat /\ s > 0 /\ Rest = s - i
  BY <1>1, <1>2, <1>3, PartTyped DEF PartTypes, Rest, Size
<1>5. i \in Nat /\ i < s /\ SameRest(i)
  BY <1>1, <1>2, <1>3, <1>4 DEF Busy, Done
<1>6. copied = Chunk(i) /\ ChunkLen = FileName + Chunk(i)
  BY <1>3, <1>4, <1>5, TransferAssumption
  DEF TransferAssumption, FileName, Byte, copied, ChunkLen, Chunk
<1>7. /\ i' \in 0 .. s /\ SameRest(i + Chunk(i)) /\ i' = i + Chunk(i)
      /\ FILE_CHUNK \in Nat /\ Chunk(i) \in Nat
  BY <1>1, <1>3, <1>4, <1>5, <1>6, ChunkTyped, RestKept
<1>8. /\ parts' = parts /\ cuts' = cuts /\ b_txt' = b_txt /\ executed' = executed
      /\ full' = full /\ handled' = handled /\ end' = end
  BY <1>1 DEF Put
<1>9. FileTypes' /\ PartExact'
  BY <1>2, <1>8 DEF FileTypes, PartExact
<1>10. Size' = Size /\ (\A o : Chunk(o)' = Chunk(o) /\ SameRest(o)' = SameRest(o))
  BY <1>8 DEF Size, Chunk, SameRest
<1>11. /\ Len(msgs) \in Nat /\ Len(msgs') = Len(msgs) + 1
       /\ Next1' = Next1 /\ Next1 \in 1 .. Len(msgs) + 1 /\ Next1 \in Nat
       /\ DOMAIN msgs = 1 .. Len(msgs) /\ DOMAIN msgs' = 1 .. Len(msgs) + 1
       /\ \A k \in 1 .. Len(msgs) : msgs'[k] = msgs[k]
       /\ msgs'[Len(msgs) + 1] = m
  <2>1. msgs' \in Seq(Message)
    BY DEF Inv, StreamInv
  <2> QED
    BY <1>1, <1>8, <2>1, PutKeeps
<1>12. m.type = (IF i = 0 THEN "FILE_WRITE" ELSE "FILE_APPEND") /\ m.from = i
       /\ m.len = FileName + Chunk(i)
  BY <1>6 DEF ChunkType
<1> HIDE DEF m
<1>13. \A k \in 1 .. Len(msgs) + 1 : From(k)' = From(k)
  <2> SUFFICES ASSUME NEW k \in 1 .. Len(msgs) + 1 PROVE From(k)' = From(k)
    OBVIOUS
  <2>1. CASE k \in 1 .. Len(msgs)
    BY <1>10, <1>11, <2>1 DEF From
  <2>2. CASE k = Len(msgs) + 1
    <3>1. k \notin DOMAIN msgs /\ k \in DOMAIN msgs'
      BY <1>11, <2>2
    <3>2. From(k) = i
      BY <3>1 DEF From
    <3>3. From(k)' = i
      BY <1>11, <1>12, <2>2, <3>1 DEF From
    <3> QED
      BY <3>2, <3>3
  <2> QED
    BY <1>11, <2>1, <2>2
<1>14. \A k : k = Len(msgs) + 2 => From(k)' = i'
  BY <1>11 DEF From
<1>15. i' # Done
  BY <1>7 DEF Done
<1>16. \A k \in Next1 .. Len(msgs) + 1 : IsChunk(k)'
  <2> SUFFICES ASSUME NEW k \in Next1 .. Len(msgs) + 1 PROVE IsChunk(k)'
    OBVIOUS
  <2>1. CASE k = Len(msgs) + 1
    <3>1. k + 1 = Len(msgs) + 2
      BY <1>11, <2>1
    <3>2. From(k + 1)' = i'
      BY <1>14, <3>1
    <3>3. msgs'[k] = m
      BY <1>11, <2>1
    <3>4. Chunk(f)' = Chunk(f) /\ SameRest(f)' /\ f \in Nat /\ f < Size'
      BY <1>3, <1>5, <1>10
    <3>5. /\ msgs'[k].from = f /\ msgs'[k].len = FileName + Chunk(f)
          /\ msgs'[k].type = IF f = 0 THEN "FILE_WRITE" ELSE "FILE_APPEND"
      BY <1>3, <1>12, <3>3
    <3>6. From(k + 1)' = f + Chunk(f)
      BY <1>3, <1>7, <3>2
    <3> QED
      BY <1>15, <3>4, <3>5, <3>6 DEF IsChunk
  <2>2. CASE k \in Next1 .. Len(msgs)
    <3>1. IsChunk(k)
      BY <1>1, <1>2, <2>2 DEF Busy, IsOrder
    <3>2. k \in 1 .. Len(msgs) /\ k + 1 \in 1 .. Len(msgs) + 1
      BY <1>11, <2>2
    <3>3. msgs'[k] = msgs[k] /\ From(k + 1)' = From(k + 1)
      BY <1>11, <1>13, <3>2
    <3> QED
      BY <1>10, <1>15, <3>1, <3>3 DEF IsChunk
  <2> QED
    BY <1>11, <2>1, <2>2
<1>17. Busy'
  <2>1. From(Next1)' = From(Next1)
    <3>1. PICK k : k = Next1
      OBVIOUS
    <3>2. From(k)' = From(k)
      BY <1>11, <1>13, <3>1
    <3> QED
      BY <1>11, <3>1, <3>2 DEF From
  <2>2. SameRest(i)'
    BY <1>7, <1>10 DEF SameRest
  <2>3. i' \in 0 .. Size'
    BY <1>3, <1>7, <1>10
  <2> QED
    BY <1>2, <1>8, <1>11, <1>16, <2>1, <2>2, <2>3 DEF Busy
<1> QED
  BY <1>9, <1>17 DEF PartInv

\* The order to compute follows the last chunk.
LEMMA SendExecuteKeeps ==
    ASSUME Inv, PartTypes, PartInv, SendExecute, Inv'
    PROVE  PartInv'
<1> DEFINE m == [type |-> "EXECUTE_JOB_ID", len |-> ExecBody, from |-> 0]
<1>1. /\ i # Done /\ Rest <= 0 /\ Put(m, ExecBody) /\ i' = Done
      /\ UNCHANGED <<handled, cuts, pc, buffer, state, parts, b_txt, executed, full>>
  BY DEF SendExecute
<1>2. FileTypes /\ Busy /\ PartExact
  BY <1>1 DEF PartInv, Idle
<1>3. PICK s : s = Size
  OBVIOUS
<1>4. s \in Nat /\ s > 0 /\ Rest = s - i
  BY <1>1, <1>2, <1>3, PartTyped DEF PartTypes, Rest, Size
<1>5. i = s
  BY <1>1, <1>2, <1>3, <1>4 DEF Busy, Done
<1>6. /\ parts' = parts /\ cuts' = cuts /\ b_txt' = b_txt /\ executed' = executed
      /\ full' = full /\ handled' = handled /\ end' = end
  BY <1>1 DEF Put
<1>7. FileTypes' /\ PartExact'
  BY <1>2, <1>6 DEF FileTypes, PartExact
<1>8. Size' = Size /\ (\A f : Chunk(f)' = Chunk(f) /\ SameRest(f)' = SameRest(f))
  BY <1>6 DEF Size, Chunk, SameRest
<1>9. /\ Len(msgs) \in Nat /\ Len(msgs') = Len(msgs) + 1
      /\ Next1' = Next1 /\ Next1 \in 1 .. Len(msgs) + 1 /\ Next1 \in Nat
      /\ DOMAIN msgs = 1 .. Len(msgs) /\ DOMAIN msgs' = 1 .. Len(msgs) + 1
      /\ \A k \in 1 .. Len(msgs) : msgs'[k] = msgs[k]
      /\ msgs'[Len(msgs) + 1] = m
  <2>1. msgs' \in Seq(Message)
    BY DEF Inv, StreamInv
  <2> QED
    BY <1>1, <1>6, <2>1, PutKeeps
<1>10. \A k \in 1 .. Len(msgs) + 1 : From(k)' = From(k)
  <2> SUFFICES ASSUME NEW k \in 1 .. Len(msgs) + 1 PROVE From(k)' = From(k)
    OBVIOUS
  <2>1. CASE k \in 1 .. Len(msgs)
    BY <1>8, <1>9, <2>1 DEF From
  <2>2. CASE k = Len(msgs) + 1
    <3>1. k \notin DOMAIN msgs /\ k \in DOMAIN msgs'
      BY <1>9, <2>2
    <3>2. From(k) = s
      BY <1>5, <3>1 DEF From
    <3>3. From(k)' = s
      BY <1>3, <1>8, <1>9, <2>2, <3>1 DEF From
    <3> QED
      BY <3>2, <3>3
  <2> QED
    BY <1>9, <2>1, <2>2
<1>11. \A k \in Next1 .. Len(msgs) + 1 : IsChunk(k)' \/ IsOrder(k)'
  <2> SUFFICES ASSUME NEW k \in Next1 .. Len(msgs) + 1 PROVE IsChunk(k)' \/ IsOrder(k)'
    OBVIOUS
  <2>1. CASE k = Len(msgs) + 1
    <3>1. msgs'[k] = m /\ k = Len(msgs')
      BY <1>9, <2>1
    <3> QED
      BY <1>1, <3>1 DEF IsOrder
  <2>2. CASE k \in Next1 .. Len(msgs)
    <3>1. IsChunk(k)
      BY <1>1, <1>2, <2>2 DEF Busy, IsOrder
    <3>2. k \in 1 .. Len(msgs) /\ k + 1 \in 1 .. Len(msgs) + 1 /\ k # Len(msgs')
      BY <1>9, <2>2
    <3>3. msgs'[k] = msgs[k] /\ From(k + 1)' = From(k + 1)
      BY <1>9, <1>10, <3>2
    <3> QED
      BY <1>8, <3>1, <3>2, <3>3 DEF IsChunk
  <2> QED
    BY <1>9, <2>1, <2>2
<1>12. Busy'
  <2>1. From(Next1)' = From(Next1)
    <3>1. PICK k : k = Next1
      OBVIOUS
    <3>2. From(k)' = From(k)
      BY <1>9, <1>10, <3>1
    <3> QED
      BY <1>9, <3>1, <3>2 DEF From
  <2> QED
    BY <1>1, <1>2, <1>6, <1>9, <1>11, <2>1 DEF Busy
<1> QED
  BY <1>7, <1>12 DEF PartInv

\* A chunk is handled: b_txt goes on to where the next message does.
LEMMA ChunkHandled ==
    ASSUME Inv, PartInv, Inv', CompleteBody, Busy, IsChunk(Next1), Next1 <= Len(msgs),
           executed' = executed, parts' = parts, i' = i, full' = full,
           \/ /\ msgs[Next1].from = 0
              /\ b_txt' = [n |-> msgs[Next1].len - FileName,
                           exact |-> handled'[Next1].whole /\ msgs[Next1].from = 0]
           \/ b_txt' = [n |-> b_txt.n + (msgs[Next1].len - FileName),
                        exact |-> b_txt.exact /\ handled'[Next1].whole
                                    /\ msgs[Next1].from = b_txt.n]
    PROVE  PartInv'
<1> DEFINE m == msgs[Next1]
           w == handled'[Next1].whole
<1>1. FileTypes /\ PartExact /\ end = "client"
  BY DEF PartInv, Busy
<1>2. /\ msgs' = msgs /\ cuts' = cuts /\ end' = end /\ Next1' = Next1 + 1
      /\ Next1 \in DOMAIN handled' /\ Next1 \in 1 .. Len(msgs) /\ Len(msgs) \in Nat
      /\ DOMAIN msgs = 1 .. Len(msgs) /\ w \in BOOLEAN
  <2>1. Next1 \in 1 .. Len(msgs) + 1 /\ DOMAIN msgs = 1 .. Len(msgs) /\ Len(msgs) \in Nat
        /\ Len(handled) \in Nat
    BY NextTypes DEF Inv
  <2>2. handled' = Append(handled, [len |-> length, whole |-> Store(remaining_bytes) = length])
    BY DEF CompleteBody
  <2>3. handled \in Seq([len : Nat, whole : BOOLEAN]) /\ handled' \in Seq([len : Nat, whole : BOOLEAN])
    BY DEF Inv, TypeOK
  <2>4. Len(handled') = Len(handled) + 1 /\ Next1 \in 1 .. Len(handled')
    BY <2>1, <2>2, <2>3 DEF Next1
  <2>5. handled'[Next1] \in [len : Nat, whole : BOOLEAN]
    BY <2>3, <2>4, SeqElement
  <2>6. w \in BOOLEAN
    BY <2>5
  <2>7. msgs' = msgs /\ cuts' = cuts /\ end' = end
    BY DEF CompleteBody, stream
  <2>8. Next1' = Next1 + 1 /\ Next1 \in DOMAIN handled'
    BY <2>1, <2>3, <2>4 DEF Next1
  <2>9. Next1 \in 1 .. Len(msgs)
    BY <2>1
  <2> HIDE DEF w
  <2> QED
    BY <2>1, <2>6, <2>7, <2>8, <2>9
<1>3. PICK s, f : s = Size /\ f = m.from
  OBVIOUS
<1>4. s \in Nat /\ f \in Nat /\ f < s /\ m.len = FileName + Chunk(f)
      /\ From(Next1 + 1) = f + Chunk(f) /\ From(Next1) = f
  <2>1. Len(parts) > 0
    BY <1>1 DEF Busy, FileTypes
  <2>2. m.type # "EXECUTE_JOB_ID"
    BY DEF IsChunk
  <2>3. s \in Nat
    BY <1>1, <1>3, <2>1, PartTyped
  <2>4. From(Next1) = f
    BY <1>2, <1>3, <2>2 DEF From
  <2>5. m.from \in Nat /\ m.from < Size /\ m.len = FileName + Chunk(m.from)
        /\ From(Next1 + 1) = m.from + Chunk(m.from)
    BY DEF IsChunk
  <2>6. f \in Nat /\ f < s /\ m.len = FileName + Chunk(f)
        /\ From(Next1 + 1) = f + Chunk(f)
    BY <1>3, <2>5
  <2> QED
    BY <2>3, <2>4, <2>6
<1>5. b_txt \in [n : Nat, exact : BOOLEAN] /\ b_txt.n = f /\ b_txt.n \in Nat
  BY <1>1, <1>4 DEF FileTypes, Busy
<1>6. Chunk(f) \in Nat
  BY <1>3, <1>4, ChunkTyped
<1>7. "body" \notin cuts => w /\ b_txt.exact
  BY <1>2 DEF Busy, Inv, HandledInv, BodiesWhole
<1>8. m.len - FileName = Chunk(f)
  BY <1>4, <1>6 DEF FileName
<1> HIDE DEF m, w
<1>9. /\ b_txt' \in [n : Nat, exact : BOOLEAN] /\ b_txt'.n = f + Chunk(f)
      /\ "body" \notin cuts => b_txt'.exact
  <2>1. CASE f = 0 /\ b_txt' = [n |-> Chunk(f), exact |-> w /\ f = 0]
    BY <1>2, <1>4, <1>6, <1>7, <2>1
  <2>2. CASE b_txt' = [n |-> f + Chunk(f), exact |-> b_txt.exact /\ w /\ f = f]
    BY <1>2, <1>4, <1>5, <1>6, <1>7, <2>2
  <2> QED
    BY <1>3, <1>5, <1>8, <2>1, <2>2 DEF m, w
<1>10. FileTypes' /\ PartExact'
  BY <1>1, <1>2, <1>9 DEF FileTypes, PartExact
<1>11. Size' = Size /\ (\A g : Chunk(g)' = Chunk(g) /\ SameRest(g)' = SameRest(g))
  BY DEF Size, Chunk, SameRest
<1>12. \A k : From(k)' = From(k)
  BY <1>2, <1>11 DEF From
<1>13. \A k : IsChunk(k)' = IsChunk(k) /\ IsOrder(k)' = IsOrder(k)
  BY <1>2, <1>11, <1>12 DEF IsChunk, IsOrder
<1>14. From(Next1)' = f + Chunk(f)
  <2>1. PICK k : k = Next1 + 1
    OBVIOUS
  <2>2. From(k)' = f + Chunk(f)
    BY <1>4, <1>12, <2>1
  <2> QED
    BY <1>2, <2>1, <2>2 DEF From
<1>15. \A k \in Next1' .. Len(msgs') : IsChunk(k)' \/ IsOrder(k)'
  <2>1. \A k \in Next1' .. Len(msgs') : k \in Next1 .. Len(msgs)
    BY <1>2
  <2> QED
    BY <1>13, <2>1 DEF Busy
<1>16. Busy'
  BY <1>1, <1>2, <1>9, <1>11, <1>14, <1>15 DEF Busy
<1> QED
  BY <1>10, <1>16 DEF PartInv

\* The order is handled: b_txt is the part.
LEMMA OrderHandled ==
    ASSUME Inv, PartInv, Inv', CompleteBody, Busy, IsOrder(Next1),
           Handle_execute_job, parts' = parts, i' = i, full' = full
    PROVE  PartInv'
<1>1. FileTypes /\ PartExact /\ end = "client" /\ Len(parts) = Len(executed) + 1
  BY DEF PartInv, Busy
<1>2. msgs' = msgs /\ cuts' = cuts /\ end' = end
  BY DEF CompleteBody, stream
<1>3. executed' = Append(executed, b_txt) /\ b_txt' = NoFile
  BY DEF Handle_execute_job
<1>4. executed \in Seq([n : Nat, exact : BOOLEAN]) /\ b_txt \in [n : Nat, exact : BOOLEAN]
      /\ parts \in Seq(Sizes)
  BY <1>1 DEF FileTypes
<1>5. /\ executed' \in Seq([n : Nat, exact : BOOLEAN])
      /\ Len(executed') = Len(executed) + 1
      /\ DOMAIN executed' = 1 .. Len(executed) + 1
      /\ DOMAIN executed = 1 .. Len(executed) /\ Len(executed) \in Nat
      /\ (\A k \in 1 .. Len(executed) : executed'[k] = executed[k])
      /\ executed'[Len(executed) + 1] = b_txt
  BY <1>3, <1>4
<1>6. FileTypes'
  BY <1>1, <1>2, <1>3, <1>5 DEF FileTypes, NoFile
<1>7. Len(handled') = Len(msgs')
  <2>1. Next1 = Len(msgs) /\ Len(handled) \in Nat
    BY NextTypes DEF IsOrder, Inv
  <2>2. Len(handled') = Len(handled) + 1
    BY DEF CompleteBody, Inv, TypeOK
  <2> QED
    BY <1>2, <2>1, <2>2 DEF Next1
<1>8. Idle'
  BY <1>1, <1>3, <1>5, <1>7 DEF Idle, IsOrder
<1>9. b_txt.n = Size /\ Size = parts[Len(executed) + 1]
  <2>1. Next1 \in DOMAIN msgs
    <3>1. Next1 = Len(msgs) /\ Next1 >= 1 /\ DOMAIN msgs = 1 .. Len(msgs) /\ Len(msgs) \in Nat
      BY NextTypes DEF IsOrder, Inv
    <3> QED
      BY <3>1
  <2>2. From(Next1) = Size
    BY <2>1 DEF From, IsOrder
  <2> QED
    BY <1>1, <2>2 DEF Busy, Size
<1>10. PartExact'
  <2> SUFFICES ASSUME "body" \notin cuts, NEW k \in DOMAIN executed'
               PROVE  executed'[k] = [n |-> parts[k], exact |-> TRUE]
    BY <1>2 DEF PartExact
  <2>1. CASE k \in 1 .. Len(executed)
    BY <1>1, <1>5, <2>1 DEF PartExact
  <2>2. CASE k = Len(executed) + 1
    <3>1. b_txt.exact = TRUE /\ b_txt.n = parts[k]
      BY <1>4, <1>9, <2>2 DEF Busy
    <3>2. b_txt = [n |-> parts[k], exact |-> TRUE]
      BY <1>4, <3>1
    <3> QED
      BY <1>5, <2>2, <3>2
  <2> QED
    BY <1>5, <2>1, <2>2
<1> QED
  BY <1>6, <1>8, <1>10 DEF PartInv

LEMMA HandleMessageKeeps ==
    ASSUME Inv, PartInv, HandleMessage, Inv'
    PROVE  PartInv'
<1>1. CompleteBody /\ end = "client" /\ parts' = parts /\ i' = i /\ full' = full
  BY DEF HandleMessage
<1>2. Next1 \in 1 .. Len(msgs) /\ Len(msgs) \in Nat /\ Next1 \in Nat
  BY <1>1, NextTypes DEF CompleteBody, Inv, PlaceInv, InBody
<1>3. Busy
  <2>1. Len(handled) # Len(msgs)
    BY <1>2, NextTypes DEF Next1, Inv
  <2> QED
    BY <1>1, <2>1 DEF PartInv, Idle
<1>4. IsChunk(Next1) \/ IsOrder(Next1)
  BY <1>2, <1>3 DEF Busy
<1>5. CASE IsOrder(Next1)
  <2>1. msgs[Next1].type = "EXECUTE_JOB_ID"
    BY <1>5 DEF IsOrder
  <2>2. Handle_execute_job
    BY <2>1 DEF HandleMessage
  <2> QED
    BY <1>1, <1>3, <1>5, <2>2, OrderHandled
<1>6. CASE IsChunk(Next1)
  <2>1. msgs[Next1].type = IF msgs[Next1].from = 0 THEN "FILE_WRITE" ELSE "FILE_APPEND"
    BY <1>6 DEF IsChunk
  <2>2. executed' = executed
    BY <2>1 DEF HandleMessage, Handle_file_write, Handle_file_append
  <2>3. \/ /\ msgs[Next1].from = 0
           /\ b_txt' = [n |-> msgs[Next1].len - FileName,
                        exact |-> handled'[Next1].whole /\ msgs[Next1].from = 0]
        \/ b_txt' = [n |-> b_txt.n + (msgs[Next1].len - FileName),
                     exact |-> b_txt.exact /\ handled'[Next1].whole
                                 /\ msgs[Next1].from = b_txt.n]
    BY <2>1 DEF HandleMessage, Handle_file_write, Handle_file_append
  <2> QED
    BY <1>1, <1>2, <1>3, <1>6, <2>2, <2>3, ChunkHandled
<1> QED
  BY <1>4, <1>5, <1>6

LEMMA ServerSideKeeps ==
    ASSUME Inv, PartInv, ClientWrites \/ HandleAnswer, Inv'
    PROVE  PartInv'
<1>1. /\ end = "server" /\ end' = end /\ cuts' = cuts
      /\ parts' = parts /\ i' = i /\ b_txt' = b_txt /\ executed' = executed /\ full' = full
  BY DEF ClientWrites, HandleAnswer, Write, Put, CompleteBody, stream, part
<1>2. FileTypes /\ Idle /\ PartExact
  BY <1>1 DEF PartInv, Busy
<1>3. FileTypes' /\ Idle' /\ PartExact'
  BY <1>1, <1>2 DEF FileTypes, Idle, PartExact
<1> QED
  BY <1>3 DEF PartInv

LEMMA PartInvStep ==
    ASSUME Inv, PartTypes, PartInv, [TransferNext]_tvars, Inv'
    PROVE  PartInv'
<1>1. CASE ReadPiece \/ Assemble \/ Stops \/ UNCHANGED tvars
  <2>1. msgs' = msgs /\ handled' = handled /\ end' = end /\ cuts \subseteq cuts'
    <3>1. ReadPiece => msgs' = msgs /\ handled' = handled /\ end' = end /\ cuts \subseteq cuts'
      BY DEF ReadPiece, Read, ReadKeeping, ReadFresh, Piece, stream
    <3>2. Assemble => msgs' = msgs /\ handled' = handled /\ end' = end /\ cuts' = cuts
      BY DEF Assemble, NothingLeft, SplitHeader, MoreHeader, FinishHeader,
             TakeHeader, Misread, GoOn, FillPartial, stream
    <3>3. UNCHANGED tvars => msgs' = msgs /\ handled' = handled /\ end' = end /\ cuts' = cuts
      BY DEF tvars, vars, stream
    <3>4. Stops => msgs' = msgs /\ handled' = handled /\ end' = end /\ cuts' = cuts
      BY DEF Stops, Stop, Abort, ReadFails, stream
    <3> QED
      BY <1>1, <3>1, <3>2, <3>3, <3>4
  <2>2. parts' = parts /\ i' = i /\ b_txt' = b_txt /\ executed' = executed
    BY <1>1 DEF ReadPiece, Assemble, Stops, tvars, part
  <2>3. full' \in BOOLEAN
    <3>1. full \in BOOLEAN
      BY DEF PartInv, FileTypes
    <3> QED
      BY <1>1, <3>1 DEF ReadPiece, Assemble, Stops, tvars, part
  <2> QED
    BY <2>1, <2>2, <2>3, PartSame
<1>2. CASE HandleMessage
  BY <1>2, HandleMessageKeeps
<1>3. CASE ClientWrites \/ HandleAnswer
  BY <1>3, ServerSideKeeps
<1>4. CASE NextPart
  BY <1>4, NextPartKeeps
<1>5. CASE SendChunk
  BY <1>5, SendChunkKeeps
<1>6. CASE SendExecute
  BY <1>6, SendExecuteKeeps
<1> QED
  BY <1>1, <1>2, <1>3, <1>4, <1>5, <1>6 DEF TransferNext, client_Handler, Receive

LEMMA PartInvAlways == TransferSpec => []PartInv
<1>1. TransferInit => PartInv
  BY DEF TransferInit, Init, PartInv, FileTypes, Idle, PartExact, NoFile
<1>2. Inv /\ PartTypes /\ PartInv /\ [TransferNext]_tvars /\ Inv' => PartInv'
  BY PartInvStep
<1> QED
  BY <1>1, <1>2, TransferInv, PTL DEF TransferSpec

\* When the order to compute comes, b.txt is the part that was sent, whatever its
\* size, the size of the chunks and where the reads of the client end, as long as
\* none has ended in a body (client_Handler, Handle_file_write, Handle_file_append).
THEOREM TransferExact == TransferSpec => []PartExact
<1>1. PartInv => PartExact
  BY DEF PartInv
<1> QED
  BY <1>1, PartInvAlways, PTL

-----------------------------------------------------------------------------
(* Where full reads end.                                                   *)

\* Messages do not overlap.
Apart ==
    \A j \in 1 .. Len(msgs) :
        LET e == starts[j] + Header + msgs[j].len
        IN  e <= total /\ \A k \in j + 1 .. Len(msgs) : e <= starts[k]

\* The server: the messages of a client together are not longer than so many of
\* the longest.
FewBytes ==
    end = "server" =>
        total <= Len(msgs) * (Header + Byte - 1) /\ Len(msgs) <= MaxMessages

AlignInv == Apart /\ FewBytes /\ FullReadsAligned

\* A read of the client takes a chunk of full size and its header, no more; the
\* server can read all that is there.
ReadSizes ==
    /\ ReadSize["client"] = Header + FileName + FILE_CHUNK
    /\ ReadSize["server"] >= MaxMessages * (Header + Byte - 1)

\* A read that ends between two messages cuts nothing.
LEMMA Uncut ==
    ASSUME StreamInv, Apart, NEW k \in 1 .. Len(msgs) + 1, NEW e, e = Boundary(k)
    PROVE  CutAt(e) = {}
<1>1. Len(msgs) \in Nat /\ DOMAIN msgs = 1 .. Len(msgs) /\ total \in Nat
  BY DEF StreamInv
<1>2. ASSUME NEW j \in DOMAIN msgs PROVE Cut(e - starts[j], msgs[j].len) = {}
  <2> DEFINE o == e - starts[j]
             n == msgs[j].len
  <2>1. j \in 1 .. Len(msgs) /\ starts[j] \in Nat /\ n \in Nat /\ n > 0
    BY <1>1, <1>2, MessageTypes
  <2>2. starts[j] + Header + n <= total
        /\ \A i2 \in j + 1 .. Len(msgs) : starts[j] + Header + n <= starts[i2]
    BY <2>1 DEF Apart
  <2>3. CASE k = Len(msgs) + 1
    <3>1. e = total
      BY <1>1, <2>3 DEF Boundary
    <3>2. o >= Header + n /\ o \in Int
      BY <1>1, <2>1, <2>2, <3>1 DEF Header
    <3> HIDE DEF o, n
    <3>3. o \notin 1 .. Header - 1 /\ o # Header /\ o \notin Header + 1 .. Header + n - 1
      BY <2>1, <3>2 DEF Header
    <3>4. Cut(o, n) = {}
      BY <3>3 DEF Cut
    <3> QED
      BY <3>4 DEF o, n
  <2>4. CASE k \in 1 .. Len(msgs)
    <3>1. e = starts[k] /\ starts[k] \in Nat
      BY <2>4, MessageTypes
    <3>2. k \in Nat /\ j \in Nat
      BY <2>1, <2>4
    <3>3. k > j => o >= Header + n
      <4>1. k > j => k \in j + 1 .. Len(msgs)
        BY <1>1, <3>2, <2>4
      <4> QED
        BY <2>1, <2>2, <3>1, <4>1 DEF Header
    <3>4. k = j => o = 0
      BY <3>1
    <3>5. k < j => o <= 0
      <4>1. k < j => j \in k + 1 .. Len(msgs)
        BY <2>1, <3>2
      <4>2. k < j => starts[k] + Header + msgs[k].len <= starts[j]
        BY <2>4, <4>1 DEF Apart
      <4>3. msgs[k].len \in Nat
        BY <2>4, MessageTypes
      <4> QED
        BY <2>1, <3>1, <4>2, <4>3 DEF Header
    <3>6. o >= Header + n \/ o <= 0
      BY <3>2, <3>3, <3>4, <3>5
    <3>7. o \in Int
      BY <2>1, <3>1
    <3> HIDE DEF o, n
    <3>8. o \notin 1 .. Header - 1 /\ o # Header /\ o \notin Header + 1 .. Header + n - 1
      BY <2>1, <3>6, <3>7 DEF Header
    <3>9. Cut(o, n) = {}
      BY <3>8 DEF Cut
    <3> QED
      BY <3>9 DEF o, n
  <2> QED
    BY <1>1, <2>3, <2>4
<1> QED
  BY <1>2 DEF CutAt

\* A full read of the client ends between two messages.
LEMMA ClientReadAligned ==
    ASSUME Inv, PartInv, end = "client", ReadSizes, cuts = {}, pc = "read",
           \A k \in DOMAIN parts : FitsReads(parts[k]),
           NEW n \in Nat, n > 0,
           n = (IF total - base < ReadSize["client"] THEN total - base ELSE ReadSize["client"])
    PROVE  \E k \in 1 .. Len(msgs) + 1 : base + n = Boundary(k)
<1>1. StreamInv /\ base \in Nat /\ total \in Nat /\ Len(msgs) \in Nat /\ Next1 \in Nat
      /\ Next1 \in 1 .. Len(msgs) + 1 /\ DOMAIN msgs = 1 .. Len(msgs)
      /\ (Next1 \notin 1 .. Len(msgs) => Boundary(Next1) = total)
  BY NextTypes DEF Inv, TypeOK, StreamInv
<1>2. base = Boundary(Next1)
  <2>1. Between
    BY DEF Inv, PlaceInv, InHeader, InBody
  <2>2. r = 0
    BY DEF Inv, TypeOK, PieceInv
  <2> QED
    BY <1>1, <2>1, <2>2 DEF Between
<1>3. Next1 \in 1 .. Len(msgs)
  BY <1>1, <1>2
<1>4. Busy /\ FileTypes
  <2>1. Len(handled) # Len(msgs)
    BY <1>1, <1>3, NextTypes DEF Next1, Inv
  <2> QED
    BY <2>1 DEF PartInv, Idle
<1>5. PICK k, s, f : k = Next1 /\ s = Size /\ f = msgs[k].from
  OBVIOUS
<1>6. /\ k \in Nat /\ k \in 1 .. Len(msgs) /\ (k # Len(msgs) => k + 1 \in 1 .. Len(msgs))
      /\ k + 1 \in 1 .. Len(msgs) + 1 /\ (k # Len(msgs) => k + 1 \in Next1 .. Len(msgs))
  <2>1. k = Next1
    BY <1>5
  <2>2. Next1 \in Nat /\ Len(msgs) \in Nat /\ Next1 \in 1 .. Len(msgs)
    BY <1>1, <1>3
  <2> QED
    BY <2>1, <2>2
<1>11. PICK l, e : l = msgs[k].len /\ e = Boundary(k + 1)
  OBVIOUS
<1>12. e = base + 5 + l /\ l \in Nat
  BY <1>1, <1>2, <1>5, <1>6, <1>11, MessageTypes DEF Header
<1>7. Boundary(Len(msgs) + 1) = total
  BY <1>1 DEF Boundary
<1>8. FILE_CHUNK \in Nat /\ FILE_CHUNK > 0 /\ FileName \in Nat
      /\ ReadSize["client"] = 15 + FILE_CHUNK
  BY TransferAssumption DEF TransferAssumption, FileName, Byte, ReadSizes, Header
<1>13. n = IF total - base < 15 + FILE_CHUNK THEN total - base ELSE 15 + FILE_CHUNK
  BY <1>8
<1>14. base \in Nat /\ total \in Nat /\ FILE_CHUNK \in Nat /\ FILE_CHUNK > 0
  BY <1>1, <1>8
<1>9. CASE IsOrder(k)
  <2>1. e = total /\ l = 8
    BY <1>7, <1>9, <1>11 DEF IsOrder, ExecBody
  <2>2. base + n = e
    BY <1>12, <1>13, <1>14, <2>1
  <2> QED
    BY <1>6, <1>11, <2>2
<1>10. CASE IsChunk(k)
  <2>1. f \in Nat /\ f < s /\ SameRest(f) /\ msgs[k].len = 10 + Chunk(f)
        /\ From(k + 1) = f + Chunk(f)
    <3>1. /\ msgs[k].from \in Nat /\ msgs[k].from < Size /\ SameRest(msgs[k].from)
          /\ msgs[k].len = FileName + Chunk(msgs[k].from)
          /\ From(k + 1) = msgs[k].from + Chunk(msgs[k].from)
      BY <1>10 DEF IsChunk
    <3> QED
      BY <1>5, <3>1 DEF FileName
  <2>2. s \in Nat /\ FitsReads(s)
    <3>1. Len(parts) > 0 /\ Len(parts) \in DOMAIN parts
      BY <1>4 DEF Busy, FileTypes
    <3> QED
      BY <1>4, <1>5, <3>1, PartTyped DEF Size
  <2> PICK d : d = Chunk(f)
    OBVIOUS
  <2>3. d \in Nat /\ e = base + 15 + d
    <3>1. d \in Nat
      BY <1>5, <2>1, <2>2, ChunkTyped
    <3>2. l = 10 + d
      BY <1>11, <2>1
    <3> QED
      BY <1>12, <1>14, <3>1, <3>2
  <2>4. e <= total
    <3>1. CASE k = Len(msgs)
      BY <1>7, <1>11, <1>14, <3>1
    <3>2. CASE k # Len(msgs)
      <4>1. k + 1 \in 1 .. Len(msgs)
        BY <1>6, <3>2
      <4>2. Boundary(k + 1) = starts[k + 1] /\ starts[k + 1] <= total
        BY <1>1, <4>1, MessageTypes DEF StreamInv
      <4> QED
        BY <1>11, <4>2
    <3> QED
      BY <3>1, <3>2
  <2>5. CASE s - f >= FILE_CHUNK
    <3>1. d = FILE_CHUNK
      BY <1>5, <1>14, <2>1, <2>2, <2>5 DEF Chunk
    <3>2. base + n = e
      BY <1>13, <1>14, <2>3, <2>4, <3>1
    <3> QED
      BY <1>6, <1>11, <3>2
  <2>6. CASE s - f < FILE_CHUNK
    <3>1. d = s - f /\ f + d = s
      BY <1>5, <1>14, <2>1, <2>2, <2>6 DEF Chunk
    <3>2. s % FILE_CHUNK = s - f
      <4>1. s - f \in 0 .. FILE_CHUNK - 1
        BY <1>14, <2>1, <2>2, <2>6
      <4>2. (s - f) % FILE_CHUNK = s - f
        BY <1>14, <4>1
      <4>3. (s - f) % FILE_CHUNK = s % FILE_CHUNK
        BY <1>5, <2>1, <2>2 DEF SameRest
      <4> QED
        BY <4>2, <4>3
    <3>3. d + 28 <= 15 + FILE_CHUNK
      <4>1. s - f # 0
        BY <2>1, <2>2
      <4>2. (s - f) + FileName + ExecBody + 2 * Header <= ReadSize["client"]
        BY <2>2, <3>2, <4>1 DEF FitsReads
      <4>3. d + 10 + 8 + 2 * 5 <= 15 + FILE_CHUNK
        BY <1>8, <3>1, <4>2 DEF FileName, ExecBody, Header
      <4> QED
        BY <1>14, <2>3, <4>3
    <3>4. total <= base + 28 + d
      <4>1. CASE k = Len(msgs)
        <5>1. e = total
          BY <1>7, <1>11, <4>1
        <5> QED
          BY <1>14, <2>3, <5>1
      <4>2. CASE k # Len(msgs)
        <5>1. k + 1 \in Next1 .. Len(msgs) /\ k + 1 \in 1 .. Len(msgs)
          BY <1>6, <4>2
        <5>2. ~IsChunk(k + 1)
          <6>1. IsChunk(k + 1) => From(k + 1) = msgs[k + 1].from
            BY <1>1, <5>1 DEF From, IsChunk
          <6>2. From(k + 1) = s
            BY <2>1, <3>1
          <6> QED
            BY <1>5, <2>2, <6>1, <6>2 DEF IsChunk
        <5>3. IsOrder(k + 1)
          BY <1>4, <5>1, <5>2 DEF Busy
        <5>4. Boundary((k + 1) + 1) = Boundary(k + 1) + Header + msgs[k + 1].len
          <6>1. PICK j : j = k + 1
            OBVIOUS
          <6>2. Boundary(j) = starts[j] /\ Boundary(j + 1) = starts[j] + Header + msgs[j].len
            BY <1>1, <5>1, <6>1, MessageTypes
          <6> QED
            BY <6>1, <6>2
        <5>5. (k + 1) + 1 = Len(msgs) + 1 /\ msgs[k + 1].len = 8
          BY <5>3 DEF IsOrder, ExecBody
        <5>6. total = e + 5 + 8
          BY <1>7, <1>11, <5>4, <5>5 DEF Header
        <5> QED
          BY <1>14, <2>3, <5>6
      <4> QED
        BY <4>1, <4>2
    <3>5. base + n = total
      BY <1>13, <1>14, <2>3, <3>3, <3>4
    <3> QED
      BY <1>1, <1>7, <3>5
  <2> QED
    BY <1>14, <2>1, <2>2, <2>5, <2>6
<1> QED
  BY <1>1, <1>3, <1>4, <1>5, <1>9, <1>10 DEF Busy

\* The server reads all that is there.
LEMMA ServerReadAligned ==
    ASSUME Inv, FewBytes, end = "server", ReadSizes,
           NEW n \in Nat,
           n = (IF total - base < ReadSize["server"] THEN total - base ELSE ReadSize["server"])
    PROVE  \E k \in 1 .. Len(msgs) + 1 : base + n = Boundary(k)
<1>1. base \in Nat /\ total \in Nat /\ Len(msgs) \in Nat /\ MaxMessages \in Nat
      /\ Boundary(Len(msgs) + 1) = total
  BY AssemblerAssumption DEF AssemblerAssumption, Inv, TypeOK, StreamInv, Boundary
<1>2. PICK x : x = ReadSize["server"]
  OBVIOUS
<1>3. x \in Nat
  BY <1>2, AssemblerAssumption DEF AssemblerAssumption, Ends
<1>4. x >= MaxMessages * 260 /\ total <= Len(msgs) * 260 /\ Len(msgs) <= MaxMessages
  BY <1>2 DEF ReadSizes, FewBytes, Header, Byte
<1>5. total <= x
  BY <1>1, <1>3, <1>4
<1>6. n = IF total - base < x THEN total - base ELSE x
  BY <1>2
<1>7. base + n = total \/ (base = 0 /\ x = total /\ n = x)
  BY <1>1, <1>3, <1>5, <1>6
<1>8. base + n = total
  BY <1>1, <1>7
<1> QED
  BY <1>1, <1>8

LEMMA AlignedStep ==
    ASSUME Inv, PartTypes, PartInv, ReadSizes, FewBytes, Apart, FullReadsAligned,
           [TransferNext]_tvars
    PROVE  FullReadsAligned'
<1> SUFFICES ASSUME full', \A k \in DOMAIN parts' : FitsReads(parts'[k])
             PROVE  cuts' = {}
  BY DEF FullReadsAligned, FitsReads
<1>1. CASE NextPart
  <2>1. PICK n \in Sizes : parts' = Append(parts, n)
    BY <1>1 DEF NextPart
  <2>2. cuts' = cuts /\ full' = full
    BY <1>1 DEF NextPart, vars
  <2>3. ASSUME NEW k \in DOMAIN parts PROVE FitsReads(parts[k])
    <3>1. k \in DOMAIN parts' /\ parts'[k] = parts[k]
      BY <2>1, <2>3 DEF PartInv, FileTypes
    <3> QED
      BY <3>1
  <2> QED
    BY <2>2, <2>3 DEF FullReadsAligned
<1>2. CASE parts' = parts /\ full' = full /\ cuts' = cuts
  BY <1>2 DEF FullReadsAligned
<1>3. CASE ReadPiece
  <2> DEFINE there == total - base
             most  == IF there < ReadSize[end] THEN there ELSE ReadSize[end]
  <2>1. /\ full /\ Bufflen' = most /\ parts' = parts /\ pc = "read"
    BY <1>3 DEF ReadPiece, Read, ReadKeeping, ReadFresh
  <2>2. cuts = {}
    BY <2>1 DEF FullReadsAligned
  <2>3. PICK n \in 1 .. ReadSize[end] : Piece(n)
    BY <1>3 DEF ReadPiece, Read, ReadKeeping, ReadFresh
  <2>4. n \in Nat /\ n > 0
    <3>1. ReadSize[end] \in Nat
      BY AssemblerAssumption DEF AssemblerAssumption, Inv, StreamInv
    <3> QED
      BY <3>1
  <2>5. n = most /\ cuts' = cuts \cup CutAt(base + n)
    BY <2>1, <2>3 DEF Piece
  <2>6. \E k \in 1 .. Len(msgs) + 1 : base + n = Boundary(k)
    <3>1. CASE end = "client"
      BY <2>1, <2>2, <2>4, <2>5, <3>1, ClientReadAligned
    <3>2. CASE end = "server"
      BY <2>4, <2>5, <3>2, ServerReadAligned
    <3> QED
      BY <3>1, <3>2 DEF Inv, StreamInv, Ends
  <2>7. PICK e : e = base + n
    OBVIOUS
  <2>8. CutAt(e) = {}
    BY <2>6, <2>7, Uncut DEF Inv
  <2> QED
    BY <2>2, <2>5, <2>7, <2>8
<1>4. SendChunk \/ SendExecute \/ ClientWrites \/ Assemble \/ HandleMessage
         \/ HandleAnswer \/ Stops \/ UNCHANGED tvars
      => parts' = parts /\ full' = full /\ cuts' = cuts
  BY DEF SendChunk, SendExecute, ClientWrites, Write, Assemble, HandleMessage,
     HandleAnswer, NothingLeft, SplitHeader, MoreHeader, FinishHeader,
     TakeHeader, Misread, GoOn, FillPartial, CompleteBody, Stops, Stop, Abort,
     ReadFails, tvars, vars, part
<1> QED
  BY <1>1, <1>2, <1>3, <1>4 DEF TransferNext, client_Handler, Receive

\* Messages are written one after the other, and the server gets MaxMessages.
LEMMA WritesStep ==
    ASSUME Inv, PartTypes, PartInv, FewBytes, Apart, [TransferNext]_tvars
    PROVE  FewBytes' /\ Apart'
<1>1. Step \/ UNCHANGED vars
  BY TransferStep
<1>2. CASE msgs' = msgs /\ starts' = starts /\ total' = total /\ end' = end
  BY <1>2 DEF FewBytes, Apart
<1>3. Read \/ assemble_tlv \/ Stop \/ UNCHANGED vars
      => msgs' = msgs /\ starts' = starts /\ total' = total /\ end' = end
  BY DEF Read, ReadKeeping, ReadFresh, assemble_tlv, NothingLeft, SplitHeader,
     MoreHeader, FinishHeader, TakeHeader, Misread, GoOn, FillPartial, CompleteBody,
     Stop, Abort, ReadFails, vars, stream
<1>4. CASE AnyWrite
  <2>1. PICK m \in Message : Put(m, m.len)
    BY <1>4 DEF AnyWrite
  <2>2. PICK l : l = m.len
    OBVIOUS
  <2>3. l \in Nat /\ l > 0 /\ l <= 255
    BY <2>2, MessageLen DEF Byte
  <2>4. /\ msgs' = Append(msgs, m) /\ starts' = Append(starts, total)
        /\ total' = total + 5 + l /\ end' = end
    BY <2>1, <2>2 DEF Put, Header
  <2>5. Len(msgs) \in Nat /\ Len(msgs') = Len(msgs) + 1 /\ total \in Nat
    BY <1>4, WriteStream DEF Inv, StreamInv
  <2>6. ASSUME NEW j \in 1 .. Len(msgs)
        PROVE  /\ msgs'[j] = msgs[j] /\ starts'[j] = starts[j]
               /\ starts[j] + Header + msgs[j].len \in Nat
    BY <1>4, <2>6, WriteStream, MessageTypes DEF Inv, Header
  <2>7. msgs'[Len(msgs) + 1] = m /\ starts'[Len(msgs) + 1] = total
    <3>1. msgs \in Seq(Message)
      BY DEF Inv, StreamInv
    <3>2. starts'[Len(msgs) + 1] = total
      BY <1>4, WriteStream DEF Inv
    <3> QED
      BY <2>4, <3>1, <3>2
  <2>8. Apart'
    <3> SUFFICES ASSUME NEW j \in 1 .. Len(msgs) + 1
                 PROVE  /\ starts'[j] + Header + msgs'[j].len <= total'
                        /\ \A k \in j + 1 .. Len(msgs) + 1 :
                              starts'[j] + Header + msgs'[j].len <= starts'[k]
      BY <2>5 DEF Apart
    <3>1. CASE j \in 1 .. Len(msgs)
      <4>1. PICK e : e = starts[j] + Header + msgs[j].len
        OBVIOUS
      <4>2. e \in Nat /\ starts'[j] + Header + msgs'[j].len = e /\ e <= total
        BY <2>6, <3>1, <4>1 DEF Apart
      <4>3. ASSUME NEW k \in j + 1 .. Len(msgs) + 1 PROVE e <= starts'[k]
        <5>1. k \in j + 1 .. Len(msgs) \/ k = Len(msgs) + 1
          BY <2>5, <3>1, <4>3
        <5>2. CASE k \in j + 1 .. Len(msgs)
          <6>1. k \in 1 .. Len(msgs)
            BY <2>5, <3>1, <5>2
          <6>2. e <= starts[k]
            BY <3>1, <4>1, <5>2 DEF Apart
          <6> QED
            BY <2>6, <6>1, <6>2
        <5> QED
          BY <2>7, <4>2, <5>1, <5>2
      <4>4. e <= total'
        BY <2>3, <2>4, <2>5, <4>2
      <4> QED
        BY <4>2, <4>3, <4>4
    <3>2. CASE j = Len(msgs) + 1
      <4>1. starts'[j] = total /\ msgs'[j].len = l
        BY <2>2, <2>7, <3>2
      <4>2. \A k \in j + 1 .. Len(msgs) + 1 : FALSE
        BY <2>5, <3>2
      <4> QED
        BY <2>3, <2>4, <2>5, <4>1, <4>2 DEF Header
    <3> QED
      BY <2>5, <3>1, <3>2
  <2>9. FewBytes'
    <3> SUFFICES ASSUME end = "server"
                 PROVE  total' <= Len(msgs') * (Header + Byte - 1) /\ Len(msgs') <= MaxMessages
      BY <2>4 DEF FewBytes
    <3>1. Len(msgs) < MaxMessages
      <4>1. ClientWrites
        <5>1. end = "server" => i = Done
          BY DEF PartInv, Idle, Busy
        <5>2. msgs' # msgs
          BY <2>5
        <5> QED
          BY <1>3, <5>1, <5>2
          DEF TransferNext, NextPart, client_Handler, SendChunk, SendExecute, Receive,
              ReadPiece, Assemble, HandleMessage, HandleAnswer, Stops, assemble_tlv, tvars,
              vars, stream
      <4> QED
        BY <4>1 DEF ClientWrites, Write
    <3>2. total <= Len(msgs) * 260
      BY DEF FewBytes, Header, Byte
    <3>3. total' <= (Len(msgs) + 1) * 260
      BY <2>3, <2>4, <2>5, <3>2
    <3> QED
      BY <2>5, <3>1, <3>3, AssemblerAssumption DEF AssemblerAssumption, Header, Byte
  <2> QED
    BY <2>8, <2>9
<1> QED
  BY <1>1, <1>2, <1>3, <1>4 DEF Step

\* With reads of the size of a chunk, as client.c has them, and a server that reads
\* all that is there, reads that return what they can end between messages, for
\* every chunk size and every sequence of parts whose last chunks fit.
THEOREM TransferAligned ==
    ASSUME ReadSizes
    PROVE  TransferSpec => []FullReadsAligned
<1>1. TransferInit => AlignInv
  <2> SUFFICES ASSUME TransferInit PROVE AlignInv
    OBVIOUS
  <2>1. msgs = <<>> /\ total = 0 /\ cuts = {} /\ Len(msgs) = 0
    BY DEF TransferInit, Init
  <2>2. Apart /\ FullReadsAligned
    BY <2>1 DEF Apart, FullReadsAligned
  <2>3. 0 <= MaxMessages /\ total <= Len(msgs) * (Header + Byte - 1)
    BY <2>1, AssemblerAssumption DEF AssemblerAssumption, Header, Byte
  <2> QED
    BY <2>1, <2>2, <2>3 DEF AlignInv, FewBytes
<1>2. ReadSizes /\ Inv /\ PartTypes /\ PartInv /\ AlignInv /\ [TransferNext]_tvars => AlignInv'
  BY AlignedStep, WritesStep DEF AlignInv
<1>3. AlignInv => FullReadsAligned
  BY DEF AlignInv
<1> QED
  BY <1>1, <1>2, <1>3, TransferInv, PartInvAlways, PTL DEF TransferSpec

=============================================================================
