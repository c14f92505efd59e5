---------------------------- MODULE TlvAssembler ----------------------------
(***************************************************************************)
(* The framing of messages on a connection (assemble_tlv): a message is a  *)
(* header of one type byte and four length bytes, and a body. The bytes of *)
(* the stream arrive in pieces of any size; assemble_tlv is called with    *)
(* each piece, keeps what it knows of an unfinished message in a TLV_State *)
(* and calls the handler of every message it has completed.                *)
(*                                                                         *)
(* A byte is its place in the stream. The block that holds the body is     *)
(* what realloc made of it: bytes written past its size may be anything by *)
(* the time they are read, so the model counts the bytes that are sure to  *)
(* be as they were sent.                                                   *)
(***************************************************************************)
EXTENDS Integers, Sequences

CONSTANTS
    Lengths,      \* lengths of bodies; a client given no group would send an empty
                  \* one, which is left out
    MaxMessages,  \* bound: messages that Write writes
    ReadSize      \* the most that one read returns, at each end

Header == 5       \* sizeof (tlv_header_t), packed
Byte   == 256
Ends   == {"client", "server"}

ASSUME AssemblerAssumption ==
    /\ Lengths \subseteq 1 .. Byte - 1
    /\ MaxMessages \in Nat
    /\ ReadSize \in [Ends -> Nat \ {0}]

VARIABLES
    end,        \* the end of the connection at which the messages arrive
    msgs,       \* the messages written to the socket, each with its len
    starts,     \* starts[i]: where in the stream the i-th begins
    total,      \* bytes written
    handled,    \* what the handlers were called with, in order
    cuts,       \* where reads have ended other than between two messages: in a
                \* "header", in the "gap" after one, in a "body"
    pc,         \* "read", "start" (the label), "body", or how it ended: "lost", a
                \* header was read from bytes that are not one; "crashed", the
                \* process died; "reset", the connection did
    base,       \* bytes read before those in recvBuff
    Bufflen,
    r, c, remaining_bytes, len_bytes_processed, length,
    tlv_header_is_complete, tlv_is_complete,
    intact      \* bytes at the front of tlv_data that are as they were sent

stream == <<end, msgs, starts, total>>
buffer == <<base, Bufflen, r>>
state  == <<c, remaining_bytes, len_bytes_processed, length,
            tlv_header_is_complete, tlv_is_complete, intact>>
vars   == <<stream, handled, cuts, pc, buffer, state>>

Left == Bufflen - r
Next1 == Len(handled) + 1   \* the message that is assembled

init_tlv_state ==
    /\ c = 0 /\ remaining_bytes = 0 /\ len_bytes_processed = 0 /\ length = 0
    /\ tlv_header_is_complete = TRUE /\ tlv_is_complete = TRUE
    /\ intact = 0

Init ==
    /\ end \in Ends
    /\ msgs = <<>> /\ starts = <<>> /\ total = 0
    /\ handled = <<>> /\ cuts = {}
    /\ pc = "read" /\ base = 0 /\ Bufflen = 0 /\ r = 0
    /\ init_tlv_state

-----------------------------------------------------------------------------
(* The stream.                                                             *)

\* write on the other end: a header that says m.len, and n bytes of body.
Put(m, n) ==
    /\ msgs' = Append(msgs, m)
    /\ starts' = Append(starts, total)
    /\ total' = total + Header + n
    /\ end' = end

Write ==
    /\ Len(msgs) < MaxMessages
    /\ \E n \in Lengths : Put([len |-> n], n)
    /\ UNCHANGED <<handled, cuts, pc, buffer, state>>

\* What a read cuts that ends o bytes after the beginning of a message with a
\* body of n.
Cut(o, n) ==
    CASE o \in 1 .. Header - 1              -> {"header"}
      [] o = Header                         -> {"gap"}
      [] o \in Header + 1 .. Header + n - 1 -> {"body"}
      [] OTHER                              -> {}

CutAt(e) == UNION {Cut(e - starts[i], msgs[i].len) : i \in DOMAIN msgs}

\* A read returns any number of the bytes that are there.
Piece(n) ==
    /\ n <= total - base
    /\ Bufflen' = n /\ cuts' = cuts \cup CutAt(base + n)
    /\ pc' = "start"

\* process_job: the state lives as long as the connection.
ReadKeeping ==
    /\ pc = "read" /\ end = "client"
    /\ \E n \in 1 .. ReadSize[end] : Piece(n)
    /\ UNCHANGED <<stream, handled, base, r, state>>

\* client_Communication: a thread of its own and a new state for every read.
ReadFresh ==
    /\ pc = "read" /\ end = "server"
    /\ \E n \in 1 .. ReadSize[end] : Piece(n)
    /\ c' = 0 /\ remaining_bytes' = 0 /\ len_bytes_processed' = 0
    /\ length' = 0 /\ tlv_header_is_complete' = TRUE /\ tlv_is_complete' = TRUE
    /\ intact' = 0
    /\ UNCHANGED <<stream, handled, base, r>>

-----------------------------------------------------------------------------
(* assemble_tlv, from the label start to the next jump to it or the return *)

\* The return of assemble_tlv: the piece is used up and r is 0 again.
Return ==
    /\ pc' = "read"
    /\ base' = base + Bufflen /\ Bufflen' = 0 /\ r' = 0

\* There is a header to read at the place where the parser is.
AtHeader == Next1 \in DOMAIN msgs /\ base + r = starts[Next1]

NothingLeft ==
    /\ pc = "start" /\ Left = 0 /\ tlv_is_complete
    /\ Return
    /\ UNCHANGED <<stream, handled, cuts, state>>

\* The piece ends in a header: the type and the length bytes that are there.
SplitHeader ==
    /\ pc = "start" /\ Left \in 1 .. Header - 1
    /\ tlv_header_is_complete /\ remaining_bytes = 0 /\ AtHeader
    /\ tlv_header_is_complete' = FALSE
    /\ len_bytes_processed' = Left - 1
    /\ Return
    /\ UNCHANGED <<stream, handled, cuts, c, remaining_bytes, length, tlv_is_complete,
                   intact>>

\* A later piece has more length bytes, but not all of them.
MoreHeader ==
    /\ pc = "start" /\ ~tlv_header_is_complete
    /\ len_bytes_processed + Left < Header - 1
    /\ len_bytes_processed' = len_bytes_processed + Left
    /\ Return
    /\ UNCHANGED <<stream, handled, cuts, c, remaining_bytes, length,
                   tlv_header_is_complete, tlv_is_complete, intact>>

\* Mutant: the byte before the last one stays.
MutSplitLength(len) == (length - (length % Byte)) + ((len \div Byte) % Byte)

\* Each length byte is copied to the first byte of length, in host order: the
\* last one, the lowest, is what stays.
SplitLength(len) == (length - (length % Byte)) + (len % Byte)

\* The last length byte. When a header's worth of bytes follows, the code goes
\* on to read a header although it has one.
FinishHeader ==
    LET k == Header - 1 - len_bytes_processed
    IN  /\ pc = "start" /\ ~tlv_header_is_complete /\ Left >= k
        /\ r' = r + k
        /\ len_bytes_processed' = Header - 1
        /\ tlv_header_is_complete' = TRUE
        /\ length' = SplitLength(msgs[Next1].len)
        /\ remaining_bytes' = length'
        /\ pc' = IF Left - k >= Header THEN "lost" ELSE "body"
        /\ UNCHANGED <<stream, handled, cuts, base, Bufflen, c, tlv_is_complete, intact>>

\* A whole header is there.
TakeHeader ==
    /\ pc = "start" /\ tlv_header_is_complete /\ tlv_is_complete
    /\ Left >= Header /\ AtHeader
    /\ r' = r + Header
    /\ length' = msgs[Next1].len /\ remaining_bytes' = msgs[Next1].len
    /\ intact' = 0
    /\ pc' = "body"
    /\ UNCHANGED <<stream, handled, cuts, base, Bufflen, c, len_bytes_processed,
                   tlv_header_is_complete, tlv_is_complete>>

\* A header is read where there is none.
Misread ==
    /\ pc = "start" /\ tlv_header_is_complete /\ tlv_is_complete
    /\ Left > 0 /\ ~AtHeader
    /\ pc' = "lost"
    /\ UNCHANGED <<stream, handled, cuts, buffer, state>>

\* The call goes on with a body that an earlier one began.
GoOn ==
    /\ pc = "start" /\ ~tlv_is_complete
    /\ pc' = "body"
    /\ UNCHANGED <<stream, handled, cuts, buffer, state>>

\* realloc to n bytes and copy of n bytes to tlv_data + c: what lies beyond the
\* first n bytes of the block is not kept.
Store(n) ==
    LET kept == IF intact < n THEN intact ELSE n
    IN  IF kept = c THEN n ELSE kept

\* Mutant: the bytes of the piece that were used before are subtracted too.
MutFillPartial ==
    /\ pc = "body" /\ remaining_bytes > Left
    /\ intact' = Store(Left)
    /\ remaining_bytes' = remaining_bytes - Bufflen
    /\ c' = c + Left
    /\ tlv_is_complete' = FALSE
    /\ Return
    /\ UNCHANGED <<stream, handled, cuts, len_bytes_processed, length,
                   tlv_header_is_complete>>

\* Mutant: the bytes that came are not subtracted.
MutFillKeeps ==
    /\ pc = "body" /\ remaining_bytes > Left
    /\ intact' = Store(Left)
    /\ remaining_bytes' = remaining_bytes
    /\ c' = c + Left
    /\ tlv_is_complete' = FALSE
    /\ Return
    /\ UNCHANGED <<stream, handled, cuts, len_bytes_processed, length,
                   tlv_header_is_complete>>

\* The piece ends before the body does.
FillPartial ==
    /\ pc = "body" /\ remaining_bytes > Left
    /\ intact' = Store(Left)
    /\ remaining_bytes' = remaining_bytes - Left
    /\ c' = c + Left
    /\ tlv_is_complete' = FALSE
    /\ Return
    /\ UNCHANGED <<stream, handled, cuts, len_bytes_processed, length,
                   tlv_header_is_complete>>

\* Mutant: all that is left of the piece is copied, not only this body.
MutCompleteBody ==
    /\ pc = "body" /\ remaining_bytes <= Left
    /\ handled' = Append(handled, [len   |-> length,
                                   whole |-> Store(Left) = length])
    /\ r' = r + remaining_bytes
    /\ remaining_bytes' = 0 /\ c' = 0 /\ length' = 0 /\ intact' = 0
    /\ tlv_is_complete' = TRUE
    /\ pc' = "start"
    /\ UNCHANGED <<stream, cuts, base, Bufflen, len_bytes_processed,
                   tlv_header_is_complete>>

\* The message is complete: its handler is called and the header forgotten.
CompleteBody ==
    /\ pc = "body" /\ remaining_bytes <= Left
    /\ handled' = Append(handled, [len   |-> length,
                                   whole |-> Store(remaining_bytes) = length])
    /\ r' = r + remaining_bytes
    /\ remaining_bytes' = 0 /\ c' = 0 /\ length' = 0 /\ intact' = 0
    /\ tlv_is_complete' = TRUE
    /\ pc' = "start"
    /\ UNCHANGED <<stream, cuts, base, Bufflen, len_bytes_processed,
                   tlv_header_is_complete>>

-----------------------------------------------------------------------------
(* How a process ends.                                                     *)

\* A body that came in several pieces is written past the end of its block, and
\* what the allocator keeps there with it.
Overrun == (pc = "body" /\ c > 0) \/ \E k \in DOMAIN handled : ~handled[k].whole

\* realloc or free may find that out, at once or later.
Abort ==
    /\ pc \in {"start", "body"} /\ Overrun
    /\ pc' = "crashed"
    /\ UNCHANGED <<stream, handled, cuts, buffer, state>>

\* process_job goes on when read returns -1, as if 2^32 - 1 bytes had come: it
\* takes the bytes of the read before for messages once more, and then whatever
\* lies behind the buffer. What it does by then is not modelled.
ReadFails ==
    /\ pc = "read" /\ end = "client"
    /\ pc' = "reset"
    /\ UNCHANGED <<stream, handled, cuts, buffer, state>>

Stop == Abort \/ ReadFails

-----------------------------------------------------------------------------
Read == ReadKeeping \/ ReadFresh

assemble_tlv ==
    \/ NothingLeft \/ SplitHeader \/ MoreHeader \/ FinishHeader \/ TakeHeader
    \/ Misread \/ GoOn \/ FillPartial \/ CompleteBody

Next == Write \/ Read \/ assemble_tlv \/ Stop

Spec == Init /\ [][Next]_vars

-----------------------------------------------------------------------------
(* Properties.                                                             *)

TypeOK ==
    /\ end \in Ends /\ cuts \subseteq {"header", "gap", "body"}
    /\ starts \in Seq(Nat) /\ total \in Nat
    /\ handled \in Seq([len : Nat, whole : BOOLEAN])
    /\ pc \in {"read", "start", "body", "lost", "crashed", "reset"}
    /\ base \in Nat /\ Bufflen \in Nat /\ r \in 0 .. Bufflen
    /\ c \in Nat /\ remaining_bytes \in Nat /\ length \in Nat /\ intact \in Nat
    /\ len_bytes_processed \in 0 .. Header - 1
    /\ tlv_header_is_complete \in BOOLEAN /\ tlv_is_complete \in BOOLEAN

\* Handlers are called in the order of the messages and with their lengths,
\* wherever reads end, though the length of a split header is made of single
\* bytes that are all copied to the same place.
LengthsRight ==
    \A i \in DOMAIN handled : i \in DOMAIN msgs /\ handled[i].len = msgs[i].len

\* What the assembler takes for a header is one, as long as no read has ended in
\* a header, nor, at the server, in a message; and it brings down the client only
\* after a read has ended in a body, and never the server.
InStep ==
    /\ pc = "lost" => "header" \in cuts \/ (end = "server" /\ cuts # {})
    /\ pc = "crashed" => "body" \in cuts /\ end = "client"

\* A handler gets the whole body it is told the length of, as long as no read of
\* the client has ended in a body. The server never goes on with a body.
BodiesWhole ==
    ("body" \in cuts => end = "server") => \A i \in DOMAIN handled : handled[i].whole

\* The connection is a channel of whole messages until a body is cut.
Damaged == [len |-> -1]

Channel == INSTANCE MessageChannel WITH
    Messages <- [len : 1 .. Byte - 1],
    sent     <- [i \in DOMAIN msgs |-> [len |-> msgs[i].len]],
    handled  <- [i \in DOMAIN handled |->
                   IF handled[i].whole THEN [len |-> handled[i].len] ELSE Damaged],
    torn     <- end = "client" /\ "body" \in cuts

ImplementsChannel == Channel!Spec

=============================================================================
