---------------------------- MODULE PartTransfer ----------------------------
(***************************************************************************)
(* A part of a data set on its way to a client: client_Handler cuts the    *)
(* file into FILE_WRITE and FILE_APPEND messages and ends with             *)
(* EXECUTE_JOB_ID; the assembler of the client puts the messages together  *)
(* and calls the handlers, which write b.txt and compute from it.          *)
(*                                                                         *)
(* The stream and the assembler are those of TlvAssembler. A message also  *)
(* says its type and where in the part its bytes begin. At the other end,  *)
(* the server, the messages of a client arrive.                            *)
(***************************************************************************)
EXTENDS TlvAssembler

CONSTANTS
    Sizes,      \* sizes of parts, in bytes; split makes no empty file
    MaxParts,   \* bound: parts sent to the client
    FILE_CHUNK  \* bytes of the file in a message

FileName == 10          \* bytes of the name before those of the file
ExecBody == 8           \* job and operation
NoFile   == [n |-> 0, exact |-> TRUE]

ASSUME TransferAssumption ==
    /\ Sizes \subseteq Nat \ {0} /\ MaxParts \in Nat
    /\ FILE_CHUNK \in 1 .. Byte - 1 - FileName

VARIABLES
    parts,      \* sizes of the parts that were sent or are
    i,          \* bytes of the last part that were sent, or Done after its EXEC
    b_txt,      \* b.txt: how many bytes, and whether they are the part's first n
    executed,   \* b.txt as it was at each EXECUTE_JOB_ID
    full        \* every read has returned all that was there, up to ReadSize

Done == -1

part  == <<parts, i, b_txt, executed, full>>
tvars == <<vars, part>>

TransferInit ==
    /\ Init
    /\ parts = <<>> /\ i = Done
    /\ b_txt = NoFile /\ executed = <<>> /\ full = TRUE

-----------------------------------------------------------------------------
(* client_Handler                                                          *)

\* The client is chosen again when it has answered for the part before.
NextPart ==
    /\ end = "client" /\ i = Done /\ Len(executed) = Len(parts) /\ Len(parts) < MaxParts
    /\ \E n \in Sizes : parts' = Append(parts, n)
    /\ i' = 0
    /\ UNCHANGED <<vars, b_txt, executed, full>>

Rest == parts[Len(parts)] - i

\* Mutant: every message writes the file anew.
MutChunkType == "FILE_WRITE"

ChunkType == IF i = 0 THEN "FILE_WRITE" ELSE "FILE_APPEND"

\* The length in the header, computed before the bytes are read.
ChunkLen == FileName + (IF Rest > FILE_CHUNK THEN FILE_CHUNK ELSE Rest)

copied == IF Rest < FILE_CHUNK THEN Rest ELSE FILE_CHUNK

\* Mutant: the zero after the bytes is sent with them.
MutSendChunk ==
    /\ i # Done /\ Rest > 0
    /\ Put([type |-> ChunkType, len |-> ChunkLen + 1, from |-> i],
           FileName + copied + 1)
    /\ i' = i + copied
    /\ UNCHANGED <<handled, cuts, pc, buffer, state, parts, b_txt, executed, full>>

SendChunk ==
    /\ i # Done /\ Rest > 0
    /\ Put([type |-> ChunkType, len |-> ChunkLen, from |-> i],
           FileName + copied)
    /\ i' = i + copied
    /\ UNCHANGED <<handled, cuts, pc, buffer, state, parts, b_txt, executed, full>>

SendExecute ==
    /\ i # Done /\ Rest <= 0
    /\ Put([type |-> "EXECUTE_JOB_ID", len |-> ExecBody, from |-> 0], ExecBody)
    /\ i' = Done
    /\ UNCHANGED <<handled, cuts, pc, buffer, state, parts, b_txt, executed, full>>

client_Handler == SendChunk \/ SendExecute

-----------------------------------------------------------------------------
(* The client.                                                             *)

ReadPiece ==
    /\ Read
    /\ LET there == total - base
           most  == IF there < ReadSize[end] THEN there ELSE ReadSize[end]
       IN  full' = (full /\ Bufflen' = most)
    /\ UNCHANGED <<parts, i, b_txt, executed>>

\* The handler of the message that CompleteBody completes; the bytes that it
\* writes are as many as the header says.
Handle_file_write(m, whole) ==
    /\ b_txt' = [n |-> m.len - FileName, exact |-> whole /\ m.from = 0]
    /\ UNCHANGED executed

Handle_file_append(m, whole) ==
    /\ b_txt' = [n     |-> b_txt.n + (m.len - FileName),
                 exact |-> b_txt.exact /\ whole /\ m.from = b_txt.n]
    /\ UNCHANGED executed

Handle_execute_job ==
    /\ executed' = Append(executed, b_txt)
    /\ b_txt' = NoFile

HandleMessage ==
    /\ end = "client" /\ CompleteBody
    /\ LET m     == msgs[Next1]
           whole == handled'[Next1].whole
       IN  \/ m.type = "FILE_WRITE" /\ Handle_file_write(m, whole)
           \/ m.type = "FILE_APPEND" /\ Handle_file_append(m, whole)
           \/ m.type = "EXECUTE_JOB_ID" /\ Handle_execute_job
    /\ UNCHANGED <<parts, i, full>>

\* What the handlers of the server do is not modelled here.
HandleAnswer == end = "server" /\ CompleteBody /\ UNCHANGED part

Assemble ==
    /\ NothingLeft \/ SplitHeader \/ MoreHeader \/ FinishHeader \/ TakeHeader
       \/ Misread \/ GoOn \/ FillPartial
    /\ UNCHANGED part

Receive == ReadPiece \/ Assemble \/ HandleMessage \/ HandleAnswer

Stops == Stop /\ UNCHANGED part

-----------------------------------------------------------------------------
\* Keep-alives, the registration and answers of a client.
ClientWrites == end = "server" /\ Write /\ UNCHANGED part

TransferNext == NextPart \/ client_Handler \/ ClientWrites \/ Receive \/ Stops

\* The thread of client_Handler and those that read the connection run.
TransferSpec ==
    /\ TransferInit /\ [][TransferNext]_tvars
    /\ WF_tvars(client_Handler) /\ WF_tvars(Receive)

-----------------------------------------------------------------------------
(* Properties.                                                             *)

\* When the order to compute comes, b.txt is the part: all of it, and nothing of
\* another part, unless a read of the client has ended in a body.
PartExact ==
    "body" \notin cuts =>
        \A k \in DOMAIN executed : executed[k] = [n |-> parts[k], exact |-> TRUE]

\* The last message of a part and the EXECUTE_JOB_ID after it fit in one read, or
\* the first of them fills one.
FitsReads(n) ==
    LET rest == n % FILE_CHUNK
    IN  rest = 0 \/ rest + FileName + ExecBody + 2 * Header <= ReadSize["client"]

\* Reads that return all that is there end between messages, at the server
\* always, at the client if the size of each part fits the size of its reads.
FullReadsAligned ==
    full /\ (\A k \in DOMAIN parts : FitsReads(parts[k])) => cuts = {}

\* A client that is sent a part computes from it, or has lost the stream, or died
\* of a body that was cut (InStep says when), or its connection was reset.
PartExecuted ==
    \A k \in 1 .. MaxParts :
        (Len(parts) >= k)
        ~> (Len(executed) >= k \/ pc \in {"lost", "crashed", "reset"})

=============================================================================
