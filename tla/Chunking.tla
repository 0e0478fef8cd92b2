------------------------------ MODULE Chunking ------------------------------
(***************************************************************************)
(* Cutting a message into a stream: chunking::calculate_chunk_size and     *)
(* chunking::send_chunked.                                                 *)
(*                                                                         *)
(* A message is its length, a part is the bytes [lo, hi) it carries.  The  *)
(* code counts in u32: byte limits and lengths are truncated to it.  Each  *)
(* part is handed to Node::send_msg, which stores it or returns an error   *)
(* that ends the whole call.                                               *)
(***************************************************************************)
EXTENDS Integers, Sequences

CONSTANTS
  Word,             \* 2^32, the numbers a u32 holds
  DefaultChunkSize, \* DEFAULT_CHUNK_SIZE
  ChunkOverhead,    \* CHUNK_OVERHEAD
  ChunkHeaderSize,  \* CHUNK_HEADER_SIZE
  Lengths,          \* the lengths a message can have
  LimitSets,        \* the sets of byte limits the node's transports can have
  GivenSizes,       \* the chunk sizes a caller picks without calculating one
  PoliciesVisible   \* does the node's get_policies return its policies?

ASSUME ChunkingAssumption ==
  /\ Word \in Nat /\ DefaultChunkSize \in Nat /\ ChunkOverhead \in Nat
  /\ ChunkHeaderSize \in Nat
  /\ ChunkOverhead + ChunkHeaderSize < DefaultChunkSize
  /\ DefaultChunkSize < Word
  /\ Lengths \subseteq Nat
  /\ LimitSets \subseteq SUBSET Int
  /\ GivenSizes \subseteq Nat
  /\ PoliciesVisible \in BOOLEAN

VARIABLES
  limits,     \* the byte limits of the node's transports
  len,        \* msg.content.len()
  size,       \* chunk_size
  calculated, \* did calculate_chunk_size return it?
  stage,      \* where the call is
  num,        \* chunk_num
  sent        \* what send_msg has taken, oldest first

sendVars == <<limits, len, size, calculated, stage, num, sent>>
-----------------------------------------------------------------------------
\* The cast "as u32".
U32(x) == x % Word

\* Node::get_policies: MemoryNode, and DatabaseNode with it, returns no policy.
VisibleLimits == IF PoliciesVisible THEN limits ELSE {}

\* Variant: a limit counts whole, with no room left for the overhead.
ChunkSizeWithoutOverhead(budget) == budget

\* The smallest of the default and the limits that are numbers above 0 as u32, and
\* what is left of it for a chunk.
Candidates == {DefaultChunkSize} \cup ({U32(limit) : limit \in VisibleLimits} \ {0})
Budget == CHOOSE b \in Candidates : \A c \in Candidates : b <= c
ChunkSize(budget) == budget - ChunkOverhead

\* The parameters of the plan.
PayloadSize == IF size > ChunkHeaderSize THEN size - ChunkHeaderSize ELSE 0
WholeChunks == U32(len) \div PayloadSize
Remainder   == U32(len) % PayloadSize
\* Variant: the remainder is not counted as a chunk.
TotalWithoutRemainder(whole, rest) == whole
TotalChunks(whole, rest) == IF rest > 0 THEN whole + 1 ELSE whole

FitsWhole(total, length) == total <= 1 /\ length <= PayloadSize

\* What is handed to send_msg; a header carries the number of chunks as num.
WholeMessage       == [kind |-> "whole", num |-> 0, lo |-> 0, hi |-> len]
StreamHeader(n)    == [kind |-> "header", num |-> n, lo |-> 0, hi |-> 0]
ChunkOf(n, lo, hi) == [kind |-> "chunk", num |-> n, lo |-> lo, hi |-> hi]

\* The bytes a part puts into Msg.content.
ContentSize(p) ==
  (p.hi - p.lo) + (IF p.kind = "whole" THEN 0 ELSE ChunkHeaderSize)
-----------------------------------------------------------------------------
SendInit ==
  /\ limits \in LimitSets
  /\ len \in Lengths
  /\ size = 0
  /\ calculated = FALSE
  /\ stage = "size"
  /\ num = 0
  /\ sent = <<>>

\* Variant: no test that a chunk has room for anything.
CalculateChunkSizeUnchecked ==
  /\ stage = "size"
  /\ size' = ChunkSize(Budget)
  /\ calculated' = TRUE
  /\ stage' = "plan"
  /\ UNCHANGED <<limits, len, num, sent>>

CalculateChunkSize ==
  /\ stage = "size"
  /\ \/ /\ Budget > ChunkOverhead + ChunkHeaderSize
        /\ size' = ChunkSize(Budget)
        /\ calculated' = TRUE
        /\ stage' = "plan"
     \/ /\ Budget <= ChunkOverhead + ChunkHeaderSize
        /\ stage' = "failed"
        /\ UNCHANGED <<size, calculated>>
  /\ UNCHANGED <<limits, len, num, sent>>

\* A caller of send_chunked may pass a size of its own.
GiveChunkSize(s) ==
  /\ stage = "size"
  /\ size' = s
  /\ stage' = "plan"
  /\ UNCHANGED <<limits, len, calculated, num, sent>>

\* send_msg takes a part and the call goes on, or fails and ends it.
Send(part, next) ==
  \/ sent' = Append(sent, part) /\ stage' = next
  \/ UNCHANGED sent /\ stage' = "failed"

\* The plan, and the first message: all of it or the stream's header.
Plan ==
  LET total == TotalChunks(WholeChunks, Remainder)
  IN  /\ stage = "plan"
      /\ \/ /\ PayloadSize = 0
            /\ stage' = "failed"
            /\ UNCHANGED sent
         \/ /\ PayloadSize > 0
            /\ FitsWhole(total, U32(len))
            /\ Send(WholeMessage, "done")
         \/ /\ PayloadSize > 0
            /\ ~ FitsWhole(total, U32(len))
            /\ Send(StreamHeader(total), "chunks")
      /\ UNCHANGED <<limits, len, size, calculated, num>>

\* Variant: a chunk ends one byte short.
SendChunkShort ==
  /\ stage = "chunks"
  /\ num < WholeChunks
  /\ Send(ChunkOf(num, num * PayloadSize, (num + 1) * PayloadSize - 1), "chunks")
  /\ num' = num + 1
  /\ UNCHANGED <<limits, len, size, calculated>>

SendChunk ==
  /\ stage = "chunks"
  /\ num < WholeChunks
  /\ Send(ChunkOf(num, num * PayloadSize, (num + 1) * PayloadSize), "chunks")
  /\ num' = num + 1
  /\ UNCHANGED <<limits, len, size, calculated>>

\* The last chunk takes the rest of the content, &content[start..].
SendRemainder ==
  /\ stage = "chunks"
  /\ num = WholeChunks
  /\ \/ /\ Remainder > 0
        /\ Send(ChunkOf(num, num * PayloadSize, len), "done")
     \/ /\ Remainder = 0
        /\ stage' = "done"
        /\ UNCHANGED sent
  /\ UNCHANGED <<limits, len, size, calculated, num>>

SendNext ==
  \/ CalculateChunkSize
  \/ \E s \in GivenSizes : GiveChunkSize(s)
  \/ Plan
  \/ SendChunk
  \/ SendRemainder

SendSpec == SendInit /\ [][SendNext]_sendVars
-----------------------------------------------------------------------------
Message ==
  [kind : {"whole", "header", "chunk"}, num : Nat, lo : Nat, hi : Nat]

ChunkingTypeOK ==
  /\ limits \in LimitSets
  /\ len \in Lengths
  /\ size \in Nat
  /\ calculated \in BOOLEAN
  /\ stage \in {"size", "plan", "chunks", "done", "failed"}
  /\ num \in Nat
  /\ sent \in Seq(Message)

\* What a receiver needs to have the content again: the chunks follow their header,
\* are numbered from 0, and each starts where the one before it ended.
Contiguous ==
  \A i \in 2 .. Len(sent) :
    /\ sent[i].kind = "chunk"
    /\ sent[i].num = i - 2
    /\ sent[i].lo = (IF i = 2 THEN 0 ELSE sent[i - 1].hi)
    /\ sent[i].lo < sent[i].hi

\* A call that succeeds has sent the content whole, or a stream of the announced
\* number of chunks that is the content; a call that fails has never sent all of a
\* stream, so that nothing is reassembled from it.  The length must fit a u32.
AllOrIncomplete ==
  len < Word =>
    /\ Contiguous
    /\ stage = "done" =>
         \/ sent = <<WholeMessage>>
         \/ /\ sent # <<>>
            /\ sent[1] = StreamHeader(Len(sent) - 1)
            /\ sent[Len(sent)].hi = len
    /\ stage = "failed" /\ sent # <<>> => Len(sent) <= sent[1].num

\* No message, chunk and overhead together, is larger than the byte limit of any of
\* the node's transports, if the size has been calculated.
FitsTransport ==
  len < Word /\ calculated =>
    \A i \in 1 .. Len(sent) : \A limit \in limits :
      limit > 0 => ContentSize(sent[i]) + ChunkOverhead <= limit

\* A stream has two chunks at least, which Reassembly relies on.
StreamsHaveTwoChunks ==
  \A i \in 1 .. Len(sent) : sent[i].kind = "header" => sent[i].num >= 2
=============================================================================
