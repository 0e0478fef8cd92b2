---------------------------- MODULE StreamParts ----------------------------
(***************************************************************************)
(* The messages that chunking::send_chunked cuts into streams, and the     *)
(* parts that travel: a header and the chunks.  A part carries its stream  *)
(* id; StreamId says which one was drawn for a message.                    *)
(***************************************************************************)
EXTENDS Naturals, Sequences, FiniteSets

CONSTANTS
  Msgs,     \* the messages in transfer
  Total,    \* [Msgs -> Nat]: how many chunks a message is cut into
  Channel,  \* [Msgs -> channel name]: where a message belongs
  Ids,      \* stream ids
  StreamId  \* [Msgs -> Ids]: the id generate_stream_id drew for a message

\* send_chunked makes a stream of two chunks at least (a message of one chunk is
\* sent whole), and the random 32-bit ids of the streams in transfer differ.
ASSUME StreamPartsAssumption ==
  /\ Total \in [Msgs -> Nat \ {0, 1}]
  /\ StreamId \in [Msgs -> Ids]
  /\ \A m1, m2 \in Msgs : StreamId[m1] = StreamId[m2] => m1 = m2

\* The parts of a stream; chunks are numbered as on the wire, from 0.
ChunkNums(m) == 0 .. Total[m] - 1
Header(m)    == <<"header", m, 0>>
Chunk(m, n)  == <<"chunk", m, n>>
Parts(m)     == {Header(m)} \cup {Chunk(m, n) : n \in ChunkNums(m)}
AllParts     == UNION {Parts(m) : m \in Msgs}

\* The bytes of a chunk, and the message they make up in order.
Piece(m, n) == <<m, n>>
Content(m)  == [i \in 1 .. Total[m] |-> Piece(m, i - 1)]
Whole(m)    == [name |-> Channel[m], content |-> Content(m)]
=============================================================================
