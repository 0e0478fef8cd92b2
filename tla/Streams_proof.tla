--------------------------- MODULE Streams_proof ---------------------------
(***************************************************************************)
(* Theorems about both ends of a stream.                                   *)
(*                                                                         *)
(* Chunking, the sender: that its parts are the content and fit every      *)
(* transport, for every word size, every set of byte limits and every      *)
(* length of a message.                                                    *)
(*                                                                         *)
(* Reassembly, the receiver: the types of its state, that what it holds    *)
(* and delivers is authentic and whole, that nothing is lost when headers  *)
(* come first and once, and how often a message is delivered, for every    *)
(* set of messages and tasks, every number of chunks and every bound on    *)
(* what the network repeats.                                               *)
(***************************************************************************)
EXTENDS Chunking, Reassembly, FiniteSetTheorems, WellFoundedInduction, TLAPS

-----------------------------------------------------------------------------
(***************************************************************************)
(*                               The sender                                *)
(***************************************************************************)
\* Arithmetic: division with remainder, and multiples.
LEMMA Division ==
  ASSUME NEW a \in Nat, NEW b \in Nat, b > 0
  PROVE  /\ a \div b \in Nat
         /\ a % b \in Nat
         /\ a % b < b
         /\ a = b * (a \div b) + (a % b)
OBVIOUS

LEMMA Monotone ==
  ASSUME NEW j \in Nat, NEW k \in Nat, NEW p \in Nat, j <= k
  PROVE  j * p <= k * p
OBVIOUS

\* A multiple and the next one.
LEMMA NextMultiple ==
  ASSUME NEW k \in Nat, NEW p \in Nat
  PROVE  (k + 1) * p = k * p + p /\ k * p \in Nat /\ k * p = p * k
OBVIOUS
-----------------------------------------------------------------------------
\* The inductive invariant: what has been sent is the whole message, or a prefix of
\* the stream that the plan lays out.
Announced == TotalChunks(WholeChunks, Remainder)

LayOut(k) ==
  ChunkOf(k, k * PayloadSize, IF k < WholeChunks THEN (k + 1) * PayloadSize ELSE len)

Planned == PayloadSize > 0 /\ ~ FitsWhole(Announced, U32(len))

WholeSent ==
  /\ PayloadSize > 0
  /\ FitsWhole(Announced, U32(len))
  /\ sent = <<WholeMessage>>

PrefixSent ==
  /\ Planned
  /\ Len(sent) \in 1 .. Announced + 1
  /\ sent[1] = StreamHeader(Announced)
  /\ \A i \in 2 .. Len(sent) : sent[i] = LayOut(i - 2)

Progress ==
  /\ stage \in {"size", "plan"} => sent = <<>> /\ num = 0
  /\ stage = "chunks" => PrefixSent /\ Len(sent) = num + 1 /\ num <= WholeChunks
  /\ stage = "done" => WholeSent \/ (PrefixSent /\ Len(sent) = Announced + 1)
  /\ stage = "failed" => sent = <<>> \/ (PrefixSent /\ Len(sent) <= Announced)

SizeCalculated ==
  /\ stage = "size" => ~ calculated
  /\ calculated => size = ChunkSize(Budget) /\ Budget > ChunkOverhead + ChunkHeaderSize

ChunkingInv == ChunkingTypeOK /\ Progress /\ SizeCalculated
-----------------------------------------------------------------------------
\* The plan in numbers.
LEMMA PlanNumbers ==
  ASSUME ChunkingTypeOK, PayloadSize > 0
  PROVE  /\ PayloadSize \in Nat
         /\ len \in Nat
         /\ U32(len) \in Nat
         /\ WholeChunks \in Nat
         /\ Remainder \in Nat
         /\ Remainder < PayloadSize
         /\ U32(len) = PayloadSize * WholeChunks + Remainder
         /\ U32(len) <= len
         /\ len < Word => U32(len) = len
         /\ Announced \in {WholeChunks, WholeChunks + 1}
<1>1. PayloadSize \in Nat /\ len \in Nat /\ Word \in Nat /\ Word > 0
  BY ChunkingAssumption DEF ChunkingTypeOK, PayloadSize
<1>2. /\ U32(len) \in Nat
      /\ len = Word * (len \div Word) + U32(len)
      /\ U32(len) < Word
      /\ len \div Word \in Nat
  BY <1>1, Division DEF U32
<1>3. U32(len) <= len
  BY <1>1, <1>2
<1>4. len < Word => U32(len) = len
  BY <1>1 DEF U32
<1>5. /\ WholeChunks \in Nat
      /\ Remainder \in Nat
      /\ Remainder < PayloadSize
      /\ U32(len) = PayloadSize * WholeChunks + Remainder
  BY <1>1, <1>2, Division DEF WholeChunks, Remainder
<1>6. QED
  BY <1>1, <1>2, <1>3, <1>4, <1>5 DEF Announced, TotalChunks

\* A message that does not fit whole makes two chunks at least.
LEMMA PlannedIsTwo ==
  ASSUME ChunkingTypeOK, Planned
  PROVE  Announced \in Nat /\ Announced >= 2
<1>1. PayloadSize > 0
  BY DEF Planned
<1>2. ASSUME Announced <= 1
      PROVE  FALSE
  <2>1. U32(len) > PayloadSize
    BY <1>1, <1>2, PlanNumbers DEF Planned, FitsWhole
  <2>2. WholeChunks = 0 => Announced = (IF Remainder > 0 THEN 1 ELSE 0)
    BY DEF Announced, TotalChunks
  <2>3. WholeChunks >= 2 \/ (WholeChunks = 1 /\ Remainder > 0)
    <3>1. ASSUME WholeChunks = 0 PROVE FALSE
      BY <1>1, <2>1, <3>1, PlanNumbers
    <3>2. ASSUME WholeChunks = 1, Remainder = 0 PROVE FALSE
      BY <1>1, <2>1, <3>2, PlanNumbers
    <3>3. QED
      BY <1>1, <3>1, <3>2, PlanNumbers
  <2>4. QED
    BY <1>1, <1>2, <2>3, PlanNumbers DEF Announced, TotalChunks
<1>3. QED
  BY <1>1, <1>2, PlanNumbers

\* Every part laid out is a message.
LEMMA LayOutTyped ==
  ASSUME ChunkingTypeOK, PayloadSize > 0, NEW k \in Nat
  PROVE  LayOut(k) \in Message
<1>1. k * PayloadSize \in Nat /\ (k + 1) * PayloadSize \in Nat /\ len \in Nat
  BY PlanNumbers
<1>2. QED
  BY <1>1 DEF LayOut, ChunkOf, Message
-----------------------------------------------------------------------------
LEMMA Minimum ==
  ASSUME NEW S \in SUBSET Nat, S # {}
  PROVE  \E b \in S : \A c \in S : b <= c
<1>1. \E b \in S : \A c \in S : ~ (c < b)
  <2> DEFINE R == OpToRel(<, Nat)
  <2>1. IsWellFoundedOn(R, Nat)
    BY NatLessThanWellFounded
  <2>2. \A c, d \in Nat : c < d => <<c, d>> \in R
    BY Zenon DEF OpToRel
  <2> HIDE DEF R
  <2>3. \E b \in S : \A c \in S : ~ (<<c, b>> \in R)
    BY <2>1, WFMin
  <2>4. QED
    BY <2>2, <2>3
<1>2. PICK b \in S : \A c \in S : ~ (c < b)
  BY <1>1
<1>3. \A c \in S : b <= c
  BY <1>2
<1>4. QED
  BY <1>3

LEMMA BudgetBounds ==
  ASSUME ChunkingTypeOK
  PROVE  /\ Budget \in Nat
         /\ \A c \in Candidates : Budget <= c
<1>1. Candidates \subseteq Nat
  <2>1. \A limit \in VisibleLimits : limit \in Int
    BY ChunkingAssumption DEF ChunkingTypeOK, VisibleLimits
  <2>2. \A x \in Int : U32(x) \in Nat
    BY ChunkingAssumption DEF U32
  <2>3. QED
    BY <2>1, <2>2, ChunkingAssumption DEF Candidates
<1>2. \E b \in Candidates : \A c \in Candidates : b <= c
  BY <1>1, Minimum DEF Candidates
<1>3. QED
  BY <1>1, <1>2 DEF Budget
-----------------------------------------------------------------------------
\* The plan stays the same while the parts are sent.
LEMMA PlanStays ==
  ASSUME UNCHANGED <<len, size>>
  PROVE  /\ PayloadSize' = PayloadSize /\ WholeChunks' = WholeChunks
         /\ Remainder' = Remainder /\ Announced' = Announced /\ U32(len)' = U32(len)
         /\ Planned' = Planned
         /\ FitsWhole(Announced, U32(len))' = FitsWhole(Announced, U32(len))
         /\ \A k : LayOut(k)' = LayOut(k)
<1>1. PayloadSize' = PayloadSize /\ U32(len)' = U32(len)
  BY DEF PayloadSize, U32
<1>2. WholeChunks' = WholeChunks /\ Remainder' = Remainder
  BY <1>1 DEF WholeChunks, Remainder
<1>3. Announced' = Announced
  BY <1>2 DEF Announced, TotalChunks
<1>4. QED
  BY <1>1, <1>2, <1>3 DEF Planned, FitsWhole, LayOut, ChunkOf

LEMMA PrefixStays ==
  ASSUME UNCHANGED <<len, size, sent>>, PrefixSent
  PROVE  PrefixSent'
BY PlanStays DEF PrefixSent, StreamHeader

\* A prefix with the next chunk is a prefix again.
LEMMA PrefixGrows ==
  ASSUME ChunkingTypeOK, PrefixSent, UNCHANGED <<len, size>>, Len(sent) <= Announced,
         sent' = Append(sent, LayOut(Len(sent) - 1))
  PROVE  PrefixSent' /\ Len(sent') = Len(sent) + 1
<1>1. sent \in Seq(Message) /\ Announced \in Nat
  BY PlannedIsTwo DEF ChunkingTypeOK, PrefixSent
<1>2. /\ Len(sent') = Len(sent) + 1
      /\ \A i \in 1 .. Len(sent) : sent'[i] = sent[i]
      /\ sent'[Len(sent) + 1] = LayOut(Len(sent) - 1)
  BY <1>1
<1>3. /\ Planned' = Planned /\ Announced' = Announced
      /\ StreamHeader(Announced)' = StreamHeader(Announced)
      /\ \A k : LayOut(k)' = LayOut(k)
  BY PlanStays DEF StreamHeader
<1>4. Len(sent') \in 1 .. Announced' + 1
  BY <1>1, <1>2, <1>3
<1>5. sent'[1] = StreamHeader(Announced)'
  BY <1>1, <1>2, <1>3 DEF PrefixSent
<1>6. ASSUME NEW i \in 2 .. Len(sent')
      PROVE  sent'[i] = LayOut(i - 2)
  <2>1. CASE i = Len(sent) + 1
    BY <1>1, <1>2, <2>1
  <2>2. CASE i \in 2 .. Len(sent)
    BY <1>1, <1>2, <2>2 DEF PrefixSent
  <2>3. QED
    BY <1>1, <1>2, <1>6, <2>1, <2>2
<1>7. QED
  BY <1>2, <1>3, <1>4, <1>5, <1>6 DEF PrefixSent
-----------------------------------------------------------------------------
LEMMA ChunkingInitInv == SendInit => ChunkingInv
<1> SUFFICES ASSUME SendInit PROVE ChunkingInv
  OBVIOUS
<1>1. ChunkingTypeOK
  <2>1. sent \in Seq(Message)
    BY DEF SendInit
  <2>2. limits \in LimitSets /\ len \in Lengths /\ size \in Nat /\ num \in Nat
    BY DEF SendInit
  <2>3. calculated \in BOOLEAN /\ stage \in {"size", "plan", "chunks", "done", "failed"}
    BY DEF SendInit
  <2>4. QED
    BY <2>1, <2>2, <2>3 DEF ChunkingTypeOK
<1>2. Progress /\ SizeCalculated
  BY DEF SendInit, Progress, SizeCalculated
<1>3. QED
  BY <1>1, <1>2 DEF ChunkingInv

LEMMA ChunkingStepInv ==
  ASSUME ChunkingInv, [SendNext]_sendVars
  PROVE  ChunkingInv'
<1> USE DEF ChunkingInv
<1>1. CASE CalculateChunkSize
  <2>1. CASE Budget > ChunkOverhead + ChunkHeaderSize /\ stage' = "plan"
    <3>1. ChunkSize(Budget) \in Nat
      BY <2>1, BudgetBounds, ChunkingAssumption DEF ChunkSize
    <3>2. size' = ChunkSize(Budget) /\ calculated' = TRUE
      BY <1>1, <2>1 DEF CalculateChunkSize
    <3>3. ChunkingTypeOK' /\ Progress'
      BY <1>1, <2>1, <3>1, <3>2 DEF CalculateChunkSize, ChunkingTypeOK, Progress
    <3>4. Budget' = Budget
      BY <1>1 DEF CalculateChunkSize, Budget, Candidates, VisibleLimits
    <3>5. SizeCalculated'
      BY <2>1, <3>2, <3>4 DEF SizeCalculated, ChunkSize
    <3>6. QED
      BY <3>3, <3>5
  <2>2. CASE stage' = "failed" /\ UNCHANGED <<size, calculated>>
    BY <1>1, <2>2 DEF CalculateChunkSize, ChunkingTypeOK, Progress, SizeCalculated
  <2>3. QED
    BY <1>1, <2>1, <2>2 DEF CalculateChunkSize
<1>2. ASSUME NEW s \in GivenSizes, GiveChunkSize(s)
      PROVE  ChunkingInv'
  BY <1>2, ChunkingAssumption
  DEF GiveChunkSize, ChunkingTypeOK, Progress, SizeCalculated
<1>3. CASE UNCHANGED <<limits, len, size, calculated>> /\ stage # "size" /\ stage' # "size"
  <2>1. Budget' = Budget
    BY <1>3 DEF Budget, Candidates, VisibleLimits
  <2>2. SizeCalculated'
    BY <1>3, <2>1 DEF SizeCalculated, ChunkSize
  <2>3. CASE Plan
    <3>1. UNCHANGED num /\ stage = "plan" /\ sent = <<>> /\ num = 0
      BY <2>3 DEF Plan, Progress
    <3>2. CASE stage' = "failed" /\ UNCHANGED sent
      BY <1>3, <2>2, <3>1, <3>2 DEF ChunkingTypeOK, Progress
    <3>3. CASE /\ PayloadSize > 0
               /\ FitsWhole(Announced, U32(len))
               /\ sent' = Append(sent, WholeMessage) /\ stage' = "done"
      <4>1. WholeMessage \in Message
        BY <3>3, PlanNumbers DEF WholeMessage, Message
      <4>2. sent' = <<WholeMessage>> /\ WholeMessage' = WholeMessage
        BY <1>3, <3>1, <3>3 DEF WholeMessage
      <4>3. WholeSent'
        BY <1>3, <3>3, <4>2, PlanStays DEF WholeSent
      <4>4. ChunkingTypeOK'
        BY <1>3, <3>1, <3>3, <4>1, <4>2 DEF ChunkingTypeOK
      <4>5. QED
        BY <2>2, <3>3, <4>3, <4>4 DEF Progress
    <3>4. CASE /\ PayloadSize > 0
               /\ ~ FitsWhole(Announced, U32(len))
               /\ sent' = Append(sent, StreamHeader(Announced)) /\ stage' = "chunks"
      <4>1. Planned /\ Announced \in Nat /\ WholeChunks \in Nat
        BY <3>4, PlanNumbers, PlannedIsTwo DEF Planned
      <4>2. StreamHeader(Announced) \in Message
        BY <4>1 DEF StreamHeader, Message
      <4>3. sent' = <<StreamHeader(Announced)>> /\ Len(sent') = 1
        BY <3>1, <3>4
      <4>4. PrefixSent'
        BY <1>3, <4>1, <4>3, PlanStays DEF PrefixSent, StreamHeader
      <4>5. ChunkingTypeOK'
        BY <1>3, <3>1, <3>4, <4>2, <4>3 DEF ChunkingTypeOK
      <4>6. WholeChunks' \in Nat
        BY <1>3, <4>1, PlanStays
      <4>7. QED
        BY <2>2, <3>1, <3>4, <4>3, <4>4, <4>5, <4>6 DEF Progress
    <3>5. QED
      BY <2>3, <3>2, <3>3, <3>4 DEF Plan, Send, Announced
  <2>4. CASE stage = "chunks" /\ UNCHANGED sent /\ stage' = "failed" /\ num' \in Nat
             /\ Len(sent) <= Announced
    BY <1>3, <2>2, <2>4, PrefixStays, PlanStays DEF ChunkingTypeOK, Progress
  <2>5. CASE SendChunk
    <3>1. /\ PrefixSent /\ Len(sent) = num + 1 /\ num < WholeChunks /\ stage = "chunks"
          /\ num \in Nat /\ num' = num + 1
      BY <2>5 DEF SendChunk, Progress, ChunkingTypeOK
    <3>2. PayloadSize > 0 /\ WholeChunks \in Nat /\ Announced \in {WholeChunks, WholeChunks + 1}
      BY <3>1, PlanNumbers DEF PrefixSent, Planned
    <3>3. Len(sent) <= Announced
      BY <3>1, <3>2
    <3>4. CASE /\ sent' = Append(sent, ChunkOf(num, num * PayloadSize, (num + 1) * PayloadSize))
               /\ stage' = "chunks"
      <4>1. LayOut(num) = ChunkOf(num, num * PayloadSize, (num + 1) * PayloadSize)
        BY <3>1 DEF LayOut
      <4>2. sent' = Append(sent, LayOut(Len(sent) - 1))
        BY <3>1, <3>4, <4>1
      <4>3. PrefixSent' /\ Len(sent') = num' + 1
        BY <1>3, <3>1, <3>3, <4>2, PrefixGrows
      <4>4. num' <= WholeChunks'
        BY <1>3, <3>1, <3>2, PlanStays
      <4>5. ChunkingTypeOK'
        BY <1>3, <3>1, <3>2, <3>4, <4>1, LayOutTyped DEF ChunkingTypeOK
      <4>6. QED
        BY <2>2, <3>4, <4>3, <4>4, <4>5 DEF Progress
    <3>5. QED
      BY <2>4, <2>5, <3>1, <3>3, <3>4 DEF SendChunk, Send
  <2>6. CASE SendRemainder
    <3>1. /\ PrefixSent /\ Len(sent) = num + 1 /\ num = WholeChunks /\ stage = "chunks"
          /\ num \in Nat /\ num' = num
      BY <2>6 DEF SendRemainder, Progress, ChunkingTypeOK
    <3>2. PayloadSize > 0 /\ WholeChunks \in Nat /\ Remainder \in Nat
      BY <3>1, PlanNumbers DEF PrefixSent, Planned
    <3>3. CASE Remainder = 0 /\ stage' = "done" /\ UNCHANGED sent
      <4>1. Announced = WholeChunks
        BY <3>3 DEF Announced, TotalChunks
      <4>2. PrefixSent' /\ Len(sent') = Announced' + 1
        BY <1>3, <3>1, <3>3, <4>1, PrefixStays, PlanStays
      <4>3. QED
        BY <1>3, <2>2, <3>1, <3>3, <4>2 DEF Progress, ChunkingTypeOK
    <3>4. CASE Remainder > 0
      <4>1. Announced = WholeChunks + 1
        BY <3>4 DEF Announced, TotalChunks
      <4>2. CASE sent' = Append(sent, ChunkOf(num, num * PayloadSize, len)) /\ stage' = "done"
        <5>1. LayOut(num) = ChunkOf(num, num * PayloadSize, len)
          BY <3>1, <3>2 DEF LayOut
        <5>2. sent' = Append(sent, LayOut(Len(sent) - 1))
          BY <3>1, <4>2, <5>1
        <5>3. PrefixSent' /\ Len(sent') = Announced' + 1
          BY <1>3, <3>1, <3>2, <4>1, <5>2, PrefixGrows, PlanStays
        <5>4. ChunkingTypeOK'
          BY <1>3, <3>1, <3>2, <4>2, <5>1, LayOutTyped DEF ChunkingTypeOK
        <5>5. QED
          BY <2>2, <4>2, <5>3, <5>4 DEF Progress
      <4>3. QED
        BY <2>4, <2>6, <3>1, <3>2, <3>4, <4>1, <4>2 DEF SendRemainder, Send
    <3>5. QED
      BY <2>6, <3>2, <3>3, <3>4 DEF SendRemainder
  <2>7. CASE UNCHANGED sendVars
    BY <1>3, <2>2, <2>7, PrefixStays, PlanStays
    DEF sendVars, ChunkingTypeOK, Progress, WholeSent, WholeMessage
  <2>8. QED
    BY <1>3, <2>3, <2>5, <2>6, <2>7 DEF SendNext, CalculateChunkSize, GiveChunkSize
<1>4. CASE UNCHANGED sendVars /\ stage = "size"
  BY <1>4 DEF sendVars, ChunkingTypeOK, Progress, SizeCalculated
<1>5. QED
  BY <1>1, <1>2, <1>3, <1>4
  DEF SendNext, sendVars, Plan, SendChunk, SendRemainder, Send

LEMMA ChunkingInvariant == SendSpec => []ChunkingInv
BY ChunkingInitInv, ChunkingStepInv, PTL DEF SendSpec
-----------------------------------------------------------------------------
\* The types of the state, on which the rest is built.
THEOREM ChunkingTypeCorrect == SendSpec => []ChunkingTypeOK
BY ChunkingInvariant, PTL DEF ChunkingInv

\* Every stream that send_chunked announces has two chunks at least.
THEOREM TwoChunks == SendSpec => []StreamsHaveTwoChunks
<1>1. ASSUME ChunkingInv
      PROVE  StreamsHaveTwoChunks
  <2>1. sent = <<>> \/ WholeSent \/ PrefixSent
    BY <1>1 DEF ChunkingInv, ChunkingTypeOK, Progress
  <2>2. CASE sent = <<>>
    BY <2>2 DEF StreamsHaveTwoChunks
  <2>3. CASE WholeSent
    BY <2>3 DEF WholeSent, WholeMessage, StreamsHaveTwoChunks
  <2>4. CASE PrefixSent
    <3>1. sent \in Seq(Message) /\ Planned
      BY <1>1, <2>4 DEF ChunkingInv, ChunkingTypeOK, PrefixSent
    <3>2. ASSUME NEW i \in 2 .. Len(sent)
          PROVE  sent[i].kind = "chunk"
      <4>1. sent[i] = LayOut(i - 2)
        BY <2>4 DEF PrefixSent
      <4>2. QED
        BY <4>1 DEF LayOut, ChunkOf
    <3>3. sent[1].num >= 2
      BY <1>1, <2>4, <3>1, PlannedIsTwo DEF ChunkingInv, PrefixSent, StreamHeader
    <3>4. QED
      BY <3>1, <3>2, <3>3 DEF StreamsHaveTwoChunks
  <2>5. QED
    BY <2>1, <2>2, <2>3, <2>4
<1>2. QED
  BY <1>1, ChunkingInvariant, PTL
-----------------------------------------------------------------------------
\* The bytes of the chunks: chunk k starts at k payloads; the last one ends where
\* the content does.
LEMMA ChunkBytes ==
  ASSUME ChunkingTypeOK, Planned, len < Word, NEW k \in Nat, k < Announced
  PROVE  /\ LayOut(k) \in Message
         /\ LayOut(k).kind = "chunk"
         /\ LayOut(k).num = k
         /\ LayOut(k).lo = k * PayloadSize
         /\ k + 1 < Announced => LayOut(k).hi = (k + 1) * PayloadSize
         /\ k + 1 = Announced => LayOut(k).hi = len
         /\ LayOut(k).lo < LayOut(k).hi
         /\ LayOut(k).hi - LayOut(k).lo <= PayloadSize
<1>1. /\ PayloadSize \in Nat /\ PayloadSize > 0 /\ WholeChunks \in Nat /\ len \in Nat
      /\ Remainder \in Nat /\ Remainder < PayloadSize
      /\ len = WholeChunks * PayloadSize + Remainder
  BY PlanNumbers DEF Planned
<1>2. /\ k * PayloadSize \in Nat
      /\ (k + 1) * PayloadSize = k * PayloadSize + PayloadSize
  BY <1>1, NextMultiple
<1>3. /\ LayOut(k) \in Message
      /\ LayOut(k).kind = "chunk"
      /\ LayOut(k).num = k
      /\ LayOut(k).lo = k * PayloadSize
  BY <1>1, LayOutTyped DEF LayOut, ChunkOf
<1>4. LayOut(k).hi = IF k < WholeChunks THEN (k + 1) * PayloadSize ELSE len
  BY DEF LayOut, ChunkOf
<1>5. CASE k < WholeChunks
  <2>1. LayOut(k).hi = k * PayloadSize + PayloadSize
    BY <1>2, <1>4, <1>5
  <2>2. k + 1 = Announced => LayOut(k).hi = len
    <3>1. ASSUME k + 1 = Announced
          PROVE  WholeChunks = k + 1 /\ Remainder = 0
      BY <1>1, <1>5, <3>1 DEF Announced, TotalChunks
    <3>2. QED
      BY <1>1, <1>2, <2>1, <3>1
  <2>3. QED
    BY <1>1, <1>2, <1>3, <2>1, <2>2
<1>6. CASE ~ (k < WholeChunks)
  <2>1. k = WholeChunks /\ Remainder > 0 /\ Announced = k + 1
    BY <1>1, <1>6 DEF Announced, TotalChunks
  <2>2. LayOut(k).hi = len /\ len = k * PayloadSize + Remainder
    BY <1>1, <1>4, <1>6, <2>1
  <2>3. QED
    BY <1>1, <1>2, <1>3, <2>1, <2>2
<1>7. QED
  BY <1>5, <1>6

LEMMA PrefixContiguous ==
  ASSUME ChunkingTypeOK, PrefixSent, len < Word
  PROVE  Contiguous
<1>1. sent \in Seq(Message) /\ Planned /\ Announced \in Nat /\ PayloadSize \in Nat
  BY PlannedIsTwo, PlanNumbers DEF ChunkingTypeOK, PrefixSent, Planned
<1> SUFFICES ASSUME NEW i \in 2 .. Len(sent)
             PROVE  /\ sent[i].kind = "chunk"
                    /\ sent[i].num = i - 2
                    /\ sent[i].lo = (IF i = 2 THEN 0 ELSE sent[i - 1].hi)
                    /\ sent[i].lo < sent[i].hi
  BY DEF Contiguous
<1>2. /\ sent[i] = LayOut(i - 2)
      /\ i - 2 \in Nat /\ i - 2 < Announced
  BY <1>1 DEF PrefixSent
<1>3. CASE i = 2
  <2>1. 0 * PayloadSize = 0
    BY <1>1
  <2>2. QED
    BY <1>1, <1>2, <1>3, <2>1, ChunkBytes
<1>4. CASE i # 2
  <2>1. i - 1 \in 2 .. Len(sent)
    BY <1>1, <1>4
  <2>2. sent[i - 1] = LayOut((i - 1) - 2)
    BY <2>1 DEF PrefixSent
  <2>3. (i - 1) - 2 \in Nat /\ ((i - 1) - 2) + 1 = i - 2
    BY <1>4
  <2>4. sent[i - 1].hi = (i - 2) * PayloadSize
    BY <1>1, <1>2, <2>2, <2>3, ChunkBytes
  <2>5. QED
    BY <1>1, <1>2, <1>4, <2>4, ChunkBytes
<1>5. QED
  BY <1>3, <1>4

\* Whatever the length of a message is, as long as it fits a u32: a call that
\* succeeds has sent all of the content, and one that fails never all of a stream.
THEOREM AllOrNotComplete == SendSpec => []AllOrIncomplete
<1>1. ASSUME ChunkingInv
      PROVE  AllOrIncomplete
  <2> USE <1>1 DEF ChunkingInv
  <2> SUFFICES ASSUME len < Word
               PROVE  /\ Contiguous
                      /\ stage = "done" =>
                           \/ sent = <<WholeMessage>>
                           \/ /\ sent # <<>>
                              /\ sent[1] = StreamHeader(Len(sent) - 1)
                              /\ sent[Len(sent)].hi = len
                      /\ stage = "failed" /\ sent # <<>> => Len(sent) <= sent[1].num
    BY DEF AllOrIncomplete
  <2>1. Contiguous
    <3>1. sent = <<>> \/ WholeSent \/ PrefixSent
      BY DEF ChunkingTypeOK, Progress
    <3>2. CASE sent = <<>> \/ WholeSent
      BY <3>2 DEF WholeSent, Contiguous
    <3>3. QED
      BY <3>1, <3>2, PrefixContiguous
  <2>2. ASSUME PrefixSent, Len(sent) = Announced + 1
        PROVE  /\ sent # <<>>
               /\ sent[1] = StreamHeader(Len(sent) - 1)
               /\ sent[Len(sent)].hi = len
    <3>1. Announced \in Nat /\ Announced >= 2 /\ Planned
      BY <2>2, PlannedIsTwo DEF PrefixSent
    <3>2. sent[Len(sent)] = LayOut(Announced - 1) /\ (Announced - 1) + 1 = Announced /\ Announced - 1 \in Nat
      BY <2>2, <3>1 DEF PrefixSent
    <3>3. LayOut(Announced - 1).hi = len
      BY <3>1, <3>2, ChunkBytes
    <3>4. QED
      BY <2>2, <3>1, <3>2, <3>3 DEF PrefixSent
  <2>3. ASSUME PrefixSent, Len(sent) <= Announced
        PROVE  Len(sent) <= sent[1].num
    BY <2>3 DEF PrefixSent, StreamHeader
  <2>4. QED
    BY <2>1, <2>2, <2>3 DEF Progress, WholeSent
<1>2. QED
  BY <1>1, ChunkingInvariant, PTL
-----------------------------------------------------------------------------
\* The budget of a chunk is at most each of the limits, if the node shows them.
LEMMA BudgetWithinLimits ==
  ASSUME ChunkingTypeOK, PoliciesVisible, NEW limit \in limits, limit > 0
  PROVE  limit \in Int /\ Budget <= limit
<1>1. limit \in Int /\ Word \in Nat /\ Word > 0 /\ DefaultChunkSize < Word
      /\ DefaultChunkSize \in Nat
  BY ChunkingAssumption DEF ChunkingTypeOK
<1>2. limit \in Nat
  BY <1>1
<1>3. /\ U32(limit) \in Nat /\ limit \div Word \in Nat
      /\ limit = Word * (limit \div Word) + U32(limit)
  BY <1>1, <1>2, Division DEF U32
<1>4. CASE U32(limit) # 0
  <2>1. U32(limit) \in Candidates
    BY <1>4 DEF Candidates, VisibleLimits
  <2>2. QED
    BY <1>1, <1>3, <2>1, BudgetBounds
<1>5. CASE U32(limit) = 0
  <2>1. limit \div Word # 0
    BY <1>1, <1>2, <1>3, <1>5
  <2>2. Word <= limit
    BY <1>1, <1>2, <1>3, <2>1
  <2>3. Budget <= DefaultChunkSize
    BY BudgetBounds DEF Candidates
  <2>4. QED
    BY <1>1, <2>2, <2>3, BudgetBounds
<1>6. QED
  BY <1>4, <1>5

\* A node that shows its policies sends nothing larger than its transports take.
THEOREM Fits == PoliciesVisible => (SendSpec => []FitsTransport)
<1> SUFFICES ASSUME PoliciesVisible PROVE SendSpec => []FitsTransport
  OBVIOUS
<1>1. ASSUME ChunkingInv
      PROVE  FitsTransport
  <2> USE <1>1 DEF ChunkingInv
  <2> SUFFICES ASSUME len < Word, calculated, NEW i \in 1 .. Len(sent),
                      NEW limit \in limits, limit > 0
               PROVE  ContentSize(sent[i]) + ChunkOverhead <= limit
    BY DEF FitsTransport
  <2>1. size + ChunkOverhead <= limit /\ size \in Nat /\ limit \in Int
    BY BudgetWithinLimits, BudgetBounds, ChunkingAssumption
    DEF SizeCalculated, ChunkSize, ChunkingTypeOK
  <2>2. ContentSize(sent[i]) \in Int /\ ContentSize(sent[i]) <= size
    <3>1. WholeSent \/ PrefixSent
      BY DEF ChunkingTypeOK, Progress
    <3>2. CASE WholeSent
      <4>1. PayloadSize > 0 /\ U32(len) <= PayloadSize /\ sent[i] = WholeMessage
        BY <3>2 DEF WholeSent, FitsWhole
      <4>2. U32(len) = len /\ len \in Nat
        BY <4>1, PlanNumbers
      <4>3. QED
        BY <2>1, <4>1, <4>2, ChunkingAssumption DEF ContentSize, WholeMessage, PayloadSize
    <3>3. CASE PrefixSent
      <4>1. PayloadSize > 0 /\ Planned
        BY <3>3 DEF PrefixSent, Planned
      <4>2. size = PayloadSize + ChunkHeaderSize /\ ChunkHeaderSize \in Nat
        BY <2>1, <4>1, ChunkingAssumption DEF PayloadSize
      <4>3. CASE i = 1
        BY <2>1, <3>3, <4>1, <4>2, <4>3, PlanNumbers
        DEF PrefixSent, StreamHeader, ContentSize
      <4>4. CASE i # 1
        <5>1. sent[i] = LayOut(i - 2) /\ i - 2 \in Nat /\ i - 2 < Announced
          BY <3>3, <4>1, <4>4, PlannedIsTwo DEF PrefixSent
        <5>2. /\ sent[i].kind = "chunk"
              /\ sent[i].lo \in Nat /\ sent[i].hi \in Nat
              /\ sent[i].hi - sent[i].lo <= PayloadSize
          BY <4>1, <5>1, ChunkBytes DEF Message
        <5>3. ContentSize(sent[i]) = (sent[i].hi - sent[i].lo) + ChunkHeaderSize
          BY <5>2 DEF ContentSize
        <5>4. PayloadSize \in Nat
          BY <4>1, PlanNumbers
        <5>5. QED
          BY <4>2, <5>2, <5>3, <5>4
      <4>5. QED
        BY <4>3, <4>4
    <3>4. QED
      BY <3>1, <3>2, <3>3
  <2>3. QED
    BY <2>1, <2>2, ChunkingAssumption
<1>2. QED
  BY <1>1, ChunkingInvariant, PTL
-----------------------------------------------------------------------------
(***************************************************************************)
(*                              The receiver                               *)
(***************************************************************************)
\* What the parts and the keys are made of.

LEMMA PiecesOfData ==
  ASSUME NEW d \in Data
  PROVE  /\ d[1] \in Msgs
         /\ d[2] \in ChunkNums(d[1])
         /\ d = Piece(d[1], d[2])
BY DEF Data, Piece

LEMMA PieceInData ==
  ASSUME NEW m \in Msgs, NEW n \in ChunkNums(m)
  PROVE  Piece(m, n) \in Data
BY DEF Data

LEMMA SlotInSlots ==
  ASSUME NEW m \in Msgs, NEW n \in ChunkNums(m)
  PROVE  Slot(m, n) \in Slots
BY DEF Slots

LEMMA SlotsDiffer ==
  ASSUME NEW m1 \in Msgs, NEW n1 \in ChunkNums(m1),
         NEW m2 \in Msgs, NEW n2 \in ChunkNums(m2),
         Slot(m1, n1) = Slot(m2, n2)
  PROVE  m1 = m2 /\ n1 = n2
BY StreamPartsAssumption DEF Slot

LEMMA PartsInAllParts ==
  ASSUME NEW m \in Msgs
  PROVE  /\ Header(m) \in AllParts
         /\ \A n \in ChunkNums(m) : Chunk(m, n) \in AllParts
BY DEF AllParts, Parts

\* A stream with one more chunk counted is still a StreamInfo.
LEMMA MarkedStreamInfo ==
  ASSUME NEW info \in StreamInfos, NEW m \in Msgs, NEW n \in ChunkNums(m)
  PROVE  [info EXCEPT !.received = info.received \cup {n}] \in StreamInfos
BY DEF StreamInfos

LEMMA NewStreamInfo ==
  ASSUME NEW m \in Msgs
  PROVE  NewStream(m) \in StreamInfos
BY DEF StreamInfos, NewStream
-----------------------------------------------------------------------------
\* The task that works on a chunk names a message and one of its chunks.
LEMMA BusyTask ==
  ASSUME TypeOK, NEW t \in Tasks, pc[t] # "idle"
  PROVE  /\ part[t] \in Data
         /\ Msg(t) \in Msgs
         /\ part[t][2] \in ChunkNums(Msg(t))
         /\ Id(t) \in Ids
         /\ Id(t) = StreamId[Msg(t)]
<1>1. part[t] \in Data
  BY DEF TypeOK
<1>2. QED
  BY <1>1, PiecesOfData, StreamPartsAssumption DEF Msg, Id

\* The end of a check leaves the local variables well typed.
LEMMA EndCheckTypes ==
  ASSUME TypeOK, NEW t \in Tasks, pc[t] # "idle", EndCheck(t)
  PROVE  /\ pc' \in [Tasks -> Labels]
         /\ part' \in [Tasks -> Data \cup {None}]
         /\ again' \in [Tasks -> BOOLEAN]
         /\ snap' \in [Tasks -> StreamInfos \cup {None}]
         /\ idx' \in [Tasks -> Nat]
         /\ buf' \in [Tasks -> Seq(Data)]
         /\ \A u \in Tasks : part'[u] = None <=> pc'[u] = "idle"
         /\ \A u \in Tasks : snap'[u] = None <=> pc'[u] \in {"idle", "mark", "check"}
<1>1. pc' \in [Tasks -> Labels]
  BY DEF TypeOK, EndCheck, Goto, Labels
<1>2. part' \in [Tasks -> Data \cup {None}]
  BY DEF TypeOK, EndCheck
<1>3. again' \in [Tasks -> BOOLEAN]
  BY DEF TypeOK, EndCheck
<1>4. snap' \in [Tasks -> StreamInfos \cup {None}]
  BY DEF TypeOK, EndCheck
<1>5. idx' \in [Tasks -> Nat] /\ buf' \in [Tasks -> Seq(Data)]
  BY DEF TypeOK, EndCheck
<1>6. \A u \in Tasks : part'[u] = None <=> pc'[u] = "idle"
  BY DEF TypeOK, EndCheck, Goto
<1>7. \A u \in Tasks : snap'[u] = None <=> pc'[u] \in {"idle", "mark", "check"}
  BY DEF TypeOK, EndCheck, Goto
<1>8. QED
  BY <1>1, <1>2, <1>3, <1>4, <1>5, <1>6, <1>7

\* The chunk at which a task is in one of its loops.
LEMMA LoopIndex ==
  ASSUME TypeOK, Authentic, NEW t \in Tasks, pc[t] \in {"collect", "clean"}
  PROVE  /\ idx[t] \in ChunkNums(Msg(t))
         /\ Slot(Msg(t), idx[t]) \in Slots
         /\ snap[t].total = Total[Msg(t)]
         /\ Total[Msg(t)] \in Nat
<1>1. pc[t] # "idle" /\ Msg(t) \in Msgs /\ Total[Msg(t)] \in Nat
  BY BusyTask, StreamPartsAssumption
<1>2. idx[t] \in ChunkNums(Msg(t))
  BY <1>1 DEF TypeOK, Authentic, TasksAuthentic, TaskAuthentic, ChunkNums
<1>3. snap[t].total = Total[Msg(t)]
  BY DEF Authentic, TasksAuthentic, TaskAuthentic, StreamAuthentic
<1>4. QED
  BY <1>1, <1>2, <1>3, SlotInSlots
-----------------------------------------------------------------------------
LEMMA InitTypes == Init => TypeOK
BY PartsInAllParts DEF Init, TypeOK, Labels

\* A step keeps the types.  The loops need Authentic: they stop at the number of
\* chunks of the stream, so their counter never leaves the keys of the map.
LEMMA StepTypes ==
  ASSUME TypeOK, Authentic, [Next]_vars
  PROVE  TypeOK'
<1>1. ASSUME NEW m \in Msgs, HandleHeader(m)
      PROVE  TypeOK'
  <2>1. streams' \in [Ids -> StreamInfos \cup {None}]
    BY <1>1, NewStreamInfo, StreamPartsAssumption DEF HandleHeader, TypeOK
  <2>2. handled' \in [AllParts -> Nat]
    BY <1>1, PartsInAllParts DEF HandleHeader, TypeOK
  <2>3. overlap' \subseteq Msgs
    BY <1>1 DEF HandleHeader, TypeOK
  <2>4. QED
    BY <1>1, <2>1, <2>2, <2>3 DEF HandleHeader, TypeOK, local
<1>2. ASSUME NEW t \in Tasks, NEW m \in Msgs, NEW n \in ChunkNums(m),
             HandleChunk(t, m, n)
      PROVE  TypeOK'
  <2>1. chunks' \in [Slots -> Data \cup {None}]
    BY <1>2, PieceInData DEF HandleChunk, TypeOK
  <2>2. handled' \in [AllParts -> Nat]
    BY <1>2, PartsInAllParts DEF HandleChunk, TypeOK
  <2>3. overlap' \subseteq Msgs
    BY <1>2 DEF HandleChunk, TypeOK
  <2>4. /\ part' \in [Tasks -> Data \cup {None}]
        /\ pc' \in [Tasks -> Labels]
        /\ \A u \in Tasks : part'[u] = None <=> pc'[u] = "idle"
        /\ \A u \in Tasks : snap'[u] = None <=> pc'[u] \in {"idle", "mark", "check"}
    BY <1>2, PieceInData, ReassemblyAssumption
    DEF HandleChunk, TypeOK, Goto, Labels, Piece
  <2>5. QED
    BY <1>2, <2>1, <2>2, <2>3, <2>4 DEF HandleChunk, TypeOK
<1>3. ASSUME NEW t \in Tasks, MarkReceived(t)
      PROVE  TypeOK'
  <2>1. pc[t] = "mark"
    BY <1>3 DEF MarkReceived
  <2>2. streams' \in [Ids -> StreamInfos \cup {None}]
    <3> DEFINE info == [streams[Id(t)] EXCEPT
                          !.received = streams[Id(t)].received \cup {part[t][2]}]
    <3>1. CASE streams[Id(t)] # None
      <4>1. streams[Id(t)] \in StreamInfos
        BY <2>1, <3>1, BusyTask DEF TypeOK
      <4>2. info \in StreamInfos
        BY <2>1, <4>1, BusyTask, MarkedStreamInfo
      <4>3. streams' = [streams EXCEPT ![Id(t)] = info]
        BY <1>3, <3>1 DEF MarkReceived
      <4> HIDE DEF info
      <4>4. QED
        BY <4>2, <4>3 DEF TypeOK
    <3>2. CASE streams[Id(t)] = None
      BY <1>3, <3>2 DEF MarkReceived, TypeOK
    <3>3. QED
      BY <3>1, <3>2
  <2>3. again' \in [Tasks -> BOOLEAN]
    BY <1>3 DEF MarkReceived, TypeOK, Complete
  <2>4. /\ pc' \in [Tasks -> Labels]
        /\ \A u \in Tasks : part'[u] = None <=> pc'[u] = "idle"
        /\ \A u \in Tasks : snap'[u] = None <=> pc'[u] \in {"idle", "mark", "check"}
    BY <1>3 DEF MarkReceived, TypeOK, Goto, Labels
  <2>5. QED
    BY <1>3, <2>2, <2>3, <2>4 DEF MarkReceived, TypeOK
<1>4. ASSUME NEW t \in Tasks, Snapshot(t)
      PROVE  TypeOK'
  <2>1. CASE EndCheck(t)
    BY <1>4, <2>1, EndCheckTypes DEF Snapshot, TypeOK
  <2>2. CASE /\ Ready(Id(t))
             /\ snap' = [snap EXCEPT ![t] = streams[Id(t)]]
             /\ Goto(t, "collect")
             /\ UNCHANGED <<part, again, idx, buf>>
    <3>1. streams[Id(t)] \in StreamInfos
      BY <1>4, <2>2, BusyTask DEF Snapshot, Ready, TypeOK
    <3>2. QED
      BY <1>4, <2>2, <3>1, ReassemblyAssumption DEF Snapshot, TypeOK, Goto, Labels
  <2>3. QED
    BY <1>4, <2>1, <2>2 DEF Snapshot
<1>5. ASSUME NEW t \in Tasks, CollectChunk(t)
      PROVE  TypeOK'
  <2> DEFINE data == chunks[Slot(Msg(t), idx[t])]
  <2>1. CASE EndCheck(t)
    BY <1>5, <2>1, EndCheckTypes DEF CollectChunk, TypeOK
  <2>2. CASE data # None /\ ~ EndCheck(t)
    <3>1. data \in Data
      BY <1>5, <2>2, LoopIndex DEF CollectChunk, TypeOK
    <3>2. buf' \in [Tasks -> Seq(Data)]
      <4>1. Append(buf[t], data) \in Seq(Data)
        BY <3>1 DEF TypeOK
      <4>2. buf' = [buf EXCEPT ![t] = Append(buf[t], data)]
        BY <1>5, <2>2 DEF CollectChunk
      <4> HIDE DEF data
      <4>3. QED
        BY <4>1, <4>2 DEF TypeOK
    <3>3. idx' \in [Tasks -> Nat]
      BY <1>5, <2>2 DEF CollectChunk, TypeOK
    <3>4. /\ pc' \in [Tasks -> Labels]
          /\ \A u \in Tasks : pc'[u] = "idle" <=> pc[u] = "idle"
          /\ \A u \in Tasks : pc'[u] \in {"idle", "mark", "check"} <=>
                               pc[u] \in {"idle", "mark", "check"}
      BY <1>5, <2>2 DEF CollectChunk, TypeOK, Goto, Labels
    <3>5. QED
      BY <1>5, <2>2, <3>2, <3>3, <3>4 DEF CollectChunk, TypeOK
  <2>3. QED
    BY <1>5, <2>1, <2>2 DEF CollectChunk
<1>6. ASSUME NEW t \in Tasks, RemoveChunk(t)
      PROVE  TypeOK'
  <2>1. chunks' \in [Slots -> Data \cup {None}]
    BY <1>6 DEF RemoveChunk, TypeOK
  <2>2. idx' \in [Tasks -> Nat]
    BY <1>6 DEF RemoveChunk, TypeOK
  <2>3. /\ pc' \in [Tasks -> Labels]
        /\ \A u \in Tasks : pc'[u] = "idle" <=> pc[u] = "idle"
        /\ \A u \in Tasks : pc'[u] \in {"idle", "mark", "check"} <=>
                             pc[u] \in {"idle", "mark", "check"}
    BY <1>6 DEF RemoveChunk, TypeOK, Goto, Labels
  <2>4. QED
    BY <1>6, <2>1, <2>2, <2>3 DEF RemoveChunk, TypeOK
<1>7. ASSUME NEW t \in Tasks, RemoveStream(t)
      PROVE  TypeOK'
  BY <1>7 DEF RemoveStream, TypeOK, Goto, Labels
<1>8. ASSUME NEW t \in Tasks, Deliver(t)
      PROVE  TypeOK'
  <2>1. [name |-> snap[t].channel, content |-> buf[t]]
          \in [name : {Channel[m] : m \in Msgs}, content : Seq(Data)]
    BY <1>8 DEF Deliver, TypeOK, StreamInfos
  <2>2. inbox' \in Seq([name : {Channel[m] : m \in Msgs}, content : Seq(Data)])
    BY <1>8, <2>1 DEF Deliver, TypeOK
  <2>3. QED
    BY <1>8, <2>2, EndCheckTypes DEF Deliver, TypeOK
<1>9. CASE UNCHANGED vars
  BY <1>9 DEF vars, local, TypeOK
<1>10. QED
  BY <1>1, <1>2, <1>3, <1>4, <1>5, <1>6, <1>7, <1>8, <1>9 DEF Next, Step
-----------------------------------------------------------------------------
\* What has arrived stays arrived, and only the two handlers add to it.
LEMMA ArrivedGrows ==
  ASSUME TypeOK, [Next]_vars
  PROVE  Arrived \subseteq Arrived'
<1>1. ASSUME NEW m \in Msgs, HandleHeader(m)
      PROVE  Arrived \subseteq Arrived'
  BY <1>1, PartsInAllParts DEF HandleHeader, Arrived, TypeOK
<1>2. ASSUME NEW t \in Tasks, NEW m \in Msgs, NEW n \in ChunkNums(m),
             HandleChunk(t, m, n)
      PROVE  Arrived \subseteq Arrived'
  BY <1>2, PartsInAllParts DEF HandleChunk, Arrived, TypeOK
<1>3. CASE handled' = handled
  BY <1>3 DEF Arrived
<1>4. QED
  BY <1>1, <1>2, <1>3
  DEF Next, vars, Step, MarkReceived, Snapshot, CollectChunk, RemoveChunk, RemoveStream,
      Deliver

LEMMA HandledHasArrived ==
  ASSUME TypeOK
  PROVE  /\ \A m \in Msgs : HandleHeader(m) => Header(m) \in Arrived'
         /\ \A t \in Tasks, m \in Msgs : \A n \in ChunkNums(m) :
              HandleChunk(t, m, n) => Chunk(m, n) \in Arrived'
<1>1. ASSUME NEW p \in AllParts, handled' = [handled EXCEPT ![p] = @ + 1]
      PROVE  p \in Arrived'
  BY <1>1 DEF Arrived, TypeOK
<1>2. QED
  BY <1>1, PartsInAllParts DEF HandleHeader, HandleChunk

\* What is authentic stays so when more arrives.
LEMMA StreamStaysAuthentic ==
  ASSUME NEW m, NEW info, StreamAuthentic(m, info), Arrived \subseteq Arrived'
  PROVE  StreamAuthentic(m, info)'
BY DEF StreamAuthentic

LEMMA CollectedStaysInOrder ==
  ASSUME NEW m, NEW b, CollectedInOrder(m, b), Arrived \subseteq Arrived'
  PROVE  CollectedInOrder(m, b)'
BY DEF CollectedInOrder

LEMMA TaskStaysAuthentic ==
  ASSUME NEW u \in Tasks, TaskAuthentic(u), Arrived \subseteq Arrived',
         pc'[u] = pc[u], part'[u] = part[u], snap'[u] = snap[u],
         idx'[u] = idx[u], buf'[u] = buf[u]
  PROVE  TaskAuthentic(u)'
BY StreamStaysAuthentic, CollectedStaysInOrder DEF TaskAuthentic, Msg

\* A task is authentic again where its check ends: it holds nothing.
LEMMA EndCheckAuthentic ==
  ASSUME TypeOK, Authentic, NEW t \in Tasks, pc[t] # "idle", EndCheck(t),
         Arrived \subseteq Arrived'
  PROVE  \A u \in Tasks : TaskAuthentic(u)'
<1>1. TaskAuthentic(t)'
  <2>1. /\ pc'[t] = IF again[t] THEN "idle" ELSE "check"
        /\ part'[t] = IF again[t] THEN None ELSE part[t]
        /\ idx'[t] = 0 /\ buf'[t] = <<>>
    BY DEF EndCheck, Goto, TypeOK
  <2>2. Chunk(Msg(t), part[t][2]) \in Arrived'
    BY DEF Authentic, TasksAuthentic, TaskAuthentic
  <2>3. CASE again[t]
    BY <2>1, <2>3 DEF TaskAuthentic
  <2>4. CASE ~ again[t]
    BY <2>1, <2>2, <2>4 DEF TaskAuthentic, Msg
  <2>5. QED
    BY <2>3, <2>4
<1>2. ASSUME NEW u \in Tasks, u # t
      PROVE  TaskAuthentic(u)'
  BY <1>2, TaskStaysAuthentic DEF EndCheck, Goto, TypeOK, Authentic, TasksAuthentic
<1>3. QED
  BY <1>1, <1>2

LEMMA StreamsKept ==
  ASSUME StreamsAuthentic, UNCHANGED streams, Arrived \subseteq Arrived'
  PROVE  StreamsAuthentic'
BY StreamStaysAuthentic DEF StreamsAuthentic

LEMMA ChunksKept ==
  ASSUME ChunksAuthentic, UNCHANGED chunks, Arrived \subseteq Arrived'
  PROVE  ChunksAuthentic'
BY DEF ChunksAuthentic

\* The chunk a task finds under its counter is the next one of its message.
LEMMA CollectedChunk ==
  ASSUME TypeOK, Authentic, NEW t \in Tasks, pc[t] = "collect",
         chunks[Slot(Msg(t), idx[t])] # None
  PROVE  /\ chunks[Slot(Msg(t), idx[t])] = Piece(Msg(t), idx[t])
         /\ Chunk(Msg(t), idx[t]) \in Arrived
BY LoopIndex, BusyTask DEF Authentic, ChunksAuthentic
-----------------------------------------------------------------------------
LEMMA InitAuthentic == Init => Authentic
BY StreamPartsAssumption, SlotInSlots
DEF Init, Authentic, StreamsAuthentic, ChunksAuthentic, TasksAuthentic, TaskAuthentic

\* A step keeps what the maps and the tasks hold authentic.
LEMMA StepAuthentic ==
  ASSUME TypeOK, Authentic, [Next]_vars
  PROVE  Authentic'
<1> USE DEF Authentic
<1>0. Arrived \subseteq Arrived'
  BY ArrivedGrows
<1>1. ASSUME NEW m \in Msgs, HandleHeader(m)
      PROVE  Authentic'
  <2>1. StreamsAuthentic'
    <3> SUFFICES ASSUME NEW m2 \in Msgs, streams'[StreamId[m2]] # None
                 PROVE  StreamAuthentic(m2, streams[StreamId[m2]])'
      BY DEF StreamsAuthentic
    <3>1. CASE m2 = m
      <4>1. streams'[StreamId[m]] = NewStream(m)
        BY <1>1, StreamPartsAssumption DEF HandleHeader, TypeOK
      <4>2. Header(m) \in Arrived'
        BY <1>1, HandledHasArrived
      <4>3. QED
        BY <3>1, <4>1, <4>2 DEF StreamAuthentic, NewStream
    <3>2. CASE m2 # m
      <4>1. streams'[StreamId[m2]] = streams[StreamId[m2]]
        BY <1>1, <3>2, StreamPartsAssumption DEF HandleHeader, TypeOK
      <4>2. QED
        BY <1>0, <4>1, StreamStaysAuthentic DEF StreamsAuthentic
    <3>3. QED
      BY <3>1, <3>2
  <2>2. ChunksAuthentic'
    BY <1>0, <1>1, ChunksKept DEF HandleHeader
  <2>3. TasksAuthentic'
    BY <1>0, <1>1, TaskStaysAuthentic DEF HandleHeader, local, TasksAuthentic
  <2>4. QED
    BY <2>1, <2>2, <2>3
<1>2. ASSUME NEW t \in Tasks, NEW m \in Msgs, NEW n \in ChunkNums(m),
             HandleChunk(t, m, n)
      PROVE  Authentic'
  <2>1. StreamsAuthentic'
    BY <1>0, <1>2, StreamsKept DEF HandleChunk
  <2>2. ChunksAuthentic'
    <3> SUFFICES ASSUME NEW m2 \in Msgs, NEW n2 \in ChunkNums(m2),
                        chunks'[Slot(m2, n2)] # None
                 PROVE  /\ chunks'[Slot(m2, n2)] = Piece(m2, n2)
                        /\ Chunk(m2, n2) \in Arrived'
      BY DEF ChunksAuthentic
    <3>1. CASE Slot(m2, n2) = Slot(m, n)
      <4>1. m2 = m /\ n2 = n
        BY <3>1, SlotsDiffer
      <4>2. Chunk(m, n) \in Arrived'
        BY <1>2, HandledHasArrived
      <4>3. chunks'[Slot(m, n)] = Piece(m, n)
        BY <1>2, SlotInSlots DEF HandleChunk, TypeOK
      <4>4. QED
        BY <4>1, <4>2, <4>3
    <3>2. CASE Slot(m2, n2) # Slot(m, n)
      <4>1. chunks'[Slot(m2, n2)] = chunks[Slot(m2, n2)]
        BY <1>2, <3>2, SlotInSlots DEF HandleChunk, TypeOK
      <4>2. QED
        BY <1>0, <4>1 DEF ChunksAuthentic
    <3>3. QED
      BY <3>1, <3>2
  <2>3. TasksAuthentic'
    <3> SUFFICES ASSUME NEW u \in Tasks
                 PROVE  TaskAuthentic(u)'
      BY DEF TasksAuthentic
    <3>1. CASE u = t
      <4>1. pc'[t] = "mark" /\ part'[t] = <<m, n>> /\ idx'[t] = idx[t] /\ buf'[t] = buf[t]
        BY <1>2 DEF HandleChunk, Goto, TypeOK
      <4>2. idx[t] = 0 /\ buf[t] = <<>>
        BY <1>2 DEF HandleChunk, TasksAuthentic, TaskAuthentic
      <4>3. Chunk(m, n) \in Arrived'
        BY <1>2, HandledHasArrived
      <4>4. QED
        BY <3>1, <4>1, <4>2, <4>3 DEF TaskAuthentic, Msg
    <3>2. CASE u # t
      BY <1>0, <1>2, <3>2, TaskStaysAuthentic DEF HandleChunk, Goto, TypeOK, TasksAuthentic
    <3>3. QED
      BY <3>1, <3>2
  <2>4. QED
    BY <2>1, <2>2, <2>3
<1>3. ASSUME NEW t \in Tasks, MarkReceived(t)
      PROVE  Authentic'
  <2> USE <1>3
  <2>1. pc[t] = "mark" /\ Id(t) = StreamId[Msg(t)] /\ Msg(t) \in Msgs
    BY BusyTask DEF MarkReceived
  <2>2. StreamsAuthentic'
    <3>1. CASE streams[Id(t)] = None
      BY <1>0, <3>1, StreamsKept DEF MarkReceived
    <3>2. CASE streams[Id(t)] # None
      <4> DEFINE info == [streams[Id(t)] EXCEPT
                            !.received = streams[Id(t)].received \cup {part[t][2]}]
      <4>1. streams' = [streams EXCEPT ![Id(t)] = info]
        BY <3>2 DEF MarkReceived
      <4>2. streams[Id(t)] \in StreamInfos
        BY <2>1, <3>2, BusyTask DEF TypeOK
      <4>3. StreamAuthentic(Msg(t), streams[Id(t)])
        BY <2>1, <3>2 DEF StreamsAuthentic
      <4>4. part[t][2] \in ChunkNums(Msg(t)) /\ Chunk(Msg(t), part[t][2]) \in Arrived
        BY <2>1, BusyTask DEF TasksAuthentic, TaskAuthentic
      <4>5. StreamAuthentic(Msg(t), info)
        BY <4>2, <4>3, <4>4 DEF StreamAuthentic, StreamInfos
      <4> HIDE DEF info
      <4> SUFFICES ASSUME NEW m2 \in Msgs, streams'[StreamId[m2]] # None
                   PROVE  StreamAuthentic(m2, streams[StreamId[m2]])'
        BY DEF StreamsAuthentic
      <4>6. CASE m2 = Msg(t)
        <5>1. streams'[StreamId[m2]] = info
          BY <2>1, <4>1, <4>6, BusyTask DEF TypeOK
        <5>2. QED
          BY <1>0, <4>5, <4>6, <5>1, StreamStaysAuthentic
      <4>7. CASE m2 # Msg(t)
        <5>1. streams'[StreamId[m2]] = streams[StreamId[m2]]
          BY <2>1, <4>1, <4>7, StreamPartsAssumption DEF TypeOK
        <5>2. QED
          BY <1>0, <5>1, StreamStaysAuthentic DEF StreamsAuthentic
      <4>8. QED
        BY <4>6, <4>7
    <3>3. QED
      BY <3>1, <3>2
  <2>3. ChunksAuthentic'
    BY <1>0, ChunksKept DEF MarkReceived
  <2>4. TasksAuthentic'
    <3> SUFFICES ASSUME NEW u \in Tasks
                 PROVE  TaskAuthentic(u)'
      BY DEF TasksAuthentic
    <3>1. CASE u = t
      <4>1. pc'[t] = "check" /\ part'[t] = part[t] /\ idx'[t] = idx[t] /\ buf'[t] = buf[t]
        BY DEF MarkReceived, Goto, TypeOK
      <4>2. /\ idx[t] = 0 /\ buf[t] = <<>>
            /\ Chunk(Msg(t), part[t][2]) \in Arrived
        BY <2>1 DEF TasksAuthentic, TaskAuthentic
      <4>3. QED
        BY <1>0, <3>1, <4>1, <4>2 DEF TaskAuthentic, Msg
    <3>2. CASE u # t
      BY <1>0, <3>2, TaskStaysAuthentic DEF MarkReceived, Goto, TypeOK, TasksAuthentic
    <3>3. QED
      BY <3>1, <3>2
  <2>5. QED
    BY <2>2, <2>3, <2>4
<1>4. ASSUME NEW t \in Tasks, Snapshot(t)
      PROVE  Authentic'
  <2> USE <1>4
  <2>1. StreamsAuthentic' /\ ChunksAuthentic'
    BY <1>0, StreamsKept, ChunksKept DEF Snapshot
  <2>2. TasksAuthentic'
    <3>1. CASE EndCheck(t)
      BY <1>0, <3>1, EndCheckAuthentic DEF Snapshot, TasksAuthentic
    <3>2. CASE ~ EndCheck(t)
      <4>1. /\ pc[t] = "check"
            /\ Ready(Id(t))
            /\ snap' = [snap EXCEPT ![t] = streams[Id(t)]]
            /\ pc' = [pc EXCEPT ![t] = "collect"]
            /\ UNCHANGED <<part, again, idx, buf>>
        BY <3>2 DEF Snapshot, Goto
      <4>2. StreamAuthentic(Msg(t), streams[Id(t)])
        BY <4>1, BusyTask DEF Ready, StreamsAuthentic
      <4>3. idx[t] = 0 /\ buf[t] = <<>> /\ Chunk(Msg(t), part[t][2]) \in Arrived
        BY <4>1 DEF TasksAuthentic, TaskAuthentic
      <4>4. TaskAuthentic(t)'
        <5>1. /\ pc'[t] = "collect" /\ snap'[t] = streams[Id(t)]
              /\ part'[t] = part[t] /\ idx'[t] = 0 /\ buf'[t] = <<>>
          BY <4>1, <4>3 DEF TypeOK
        <5>3. Total[Msg(t)] \in Nat \ {0}
          BY <4>1, BusyTask, StreamPartsAssumption
        <5>4. Len(<<>>) = 0 /\ CollectedInOrder(Msg(t), <<>>)'
          BY DEF CollectedInOrder
        <5>5. StreamAuthentic(Msg(t), snap[t])'
          BY <1>0, <4>2, <5>1, StreamStaysAuthentic DEF Msg
        <5>6. QED
          BY <1>0, <4>3, <5>1, <5>3, <5>4, <5>5 DEF TaskAuthentic, Msg
      <4>5. ASSUME NEW u \in Tasks, u # t
            PROVE  TaskAuthentic(u)'
        BY <1>0, <4>1, <4>5, TaskStaysAuthentic DEF TypeOK, TasksAuthentic
      <4>6. QED
        BY <4>4, <4>5 DEF TasksAuthentic
    <3>3. QED
      BY <3>1, <3>2
  <2>3. QED
    BY <2>1, <2>2
<1>5. ASSUME NEW t \in Tasks, CollectChunk(t)
      PROVE  Authentic'
  <2> USE <1>5
  <2>1. StreamsAuthentic' /\ ChunksAuthentic'
    BY <1>0, StreamsKept, ChunksKept DEF CollectChunk
  <2>2. TasksAuthentic'
    <3>1. CASE EndCheck(t)
      BY <1>0, <3>1, EndCheckAuthentic DEF CollectChunk, TasksAuthentic
    <3>2. CASE ~ EndCheck(t)
      <4> DEFINE data == chunks[Slot(Msg(t), idx[t])]
                 last == idx[t] + 1 = snap[t].total
      <4>1. /\ pc[t] = "collect"
            /\ data # None
            /\ buf' = [buf EXCEPT ![t] = Append(buf[t], data)]
            /\ idx' = [idx EXCEPT ![t] = IF last THEN 0 ELSE idx[t] + 1]
            /\ pc' = [pc EXCEPT ![t] = IF last THEN "clean" ELSE "collect"]
            /\ UNCHANGED <<part, again, snap>>
        BY <3>2 DEF CollectChunk, Goto
      <4>2. data = Piece(Msg(t), idx[t]) /\ Chunk(Msg(t), idx[t]) \in Arrived
        BY <4>1, CollectedChunk
      <4>3. /\ idx[t] \in 0 .. Total[Msg(t)] - 1
            /\ snap[t].total = Total[Msg(t)]
            /\ Total[Msg(t)] \in Nat
        BY <4>1, LoopIndex DEF ChunkNums
      <4>4. /\ Len(buf[t]) = idx[t]
            /\ CollectedInOrder(Msg(t), buf[t])
            /\ StreamAuthentic(Msg(t), snap[t])
            /\ Chunk(Msg(t), part[t][2]) \in Arrived
        BY <4>1 DEF TasksAuthentic, TaskAuthentic
      <4>5. /\ pc'[t] = IF last THEN "clean" ELSE "collect"
            /\ snap'[t] = snap[t] /\ part'[t] = part[t]
            /\ idx'[t] = IF last THEN 0 ELSE idx[t] + 1
            /\ buf'[t] = Append(buf[t], data)
            /\ buf[t] \in Seq(Data)
        BY <4>1 DEF TypeOK
      <4>6. /\ Len(buf'[t]) = idx[t] + 1
            /\ CollectedInOrder(Msg(t), buf'[t])
        <5> HIDE DEF data
        <5>1. /\ Len(buf'[t]) = Len(buf[t]) + 1
              /\ \A i \in 1 .. Len(buf[t]) : buf'[t][i] = buf[t][i]
              /\ buf'[t][Len(buf[t]) + 1] = data
          BY <4>5
        <5>2. idx[t] \in Nat /\ Len(buf'[t]) = idx[t] + 1 /\ Len(buf[t]) = idx[t]
          BY <4>3, <4>4, <5>1
        <5>3. ASSUME NEW i \in 1 .. idx[t] + 1
              PROVE  buf'[t][i] = Piece(Msg(t), i - 1) /\ Chunk(Msg(t), i - 1) \in Arrived
          <6>1. CASE i = idx[t] + 1
            <7>1. i - 1 = idx[t] /\ buf'[t][i] = data
              BY <5>1, <5>2, <6>1
            <7>2. QED
              BY <4>2, <7>1
          <6>2. CASE i # idx[t] + 1
            <7>1. i \in 1 .. Len(buf[t])
              BY <5>2, <6>2
            <7>2. buf[t][i] = Piece(Msg(t), i - 1) /\ Chunk(Msg(t), i - 1) \in Arrived
              BY <4>4, <7>1 DEF CollectedInOrder
            <7>3. QED
              BY <5>1, <7>1, <7>2
          <6>3. QED
            BY <6>1, <6>2
        <5>4. QED
          BY <5>2, <5>3 DEF CollectedInOrder
      <4>7. StreamAuthentic(Msg(t), snap[t])' /\ CollectedInOrder(Msg(t), buf[t])'
        BY <1>0, <4>4, <4>5, <4>6, StreamStaysAuthentic, CollectedStaysInOrder DEF Msg
      <4>8. TaskAuthentic(t)'
        <5>1. CASE last
          BY <1>0, <4>3, <4>4, <4>5, <4>6, <4>7, <5>1 DEF TaskAuthentic, Msg
        <5>2. CASE ~ last
          BY <1>0, <4>3, <4>4, <4>5, <4>6, <4>7, <5>2 DEF TaskAuthentic, Msg
        <5>3. QED
          BY <5>1, <5>2
      <4>9. ASSUME NEW u \in Tasks, u # t
            PROVE  TaskAuthentic(u)'
        BY <1>0, <4>1, <4>9, TaskStaysAuthentic DEF TypeOK, TasksAuthentic
      <4>10. QED
        BY <4>8, <4>9 DEF TasksAuthentic
    <3>3. QED
      BY <3>1, <3>2
  <2>3. QED
    BY <2>1, <2>2
<1>6. ASSUME NEW t \in Tasks, RemoveChunk(t)
      PROVE  Authentic'
  <2> USE <1>6
  <2>1. StreamsAuthentic'
    BY <1>0, StreamsKept DEF RemoveChunk
  <2>2. ChunksAuthentic'
    BY <1>0, SlotInSlots DEF RemoveChunk, ChunksAuthentic, TypeOK
  <2>3. TasksAuthentic'
    <3>1. TaskAuthentic(t)'
      <4>1. /\ idx[t] \in 0 .. Total[Msg(t)] - 1
            /\ snap[t].total = Total[Msg(t)]
            /\ Total[Msg(t)] \in Nat
        BY LoopIndex DEF RemoveChunk, ChunkNums
      <4>2. /\ StreamAuthentic(Msg(t), snap[t])
            /\ CollectedInOrder(Msg(t), buf[t])
            /\ Len(buf[t]) = Total[Msg(t)]
            /\ Chunk(Msg(t), part[t][2]) \in Arrived
        BY DEF RemoveChunk, TasksAuthentic, TaskAuthentic
      <4>3. /\ pc'[t] = IF idx[t] + 1 = snap[t].total THEN "unlist" ELSE "clean"
            /\ idx'[t] = IF idx[t] + 1 = snap[t].total THEN 0 ELSE idx[t] + 1
            /\ part'[t] = part[t] /\ snap'[t] = snap[t] /\ buf'[t] = buf[t]
        BY DEF RemoveChunk, Goto, TypeOK
      <4>4. StreamAuthentic(Msg(t), snap[t])' /\ CollectedInOrder(Msg(t), buf[t])'
        BY <1>0, <4>2, <4>3, StreamStaysAuthentic, CollectedStaysInOrder DEF Msg
      <4>5. QED
        BY <1>0, <4>1, <4>2, <4>3, <4>4 DEF TaskAuthentic, Msg
    <3>2. ASSUME NEW u \in Tasks, u # t
          PROVE  TaskAuthentic(u)'
      BY <1>0, <3>2, TaskStaysAuthentic DEF RemoveChunk, Goto, TypeOK, TasksAuthentic
    <3>3. QED
      BY <3>1, <3>2 DEF TasksAuthentic
  <2>4. QED
    BY <2>1, <2>2, <2>3
<1>7. ASSUME NEW t \in Tasks, RemoveStream(t)
      PROVE  Authentic'
  <2> USE <1>7
  <2>1. StreamsAuthentic'
    <3> SUFFICES ASSUME NEW m2 \in Msgs, streams'[StreamId[m2]] # None
                 PROVE  StreamAuthentic(m2, streams[StreamId[m2]])'
      BY DEF StreamsAuthentic
    <3>1. streams'[StreamId[m2]] = streams[StreamId[m2]]
      BY StreamPartsAssumption DEF RemoveStream, TypeOK
    <3>2. QED
      BY <1>0, <3>1, StreamStaysAuthentic DEF StreamsAuthentic
  <2>2. ChunksAuthentic'
    BY <1>0, ChunksKept DEF RemoveStream
  <2>3. TasksAuthentic'
    <3>1. TaskAuthentic(t)'
      <4>1. pc[t] = "unlist" /\ TaskAuthentic(t)
        BY DEF RemoveStream, TasksAuthentic
      <4>2. /\ pc'[t] = "deliver" /\ part'[t] = part[t] /\ snap'[t] = snap[t]
            /\ idx'[t] = idx[t] /\ buf'[t] = buf[t]
        BY DEF RemoveStream, Goto, TypeOK
      <4>3. StreamAuthentic(Msg(t), snap[t])' /\ CollectedInOrder(Msg(t), buf[t])'
        BY <1>0, <4>1, <4>2, StreamStaysAuthentic, CollectedStaysInOrder
        DEF TaskAuthentic, Msg
      <4>4. QED
        BY <1>0, <4>1, <4>2, <4>3 DEF TaskAuthentic, Msg
    <3>2. ASSUME NEW u \in Tasks, u # t
          PROVE  TaskAuthentic(u)'
      BY <1>0, <3>2, TaskStaysAuthentic DEF RemoveStream, Goto, TypeOK, TasksAuthentic
    <3>3. QED
      BY <3>1, <3>2 DEF TasksAuthentic
  <2>4. QED
    BY <2>1, <2>2, <2>3
<1>8. ASSUME NEW t \in Tasks, Deliver(t)
      PROVE  Authentic'
  <2>1. StreamsAuthentic' /\ ChunksAuthentic'
    BY <1>0, <1>8, StreamsKept, ChunksKept DEF Deliver
  <2>2. TasksAuthentic'
    BY <1>0, <1>8, EndCheckAuthentic DEF Deliver, TasksAuthentic
  <2>3. QED
    BY <2>1, <2>2
<1>9. CASE UNCHANGED vars
  <2>1. StreamsAuthentic' /\ ChunksAuthentic'
    BY <1>0, <1>9, StreamsKept, ChunksKept DEF vars
  <2>2. TasksAuthentic'
    BY <1>0, <1>9, TaskStaysAuthentic DEF vars, local, TasksAuthentic
  <2>3. QED
    BY <2>1, <2>2
<1>10. QED
  BY <1>1, <1>2, <1>3, <1>4, <1>5, <1>6, <1>7, <1>8, <1>9 DEF Next, Step
-----------------------------------------------------------------------------
LEMMA Invariant == Spec => [](TypeOK /\ Authentic)
<1>1. Init => TypeOK /\ Authentic
  BY InitTypes, InitAuthentic
<1>2. TypeOK /\ Authentic /\ [Next]_vars => TypeOK' /\ Authentic'
  BY StepTypes, StepAuthentic
<1>3. QED
  BY <1>1, <1>2, PTL DEF Spec

\* Type correctness of the maps of MemoryNode, of its in channel and of the local
\* variables of the tasks, whatever the schedule and the network do.
THEOREM TypeCorrect == Spec => []TypeOK
BY Invariant, PTL

\* The two maps and the tasks only ever hold what belongs to the message in whose
\* name they hold it, and nothing that has not arrived.
THEOREM AuthenticHolds == Spec => []Authentic
BY Invariant, PTL
-----------------------------------------------------------------------------
\* A task about to deliver has the content of its message, and all of it came in.
LEMMA DeliversWhole ==
  ASSUME TypeOK, Authentic, NEW t \in Tasks, pc[t] = "deliver"
  PROVE  /\ [name |-> snap[t].channel, content |-> buf[t]] = Whole(Msg(t))
         /\ Parts(Msg(t)) \subseteq Arrived
         /\ Msg(t) \in Msgs
<1>1. /\ StreamAuthentic(Msg(t), snap[t])
      /\ Len(buf[t]) = Total[Msg(t)]
      /\ CollectedInOrder(Msg(t), buf[t])
  BY DEF Authentic, TasksAuthentic, TaskAuthentic
<1>2. Msg(t) \in Msgs /\ Total[Msg(t)] \in Nat
  BY BusyTask, StreamPartsAssumption
<1>3. buf[t] = Content(Msg(t))
  <2>1. buf[t] \in Seq(Data)
    BY DEF TypeOK
  <2>2. /\ DOMAIN buf[t] = 1 .. Total[Msg(t)]
        /\ buf[t] = [i \in DOMAIN buf[t] |-> buf[t][i]]
    BY <1>1, <1>2, <2>1
  <2>3. \A i \in 1 .. Total[Msg(t)] : buf[t][i] = Piece(Msg(t), i - 1)
    BY <1>1 DEF CollectedInOrder
  <2>4. QED
    BY <2>2, <2>3 DEF Content
<1>4. \A n \in ChunkNums(Msg(t)) : Chunk(Msg(t), n) \in Arrived
  <2> SUFFICES ASSUME NEW n \in ChunkNums(Msg(t))
               PROVE  Chunk(Msg(t), n) \in Arrived
    OBVIOUS
  <2>1. n + 1 \in 1 .. Len(buf[t]) /\ (n + 1) - 1 = n
    BY <1>1, <1>2 DEF ChunkNums
  <2>2. QED
    BY <1>1, <2>1 DEF CollectedInOrder
<1>5. QED
  BY <1>1, <1>2, <1>3, <1>4 DEF StreamAuthentic, Whole, Parts

LEMMA HandlingArrives ==
  ASSUME TypeOK, NEW p \in AllParts, handled' = [handled EXCEPT ![p] = @ + 1]
  PROVE  Arrived' = Arrived \cup {p}
BY DEF Arrived, TypeOK

\* Reassembly implements StreamDelivery: whatever tasks and network do, the in
\* channel gets whole messages only, each after all of its parts.
THEOREM ImplementsStreamDelivery == Spec => WholeMessagesOnly
<1>1. Init => D!Init
  BY DEF Init, D!Init, Arrived
<1>2. TypeOK /\ Authentic /\ [Next]_vars => [D!Next]_(D!vars)
  <2> SUFFICES ASSUME TypeOK, Authentic, [Next]_vars
               PROVE  D!Next \/ UNCHANGED D!vars
    OBVIOUS
  <2>1. ASSUME NEW m \in Msgs, HandleHeader(m)
        PROVE  D!Next
    <3>1. Header(m) \in AllParts /\ Arrived' = Arrived \cup {Header(m)}
      BY <2>1, PartsInAllParts, HandlingArrives DEF HandleHeader
    <3>2. D!Arrive(Header(m))
      BY <2>1, <3>1 DEF HandleHeader, D!Arrive
    <3>3. QED
      BY <3>1, <3>2
      DEF D!Next, D!AllParts, D!Parts, D!Header, D!Chunk, D!ChunkNums,
          AllParts, Parts, Header, Chunk, ChunkNums
  <2>2. ASSUME NEW t \in Tasks, NEW m \in Msgs, NEW n \in ChunkNums(m),
               HandleChunk(t, m, n)
        PROVE  D!Next
    <3>1. Chunk(m, n) \in AllParts /\ Arrived' = Arrived \cup {Chunk(m, n)}
      BY <2>2, PartsInAllParts, HandlingArrives DEF HandleChunk
    <3>2. D!Arrive(Chunk(m, n))
      BY <2>2, <3>1 DEF HandleChunk, D!Arrive
    <3>3. QED
      BY <3>1, <3>2
      DEF D!Next, D!AllParts, D!Parts, D!Header, D!Chunk, D!ChunkNums,
          AllParts, Parts, Header, Chunk, ChunkNums
  <2>3. ASSUME NEW t \in Tasks, Deliver(t)
        PROVE  D!Next
    <3>1. /\ inbox' = Append(inbox, Whole(Msg(t)))
          /\ Parts(Msg(t)) \subseteq Arrived
          /\ Msg(t) \in Msgs
      BY <2>3, DeliversWhole DEF Deliver
    <3>2. Arrived' = Arrived
      BY <2>3 DEF Deliver, Arrived
    <3>3. D!Deliver(Msg(t))
      BY <3>1, <3>2
      DEF D!Deliver, D!Parts, D!Header, D!Chunk, D!ChunkNums, D!Whole, D!Content, D!Piece,
          Parts, Header, Chunk, ChunkNums, Whole, Content, Piece
    <3>4. QED
      BY <3>1, <3>3 DEF D!Next
  <2>4. CASE UNCHANGED <<handled, inbox>>
    BY <2>4 DEF D!vars, Arrived
  <2>5. QED
    BY <2>1, <2>2, <2>3, <2>4
    DEF Next, Step, vars, MarkReceived, Snapshot, CollectChunk, RemoveChunk, RemoveStream
<1>3. QED
  BY <1>1, <1>2, Invariant, PTL DEF Spec, D!Spec, WholeMessagesOnly
-----------------------------------------------------------------------------
\* The network that send_chunked's order asks for: a stream's header comes before
\* its chunks, and is handled once.
OrderedOnce == HeaderFirst /\ \A m \in Msgs : MaxHeaders[m] <= 1

\* A complete stream has counted each of its chunks.
LEMMA CompleteCountsAll ==
  ASSUME NEW m \in Msgs, NEW info, StreamAuthentic(m, info)
  PROVE  Complete(info) <=> info.received = ChunkNums(m)
<1>1. Total[m] \in Nat \ {0, 1}
  BY StreamPartsAssumption
<1>2. IsFiniteSet(ChunkNums(m)) /\ Cardinality(ChunkNums(m)) = Total[m]
  <2> DEFINE n == Total[m]
  <2>1. n \in Nat \ {0, 1}
    BY <1>1
  <2> HIDE DEF n
  <2>2. n - 1 \in Int /\ ~ (0 > n - 1) /\ (n - 1) - 0 + 1 = n
    BY <2>1
  <2>3. IsFiniteSet(0 .. n - 1) /\ Cardinality(0 .. n - 1) = n
    BY <2>2, FS_Interval
  <2>4. QED
    BY <2>3 DEF ChunkNums, n
<1>3. info.received \in SUBSET ChunkNums(m) /\ info.total = Total[m]
  BY DEF StreamAuthentic
<1>4. Cardinality(info.received) = Total[m] => info.received = ChunkNums(m)
  BY <1>2, <1>3, FS_Subset
<1>5. QED
  BY <1>2, <1>3, <1>4 DEF Complete

\* A stream just listed is not complete.
LEMMA NewStreamIncomplete ==
  ASSUME NEW m \in Msgs
  PROVE  ~ Complete(NewStream(m))
BY FS_EmptySet, StreamPartsAssumption DEF Complete, NewStream

\* Where nothing of a message and its tasks changes, it is kept as before.
LEMMA KeptUnchanged ==
  ASSUME NEW m \in Msgs, Kept(m),
         streams'[StreamId[m]] = streams[StreamId[m]],
         \A n \in ChunkNums(m) : /\ chunks'[Slot(m, n)] = chunks[Slot(m, n)]
                                 /\ Chunk(m, n) \in Arrived' => Chunk(m, n) \in Arrived,
         \A u \in Busy(m) : u \in Busy(m)' /\ pc'[u] = pc[u] /\ part'[u] = part[u],
         Delivered(m) => Delivered(m)'
  PROVE  Kept(m)'
<1>1. CASE Delivered(m)
  BY <1>1 DEF Kept
<1>2. CASE \E t \in Busy(m) : Holding(t)
  BY <1>2 DEF Kept, Holding
<1>3. CASE Pending(m)
  BY <1>3 DEF Kept, Pending, Ready, Checking
<1>4. QED
  BY <1>1, <1>2, <1>3 DEF Kept

\* A step of a task that works on another message.
LEMMA OthersBusy ==
  ASSUME TypeOK, NEW t \in Tasks, NEW m \in Msgs, pc[t] # "idle", Msg(t) # m,
         \A u \in Tasks \ {t} : pc'[u] = pc[u] /\ part'[u] = part[u]
  PROVE  \A u \in Busy(m) : u \in Busy(m)' /\ pc'[u] = pc[u] /\ part'[u] = part[u]
BY DEF Busy, Msg

LEMMA DeliveredStays ==
  ASSUME TypeOK, [Next]_vars, NEW m, Delivered(m)
  PROVE  Delivered(m)'
<1>1. ASSUME NEW e, inbox' = Append(inbox, e)
      PROVE  Delivered(m)'
  <2>1. inbox \in Seq([name : {Channel[k] : k \in Msgs}, content : Seq(Data)])
    BY DEF TypeOK
  <2>2. \A i \in DOMAIN inbox : i \in DOMAIN inbox' /\ inbox'[i] = inbox[i]
    BY <1>1, <2>1
  <2>3. QED
    BY <2>2 DEF Delivered
<1>2. CASE inbox' = inbox
  BY <1>2 DEF Delivered
<1>3. QED
  BY <1>1, <1>2
  DEF Next, Step, vars, HandleHeader, HandleChunk, MarkReceived, Snapshot, CollectChunk,
      RemoveChunk, RemoveStream, Deliver
-----------------------------------------------------------------------------
LEMMA InitNoSilentLoss == Init => NoSilentLoss
BY PartsInAllParts DEF Init, NoSilentLoss, HeadersBeforeChunks, CompleteSnapshots, Arrived

\* A step that takes no part from the network adds nothing to what has arrived.
LEMMA StepArrivesNothing ==
  ASSUME NEW t \in Tasks, Step(t)
  PROVE  UNCHANGED handled /\ Arrived' = Arrived
BY DEF Step, MarkReceived, Snapshot, CollectChunk, RemoveChunk, RemoveStream, Deliver, Arrived

\* A step of task t leaves the other tasks where they are.
LEMMA StepOthers ==
  ASSUME TypeOK, NEW t \in Tasks, Step(t)
  PROVE  /\ pc[t] # "idle"
         /\ \A u \in Tasks \ {t} :
              pc'[u] = pc[u] /\ part'[u] = part[u] /\ snap'[u] = snap[u]
BY DEF Step, MarkReceived, Snapshot, CollectChunk, RemoveChunk, RemoveStream, Deliver,
       EndCheck, Goto, TypeOK

LEMMA StepHeadersBeforeChunks ==
  ASSUME OrderedOnce, TypeOK, [Next]_vars, HeadersBeforeChunks
  PROVE  HeadersBeforeChunks'
<1>1. ASSUME NEW m \in Msgs, HandleHeader(m)
      PROVE  HeadersBeforeChunks'
  <2>1. Arrived' = Arrived \cup {Header(m)}
    BY <1>1, PartsInAllParts, HandlingArrives DEF HandleHeader
  <2>2. QED
    BY <2>1 DEF HeadersBeforeChunks, Header, Chunk
<1>2. ASSUME NEW t \in Tasks, NEW m \in Msgs, NEW n \in ChunkNums(m),
             HandleChunk(t, m, n)
      PROVE  HeadersBeforeChunks'
  <2>1. Arrived' = Arrived \cup {Chunk(m, n)}
    BY <1>2, PartsInAllParts, HandlingArrives DEF HandleChunk
  <2>2. Header(m) \in Arrived
    BY <1>2, PartsInAllParts DEF HandleChunk, OrderedOnce, Arrived
  <2>3. QED
    BY <2>1, <2>2 DEF HeadersBeforeChunks, Header, Chunk
<1>3. CASE Arrived' = Arrived
  BY <1>3 DEF HeadersBeforeChunks
<1>4. QED
  BY <1>1, <1>2, <1>3, StepArrivesNothing DEF Next, vars, Arrived

LEMMA StepCompleteSnapshots ==
  ASSUME TypeOK, [Next]_vars, CompleteSnapshots
  PROVE  CompleteSnapshots'
<1>1. ASSUME NEW m \in Msgs, HandleHeader(m)
      PROVE  CompleteSnapshots'
  BY <1>1 DEF HandleHeader, local, CompleteSnapshots, Complete
<1>2. ASSUME NEW t \in Tasks, NEW m \in Msgs, NEW n \in ChunkNums(m),
             HandleChunk(t, m, n)
      PROVE  CompleteSnapshots'
  BY <1>2 DEF HandleChunk, Goto, CompleteSnapshots, Complete, TypeOK
<1>3. ASSUME NEW t \in Tasks, Step(t)
      PROVE  CompleteSnapshots'
  <2>1. pc'[t] = "collect" => Complete(snap'[t])
    <3>1. CASE Snapshot(t)
      BY <3>1 DEF Snapshot, Ready, EndCheck, Goto, Complete, TypeOK
    <3>2. CASE CollectChunk(t)
      BY <3>2 DEF CollectChunk, EndCheck, Goto, Complete, TypeOK, CompleteSnapshots
    <3>3. CASE ~ Snapshot(t) /\ ~ CollectChunk(t)
      BY <1>3, <3>3
      DEF Step, MarkReceived, RemoveChunk, RemoveStream, Deliver, EndCheck, Goto, TypeOK
    <3>4. QED
      BY <3>1, <3>2, <3>3
  <2>2. QED
    BY <1>3, <2>1, StepOthers DEF CompleteSnapshots, Complete
<1>4. CASE UNCHANGED vars
  BY <1>4 DEF vars, local, CompleteSnapshots, Complete
<1>5. QED
  BY <1>1, <1>2, <1>3, <1>4 DEF Next
-----------------------------------------------------------------------------
\* The header of a message lists its stream; the message is kept from then on.
LEMMA HeaderKeeps ==
  ASSUME OrderedOnce, TypeOK, Authentic, NoSilentLoss, [Next]_vars,
         NEW k \in Msgs, HandleHeader(k), NEW m \in Msgs, Header(m) \in Arrived'
  PROVE  Kept(m)'
<1>1. /\ Arrived' = Arrived \cup {Header(k)}
      /\ Header(k) \notin Arrived
  BY PartsInAllParts, HandlingArrives, StreamPartsAssumption, ReassemblyAssumption
  DEF HandleHeader, OrderedOnce, Arrived, TypeOK
<1>2. CASE m = k
  <2>1. streams'[StreamId[m]] = NewStream(m)
    BY <1>2, StreamPartsAssumption DEF HandleHeader, TypeOK
  <2>2. NewStream(m) # None
    BY NewStreamInfo, ReassemblyAssumption
  <2>3. \A n \in ChunkNums(m) : Chunk(m, n) \notin Arrived'
    BY <1>1, <1>2 DEF NoSilentLoss, HeadersBeforeChunks, Header, Chunk
  <2>4. Pending(m)'
    BY <2>1, <2>2, <2>3, NewStreamIncomplete DEF Pending, Ready, Complete
  <2>5. QED
    BY <2>4 DEF Kept
<1>3. CASE m # k
  <2>1. Kept(m)
    BY <1>1, <1>3 DEF NoSilentLoss, Header
  <2>2. streams'[StreamId[m]] = streams[StreamId[m]]
    BY <1>3, StreamPartsAssumption DEF HandleHeader, TypeOK
  <2>3. /\ UNCHANGED <<chunks, pc, part, inbox>>
        /\ \A n \in ChunkNums(m) : Chunk(m, n) \in Arrived' => Chunk(m, n) \in Arrived
        /\ Busy(m)' = Busy(m)
    BY <1>1 DEF HandleHeader, local, Header, Chunk, Busy, Msg
  <2>4. QED
    BY <2>1, <2>2, <2>3, KeptUnchanged, DeliveredStays
<1>4. QED
  BY <1>2, <1>3

\* A task that starts on a chunk stores it, and will count it.
LEMMA ChunkKeeps ==
  ASSUME TypeOK, Authentic, NoSilentLoss, [Next]_vars,
         NEW t \in Tasks, NEW k \in Msgs, NEW n \in ChunkNums(k), HandleChunk(t, k, n),
         NEW m \in Msgs, Header(m) \in Arrived'
  PROVE  Kept(m)'
<1>1. Arrived' = Arrived \cup {Chunk(k, n)}
  BY PartsInAllParts, HandlingArrives DEF HandleChunk
<1>2. Kept(m)
  BY <1>1 DEF NoSilentLoss, Header, Chunk
<1>3. /\ UNCHANGED streams
      /\ chunks'[Slot(k, n)] = Piece(k, n)
      /\ \A s \in Slots \ {Slot(k, n)} : chunks'[s] = chunks[s]
      /\ pc'[t] = "mark" /\ part'[t] = <<k, n>>
  BY SlotInSlots DEF HandleChunk, Goto, TypeOK
<1>4. \A u \in Busy(m) : u \in Busy(m)' /\ pc'[u] = pc[u] /\ part'[u] = part[u]
  BY DEF HandleChunk, Goto, TypeOK, Busy, Msg
<1>5. CASE Delivered(m)
  BY <1>5, DeliveredStays DEF Kept
<1>6. CASE \E u \in Busy(m) : Holding(u)
  BY <1>4, <1>6 DEF Kept, Holding
<1>7. CASE Pending(m)
  <2>1. ASSUME NEW c \in ChunkNums(m), Chunk(m, c) \in Arrived'
        PROVE  /\ chunks'[Slot(m, c)] # None
               /\ \/ c \in streams'[StreamId[m]].received
                  \/ \E u \in Busy(m)' : pc'[u] = "mark" /\ part'[u][2] = c
    <3>1. CASE k = m /\ c = n
      <4>1. Piece(m, c) # None
        BY PieceInData, ReassemblyAssumption
      <4>2. t \in Busy(m)'
        BY <1>3, <3>1 DEF Busy, Msg
      <4>3. QED
        BY <1>3, <3>1, <4>1, <4>2
    <3>2. CASE ~ (k = m /\ c = n)
      <4>1. Chunk(m, c) \in Arrived
        BY <1>1, <2>1, <3>2 DEF Chunk
      <4>2. chunks'[Slot(m, c)] = chunks[Slot(m, c)]
        BY <1>3, <3>2, SlotsDiffer, SlotInSlots
      <4>3. QED
        BY <1>3, <1>4, <1>7, <4>1, <4>2 DEF Pending
    <3>3. QED
      BY <3>1, <3>2
  <2>2. Ready(StreamId[m])' => \E u \in Busy(m)' : Checking(u)'
    BY <1>3, <1>4, <1>7 DEF Pending, Ready, Complete, Checking
  <2>3. Pending(m)'
    BY <1>3, <1>7, <2>1, <2>2 DEF Pending
  <2>4. QED
    BY <2>3 DEF Kept
<1>8. QED
  BY <1>2, <1>5, <1>6, <1>7 DEF Kept

\* A step of a task that works on another message leaves this one as it is.
LEMMA OtherStepKeeps ==
  ASSUME TypeOK, Authentic, [Next]_vars, NEW t \in Tasks, Step(t),
         NEW m \in Msgs, Msg(t) # m, Kept(m)
  PROVE  Kept(m)'
<1>1. pc[t] # "idle" /\ Msg(t) \in Msgs /\ Id(t) = StreamId[Msg(t)] /\ Id(t) # StreamId[m]
  BY StepOthers, BusyTask, StreamPartsAssumption
<1>2. streams'[StreamId[m]] = streams[StreamId[m]]
  BY <1>1, StreamPartsAssumption
  DEF Step, MarkReceived, Snapshot, CollectChunk, RemoveChunk, RemoveStream, Deliver, TypeOK
<1>3. \A n \in ChunkNums(m) : chunks'[Slot(m, n)] = chunks[Slot(m, n)]
  <2>1. CASE RemoveChunk(t)
    <3>1. idx[t] \in ChunkNums(Msg(t))
      BY <2>1, LoopIndex DEF RemoveChunk
    <3>2. \A n \in ChunkNums(m) : Slot(m, n) \in Slots /\ Slot(m, n) # Slot(Msg(t), idx[t])
      BY <1>1, <3>1, SlotsDiffer, SlotInSlots
    <3>3. QED
      BY <2>1, <3>2 DEF RemoveChunk, TypeOK
  <2>2. CASE ~ RemoveChunk(t)
    BY <2>2 DEF Step, MarkReceived, Snapshot, CollectChunk, RemoveStream, Deliver
  <2>3. QED
    BY <2>1, <2>2
<1>4. \A u \in Busy(m) : u \in Busy(m)' /\ pc'[u] = pc[u] /\ part'[u] = part[u]
  BY <1>1, StepOthers, OthersBusy
<1>5. Arrived' = Arrived
  BY StepArrivesNothing
<1>6. QED
  BY <1>2, <1>3, <1>4, <1>5, KeptUnchanged, DeliveredStays

\* A task that holds the whole of its message holds it until it has delivered it.
LEMMA HolderKeeps ==
  ASSUME TypeOK, Authentic, NEW t \in Tasks, Step(t), Holding(t),
         NEW m \in Msgs, Msg(t) = m
  PROVE  Kept(m)'
<1>1. CASE RemoveChunk(t) \/ RemoveStream(t)
  <2>1. Holding(t)' /\ part'[t] = part[t] /\ pc'[t] # "idle"
    BY <1>1 DEF RemoveChunk, RemoveStream, Goto, Holding, TypeOK
  <2>2. t \in Busy(m)'
    BY <2>1 DEF Busy, Msg
  <2>3. QED
    BY <2>1, <2>2 DEF Kept
<1>2. CASE Deliver(t)
  <2>1. inbox' = Append(inbox, Whole(m))
    BY <1>2, DeliversWhole DEF Deliver
  <2>2. inbox \in Seq([name : {Channel[k] : k \in Msgs}, content : Seq(Data)])
    BY DEF TypeOK
  <2>3. /\ Len(inbox) + 1 \in DOMAIN inbox'
        /\ inbox'[Len(inbox) + 1] = Whole(m)
    BY <2>1, <2>2
  <2>4. Delivered(m)'
    BY <2>3 DEF Delivered
  <2>5. QED
    BY <2>4 DEF Kept
<1>3. QED
  BY <1>1, <1>2 DEF Step, Holding, MarkReceived, Snapshot, CollectChunk

\* A step of a task that works on this message.
LEMMA OwnStepKeeps ==
  ASSUME TypeOK, Authentic, CompleteSnapshots, [Next]_vars, NEW t \in Tasks, Step(t),
         NEW m \in Msgs, Msg(t) = m, Kept(m)
  PROVE  Kept(m)'
<1>1. /\ pc[t] # "idle" /\ t \in Busy(m) /\ Id(t) = StreamId[m] /\ StreamId[m] \in Ids
      /\ Arrived' = Arrived
  BY StepOthers, StepArrivesNothing, BusyTask DEF Busy
<1>2. \A u \in Busy(m) \ {t} : u \in Busy(m)' /\ pc'[u] = pc[u] /\ part'[u] = part[u]
  BY StepOthers DEF Busy, Msg
<1>3. CASE Delivered(m)
  BY <1>3, DeliveredStays DEF Kept
<1>4. CASE Holding(t)
  BY <1>4, HolderKeeps
<1>5. CASE \E u \in Busy(m) \ {t} : Holding(u)
  BY <1>2, <1>5 DEF Kept, Holding
<1>6. CASE Pending(m) /\ ~ Holding(t)
  <2>1. CASE MarkReceived(t)
    <3> DEFINE info == [streams[StreamId[m]] EXCEPT
                          !.received = streams[StreamId[m]].received \cup {part[t][2]}]
    <3>1. streams[StreamId[m]] \in StreamInfos
      BY <1>1, <1>6 DEF Pending, TypeOK
    <3>2. info \in StreamInfos /\ info.received = streams[StreamId[m]].received \cup {part[t][2]}
      BY <1>1, <3>1, BusyTask, MarkedStreamInfo DEF StreamInfos
    <3>3. /\ streams' = [streams EXCEPT ![StreamId[m]] = info]
          /\ UNCHANGED <<chunks, part>>
          /\ pc'[t] = "check"
      BY <1>1, <1>6, <2>1 DEF MarkReceived, Pending, Goto, TypeOK
    <3> HIDE DEF info
    <3>4. streams'[StreamId[m]] = info /\ info # None
      BY <1>1, <3>2, <3>3, ReassemblyAssumption DEF TypeOK
    <3>5. t \in Busy(m)' /\ Checking(t)'
      BY <1>1, <3>3 DEF Busy, Msg, Checking
    <3>6. ASSUME NEW c \in ChunkNums(m), Chunk(m, c) \in Arrived'
          PROVE  /\ chunks'[Slot(m, c)] # None
                 /\ \/ c \in streams'[StreamId[m]].received
                    \/ \E u \in Busy(m)' : pc'[u] = "mark" /\ part'[u][2] = c
      BY <1>1, <1>2, <1>6, <3>2, <3>3, <3>4, <3>6 DEF Pending
    <3>7. QED
      BY <3>4, <3>5, <3>6 DEF Kept, Pending
  <2>2. CASE Snapshot(t)
    <3>1. UNCHANGED <<streams, chunks>> /\ pc[t] = "check"
      BY <2>2 DEF Snapshot
    <3>2. ASSUME NEW c \in ChunkNums(m), Chunk(m, c) \in Arrived'
          PROVE  /\ chunks'[Slot(m, c)] # None
                 /\ \/ c \in streams'[StreamId[m]].received
                    \/ \E u \in Busy(m)' : pc'[u] = "mark" /\ part'[u][2] = c
      BY <1>1, <1>2, <1>6, <3>1, <3>2 DEF Pending
    <3>3. Ready(StreamId[m]) => t \in Busy(m)' /\ Checking(t)'
      BY <1>1, <2>2 DEF Snapshot, EndCheck, Goto, Busy, Msg, Checking, TypeOK
    <3>4. Ready(StreamId[m])' = Ready(StreamId[m])
      BY <3>1 DEF Ready, Complete
    <3>5. QED
      BY <1>6, <3>1, <3>2, <3>3, <3>4 DEF Kept, Pending
  <2>3. CASE CollectChunk(t)
    <3>1. idx[t] \in ChunkNums(m) /\ StreamAuthentic(m, snap[t]) /\ Complete(snap[t])
      BY <2>3, LoopIndex DEF CollectChunk, CompleteSnapshots, Authentic, TasksAuthentic, TaskAuthentic
    <3>2. Chunk(m, idx[t]) \in Arrived
      BY <3>1, CompleteCountsAll DEF StreamAuthentic
    <3>3. chunks[Slot(m, idx[t])] # None
      BY <1>6, <3>1, <3>2 DEF Pending
    <3>4. /\ UNCHANGED <<streams, chunks, part>>
          /\ pc[t] = "collect" /\ pc'[t] \in {"collect", "clean"}
      BY <2>3, <3>3 DEF CollectChunk, Goto, TypeOK
    <3>5. t \in Busy(m)'
      BY <1>1, <3>4 DEF Busy, Msg
    <3>6. CASE pc'[t] = "clean"
      BY <3>5, <3>6 DEF Kept, Holding
    <3>7. CASE pc'[t] = "collect"
      <4>1. ASSUME NEW c \in ChunkNums(m), Chunk(m, c) \in Arrived'
            PROVE  /\ chunks'[Slot(m, c)] # None
                   /\ \/ c \in streams'[StreamId[m]].received
                      \/ \E u \in Busy(m)' : pc'[u] = "mark" /\ part'[u][2] = c
        BY <1>1, <1>2, <1>6, <3>4, <4>1 DEF Pending
      <4>2. Checking(t)'
        BY <3>7 DEF Checking
      <4>3. QED
        BY <1>6, <3>4, <3>5, <4>1, <4>2 DEF Kept, Pending
    <3>8. QED
      BY <3>4, <3>6, <3>7
  <2>4. QED
    BY <1>6, <2>1, <2>2, <2>3 DEF Step, RemoveChunk, RemoveStream, Deliver, Holding
<1>7. QED
  BY <1>3, <1>4, <1>5, <1>6 DEF Kept
-----------------------------------------------------------------------------
LEMMA StepNoSilentLoss ==
  ASSUME OrderedOnce, TypeOK, Authentic, NoSilentLoss, [Next]_vars
  PROVE  NoSilentLoss'
<1>1. HeadersBeforeChunks' /\ CompleteSnapshots'
  BY StepHeadersBeforeChunks, StepCompleteSnapshots DEF NoSilentLoss
<1>2. ASSUME NEW m \in Msgs, Header(m) \in Arrived'
      PROVE  Kept(m)'
  <2>1. ASSUME NEW t \in Tasks, Step(t)
        PROVE  Kept(m)'
    <3>1. Kept(m)
      BY <1>2, <2>1, StepArrivesNothing DEF NoSilentLoss
    <3>2. QED
      BY <2>1, <3>1, OtherStepKeeps, OwnStepKeeps DEF NoSilentLoss
  <2>2. CASE UNCHANGED vars
    BY <1>2, <2>2 DEF vars, local, NoSilentLoss, Arrived, Kept, Delivered, Busy, Msg, Holding,
                      Pending, Ready, Complete, Checking
  <2>3. QED
    BY <1>2, <2>1, <2>2, HeaderKeeps, ChunkKeeps DEF Next
<1>3. QED
  BY <1>1, <1>2 DEF NoSilentLoss

\* With a network that keeps a header before its chunks and repeats no header, no
\* interleaving of the tasks and no repeated chunk loses a message: at every moment
\* it is in the in channel, in the hands of a task, or in the maps with every chunk
\* that came and, once complete, a task that is going to look.
THEOREM NoLoss == OrderedOnce => (Spec => []NoSilentLoss)
<1> SUFFICES ASSUME OrderedOnce PROVE Spec => []NoSilentLoss
  OBVIOUS
<1>1. Init => NoSilentLoss
  BY InitNoSilentLoss
<1>2. TypeOK /\ Authentic /\ NoSilentLoss /\ [Next]_vars => NoSilentLoss'
  BY StepNoSilentLoss
<1>3. QED
  BY <1>1, <1>2, Invariant, PTL DEF Spec

\* A message all of whose parts came has been delivered when no task is at work on
\* it any more.
LEMMA NothingLeftBehind ==
  ASSUME TypeOK, Authentic, NoSilentLoss
  PROVE  CompleteStreamDelivered
<1> SUFFICES ASSUME NEW m \in Msgs, Parts(m) \subseteq Arrived, Busy(m) = {}
             PROVE  Delivered(m)
  BY DEF CompleteStreamDelivered
<1>1. Delivered(m) \/ Pending(m)
  BY DEF NoSilentLoss, Kept, Parts
<1>2. ASSUME Pending(m)
      PROVE  FALSE
  <2>1. streams[StreamId[m]] # None /\ StreamAuthentic(m, streams[StreamId[m]])
    BY <1>2 DEF Pending, Authentic, StreamsAuthentic
  <2>2. ChunkNums(m) \subseteq streams[StreamId[m]].received
    BY <1>2 DEF Pending, Parts
  <2>3. streams[StreamId[m]].received = ChunkNums(m)
    BY <2>1, <2>2 DEF StreamAuthentic
  <2>4. Complete(streams[StreamId[m]])
    BY <2>1, <2>3, CompleteCountsAll
  <2>5. QED
    BY <1>2, <2>1, <2>4 DEF Pending, Ready
<1>3. QED
  BY <1>1, <1>2

\* With the same network, a message all of whose parts have been handled, and on which no
\* task works any more, has been delivered.
THEOREM CompleteStreamsDelivered == OrderedOnce => (Spec => []CompleteStreamDelivered)
<1> SUFFICES ASSUME OrderedOnce PROVE Spec => []CompleteStreamDelivered
  OBVIOUS
<1>1. TypeOK /\ Authentic /\ NoSilentLoss => CompleteStreamDelivered
  BY NothingLeftBehind
<1>2. Spec => []NoSilentLoss
  BY NoLoss
<1>3. QED
  BY <1>1, <1>2, Invariant, PTL
-----------------------------------------------------------------------------
\* How often a message was delivered is counted by its places in the in channel.
LEMMA CopiesCounted ==
  ASSUME TypeOK, NEW m \in Msgs
  PROVE  /\ Copies(m) \in Nat
         /\ inbox' = inbox => Copies(m)' = Copies(m)
         /\ \A e : inbox' = Append(inbox, e) =>
              Copies(m)' = IF e = Whole(m) THEN Copies(m) + 1 ELSE Copies(m)
<1> DEFINE n == Len(inbox)
           at == {i \in DOMAIN inbox : inbox[i] = Whole(m)}
<1>1. inbox \in Seq([name : {Channel[k] : k \in Msgs}, content : Seq(Data)])
  BY DEF TypeOK
<1>2. n \in Nat /\ DOMAIN inbox = 1 .. n
  BY <1>1
<1>3. IsFiniteSet(at) /\ Cardinality(at) \in Nat
  <2>1. IsFiniteSet(1 .. n)
    BY <1>2, FS_Interval
  <2>2. at \subseteq 1 .. n
    BY <1>2
  <2>3. QED
    BY <2>1, <2>2, FS_Subset, FS_CardinalityType
<1>4. inbox' = inbox => Copies(m)' = Copies(m)
  BY DEF Copies
<1>5. ASSUME NEW e, inbox' = Append(inbox, e)
      PROVE  Copies(m)' = IF e = Whole(m) THEN Copies(m) + 1 ELSE Copies(m)
  <2> DEFINE after == {i \in DOMAIN inbox' : inbox'[i] = Whole(m)}
  <2>1. /\ DOMAIN inbox' = 1 .. n + 1 /\ inbox'[n + 1] = e
        /\ \A i \in 1 .. n : inbox'[i] = inbox[i]
    BY <1>1, <1>5
  <2>2. CASE e = Whole(m)
    <3>1. after = at \cup {n + 1} /\ n + 1 \notin at
      BY <1>2, <2>1, <2>2
    <3>2. Cardinality(after) = Cardinality(at) + 1
      BY <1>3, <3>1, FS_AddElement
    <3>3. QED
      BY <2>2, <3>2 DEF Copies
  <2>3. CASE e # Whole(m)
    <3>1. after = at
      BY <1>2, <2>1, <2>3
    <3>2. QED
      BY <2>3, <3>1 DEF Copies
  <2>4. QED
    BY <2>2, <2>3
<1>6. QED
  BY <1>3, <1>4, <1>5 DEF Copies

\* Two messages differ as wholes: their first pieces do.
LEMMA WholesDiffer ==
  ASSUME NEW m1 \in Msgs, NEW m2 \in Msgs, Whole(m1) = Whole(m2)
  PROVE  m1 = m2
<1>1. Content(m1) = Content(m2)
  BY DEF Whole
<1>2. 1 \in 1 .. Total[m1] /\ 1 \in 1 .. Total[m2]
  BY StreamPartsAssumption
<1>3. Content(m1)[1] = Piece(m1, 1 - 1) /\ Content(m2)[1] = Piece(m2, 1 - 1)
  BY <1>2 DEF Content
<1>4. Piece(m1, 1 - 1) = Piece(m2, 1 - 1)
  BY <1>1, <1>3
<1>5. QED
  BY <1>4 DEF Piece

\* A header that was handled is still owed a delivery, at most: its stream is listed, or
\* the task that has removed it is about to deliver.
Owed(m) ==
  \/ streams[StreamId[m]] # None
  \/ \E t \in Busy(m) : pc[t] = "deliver"

\* What holds of a message that tasks worked on one after the other.
Serial(m) ==
  /\ \A t, u \in Busy(m) : t = u
  /\ \A t \in Busy(m) :
       /\ pc[t] \in {"collect", "clean", "unlist"} => streams[StreamId[m]] # None
       /\ pc[t] = "deliver" => streams[StreamId[m]] = None
  /\ Copies(m) <= handled[Header(m)]
  /\ Owed(m) => Copies(m) < handled[Header(m)]

OneByOne == \A m \in Msgs \ overlap : Serial(m)

LEMMA InitOneByOne == Init => OneByOne
<1> SUFFICES ASSUME Init, NEW m \in Msgs PROVE Serial(m)
  BY DEF OneByOne
<1>1. Busy(m) = {} /\ streams[StreamId[m]] = None /\ handled[Header(m)] = 0
  BY StreamPartsAssumption, PartsInAllParts DEF Init, Busy
<1>2. Copies(m) = 0
  <2>1. {i \in DOMAIN inbox : inbox[i] = Whole(m)} = {}
    BY DEF Init
  <2>2. QED
    BY <2>1, FS_EmptySet DEF Copies
<1>3. QED
  BY <1>1, <1>2 DEF Serial, Owed

\* Where nothing of a message changes but that a task may leave it, it stays serial.
LEMMA SerialUnchanged ==
  ASSUME NEW m \in Msgs, Serial(m),
         streams'[StreamId[m]] = None <=> streams[StreamId[m]] = None,
         Copies(m)' = Copies(m), handled'[Header(m)] = handled[Header(m)],
         \A u \in Busy(m)' : u \in Busy(m) /\ pc'[u] = pc[u]
  PROVE  Serial(m)'
BY DEF Serial, Owed

\* The work on one message does nothing to another.
LEMMA OthersStaySerial ==
  ASSUME TypeOK, Authentic, NEW t \in Tasks, Step(t), NEW m \in Msgs, Msg(t) # m, Serial(m)
  PROVE  Serial(m)'
<1>1. /\ pc[t] # "idle" /\ UNCHANGED handled
      /\ \A u \in Tasks \ {t} : pc'[u] = pc[u] /\ part'[u] = part[u]
  BY StepOthers, StepArrivesNothing
<1>2. Msg(t) \in Msgs /\ Id(t) = StreamId[Msg(t)] /\ Id(t) # StreamId[m] /\ StreamId[m] \in Ids
  BY <1>1, BusyTask, StreamPartsAssumption
<1>3. streams'[StreamId[m]] = streams[StreamId[m]]
  BY <1>2 DEF Step, MarkReceived, Snapshot, CollectChunk, RemoveChunk, RemoveStream, Deliver,
              TypeOK
<1>4. \A u \in Busy(m)' : u \in Busy(m) /\ pc'[u] = pc[u]
  <2>1. part'[t] \in {part[t], None} /\ (part'[t] = None => pc'[t] = "idle")
    BY <1>1 DEF Step, MarkReceived, Snapshot, CollectChunk, RemoveChunk, RemoveStream, Deliver,
                EndCheck, Goto, TypeOK
  <2>2. t \notin Busy(m)'
    BY <1>2, <2>1 DEF Busy, Msg
  <2>3. QED
    BY <1>1, <2>2 DEF Busy, Msg
<1>5. Copies(m)' = Copies(m)
  <2>1. CASE inbox' = inbox
    BY <2>1, CopiesCounted
  <2>2. CASE Deliver(t)
    <3>1. inbox' = Append(inbox, Whole(Msg(t)))
      BY <2>2, DeliversWhole DEF Deliver
    <3>2. Whole(Msg(t)) # Whole(m)
      BY <1>2, WholesDiffer
    <3>3. QED
      BY <3>1, <3>2, CopiesCounted
  <2>3. QED
    BY <2>1, <2>2 DEF Step, MarkReceived, Snapshot, CollectChunk, RemoveChunk, RemoveStream
<1>6. QED
  BY <1>1, <1>3, <1>4, <1>5, SerialUnchanged

\* The one task at work on a message lists nothing, and delivers what it has unlisted.
LEMMA OwnStepSerial ==
  ASSUME TypeOK, Authentic, NEW t \in Tasks, Step(t), NEW m \in Msgs, Msg(t) = m, Serial(m)
  PROVE  Serial(m)'
<1>1. /\ pc[t] # "idle" /\ UNCHANGED handled
      /\ \A u \in Tasks \ {t} : pc'[u] = pc[u] /\ part'[u] = part[u]
  BY StepOthers, StepArrivesNothing
<1>2. Id(t) = StreamId[m] /\ Id(t) \in Ids /\ t \in Busy(m)
  BY <1>1, BusyTask DEF Busy
<1>3. \A u \in Busy(m)' : u = t
  <2>1. \A u \in Busy(m) : u = t
    BY <1>2 DEF Serial
  <2>2. QED
    BY <1>1, <2>1 DEF Busy, Msg
<1>4. /\ Copies(m) <= handled[Header(m)] /\ Copies(m) \in Nat /\ handled[Header(m)] \in Nat
      /\ Owed(m) => Copies(m) < handled[Header(m)]
  BY CopiesCounted, PartsInAllParts DEF Serial, TypeOK
<1>5. CASE inbox' = inbox
  <2>1. Copies(m)' = Copies(m)
    BY <1>5, CopiesCounted
  <2>3. CASE RemoveStream(t)
    <3>1. pc'[t] = "deliver" /\ streams'[StreamId[m]] = None /\ pc[t] = "unlist"
      BY <1>2, <2>3 DEF RemoveStream, Goto, TypeOK
    <3>2. Owed(m)
      BY <1>2, <3>1 DEF Serial, Owed
    <3>3. Copies(m)' <= handled'[Header(m)] /\ Copies(m)' < handled'[Header(m)]
      BY <1>1, <1>4, <2>1, <3>2
    <3>4. \A u \in Busy(m)' : pc'[u] = "deliver"
      BY <1>3, <3>1
    <3>5. QED
      BY <1>3, <3>1, <3>3, <3>4 DEF Serial
  <2>4. CASE MarkReceived(t)
    <3>1. pc'[t] = "check" /\ (streams'[StreamId[m]] = None <=> streams[StreamId[m]] = None)
      <4>1. pc'[t] = "check"
        BY <2>4 DEF MarkReceived, Goto, TypeOK
      <4>2. ASSUME streams[Id(t)] # None
            PROVE  streams'[Id(t)] # None
        <5>1. streams[Id(t)] \in StreamInfos /\ part[t][2] \in ChunkNums(m)
          BY <1>1, <1>2, <4>2, BusyTask DEF TypeOK
        <5>2. [streams[Id(t)] EXCEPT !.received = streams[Id(t)].received \cup {part[t][2]}]
                \in StreamInfos
          BY <5>1, MarkedStreamInfo
        <5>3. QED
          BY <1>2, <2>4, <4>2, <5>2, ReassemblyAssumption DEF MarkReceived, TypeOK
      <4>3. streams[Id(t)] = None => streams'[Id(t)] = None
        BY <2>4 DEF MarkReceived
      <4>4. QED
        BY <1>2, <4>1, <4>2, <4>3
    <3>2. QED
      BY <1>1, <1>3, <1>4, <2>1, <3>1 DEF Serial, Owed
  <2>5. CASE Snapshot(t)
    <3>1. /\ streams' = streams
          /\ pc'[t] \in {"idle", "check"} \/ (pc'[t] = "collect" /\ streams[StreamId[m]] # None)
      BY <1>2, <2>5 DEF Snapshot, Ready, EndCheck, Goto, TypeOK
    <3>2. QED
      BY <1>1, <1>3, <1>4, <2>1, <3>1 DEF Serial, Owed
  <2>6. CASE CollectChunk(t) \/ RemoveChunk(t)
    <3>1. /\ streams' = streams /\ pc[t] \in {"collect", "clean"}
          /\ pc'[t] \in {"idle", "check", "collect", "clean", "unlist"}
      BY <2>6 DEF CollectChunk, RemoveChunk, EndCheck, Goto, TypeOK
    <3>2. streams[StreamId[m]] # None
      BY <1>2, <3>1 DEF Serial
    <3>3. QED
      BY <1>1, <1>3, <1>4, <2>1, <3>1, <3>2 DEF Serial, Owed
  <2>7. CASE Deliver(t)
    <3>1. inbox' = Append(inbox, Whole(m))
      BY <2>7, DeliversWhole DEF Deliver
    <3>2. Copies(m)' = Copies(m) + 1
      BY <3>1, CopiesCounted
    <3>3. QED
      BY <1>4, <2>1, <3>2
  <2>8. QED
    BY <2>3, <2>4, <2>5, <2>6, <2>7 DEF Step
<1>6. CASE Deliver(t)
  <2>1. inbox' = Append(inbox, Whole(m)) /\ pc[t] = "deliver"
    BY <1>6, DeliversWhole DEF Deliver
  <2>2. Copies(m)' = Copies(m) + 1
    BY <2>1, CopiesCounted
  <2>3. streams' = streams /\ pc'[t] \in {"idle", "check"}
    BY <1>6 DEF Deliver, EndCheck, Goto, TypeOK
  <2>4. Owed(m) /\ streams[StreamId[m]] = None
    BY <1>2, <2>1 DEF Serial, Owed
  <2>5. QED
    BY <1>1, <1>3, <1>4, <2>2, <2>3, <2>4 DEF Serial, Owed
<1>7. QED
  BY <1>5, <1>6 DEF Step, MarkReceived, Snapshot, CollectChunk, RemoveChunk, RemoveStream

LEMMA StepOneByOne ==
  ASSUME TypeOK, Authentic, OneByOne, [Next]_vars
  PROVE  OneByOne'
<1> SUFFICES ASSUME NEW m \in Msgs, m \notin overlap' PROVE Serial(m)'
  BY DEF OneByOne
<1>1. Serial(m)
  BY DEF OneByOne, Next, Step, vars, HandleHeader, HandleChunk, MarkReceived, Snapshot,
         CollectChunk, RemoveChunk, RemoveStream, Deliver
<1>2. ASSUME NEW x \in Msgs, HandleHeader(x)
      PROVE  Serial(m)'
  <2>1. UNCHANGED <<pc, part, inbox>> /\ Busy(m)' = Busy(m) /\ Copies(m)' = Copies(m)
    BY <1>2, CopiesCounted DEF HandleHeader, local, Busy, Msg
  <2>2. CASE x # m
    <3>1. streams'[StreamId[m]] = streams[StreamId[m]] /\ handled'[Header(m)] = handled[Header(m)]
      <4>1. Header(x) # Header(m) /\ StreamId[x] # StreamId[m]
        BY <2>2, StreamPartsAssumption DEF Header
      <4>2. QED
        BY <1>2, <4>1, PartsInAllParts, StreamPartsAssumption DEF HandleHeader, TypeOK
    <3>2. QED
      BY <1>1, <2>1, <3>1, SerialUnchanged
  <2>3. CASE x = m
    <3>1. Busy(m) = {}
      BY <1>2, <2>3 DEF HandleHeader
    <3>2. handled'[Header(m)] = handled[Header(m)] + 1 /\ handled[Header(m)] \in Nat
      BY <1>2, <2>3, PartsInAllParts DEF HandleHeader, TypeOK
    <3>3. Copies(m) <= handled[Header(m)] /\ Copies(m) \in Nat
      BY <1>1, CopiesCounted DEF Serial
    <3>4. QED
      BY <2>1, <3>1, <3>2, <3>3 DEF Serial
  <2>4. QED
    BY <2>2, <2>3
<1>3. ASSUME NEW t \in Tasks, NEW x \in Msgs, NEW n \in ChunkNums(x), HandleChunk(t, x, n)
      PROVE  Serial(m)'
  <2>1. /\ pc[t] = "idle" /\ pc'[t] = "mark" /\ part'[t] = <<x, n>>
        /\ \A u \in Tasks \ {t} : pc'[u] = pc[u] /\ part'[u] = part[u]
        /\ streams' = streams /\ inbox' = inbox
    BY <1>3 DEF HandleChunk, Goto, TypeOK
  <2>2. Copies(m)' = Copies(m)
    BY <2>1, CopiesCounted
  <2>3. handled'[Header(m)] = handled[Header(m)]
    <3>1. Header(m) # Chunk(x, n)
      BY DEF Header, Chunk
    <3>2. QED
      BY <1>3, <3>1, PartsInAllParts DEF HandleChunk, TypeOK
  <2>4. CASE x # m
    <3>1. \A u \in Busy(m)' : u \in Busy(m) /\ pc'[u] = pc[u]
      BY <2>1, <2>4 DEF Busy, Msg
    <3>2. QED
      BY <1>1, <2>1, <2>2, <2>3, <3>1, SerialUnchanged
  <2>5. CASE x = m
    <3>1. Busy(m) = {}
      BY <1>3, <2>5 DEF HandleChunk
    <3>2. \A u \in Busy(m)' : u = t
      BY <2>1, <3>1 DEF Busy, Msg
    <3>3. QED
      BY <1>1, <2>1, <2>2, <2>3, <3>1, <3>2 DEF Serial, Owed
  <2>6. QED
    BY <2>4, <2>5
<1>4. ASSUME NEW t \in Tasks, Step(t)
      PROVE  Serial(m)'
  BY <1>1, <1>4, OthersStaySerial, OwnStepSerial
<1>5. CASE UNCHANGED vars
  <2>1. Busy(m)' = Busy(m) /\ UNCHANGED <<pc, streams, inbox, handled>>
    BY <1>5 DEF vars, local, Busy, Msg
  <2>2. QED
    BY <1>1, <2>1, SerialUnchanged, CopiesCounted
<1>6. QED
  BY <1>2, <1>3, <1>4, <1>5 DEF Next

\* However chunks are repeated, and however often their stream is listed again, a message
\* that tasks worked on one after the other is delivered at most once for each time its
\* header was handled.
THEOREM OncePerHeader == Spec => []SerialAtMostOncePerHeader
<1>1. Init => OneByOne
  BY InitOneByOne
<1>2. TypeOK /\ Authentic /\ OneByOne /\ [Next]_vars => OneByOne'
  BY StepOneByOne
<1>3. OneByOne => SerialAtMostOncePerHeader
  BY DEF OneByOne, Serial, SerialAtMostOncePerHeader
<1>4. QED
  BY <1>1, <1>2, <1>3, Invariant, PTL DEF Spec
=============================================================================
