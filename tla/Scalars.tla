------------------------------ MODULE Scalars -------------------------------
(***************************************************************************)
(* The wire format of what is no array: lengths, and the values that go as *)
(* a tag and 8 bytes, or as a tag, a length and that many bytes.  A byte   *)
(* is a number that the format writes (a tag, an action, part of a         *)
(* length), or one of the bytes of a string or of an integer of 8: which   *)
(* one it is of, not its value, is what tells what is read.                *)
(***************************************************************************)
EXTENDS Naturals, Sequences, JsonValues

CONSTANT LengthOf(_) \* how many bytes a string or a JSON text has

Nil == 1
Int64 == 2
String == 4
Known8 == {Int64, 3}

Byte(n) == [byte |-> n]
Part(v, i) == [of |-> v, at |-> i]
\* Any letter will do; an integer is small and positive, with its first bytes 0.
CodeOf(b) == IF "byte" \in DOMAIN b THEN b.byte
             ELSE IF ~IsString(b.of) THEN (IF b.at < 8 THEN 0 ELSE b.of.number)
             ELSE 97
BytesOf(v, n) == [i \in 1..n |-> Part(v, i)]
-----------------------------------------------------------------------------
\* An integer of 64 bits has ten digits of 7.
MaxDigits == 10

\* What is left of n when it has been shifted so many times.
Left(n) == LET left[i \in 0..(MaxDigits - 1)] == IF i = 0 THEN n ELSE left[i - 1] \div 128
           IN  left

\* The digits of n, up to the one that needs no other because what is left is below one.
Digits(n, one) ==
  LET last == CHOOSE i \in 0..(MaxDigits - 1) :
                Left(n)[i] < one /\ \A j \in 0..(i - 1) : Left(n)[j] >= one
  IN  [i \in 1..(last + 1) |-> Byte(IF i > last THEN Left(n)[i - 1]
                                    ELSE (Left(n)[i - 1] % 128) + 128)]

\* Variant: 128 is taken to fit one byte.
VarintEncodeShort(n) == Digits(n, 129)

VarintEncode(n) == Digits(n, 128)

LengthValue(bytes) == VarintEncode(Len(bytes)) \o bytes

\* serialize, but for arrays: what has no tag of its own goes as the string of its JSON text.
StringToBytes(s) == <<Byte(String)>> \o LengthValue(BytesOf(s, LengthOf(s)))
SerializeScalar(v) ==
  CASE KindOf(v) = "null" -> <<Byte(Nil)>>
    [] KindOf(v) = "number" -> <<Byte(Int64)>> \o BytesOf(v, 8)
    [] IsString(v) -> StringToBytes(v)
    [] OTHER -> StringToBytes(Text(v))
-----------------------------------------------------------------------------
\* What reading gives: a value and what is left, or that it fails.
Fails == [ok |-> FALSE]
Reads(v, rest) == [ok |-> TRUE, value |-> v, rest |-> rest]

From(bytes, i) == SubSeq(bytes, i, Len(bytes))

\* varint_decode, from where so many digits may follow; an eleventh is too many.
ReadFrom(bytes) ==
  LET read[k \in 0..MaxDigits] ==
        LET i == MaxDigits + 1 - k
            code == CodeOf(bytes[i])
        IN  IF k = 0 \/ i > Len(bytes) THEN Fails
            ELSE IF code < 128 THEN Reads(code, From(bytes, i + 1))
            ELSE IF ~read[k - 1].ok THEN Fails
            ELSE Reads((code - 128) + 128 * read[k - 1].value, read[k - 1].rest)
  IN  read
VarintDecode(bytes) == ReadFrom(bytes)[MaxDigits]

\* read_lv, and reading 8 bytes.
Take(bytes, n) ==
  IF Len(bytes) < n THEN Fails ELSE Reads(SubSeq(bytes, 1, n), From(bytes, n + 1))
ReadLengthValue(bytes) ==
  LET n == VarintDecode(bytes) IN IF n.ok THEN Take(n.rest, n.value) ELSE Fails

\* The value that bytes were written for.  Others make a value nobody wrote, or a string
\* that is not UTF-8.
Whole(bytes, v) == bytes = BytesOf(v, Len(bytes))
StringOf(bytes, rest) ==
  IF bytes = << >> THEN Reads(Str(""), rest)
  ELSE IF "of" \in DOMAIN bytes[1] /\ Whole(bytes, bytes[1].of) /\ IsString(bytes[1].of)
             /\ LengthOf(bytes[1].of) = Len(bytes)
       THEN Reads(bytes[1].of, rest)
  ELSE IF \E i \in DOMAIN bytes : CodeOf(bytes[i]) >= 128 THEN Fails
  ELSE Reads(Str("garbled"), rest)
NumberOf(bytes, rest) ==
  IF "of" \in DOMAIN bytes[1] /\ Whole(bytes, bytes[1].of) /\ ~IsString(bytes[1].of)
  THEN Reads(bytes[1].of, rest) ELSE Reads(Obj("garbled"), rest)

\* deserialize, but for arrays.
DeserializeScalar(bytes) ==
  IF bytes = << >> THEN Fails
  ELSE LET tag == CodeOf(Head(bytes))
           data == ReadLengthValue(Tail(bytes))
           word == Take(Tail(bytes), 8)
       IN  CASE tag = Nil -> Reads(Null, Tail(bytes))
             [] tag \in Known8 -> IF word.ok THEN NumberOf(word.value, word.rest) ELSE Fails
             [] OTHER -> IF data.ok THEN StringOf(data.value, data.rest) ELSE Fails

\* What the wire makes of a value: all but null, integers and strings arrive as strings.
ScalarArrives(v) == IF KindOf(v) \in {"bool", "object"} THEN Text(v) ELSE v
=============================================================================
