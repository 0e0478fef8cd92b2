------------------------------ MODULE Remoting ------------------------------
(***************************************************************************)
(* The wire format of calls and responses: arrays, and what they are made  *)
(* of (Scalars).                                                           *)
(*                                                                         *)
(* The tags that nothing writes (byte strings, contacts, channels,         *)
(* profiles, peers, bundles) are not here: what is read at one is a value  *)
(* that is not null, or fails.                                             *)
(***************************************************************************)
EXTENDS Scalars, SequencesExt

CONSTANTS
  Actions, \* the actions: a function to their numbers
  NoAction \* the action that bytes of no other stand for

InterfaceArray == 7
-----------------------------------------------------------------------------
RECURSIVE Serialize(_)
Serialize(v) ==
  IF KindOf(v) # "array" THEN SerializeScalar(v)
  ELSE <<Byte(InterfaceArray)>>
         \o LengthValue(VarintEncode(Len(v.array))
                          \o FlattenSeq([i \in DOMAIN v.array |-> Serialize(v.array[i])]))

RECURSIVE Deserialize(_), DeserializeItems(_, _)
Deserialize(bytes) ==
  IF bytes = << >> \/ CodeOf(bytes[1]) # InterfaceArray THEN DeserializeScalar(bytes)
  ELSE LET data == ReadLengthValue(Tail(bytes))
           count == VarintDecode(data.value)
           items == DeserializeItems(count.rest, count.value)
       IN  IF data.ok /\ count.ok /\ items.ok THEN Reads(Arr(items.value), data.rest)
                                              ELSE Fails
DeserializeItems(bytes, n) ==
  IF n = 0 THEN Reads(<< >>, bytes)
  ELSE LET first == Deserialize(bytes)
           others == DeserializeItems(first.rest, n - 1)
       IN  IF first.ok /\ others.ok THEN Reads(<<first.value>> \o others.value, others.rest)
                                    ELSE Fails
-----------------------------------------------------------------------------
CallToBytes(call) == <<Byte(Actions[call.action])>> \o Serialize(Arr(call.args))

ActionOf(code) ==
  IF \E a \in DOMAIN Actions : Actions[a] = code
  THEN CHOOSE a \in DOMAIN Actions : Actions[a] = code ELSE NoAction
CallFromBytes(bytes) ==
  LET args == Deserialize(Tail(bytes))
  IN  IF Len(bytes) < 2 THEN Fails
      ELSE IF args.ok /\ KindOf(args.value) = "array"
      THEN Reads([action |-> ActionOf(CodeOf(bytes[1])), args |-> args.value.array], << >>)
      ELSE Fails

\* The error and the value of a response, null for none; what is read back as null is none.
ResponseToBytes(error, value, none) ==
  Serialize(OrNull(error, none)) \o Serialize(OrNull(value, none))
ResponseFromBytes(bytes) ==
  LET error == Deserialize(bytes)
      value == Deserialize(error.rest)
  IN  IF error.ok /\ value.ok THEN Reads([error |-> error.value, value |-> value.value], << >>)
      ELSE Fails
-----------------------------------------------------------------------------
\* What the wire makes of a value, in an array too.
RECURSIVE Arrives(_)
Arrives(v) ==
  IF KindOf(v) = "array" THEN Arr([i \in DOMAIN v.array |-> Arrives(v.array[i])])
  ELSE ScalarArrives(v)
=============================================================================
