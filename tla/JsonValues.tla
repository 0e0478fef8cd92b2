----------------------------- MODULE JsonValues -----------------------------
(***************************************************************************)
(* serde_json::Value as a record whose one field names the variant.  A     *)
(* string is one that somebody named, or the JSON text of a value (Text).  *)
(***************************************************************************)
Null == [null |-> TRUE]
Num(n) == [number |-> n]
Str(s) == [string |-> s]
Text(v) == [text |-> v]
Bool(b) == [bool |-> b]
Arr(items) == [array |-> items]
Obj(o) == [object |-> o]

\* An Option: null for none.
OrNull(v, none) == IF v = none THEN Null ELSE v

KindOf(v) == CHOOSE kind \in DOMAIN v : TRUE
IsString(v) == KindOf(v) \in {"string", "text"}
=============================================================================
