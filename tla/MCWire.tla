------------------------------- MODULE MCWire -------------------------------
(* Every message of every method: all fields empty or all full, with one field that *)
(* takes every value, in the message or in one of its sub-messages, or is missing.  *)
EXTENDS Wire

RECURSIVE Full(_), MCObjects(_)

Some(type) == CASE type = "string" -> "x" [] type = "bool" -> "true" [] OTHER -> "1"

Full(T) ==
    [f \in DOMAIN T |->
        LET v == IF IsMessage(T[f].type) THEN Full(Schema[T[f].type]) ELSE Some(T[f].type)
        IN IF T[f].many /\ ~IsMessage(T[f].type) THEN <<v, Zero(T[f].type)>> ELSE <<v>>]

\* What a field may hold.
Settings(fd) ==
    LET singles == {<<v>> : v \in IF IsMessage(fd.type)
                                   THEN {NullMessage} \cup MCObjects(Schema[fd.type])
                                   ELSE Values(fd.type)}
        empty   == IF fd.many \/ IsMessage(fd.type) THEN {<<>>} ELSE {}
        pairs   == IF fd.many /\ IsMessage(fd.type)
                   THEN {<<Base(Schema[fd.type]), Full(Schema[fd.type])>>} ELSE {}
    IN singles \cup empty \cup pairs

MCObjects(T) ==
    UNION {{m} \cup {Without(m, f) : f \in DOMAIN T}
               \cup UNION {{[m EXCEPT ![f] = s] : s \in Settings(T[f])} : f \in DOMAIN T}
           : m \in {Base(T), Full(T)}}

MCStrange == {[num |-> 99, wtype |-> "bytes", value |-> "x"], [num |-> 1, wtype |-> "varint", value |-> "1"]}
=============================================================================
