---------------------------- MODULE MCEvalWorker ----------------------------
(* Two workers and a partition with three messages: one of two spans that are scored, or *)
(* one of them fails the message, one of a span whose messages cannot be walked, and one *)
(* that is no OTLP object.                                                               *)
EXTENDS EvalWorker

CONSTANTS w1, w2

MCSpansAt(p, o) == CASE o = 0 -> {"first", "second"} [] o = 1 -> {"any"} [] OTHER -> {}

MCUnwalkable == {<<"p", 2>>}

MCAttrsOf(s) ==
    LET chat == [toolUse |-> FALSE, input |-> "text", output |-> "text"]
    IN CASE s = "first"  -> {chat}
         [] s = "second" -> {chat, [chat EXCEPT !.output = "null"]}
         [] s = "any"    -> {[chat EXCEPT !.output = "object"]}
=============================================================================
