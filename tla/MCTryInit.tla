------------------------------ MODULE MCTryInit ------------------------------
(***************************************************************************)
(* TryInit for the model checker: two events of one place that differ in   *)
(* their kind, and one of a level that is not let through.                 *)
(***************************************************************************)
EXTENDS TryInit

EventAt(level, isSpan) == [level |-> level, isSpan |-> isSpan, place |-> "main.bpf.c:7"]

SomeEvents == {EventAt("info", FALSE), EventAt("info", TRUE), EventAt("trace", FALSE)}

Garbage == [level |-> "garbage", isSpan |-> FALSE, place |-> ""]
=============================================================================
