------------------------------- MODULE MCSpans -------------------------------
(***************************************************************************)
(* Call sites of the spans of the programs that TLC checks Spans with.     *)
(***************************************************************************)
EXTENDS Spans

(* Every name at every level.                                              *)
EverySite == Names \X Levels

(* The span named "a" is compiled in, the span named "b" is not.           *)
NamesOfTheirOwn == {<<"a", 1>>, <<"b", 2>>}
=============================================================================
