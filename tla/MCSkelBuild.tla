----------------------------- MODULE MCSkelBuild -----------------------------
(***************************************************************************)
(* SkelBuild for the model checker: one name that occurs in the root, in   *)
(* two directories below it and outside of src, and another name.          *)
(***************************************************************************)
EXTENDS SkelBuild

In(d, n) == [dir |-> d, name |-> n]

SomeSources == <<In(Root, "a"), In("x", "a"), In("y", "a"), In("x", "b")>>

SomeExplicitSources == {<<>>, <<In(Outside, "a")>>, <<In("x", "a")>>}

NoExplicitSources == {<<>>}

Calls(jobs, objects, others, n) ==
  [jobs |-> jobs, objects |-> objects, others |-> others, edits |-> n]

(* Builder::build, with many edits; Builder::build_objects; a builder that *)
(* exports headers into its out_dir and builds there; and build() in a     *)
(* workspace of two crates.                                                *)
SomeModes ==
  {Calls(Dump(Me), FALSE, {}, 4),
   Calls(Dump(Me), TRUE, {}, 4),
   Calls(Export(Me) \o Dump(Me), FALSE, {}, 1),
   Calls(Export(Shared) \o Dump(Me), FALSE, Scripts \ {Me}, 1)}

OnlyBuild == {Calls(Dump(Me), FALSE, {}, 4)}
=============================================================================
