------------------------------ MODULE MCHashMap ------------------------------
(***************************************************************************)
(* HashMap for the model checker: the batches that matter are the empty    *)
(* one, one that names a key twice and one that does not fit into the map; *)
(* two keys share a bucket, and the third lies behind them.                *)
(***************************************************************************)
EXTENDS HashMap

SomeBuckets == [k \in Keys |-> IF k = "k2" THEN 2 ELSE 1]

SomeBatches == {<<>>, <<"k1", "k1">>, <<"k1", "k2", "k3">>}
=============================================================================
