--------------------------- MODULE MC_NanCluster ---------------------------
(***************************************************************************)
(* Model-checking instances of NanCluster: three devices with addresses    *)
(* 1 < 2 < 3, so n3 has the highest rank while preferences are equal.     *)
(***************************************************************************)
EXTENDS NanCluster

CONSTANTS n1, n2, n3

MCNode == {n1, n2, n3}
MCAddr == [n \in MCNode |-> CASE n = n1 -> 1 [] n = n2 -> 2 [] n = n3 -> 3]

\* Every device hears every other one close by.
MCRssiClose == [l \in MCNode \X MCNode |-> -50]

\* Every device drew its own cluster id (ids are named after the device).
MCClusterOwn == [n \in MCNode |-> n]

\* The three clocks are a third of a DW interval apart.
MCOffsetApart == [n \in MCNode |-> CASE n = n1 -> 0 [] n = n2 -> 174762 [] n = n3 -> 349525]

=============================================================================
