------------------------------- MODULE MCSync -------------------------------
(***************************************************************************)
(* Small block trees for Sync.                                             *)
(***************************************************************************)
EXTENDS SyncCallers, ReorgInvariant

CONSTANTS g, a, b, c, d, e, f, q, t1, t2, t3, t4, t5, t6, t7, t8, n1, n2

(* A fork at a, and a second one at b:                                     *)
(*     g - a - b - c                                                       *)
(*          \    \                                                         *)
(*           \    f                                                        *)
(*            d - e - q                                                    *)
TreeBlock == {g, a, b, c, d, e, f, q}
TreeParent ==
  [x \in TreeBlock |-> CASE x = g -> Zeros [] x = a -> g [] x = b -> a [] x = c -> b
                         [] x = d -> a [] x = e -> d [] x = f -> b [] x = q -> e]
TreeDepth ==
  [x \in TreeBlock |-> CASE x = g -> 0 [] x = a -> 1 [] x \in {b, d} -> 2
                         [] x \in {c, e, f} -> 3 [] x = q -> 4]
OwnTx ==
  [x \in TreeBlock |-> CASE x = g -> {t1} [] x = a -> {t2} [] x = b -> {t3} [] x = c -> {t4}
                         [] x = d -> {t5} [] x = e -> {t6} [] x = f -> {t7} [] x = q -> {t8}]
TreeTime == [x \in TreeBlock |-> IF x \in {b, d, f} THEN n1 ELSE n2]
DeepBlocks == {x \in TreeBlock : TreeDepth[x] >= 2}

(* The same blocks with a fork inside the branch that leaves a:             *)
(*     g - a - b                                                           *)
(*          \                                                              *)
(*           d - e - q                                                     *)
(*           | \                                                           *)
(*           c  f                                                          *)
NestParent == [x \in TreeBlock |-> IF x \in {c, f} THEN d ELSE TreeParent[x]]
NestDepth == [x \in TreeBlock |-> TreeDepth[x]]

(* A fork above block 1 with a transaction on both branches, and a block   *)
(* to come back to the first one:                                          *)
(*     g - a - b - c                                                       *)
(*          \                                                              *)
(*           d                                                             *)
ForkBlock == {g, a, b, c, d}
ForkParent == [x \in ForkBlock |-> TreeParent[x]]
ForkDepth == [x \in ForkBlock |-> TreeDepth[x]]
ForkTime == [x \in ForkBlock |-> TreeTime[x]]

SharedTx ==
  [x \in ForkBlock |-> CASE x \in {g, c} -> {} [] x = a -> {t1} [] x \in {b, d} -> {t2}]
============================================================================
