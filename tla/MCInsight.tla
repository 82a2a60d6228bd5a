----------------------------- MODULE MCInsight -----------------------------
(***************************************************************************)
(* Small block trees for Insight.                                          *)
(***************************************************************************)
EXTENDS HistoricInvariant

CONSTANTS g, a, b, c, d, e, f, q, t1, t2, t3, t4, t5, t6, t7, t8, n1, n2

(* Two branches above block 2, each of which can grow longer:              *)
(*     g - a - b - c - f                                                   *)
(*              \                                                          *)
(*               d - e - q                                                 *)
TreeBlock == {g, a, b, c, d, e, f, q}
DeepParent ==
  [x \in TreeBlock |-> CASE x = g -> Zeros [] x = a -> g [] x = b -> a [] x \in {c, d} -> b
                         [] x = f -> c [] x = e -> d [] x = q -> e]
DeepDepth ==
  [x \in TreeBlock |-> CASE x = g -> 0 [] x = a -> 1 [] x = b -> 2 [] x \in {c, d} -> 3
                         [] x \in {e, f} -> 4 [] x = q -> 5]
OwnTx ==
  [x \in TreeBlock |-> CASE x = g -> {t1} [] x = a -> {t2} [] x = b -> {t3} [] x = c -> {t4}
                         [] x = d -> {t5} [] x = e -> {t6} [] x = f -> {t7} [] x = q -> {t8}]
TreeTime == [x \in TreeBlock |-> IF x \in {b, d, f} THEN n1 ELSE n2]
Forks == {b, c, d}

(* insight.js with one source or both, over RPC or from the block files. *)
Configured(noPeer, noHistoric, files) ==
  [disableP2p |-> noPeer, disableHistoric |-> noHistoric, dataDir |-> files]
HistoricFiles == {Configured(TRUE, FALSE, TRUE)}
HistoricRpc == {Configured(TRUE, FALSE, FALSE)}
PeerRpc == {Configured(FALSE, FALSE, FALSE)}
PeerAlone == {Configured(FALSE, TRUE, FALSE)}
PeerFiles == {Configured(FALSE, FALSE, TRUE)}
HistoricModes == HistoricFiles \cup HistoricRpc
FaultyModes == PeerAlone \cup HistoricModes
AllModes == HistoricModes \cup PeerRpc
============================================================================
