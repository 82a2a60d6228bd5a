------------------------------ MODULE Bitcoind ------------------------------
(***************************************************************************)
(* The node the API follows, as far as lib/Rpc.js, lib/HistoricSync.js and *)
(* lib/PeerSync.js see it: its tip, the chain under it, and the blocks it  *)
(* announces.  External: modelled from what those modules ask of it.       *)
(***************************************************************************)
EXTENDS Sync, FiniteSetsExt, SequencesExt

CONSTANT AnnounceModes  \* TRUE in it: peers may be told of every new block, FALSE: of the tip

ASSUME BitcoindAssumption == AnnounceModes \subseteq BOOLEAN

VARIABLE node   \* the tip of bitcoind

(* The blocks with a positive number of confirmations. *)
Active == Chain[node]

(* getblock: nextblockhash is only there for a block on the active chain. *)
NextBlockHash(b) ==
  IF b \in Active \ {node} THEN CHOOSE n \in Active : Parent[n] = b ELSE NoHash

(* Blocks of a chain in the order in which bitcoind received them. *)
Deepest(B) == CHOOSE b \in B : \A x \in B : Depth[x] <= Depth[b]
ByDepth(B) ==
  MapThenFoldSet(LAMBDA b, seq : Append(seq, b), << >>, LAMBDA b : b, Deepest, B)

(* What a peer may be told when the tip moves to n. *)
Announced(n) ==
  {IF all THEN ByDepth(Chain[n] \ Active) ELSE <<n>> : all \in AnnounceModes}

(* bitcoind leaves its chain only for a longer one. *)
NodeMoves(n) ==
  /\ Depth[n] > Depth[node]
  /\ node' = n
============================================================================
