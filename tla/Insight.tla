------------------------------ MODULE Insight ------------------------------
(***************************************************************************)
(* insight.js: one process that runs a HistoricSync and a PeerSync against *)
(* one bitcoind and one database, with the restarts and the moves of       *)
(* bitcoind between and under them.                                        *)
(***************************************************************************)
EXTENDS PeerSync

CONSTANTS
  Configs,         \* the configurations considered
  KillAnytime,     \* FALSE: the process is only stopped while it has nothing to do
  MoveAnytime,     \* the configurations with which bitcoind moves at other times, too
  FirstTips,       \* where bitcoind may be at first
  MaxMoves,        \* bound: reorganisations and new tips of bitcoind
  MaxKills         \* bound: restarts

ASSUME InsightAssumption ==
  /\ Configs \subseteq Config
  /\ KillAnytime \in BOOLEAN /\ MoveAnytime \subseteq Configs
  /\ FirstTips \subseteq Block
  /\ MaxMoves \in Nat /\ MaxKills \in Nat

VARIABLES
  moves,  \* counts the moves of bitcoind
  kills   \* counts the kills

insightVars ==
  <<vars, node, disk, lastFile, hist, config, inbox, allowReorgs, moves, kills>>

InsightTypeOK ==
  /\ TypeOK
  /\ node \in Block
  /\ disk \in Seq(Block) /\ IsInjective(disk)
  /\ lastFile \in Nat
  /\ hist \in Hist
  /\ config \in Config
  /\ inbox \in Seq(Block)
  /\ allowReorgs \in BOOLEAN

(* What runs after the start of the process. *)
Booted == IF config.disableHistoric THEN NewHist ELSE Started(NewHist, FALSE)

(* Without a dataDir nobody reads the files. *)
Written(n) == IF config.dataDir THEN Received(n) ELSE disk

InsightInit ==
  /\ Init
  /\ config \in Configs
  /\ node \in FirstTips
  /\ disk = IF config.dataDir THEN ByDepth(Chain[node]) ELSE << >>
  /\ lastFile = 0
  /\ hist = Booted
  /\ inbox = << >>
  /\ allowReorgs = config.disableHistoric
  /\ moves = 0 /\ kills = 0

AtRest ==
  /\ Quiet
  /\ hist.status \notin {"starting", "syncing"}
  /\ inbox = << >>
  /\ \A s \in Syncer : waiting[s] = {}

(* bitcoind moves, and tells the peer if there is one. *)
Move ==
  /\ moves < MaxMoves
  /\ config \in MoveAnytime \/ AtRest \/ crashed
  /\ moves' = moves + 1
  /\ \E n \in Block :
       /\ NodeMoves(n)
       /\ disk' = Written(n)
       /\ \/ /\ (config.disableP2p \/ crashed)
             /\ UNCHANGED inbox
          \/ /\ ~config.disableP2p /\ ~crashed
             /\ \E seq \in Announced(n) : inbox' = inbox \o seq
  /\ UNCHANGED <<vars, lastFile, hist, config, allowReorgs, kills>>

(* The callback of the first start lets the peer reorganise, whatever ended *)
(* the loop; an error before the loop does not call it.                    *)
LoopEnds == hist.status = "syncing" /\ hist'.status \in {"finished", "error"}

Historic ==
  /\ \/ FileStep
     \/ /\ SyncStep \/ SyncFails
        /\ UNCHANGED lastFile
  /\ allowReorgs' = (allowReorgs \/ LoopEnds)
  /\ UNCHANGED <<node, disk, config, inbox, moves, kills>>

Peer ==
  /\ HandleBlock \/ StorePeer \/ PeerFails
  /\ UNCHANGED <<node, disk, lastFile, config, moves, kills>>

(* The tip is left at 2 or above: a sync that repeats a lower block throws. *)
Stop ==
  /\ kills < MaxKills
  /\ KillAnytime \/ (AtRest /\ bti.height >= 2)
  /\ Kill
  /\ kills' = kills + 1
  /\ UNCHANGED <<node, disk, lastFile, hist, config, inbox, allowReorgs, moves>>

Reboot ==
  /\ Restart
  /\ hist' = Booted
  /\ inbox' = << >>
  /\ allowReorgs' = config.disableHistoric
  /\ UNCHANGED <<node, disk, lastFile, config, moves, kills>>

InsightNext == Move \/ Historic \/ Peer \/ Stop \/ Reboot

(* Calls are answered, and messages and timers are handled.  No loop has to *)
(* go on past its test: that depends on the version of async.              *)
InsightSpec ==
  /\ InsightInit /\ [][InsightNext]_insightVars
  /\ WF_insightVars(SyncStep /\ ~Looping /\ ~AtTest("historic") /\ Historic)
  /\ WF_insightVars((HandleBlock \/ (StorePeer /\ ~AtTest("peer"))) /\ Peer)
  /\ WF_insightVars(Reboot)

----------------------------------------------------------------------------
(* When nothing is left to do the best chain, and nothing else, is on the  *)
(* main chain: also after updateStartBlock has taken blocks off it and the *)
(* sync has stored the block below them again.                             *)
ChainAtRest == AtRest => BestChainConnected /\ BranchesOrphaned

(* ... its next pointers are there for the reorganisations to come ...     *)
LinksAtRest == AtRest => ForwardLinks

(* ... and its transactions are confirmed in it.                           *)
IndexAtRest == AtRest => TxIndexComplete

(* HistoricSync, or a Sync object, stays at the test of a loop for ever. *)
StandsStill == [](Looping \/ AtTest("historic")) \/ []AtTest("peer")

(* A sync that starts while bitcoind stands still reaches its tip, through  *)
(* the way back from a tip that was orphaned while the process was down, or *)
(* reports an error; all it may do else is to stand at the test of a loop.  *)
CatchesUp ==
  \A n \in Block :
    hist.step = "count" /\ node = n ~>
      \/ node # n \/ crashed
      \/ GetTip.hash = n
      \/ hist.status = "error"
      \/ StandsStill

(* A block bitcoind announces becomes the tip, through a sync when the      *)
(* blocks between were not announced, with the same exceptions.             *)
AnnouncedIsStored ==
  ~config.disableP2p =>
    \A n \in Block : node = n ~>
      \/ node # n \/ crashed
      \/ GetTip.hash = n
      \/ hist.status = "error"
      \/ StandsStill
============================================================================
