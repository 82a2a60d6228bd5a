----------------------------- MODULE SyncProofs -----------------------------
(***************************************************************************)
(* Proofs about storeTipBlock for any block tree, any number of Sync       *)
(* objects, any deliveries and any failures.  The type invariant holds in  *)
(* every mode; what the database says of heights and transactions is       *)
(* proved for callers that allow reorganisations, the mode of HistoricSync *)
(* and of PeerSync once the initial sync is over.                          *)
(***************************************************************************)
EXTENDS SyncCallers, ReorgLemmas

(* A delivered block is a call of storeTipBlock. *)
LEMMA DeliverCalls ==
  ASSUME NEW s \in Syncer, Deliver(s)
  PROVE  \E call \in Call :
           /\ StoreTipBlock(s, call)
           /\ call.allow \in AllowModes
           /\ call.allow => (call.blk # Genesis => GetTip # NoEntry)
<1>1. PICK b \in Block, a \in AllowModes :
        MayDeliver(b, a) /\ StoreTipBlock(s, [blk |-> b, allow |-> a])
  BY DEF Deliver
<1>2. [blk |-> b, allow |-> a] \in Call BY CallersAssumption DEF Call
<1> QED BY <1>1, <1>2 DEF MayDeliver

----------------------------------------------------------------------------
(* Types. *)

LEMMA TypeStep == TypeOK /\ [Next]_vars => TypeOK'
BY DeliverCalls, StoreTipBlockType, PollsType, StepType, FaultType, StutterType DEF Next

(* Every value the code keeps has the type its key or field is read with.  *)
THEOREM TypeCorrect == Spec => []TypeOK
BY TypeInit, TypeStep, PTL DEF Spec

----------------------------------------------------------------------------
(* The inductive invariant. *)

LEMMA DeliverInv ==
  ASSUME AllowModes = {TRUE}, IInv, TypeOK', NEW s \in Syncer, Deliver(s)
  PROVE  IInv'
<1>1. PICK call \in Call : /\ StoreTipBlock(s, call) /\ call.allow
                           /\ call.blk # Genesis => GetTip # NoEntry
  BY DeliverCalls
<1>2. CallInv(call) BY <1>1, KeyFacts DEF CallInv, IInv, DbInv, TipInv, GetTip
<1> QED BY <1>1, <1>2, StoreTipBlockInv

LEMMA NextInv ==
  ASSUME AllowModes = {TRUE}, IInv, [Next]_vars
  PROVE  IInv'
<1>1. TypeOK' BY TypeStep DEF IInv
<1> QED BY <1>1, DeliverInv, PollsInv, StepInv, FaultInv, StutterInv DEF Next

(* The inductive invariant, for callers that allow reorganisations: every   *)
(* unfinished job keeps what it needs for its next writes to be truthful.   *)
THEOREM Invariant ==
  ASSUME AllowModes = {TRUE}
  PROVE  Spec => []IInv
<1>1. IInv /\ [Next]_vars => IInv' BY NextInv
<1> QED BY InitInv, <1>1, PTL DEF Spec

----------------------------------------------------------------------------
(* The results. *)

(* Whatever two Sync objects, kills and failing calls leave behind, a      *)
(* stored block carries -1 or its true height.                             *)
THEOREM HeightsCorrect ==
  ASSUME AllowModes = {TRUE}
  PROVE  Spec => []HeightsTruthful
<1>1. IInv => HeightsTruthful BY DEF IInv, DbInv
<1> QED BY Invariant, <1>1, PTL

(* ... and no transaction is ever indexed under a block that does not hold *)
(* it or is off the main chain at that height.                             *)
THEOREM TxIndexCorrect ==
  ASSUME AllowModes = {TRUE}
  PROVE  Spec => []TxIndexTruthful
<1>1. IInv => TxIndexTruthful BY DEF IInv, DbInv
<1> QED BY Invariant, <1>1, PTL

----------------------------------------------------------------------------
(* The implementation of the abstract store. *)

LEMMA NextRefines ==
  ASSUME IInv, [Next]_vars
  PROVE  [Abstract!Next]_Shown
BY StepRefines, OthersStutter, DeliverCalls DEF Next

(* storeTipBlock, with its faults, implements the abstract block store:    *)
(* a block is stored for good, on a stored parent, and the tip is stored   *)
(* before it is adopted, with its true height.                             *)
THEOREM StoreRefines ==
  ASSUME AllowModes = {TRUE}
  PROVE  Spec => BlocksOnStoredParents
<1>1. IInv /\ [Next]_vars => [Abstract!Next]_Shown
  BY NextRefines
<1> QED BY InitRefines, Invariant, <1>1, PTL DEF Spec, Shown, BlocksOnStoredParents, Abstract!Spec

----------------------------------------------------------------------------
(* Reorganisations.  What a job found out stays true while it runs: there  *)
(* is one Sync object, nothing fails, and a block comes once, except that  *)
(* the tip may be repeated.  Genesis has one child and is not the tip that *)
(* is repeated, nor is block 1: the code takes height 0 for a missing      *)
(* block.                                                                  *)

OneAtATime ==
  /\ \E s \in Syncer : Syncer = {s}
  /\ AllowModes = {TRUE} /\ Faults = {} /\ ~Redeliver
  /\ \A b \in Repeat : Depth[b] >= 2
  /\ OneFirstBlock

LEMMA DeliverTurn ==
  ASSUME OneAtATime, IInv, RInv, NEW s \in Syncer, Syncer = {s}, Deliver(s)
  PROVE  RInv'
<1>1. PICK b \in Block : MayDeliver(b, TRUE) /\ StoreTipBlock(s, [blk |-> b, allow |-> TRUE])
  BY DEF Deliver, OneAtATime
<1> DEFINE call == [blk |-> b, allow |-> TRUE]
<1>2. call \in Call /\ call.allow /\ call.blk = b BY DEF Call
<1>3. waiting[s] \subseteq Calls(s) BY DEF Calls
<1>4. CASE ~Has(b) /\ ~Busy(b)
  <2>1. \A other \in Calls(s) : other.blk # b BY <1>4 DEF Busy
  <2>2. FreshCall(s, call) BY <1>2, <1>3, <1>4, <2>1 DEF FreshCall
  <2>3. ASSUME pc[s] # "idle" PROVE job[s].blk # b
    <3>1. [blk |-> job[s].blk, allow |-> job[s].allow] \in Calls(s)
      BY <2>3 DEF Calls, storingBlock
    <3> QED BY <2>1, <3>1
  <2> HIDE DEF call
  <2> QED BY <1>1, <1>2, <1>4, <2>2, <2>3, StoreTipBlockTurn DEF call
<1>5. CASE b \in Repeat /\ GetTip.hash = b /\ \A r \in Syncer : Calls(r) = {}
  <2>1. pc[s] = "idle" /\ waiting[s] = {} BY <1>5 DEF Calls, storingBlock
  <2>2. GetTip = bti BY DEF RInv, PointerInv, GetTip
  <2>3. FreshCall(s, call) BY <1>2, <1>5, <2>1, <2>2 DEF FreshCall, OneAtATime
  <2> HIDE DEF call
  <2> QED BY <1>1, <1>2, <2>1, <2>3, StoreTipBlockTurn DEF call
<1> QED BY <1>1, <1>4, <1>5 DEF MayDeliver, OneAtATime

LEMMA NextTurn ==
  ASSUME OneAtATime, IInv, RInv, StraightBranches, [Next]_vars
  PROVE  RInv'
<1>1. PICK s \in Syncer : Syncer = {s} BY DEF OneAtATime
<1>2. ~Fault
  BY DEF OneAtATime, Fault, Kill, Restart, AddTxsFails, HeightChangeThrows
<1>3. CASE Next
  <2>1. Deliver(s) \/ Polls(s) \/ Step(s) BY <1>1, <1>2, <1>3 DEF Next
  <2> QED BY <1>1, <2>1, DeliverTurn, PollsTurn, StepTurn DEF OneAtATime, StraightBranches
<1>4. CASE UNCHANGED vars BY <1>4, ReorgStutters
<1> QED BY <1>3, <1>4

(* At every step of a reorganisation the connected blocks are those the    *)
(* phase says, as long as no branch that is connected forked itself.       *)
THEOREM ReorgInvariantHolds ==
  ASSUME OneAtATime
  PROVE  Spec => ([]StraightBranches => []RInv)
<1>1. AllowModes = {TRUE} BY DEF OneAtATime
<1>2. IInv /\ RInv /\ StraightBranches /\ [Next]_vars => RInv' BY NextTurn
<1> QED BY <1>1, <1>2, Invariant, ReorgInit, PTL DEF Spec

(* Between two calls the connected blocks are the best chain. *)
LEMMA AtRest ==
  ASSUME IInv, RInv, Quiet, Syncer # {}
  PROVE  /\ Connected = Best /\ Best \subseteq Block
         /\ \A b \in Best : main[b] = Depth[b] /\ next[Parent[b]] = b
         /\ \A b \in Block \ Best : Has(b) => main[b] = -1
<1>1. PICK s \in Syncer : pc[s] = "idle" BY DEF Quiet, storingBlock
<1>2. Connected = Best /\ Linked(Best)
  BY <1>1 DEF RInv, TurnInv, ConnectedInv, LinkedInv
<1> QED BY <1>2, BestFacts, ConnectedFacts DEF Linked

(* processReorg connects the whole branch under the new tip, ... *)
THEOREM BestChainIsConnected ==
  ASSUME OneAtATime
  PROVE  Spec => ([]StraightBranches => []BestChainConnected)
<1>1. AllowModes = {TRUE} BY DEF OneAtATime
<1>2. IInv /\ RInv => BestChainConnected
  BY AtRest DEF BestChainConnected, OneAtATime
<1> QED BY <1>1, <1>2, Invariant, ReorgInvariantHolds, PTL

(* ... disconnects every block of the branch it leaves, ... *)
THEOREM OldBranchIsOrphaned ==
  ASSUME OneAtATime
  PROVE  Spec => ([]StraightBranches => []BranchesOrphaned)
<1>1. AllowModes = {TRUE} BY DEF OneAtATime
<1>2. IInv /\ RInv => BranchesOrphaned
  BY AtRest DEF BranchesOrphaned, OneAtATime
<1> QED BY <1>1, <1>2, Invariant, ReorgInvariantHolds, PTL

(* ... leaves next pointers that lead from Genesis to the tip ... *)
THEOREM NextLeadsToTip ==
  ASSUME OneAtATime
  PROVE  Spec => ([]StraightBranches => []ForwardLinks)
<1>1. AllowModes = {TRUE} BY DEF OneAtATime
<1>2. IInv /\ RInv => ForwardLinks
  BY AtRest DEF ForwardLinks, OneAtATime
<1> QED BY <1>1, <1>2, Invariant, ReorgInvariantHolds, PTL

(* ... and never throws. *)
THEOREM ReorgNeverThrows ==
  ASSUME OneAtATime
  PROVE  Spec => ([]StraightBranches => []NeverCrashes)
<1>1. RInv => NeverCrashes BY DEF RInv, NeverCrashes
<1> QED BY <1>1, ReorgInvariantHolds, PTL

(* A transaction that one block alone holds is indexed under that block at *)
(* every step at which the block is connected, whatever fails.             *)
THEOREM OwnIndexCorrect ==
  ASSUME AllowModes = {TRUE}, OwnTxs
  PROVE  Spec => []OwnIndexInv
<1>1. Init => OwnIndexInv
  BY KeyFacts DEF Init, DbInit, OwnIndexInv, Connected, Has
<1>2. ASSUME IInv, OwnIndexInv, Next PROVE OwnIndexInv'
  <2>1. CASE Fault
    BY <1>2, <2>1, OwnIndexSame
       DEF Fault, Kill, Restart, AddTxsFails, HeightChangeThrows, dbVars
  <2>2. ASSUME NEW s \in Syncer, Deliver(s) \/ Polls(s) PROVE OwnIndexInv'
    BY <1>2, <2>2, DeliverCalls, OwnIndexSame DEF Polls, Poll, StoreTipBlock, dbVars
  <2> QED BY <1>2, <2>1, <2>2, OwnIndexStep DEF Next
<1>3. ASSUME OwnIndexInv, UNCHANGED vars PROVE OwnIndexInv'
  BY <1>3, OwnIndexSame DEF vars, dbVars
<1>4. IInv /\ OwnIndexInv /\ [Next]_vars => OwnIndexInv' BY <1>2, <1>3
<1> QED BY <1>1, <1>4, Invariant, PTL DEF Spec

(* So every transaction of the best chain is indexed between two calls. *)
THEOREM TxIndexIsComplete ==
  ASSUME OneAtATime, OwnTxs
  PROVE  Spec => ([]StraightBranches => []TxIndexComplete)
<1>1. AllowModes = {TRUE} BY DEF OneAtATime
<1>2. IInv /\ RInv /\ OwnIndexInv => TxIndexComplete
  BY AtRest DEF TxIndexComplete, OneAtATime, OwnIndexInv
<1> QED BY <1>1, <1>2, Invariant, ReorgInvariantHolds, OwnIndexCorrect, PTL
=============================================================================
