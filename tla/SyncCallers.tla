---------------------------- MODULE SyncCallers ----------------------------
(***************************************************************************)
(* Sync under callers that hand it blocks in any order: the environment in *)
(* which the properties of lib/Sync.js are checked and proved.             *)
(***************************************************************************)
EXTENDS Sync, FiniteSets

CONSTANTS
  AllowModes, \* the values of allowReorgs that callers pass
  Repeat,     \* blocks that may be delivered again while they are the tip
  Redeliver,  \* TRUE: any block may be delivered at any time
  MaxCalls    \* bound: unfinished calls a Sync object may have

ASSUME CallersAssumption ==
  /\ AllowModes \subseteq BOOLEAN
  /\ Repeat \subseteq Block
  /\ Redeliver \in BOOLEAN
  /\ MaxCalls \in Nat

(* The callers.  HistoricSync starts with Genesis on an empty database and *)
(* follows nextblockhash; a peer announces a block once.  So a block comes *)
(* once, except that a sync repeats the tip as its first call (Repeat) and *)
(* that the two sources overlap (Redeliver).                               *)

Calls(s) == waiting[s] \cup
  (IF storingBlock(s) THEN {[blk |-> job[s].blk, allow |-> job[s].allow]} ELSE {})

Busy(b) == \E s \in Syncer : \E call \in Calls(s) : call.blk = b

MayDeliver(b, a) ==
  /\ IF a THEN GetTip = NoEntry <=> b = Genesis ELSE b # Genesis
  /\ \/ Redeliver
     \/ ~Has(b) /\ ~Busy(b)
     \/ b \in Repeat /\ GetTip.hash = b /\ \A s \in Syncer : Calls(s) = {}

Deliver(s) ==
  /\ Cardinality(Calls(s)) < MaxCalls
  /\ \E b \in Block, a \in AllowModes :
       MayDeliver(b, a) /\ StoreTipBlock(s, [blk |-> b, allow |-> a])

Next == Fault \/ \E s \in Syncer : Deliver(s) \/ Polls(s) \/ Step(s)

(* Every call is answered and every timer fires; nothing obliges a block  *)
(* to arrive or a failure to happen.  Nor does a loop have to go on past    *)
(* its test: that depends on the version of async.                         *)
Fairness == \A s \in Syncer : WF_vars(Step(s) /\ ~AtTest(s)) /\ WF_vars(Polls(s))

Spec == Init /\ [][Next]_vars /\ Fairness

----------------------------------------------------------------------------
(* Liveness. *)

(* A job answers, or stands at one test of a loop for ever: the walks along *)
(* prev and next pointers do not go on for ever.                           *)
LockReleased == \A s \in Syncer : storingBlock(s) ~> ~storingBlock(s) \/ []AtTest(s)

(* A call that found the lock taken is started in the end, once no further *)
(* calls arrive (the polls are not queued, so new calls may overtake it),  *)
(* unless the job in its way stands still.                                 *)
WaitersServed ==
  <>[][\A s \in Syncer : ~Deliver(s)]_vars =>
    \A s \in Syncer, b \in Block, a \in AllowModes :
      LET call == [blk |-> b, allow |-> a] IN
        call \in waiting[s] ~> call \notin waiting[s] \/ []AtTest(s)

(* "trigger reorg case 2": "shouldnt return error"                          *)
(* (test/integration/99-sync.js.descructive-test:197-201): storeTipBlock   *)
(* answers a call that makes it reorganise.                                *)
ReorgsAnswered == \A s \in Syncer : pc[s] = "reorg" ~> pc[s] = "idle"
============================================================================
