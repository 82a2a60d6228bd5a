---------------------------- MODULE AnswerProofs ----------------------------
(***************************************************************************)
(* The invariant of AnswerInvariant is inductive, step by step, and what a *)
(* finished request says follows from it.                                  *)
(*                                                                         *)
(* A request counts only while its mark is bitcoind's tip.  Then the store *)
(* is up to date and its index is the chain (StoreIsCurrent), so nothing   *)
(* is fed (NothingFed), the spends that are known stay known (StepKeeps)   *)
(* and each lookup answers what the chain says.  When bitcoind moves, the  *)
(* mark is no longer its tip, and never will be again (AdvanceMarks).      *)
(***************************************************************************)
EXTENDS AnswerInvariant, LedgerProofs

(* While the store is up to date its index is the chain of bitcoind. *)
IndexCurrent ==
  /\ Connected = Active /\ Active \subseteq Block
  /\ GetTip.height = Depth[node] /\ Depth[node] \in Nat
  /\ \A t \in Tx : btx[t].height >= 0 => Confirmed(t)
  /\ \A t \in Tx : Confirmed(t) =>
       /\ btx[t] # NoEntry /\ btx[t].height \in Nat /\ btx[t].height <= Depth[node]
       /\ RpcConfirmations(t) = Depth[node] - btx[t].height + 1
       /\ Kept(t)

(* bitcoind counts from the one block of a transaction. *)
LEMMA OneBlock ==
  ASSUME OwnTxs, node \in Block, NEW b \in Active, NEW t \in TxsOf[b]
  PROVE  /\ Confirmed(t) /\ BlocksWith(t) = {b}
         /\ RpcConfirmations(t) = Depth[node] - Depth[b] + 1
<1>1. Active \subseteq Block BY ChainFacts DEF Active
<1>2. BlocksWith(t) = {b} BY <1>1 DEF BlocksWith, OwnTxs
<1>3. Confirmed(t) BY <1>2 DEF Confirmed
<1>4. Depth[b] \in Nat BY <1>1, DepthsAreNat
<1> DEFINE S == {Depth[c] : c \in BlocksWith(t)}
<1>5. S = {Depth[b]} BY <1>2
<1>6. RpcConfirmations(t) = Depth[node] - Min(S) + 1 BY <1>3 DEF RpcConfirmations
<1> HIDE DEF S
<1>7. Min(S) = Depth[b] BY <1>4, <1>5 DEF Min
<1> QED BY <1>2, <1>3, <1>6, <1>7

LEMMA StoreIsCurrent ==
  ASSUME OneFollower, OwnTxs, LedgerInv, RInv, CacheInv, OwnIndexInv, StoreCurrent
  PROVE  IndexCurrent
<1>1. PICK s \in Syncer : Syncer = {s} BY DEF OneFollower
<1>2. node \in Block /\ node # NoHash BY KeyFacts DEF LedgerInv
<1>3. bti # NoEntry /\ GetTip = bti
  BY <1>2 DEF StoreCurrent, GetTip, RInv, PointerInv, NoEntry
<1>4. bti.hash = node BY <1>3 DEF StoreCurrent
<1>5. bti.height = Depth[node] BY <1>3, <1>4 DEF LedgerInv, IInv, DbInv, TipInv, TruthfulTip
<1>6. Active = Best /\ Active \subseteq Block /\ Depth[node] \in Nat
  BY <1>2, <1>3, <1>4, ChainFacts, DepthsAreNat DEF Active, Best
<1>7. Connected = Active
  BY <1>1, <1>6 DEF StoreCurrent, Quiet, storingBlock, RInv, TurnInv, ConnectedInv
<1>8. ASSUME NEW t \in Tx, btx[t].height >= 0 PROVE Confirmed(t)
  <2>1. btx[t] # NoEntry BY <1>8 DEF NoEntry
  <2> DEFINE b == btx[t].hash
  <2>2. t \in TxsOf[b] /\ main[b] >= 0
    BY <1>8, <2>1 DEF LedgerInv, IInv, DbInv, TxIndexTruthful
  <2>3. b \in Block /\ Has(b) BY <2>1 DEF CacheInv, EntriesStored, Stored
  <2>4. b \in Active BY <1>7, <2>2, <2>3 DEF Connected
  <2> QED BY <1>2, <2>2, <2>4, OneBlock
<1>9. ASSUME NEW t \in Tx, Confirmed(t)
      PROVE  /\ btx[t] # NoEntry /\ btx[t].height \in Nat /\ btx[t].height <= Depth[node]
             /\ RpcConfirmations(t) = Depth[node] - btx[t].height + 1
             /\ Kept(t)
  <2>1. PICK b \in Active : t \in TxsOf[b] BY <1>9 DEF Confirmed, BlocksWith
  <2>2. btx[t].hash = b /\ b \in Block BY <1>6, <1>7, <2>1 DEF OwnIndexInv
  <2>3. btx[t] # NoEntry BY <2>2, KeyFacts DEF NoEntry
  <2>4. btx[t].height = main[b]
    BY <2>2, <2>3 DEF LedgerInv, IInv, DbInv, TxIndexTruthful
  <2>5. main[b] = Depth[b] BY <1>7, <2>1, <2>2, ConnectedFacts DEF LedgerInv
  <2>6. Depth[b] \in Nat BY <2>2, DepthsAreNat
  <2>7. b = node \/ Depth[b] < Depth[node] BY <1>2, <2>1, ChainOrder DEF Active
  <2>8. Kept(t) BY <2>3 DEF LedgerInv, KeptInv
  <2>9. RpcConfirmations(t) = Depth[node] - Depth[b] + 1 BY <1>2, <2>1, OneBlock
  <2> QED BY <1>6, <2>3, <2>4, <2>5, <2>6, <2>7, <2>8, <2>9
<1> QED BY <1>3, <1>5, <1>6, <1>7, <1>8, <1>9 DEF IndexCurrent

(* On bitcoind's chain an output has one spender at most, and that its     *)
(* transaction is there.                                                   *)
LEMMA OneSpender ==
  ASSUME ValidBlocks, node \in Block, NEW o \in Out, NEW t \in SpendersOf(o)
  PROVE  SpendersOf(o) = {t} /\ Confirmed(TxOf[o])
<1>1. Active \subseteq Block BY ChainFacts DEF Active
<1>2. PICK b \in Active : t \in TxsOf[b] /\ o \in Inputs(t)
  BY DEF SpendersOf, Confirmed, BlocksWith
<1>3. Confirmed(TxOf[o])
  <2>1. PICK c \in Chain[b] : TxOf[o] \in TxsOf[c] BY <1>1, <1>2 DEF ValidBlocks
  <2>2. c \in Active BY <1>2, <2>1, ChainOrder DEF Active
  <2> QED BY <2>1, <2>2 DEF Confirmed, BlocksWith
<1>4. ASSUME NEW u \in SpendersOf(o) PROVE u = t
  <2>1. PICK c \in Active : u \in TxsOf[c] /\ o \in Inputs(u)
    BY DEF SpendersOf, Confirmed, BlocksWith
  <2>2. b \in Chain[c] \/ c \in Chain[b] BY <1>2, <2>1, ChainOrder DEF Active
  <2>3. Inputs(t) \cap Inputs(u) # {} BY <1>2, <2>1
  <2>4. CASE c \in Chain[b] BY <1>1, <1>2, <2>1, <2>3, <2>4 DEF ValidBlocks
  <2>5. CASE b \in Chain[c] BY <1>1, <1>2, <2>1, <2>3, <2>5 DEF ValidBlocks
  <2> QED BY <2>2, <2>4, <2>5
<1> QED BY <1>3, <1>4

(* The chain's spender is known, and who is known and confirmed is it. *)
LEMMA SpendersFound ==
  ASSUME IndexCurrent, RowsTrue, NEW o \in Out
  PROVE  /\ SpendersOf(o) \subseteq Spends(o)
         /\ \A t \in Spends(o) : Confirmed(t) => t \in SpendersOf(o)
         /\ NoHash \notin Spends(o)
<1>1. ASSUME NEW t \in SpendersOf(o) PROVE t \in Spends(o)
  <2>1. t \in Tx /\ Confirmed(t) /\ o \in Inputs(t) BY DEF SpendersOf
  <2> QED BY <2>1 DEF IndexCurrent, Kept, Spends
<1>2. ASSUME NEW t \in Spends(o), Confirmed(t) PROVE t \in SpendersOf(o)
  BY <1>2 DEF SpendersOf, RowsTrue, Spends
<1>3. NoHash \notin Spends(o) BY LedgerAssumption DEF Spends
<1> QED BY <1>1, <1>2, <1>3

----------------------------------------------------------------------------
(* What a request knows stays true while bitcoind and the index do.        *)

LEMMA SameChain ==
  ASSUME node' = node
  PROVE  /\ \A t : Confirmed(t)' = Confirmed(t)
         /\ \A t : RpcConfirmations(t)' = RpcConfirmations(t)
         /\ \A o : SpendersOf(o)' = SpendersOf(o)
         /\ \A a : ReceivedBy(a)' = ReceivedBy(a) /\ KeptBy(a)' = KeptBy(a)
         /\ \A a : Touching(a)' = Touching(a)
<1>1. \A t : BlocksWith(t)' = BlocksWith(t) BY DEF BlocksWith, Active
<1>2. \A t : Confirmed(t)' = Confirmed(t) BY <1>1 DEF Confirmed
<1>3. \A t : RpcConfirmations(t)' = RpcConfirmations(t)
  BY <1>1, <1>2 DEF RpcConfirmations
<1>4. \A o : SpendersOf(o)' = SpendersOf(o) BY <1>2 DEF SpendersOf
<1>5. \A a : ReceivedBy(a)' = ReceivedBy(a) BY <1>2 DEF ReceivedBy
<1>6. \A a : KeptBy(a)' = KeptBy(a) BY <1>4, <1>5 DEF KeptBy
<1>7. \A a : Touching(a)' = Touching(a) BY <1>4, <1>5 DEF Touching
<1> QED BY <1>2, <1>3, <1>4, <1>5, <1>6, <1>7

SpendsKeep == \A o \in Out : Spends(o) \subseteq Spends(o)'
AnswersKeep == node' = node /\ (StoreCurrent => StoreCurrent') /\ SpendsKeep

(* The items are outputs and the lookups those of items. *)
OfOutputs(q) ==
  DOMAIN q.items \subseteq Out /\ \A look \in q.looks : look[1] \in DOMAIN q.items

LEMMA MarkKeeps ==
  ASSUME AnswersKeep, NEW at, Marked(at)
  PROVE  Marked(at)'
BY DEF AnswersKeep, Marked

LEMMA KnownKeeps ==
  ASSUME SpendsKeep, NEW q, OfOutputs(q), SpendersKnown(q)
  PROVE  SpendersKnown(q)'
BY DEF SpendsKeep, OfOutputs, SpendersKnown

LEMMA SumsKeep ==
  ASSUME node' = node, NEW a, NEW answer, SumsTrue(a, answer)
  PROVE  SumsTrue(a, answer)'
<1>1. /\ \A t : Confirmed(t)' = Confirmed(t)
      /\ ReceivedBy(a)' = ReceivedBy(a) /\ KeptBy(a)' = KeptBy(a) /\ Touching(a)' = Touching(a)
  BY SameChain
<1>2. ASSUME NEW S PROVE Value(S)' = Value(S) BY DEF Value, MapThenSumSet, MapThenFoldSet
<1> QED BY <1>1, <1>2 DEF SumsTrue

LEMMA AnswerKeeps ==
  ASSUME AnswersKeep, NEW q, OfOutputs(q), ReplyInv(q)
  PROVE  ReplyInv(q)'
<1> USE DEF AnswersKeep, ReplyInv
<1>1. Marked(q.at)' /\ SpendersKnown(q)' BY MarkKeeps, KnownKeeps
<1>2. ASSUME RequestTrue(q) PROVE RequestTrue(q)'
  <2> USE SameChain
  <2>1. ASSUME NEW o \in DOMAIN q.items PROVE ItemTrue(q, o, q.items[o])'
    BY <1>2 DEF RequestTrue, ItemTrue
  <2>2. ASSUME NEW o \in DOMAIN q.items PROVE ItemWhole(q, o, q.items[o])'
    BY <1>2 DEF RequestTrue, ItemWhole
  <2>3. q.pc \notin {"idle", "script", "done"} => (ReceivedBy(q.addr) \subseteq DOMAIN q.items)'
    BY <1>2 DEF RequestTrue
  <2>4. q.pc = "fill" => (q.chainHeight = Depth[node])' BY <1>2 DEF RequestTrue
  <2>5. ReceivedBy(q.addr) \subseteq Out /\ KeptBy(q.addr) \subseteq Out
    BY DEF ReceivedBy, KeptBy
  <2>6. q.pc = "script" =>
          (/\ q.onlyUnspent
           /\ \A o \in ReceivedBy(q.addr) : o \in DOMAIN q.items \/ Spends(o) # {}
           /\ \A o \in DOMAIN q.items : q.items[o].spent = NoHash)'
    BY <1>2, <2>5 DEF RequestTrue, SpendsKeep
  <2>7. ASSUME NEW listed, ListTrue(q.addr, listed) PROVE ListTrue(q.addr, listed)'
    <3>1. \A o \in KeptBy(q.addr) : Spends(o)' = {} => <<o, TRUE>> \in listed
      BY <2>5, <2>7 DEF SpendsKeep, ListTrue
    <3>2. \A entry \in listed : (SpendersOf(entry[1]) = {} /\ entry[2] = Confirmed(TxOf[entry[1]]))'
      BY <2>7 DEF ListTrue
    <3> QED BY <3>1, <3>2 DEF ListTrue
  <2>8. q.pc = "done" /\ q.onlyUnspent => ListTrue(q.addr, q.answer.unspent)'
    BY <1>2, <2>7 DEF RequestTrue
  <2>9. q.pc = "done" /\ ~q.onlyUnspent => SumsTrue(q.addr, q.answer)'
    BY <1>2, SumsKeep DEF RequestTrue
  <2> QED BY <2>1, <2>2, <2>3, <2>4, <2>6, <2>8, <2>9 DEF RequestTrue
<1> QED BY <1>1, <1>2

(* A request whose mark is not bitcoind's tip promises little. *)
LEMMA AnswerOff ==
  ASSUME SpendsKeep, NEW q, OfOutputs(q), ReplyInv(q), Marked(q.at)', q.at # node'
  PROVE  ReplyInv(q)'
BY KnownKeeps DEF ReplyInv

----------------------------------------------------------------------------
(* The phases of a request for an address follow each other. *)

SameRequest(q, new) ==
  /\ new.items = q.items /\ new.looks = q.looks /\ new.chainHeight = q.chainHeight
  /\ new.addr = q.addr /\ new.onlyUnspent = q.onlyUnspent /\ new.at = q.at

LEMMA PhaseAnswer ==
  ASSUME NEW q, ReplyInv(q), q.pc \in {"spends", "rpc", "rpcSpent"},
         q.todo = {}, NEW new, SameRequest(q, new), new.pc \in {"rpc", "rpcSpent", "tip"}
  PROVE  ReplyInv(new)
<1> USE DEF SameRequest, ReplyInv
<1>1. Marked(new.at) /\ SpendersKnown(new) BY DEF SpendersKnown
<1>2. ASSUME RequestTrue(q) PROVE RequestTrue(new)
  <2>1. ASSUME NEW o \in DOMAIN q.items
        PROVE  ItemTrue(new, o, q.items[o]) /\ ItemWhole(new, o, q.items[o])
    BY <1>2 DEF RequestTrue, ItemTrue, ItemWhole
  <2> QED BY <1>2, <2>1 DEF RequestTrue
<1> QED BY <1>1, <1>2

LEMMA EnterAnswer ==
  ASSUME NEW q, RequestFields(q), ReplyInv(q), q.pc \in {"spends", "rpc", "rpcSpent"},
         q.todo = {}, NEW new, new \in {EnterRpc(q), EnterRpcSpent(q), [q EXCEPT !.pc = "tip"]}
  PROVE  ReplyInv(new)
<1> DEFINE spent == {o \in DOMAIN q.items : q.items[o].spent # NoHash /\ ~q.items[o].spentConfirmed}
           own == {o \in DOMAIN q.items : ~q.items[o].confirmed}
           phase == IF spent = {} THEN "tip" ELSE "rpcSpent"
<1>1. RequestFields(q) OBVIOUS
<1>2. EnterRpcSpent(q) = [q EXCEPT !.pc = phase, !.todo = spent] BY DEF EnterRpcSpent
<1>3. EnterRpc(q) = IF own = {} THEN EnterRpcSpent(q) ELSE [q EXCEPT !.pc = "rpc", !.todo = own]
  BY DEF EnterRpc
<1>4. phase \in {"tip", "rpcSpent"} OBVIOUS
<1> HIDE DEF spent, own, phase
<1>5. CASE new = [q EXCEPT !.pc = phase, !.todo = spent]
  <2>1. SameRequest(q, new) /\ new.pc = phase BY <1>1, <1>5 DEF SameRequest, RequestFields
  <2> QED BY <1>4, <2>1, PhaseAnswer
<1>6. CASE new = [q EXCEPT !.pc = "rpc", !.todo = own]
  <2>1. SameRequest(q, new) /\ new.pc = "rpc" BY <1>1, <1>6 DEF SameRequest, RequestFields
  <2> QED BY <2>1, PhaseAnswer
<1>7. CASE new = [q EXCEPT !.pc = "tip"]
  <2>1. SameRequest(q, new) /\ new.pc = "tip" BY <1>1, <1>7 DEF SameRequest, RequestFields
  <2> QED BY <2>1, PhaseAnswer
<1> QED BY <1>2, <1>3, <1>5, <1>6, <1>7

LEMMA FilledAnswer ==
  ASSUME NEW q, RequestFields(q), ReplyInv(q), q.pc = "fill", q.todo = {}, q.looks = {},
         NEW new, new = [q EXCEPT !.pc = "cache"]
  PROVE  ReplyInv(new)
<1>1. RequestFields(q) OBVIOUS
<1>2. SameRequest(q, new) /\ new.pc = "cache" /\ new.todo = q.todo
  BY <1>1 DEF SameRequest, RequestFields
<1> USE <1>2 DEF SameRequest, ReplyInv
<1>3. Marked(new.at) /\ SpendersKnown(new) BY DEF SpendersKnown
<1>4. ASSUME RequestTrue(q) PROVE RequestTrue(new)
  <2>1. ASSUME NEW o \in DOMAIN q.items
        PROVE  ItemTrue(new, o, q.items[o]) /\ ItemWhole(new, o, q.items[o])
    BY <1>4 DEF RequestTrue, ItemTrue, ItemWhole
  <2> QED BY <1>4, <2>1 DEF RequestTrue
<1> QED BY <1>3, <1>4

(* The answer lists what is open. *)
LEMMA ListedAnswer ==
  ASSUME NEW q, RequestFields(q), ReplyInv(q), q.pc = "script", q.looks = {},
         NEW new, new = Done(q, [NoAnswer EXCEPT !.unspent = Listed(q.items)])
  PROVE  ReplyInv(new)
<1> DEFINE answer == [NoAnswer EXCEPT !.unspent = Listed(q.items)]
<1>1. RequestFields(q) OBVIOUS
<1>2. answer.unspent = Listed(q.items) BY DEF NoAnswer
<1>3. new = Done(q, answer) OBVIOUS
<1> HIDE DEF answer
<1>4. /\ new.pc = "done" /\ new.items = << >> /\ new.looks = {} /\ new.addr = q.addr
      /\ new.at = q.at /\ new.answer = answer /\ new.onlyUnspent = q.onlyUnspent
  BY <1>1, <1>3 DEF Done, RequestFields
<1>5. DOMAIN new.items = {} BY <1>4
<1>6. Marked(new.at) /\ SpendersKnown(new) BY <1>4, <1>5 DEF ReplyInv, SpendersKnown
<1>7. ASSUME RequestTrue(q) PROVE ListTrue(q.addr, Listed(q.items))
  <2>1. ASSUME NEW o \in KeptBy(q.addr), Spends(o) = {} PROVE <<o, TRUE>> \in Listed(q.items)
    <3>1. o \in ReceivedBy(q.addr) /\ Confirmed(TxOf[o]) BY DEF KeptBy, ReceivedBy
    <3>2. o \in DOMAIN q.items BY <1>7, <2>1, <3>1 DEF RequestTrue
    <3>3. q.items[o].confirmed = TRUE
      BY <1>7, <3>1, <3>2 DEF RequestTrue, ItemTrue, ItemWhole
    <3> QED BY <3>2, <3>3 DEF Listed
  <2>2. ASSUME NEW entry \in Listed(q.items)
        PROVE  SpendersOf(entry[1]) = {} /\ entry[2] = Confirmed(TxOf[entry[1]])
    <3>1. PICK o \in DOMAIN q.items : entry = <<o, q.items[o].confirmed>> BY DEF Listed
    <3>2. q.items[o].spent = NoHash /\ q.items[o].attempts = {}
      BY <1>7 DEF RequestTrue, ItemTrue
    <3>3. SpendersOf(o) = {} BY <1>7, <3>2 DEF RequestTrue, ItemWhole, Spenders
    <3>4. Confirmed(TxOf[o]) \in BOOLEAN BY DEF Confirmed
    <3>5. q.items[o].confirmed = Confirmed(TxOf[o])
      BY <1>7, <3>4 DEF RequestTrue, ItemTrue, ItemWhole
    <3> QED BY <3>1, <3>3, <3>5
  <2> QED BY <2>1, <2>2 DEF ListTrue
<1>8. RequestTrue(q) => RequestTrue(new) BY <1>2, <1>4, <1>5, <1>7 DEF RequestTrue
<1> QED BY <1>4, <1>6, <1>8 DEF ReplyInv

LEMMA ThenAnswer ==
  ASSUME NEW q, RequestFields(q), ReplyInv(q), NEW new, new = Then(q)
  PROVE  ReplyInv(new)
<1>1. CASE q.todo # {} \/ q.looks # {}
  <2>1. new = q BY <1>1 DEF Then
  <2> QED BY <2>1
<1>2. CASE q.todo = {} /\ q.looks = {} /\ q.pc = "spends"
  <2>1. new = EnterRpc(q) BY <1>2 DEF Then
  <2> QED BY <1>2, <2>1, EnterAnswer
<1>3. CASE q.todo = {} /\ q.looks = {} /\ q.pc = "rpc"
  <2>1. new = EnterRpcSpent(q) BY <1>3 DEF Then
  <2> QED BY <1>3, <2>1, EnterAnswer
<1>4. CASE q.todo = {} /\ q.looks = {} /\ q.pc = "rpcSpent"
  <2>1. new = [q EXCEPT !.pc = "tip"] BY <1>4 DEF Then
  <2> QED BY <1>4, <2>1, EnterAnswer
<1>5. CASE q.todo = {} /\ q.looks = {} /\ q.pc = "fill"
  <2>1. new = [q EXCEPT !.pc = "cache"] BY <1>5 DEF Then
  <2> QED BY <1>5, <2>1, FilledAnswer
<1>6. CASE q.todo = {} /\ q.looks = {} /\ q.pc = "script"
  <2>1. new = Done(q, [NoAnswer EXCEPT !.unspent = Listed(q.items)]) BY <1>6 DEF Then
  <2> QED BY <1>6, <2>1, ListedAnswer
<1>7. CASE q.pc \notin {"spends", "rpc", "rpcSpent", "fill", "script"}
  <2>1. new = q BY <1>7 DEF Then
  <2> QED BY <2>1
<1> QED BY <1>1, <1>2, <1>3, <1>4, <1>5, <1>6, <1>7

----------------------------------------------------------------------------
(* One lookup of a request.                                                *)

(* A request moves on to a record that knows no less than it should.       *)
Answers(r) ==
  \E q : req' = [req EXCEPT ![r] = Then(q)] /\ RequestFields(q) /\ ReplyInv(q)

(* What is marked current is a mark while the index is current.            *)
Current(at) == at = node => IndexCurrent

LEMMA ConfirmedTx ==
  ASSUME node \in Block, NEW t, Confirmed(t)
  PROVE  t \in Tx /\ t # NoHash
<1>1. PICK b \in Active : t \in TxsOf[b] BY DEF Confirmed, BlocksWith
<1>2. b \in Block BY ChainFacts DEF Active
<1> QED BY <1>1, <1>2, BlockTreeAssumption, LedgerAssumption

(* A lookup changes one item, and begins and ends lookups of its output.   *)
LooksUp(q, o, item, new) ==
  /\ RequestFields(new) /\ new.pc = q.pc /\ new.addr = q.addr /\ new.at = q.at
  /\ new.chainHeight = q.chainHeight /\ new.onlyUnspent = q.onlyUnspent
  /\ DOMAIN new.items = DOMAIN q.items /\ new.items[o] = item
  /\ \A p \in DOMAIN q.items \ {o} :
       /\ new.items[p] = q.items[p]
       /\ p \in new.todo <=> p \in q.todo
       /\ \A t : <<p, t>> \in new.looks <=> <<p, t>> \in q.looks
  /\ \A look \in new.looks : look[2] \in Spends(look[1])

LEMMA LookupAnswer ==
  ASSUME NEW q, ReplyInv(q), NEW o \in DOMAIN q.items, NEW item,
         NEW new, LooksUp(q, o, item, new), q.pc # "done",
         item.spent # NoHash => item.spent \in Spends(o),
         item.attempts \subseteq Spends(o),
         q.at = node /\ q.pc = "script" => item.spent = NoHash,
         q.at = node => ItemTrue(new, o, item) /\ ItemWhole(new, o, item)
  PROVE  ReplyInv(new)
<1> USE DEF LooksUp, ReplyInv
<1>1. DOMAIN new.items = DOMAIN q.items /\ new.items[o] = item
      /\ \A p \in DOMAIN q.items \ {o} : new.items[p] = q.items[p]
  OBVIOUS
<1>2. SpendersKnown(new)
  <2>1. ASSUME NEW p \in DOMAIN new.items
        PROVE  /\ new.items[p].spent # NoHash => new.items[p].spent \in Spends(p)
               /\ new.items[p].attempts \subseteq Spends(p)
    <3>1. CASE p = o BY <1>1, <3>1
    <3>2. CASE p # o BY <1>1, <3>2 DEF SpendersKnown
    <3> QED BY <3>1, <3>2
  <2> QED BY <2>1 DEF SpendersKnown
<1>3. ASSUME q.at = node, RequestTrue(q) PROVE RequestTrue(new)
  <2>1. ASSUME NEW p \in DOMAIN new.items
        PROVE  ItemTrue(new, p, new.items[p]) /\ ItemWhole(new, p, new.items[p])
    <3>1. CASE p = o BY <1>1, <1>3, <3>1
    <3>2. CASE p # o
      <4>1. ItemTrue(q, p, q.items[p]) /\ ItemWhole(q, p, q.items[p])
        BY <1>1, <1>3 DEF RequestTrue
      <4>2. ItemTrue(new, p, q.items[p]) BY <4>1 DEF ItemTrue
      <4>3. ItemWhole(new, p, q.items[p]) BY <1>1, <3>2, <4>1 DEF ItemWhole
      <4> QED BY <1>1, <3>2, <4>2, <4>3
    <3> QED BY <3>1, <3>2
  <2>2. q.pc = "script" => \A p \in DOMAIN new.items : new.items[p].spent = NoHash
    <3>1. ASSUME q.pc = "script", NEW p \in DOMAIN new.items PROVE new.items[p].spent = NoHash
      <4>1. CASE p = o BY <1>1, <1>3, <3>1, <4>1
      <4>2. CASE p # o BY <1>1, <1>3, <3>1, <4>2 DEF RequestTrue
      <4> QED BY <4>1, <4>2
    <3> QED BY <3>1
  <2> QED BY <1>1, <1>3, <2>1, <2>2 DEF RequestTrue
<1> QED BY <1>2, <1>3

(* The answer to a lookup of a phase other than "fill". *)
LEMMA AnsweredAnswers ==
  ASSUME NEW r \in Request, RequestInv(req[r]), ReplyInv(req[r]), NEW o \in req[r].todo,
         req[r].pc \in {"spends", "rpc", "rpcSpent", "script"},
         NEW item,
         item.spent # NoHash => item.spent \in Spends(o),
         item.attempts \subseteq Spends(o),
         req[r].at = node /\ req[r].pc = "script" => item.spent = NoHash,
         req[r].at = node =>
           /\ ItemTrue(req[r], o, item)
           /\ SpendersOf(o) \subseteq Spenders(item)
           /\ req[r].pc = "script" => (Confirmed(TxOf[o]) => item.confirmed),
         Answered(r, o, item)
  PROVE  Answers(r)
<1> DEFINE q == req[r]
           todo == q.todo \ {o}
           items == [q.items EXCEPT ![o] = item]
           new == [q EXCEPT !.todo = todo, !.items = items]
<1>1. o \in DOMAIN q.items BY DEF RequestInv
<1>2. req' = [req EXCEPT ![r] = Then(new)] BY DEF Answered, Set
<1>3. RequestFields(q) /\ new = [q EXCEPT !.todo = todo, !.items = items] BY DEF RequestInv
<1>4. /\ RequestFields(new) /\ new.pc = q.pc /\ new.todo = todo /\ new.items = items
      /\ new.looks = q.looks /\ new.chainHeight = q.chainHeight
      /\ new.addr = q.addr /\ new.at = q.at /\ new.onlyUnspent = q.onlyUnspent
  <2> HIDE DEF q, todo, items, new
  <2> QED BY <1>3 DEF RequestFields
<1> HIDE DEF new
<1>5. LooksUp(q, o, item, new) BY <1>1, <1>4 DEF LooksUp, ReplyInv, SpendersKnown
<1>6. q.at = node => ItemTrue(new, o, item) /\ ItemWhole(new, o, item)
  BY <1>4 DEF ItemTrue, ItemWhole
<1>7. ReplyInv(new) BY <1>1, <1>5, <1>6, LookupAnswer
<1> QED BY <1>2, <1>4, <1>7 DEF Answers

LEMMA ReadSpendsAnswers ==
  ASSUME RowsTrue, NEW r \in Request, RequestInv(req[r]), ReplyInv(req[r]),
         Current(req[r].at), ReadSpends(r)
  PROVE  Answers(r)
<1> DEFINE q == req[r]
<1>1. PICK o \in q.todo : Answered(r, o, AddSpentInfo(q.items[o], o)) BY DEF ReadSpends
<1>2. o \in DOMAIN q.items /\ o \in Out /\ q.pc = "spends"
  BY DEF ReadSpends, Waiting, RequestInv
<1> DEFINE old == q.items[o]
           first == FirstSpend(o)
           index == Index(first, o)
           ts == txs[o][first]
           attempts == IF Spends(o) = {first} THEN {} ELSE Spends(o)
           item == AddSpentInfo(old, o)
<1>3. ItemFields(old) BY <1>2 DEF RequestInv, ItemInv
<1>4. item = IF Spends(o) = {} THEN old
             ELSE [old EXCEPT !.spent = first, !.spentIndex = index, !.spentTs = ts,
                              !.attempts = attempts]
  BY DEF AddSpentInfo
<1>5. Spends(o) # {} => first \in Spends(o) /\ Spends(o) \subseteq Tx BY FirstIsSpend
<1>6. /\ old.spent # NoHash => old.spent \in Spends(o)
      /\ old.attempts \subseteq Spends(o)
  BY <1>2 DEF ReplyInv, SpendersKnown
<1>7. attempts \subseteq Spends(o) OBVIOUS
<1>8. attempts = {} <=> Spends(o) = {first} \/ Spends(o) = {} OBVIOUS
<1>9. q.at = node => /\ ItemTrue(q, o, old) /\ old.spent = NoHash /\ ~old.spentConfirmed
                     /\ SpendersOf(o) \subseteq Spends(o)
  BY <1>2, SpendersFound DEF ReplyInv, RequestTrue, ItemWhole, Current
<1>10. attempts # {} => attempts = Spends(o) OBVIOUS
<1> HIDE DEF first, index, ts, attempts, item, old
<1>11. CASE Spends(o) = {}
  <2>1. item = old BY <1>4, <1>11
  <2>2. q.at = node => ItemTrue(q, o, item) /\ SpendersOf(o) \subseteq Spenders(item)
    BY <1>9, <1>11, <2>1
  <2> QED BY <1>1, <1>2, <1>6, <2>1, <2>2, AnsweredAnswers DEF old, item
<1>12. CASE Spends(o) # {}
  <2>1. /\ item.spent = first /\ item.attempts = attempts /\ item.confirmed = old.confirmed
        /\ item.confirmations = old.confirmations /\ item.cached = old.cached
        /\ item.spentCached = old.spentCached /\ item.spentConfirmed = old.spentConfirmed
        /\ item.spentConfirmations = old.spentConfirmations
    BY <1>3, <1>4, <1>12 DEF ItemFields
  <2>2. first \in Spends(o) /\ first # NoHash BY <1>5, <1>12, LedgerAssumption
  <2>3. Spends(o) \subseteq Spenders(item)
    BY <1>8, <1>10, <1>12, <2>1, <2>2 DEF Spenders
  <2>4. q.at = node => ItemTrue(q, o, item) /\ SpendersOf(o) \subseteq Spenders(item)
    BY <1>9, <2>1, <2>2, <2>3 DEF ItemTrue
  <2> QED BY <1>1, <1>2, <1>7, <2>1, <2>2, <2>4, AnsweredAnswers DEF old, item
<1> QED BY <1>11, <1>12

(* bitcoind knows what is confirmed. *)
LEMMA RpcConfirms ==
  ASSUME NEW t, RpcConfirmations(t) > 0
  PROVE  Confirmed(t)
BY DEF RpcConfirmations

LEMMA AskRpcAnswers ==
  ASSUME NEW r \in Request, RequestInv(req[r]), ReplyInv(req[r]), AskRpc(r)
  PROVE  Answers(r)
<1> DEFINE q == req[r]
<1>1. PICK o \in q.todo :
        \/ Answered(r, o, q.items[o])
        \/ /\ RpcConfirmations(TxOf[o]) > 0
           /\ Answered(r, o, [q.items[o] EXCEPT !.confirmed = TRUE,
                                                !.confirmations = RpcConfirmations(TxOf[o])])
  BY Zenon DEF AskRpc
<1>2. o \in DOMAIN q.items /\ q.pc = "rpc" BY DEF AskRpc, Waiting, RequestInv
<1> DEFINE old == q.items[o]
           n == RpcConfirmations(TxOf[o])
           item == [old EXCEPT !.confirmed = TRUE, !.confirmations = n]
<1>3. ItemFields(old) BY <1>2 DEF RequestInv, ItemInv
<1>4. /\ old.spent # NoHash => old.spent \in Spends(o)
      /\ old.attempts \subseteq Spends(o)
  BY <1>2 DEF ReplyInv, SpendersKnown
<1>5. q.at = node => ItemTrue(q, o, old) /\ SpendersOf(o) \subseteq Spenders(old)
  BY <1>2 DEF ReplyInv, RequestTrue, ItemWhole
<1>6. CASE Answered(r, o, old) BY <1>2, <1>4, <1>5, <1>6, AnsweredAnswers
<1>7. CASE n > 0 /\ Answered(r, o, item)
  <2>1. Confirmed(TxOf[o]) BY <1>7, RpcConfirms
  <2> HIDE DEF n, old
  <2>2. item = [old EXCEPT !.confirmed = TRUE, !.confirmations = n] OBVIOUS
  <2> HIDE DEF item
  <2>3. /\ item.confirmed = TRUE /\ item.confirmations = n /\ item.cached = old.cached
        /\ item.spent = old.spent /\ item.attempts = old.attempts
        /\ item.spentCached = old.spentCached /\ item.spentConfirmed = old.spentConfirmed
        /\ item.spentConfirmations = old.spentConfirmations
    BY <1>3, <2>2 DEF ItemFields
  <2>4. q.at = node => ItemTrue(q, o, item) /\ SpendersOf(o) \subseteq Spenders(item)
    BY <1>5, <2>1, <2>3 DEF ItemTrue, Spenders
  <2> QED BY <1>2, <1>4, <1>7, <2>3, <2>4, AnsweredAnswers
<1> QED BY <1>1, <1>6, <1>7

LEMMA AskRpcSpentAnswers ==
  ASSUME NEW r \in Request, RequestInv(req[r]), ReplyInv(req[r]), AskRpcSpent(r)
  PROVE  Answers(r)
<1> DEFINE q == req[r]
<1>1. PICK o \in q.todo :
        \/ Answered(r, o, q.items[o])
        \/ /\ RpcConfirmations(q.items[o].spent) > 0
           /\ Answered(r, o, [q.items[o] EXCEPT !.spentConfirmed = TRUE,
                                !.spentConfirmations = RpcConfirmations(q.items[o].spent)])
  BY Zenon DEF AskRpcSpent
<1>2. o \in DOMAIN q.items /\ q.pc = "rpcSpent" BY DEF AskRpcSpent, Waiting, RequestInv
<1> DEFINE old == q.items[o]
           n == RpcConfirmations(old.spent)
           item == [old EXCEPT !.spentConfirmed = TRUE, !.spentConfirmations = n]
<1>3. ItemFields(old) BY <1>2 DEF RequestInv, ItemInv
<1>4. /\ old.spent # NoHash => old.spent \in Spends(o)
      /\ old.attempts \subseteq Spends(o)
  BY <1>2 DEF ReplyInv, SpendersKnown
<1>5. q.at = node => ItemTrue(q, o, old) /\ SpendersOf(o) \subseteq Spenders(old)
  BY <1>2 DEF ReplyInv, RequestTrue, ItemWhole
<1>6. CASE Answered(r, o, old) BY <1>2, <1>4, <1>5, <1>6, AnsweredAnswers
<1>7. CASE n > 0 /\ Answered(r, o, item)
  <2>1. Confirmed(old.spent) BY <1>7, RpcConfirms
  <2> HIDE DEF n, old
  <2>2. item = [old EXCEPT !.spentConfirmed = TRUE, !.spentConfirmations = n] OBVIOUS
  <2> HIDE DEF item
  <2>3. /\ item.confirmed = old.confirmed /\ item.confirmations = old.confirmations
        /\ item.spent = old.spent /\ item.attempts = old.attempts /\ item.cached = old.cached
        /\ item.spentCached = old.spentCached /\ item.spentConfirmed = TRUE
        /\ item.spentConfirmations = n
    BY <1>3, <2>2 DEF ItemFields
  <2>4. q.at = node => ItemTrue(q, o, item) /\ SpendersOf(o) \subseteq Spenders(item)
    BY <1>5, <2>1, <2>3 DEF ItemTrue, Spenders
  <2> QED BY <1>2, <1>4, <1>7, <2>3, <2>4, AnsweredAnswers
<1> QED BY <1>1, <1>6, <1>7

LEMMA FillScriptAnswers ==
  ASSUME NEW r \in Request, RequestInv(req[r]), ReplyInv(req[r]), FillScript(r)
  PROVE  Answers(r)
<1> DEFINE q == req[r]
<1>1. PICK o \in q.todo : Answered(r, o, q.items[o]) BY DEF FillScript
<1>2. o \in DOMAIN q.items /\ q.pc = "script" BY DEF FillScript, Waiting, RequestInv
<1>3. /\ q.items[o].spent # NoHash => q.items[o].spent \in Spends(o)
      /\ q.items[o].attempts \subseteq Spends(o)
  BY <1>2 DEF ReplyInv, SpendersKnown
<1>4. q.at = node => /\ ItemTrue(q, o, q.items[o]) /\ q.items[o].spent = NoHash
                     /\ SpendersOf(o) \subseteq Spenders(q.items[o])
                     /\ Confirmed(TxOf[o]) => q.items[o].confirmed
  BY <1>2 DEF ReplyInv, RequestTrue, ItemWhole
<1> QED BY <1>1, <1>2, <1>3, <1>4, AnsweredAnswers

(* The outputs of ReadHeight and FillOwn look up those who may have spent. *)
LEMMA LooksKnown ==
  ASSUME NEW q, SpendersKnown(q), NEW o \in DOMAIN q.items
  PROVE  /\ Spenders(q.items[o]) \subseteq Spends(o)
         /\ \A p, t : <<p, t>> \in Looks(o, q.items[o]) <=> p = o /\ t \in Spenders(q.items[o])
         /\ \A look \in Looks(o, q.items[o]) : look[1] = o /\ look[2] \in Spends(o)
<1>1. Spenders(q.items[o]) \subseteq Spends(o) BY DEF SpendersKnown, Spenders
<1> QED BY <1>1 DEF Looks

(* An item that ReadHeight leaves alone has its spender, or has none.      *)
LEMMA NothingToFind ==
  ASSUME ValidBlocks, node \in Block, IndexCurrent, RowsTrue, NEW q, SpendersKnown(q),
         NEW o \in DOMAIN q.items, o \in Out, NEW item, item = q.items[o],
         ItemTrue(q, o, item), SpendersOf(o) \subseteq Spenders(item),
         item.spentCached \/ (item.cached /\ item.spent = NoHash)
  PROVE  item.cached /\ \A t \in SpendersOf(o) : item.spent = t /\ item.spentConfirmed
<1>1. CASE item.spentCached
  <2>1. item.cached /\ item.spentConfirmed /\ Confirmed(item.spent) BY <1>1 DEF ItemTrue
  <2>2. item.spent \in Spends(o) BY <2>1, ConfirmedTx DEF SpendersKnown
  <2>3. item.spent \in SpendersOf(o) BY <2>1, <2>2, SpendersFound
  <2> QED BY <2>1, <2>3, OneSpender
<1>2. CASE item.cached /\ item.spent = NoHash
  <2>1. Spenders(item) = {} BY <1>2 DEF ItemTrue, Spenders
  <2> QED BY <1>2, <2>1
<1> QED BY <1>1, <1>2

LEMMA ReadHeightAnswers ==
  ASSUME ValidBlocks, node \in Block, RowsTrue, NEW r \in Request, RequestInv(req[r]),
         ReplyInv(req[r]), Current(req[r].at), ReadHeight(r)
  PROVE  Answers(r)
<1> DEFINE q == req[r]
           items == q.items
           more == {o \in DOMAIN items :
                      ~items[o].spentCached /\ ~(items[o].cached /\ items[o].spent = NoHash)}
           todo == {o \in more : ~items[o].cached}
           looks == UNION {Looks(o, items[o]) : o \in {x \in more : items[x].cached}}
           h == GetTip.height
           new == [q EXCEPT !.pc = "fill", !.chainHeight = h, !.todo = todo, !.looks = looks]
<1>1. req' = [req EXCEPT ![r] = Then(new)] BY Zenon DEF ReadHeight, Set
<1>2. q.pc = "tip" /\ RequestFields(q) /\ DOMAIN items \subseteq Out
  BY DEF ReadHeight, Waiting, RequestInv
<1>3. SpendersKnown(q) BY DEF ReplyInv
<1>4. ASSUME NEW look \in looks PROVE look[2] \in Spends(look[1])
  <2>1. PICK o \in DOMAIN items : look \in Looks(o, items[o]) OBVIOUS
  <2> QED BY <1>3, <2>1, LooksKnown
<1>5. ASSUME NEW o \in DOMAIN items, o \in more, items[o].cached, NEW t \in Spenders(items[o])
      PROVE  <<o, t>> \in looks
  <2>1. <<o, t>> \in Looks(o, items[o]) BY <1>5 DEF Looks
  <2> QED BY <1>5, <2>1
<1>6. \A o \in DOMAIN items : o \notin todo => items[o].cached \/ o \notin more OBVIOUS
<1>7. ASSUME NEW o \in DOMAIN items, o \notin more
      PROVE  items[o].spentCached \/ (items[o].cached /\ items[o].spent = NoHash)
  BY <1>7
<1>8. new = [q EXCEPT !.pc = "fill", !.chainHeight = h, !.todo = todo, !.looks = looks] OBVIOUS
<1> HIDE DEF more, todo, looks, h, new
<1>9. /\ RequestFields(new) /\ new.pc = "fill" /\ new.todo = todo /\ new.items = items
      /\ new.looks = looks /\ new.chainHeight = h /\ new.addr = q.addr /\ new.at = q.at
  <2> HIDE DEF q
  <2> QED BY <1>2, <1>8 DEF RequestFields
<1>10. Marked(new.at) /\ SpendersKnown(new) BY <1>3, <1>4, <1>9 DEF ReplyInv, SpendersKnown
<1>11. ASSUME q.at = node PROVE RequestTrue(new)
  <2>1. RequestTrue(q) /\ IndexCurrent BY <1>11 DEF ReplyInv, Current
  <2>2. ASSUME NEW o \in DOMAIN items
        PROVE  ItemTrue(new, o, items[o]) /\ ItemWhole(new, o, items[o])
    <3>1. ItemTrue(q, o, items[o]) /\ SpendersOf(o) \subseteq Spenders(items[o]) /\ o \in Out
      BY <1>2, <2>1 DEF RequestTrue, ItemWhole
    <3>2. ItemTrue(new, o, items[o]) BY <1>9, <3>1 DEF ItemTrue
    <3>3. o \notin todo => items[o].cached
          /\ \A t \in SpendersOf(o) : <<o, t>> \in looks \/ (items[o].spent = t /\ items[o].spentConfirmed)
      <4>1. CASE o \in more BY <1>5, <1>6, <3>1, <4>1
      <4>2. CASE o \notin more
        BY <1>3, <1>7, <2>1, <3>1, <4>2, NothingToFind
      <4> QED BY <4>1, <4>2
    <3>4. ItemWhole(new, o, items[o]) BY <1>9, <3>1, <3>3 DEF ItemWhole, ItemTrue
    <3> QED BY <3>2, <3>4
  <2>3. ReceivedBy(new.addr) \subseteq DOMAIN items BY <1>2, <1>9, <2>1 DEF RequestTrue
  <2>4. new.chainHeight = Depth[node] BY <1>9, <2>1 DEF IndexCurrent, h
  <2> QED BY <1>9, <2>2, <2>3, <2>4 DEF RequestTrue
<1>12. ReplyInv(new) BY <1>9, <1>10, <1>11 DEF ReplyInv
<1> QED BY <1>1, <1>9, <1>12 DEF Answers

LEMMA FillOwnAnswers ==
  ASSUME ValidBlocks, node \in Block, RowsTrue, NEW r \in Request, RequestInv(req[r]),
         ReplyInv(req[r]), Current(req[r].at), FillOwn(r)
  PROVE  Answers(r)
<1> DEFINE q == req[r]
<1>1. PICK o \in q.todo :
        LET height == btx[TxOf[o]].height IN
          IF height >= 0
          THEN Set(r, [q EXCEPT !.todo = @ \ {o}, !.looks = @ \cup Looks(o, q.items[o]),
                                !.items[o].confirmed = q.chainHeight >= height,
                                !.items[o].confirmations = q.chainHeight - height + 1])
          ELSE Set(r, [q EXCEPT !.todo = @ \ {o}])
  BY Zenon DEF FillOwn
<1>2. o \in DOMAIN q.items /\ o \in Out /\ q.pc = "fill" /\ RequestFields(q) /\ TxOf[o] \in Tx
  BY LedgerAssumption DEF FillOwn, Waiting, RequestInv
<1> DEFINE height == btx[TxOf[o]].height
           todo == q.todo \ {o}
           old == q.items[o]
<1>3. ItemFields(old) BY <1>2 DEF RequestInv, ItemInv
<1>4. /\ SpendersKnown(q)
      /\ old.spent # NoHash => old.spent \in Spends(o)
      /\ old.attempts \subseteq Spends(o)
      /\ \A look \in q.looks : look[2] \in Spends(look[1])
  BY <1>2 DEF ReplyInv, SpendersKnown
<1>5. q.at = node => /\ ItemTrue(q, o, old) /\ SpendersOf(o) \subseteq Spenders(old)
                     /\ q.chainHeight = Depth[node] /\ IndexCurrent
  BY <1>2 DEF ReplyInv, RequestTrue, ItemWhole, Current
<1>6. CASE height >= 0
  <2> DEFINE x == q.chainHeight >= height
             n == q.chainHeight - height + 1
             looks == q.looks \cup Looks(o, old)
             item == [old EXCEPT !.confirmed = x, !.confirmations = n]
             items == [q.items EXCEPT ![o] = item]
             new == [q EXCEPT !.todo = todo, !.looks = looks, !.items = items]
  <2>1. req' = [req EXCEPT ![r] = Then(new)]
    <3>1. Set(r, [q EXCEPT !.todo = @ \ {o}, !.looks = @ \cup Looks(o, q.items[o]),
                           !.items[o].confirmed = q.chainHeight >= height,
                           !.items[o].confirmations = q.chainHeight - height + 1])
      BY <1>1, <1>6, Zenon
    <3> QED BY <3>1, ZenonT(60) DEF Set
  <2>2. new = [q EXCEPT !.todo = todo, !.looks = looks, !.items = items] OBVIOUS
  <2>3. q.at = node => x = TRUE /\ Confirmed(TxOf[o]) BY <1>2, <1>5, <1>6 DEF IndexCurrent
  <2>4. /\ \A look \in Looks(o, old) : look[2] \in Spends(look[1])
        /\ \A p, t : <<p, t>> \in Looks(o, old) <=> p = o /\ t \in Spenders(old)
    BY <1>2, <1>4, LooksKnown
  <2>5. item = [old EXCEPT !.confirmed = x, !.confirmations = n] OBVIOUS
  <2> HIDE DEF x, n, item, new
  <2>6. /\ RequestFields(new) /\ new.pc = q.pc /\ new.todo = todo /\ new.items = items
        /\ new.looks = looks /\ new.chainHeight = q.chainHeight
        /\ new.addr = q.addr /\ new.at = q.at /\ new.onlyUnspent = q.onlyUnspent
    <3> HIDE DEF q, todo, looks, items
    <3> QED BY <1>2, <2>2 DEF RequestFields
  <2>7. /\ item.confirmed = x /\ item.spent = old.spent /\ item.attempts = old.attempts
        /\ item.cached = old.cached /\ item.spentCached = old.spentCached
        /\ item.spentConfirmed = old.spentConfirmed
        /\ item.spentConfirmations = old.spentConfirmations
    <3> HIDE DEF old
    <3> QED BY <1>3, <2>5 DEF ItemFields
  <2>8. LooksUp(q, o, item, new)
    <3> HIDE DEF q, old
    <3> QED BY <1>2, <1>4, <2>4, <2>6 DEF LooksUp, q, old
  <2>9. q.at = node => ItemTrue(new, o, item) /\ ItemWhole(new, o, item)
    <3>1. q.at = node => ItemTrue(new, o, item) BY <1>5, <2>3, <2>6, <2>7 DEF ItemTrue
    <3>2. q.at = node => ItemWhole(new, o, item)
      BY <1>2, <1>5, <2>3, <2>4, <2>6, <2>7 DEF ItemWhole, Spenders
    <3> QED BY <3>1, <3>2
  <2>10. ReplyInv(new)
    <3> HIDE DEF todo, looks, items, q, old
    <3> QED BY <1>2, <1>4, <2>7, <2>8, <2>9, LookupAnswer DEF q, old
  <2> QED BY <2>1, <2>6, <2>10 DEF Answers
<1>7. CASE ~(height >= 0)
  <2> DEFINE new == [q EXCEPT !.todo = todo]
  <2>1. req' = [req EXCEPT ![r] = Then(new)] BY <1>1, <1>7, Zenon DEF Set
  <2>2. new = [q EXCEPT !.todo = todo] OBVIOUS
  <2> HIDE DEF new
  <2>3. /\ RequestFields(new) /\ new.pc = q.pc /\ new.todo = todo /\ new.items = q.items
        /\ new.looks = q.looks /\ new.chainHeight = q.chainHeight
        /\ new.addr = q.addr /\ new.at = q.at /\ new.onlyUnspent = q.onlyUnspent
    <3> HIDE DEF q, todo
    <3> QED BY <1>2, <2>2 DEF RequestFields
  <2>4. LooksUp(q, o, old, new) BY <1>2, <1>4, <2>3 DEF LooksUp
  <2>5. q.at = node => ~Confirmed(TxOf[o]) /\ SpendersOf(o) = {}
    BY <1>2, <1>5, <1>7, OneSpender DEF IndexCurrent
  <2>6. q.at = node => ItemTrue(new, o, old) /\ ItemWhole(new, o, old)
    BY <1>2, <1>5, <2>3, <2>5 DEF ItemTrue, ItemWhole
  <2>7. ReplyInv(new)
    <3> HIDE DEF todo, q, old
    <3> QED BY <1>2, <1>4, <2>4, <2>6, LookupAnswer DEF q, old
  <2> QED BY <2>1, <2>3, <2>7 DEF Answers
<1> QED BY <1>6, <1>7

LEMMA FillSpentAnswers ==
  ASSUME ValidBlocks, node \in Block, RowsTrue, NEW r \in Request, RequestInv(req[r]),
         ReplyInv(req[r]), Current(req[r].at), FillSpent(r)
  PROVE  Answers(r)
<1> DEFINE q == req[r]
<1>1. PICK look \in q.looks :
        LET height == btx[look[2]].height
            o == look[1]
        IN  IF height >= 0
            THEN Set(r, [q EXCEPT !.looks = @ \ {look}, !.items[o].spent = look[2],
                                  !.items[o].spentConfirmed = q.chainHeight >= height,
                                  !.items[o].spentConfirmations = q.chainHeight - height + 1])
            ELSE Set(r, [q EXCEPT !.looks = @ \ {look}])
  BY Zenon DEF FillSpent
<1> DEFINE o == look[1]
           t == look[2]
           height == btx[t].height
           looks == q.looks \ {look}
           old == q.items[o]
<1>2. o \in DOMAIN q.items /\ o \in Out /\ t \in Tx /\ q.pc = "fill" /\ RequestFields(q)
  BY DEF FillSpent, Waiting, RequestInv
<1>3. ItemFields(old) BY <1>2 DEF RequestInv, ItemInv
<1>4. /\ old.spent # NoHash => old.spent \in Spends(o)
      /\ old.attempts \subseteq Spends(o)
      /\ \A l \in q.looks : l[2] \in Spends(l[1])
      /\ t \in Spends(o)
  BY <1>2 DEF ReplyInv, SpendersKnown
<1>5. q.at = node => /\ ItemTrue(q, o, old) /\ ItemWhole(q, o, old)
                     /\ SpendersOf(o) \subseteq Spenders(old)
                     /\ q.chainHeight = Depth[node] /\ IndexCurrent
  BY <1>2 DEF ReplyInv, RequestTrue, ItemWhole, Current
<1>6. CASE height >= 0
  <2> DEFINE x == q.chainHeight >= height
             n == q.chainHeight - height + 1
             item == [old EXCEPT !.spent = t, !.spentConfirmed = x, !.spentConfirmations = n]
             items == [q.items EXCEPT ![o] = item]
             new == [q EXCEPT !.looks = looks, !.items = items]
  <2>1. req' = [req EXCEPT ![r] = Then(new)]
    <3>1. Set(r, [q EXCEPT !.looks = @ \ {look}, !.items[o].spent = look[2],
                           !.items[o].spentConfirmed = q.chainHeight >= height,
                           !.items[o].spentConfirmations = q.chainHeight - height + 1])
      BY <1>1, <1>6, Zenon
    <3> QED BY <3>1, ZenonT(60) DEF Set
  <2>2. new = [q EXCEPT !.looks = looks, !.items = items] OBVIOUS
  <2>3. q.at = node => x = TRUE /\ Confirmed(t) /\ SpendersOf(o) = {t}
    <3>1. ASSUME q.at = node PROVE x = TRUE /\ Confirmed(t)
      <4>1. Confirmed(t) BY <1>2, <1>5, <1>6, <3>1 DEF IndexCurrent
      <4>2. height \in Nat /\ height <= Depth[node] BY <1>2, <1>5, <3>1, <4>1 DEF IndexCurrent
      <4> QED BY <1>5, <3>1, <4>1, <4>2
    <3>2. ASSUME q.at = node PROVE SpendersOf(o) = {t}
      <4>1. t \in SpendersOf(o) BY <1>2, <1>4, <1>5, <3>1, <3>2, SpendersFound
      <4> QED BY <1>2, <4>1, OneSpender
    <3> QED BY <3>1, <3>2
  <2>4. item = [old EXCEPT !.spent = t, !.spentConfirmed = x, !.spentConfirmations = n] OBVIOUS
  <2> HIDE DEF x, n, item, new, items
  <2>5. /\ RequestFields(new) /\ new.pc = q.pc /\ new.todo = q.todo /\ new.items = items
        /\ new.looks = looks /\ new.chainHeight = q.chainHeight
        /\ new.addr = q.addr /\ new.at = q.at /\ new.onlyUnspent = q.onlyUnspent
    <3> HIDE DEF q, looks
    <3> QED BY <1>2, <2>2 DEF RequestFields
  <2>6. /\ item.confirmed = old.confirmed /\ item.confirmations = old.confirmations
        /\ item.spent = t /\ item.attempts = old.attempts
        /\ item.cached = old.cached /\ item.spentCached = old.spentCached
        /\ item.spentConfirmed = x
    <3> HIDE DEF old, t
    <3> QED BY <1>3, <2>4 DEF ItemFields
  <2>7. LooksUp(q, o, item, new)
    <3>1. DOMAIN items = DOMAIN q.items /\ items[o] = item
          /\ \A p \in DOMAIN q.items \ {o} : items[p] = q.items[p]
      BY <1>2 DEF items
    <3>2. \A p : p # o => \A u : <<p, u>> # look OBVIOUS
    <3> HIDE DEF q, o, t
    <3> QED BY <1>2, <1>4, <2>5, <3>1, <3>2 DEF LooksUp
  <2>8. q.at = node => ItemTrue(new, o, item) /\ ItemWhole(new, o, item)
    <3>1. t # NoHash BY <1>2, LedgerAssumption
    <3> HIDE DEF q, o, t, old, looks
    <3>2. q.at = node => ItemTrue(new, o, item) BY <1>5, <2>3, <2>5, <2>6, <3>1 DEF ItemTrue
    <3>3. q.at = node => ItemWhole(new, o, item)
      BY <1>2, <1>5, <2>3, <2>5, <2>6, <3>1 DEF ItemWhole, Spenders
    <3> QED BY <3>2, <3>3
  <2>9. ReplyInv(new)
    <3>1. item.spent \in Spends(o) /\ item.attempts \subseteq Spends(o) BY <1>4, <2>6
    <3> HIDE DEF looks, q, old, o, t
    <3> QED BY <1>2, <2>7, <2>8, <3>1, LookupAnswer DEF q
  <2> QED BY <2>1, <2>5, <2>9 DEF Answers
<1>7. CASE ~(height >= 0)
  <2> DEFINE new == [q EXCEPT !.looks = looks]
  <2>1. req' = [req EXCEPT ![r] = Then(new)] BY <1>1, <1>7, Zenon DEF Set
  <2>2. new = [q EXCEPT !.looks = looks] OBVIOUS
  <2> HIDE DEF new
  <2>3. /\ RequestFields(new) /\ new.pc = q.pc /\ new.todo = q.todo /\ new.items = q.items
        /\ new.looks = looks /\ new.chainHeight = q.chainHeight
        /\ new.addr = q.addr /\ new.at = q.at /\ new.onlyUnspent = q.onlyUnspent
    <3> HIDE DEF q, looks
    <3> QED BY <1>2, <2>2 DEF RequestFields
  <2>4. LooksUp(q, o, old, new)
    <3>1. \A p : p # o => \A u : <<p, u>> # look OBVIOUS
    <3> HIDE DEF q, o, t
    <3> QED BY <1>2, <1>4, <2>3, <3>1 DEF LooksUp
  <2>5. q.at = node => \A u \in SpendersOf(o) : <<o, u>> # look
    <3>1. q.at = node => ~Confirmed(t)
      <4>1. ASSUME q.at = node, Confirmed(t) PROVE FALSE
        <5>1. height \in Nat BY <1>2, <1>5, <4>1 DEF IndexCurrent
        <5> QED BY <1>7, <5>1
      <4> QED BY <4>1
    <3>2. \A u \in SpendersOf(o) : Confirmed(u) BY DEF SpendersOf
    <3> QED BY <3>1, <3>2
  <2>6. q.at = node => ItemTrue(new, o, old) /\ ItemWhole(new, o, old)
    <3> HIDE DEF q, o, t, old
    <3> QED BY <1>2, <1>5, <2>3, <2>5 DEF ItemTrue, ItemWhole
  <2>7. ReplyInv(new)
    <3> HIDE DEF looks, q, old, o, t
    <3> QED BY <1>2, <1>4, <2>4, <2>6, LookupAnswer DEF q
  <2> QED BY <2>1, <2>3, <2>7 DEF Answers
<1> QED BY <1>6, <1>7

----------------------------------------------------------------------------
(* The sums of a request that has looked up everything.                    *)

(* The items say what the chain says. *)
ItemsExact(items) ==
  /\ Summable(items)
  /\ \A o \in DOMAIN items :
       /\ IsConfirmed(items[o]) <=> Confirmed(TxOf[o])
       /\ SpentIsConfirmed(items[o]) <=> SpendersOf(o) # {}
       /\ SpendersOf(o) \subseteq {items[o].spent}
       /\ items[o].spent # NoHash => o \in Inputs(items[o].spent)

(* Paid and spent on the chain, paid and kept, or not paid yet. *)
Paid(S) == {o \in S : Confirmed(TxOf[o])}
Held(S) == {o \in S : Confirmed(TxOf[o]) /\ SpendersOf(o) = {}}
Gone(S) == {o \in S : Confirmed(TxOf[o]) /\ SpendersOf(o) # {}}
Loose(S) == {o \in S : ~Confirmed(TxOf[o])}

(* The sums over the items of S, and the list. *)
SumsOver(items, S, sums) ==
  /\ sums.received = Value(Paid(S))
  /\ sums.balance = Value(Held(S))
  /\ sums.sent = Value(Gone(S))
  /\ sums.unconfirmed = Value(Loose(S))
  /\ sums.transactions = {TxOf[o] : o \in S} \cup ({items[o].spent : o \in S} \ {NoHash})
  /\ IsFiniteSet(sums.transactions)
  /\ sums.appearances = Cardinality({t \in sums.transactions : Confirmed(t)})
  /\ sums.unconfirmedAppearances <= Cardinality({t \in sums.transactions : ~Confirmed(t)})

(* Who spends the output of an item is on the chain when the item says so. *)
LEMMA ItemSpender ==
  ASSUME ValidBlocks, node \in Block, NEW items, ItemsExact(items), NEW o \in DOMAIN items
  PROVE  /\ items[o].spent \in Tx \cup {NoHash}
         /\ ~Confirmed(NoHash)
         /\ Confirmed(items[o].spent) <=> SpentIsConfirmed(items[o])
         /\ SpentIsConfirmed(items[o]) => items[o].spent # NoHash /\ Confirmed(TxOf[o])
         /\ SpendersOf(o) # {} => SpendersOf(o) = {items[o].spent}
<1>1. o \in Out /\ items[o].spent \in Tx \cup {NoHash} BY DEF ItemsExact, Summable
<1>2. ~Confirmed(NoHash) BY ConfirmedTx
<1>3. Confirmed(items[o].spent) => items[o].spent \in SpendersOf(o)
  BY <1>1, <1>2 DEF ItemsExact, SpendersOf
<1>4. ASSUME SpendersOf(o) # {}
      PROVE  /\ SpendersOf(o) = {items[o].spent} /\ items[o].spent # NoHash
             /\ Confirmed(items[o].spent) /\ Confirmed(TxOf[o])
  <2>1. PICK t \in SpendersOf(o) : TRUE BY <1>4
  <2>2. t = items[o].spent BY <2>1 DEF ItemsExact
  <2>3. t \in Tx /\ Confirmed(t) BY <2>1 DEF SpendersOf
  <2> QED BY <1>1, <1>2, <2>1, <2>2, <2>3, OneSpender
<1> QED BY <1>1, <1>2, <1>3, <1>4 DEF ItemsExact

LEMMA SumsStep ==
  ASSUME ValidBlocks, node \in Block, NEW items, ItemsExact(items),
         NEW S \in SUBSET DOMAIN items, NEW p \in DOMAIN items \ S,
         NEW sums \in ReqAnswers, SumsOver(items, S, sums),
         NEW new, new = AddTxItem(items, sums, p)
  PROVE  SumsOver(items, S \cup {p}, new)
<1> DEFINE item == items[p]
           founding == TxOf[p]
           seen == sums.transactions
           conf(T) == {t \in T : Confirmed(t)}
           rest(T) == {t \in T : ~Confirmed(t)}
           kept == item.spent = NoHash \/ ~SpentIsConfirmed(item)
           add == IF founding \in seen THEN 0 ELSE 1
           addSpend == IF item.spent \in seen \cup {founding} THEN 0 ELSE 1
           list == seen \cup ({founding, item.spent} \ {NoHash})
<1>1. /\ new \in ReqAnswers /\ new.transactions = list
      /\ IsConfirmed(item) =>
           /\ new.received = sums.received + Sat[p]
           /\ new.balance = sums.balance + (IF kept THEN Sat[p] ELSE 0)
           /\ new.sent = sums.sent + (IF kept THEN 0 ELSE Sat[p])
           /\ new.appearances = sums.appearances + add + (IF kept THEN 0 ELSE addSpend)
           /\ new.unconfirmed = sums.unconfirmed
           /\ new.unconfirmedAppearances = sums.unconfirmedAppearances
      /\ ~IsConfirmed(item) =>
           /\ new.received = sums.received /\ new.balance = sums.balance
           /\ new.sent = sums.sent /\ new.appearances = sums.appearances
           /\ new.unconfirmed = sums.unconfirmed + Sat[p]
           /\ new.unconfirmedAppearances = sums.unconfirmedAppearances + add
  BY AddedItem DEF ItemsExact
<1>2. /\ item.spent \in Tx \cup {NoHash} /\ ~Confirmed(NoHash)
      /\ Confirmed(item.spent) <=> SpentIsConfirmed(item)
      /\ SpentIsConfirmed(item) => item.spent # NoHash /\ Confirmed(founding)
      /\ IsConfirmed(item) <=> Confirmed(founding)
      /\ SpentIsConfirmed(item) <=> SpendersOf(p) # {}
  BY ItemSpender DEF ItemsExact
<1>3. S \subseteq Out /\ p \in Out \ S /\ founding \in Tx /\ founding # NoHash
  BY LedgerAssumption DEF ItemsExact, Summable
<1>4. Sat[p] \in Nat /\ sums \in ReqAnswers BY <1>3, LedgerAssumption
<1>5. /\ new.received = Value(Paid(S \cup {p})) /\ new.balance = Value(Held(S \cup {p}))
      /\ new.sent = Value(Gone(S \cup {p})) /\ new.unconfirmed = Value(Loose(S \cup {p}))
  <2>1. /\ Paid(S) \subseteq Out /\ Held(S) \subseteq Out /\ Gone(S) \subseteq Out
        /\ Loose(S) \subseteq Out /\ p \notin Paid(S) /\ p \notin Held(S) /\ p \notin Gone(S)
        /\ p \notin Loose(S)
    BY <1>3 DEF Paid, Held, Gone, Loose
  <2>2. /\ Value(Paid(S) \cup {p}) = sums.received + Sat[p]
        /\ Value(Held(S) \cup {p}) = sums.balance + Sat[p]
        /\ Value(Gone(S) \cup {p}) = sums.sent + Sat[p]
        /\ Value(Loose(S) \cup {p}) = sums.unconfirmed + Sat[p]
    BY <1>3, <2>1, ValueOfOneMore DEF SumsOver
  <2>3. sums.received \in Nat /\ sums.balance \in Nat /\ sums.sent \in Nat /\ sums.unconfirmed \in Nat
    BY DEF ReqAnswers
  <2>4. CASE ~IsConfirmed(item)
    <3>1. /\ Paid(S \cup {p}) = Paid(S) /\ Held(S \cup {p}) = Held(S) /\ Gone(S \cup {p}) = Gone(S)
          /\ Loose(S \cup {p}) = Loose(S) \cup {p}
      BY <1>2, <2>4 DEF Paid, Held, Gone, Loose
    <3> QED BY <1>1, <2>2, <2>4, <3>1 DEF SumsOver
  <2>5. CASE IsConfirmed(item) /\ kept
    <3>1. /\ Paid(S \cup {p}) = Paid(S) \cup {p} /\ Held(S \cup {p}) = Held(S) \cup {p}
          /\ Gone(S \cup {p}) = Gone(S) /\ Loose(S \cup {p}) = Loose(S)
      BY <1>2, <2>5 DEF Paid, Held, Gone, Loose
    <3>2. new.balance = sums.balance + Sat[p] /\ new.sent = sums.sent
      BY <1>1, <2>3, <2>5
    <3> QED BY <1>1, <2>2, <2>5, <3>1, <3>2 DEF SumsOver
  <2>6. CASE IsConfirmed(item) /\ ~kept
    <3>1. /\ Paid(S \cup {p}) = Paid(S) \cup {p} /\ Gone(S \cup {p}) = Gone(S) \cup {p}
          /\ Held(S \cup {p}) = Held(S) /\ Loose(S \cup {p}) = Loose(S)
      BY <1>2, <2>6 DEF Paid, Held, Gone, Loose
    <3>2. new.sent = sums.sent + Sat[p] /\ new.balance = sums.balance
      BY <1>1, <2>3, <2>6
    <3> QED BY <1>1, <2>2, <2>6, <3>1, <3>2 DEF SumsOver
  <2> QED BY <2>4, <2>5, <2>6
<1>6. new.transactions = {TxOf[o] : o \in S \cup {p}} \cup ({items[o].spent : o \in S \cup {p}} \ {NoHash})
  BY <1>1, <1>3 DEF SumsOver
<1>7. /\ IsFiniteSet(list) /\ IsFiniteSet(seen) /\ IsFiniteSet(seen \cup {founding})
      /\ \A T : IsFiniteSet(T) => /\ IsFiniteSet(conf(T)) /\ Cardinality(conf(T)) \in Nat
                                  /\ IsFiniteSet(rest(T)) /\ Cardinality(rest(T)) \in Nat
  <2>1. IsFiniteSet(seen) BY DEF SumsOver
  <2>2. IsFiniteSet(seen \cup {founding}) BY <2>1, FS_AddElement
  <2>3. IsFiniteSet((seen \cup {founding}) \cup {item.spent}) BY <2>2, FS_AddElement
  <2>4. list = seen \cup {founding} \/ list = (seen \cup {founding}) \cup {item.spent}
    BY <1>3
  <2>5. \A T : conf(T) \subseteq T /\ rest(T) \subseteq T OBVIOUS
  <2> HIDE DEF list, conf, rest
  <2>6. ASSUME NEW T, IsFiniteSet(T) PROVE IsFiniteSet(conf(T)) /\ IsFiniteSet(rest(T))
    BY <2>5, <2>6, FS_Subset
  <2> QED BY <2>1, <2>2, <2>3, <2>4, <2>6, FS_CardinalityType
<1>11. /\ Cardinality(conf(seen)) \in Nat /\ Cardinality(rest(seen)) \in Nat
       /\ Cardinality(conf(list)) \in Nat /\ Cardinality(rest(list)) \in Nat
       /\ add \in {0, 1} /\ addSpend \in {0, 1}
  BY <1>7
<1>8. sums.appearances = Cardinality(conf(seen)) /\ sums.unconfirmedAppearances <= Cardinality(rest(seen))
      /\ sums.unconfirmedAppearances \in Nat
  BY DEF SumsOver, ReqAnswers
<1>9. new.appearances = Cardinality(conf(list))
  <2>1. CASE ~IsConfirmed(item)
    <3>1. conf(list) = conf(seen) BY <1>2, <2>1
    <3> QED BY <1>1, <1>8, <2>1, <3>1
  <2>2. CASE IsConfirmed(item)
    <3> DEFINE one == conf(seen) \cup {founding}
    <3>1. IsFiniteSet(one) /\ Cardinality(one) = Cardinality(conf(seen)) + add
      <4>1. founding \in conf(seen) <=> founding \in seen BY <1>2, <2>2
      <4>2. Cardinality(one) = IF founding \in conf(seen) THEN Cardinality(conf(seen))
                               ELSE Cardinality(conf(seen)) + 1
        BY <1>7, FS_AddElement
      <4>3. IsFiniteSet(one) BY <1>7, FS_AddElement
      <4> HIDE DEF one, conf
      <4> QED BY <1>11, <4>1, <4>2, <4>3
    <3>2. CASE kept
      <4>1. conf(list) = one BY <1>2, <1>3, <2>2, <3>2
      <4>2. new.appearances = sums.appearances + add + 0 BY <1>1, <2>2, <3>2
      <4> HIDE DEF one, conf, list, add
      <4> QED BY <1>8, <1>11, <3>1, <4>1, <4>2
    <3>3. CASE ~kept
      <4> DEFINE two == one \cup {item.spent}
      <4>1. conf(list) = two BY <1>2, <1>3, <2>2, <3>3
      <4>2. item.spent \in one <=> item.spent \in seen \cup {founding} BY <1>2, <3>3
      <4>3. Cardinality(two) = IF item.spent \in one THEN Cardinality(one) ELSE Cardinality(one) + 1
        BY <3>1, FS_AddElement
      <4>4. Cardinality(two) = Cardinality(conf(seen)) + add + addSpend
        <5> HIDE DEF one, two, conf
        <5> QED BY <1>11, <3>1, <4>2, <4>3
      <4>5. new.appearances = sums.appearances + add + addSpend BY <1>1, <2>2, <3>3
      <4> HIDE DEF two, conf, list, add, addSpend
      <4> QED BY <1>8, <4>1, <4>4, <4>5
    <3> QED BY <3>2, <3>3
  <2> QED BY <2>1, <2>2
<1>10. new.unconfirmedAppearances <= Cardinality(rest(list))
  <2>1. CASE IsConfirmed(item)
    <3>1. rest(seen) \subseteq rest(list) OBVIOUS
    <3>2. Cardinality(rest(seen)) <= Cardinality(rest(list)) BY <1>7, <3>1, FS_Subset
    <3>3. new.unconfirmedAppearances = sums.unconfirmedAppearances BY <1>1, <2>1
    <3> HIDE DEF rest, list
    <3> QED BY <1>8, <1>11, <3>2, <3>3
  <2>2. CASE ~IsConfirmed(item)
    <3> DEFINE one == rest(seen) \cup {founding}
    <3>1. one \subseteq rest(list) BY <1>2, <1>3, <2>2
    <3>2. founding \in rest(seen) <=> founding \in seen BY <1>2, <2>2
    <3>3. Cardinality(one) = IF founding \in rest(seen) THEN Cardinality(rest(seen))
                             ELSE Cardinality(rest(seen)) + 1
      BY <1>7, FS_AddElement
    <3>4. Cardinality(one) = Cardinality(rest(seen)) + add
      <4> HIDE DEF one, rest
      <4> QED BY <1>11, <3>2, <3>3
    <3>5. Cardinality(one) <= Cardinality(rest(list)) BY <1>7, <3>1, FS_Subset
    <3>6. Cardinality(rest(list)) \in Nat /\ Cardinality(rest(seen)) \in Nat /\ add \in Nat BY <1>7
    <3>7. new.unconfirmedAppearances = sums.unconfirmedAppearances + add BY <1>1, <2>2
    <3> HIDE DEF one, rest, add, list
    <3> QED BY <1>8, <3>4, <3>5, <3>6, <3>7
  <2> QED BY <2>1, <2>2
<1> HIDE DEF list
<1> QED BY <1>1, <1>5, <1>6, <1>7, <1>9, <1>10 DEF SumsOver

(* So are the sums of all items. *)
LEMMA SumsExact ==
  ASSUME ValidBlocks, node \in Block, NEW items, ItemsExact(items)
  PROVE  SumsOver(items, DOMAIN items, Sums(items)) /\ Sums(items) \in ReqAnswers
<1> DEFINE D == DOMAIN items
<1>1. PICK f : Summing(items, f, SUBSET D) /\ Sums(items) = f[D] BY SumsFold DEF ItemsExact
<1>2. \A s \in SUBSET D : f[s] \in ReqAnswers BY <1>1, SumsType DEF ItemsExact
<1>3. IsFiniteSet(D) BY LedgerAssumption, FS_Subset DEF ItemsExact, Summable
<1> DEFINE Good == {s \in SUBSET D : SumsOver(items, s, f[s])}
<1>4. ASSUME NEW s \in SUBSET D, \A x \in s : s \ {x} \in Good PROVE s \in Good
  <2> DEFINE p == LastItem(items, s)
             S == s \ {p}
  <2>1. f[s] = IF s = {} THEN NoAnswer ELSE AddTxItem(items, f[S], p) BY <1>1 DEF Summing
  <2>2. CASE s = {}
    <3>1. Paid(s) = {} /\ Held(s) = {} /\ Gone(s) = {} /\ Loose(s) = {}
      BY <2>2 DEF Paid, Held, Gone, Loose
    <3>2. NoAnswer.transactions = {} /\ NoAnswer.received = 0 /\ NoAnswer.balance = 0
          /\ NoAnswer.sent = 0 /\ NoAnswer.unconfirmed = 0 /\ NoAnswer.appearances = 0
          /\ NoAnswer.unconfirmedAppearances = 0
      BY DEF NoAnswer
    <3>3. {TxOf[o] : o \in s} \cup ({items[o].spent : o \in s} \ {NoHash}) = {} BY <2>2
    <3>4. /\ {t \in NoAnswer.transactions : Confirmed(t)} = {}
          /\ {t \in NoAnswer.transactions : ~Confirmed(t)} = {}
      BY <3>2
    <3>5. SumsOver(items, s, NoAnswer)
      BY <3>1, <3>2, <3>3, <3>4, ValueStep, FS_EmptySet DEF SumsOver
    <3> QED BY <2>1, <2>2, <3>5
  <2>3. CASE s # {}
    <3>1. p \in s BY <2>3, LastItemIs DEF ItemsExact
    <3>2. S \in Good /\ S \in SUBSET D /\ p \in D \ S /\ S \cup {p} = s BY <1>4, <3>1
    <3>3. SumsOver(items, S, f[S]) /\ f[S] \in ReqAnswers BY <1>2, <3>2
    <3>4. f[s] = AddTxItem(items, f[S], p) BY <2>1, <2>3
    <3> HIDE DEF S, p
    <3>5. SumsOver(items, S \cup {p}, f[s]) BY <3>2, <3>3, <3>4, SumsStep
    <3>6. SumsOver(items, s, f[s]) BY <3>2, <3>5
    <3> QED BY <3>6
  <2> QED BY <2>2, <2>3
<1> HIDE DEF Good
<1>5. \A s \in SUBSET D : s \in Good BY <1>3, <1>4, SmallerSets
<1>6. SumsOver(items, D, f[D]) BY <1>5 DEF Good
<1> QED BY <1>1, <1>2, <1>6

(* The times of the items are numbers. *)
Timed(q) == \A o \in DOMAIN q.items : q.items[o].ts \in Nat

LEMMA WholeItemsExact ==
  ASSUME ValidBlocks, node \in Block, IndexCurrent, RowsTrue, NEW q, q.pc = "cache",
         RequestInv(q), SpendersKnown(q), RequestTrue(q), Timed(q)
  PROVE  ItemsExact(q.items)
<1>1. DOMAIN q.items \subseteq Out /\ \A o \in DOMAIN q.items : q.items[o].spent \in Tx \cup {NoHash}
  BY DEF RequestInv, ItemInv
<1>2. ASSUME NEW o \in DOMAIN q.items, NEW item, item = q.items[o]
      PROVE  /\ IsConfirmed(item) <=> Confirmed(TxOf[o])
             /\ SpentIsConfirmed(item) <=> SpendersOf(o) # {}
             /\ SpendersOf(o) \subseteq {item.spent}
             /\ item.spent # NoHash => o \in Inputs(item.spent)
  <2>1. ItemTrue(q, o, item) /\ ItemWhole(q, o, item) /\ o \in Out
    BY <1>1, <1>2 DEF RequestTrue
  <2>2. /\ Confirmed(TxOf[o]) => item.confirmed
        /\ \A t \in SpendersOf(o) : item.spent = t /\ item.spentConfirmed
    BY <2>1 DEF ItemWhole
  <2>3. IsConfirmed(item) <=> Confirmed(TxOf[o]) BY <2>1, <2>2 DEF IsConfirmed, ItemTrue
  <2>4. ASSUME SpentIsConfirmed(item) PROVE SpendersOf(o) # {}
    <3>1. Confirmed(item.spent) BY <2>1, <2>4 DEF SpentIsConfirmed, ItemTrue
    <3>2. item.spent \in Spends(o) BY <1>2, <3>1, ConfirmedTx DEF SpendersKnown
    <3> QED BY <2>1, <3>1, <3>2, SpendersFound
  <2>5. item.spent # NoHash => o \in Inputs(item.spent)
    BY <1>2, <2>1 DEF SpendersKnown, RowsTrue
  <2> QED BY <2>2, <2>3, <2>4, <2>5 DEF SpentIsConfirmed
<1> QED BY <1>1, <1>2 DEF ItemsExact, Summable, Timed

(* The sums of items that are exact, and all an address received, are what *)
(* the chain says of the address.                                          *)
LEMMA ExactSumsTrue ==
  ASSUME ValidBlocks, node \in Block, NEW items, ItemsExact(items), NEW a,
         \A o \in DOMAIN items : AddrOf[o] = a, ReceivedBy(a) \subseteq DOMAIN items
  PROVE  SumsTrue(a, Sums(items))
<1> DEFINE D == DOMAIN items
           answer == Sums(items)
           own == {o \in Out : AddrOf[o] = a}
           list == {TxOf[o] : o \in D} \cup ({items[o].spent : o \in D} \ {NoHash})
           loose == {t \in answer.transactions : ~Confirmed(t)}
<1>1. SumsOver(items, D, answer) /\ answer \in ReqAnswers BY SumsExact
<1>2. D \subseteq own /\ IsFiniteSet(own)
  BY LedgerAssumption, FS_Subset DEF ItemsExact, Summable
<1> HIDE DEF answer
<1>3. /\ Paid(D) = ReceivedBy(a) /\ Held(D) = KeptBy(a)
      /\ Gone(D) = ReceivedBy(a) \ KeptBy(a)
  BY <1>2 DEF Paid, Held, Gone, ReceivedBy, KeptBy
<1>4. answer.transactions = list BY <1>1 DEF SumsOver
<1>5. \A o \in D : /\ items[o].spent # NoHash => o \in Inputs(items[o].spent)
                   /\ ~Confirmed(NoHash)
                   /\ Confirmed(items[o].spent) =>
                        SpendersOf(o) = {items[o].spent} /\ Confirmed(TxOf[o])
                   /\ SpendersOf(o) # {} => SpendersOf(o) = {items[o].spent}
  BY ItemSpender DEF ItemsExact
<1>6. {t \in list : Confirmed(t)} = Touching(a)
  <2>1. ASSUME NEW t \in Touching(a) PROVE t \in list /\ Confirmed(t)
    <3>1. PICK o \in ReceivedBy(a) : t = TxOf[o] \/ t \in SpendersOf(o) BY DEF Touching
    <3>2. o \in D /\ Confirmed(TxOf[o]) BY DEF ReceivedBy
    <3>3. CASE t = TxOf[o] BY <3>2, <3>3
    <3>4. CASE t \in SpendersOf(o)
      <4>1. t = items[o].spent /\ Confirmed(t) BY <1>5, <3>2, <3>4 DEF SpendersOf
      <4> QED BY <1>5, <3>2, <4>1
    <3> QED BY <3>1, <3>3, <3>4
  <2>2. ASSUME NEW t \in list, Confirmed(t) PROVE t \in Touching(a)
    <3>1. PICK o \in D : t = TxOf[o] \/ t = items[o].spent OBVIOUS
    <3>2. Confirmed(TxOf[o]) BY <1>5, <2>2, <3>1
    <3>3. o \in ReceivedBy(a) BY <1>2, <3>2 DEF ReceivedBy
    <3>4. t = TxOf[o] \/ t \in SpendersOf(o) BY <1>5, <2>2, <3>1
    <3> QED BY <3>3, <3>4 DEF Touching
  <2> QED BY <2>1, <2>2
<1>7. \A t \in list : \E o \in own : TxOf[o] = t \/ o \in Inputs(t) BY <1>2, <1>5
<1>8. answer.unconfirmed <= Value({o \in own : TxOf[o] \in loose})
  <2>1. Loose(D) \subseteq {o \in own : TxOf[o] \in loose} BY <1>2, <1>4 DEF Loose
  <2> QED BY <1>1, <2>1, ValueGrows DEF SumsOver
<1> HIDE DEF list
<1>9. /\ answer.received = Value(ReceivedBy(a)) /\ answer.balance = Value(KeptBy(a))
      /\ answer.sent = Value(ReceivedBy(a) \ KeptBy(a))
      /\ answer.appearances = Cardinality({t \in list : Confirmed(t)})
      /\ answer.unconfirmedAppearances <= Cardinality(loose)
  BY <1>1, <1>3, <1>4 DEF SumsOver
<1>10. /\ Touching(a) \subseteq answer.transactions
       /\ \A t \in answer.transactions : \E o \in own : TxOf[o] = t \/ o \in Inputs(t)
  BY <1>4, <1>6, <1>7
<1>11. answer.appearances = Cardinality(Touching(a)) BY <1>6, <1>9
<1> QED BY <1>8, <1>9, <1>10, <1>11 DEF SumsTrue, answer

LEMMA CacheItemsAnswers ==
  ASSUME ValidBlocks, node \in Block, RowsTrue, NEW r \in Request, RequestInv(req[r]),
         ReplyInv(req[r]), Current(req[r].at), Timed(req[r]), CacheItems(r)
  PROVE  Answers(r)
<1> DEFINE q == req[r]
           open == {o \in DOMAIN q.items : q.items[o].spent = NoHash}
           items == Restrict(q.items, open)
           script == [q EXCEPT !.pc = "script", !.todo = open, !.items = items]
           sums == Sums(q.items)
           answered == Done(q, sums)
<1>1. Set(r, IF q.onlyUnspent THEN script ELSE answered) BY Zenon DEF CacheItems
<1>2. RequestFields(q) /\ q.pc = "cache" /\ q.looks = {}
  BY DEF CacheItems, Waiting, RequestInv
<1>3. q.onlyUnspent => RequestFields(script) /\ ReplyInv(script)
  <2> SUFFICES ASSUME q.onlyUnspent PROVE RequestFields(script) /\ ReplyInv(script) OBVIOUS
  <2>1. open \subseteq DOMAIN q.items /\ items = [o \in open |-> q.items[o]] BY DEF Restrict
  <2>2. DOMAIN items = open
        /\ \A o \in open : items[o] = q.items[o] /\ o \in DOMAIN q.items /\ items[o].spent = NoHash
    BY <2>1
  <2>3. script = [q EXCEPT !.pc = "script", !.todo = open, !.items = items] OBVIOUS
  <2>4. \A o \in DOMAIN q.items : o \in open \/ q.items[o].spent # NoHash OBVIOUS
  <2> HIDE DEF open, items, script
  <2>5. /\ RequestFields(script) /\ script.pc = "script" /\ script.items = items
        /\ script.looks = {} /\ script.addr = q.addr /\ script.at = q.at
        /\ script.onlyUnspent = q.onlyUnspent
    <3> HIDE DEF q
    <3> QED BY <1>2, <2>3 DEF RequestFields
  <2>6. Marked(script.at) /\ SpendersKnown(script)
    BY <2>2, <2>5 DEF ReplyInv, SpendersKnown
  <2>7. ASSUME RequestTrue(q) PROVE RequestTrue(script)
    <3>1. ASSUME NEW o \in open
          PROVE  ItemTrue(script, o, items[o]) /\ ItemWhole(script, o, items[o])
      <4>1. ItemTrue(q, o, items[o]) /\ ItemWhole(q, o, items[o]) BY <2>2, <2>7 DEF RequestTrue
      <4>2. ItemTrue(script, o, items[o]) BY <2>5, <4>1 DEF ItemTrue
      <4>3. ItemWhole(script, o, items[o]) BY <1>2, <2>5, <4>1 DEF ItemWhole
      <4> QED BY <4>2, <4>3
    <3>2. ASSUME NEW o \in ReceivedBy(q.addr) PROVE o \in open \/ Spends(o) # {}
      <4>1. o \in DOMAIN q.items BY <1>2, <2>7 DEF RequestTrue
      <4>2. q.items[o].spent # NoHash => Spends(o) # {}
        BY <4>1 DEF ReplyInv, SpendersKnown
      <4> QED BY <2>4, <4>1, <4>2
    <3> QED BY <2>2, <2>5, <3>1, <3>2 DEF RequestTrue
  <2> QED BY <2>5, <2>6, <2>7 DEF ReplyInv
<1>4. ~q.onlyUnspent => RequestFields(answered) /\ ReplyInv(answered)
  <2>1. answered = Done(q, sums) OBVIOUS
  <2> HIDE DEF q, sums, answered
  <2>2. /\ RequestFields(answered) /\ answered.pc = "done" /\ answered.items = << >>
        /\ answered.looks = {} /\ answered.at = q.at /\ answered.onlyUnspent = q.onlyUnspent
        /\ answered.addr = q.addr /\ answered.answer = sums
    BY <1>2, <2>1 DEF Done, RequestFields
  <2>3. DOMAIN answered.items = {} BY <2>2
  <2>4. Marked(answered.at) BY <2>2 DEF ReplyInv, q
  <2>5. q.at = node => SumsTrue(q.addr, sums)
    <3> SUFFICES ASSUME q.at = node PROVE SumsTrue(q.addr, sums) OBVIOUS
    <3>1. RequestInv(q) /\ SpendersKnown(q) /\ RequestTrue(q) /\ IndexCurrent /\ Timed(q)
      BY DEF q, ReplyInv, Current
    <3>2. ItemsExact(q.items) BY <1>2, <3>1, WholeItemsExact DEF q
    <3>3. /\ \A o \in DOMAIN q.items : AddrOf[o] = q.addr
          /\ ReceivedBy(q.addr) \subseteq DOMAIN q.items
      BY <1>2, <3>1 DEF RequestTrue, ItemTrue
    <3> QED BY <3>2, <3>3, ExactSumsTrue DEF sums
  <2> QED BY <2>2, <2>3, <2>4, <2>5 DEF ReplyInv, SpendersKnown, RequestTrue
<1> HIDE DEF script, answered
<1>5. PICK new : ((new = script /\ q.onlyUnspent) \/ (new = answered /\ ~q.onlyUnspent)) /\ Set(r, new) BY <1>1
<1> QED BY <1>3, <1>4, <1>5 DEF Set, Answers

(* What a row says of an output, before its spends are read. *)
FromRow(o, item) ==
  /\ item.confirmed \in BOOLEAN /\ (item.cached <=> item.confirmed)
  /\ item.spentConfirmed <=> item.spent # NoHash
  /\ item.spentCached <=> item.spent # NoHash
  /\ item.confirmations = 0 /\ item.spentConfirmations = 0 /\ item.attempts = {}
  /\ item.confirmed => Confirmed(TxOf[o])
  /\ item.spent # NoHash => item.confirmed /\ item.spent \in Spends(o) /\ Confirmed(item.spent)

LEMMA ParsedTrue ==
  ASSUME RowsTrue, RowsInv, node \in Block, NEW o \in Out, Rows(o) # {},
         NEW ignoreCache \in BOOLEAN,
         NEW item, item = ParseAddrData(o, Max(Rows(o)), ignoreCache)
  PROVE  FromRow(o, item)
<1> DEFINE c == IF ignoreCache THEN Uncached ELSE txa[o][Max(Rows(o))]
<1>1. /\ c.confirmed \in BOOLEAN
      /\ c.confirmed => Confirmed(TxOf[o])
      /\ c.spent # NoHash => c.confirmed /\ c.spent \in Spends(o) /\ Confirmed(c.spent)
  <2>1. CASE ignoreCache BY <2>1 DEF Uncached
  <2>2. CASE ~ignoreCache
    <3>1. Max(Rows(o)) \in Rows(o) /\ c = txa[o][Max(Rows(o))] BY <2>2, LatestRow
    <3> HIDE DEF c
    <3>2. c.confirmed \in BOOLEAN /\ (c.spent # NoHash => c.confirmed /\ c.spent \in Spends(o))
      BY <3>1 DEF RowsTrue
    <3>3. /\ c.confirmed => Confirmed(TxOf[o])
          /\ c.spent # NoHash => Confirmed(c.spent)
      BY <3>1, SettledConfirmed DEF RowsInv, Rows
    <3> QED BY <3>2, <3>3
  <2> QED BY <2>1, <2>2
<1> HIDE DEF c
<1>2. item = [ts |-> Max(Rows(o)), cached |-> c.confirmed, confirmed |-> c.confirmed,
              confirmations |-> 0, spent |-> c.spent, spentIndex |-> c.index,
              spentTs |-> c.ts, attempts |-> {}, spentConfirmed |-> c.spent # NoHash,
              spentCached |-> c.spent # NoHash, spentConfirmations |-> 0]
  BY DEF ParseAddrData, c
<1>3. /\ item.confirmed = c.confirmed /\ item.cached = c.confirmed /\ item.spent = c.spent
      /\ item.confirmations = 0 /\ item.spentConfirmations = 0 /\ item.attempts = {}
  BY <1>2
<1>4. item.spentConfirmed = (c.spent # NoHash) /\ item.spentCached = (c.spent # NoHash)
  BY <1>2
<1>5. (item.spentConfirmed <=> c.spent # NoHash) /\ (item.spentCached <=> c.spent # NoHash)
  BY <1>4
<1> QED BY <1>1, <1>3, <1>5 DEF FromRow

LEMMA AskAnswers ==
  ASSUME ValidBlocks, node \in Block, RowsInv, RowsTrue, StoreCurrent => IndexCurrent,
         NEW r \in Request, Ask(r)
  PROVE  Answers(r)
<1>1. PICK a \in Asked, onlyUnspent \in BOOLEAN, ignoreCache \in BOOLEAN :
        LET items == FromAddr(a, ignoreCache) IN
          Set(r, [Idle EXCEPT !.pc = "spends", !.items = items, !.addr = a,
                              !.onlyUnspent = onlyUnspent,
                              !.at = IF StoreCurrent THEN node ELSE NoHash,
                              !.todo = {o \in DOMAIN items : ~items[o].spentConfirmed}])
  BY Zenon DEF Ask
<1> DEFINE items == FromAddr(a, ignoreCache)
           todo == {o \in DOMAIN items : ~items[o].spentConfirmed}
           at == IF StoreCurrent THEN node ELSE NoHash
           new == [Idle EXCEPT !.pc = "spends", !.items = items, !.addr = a,
                               !.onlyUnspent = onlyUnspent, !.at = at, !.todo = todo]
<1>2. req' = [req EXCEPT ![r] = Then(new)] BY <1>1 DEF Set
<1>3. DOMAIN items = {o \in Out : AddrOf[o] = a /\ Rows(o) # {}} BY DEF FromAddr
<1>4. ASSUME NEW o \in DOMAIN items PROVE FromRow(o, items[o])
  <2>1. o \in Out /\ Rows(o) # {} /\ items[o] = ParseAddrData(o, Max(Rows(o)), ignoreCache)
    BY DEF FromAddr
  <2> HIDE DEF items
  <2> QED BY <2>1, ParsedTrue
<1>5. \A o \in DOMAIN items : o \in todo <=> ~items[o].spentConfirmed OBVIOUS
<1>6. node # NoHash BY KeyFacts
<1>7. Marked(at) /\ (at = node => StoreCurrent) BY <1>6, DepthsAreNat DEF Marked
<1>8. new = [Idle EXCEPT !.pc = "spends", !.items = items, !.addr = a,
                         !.onlyUnspent = onlyUnspent, !.at = at, !.todo = todo]
  OBVIOUS
<1> HIDE DEF items, todo, at, new
<1>9. /\ RequestFields(new) /\ new.pc = "spends" /\ new.items = items /\ new.todo = todo
      /\ new.looks = {} /\ new.addr = a /\ new.at = at
  BY <1>8 DEF Idle, RequestFields
<1>10. Marked(new.at) /\ SpendersKnown(new) BY <1>4, <1>7, <1>9 DEF SpendersKnown, FromRow
<1>11. ASSUME at = node PROVE RequestTrue(new)
  <2>1. IndexCurrent BY <1>7, <1>11
  <2>2. ASSUME NEW o \in DOMAIN items
        PROVE  ItemTrue(new, o, items[o]) /\ ItemWhole(new, o, items[o])
    <3> DEFINE item == items[o]
    <3>1. o \in Out /\ AddrOf[o] = a BY <1>3
    <3>2. FromRow(o, item) /\ (o \in todo <=> ~item.spentConfirmed) BY <1>4, <1>5
    <3> HIDE DEF item
    <3>3. ItemTrue(new, o, item) BY <1>9, <3>1, <3>2 DEF ItemTrue, FromRow
    <3>4. ASSUME o \notin todo PROVE SpendersOf(o) \subseteq Spenders(item)
      <4>1. item.spent # NoHash BY <3>2, <3>4 DEF FromRow
      <4>2. item.spent \in SpendersOf(o) BY <2>1, <3>1, <3>2, <4>1, SpendersFound DEF FromRow
      <4>3. SpendersOf(o) = {item.spent} BY <3>1, <4>2, OneSpender
      <4> QED BY <3>2, <4>1, <4>3 DEF Spenders, FromRow
    <3>5. ItemWhole(new, o, item) BY <1>9, <3>2, <3>4 DEF ItemWhole, FromRow
    <3> QED BY <3>3, <3>5 DEF item
  <2>3. ASSUME NEW o \in ReceivedBy(a) PROVE o \in DOMAIN items
    <3>1. o \in Out /\ AddrOf[o] = a /\ Confirmed(TxOf[o]) /\ TxOf[o] \in Tx
      BY LedgerAssumption DEF ReceivedBy
    <3>2. Rows(o) # {} BY <2>1, <3>1 DEF IndexCurrent, Kept
    <3> QED BY <1>3, <3>1, <3>2
  <2> QED BY <1>9, <2>2, <2>3 DEF RequestTrue
<1>12. ReplyInv(new) BY <1>9, <1>10, <1>11 DEF ReplyInv
<1> QED BY <1>2, <1>9, <1>12 DEF Answers

----------------------------------------------------------------------------
(* What the steps do to the rows: spends stay, and rows stay true.         *)

LEMMA AddScriptTrue ==
  ASSUME RowsTrue, NEW T, NEW time, \A t \in T : time[t] \in Nat, AddScript(T, time)
  PROVE  RowsTrue' /\ SpendsKeep
<1> USE DEF AddScript
<1>1. ASSUME NEW o \in Out
      PROVE  /\ Spends(o) \subseteq Spends(o)'
             /\ \A t \in Spends(o)' : o \in Inputs(t)
  <2>1. ASSUME NEW t \in Tx
        PROVE  txs'[o][t] = IF t \in T /\ o \in Inputs(t) THEN time[t] ELSE txs[o][t]
    OBVIOUS
  <2>2. \A t \in T : time[t] # -1 OBVIOUS
  <2> QED BY <2>1, <2>2 DEF Spends, Unspent, RowsTrue
<1>2. ASSUME NEW o \in Out, NEW n \in Rows(o)', NEW c, c = txa'[o][n]
      PROVE  c.confirmed \in BOOLEAN /\ (c.spent # NoHash => c.confirmed /\ c.spent \in Spends(o)')
  <2>1. n \in Stamp /\ (c = Uncached \/ (c = txa[o][n] /\ n \in Rows(o)))
    BY <1>2 DEF Rows
  <2>2. CASE c = Uncached BY <2>2 DEF Uncached
  <2>3. CASE c = txa[o][n] /\ n \in Rows(o) BY <1>1, <2>3 DEF RowsTrue
  <2> QED BY <2>1, <2>2, <2>3
<1>3. ASSUME NEW o \in Out, txo'[o] \notin {Absent, [addr |-> AddrOf[o], sat |-> Sat[o]]}
      PROVE  txo'[o].addr = NoHash
  BY <1>3 DEF RowsTrue
<1> QED BY <1>1, <1>2, <1>3 DEF RowsTrue, SpendsKeep

LEMMA SameRowsTrue ==
  ASSUME RowsTrue, UNCHANGED txVars
  PROVE  RowsTrue' /\ SpendsKeep
BY DEF RowsTrue, SpendsKeep, Spends, Rows, txVars

(* cacheConfirmations caches known spenders, of confirmed outputs. *)
LEMMA CachedTrue ==
  ASSUME RowsTrue, NEW q, SpendersKnown(q), CacheConfirmations(q.items)
  PROVE  RowsTrue' /\ SpendsKeep
<1>1. \A o \in Out : Spends(o)' = Spends(o) BY DEF CacheConfirmations, Spends
<1>2. ASSUME NEW o \in Out, NEW n \in Rows(o)', NEW c, c = txa'[o][n]
      PROVE  c.confirmed \in BOOLEAN /\ (c.spent # NoHash => c.confirmed /\ c.spent \in Spends(o))
  <2>1. CASE o \in DOMAIN q.items /\ c = ToCache(q.items[o]) /\ c # Absent
    <3> DEFINE item == q.items[o]
    <3>1. item.spent # NoHash => item.spent \in Spends(o) BY <2>1 DEF SpendersKnown
    <3>2. c = ToCache(item) /\ c # Absent BY <2>1
    <3> HIDE DEF item
    <3>3. item.confirmations >= Safe BY <3>2 DEF ToCache
    <3>4. CASE item.spentConfirmations >= Safe
      <4>1. c = [confirmed |-> TRUE, spent |-> item.spent, index |-> item.spentIndex,
                 ts |-> item.spentTs]
        BY <3>2, <3>3, <3>4 DEF ToCache
      <4> QED BY <3>1, <4>1
    <3>5. CASE ~(item.spentConfirmations >= Safe)
      <4>1. c = [Uncached EXCEPT !.confirmed = TRUE] BY <3>2, <3>3, <3>5 DEF ToCache
      <4> QED BY <4>1 DEF Uncached
    <3> QED BY <3>4, <3>5
  <2>2. CASE c = txa[o][n] /\ n \in Rows(o) BY <2>2 DEF RowsTrue
  <2>3. n \in Stamp /\ c # Absent BY <1>2 DEF Rows
  <2> QED BY <1>2, <2>1, <2>2, <2>3 DEF CacheConfirmations, Rows
<1>3. txo' = txo BY DEF CacheConfirmations
<1> QED BY <1>1, <1>2, <1>3 DEF RowsTrue, SpendsKeep

LEMMA ScriptTrue ==
  ASSUME RowsTrue, NEW o, NEW item, CacheScript(o, item)
  PROVE  RowsTrue' /\ SpendsKeep
<1>1. UNCHANGED <<txs, txa>> BY DEF CacheScript
<1>2. (\A p \in Out : Spends(p)' = Spends(p)) /\ \A p \in Out : Rows(p)' = Rows(p)
  BY <1>1 DEF Spends, Rows
<1>3. ASSUME NEW p \in Out, txo'[p] \notin {Absent, [addr |-> AddrOf[p], sat |-> Sat[p]]}
      PROVE  txo'[p].addr = NoHash
  <2> DEFINE n == IF item.confirmed THEN 1 ELSE 0
  <2>1. txo' = [txo EXCEPT ![o] = [addr |-> NoHash, sat |-> n]] BY DEF CacheScript
  <2> HIDE DEF n
  <2>2. txo'[p] = txo[p] \/ txo'[p] = [addr |-> NoHash, sat |-> n] BY <2>1
  <2> QED BY <1>3, <2>2 DEF RowsTrue
<1> QED BY <1>1, <1>2, <1>3 DEF RowsTrue, SpendsKeep

----------------------------------------------------------------------------
(* While the store is up to date, only bitcoind ends that.                 *)

LEMMA CurrentKeeps ==
  ASSUME RInv, UNCHANGED <<syncVars, node>>, CacheTip \/ UNCHANGED dbVars
  PROVE  StoreCurrent => StoreCurrent'
<1>1. GetTip = bti /\ bti' = bti BY DEF GetTip, CacheTip, dbVars, RInv, PointerInv
<1>2. GetTip' = bti BY <1>1 DEF GetTip, CacheTip, dbVars, RInv, PointerInv
<1>3. UNCHANGED <<pc, waiting, crashed, node>> BY DEF syncVars
<1> QED BY <1>1, <1>2, <1>3 DEF StoreCurrent, Quiet, storingBlock

(* All of bitcoind's chain is stored, and nothing is being stored. *)
LEMMA NothingFed ==
  ASSUME LedgerInv, StoreCurrent, IndexCurrent, NEW s \in Syncer, Feed(s) \/ Stores(s)
  PROVE  FALSE
<1>1. CASE Feed(s)
  <2>1. PICK b \in Active : ~Has(b) BY <1>1 DEF Feed
  <2> QED BY <2>1 DEF IndexCurrent, Connected
<1>2. CASE Stores(s)
  <2>1. pc[s] # "idle" BY <1>2, SameBlock DEF Stores, LedgerInv
  <2> QED BY <2>1 DEF StoreCurrent, Quiet, storingBlock
<1> QED BY <1>1, <1>2

(* bitcoind moves to a tip no request is marked with. *)
LEMMA AdvanceMarks ==
  ASSUME LedgerInv, Advance, NEW at, Marked(at)
  PROVE  Marked(at)' /\ at # node'
<1>1. PICK n \in Block : Depth[n] > Depth[node] /\ node' = n BY DEF Advance, NodeMoves
<1>2. Depth[n] \in Nat /\ Depth[node] \in Nat /\ n # NoHash
  BY KeyFacts, DepthsAreNat DEF LedgerInv
<1>3. at # NoHash => at \in Block /\ Depth[at] \in Nat /\ Depth[at] <= Depth[node]
  BY DepthsAreNat DEF Marked
<1>4. at # n BY <1>1, <1>2, <1>3
<1>5. at # NoHash => at \in Block /\ Depth[at] <= Depth[n] BY <1>1, <1>2, <1>3
<1> QED BY <1>1, <1>4, <1>5 DEF Marked

(* Scripts are cached over rows, but no row is put anew for a transaction  *)
(* that is on the chain.                                                   *)
RowsKeepIntact ==
  StoreCurrent => \A o \in Out : Confirmed(TxOf[o]) /\ Intact(o)' => Intact(o)

LEMMA RequestRows ==
  ASSUME NEW r \in Request, Asks(r) \/ Serve(r) \/ Views(r)
  PROVE  \/ UNCHANGED txVars
         \/ CacheConfirmations(req[r].items)
         \/ \E o, item : CacheScript(o, item)
<1>1. CASE Asks(r)
  <2>1. Ask(r) => UNCHANGED txVars BY DEF Ask
  <2> QED BY <1>1, <2>1 DEF Asks
<1>2. CASE Serve(r)
  <2>1. RequestStep(r) BY <1>2 DEF Serve
  <2>2. ReadSpends(r) => UNCHANGED txVars BY DEF ReadSpends
  <2>3. AskRpc(r) => UNCHANGED txVars BY DEF AskRpc
  <2>4. AskRpcSpent(r) => UNCHANGED txVars BY DEF AskRpcSpent
  <2>5. ReadHeight(r) => UNCHANGED txVars BY DEF ReadHeight
  <2>6. FillOwn(r) => UNCHANGED txVars BY DEF FillOwn
  <2>7. FillSpent(r) => UNCHANGED txVars BY DEF FillSpent
  <2>8. CacheItems(r) => CacheConfirmations(req[r].items) BY DEF CacheItems
  <2>9. FillScript(r) => UNCHANGED txVars \/ \E o, item : CacheScript(o, item)
    BY DEF FillScript
  <2> QED
    BY <2>1, <2>2, <2>3, <2>4, <2>5, <2>6, <2>7, <2>8, <2>9 DEF RequestStep
<1>3. CASE Views(r)
  <2>1. AskTx(r) \/ ViewStep(r) BY <1>3 DEF Views
  <2>2. AskTx(r) => UNCHANGED txVars BY DEF AskTx
  <2>3. ReadOutpoint(r) => UNCHANGED txVars BY DEF ReadOutpoint
  <2>4. CheckSpent(r) => UNCHANGED txVars BY DEF CheckSpent
  <2>5. FillOutputs(r) => UNCHANGED txVars BY DEF FillOutputs
  <2>6. ReadVinTip(r) => UNCHANGED txVars BY DEF ReadVinTip
  <2>7. FillVin(r) => UNCHANGED txVars BY DEF FillVin
  <2>8. FillVinByRpc(r) => UNCHANGED txVars BY DEF FillVinByRpc
  <2> QED BY <2>1, <2>2, <2>3, <2>4, <2>5, <2>6, <2>7, <2>8 DEF ViewStep
<1> QED BY <1>1, <1>2, <1>3

LEMMA SameIntact ==
  ASSUME UNCHANGED txo
  PROVE  RowsKeepIntact
BY DEF RowsKeepIntact, Intact

LEMMA ScriptIntact ==
  ASSUME DOMAIN txo = Out, NEW o, NEW item, CacheScript(o, item)
  PROVE  RowsKeepIntact
<1>1. ASSUME NEW p \in Out, Intact(p)' PROVE Intact(p)
  <2> DEFINE n == IF item.confirmed THEN 1 ELSE 0
  <2>1. txo' = [txo EXCEPT ![o] = [addr |-> NoHash, sat |-> n]] BY DEF CacheScript
  <2> HIDE DEF n
  <2>2. CASE p = o
    <3>1. txo'[p].addr = NoHash BY <2>1, <2>2
    <3> QED BY <1>1, <3>1, LedgerAssumption DEF Intact
  <2>3. CASE p # o
    <3>1. txo'[p] = txo[p] BY <2>1, <2>3
    <3> QED BY <1>1, <3>1 DEF Intact
  <2> QED BY <2>2, <2>3
<1> QED BY <1>1 DEF RowsKeepIntact

(* Every step but one of bitcoind keeps what requests know. *)
LEMMA StepKeeps ==
  ASSUME LedgerInv, RInv, StoreCurrent => IndexCurrent,
         RowsTrue, \A r \in Request : SpendersKnown(req[r]),
         [LedgerNext]_ledgerVars, ~Advance
  PROVE  RowsTrue' /\ AnswersKeep /\ RowsKeepIntact
<1> USE DEF AnswersKeep
<1>1. CASE PeerSends
  <2>1. PICK t \in Tx : ~Confirmed(t) /\ AddUnconfirmed(t, StampOf[node] + 1)
    BY <1>1, ReorgAssumption DEF PeerSends
  <2> DEFINE time == [u \in {t} |-> StampOf[node] + 1]
  <2>2. StampOf[node] + 1 \in Nat BY LedgerAssumption DEF LedgerInv, Stamp
  <2>3. RowsTrue' /\ SpendsKeep BY <2>1, <2>2, AddScriptTrue DEF AddUnconfirmed
  <2>4. UNCHANGED <<syncVars, node, dbVars>> BY <1>1 DEF PeerSends, vars
  <2>5. RowsKeepIntact
    <3>1. \A o \in Out : Confirmed(TxOf[o]) => txo'[o] = txo[o]
      BY <2>1 DEF AddUnconfirmed, AddScript
    <3> QED BY <3>1 DEF RowsKeepIntact, Intact
  <2> QED BY <2>3, <2>4, <2>5, CurrentKeeps
<1>2. ASSUME NEW s \in Syncer, Feed(s) \/ Stores(s) PROVE RowsTrue' /\ AnswersKeep /\ RowsKeepIntact
  <2>1. ~StoreCurrent BY <1>2, NothingFed
  <2>2. node' = node BY <1>2 DEF Feed, Stores
  <2>3. RowsTrue' /\ SpendsKeep
    <3>1. CASE UNCHANGED txVars BY <3>1, SameRowsTrue
    <3>2. CASE AddMany(TxsOf[job[s].blk])
      <4> DEFINE T == TxsOf[job[s].blk]
                 time == [t \in T |-> RpcTime(t)]
      <4>1. T \subseteq Tx /\ node \in Block
        BY BlockTreeAssumption DEF LedgerInv, IInv, TypeOK, Job
      <4>2. \A t \in T : time[t] \in Nat BY <4>1, RpcTimeType DEF Stamp
      <4>3. AddScript(T, time) BY <3>2 DEF AddMany
      <4> HIDE DEF time, T
      <4> QED BY <4>2, <4>3, AddScriptTrue
    <3> QED BY <1>2, <3>1, <3>2 DEF Feed, Stores
  <2> QED BY <2>1, <2>2, <2>3 DEF RowsKeepIntact
<1>3. ASSUME NEW r \in Request, Asks(r) \/ Serve(r) \/ Views(r)
      PROVE  RowsTrue' /\ AnswersKeep /\ RowsKeepIntact
  <2>1. UNCHANGED <<syncVars, node>> /\ (CacheTip \/ UNCHANGED dbVars) BY <1>3, RequestReads
  <2>2. RowsTrue' /\ SpendsKeep /\ RowsKeepIntact
    <3>1. CASE UNCHANGED txVars BY <3>1, SameRowsTrue, SameIntact DEF txVars
    <3>2. CASE CacheConfirmations(req[r].items)
      BY <3>2, CachedTrue, SameIntact DEF CacheConfirmations
    <3>3. ASSUME NEW o, NEW item, CacheScript(o, item)
          PROVE  RowsTrue' /\ SpendsKeep /\ RowsKeepIntact
      BY <3>3, ScriptTrue, ScriptIntact DEF LedgerInv
    <3> QED BY <1>3, <3>1, <3>2, <3>3, RequestRows
  <2> QED BY <2>1, <2>2, CurrentKeeps
<1>4. CASE UNCHANGED ledgerVars
  <2>1. UNCHANGED <<syncVars, node, dbVars, txVars, txo>> BY <1>4 DEF ledgerVars, vars, txVars
  <2> QED BY <2>1, CurrentKeeps, SameRowsTrue, SameIntact
<1> QED BY <1>1, <1>2, <1>3, <1>4 DEF LedgerNext

----------------------------------------------------------------------------
(* Every request for an address is on its way to its answer. *)

LEMMA RequestAnswers ==
  ASSUME ValidBlocks, node \in Block, RowsTrue, StoreCurrent => IndexCurrent,
         NEW r \in Request, RequestInv(req[r]), ReplyInv(req[r]), Timed(req[r]), RequestStep(r)
  PROVE  Answers(r)
<1>1. Current(req[r].at) BY DEF ReplyInv, Marked, Current
<1>2. CASE ReadSpends(r) BY <1>1, <1>2, ReadSpendsAnswers
<1>3. CASE AskRpc(r) BY <1>3, AskRpcAnswers
<1>4. CASE AskRpcSpent(r) BY <1>4, AskRpcSpentAnswers
<1>5. CASE ReadHeight(r) BY <1>1, <1>5, ReadHeightAnswers
<1>6. CASE FillOwn(r) BY <1>1, <1>6, FillOwnAnswers
<1>7. CASE FillSpent(r) BY <1>1, <1>7, FillSpentAnswers
<1>8. CASE CacheItems(r) BY <1>1, <1>8, CacheItemsAnswers
<1>9. CASE FillScript(r) BY <1>9, FillScriptAnswers
<1> QED BY <1>2, <1>3, <1>4, <1>5, <1>6, <1>7, <1>8, <1>9 DEF RequestStep

LEMMA IdleAnswer ==
  ASSUME node \in Block
  PROVE  ReplyInv(Idle)
<1>1. Idle.at = NoHash /\ Idle.items = << >> /\ Idle.looks = {} BY DEF Idle
<1>2. DOMAIN Idle.items = {} BY <1>1
<1>3. NoHash # node BY KeyFacts
<1> QED BY <1>1, <1>2, <1>3 DEF ReplyInv, Marked, SpendersKnown

(* The record of a request after a step, told as it was before. *)
LEMMA RequestMoved ==
  ASSUME ValidBlocks, LedgerInv, CacheInv, StoreCurrent => IndexCurrent, AnswersInv,
         LedgerTypeOK, [LedgerNext]_ledgerVars, NEW p \in Request, NEW q, q = req'[p]
  PROVE  ReplyInv(q)
<1> node \in Block /\ RowsTrue BY DEF LedgerInv, AnswersInv
<1>1. DOMAIN req = Request /\ (\A r \in Request : RequestInv(req[r])) /\ RowsInv BY DEF CacheInv
<1>2. \A r \in Request : ReplyInv(req[r]) /\ Timed(req[r])
  BY LedgerAssumption DEF AnswersInv, LedgerTypeOK, Item, Stamp, Timed
<1>3. CASE UNCHANGED req BY <1>2, <1>3
<1>4. ASSUME NEW r \in Request, Answers(r) PROVE ReplyInv(q)
  <2>1. PICK new : req' = [req EXCEPT ![r] = Then(new)] /\ RequestFields(new) /\ ReplyInv(new)
    BY <1>4 DEF Answers
  <2>2. ReplyInv(Then(new)) BY <2>1, ThenAnswer
  <2> QED BY <1>1, <1>2, <2>1, <2>2
<1>5. ASSUME NEW r \in Request, req' = [req EXCEPT ![r] = Idle] PROVE ReplyInv(q)
  BY <1>1, <1>2, <1>5, IdleAnswer
<1>6. CASE Advance \/ PeerSends \/ UNCHANGED ledgerVars
  BY <1>3, <1>6 DEF Advance, PeerSends, ledgerVars, reqVars
<1>7. ASSUME NEW s \in Syncer, Feed(s) \/ Stores(s) PROVE ReplyInv(q)
  BY <1>3, <1>7 DEF Feed, Stores, reqVars
<1>8. ASSUME NEW r \in Request, Asks(r) PROVE ReplyInv(q)
  BY <1>1, <1>4, <1>8, AskAnswers DEF Asks
<1>9. ASSUME NEW r \in Request, Serve(r) PROVE ReplyInv(q)
  BY <1>1, <1>2, <1>4, <1>9, RequestAnswers DEF Serve
<1>10. ASSUME NEW r \in Request, Views(r) PROVE ReplyInv(q)
  <2>1. AskTx(r) \/ ViewStep(r) BY <1>10 DEF Views
  <2>2. AskTx(r) => req' = [req EXCEPT ![r] = Idle] BY DEF AskTx
  <2>3. ReadOutpoint(r) => UNCHANGED req BY DEF ReadOutpoint, reqVars
  <2>4. CheckSpent(r) => UNCHANGED req BY DEF CheckSpent, reqVars
  <2>5. FillOutputs(r) => UNCHANGED req BY DEF FillOutputs, reqVars
  <2>6. ReadVinTip(r) => UNCHANGED req BY DEF ReadVinTip, reqVars
  <2>7. FillVin(r) => UNCHANGED req BY DEF FillVin, reqVars
  <2>8. FillVinByRpc(r) => UNCHANGED req BY DEF FillVinByRpc, reqVars
  <2> QED BY <1>3, <1>5, <2>1, <2>2, <2>3, <2>4, <2>5, <2>6, <2>7, <2>8 DEF ViewStep
<1> QED BY <1>6, <1>7, <1>8, <1>9, <1>10 DEF LedgerNext

LEMMA AnswersStep ==
  ASSUME ValidBlocks, LedgerInv, RInv, CacheInv, CacheInv', StoreCurrent => IndexCurrent,
         AnswersInv, LedgerTypeOK, [LedgerNext]_ledgerVars
  PROVE  RowsTrue' /\ \A p \in Request : ReplyInv(req[p])'
<1> RowsTrue BY DEF AnswersInv
<1>1. ASSUME NEW p \in Request, NEW q, q = req'[p] PROVE OfOutputs(q) /\ ReplyInv(q)
  <2>1. RequestInv(q)' BY <1>1 DEF CacheInv
  <2> QED BY <1>1, <2>1, RequestMoved DEF RequestInv, OfOutputs
<1>2. CASE Advance
  <2>1. RowsTrue' /\ SpendsKeep BY <1>2, SameRowsTrue DEF Advance
  <2>2. ASSUME NEW p \in Request, NEW q, q = req'[p] PROVE ReplyInv(q)'
    <3>1. OfOutputs(q) /\ ReplyInv(q) BY <1>1, <2>2
    <3>2. Marked(q.at)' /\ q.at # node' BY <1>2, <3>1, AdvanceMarks DEF ReplyInv
    <3> QED BY <2>1, <3>1, <3>2, AnswerOff
  <2> QED BY <2>1, <2>2
<1>3. CASE ~Advance
  <2>1. RowsTrue' /\ AnswersKeep BY <1>3, StepKeeps DEF AnswersInv, ReplyInv
  <2>2. ASSUME NEW p \in Request, NEW q, q = req'[p] PROVE ReplyInv(q)'
    BY <1>1, <2>1, <2>2, AnswerKeeps
  <2> QED BY <2>1, <2>2
<1> QED BY <1>2, <1>3

----------------------------------------------------------------------------
(* Requests for a transaction.                                             *)

(* The transaction of a view is the spender of each of its inputs.         *)
LEMMA ViewSpends ==
  ASSUME ValidBlocks, node \in Block, NEW t \in Tx, Confirmed(t), NEW o \in Inputs(t)
  PROVE  o \in Out /\ SpendersOf(o) = {t} /\ Confirmed(TxOf[o]) /\ TxOf[o] \in Tx
<1>1. o \in Out BY InputsAreOutputs
<1>2. t \in SpendersOf(o) BY DEF SpendersOf
<1> QED BY <1>1, <1>2, OneSpender, LedgerAssumption

LEMMA ViewKeeps ==
  ASSUME ValidBlocks, node \in Block, AnswersKeep, RowsKeepIntact, NEW w, ViewInv(w)
  PROVE  ViewInv(w)'
<1> USE DEF AnswersKeep
<1>1. Marked(w.at)' /\ ViewFields(w)' BY MarkKeeps DEF ViewInv, ViewFields, ViewRecord, InputRecord
<1>2. Confirmed(w.tx)' = Confirmed(w.tx) BY SameChain
<1>3. ASSUME w.at = node, w.pc # "idle", Confirmed(w.tx) PROVE ViewTrue(w)'
  <2>1. ViewTrue(w) /\ StoreCurrent /\ w.tx \in Tx /\ DOMAIN w.ins = Inputs(w.tx)
    BY <1>3 DEF ViewInv, Marked, ViewFields
  <2>2. ASSUME NEW o \in DOMAIN w.ins, NEW in, in = w.ins[o] PROVE InputTrue(w, o, in)'
    <3>1. InputTrue(w, o, in) BY <2>1, <2>2 DEF ViewTrue
    <3>2. o \in Out /\ Confirmed(TxOf[o]) BY <1>3, <2>1, ViewSpends
    <3>3. Intact(o)' => Intact(o) BY <2>1, <3>2 DEF RowsKeepIntact
    <3>4. Spends(o) \subseteq Spends(o)' /\ SpendersOf(o)' = SpendersOf(o)
          /\ RpcConfirmations(TxOf[o])' = RpcConfirmations(TxOf[o])
      BY <3>2, SameChain DEF SpendsKeep
    <3> QED BY <3>1, <3>3, <3>4 DEF InputTrue
  <2>3. ASSUME NEW o \in DOMAIN w.outs, NEW out, out = w.outs[o]
        PROVE  o \in Out /\ OutputTrue(o, out)'
    <3>1. o \in Out /\ OutputTrue(o, out) BY <2>1, <2>3 DEF ViewTrue
    <3>2. Spends(o) \subseteq Spends(o)' /\ SpendersOf(o)' = SpendersOf(o)
      BY <3>1, SameChain DEF SpendsKeep
    <3> QED BY <3>1, <3>2 DEF OutputTrue
  <2>4. (w.pc = "vin" => w.looks = {} /\ w.chainHeight = Depth[node])'
    BY <2>1 DEF ViewTrue
  <2> QED BY <2>2, <2>3, <2>4 DEF ViewTrue
<1> QED BY <1>1, <1>2, <1>3 DEF ViewInv

(* A view whose mark is not bitcoind's tip promises little. *)
LEMMA ViewOff ==
  ASSUME NEW w, ViewInv(w), Marked(w.at)', w.at # node'
  PROVE  ViewInv(w)'
BY DEF ViewInv, ViewFields, ViewRecord, InputRecord

LEMMA NoViewTrue ==
  ASSUME node \in Block
  PROVE  ViewInv(NoView)
<1>1. NoView.at = NoHash /\ NoView.pc = "idle" /\ NoView.todo = {} /\ NoView.looks = {}
      /\ NoView.ins = << >>
  BY DEF NoView
<1>2. ViewFields(NoView)
  <2>1. DOMAIN NoView.ins = {} BY <1>1
  <2>2. NoView = [pc |-> NoView.pc, tx |-> NoView.tx, ins |-> NoView.ins, outs |-> NoView.outs,
                  todo |-> NoView.todo, looks |-> NoView.looks,
                  chainHeight |-> NoView.chainHeight, at |-> NoView.at]
    BY DEF NoView
  <2> QED BY <1>1, <2>1, <2>2 DEF ViewFields, ViewRecord
<1>3. NoHash # node BY KeyFacts
<1> QED BY <1>1, <1>2, <1>3 DEF ViewInv, Marked

LEMMA NextPhaseTrue ==
  ASSUME NEW w, ViewInv(w), NEW new, new = NextPhase(w)
  PROVE  ViewInv(new)
<1>1. CASE w.todo # {} \/ w.looks # {}
  <2>1. new = w BY <1>1 DEF NextPhase
  <2> QED BY <2>1
<1>2. ASSUME NEW phase, w.todo = {}, w.looks = {}, new = [w EXCEPT !.pc = phase],
             \/ w.pc = "outpoints" /\ phase = "spent"
             \/ w.pc = "vin" /\ phase = "done"
      PROVE  ViewInv(new)
  <2>1. /\ new.pc = phase /\ new.tx = w.tx /\ new.ins = w.ins /\ new.outs = w.outs
        /\ new.todo = w.todo /\ new.looks = w.looks /\ new.chainHeight = w.chainHeight
        /\ new.at = w.at
        /\ new = [pc |-> phase, tx |-> w.tx, ins |-> w.ins, outs |-> w.outs, todo |-> w.todo,
                  looks |-> w.looks, chainHeight |-> w.chainHeight, at |-> w.at]
    BY <1>2 DEF ViewInv, ViewFields, ViewRecord
  <2>2. ViewFields(new)
    <3>1. ViewRecord(new) BY <2>1 DEF ViewRecord
    <3> HIDE <2>1
    <3>2. new.pc # "idle" /\ w.pc # "idle" /\ new.tx = w.tx /\ new.ins = w.ins
          /\ new.todo = {} /\ new.looks = {}
      BY <1>2, <2>1
    <3> QED BY <3>1, <3>2 DEF ViewInv, ViewFields
  <2>3. ASSUME ViewTrue(w) PROVE ViewTrue(new)
    <3>1. ASSUME NEW o \in DOMAIN w.ins PROVE InputTrue(new, o, w.ins[o])
      BY <1>2, <2>1, <2>3 DEF ViewTrue, InputTrue
    <3> QED BY <1>2, <2>1, <2>3, <3>1 DEF ViewTrue
  <2> QED BY <1>2, <2>1, <2>2, <2>3 DEF ViewInv
<1>3. CASE w.todo = {} /\ w.looks = {}
  <2>1. CASE w.pc = "outpoints"
    <3>1. new = [w EXCEPT !.pc = "spent"] BY <1>3, <2>1 DEF NextPhase
    <3> QED BY <1>2, <1>3, <2>1, <3>1
  <2>2. CASE w.pc = "vin"
    <3>1. new = [w EXCEPT !.pc = "done"] BY <1>3, <2>2 DEF NextPhase
    <3> QED BY <1>2, <1>3, <2>2, <3>1
  <2>3. CASE w.pc \notin {"outpoints", "vin"}
    <3>1. new = w BY <2>3 DEF NextPhase
    <3> QED BY <3>1
  <2> QED BY <2>1, <2>2, <2>3
<1> QED BY <1>1, <1>3

(* A view moves on to a record that is as true. *)
Shows(v) == \E w : Show(v, w) /\ ViewInv(w)

(* A lookup changes one input, and begins and ends lookups of it. *)
InputShows(w, o, in, new) ==
  /\ ViewRecord(new) /\ InputRecord(in)
  /\ new.pc = w.pc /\ new.tx = w.tx /\ new.outs = w.outs /\ new.at = w.at
  /\ new.chainHeight = w.chainHeight
  /\ DOMAIN new.ins = DOMAIN w.ins /\ new.ins[o] = in
  /\ \A p \in DOMAIN w.ins \ {o} : new.ins[p] = w.ins[p] /\ (p \in new.todo <=> p \in w.todo)
  /\ new.todo \cup new.looks \subseteq DOMAIN w.ins

LEMMA ShownFields ==
  ASSUME NEW w, ViewFields(w), w.pc \in {"outpoints", "vin"}, NEW o \in DOMAIN w.ins,
         NEW in, NEW new, InputShows(w, o, in, new)
  PROVE  ViewFields(new)
<1> USE DEF InputShows
<1>1. \A p \in DOMAIN w.ins : InputRecord(new.ins[p]) BY DEF ViewFields
<1> QED BY <1>1 DEF ViewFields

LEMMA InputShown ==
  ASSUME NEW v \in Request, ViewInv(view[v]), view[v].pc \in {"outpoints", "vin"},
         NEW o \in DOMAIN view[v].ins, NEW in, NEW new,
         InputShows(view[v], o, in, new),
         view[v].at = node /\ Confirmed(view[v].tx) =>
           InputTrue(new, o, in) /\ (view[v].pc = "vin" => new.looks = {}),
         Show(v, new)
  PROVE  Shows(v)
<1> DEFINE w == view[v]
<1> USE DEF InputShows
<1>1. Marked(new.at) BY DEF ViewInv
<1>2. ViewFields(new)
  <2> HIDE DEF w, InputShows
  <2> QED BY ShownFields DEF ViewInv
<1>3. ASSUME w.at = node, Confirmed(w.tx) PROVE ViewTrue(new)
  <2>1. ViewTrue(w) BY <1>3 DEF ViewInv
  <2>2. ASSUME NEW p \in DOMAIN w.ins PROVE InputTrue(new, p, new.ins[p])
    <3>1. CASE p = o BY <1>3, <3>1
    <3>2. CASE p # o
      <4>1. InputTrue(w, p, w.ins[p]) BY <2>1 DEF ViewTrue
      <4> QED BY <3>2, <4>1 DEF InputTrue
    <3> QED BY <3>1, <3>2
  <2> QED BY <1>3, <2>1, <2>2 DEF ViewTrue
<1> QED BY <1>1, <1>2, <1>3 DEF Shows, ViewInv

(* A view whose lookups moved and whose inputs did not. *)
Rest(w, o, rest) ==
  /\ ViewRecord(rest)
  /\ rest.pc = w.pc /\ rest.tx = w.tx /\ rest.outs = w.outs /\ rest.at = w.at
  /\ rest.chainHeight = w.chainHeight /\ rest.ins = w.ins
  /\ \A p \in DOMAIN w.ins \ {o} : p \in rest.todo <=> p \in w.todo
  /\ rest.todo \cup rest.looks \subseteq DOMAIN w.ins

LookedUp(w, o, looks, rest) ==
  /\ ViewFields(w) /\ o \in w.todo /\ looks \subseteq DOMAIN w.ins
  /\ rest = [w EXCEPT !.todo = @ \ {o}, !.looks = looks]

LEMMA RestOfTodo ==
  ASSUME NEW w, NEW o, NEW looks, NEW rest, LookedUp(w, o, looks, rest)
  PROVE  Rest(w, o, rest) /\ rest.todo = w.todo \ {o} /\ rest.looks = looks
<1> DEFINE todo == w.todo \ {o}
<1>1. todo \cup looks \subseteq DOMAIN w.ins /\ ViewRecord(w)
  BY DEF LookedUp, ViewFields
<1>2. \A p \in DOMAIN w.ins \ {o} : p \in todo <=> p \in w.todo OBVIOUS
<1>3. rest = [w EXCEPT !.todo = todo, !.looks = looks] BY DEF LookedUp
<1> HIDE DEF todo
<1>4. /\ ViewRecord(rest)
      /\ rest.pc = w.pc /\ rest.tx = w.tx /\ rest.outs = w.outs /\ rest.at = w.at
      /\ rest.chainHeight = w.chainHeight /\ rest.ins = w.ins
      /\ rest.todo = todo /\ rest.looks = looks
  BY <1>1, <1>3 DEF ViewRecord
<1> QED BY <1>1, <1>2, <1>4 DEF Rest, todo

LEMMA RestOfLooks ==
  ASSUME NEW w, ViewFields(w), NEW o \in w.looks, NEW rest, rest = [w EXCEPT !.looks = w.looks \ {o}]
  PROVE  Rest(w, o, rest) /\ rest.todo = w.todo
<1> DEFINE looks == w.looks \ {o}
<1>1. w.todo \cup looks \subseteq DOMAIN w.ins /\ ViewRecord(w) BY DEF ViewFields
<1>2. rest = [w EXCEPT !.looks = looks] OBVIOUS
<1> HIDE DEF looks
<1>3. /\ ViewRecord(rest)
      /\ rest.pc = w.pc /\ rest.tx = w.tx /\ rest.outs = w.outs /\ rest.at = w.at
      /\ rest.chainHeight = w.chainHeight /\ rest.ins = w.ins
      /\ rest.todo = w.todo /\ rest.looks = looks
  BY <1>1, <1>2 DEF ViewRecord
<1> QED BY <1>1, <1>3 DEF Rest

(* A lookup answers and changes its input, or leaves it alone. *)
LEMMA InputOfRest ==
  ASSUME NEW w, ViewFields(w), NEW o \in DOMAIN w.ins, NEW rest, Rest(w, o, rest),
         NEW in, InputRecord(in),
         NEW new, \/ new = [rest EXCEPT !.ins = [rest.ins EXCEPT ![o] = in]]
                  \/ new = rest /\ in = w.ins[o]
  PROVE  InputShows(w, o, in, new) /\ new.todo = rest.todo /\ new.looks = rest.looks
<1> DEFINE ins == [rest.ins EXCEPT ![o] = in]
<1>1. DOMAIN ins = DOMAIN w.ins /\ ins[o] = in /\ \A p \in DOMAIN w.ins \ {o} : ins[p] = w.ins[p]
  BY DEF Rest
<1>2. CASE new = [rest EXCEPT !.ins = ins]
  <2> HIDE DEF ins
  <2>1. /\ ViewRecord(new)
        /\ new.pc = rest.pc /\ new.tx = rest.tx /\ new.outs = rest.outs /\ new.at = rest.at
        /\ new.chainHeight = rest.chainHeight /\ new.ins = ins
        /\ new.todo = rest.todo /\ new.looks = rest.looks
    BY <1>2 DEF ViewRecord, Rest
  <2> QED BY <1>1, <2>1 DEF InputShows, Rest
<1>3. CASE new = rest /\ in = w.ins[o] BY <1>3 DEF InputShows, Rest
<1> QED BY <1>2, <1>3

LEMMA NothingShown ==
  ASSUME NEW v \in Request, ViewInv(view[v]), view[v].pc \in {"outpoints", "vin"},
         NEW o \in DOMAIN view[v].ins, NEW new, Rest(view[v], o, new),
         view[v].at = node /\ Confirmed(view[v].tx) =>
           view[v].pc = "outpoints" /\ (o \in view[v].todo => o \in new.todo),
         Show(v, new)
  PROVE  Shows(v)
<1> DEFINE w == view[v]
           in == w.ins[o]
<1>1. ViewFields(w) /\ InputRecord(in) BY DEF ViewInv, ViewFields
<1>2. InputShows(w, o, in, new) BY <1>1, InputOfRest
<1>3. ASSUME w.at = node, Confirmed(w.tx)
      PROVE  InputTrue(new, o, in) /\ (w.pc = "vin" => new.looks = {})
  <2>1. InputTrue(w, o, in) BY <1>3 DEF ViewInv, ViewTrue
  <2>2. w.pc = "outpoints" /\ new.pc = w.pc /\ (o \in w.todo => o \in new.todo)
    BY <1>3 DEF Rest
  <2> HIDE DEF w, in
  <2> QED BY <2>1, <2>2 DEF InputTrue
<1>4. /\ w.at = node /\ Confirmed(w.tx) =>
           InputTrue(new, o, in) /\ (w.pc = "vin" => new.looks = {})
      /\ ViewInv(w) /\ w.pc \in {"outpoints", "vin"} /\ o \in DOMAIN w.ins /\ Show(v, new)
  BY <1>3
<1> HIDE DEF in
<1> QED BY <1>2, <1>4, InputShown

LEMMA ReadOutpointShows ==
  ASSUME RowsTrue, ValidBlocks, node \in Block, NEW v \in Request, ViewInv(view[v]), ReadOutpoint(v)
  PROVE  Shows(v)
<1> DEFINE w == view[v]
<1>1. PICK o \in w.todo :
        LET sat == IF txo[o] = Absent THEN 0 ELSE txo[o].sat IN
          Show(v, [w EXCEPT !.todo = @ \ {o}, !.looks = @ \cup {o}, !.ins[o].sat = sat])
  BY Zenon DEF ReadOutpoint
<1> DEFINE sat == IF txo[o] = Absent THEN 0 ELSE txo[o].sat
           looks == w.looks \cup {o}
           old == w.ins[o]
           in == [old EXCEPT !.sat = sat]
           rest == [w EXCEPT !.todo = w.todo \ {o}, !.looks = looks]
           new == [rest EXCEPT !.ins = [rest.ins EXCEPT ![o] = in]]
<1>2. /\ w.pc = "outpoints" /\ o \in DOMAIN w.ins /\ ViewFields(w) /\ InputRecord(old)
      /\ looks \subseteq DOMAIN w.ins
  BY DEF ReadOutpoint, ViewInv, ViewFields
<1>3. new = [w EXCEPT !.todo = @ \ {o}, !.looks = @ \cup {o}, !.ins[o].sat = sat]
  <2> HIDE DEF sat
  <2> QED BY <1>2 DEF ViewFields, ViewRecord
<1>4. Show(v, new) BY <1>1, <1>3, Zenon
<1>5. ASSUME Intact(o), o \in Out PROVE sat = Sat[o]
  BY <1>5, LedgerAssumption DEF Intact, RowsTrue
<1>6. /\ InputRecord(in) /\ in.sat = sat /\ in.unregistered = old.unregistered
      /\ in.double = old.double /\ in.confirmed = old.confirmed
      /\ in.confirmations = old.confirmations
  <2> HIDE DEF old, sat
  <2> QED BY <1>2 DEF InputRecord
<1>7. Rest(w, o, rest) /\ rest.todo = w.todo \ {o}
  <2>1. LookedUp(w, o, looks, rest) BY <1>2 DEF LookedUp
  <2> HIDE DEF looks, w, rest
  <2> QED BY <2>1, RestOfTodo
<1>8. InputShows(w, o, in, new) /\ new.todo = rest.todo
  <2> HIDE DEF w, rest, in
  <2> QED BY <1>2, <1>6, <1>7, InputOfRest
<1> HIDE DEF sat, in, new, rest
<1>9. w.at = node /\ Confirmed(w.tx) => InputTrue(new, o, in)
  <2>1. ASSUME w.at = node, Confirmed(w.tx) PROVE InputTrue(w, o, old) /\ o \in Out
    BY <1>2, <2>1, ViewSpends DEF ViewInv, ViewTrue, ViewFields
  <2>2. o \notin new.todo /\ new.pc = w.pc BY <1>7, <1>8 DEF InputShows
  <2> QED BY <1>2, <1>5, <1>6, <2>1, <2>2 DEF InputTrue
<1> QED BY <1>2, <1>4, <1>8, <1>9, InputShown

LEMMA CheckSpentShows ==
  ASSUME RowsTrue, ValidBlocks, node \in Block, NEW v \in Request, ViewInv(view[v]),
         Current(view[v].at), CheckSpent(v)
  PROVE  Shows(v)
<1> DEFINE w == view[v]
<1>1. PICK o \in w.looks :
        LET rest == [w EXCEPT !.looks = @ \ {o}] IN
          CASE w.ins[o].sat = 0 -> Show(v, rest)
            [] w.ins[o].sat # 0 /\ Spends(o) = {} ->
                 Show(v, [rest EXCEPT !.ins[o].unregistered = TRUE])
            [] w.ins[o].sat # 0 /\ Spends(o) # {} ->
                 Show(v, [rest EXCEPT !.ins[o].double =
                            IF FirstSpend(o) = w.tx THEN NoHash ELSE FirstSpend(o)])
  BY Zenon DEF CheckSpent
<1> DEFINE old == w.ins[o]
           rest == [w EXCEPT !.looks = w.looks \ {o}]
           unregistered == [rest EXCEPT !.ins[o].unregistered = TRUE]
           double == [rest EXCEPT !.ins[o].double =
                        IF FirstSpend(o) = w.tx THEN NoHash ELSE FirstSpend(o)]
           sat == old.sat
<1>2. /\ w.pc = "outpoints" /\ o \in DOMAIN w.ins /\ ViewFields(w) /\ InputRecord(old)
  BY DEF CheckSpent, ViewInv, ViewFields
<1>3. Rest(w, o, rest) /\ rest.todo = w.todo
  <2>1. rest = [w EXCEPT !.looks = w.looks \ {o}] OBVIOUS
  <2> HIDE DEF w, rest
  <2> QED BY <1>2, <2>1, RestOfLooks
<1>4. ASSUME w.at = node, Confirmed(w.tx)
      PROVE  /\ InputTrue(w, o, old) /\ o \in Out /\ w.tx \in Spends(o)
             /\ SpendersOf(o) = {w.tx}
  <2>1. InputTrue(w, o, old) /\ o \in Out /\ SpendersOf(o) = {w.tx}
    BY <1>2, <1>4, ViewSpends DEF ViewInv, ViewTrue, ViewFields
  <2>2. SpendersOf(o) \subseteq Spends(o) BY <1>4, <2>1, SpendersFound DEF Current
  <2> QED BY <2>1, <2>2
<1>5. \/ Show(v, rest)
      \/ Spends(o) = {} /\ Show(v, unregistered)
      \/ Spends(o) # {} /\ Show(v, double)
  <2>1. (CASE sat = 0 -> Show(v, rest)
           [] sat # 0 /\ Spends(o) = {} -> Show(v, unregistered)
           [] sat # 0 /\ Spends(o) # {} -> Show(v, double))
    BY <1>1, Zenon
  <2> HIDE DEF rest, unregistered, double, sat
  <2> QED BY <2>1
<1> HIDE DEF rest
<1>6. CASE Show(v, rest) BY <1>2, <1>3, <1>6, NothingShown
<1>7. CASE Spends(o) = {} /\ Show(v, [rest EXCEPT !.ins[o].unregistered = TRUE])
  <2> DEFINE yes == TRUE
             in == [rest.ins[o] EXCEPT !.unregistered = yes]
             new == [rest EXCEPT !.ins = [rest.ins EXCEPT ![o] = in]]
  <2>1. Show(v, new) BY <1>7, Zenon
  <2>2. rest.ins[o] = old BY <1>3 DEF Rest
  <2>3. InputRecord(in)
    <3> HIDE DEF old, yes
    <3> QED BY <1>2, <2>2 DEF InputRecord
  <2>4. InputShows(w, o, in, new)
    <3>1. new = [rest EXCEPT !.ins = [rest.ins EXCEPT ![o] = in]] OBVIOUS
    <3> HIDE DEF w, in, new
    <3> QED BY <1>2, <1>3, <2>3, <3>1, InputOfRest
  <2>5. ~(w.at = node /\ Confirmed(w.tx)) BY <1>4, <1>7
  <2> HIDE DEF in, new
  <2> QED BY <1>2, <2>1, <2>4, <2>5, InputShown
<1>8. CASE /\ Spends(o) # {}
           /\ Show(v, [rest EXCEPT !.ins[o].double =
                           IF FirstSpend(o) = w.tx THEN NoHash ELSE FirstSpend(o)])
  <2> DEFINE first == IF FirstSpend(o) = w.tx THEN NoHash ELSE FirstSpend(o)
             in == [rest.ins[o] EXCEPT !.double = first]
             new == [rest EXCEPT !.ins = [rest.ins EXCEPT ![o] = in]]
  <2>1. Show(v, new) BY <1>8, Zenon
  <2>2. rest.ins[o] = old BY <1>3 DEF Rest
  <2>3. /\ InputRecord(in) /\ in.double = first /\ in.sat = old.sat
        /\ in.unregistered = old.unregistered /\ in.confirmed = old.confirmed
        /\ in.confirmations = old.confirmations
    <3> HIDE DEF old, first
    <3> QED BY <1>2, <2>2 DEF InputRecord
  <2>4. InputShows(w, o, in, new) /\ new.todo = w.todo
    <3>1. new = [rest EXCEPT !.ins = [rest.ins EXCEPT ![o] = in]] OBVIOUS
    <3> HIDE DEF w, in, new
    <3> QED BY <1>2, <1>3, <2>3, <3>1, InputOfRest
  <2>5. ASSUME w.at = node, Confirmed(w.tx)
        PROVE  first # NoHash => first \in Spends(o) \ SpendersOf(o)
    BY <1>4, <1>8, <2>5, FirstIsSpend
  <2> HIDE DEF in, new, first
  <2>6. w.at = node /\ Confirmed(w.tx) => InputTrue(new, o, in)
    <3>1. ASSUME w.at = node, Confirmed(w.tx) PROVE InputTrue(w, o, old) /\ new.pc = w.pc
      BY <1>4, <2>4, <3>1 DEF InputShows
    <3> HIDE DEF w, old
    <3> QED BY <1>2, <2>3, <2>4, <2>5, <3>1 DEF InputTrue
  <2> QED BY <1>2, <2>1, <2>4, <2>6, InputShown
<1> QED BY <1>5, <1>6, <1>7, <1>8

LEMMA FillOutputsShows ==
  ASSUME RowsTrue, NEW v \in Request, ViewInv(view[v]), Current(view[v].at), FillOutputs(v)
  PROVE  Shows(v)
<1> DEFINE w == view[v]
           none == [spent |-> NoHash, attempts |-> {}]
           shown(o) == IF Spends(o) = {} THEN none
                       ELSE [spent |-> FirstSpend(o),
                             attempts |-> IF Spends(o) = {FirstSpend(o)} THEN {} ELSE Spends(o)]
           outs == [o \in {x \in Out : TxOf[x] = w.tx} |-> shown(o)]
           new == [w EXCEPT !.pc = "tip", !.outs = outs]
<1>1. w.pc = "spent" /\ Show(v, new) BY DEF FillOutputs
<1>2. ASSUME w.at = node, NEW o \in DOMAIN outs PROVE o \in Out /\ OutputTrue(o, outs[o])
  <2>1. SpendersOf(o) \subseteq Spends(o) /\ NoHash \notin Spends(o)
    BY <1>2, SpendersFound DEF Current
  <2>2. outs[o] = shown(o) BY <1>2
  <2>3. CASE Spends(o) = {}
    <3>1. ({outs[o].spent} \cup outs[o].attempts) \ {NoHash} = {} BY <2>2, <2>3
    <3> QED BY <1>2, <2>1, <2>3, <3>1 DEF OutputTrue
  <2>4. CASE Spends(o) # {}
    <3>1. FirstSpend(o) \in Spends(o) BY <2>4, FirstIsSpend
    <3>2. outs[o].spent = FirstSpend(o)
          /\ outs[o].attempts = (IF Spends(o) = {FirstSpend(o)} THEN {} ELSE Spends(o))
      BY <2>2, <2>4
    <3>3. ({outs[o].spent} \cup outs[o].attempts) \ {NoHash} = Spends(o)
      BY <2>1, <3>1, <3>2
    <3> QED BY <1>2, <2>1, <3>3 DEF OutputTrue
  <2> QED BY <2>3, <2>4
<1>3. ViewFields(w) /\ ViewRecord(w) BY DEF ViewInv, ViewFields
<1> HIDE DEF outs
<1>4. /\ ViewRecord(new) /\ new.pc = "tip" /\ new.outs = outs /\ new.tx = w.tx /\ new.at = w.at
      /\ new.ins = w.ins /\ new.todo = w.todo /\ new.looks = w.looks
  <2>1. new = [w EXCEPT !.pc = "tip", !.outs = outs] OBVIOUS
  <2> HIDE DEF w, new
  <2> QED BY <1>3, <2>1 DEF ViewRecord
<1> HIDE DEF new
<1>5. Marked(new.at) /\ ViewFields(new) BY <1>1, <1>3, <1>4 DEF ViewInv, ViewFields
<1>6. ASSUME w.at = node, Confirmed(w.tx) PROVE ViewTrue(new)
  <2>1. ASSUME NEW o \in DOMAIN w.ins PROVE InputTrue(new, o, w.ins[o])
    <3>1. InputTrue(w, o, w.ins[o]) BY <1>1, <1>6 DEF ViewInv, ViewTrue
    <3> QED BY <1>1, <1>4, <3>1 DEF InputTrue
  <2> QED BY <1>2, <1>4, <1>6, <2>1 DEF ViewTrue
<1> QED BY <1>1, <1>4, <1>5, <1>6 DEF Shows, ViewInv

LEMMA ReadVinTipShows ==
  ASSUME NEW v \in Request, ViewInv(view[v]), Current(view[v].at), ReadVinTip(v)
  PROVE  Shows(v)
<1> DEFINE w == view[v]
           height == GetTip.height
           todo == DOMAIN w.ins
           new == [w EXCEPT !.pc = "vin", !.chainHeight = height, !.todo = todo]
<1>1. w.pc = "tip" /\ Show(v, new) BY DEF ReadVinTip
<1>2. ViewFields(w) /\ ViewRecord(w) /\ w.looks = {} BY <1>1 DEF ViewInv, ViewFields
<1>3. w.at = node => height = Depth[node] BY DEF Current, IndexCurrent
<1> HIDE DEF height
<1>4. /\ ViewRecord(new) /\ new.pc = "vin" /\ new.outs = w.outs /\ new.tx = w.tx /\ new.at = w.at
      /\ new.ins = w.ins /\ new.todo = DOMAIN w.ins /\ new.looks = w.looks
      /\ new.chainHeight = height
  <2>1. new = [w EXCEPT !.pc = "vin", !.chainHeight = height, !.todo = todo]
        /\ todo = DOMAIN w.ins
    OBVIOUS
  <2> HIDE DEF w, new, todo
  <2> QED BY <1>2, <2>1 DEF ViewRecord
<1> HIDE DEF new
<1>5. Marked(new.at) /\ ViewFields(new) BY <1>1, <1>2, <1>4 DEF ViewInv, ViewFields
<1>6. ASSUME w.at = node, Confirmed(w.tx) PROVE ViewTrue(new)
  <2>1. ViewTrue(w) BY <1>1, <1>6 DEF ViewInv
  <2>2. ASSUME NEW o \in DOMAIN w.ins PROVE InputTrue(new, o, w.ins[o])
    <3>1. InputTrue(w, o, w.ins[o]) BY <2>1 DEF ViewTrue
    <3> QED BY <1>1, <1>4, <3>1 DEF InputTrue
  <2> QED BY <1>2, <1>3, <1>4, <1>6, <2>1, <2>2 DEF ViewTrue
<1> QED BY <1>1, <1>4, <1>5, <1>6 DEF Shows, ViewInv

LEMMA FillVinShows ==
  ASSUME ValidBlocks, LedgerInv, NEW v \in Request, ViewInv(view[v]),
         Current(view[v].at), FillVin(v)
  PROVE  Shows(v)
<1> DEFINE w == view[v]
<1>1. PICK o \in w.todo :
        LET height == btx[TxOf[o]].height
            rest == [w EXCEPT !.todo = @ \ {o}]
        IN  CASE btx[TxOf[o]] = NoEntry -> Show(v, [rest EXCEPT !.looks = @ \cup {o}])
              [] btx[TxOf[o]] # NoEntry /\ height < 0 -> Show(v, rest)
              [] btx[TxOf[o]] # NoEntry /\ height >= 0 ->
                   Show(v, [rest EXCEPT !.ins[o].confirmed = w.chainHeight >= height,
                                        !.ins[o].confirmations = w.chainHeight - height + 1])
  BY Zenon DEF FillVin
<1> DEFINE old == w.ins[o]
           entry == btx[TxOf[o]]
           height == entry.height
           rest == [w EXCEPT !.todo = @ \ {o}]
           unindexed == [rest EXCEPT !.looks = @ \cup {o}]
           counted == [rest EXCEPT !.ins[o].confirmed = w.chainHeight >= height,
                                   !.ins[o].confirmations = w.chainHeight - height + 1]
<1>2. /\ w.pc = "vin" /\ o \in DOMAIN w.ins /\ ViewFields(w) /\ InputRecord(old)
  BY DEF FillVin, ViewInv, ViewFields
<1>3. \/ entry = NoEntry /\ Show(v, unindexed)
      \/ entry # NoEntry /\ height < 0 /\ Show(v, rest)
      \/ entry # NoEntry /\ height >= 0 /\ Show(v, counted)
  <2>1. (CASE entry = NoEntry -> Show(v, unindexed)
           [] entry # NoEntry /\ height < 0 -> Show(v, rest)
           [] entry # NoEntry /\ height >= 0 -> Show(v, counted))
    BY <1>1, Zenon
  <2>2. TxOf[o] \in Tx BY <1>2, InputsAreOutputs, LedgerAssumption DEF ViewFields
  <2>3. entry # NoEntry => height \in Int 
    BY <2>2 DEF LedgerInv, IInv, TypeOK, DbTypeOK, Entry
  <2> HIDE DEF entry, height, rest, unindexed, counted
  <2>4. CASE entry = NoEntry BY <2>1, <2>4
  <2>5. CASE entry # NoEntry /\ height < 0 BY <2>1, <2>5
  <2>6. CASE entry # NoEntry /\ ~(height < 0)
    <3>1. height >= 0 BY <2>3, <2>6
    <3> QED BY <2>1, <2>6, <3>1
  <2> QED BY <2>4, <2>5, <2>6
<1>4. ASSUME w.at = node, Confirmed(w.tx)
      PROVE  /\ InputTrue(w, o, old) /\ w.looks = {} /\ w.chainHeight = Depth[node]
             /\ entry # NoEntry /\ height \in Nat /\ height <= Depth[node]
             /\ RpcConfirmations(TxOf[o]) = Depth[node] - height + 1
  <2>1. ViewTrue(w) BY <1>2, <1>4 DEF ViewInv
  <2>2. node \in Block BY DEF LedgerInv
  <2>3. TxOf[o] \in Tx /\ Confirmed(TxOf[o]) BY <1>2, <1>4, <2>2, ViewSpends DEF ViewFields
  <2> QED BY <1>2, <1>4, <2>1, <2>3 DEF ViewTrue, Current, IndexCurrent
<1>5. Rest(w, o, rest) /\ rest.todo = w.todo \ {o} /\ rest.looks = w.looks
  <2>1. rest = [w EXCEPT !.todo = @ \ {o}, !.looks = w.looks] BY <1>2 DEF ViewFields, ViewRecord
  <2>2. LookedUp(w, o, w.looks, rest)
    <3>1. w.looks \subseteq DOMAIN w.ins BY <1>2 DEF ViewFields
    <3> HIDE DEF rest
    <3> QED BY <1>2, <2>1, <3>1 DEF LookedUp
  <2> HIDE DEF w, rest
  <2> QED BY <2>2, RestOfTodo
<1>6. CASE entry = NoEntry /\ Show(v, unindexed)
  <2> DEFINE looks == w.looks \cup {o}
             new == [w EXCEPT !.todo = @ \ {o}, !.looks = looks]
  <2>1. Show(v, new)
    <3>1. unindexed = new BY <1>2 DEF ViewFields, ViewRecord
    <3> QED BY <1>6, <3>1, Zenon
  <2>2. Rest(w, o, new)
    <3>1. looks \subseteq DOMAIN w.ins BY <1>2 DEF ViewFields
    <3>2. LookedUp(w, o, looks, new) BY <1>2, <3>1 DEF LookedUp
    <3> HIDE DEF looks, w, new
    <3> QED BY <3>2, RestOfTodo
  <2>3. ~(w.at = node /\ Confirmed(w.tx)) BY <1>4, <1>6
  <2> HIDE DEF new
  <2> QED BY <1>2, <2>1, <2>2, <2>3, NothingShown
<1>7. CASE height < 0 /\ Show(v, rest)
  <2>1. ~(w.at = node /\ Confirmed(w.tx))
    <3> HIDE DEF height
    <3> QED BY <1>4, <1>7
  <2> HIDE DEF rest
  <2> QED BY <1>2, <1>5, <1>7, <2>1, NothingShown
<1>8. CASE Show(v, counted)
  <2> DEFINE yes == w.chainHeight >= height
             n == w.chainHeight - height + 1
             in1 == [rest.ins[o] EXCEPT !.confirmed = yes]
             mid == [rest EXCEPT !.ins = [rest.ins EXCEPT ![o] = in1]]
             in == [mid.ins[o] EXCEPT !.confirmations = n]
             new == [mid EXCEPT !.ins = [mid.ins EXCEPT ![o] = in]]
  <2>1. Show(v, new) BY <1>8, Zenon
  <2> HIDE DEF rest
  <2>2. /\ InputRecord(in1) /\ in1.sat = old.sat /\ in1.double = old.double
        /\ in1.unregistered = old.unregistered /\ in1.confirmed <=> yes
    <3>1. rest.ins[o] = old BY <1>5 DEF Rest
    <3> HIDE DEF old, yes
    <3> QED BY <1>2, <3>1 DEF InputRecord
  <2>3. InputShows(w, o, in1, mid) /\ mid.todo = rest.todo /\ mid.looks = rest.looks
    <3>1. mid = [rest EXCEPT !.ins = [rest.ins EXCEPT ![o] = in1]] OBVIOUS
    <3> HIDE DEF w, in1, mid
    <3> QED BY <1>2, <1>5, <2>2, <3>1, InputOfRest
  <2>4. /\ InputRecord(in) /\ in.sat = old.sat /\ in.double = old.double
        /\ in.unregistered = old.unregistered /\ in.confirmed <=> yes
        /\ in.confirmations = n
    <3>1. mid.ins[o] = in1 BY <2>3 DEF InputShows
    <3> HIDE DEF old, yes, in1, n, mid
    <3> QED BY <2>2, <3>1 DEF InputRecord
  <2> HIDE DEF in1, mid
  <2>5. InputShows(mid, o, in, new) /\ new.todo = mid.todo /\ new.looks = mid.looks
    <3>1. new = [mid EXCEPT !.ins = [mid.ins EXCEPT ![o] = in]] OBVIOUS
    <3>2. ViewFields(mid) /\ o \in DOMAIN mid.ins BY <1>2, <2>3, ShownFields DEF InputShows
    <3>3. Rest(mid, o, mid) BY <3>2 DEF Rest, ViewFields
    <3> HIDE DEF in, new
    <3> QED BY <2>4, <3>1, <3>2, <3>3, InputOfRest
  <2> HIDE DEF in, new
  <2>6. InputShows(w, o, in, new) BY <2>3, <2>5 DEF InputShows
  <2>7. w.at = node /\ Confirmed(w.tx) => InputTrue(new, o, in) /\ new.looks = {}
    <3>1. ASSUME w.at = node, Confirmed(w.tx)
          PROVE  yes /\ n = RpcConfirmations(TxOf[o]) /\ new.looks = {} /\ InputTrue(w, o, old)
      <4>1. Depth[node] \in Nat BY DepthsAreNat DEF LedgerInv
      <4> HIDE DEF w, height
      <4> QED BY <1>4, <1>5, <2>3, <2>5, <3>1, <4>1
    <3>2. new.pc = "vin" BY <1>2, <2>6 DEF InputShows
    <3> HIDE DEF w, old, yes, n
    <3> QED BY <1>2, <2>4, <3>1, <3>2 DEF InputTrue
  <2> QED BY <1>2, <2>1, <2>6, <2>7, InputShown
<1> QED BY <1>3, <1>6, <1>7, <1>8

LEMMA FillVinByRpcShows ==
  ASSUME NEW v \in Request, ViewInv(view[v]), FillVinByRpc(v)
  PROVE  Shows(v)
<1> DEFINE w == view[v]
<1>1. PICK o \in w.looks :
        LET n == RpcConfirmations(TxOf[o])
            rest == [w EXCEPT !.looks = @ \ {o}]
        IN  \/ Show(v, rest)
            \/ Show(v, [rest EXCEPT !.ins[o].confirmed = TRUE, !.ins[o].confirmations = n])
  BY Zenon DEF FillVinByRpc
<1> DEFINE rest == [w EXCEPT !.looks = w.looks \ {o}]
           n == RpcConfirmations(TxOf[o])
<1>2. /\ w.pc = "vin" /\ o \in DOMAIN w.ins /\ ViewFields(w) /\ InputRecord(w.ins[o])
  BY DEF FillVinByRpc, ViewInv, ViewFields
<1>3. ~(w.at = node /\ Confirmed(w.tx)) BY <1>2 DEF ViewInv, ViewTrue
<1>4. Rest(w, o, rest)
  <2>1. rest = [w EXCEPT !.looks = w.looks \ {o}] OBVIOUS
  <2> HIDE DEF w, rest
  <2> QED BY <1>2, <2>1, RestOfLooks
<1>5. CASE Show(v, rest)
  <2> HIDE DEF rest
  <2> QED BY <1>2, <1>3, <1>4, <1>5, NothingShown
<1>6. CASE Show(v, [rest EXCEPT !.ins[o].confirmed = TRUE, !.ins[o].confirmations = n])
  <2> DEFINE yes == TRUE
             in1 == [rest.ins[o] EXCEPT !.confirmed = yes]
             mid == [rest EXCEPT !.ins = [rest.ins EXCEPT ![o] = in1]]
             in == [mid.ins[o] EXCEPT !.confirmations = n]
             new == [mid EXCEPT !.ins = [mid.ins EXCEPT ![o] = in]]
  <2>1. Show(v, new) BY <1>6, Zenon
  <2> HIDE DEF rest
  <2>2. InputRecord(in1)
    <3>1. InputRecord(rest.ins[o]) BY <1>2, <1>4 DEF Rest
    <3> HIDE DEF yes
    <3> QED BY <3>1 DEF InputRecord
  <2>3. InputShows(w, o, in1, mid)
    <3>1. mid = [rest EXCEPT !.ins = [rest.ins EXCEPT ![o] = in1]] OBVIOUS
    <3> HIDE DEF w, in1, mid
    <3> QED BY <1>2, <1>4, <2>2, <3>1, InputOfRest
  <2>4. InputRecord(in)
    <3>1. mid.ins[o] = in1 BY <2>3 DEF InputShows
    <3> HIDE DEF in1, n, mid
    <3> QED BY <2>2, <3>1 DEF InputRecord
  <2> HIDE DEF in1, mid
  <2>5. InputShows(mid, o, in, new) /\ new.todo = mid.todo
    <3>1. new = [mid EXCEPT !.ins = [mid.ins EXCEPT ![o] = in]] OBVIOUS
    <3>2. ViewFields(mid) /\ o \in DOMAIN mid.ins BY <1>2, <2>3, ShownFields DEF InputShows
    <3>3. Rest(mid, o, mid) BY <3>2 DEF Rest, ViewFields
    <3> HIDE DEF in, new
    <3> QED BY <2>4, <3>1, <3>2, <3>3, InputOfRest
  <2> HIDE DEF in, new
  <2>6. InputShows(w, o, in, new) BY <2>3, <2>5 DEF InputShows
  <2> QED BY <1>2, <1>3, <2>1, <2>6, InputShown
<1> QED BY <1>1, <1>5, <1>6

LEMMA AskTxShows ==
  ASSUME node \in Block, NEW v \in Request, AskTx(v)
  PROVE  Shows(v)
<1>1. CASE Show(v, NoView) BY <1>1, NoViewTrue DEF Shows
<1>2. ASSUME NEW t \in Tx, NEW at, at = (IF StoreCurrent THEN node ELSE NoHash), NEW w,
             w = [NoView EXCEPT !.pc = "outpoints", !.tx = t, !.todo = Inputs(t),
                                !.ins = [o \in Inputs(t) |-> NewInput], !.at = at]
      PROVE  ViewInv(w)
  <2> DEFINE ins == [o \in Inputs(t) |-> NewInput]
  <2>1. DOMAIN ins = Inputs(t) /\ \A o \in Inputs(t) : ins[o] = NewInput OBVIOUS
  <2>2. w = [NoView EXCEPT !.pc = "outpoints", !.tx = t, !.todo = Inputs(t), !.ins = ins, !.at = at]
    BY <1>2
  <2> HIDE DEF ins
  <2>3. w = [pc |-> "outpoints", tx |-> t, ins |-> ins, outs |-> << >>, todo |-> Inputs(t),
             looks |-> {}, chainHeight |-> -1, at |-> at]
    BY <2>2 DEF NoView
  <2>4. /\ ViewRecord(w) /\ w.pc = "outpoints" /\ w.tx = t /\ w.ins = ins /\ w.outs = << >>
        /\ w.todo = Inputs(t) /\ w.looks = {} /\ w.at = at
    BY <2>3 DEF ViewRecord
  <2>5. /\ InputRecord(NewInput) /\ ~NewInput.unregistered /\ NewInput.double = NoHash
    BY DEF InputRecord, NewInput
  <2>6. ViewFields(w) BY <1>2, <2>1, <2>4, <2>5 DEF ViewFields
  <2>7. Marked(w.at) BY <1>2, <2>4, DepthsAreNat, KeyFacts DEF Marked
  <2>8. ViewTrue(w)
    <3>1. \A o \in Inputs(t) : InputTrue(w, o, ins[o]) BY <2>1, <2>4, <2>5 DEF InputTrue
    <3>2. DOMAIN w.outs = {} BY <2>4
    <3> QED BY <2>1, <2>4, <3>1, <3>2 DEF ViewTrue
  <2> QED BY <2>6, <2>7, <2>8 DEF ViewInv
<1>3. ASSUME NEW t \in Tx,
             Show(v, [NoView EXCEPT !.pc = "outpoints", !.tx = t, !.todo = Inputs(t),
                                    !.ins = [o \in Inputs(t) |-> NewInput],
                                    !.at = IF StoreCurrent THEN node ELSE NoHash])
      PROVE  Shows(v)
  <2> DEFINE at == IF StoreCurrent THEN node ELSE NoHash
             w == [NoView EXCEPT !.pc = "outpoints", !.tx = t, !.todo = Inputs(t),
                                 !.ins = [o \in Inputs(t) |-> NewInput], !.at = at]
  <2>1. Show(v, w) BY <1>3, Zenon
  <2>2. /\ at = IF StoreCurrent THEN node ELSE NoHash
        /\ w = [NoView EXCEPT !.pc = "outpoints", !.tx = t, !.todo = Inputs(t),
                              !.ins = [o \in Inputs(t) |-> NewInput], !.at = at]
    OBVIOUS
  <2> HIDE DEF at, w
  <2>3. ViewInv(w) BY <1>2, <2>2, Zenon
  <2> QED BY <2>1, <2>3 DEF Shows
<1> QED BY <1>1, <1>3, Zenon DEF AskTx

----------------------------------------------------------------------------
(* Every request for a transaction is on its way to its answer. *)

LEMMA ViewShows ==
  ASSUME ValidBlocks, LedgerInv, RowsTrue, StoreCurrent => IndexCurrent,
         NEW v \in Request, ViewInv(view[v]), ViewStep(v)
  PROVE  Shows(v)
<1>1. node \in Block /\ Current(view[v].at) BY DEF LedgerInv, ViewInv, Marked, Current
<1>2. CASE ReadOutpoint(v) BY <1>1, <1>2, ReadOutpointShows
<1>3. CASE CheckSpent(v) BY <1>1, <1>3, CheckSpentShows
<1>4. CASE FillOutputs(v) BY <1>1, <1>4, FillOutputsShows
<1>5. CASE ReadVinTip(v) BY <1>1, <1>5, ReadVinTipShows
<1>6. CASE FillVin(v) BY <1>1, <1>6, FillVinShows
<1>7. CASE FillVinByRpc(v) BY <1>1, <1>7, FillVinByRpcShows
<1> QED BY <1>2, <1>3, <1>4, <1>5, <1>6, <1>7 DEF ViewStep

(* The record of a request after a step, told as it was before. *)
LEMMA ViewMoved ==
  ASSUME ValidBlocks, LedgerInv, StoreCurrent => IndexCurrent, AnswersInv,
         [LedgerNext]_ledgerVars
  PROVE  DOMAIN view' = Request /\ \A p \in Request : \A w : w = view'[p] => ViewInv(w)
<1> node \in Block /\ RowsTrue BY DEF LedgerInv, AnswersInv
<1>1. DOMAIN view = Request /\ \A r \in Request : ViewInv(view[r]) BY DEF AnswersInv
<1>2. CASE UNCHANGED view BY <1>1, <1>2
<1>3. ASSUME NEW r \in Request, NEW new, ViewInv(new), view' = [view EXCEPT ![r] = new]
      PROVE  DOMAIN view' = Request /\ \A p \in Request : \A w : w = view'[p] => ViewInv(w)
  BY <1>1, <1>3
<1>4. CASE Advance \/ PeerSends \/ UNCHANGED ledgerVars
  BY <1>2, <1>4 DEF Advance, PeerSends, ledgerVars
<1>5. ASSUME NEW s \in Syncer, Feed(s) \/ Stores(s) PROVE UNCHANGED view
  BY <1>5 DEF Feed, Stores
<1>6. ASSUME NEW r \in Request, Asks(r) PROVE view' = [view EXCEPT ![r] = NoView]
  BY <1>6 DEF Asks
<1>7. ASSUME NEW r \in Request, Serve(r) PROVE UNCHANGED view
  BY <1>7 DEF Serve
<1>8. ASSUME NEW r \in Request, Views(r) PROVE Shows(r)
  BY <1>1, <1>8, AskTxShows, ViewShows DEF Views
<1>9. ASSUME NEW r \in Request, Shows(r)
      PROVE  \E new : ViewInv(new) /\ view' = [view EXCEPT ![r] = new]
  <2>1. PICK w : Show(r, w) /\ ViewInv(w) BY <1>9 DEF Shows
  <2> QED BY <2>1, NextPhaseTrue DEF Show
<1> QED BY <1>2, <1>3, <1>4, <1>5, <1>6, <1>7, <1>8, <1>9, NoViewTrue DEF LedgerNext

LEMMA ViewsStep ==
  ASSUME ValidBlocks, LedgerInv, RInv, StoreCurrent => IndexCurrent,
         AnswersInv, [LedgerNext]_ledgerVars
  PROVE  (DOMAIN view = Request)' /\ \A p \in Request : ViewInv(view[p])'
<1> RowsTrue /\ node \in Block BY DEF AnswersInv, LedgerInv
<1>1. ASSUME NEW p \in Request, NEW w, w = view'[p] PROVE ViewInv(w)'
  <2>1. ViewInv(w) BY <1>1, ViewMoved
  <2>2. CASE Advance
    <3>1. Marked(w.at)' /\ w.at # node' BY <2>1, <2>2, AdvanceMarks DEF ViewInv
    <3> QED BY <2>1, <3>1, ViewOff
  <2>3. CASE ~Advance
    <3>1. AnswersKeep /\ RowsKeepIntact BY <2>3, StepKeeps DEF AnswersInv, ReplyInv
    <3> QED BY <2>1, <3>1, ViewKeeps
  <2> QED BY <2>2, <2>3
<1> QED BY <1>1, ViewMoved

----------------------------------------------------------------------------
(* The types of a view, and with them those of every state.                *)

ViewType(w) ==
  /\ ViewFields(w)
  /\ w.pc \in ViewPhases /\ w.chainHeight \in Int
  /\ \A o \in DOMAIN w.ins : w.ins[o] \in InItem /\ o \in Inputs(w.tx)
  /\ \A o \in DOMAIN w.outs : w.outs[o] \in OutItem /\ TxOf[o] = w.tx

LEMMA NoViewType == ViewType(NoView)
<1>1. /\ NoView.pc = "idle" /\ NoView.todo = {} /\ NoView.looks = {} /\ NoView.chainHeight = -1
      /\ NoView.ins = << >> /\ NoView.outs = << >>
  BY DEF NoView
<1>2. DOMAIN NoView.ins = {} /\ DOMAIN NoView.outs = {} BY <1>1
<1>3. ViewRecord(NoView) BY DEF ViewRecord, NoView
<1> QED BY <1>1, <1>2, <1>3 DEF ViewType, ViewFields, ViewPhases

LEMMA NextPhaseType ==
  ASSUME NEW w, ViewType(w), NEW new, new = NextPhase(w)
  PROVE  ViewType(new)
<1>1. ASSUME NEW phase \in {"spent", "done"}, w.todo = {}, w.looks = {}, w.pc # "idle",
             new = [w EXCEPT !.pc = phase]
      PROVE  ViewType(new)
  <2>1. ViewRecord(w) BY DEF ViewType, ViewFields
  <2>2. /\ ViewRecord(new) /\ new.pc = phase /\ new.tx = w.tx /\ new.ins = w.ins
        /\ new.outs = w.outs /\ new.todo = {} /\ new.looks = {}
        /\ new.chainHeight = w.chainHeight
    BY <1>1, <2>1 DEF ViewRecord
  <2>3. ViewFields(new) BY <1>1, <2>2 DEF ViewType, ViewFields
  <2> QED BY <2>2, <2>3 DEF ViewType, ViewPhases
<1>2. CASE w.todo # {} \/ w.looks # {}
  <2>1. new = w BY <1>2 DEF NextPhase
  <2> QED BY <2>1
<1>3. CASE w.todo = {} /\ w.looks = {} /\ w.pc = "outpoints"
  <2>1. new = [w EXCEPT !.pc = "spent"] BY <1>3 DEF NextPhase
  <2> QED BY <1>1, <1>3, <2>1
<1>4. CASE w.todo = {} /\ w.looks = {} /\ w.pc = "vin"
  <2>1. new = [w EXCEPT !.pc = "done"] BY <1>4 DEF NextPhase
  <2> QED BY <1>1, <1>4, <2>1
<1>5. CASE w.pc \notin {"outpoints", "vin"}
  <2>1. new = w BY <1>5 DEF NextPhase
  <2> QED BY <2>1
<1> QED BY <1>2, <1>3, <1>4, <1>5

(* A view moves on to a record of its type. *)
Typically(v) == \E w : Show(v, w) /\ ViewType(w)

LEMMA InputType ==
  ASSUME NEW v \in Request, ViewType(view[v]), view[v].pc \in {"outpoints", "vin"},
         NEW o \in DOMAIN view[v].ins, NEW in \in InItem, NEW new,
         InputShows(view[v], o, in, new), Show(v, new)
  PROVE  Typically(v)
<1> DEFINE w == view[v]
<1>1. ViewFields(new)
  <2> HIDE DEF w
  <2> QED BY ShownFields DEF ViewType
<1>2. \A p \in DOMAIN w.ins : new.ins[p] \in InItem BY DEF ViewType, InputShows
<1>3. ViewType(new) BY <1>1, <1>2 DEF ViewType, InputShows
<1> QED BY <1>3 DEF Typically

LEMMA NothingType ==
  ASSUME NEW v \in Request, ViewType(view[v]), view[v].pc \in {"outpoints", "vin"},
         NEW o \in DOMAIN view[v].ins, NEW new, Rest(view[v], o, new), Show(v, new)
  PROVE  Typically(v)
<1> DEFINE w == view[v]
           in == w.ins[o]
<1>1. ViewFields(w) /\ InputRecord(in) /\ in \in InItem BY DEF ViewType, ViewFields
<1>2. InputShows(w, o, in, new) BY <1>1, InputOfRest
<1> HIDE DEF in
<1> QED BY <1>1, <1>2, InputType

(* A lookup changes its input to one of the type. *)
LEMMA LookedUpType ==
  ASSUME NEW v \in Request, ViewType(view[v]), view[v].pc \in {"outpoints", "vin"},
         NEW o \in DOMAIN view[v].ins, NEW rest, Rest(view[v], o, rest),
         NEW in \in InItem, NEW new,
         new = [rest EXCEPT !.ins = [rest.ins EXCEPT ![o] = in]], Show(v, new)
  PROVE  Typically(v)
<1> DEFINE w == view[v]
<1>1. InputRecord(in) BY DEF InItem, InputRecord
<1>2. ViewFields(w) /\ o \in DOMAIN w.ins /\ Rest(w, o, rest) BY DEF ViewType
<1>3. InputShows(w, o, in, new)
  <2> HIDE DEF w
  <2> QED BY <1>1, <1>2, InputOfRest
<1> QED BY <1>3, InputType

LEMMA ReadOutpointType ==
  ASSUME RowsType, NEW v \in Request, ViewType(view[v]), ReadOutpoint(v)
  PROVE  Typically(v)
<1> DEFINE w == view[v]
<1>1. PICK o \in w.todo :
        LET sat == IF txo[o] = Absent THEN 0 ELSE txo[o].sat IN
          Show(v, [w EXCEPT !.todo = @ \ {o}, !.looks = @ \cup {o}, !.ins[o].sat = sat])
  BY Zenon DEF ReadOutpoint
<1> DEFINE sat == IF txo[o] = Absent THEN 0 ELSE txo[o].sat
           looks == w.looks \cup {o}
           old == w.ins[o]
           in == [old EXCEPT !.sat = sat]
           rest == [w EXCEPT !.todo = w.todo \ {o}, !.looks = looks]
           new == [rest EXCEPT !.ins = [rest.ins EXCEPT ![o] = in]]
<1>2. /\ w.pc = "outpoints" /\ o \in DOMAIN w.ins /\ ViewFields(w) /\ old \in InItem
      /\ looks \subseteq DOMAIN w.ins /\ w.tx \in Tx /\ o \in Inputs(w.tx)
  BY DEF ReadOutpoint, ViewType, ViewFields
<1>3. new = [w EXCEPT !.todo = @ \ {o}, !.looks = @ \cup {o}, !.ins[o].sat = sat]
  <2> HIDE DEF sat
  <2> QED BY <1>2 DEF ViewFields, ViewRecord
<1>4. Show(v, new) BY <1>1, <1>3, Zenon
<1>5. sat \in Nat
  <2>1. o \in Out BY <1>2, InputsAreOutputs
  <2> QED BY <2>1 DEF RowsType, TxTypeOK, OutRow
<1>6. in \in InItem
  <2> HIDE DEF old, sat
  <2> QED BY <1>2, <1>5 DEF InItem
<1>7. Rest(w, o, rest)
  <2>1. LookedUp(w, o, looks, rest) BY <1>2 DEF LookedUp
  <2> HIDE DEF looks, w, rest
  <2> QED BY <2>1, RestOfTodo
<1>8. new = [rest EXCEPT !.ins = [rest.ins EXCEPT ![o] = in]] OBVIOUS
<1> HIDE DEF rest, in, new
<1> QED BY <1>2, <1>4, <1>6, <1>7, <1>8, LookedUpType

LEMMA CheckSpentType ==
  ASSUME NEW v \in Request, ViewType(view[v]), CheckSpent(v)
  PROVE  Typically(v)
<1> DEFINE w == view[v]
<1>1. PICK o \in w.looks :
        LET rest == [w EXCEPT !.looks = @ \ {o}] IN
          CASE w.ins[o].sat = 0 -> Show(v, rest)
            [] w.ins[o].sat # 0 /\ Spends(o) = {} ->
                 Show(v, [rest EXCEPT !.ins[o].unregistered = TRUE])
            [] w.ins[o].sat # 0 /\ Spends(o) # {} ->
                 Show(v, [rest EXCEPT !.ins[o].double =
                            IF FirstSpend(o) = w.tx THEN NoHash ELSE FirstSpend(o)])
  BY Zenon DEF CheckSpent
<1> DEFINE old == w.ins[o]
           rest == [w EXCEPT !.looks = w.looks \ {o}]
           unregistered == [rest EXCEPT !.ins[o].unregistered = TRUE]
           double == [rest EXCEPT !.ins[o].double =
                        IF FirstSpend(o) = w.tx THEN NoHash ELSE FirstSpend(o)]
           sat == old.sat
<1>2. w.pc = "outpoints" /\ o \in DOMAIN w.ins /\ ViewFields(w) /\ old \in InItem
  BY DEF CheckSpent, ViewType, ViewFields
<1>3. Rest(w, o, rest) /\ rest.ins[o] = old
  <2>1. rest = [w EXCEPT !.looks = w.looks \ {o}] OBVIOUS
  <2> HIDE DEF w, rest
  <2>2. Rest(w, o, rest) BY <1>2, <2>1, RestOfLooks
  <2> QED BY <2>2 DEF Rest
<1>4. \/ Show(v, rest)
      \/ Spends(o) = {} /\ Show(v, unregistered)
      \/ Spends(o) # {} /\ Show(v, double)
  <2>1. (CASE sat = 0 -> Show(v, rest)
           [] sat # 0 /\ Spends(o) = {} -> Show(v, unregistered)
           [] sat # 0 /\ Spends(o) # {} -> Show(v, double))
    BY <1>1, Zenon
  <2> HIDE DEF rest, unregistered, double, sat
  <2> QED BY <2>1
<1> HIDE DEF rest
<1>5. CASE Show(v, rest) BY <1>2, <1>3, <1>5, NothingType
<1>6. CASE Spends(o) = {} /\ Show(v, [rest EXCEPT !.ins[o].unregistered = TRUE])
  <2> DEFINE yes == TRUE
             in == [rest.ins[o] EXCEPT !.unregistered = yes]
             new == [rest EXCEPT !.ins = [rest.ins EXCEPT ![o] = in]]
  <2>1. Show(v, new) BY <1>6, Zenon
  <2>2. in \in InItem
    <3>1. yes \in BOOLEAN OBVIOUS
    <3> HIDE DEF old, yes
    <3> QED BY <1>2, <1>3, <3>1 DEF InItem
  <2>3. new = [rest EXCEPT !.ins = [rest.ins EXCEPT ![o] = in]] OBVIOUS
  <2> HIDE DEF in, new
  <2> QED BY <1>2, <1>3, <2>1, <2>2, <2>3, LookedUpType
<1>7. CASE /\ Spends(o) # {}
           /\ Show(v, [rest EXCEPT !.ins[o].double =
                           IF FirstSpend(o) = w.tx THEN NoHash ELSE FirstSpend(o)])
  <2> DEFINE first == IF FirstSpend(o) = w.tx THEN NoHash ELSE FirstSpend(o)
             in == [rest.ins[o] EXCEPT !.double = first]
             new == [rest EXCEPT !.ins = [rest.ins EXCEPT ![o] = in]]
  <2>1. Show(v, new) BY <1>7, Zenon
  <2>2. first \in Tx \cup {NoHash} BY <1>7, FirstIsSpend
  <2>3. in \in InItem
    <3> HIDE DEF old, first
    <3> QED BY <1>2, <1>3, <2>2 DEF InItem
  <2>4. new = [rest EXCEPT !.ins = [rest.ins EXCEPT ![o] = in]] OBVIOUS
  <2> HIDE DEF in, new
  <2> QED BY <1>2, <1>3, <2>1, <2>3, <2>4, LookedUpType
<1> QED BY <1>4, <1>5, <1>6, <1>7

LEMMA FillOutputsType ==
  ASSUME NEW v \in Request, ViewType(view[v]), FillOutputs(v)
  PROVE  Typically(v)
<1> DEFINE w == view[v]
           none == [spent |-> NoHash, attempts |-> {}]
           shown(o) == IF Spends(o) = {} THEN none
                       ELSE [spent |-> FirstSpend(o),
                             attempts |-> IF Spends(o) = {FirstSpend(o)} THEN {} ELSE Spends(o)]
           outs == [o \in {x \in Out : TxOf[x] = w.tx} |-> shown(o)]
           new == [w EXCEPT !.pc = "tip", !.outs = outs]
<1>1. w.pc = "spent" /\ Show(v, new) BY DEF FillOutputs
<1>2. ASSUME NEW o \in DOMAIN outs PROVE outs[o] \in OutItem /\ TxOf[o] = w.tx
  <2>1. outs[o] = shown(o) /\ TxOf[o] = w.tx OBVIOUS
  <2>2. Spends(o) \subseteq Tx BY DEF Spends
  <2>3. Spends(o) # {} => FirstSpend(o) \in Tx BY FirstIsSpend
  <2>4. shown(o) \in OutItem BY <2>2, <2>3 DEF OutItem
  <2> QED BY <2>1, <2>4
<1>3. ViewFields(w) /\ ViewRecord(w) BY DEF ViewType, ViewFields
<1> HIDE DEF outs
<1>4. /\ ViewRecord(new) /\ new.pc = "tip" /\ new.outs = outs /\ new.tx = w.tx
      /\ new.ins = w.ins /\ new.todo = w.todo /\ new.looks = w.looks
      /\ new.chainHeight = w.chainHeight
  <2>1. new = [w EXCEPT !.pc = "tip", !.outs = outs] OBVIOUS
  <2> HIDE DEF w, new
  <2> QED BY <1>3, <2>1 DEF ViewRecord
<1> HIDE DEF new
<1>5. ViewFields(new) BY <1>1, <1>3, <1>4 DEF ViewFields
<1>6. ViewType(new) BY <1>2, <1>4, <1>5 DEF ViewType, ViewPhases
<1> QED BY <1>1, <1>6 DEF Typically

LEMMA ReadVinTipType ==
  ASSUME TypeOK, NEW v \in Request, ViewType(view[v]), ReadVinTip(v)
  PROVE  Typically(v)
<1> DEFINE w == view[v]
           height == GetTip.height
           todo == DOMAIN w.ins
           new == [w EXCEPT !.pc = "vin", !.chainHeight = height, !.todo = todo]
<1>1. w.pc = "tip" /\ Show(v, new) BY DEF ReadVinTip
<1>2. ViewFields(w) /\ ViewRecord(w) /\ height \in Int BY HeightTypes DEF ViewType, ViewFields
<1> HIDE DEF height
<1>3. /\ ViewRecord(new) /\ new.pc = "vin" /\ new.outs = w.outs /\ new.tx = w.tx
      /\ new.ins = w.ins /\ new.todo = DOMAIN w.ins /\ new.looks = w.looks
      /\ new.chainHeight = height
  <2>1. new = [w EXCEPT !.pc = "vin", !.chainHeight = height, !.todo = todo]
        /\ todo = DOMAIN w.ins
    OBVIOUS
  <2> HIDE DEF w, new, todo
  <2> QED BY <1>2, <2>1 DEF ViewRecord
<1> HIDE DEF new
<1>4. ViewFields(new) BY <1>1, <1>2, <1>3 DEF ViewFields
<1>5. ViewType(new) BY <1>2, <1>3, <1>4 DEF ViewType, ViewPhases
<1> QED BY <1>1, <1>5 DEF Typically

LEMMA ConfirmedType ==
  ASSUME NEW old \in InItem, NEW x \in BOOLEAN, NEW n \in Int,
         NEW in, in = [old EXCEPT !.confirmed = x, !.confirmations = n]
  PROVE  in \in InItem
BY DEF InItem

LEMMA FillVinType ==
  ASSUME TypeOK, NEW v \in Request, ViewType(view[v]), FillVin(v)
  PROVE  Typically(v)
<1> DEFINE w == view[v]
<1>1. PICK o \in w.todo :
        LET height == btx[TxOf[o]].height
            rest == [w EXCEPT !.todo = @ \ {o}]
        IN  CASE btx[TxOf[o]] = NoEntry -> Show(v, [rest EXCEPT !.looks = @ \cup {o}])
              [] btx[TxOf[o]] # NoEntry /\ height < 0 -> Show(v, rest)
              [] btx[TxOf[o]] # NoEntry /\ height >= 0 ->
                   Show(v, [rest EXCEPT !.ins[o].confirmed = w.chainHeight >= height,
                                        !.ins[o].confirmations = w.chainHeight - height + 1])
  BY Zenon DEF FillVin
<1> DEFINE old == w.ins[o]
           entry == btx[TxOf[o]]
           height == entry.height
           rest == [w EXCEPT !.todo = @ \ {o}]
           unindexed == [rest EXCEPT !.looks = @ \cup {o}]
           counted == [rest EXCEPT !.ins[o].confirmed = w.chainHeight >= height,
                                   !.ins[o].confirmations = w.chainHeight - height + 1]
<1>2. /\ w.pc = "vin" /\ o \in DOMAIN w.ins /\ ViewFields(w) /\ old \in InItem
      /\ w.chainHeight \in Int /\ w.looks \subseteq DOMAIN w.ins
  BY DEF FillVin, ViewType, ViewFields
<1>3. height \in Int
  <2>1. TxOf[o] \in Tx BY <1>2, InputsAreOutputs, LedgerAssumption DEF ViewFields
  <2> QED BY <2>1, HeightTypes
<1>4. Show(v, unindexed) \/ Show(v, rest) \/ Show(v, counted)
  <2>1. (CASE entry = NoEntry -> Show(v, unindexed)
           [] entry # NoEntry /\ height < 0 -> Show(v, rest)
           [] entry # NoEntry /\ height >= 0 -> Show(v, counted))
    BY <1>1, Zenon
  <2> HIDE DEF entry, height, rest, unindexed, counted
  <2>2. CASE entry = NoEntry BY <2>1, <2>2
  <2>3. CASE entry # NoEntry /\ height < 0 BY <2>1, <2>3
  <2>4. CASE entry # NoEntry /\ ~(height < 0)
    <3>1. height >= 0 BY <1>3, <2>4
    <3> QED BY <2>1, <2>4, <3>1
  <2> QED BY <2>2, <2>3, <2>4
<1> DEFINE same == w.looks
           more == w.looks \cup {o}
<1>5. /\ rest = [w EXCEPT !.todo = @ \ {o}, !.looks = same]
      /\ unindexed = [w EXCEPT !.todo = @ \ {o}, !.looks = more]
      /\ same \subseteq DOMAIN w.ins /\ more \subseteq DOMAIN w.ins
  BY <1>2 DEF ViewFields, ViewRecord
<1>6. LookedUp(w, o, same, rest) /\ LookedUp(w, o, more, unindexed)
  <2> HIDE DEF w, rest, unindexed, same, more
  <2> QED BY <1>2, <1>5 DEF LookedUp
<1>7. Rest(w, o, rest) /\ Rest(w, o, unindexed)
  <2> HIDE DEF w, rest, unindexed, same, more
  <2> QED BY <1>6, RestOfTodo
<1>8. CASE Show(v, unindexed)
  <2> HIDE DEF unindexed
  <2> QED BY <1>2, <1>7, <1>8, NothingType
<1>9. CASE Show(v, rest)
  <2> HIDE DEF rest
  <2> QED BY <1>2, <1>7, <1>9, NothingType
<1>10. CASE Show(v, counted)
  <2> DEFINE yes == w.chainHeight >= height
             n == w.chainHeight - height + 1
             in == [rest.ins[o] EXCEPT !.confirmed = yes, !.confirmations = n]
             new == [rest EXCEPT !.ins = [rest.ins EXCEPT ![o] = in]]
  <2> HIDE DEF rest
  <2>1. Show(v, new) BY <1>10, ZenonT(60)
  <2>2. yes \in BOOLEAN /\ n \in Int
    <3> HIDE DEF w, height
    <3> QED BY <1>2, <1>3
  <2>3. rest.ins[o] \in InItem BY <1>2, <1>7 DEF Rest
  <2>4. in \in InItem
    <3> HIDE DEF yes, n
    <3> QED BY <2>2, <2>3, ConfirmedType, Zenon
  <2>5. new = [rest EXCEPT !.ins = [rest.ins EXCEPT ![o] = in]] OBVIOUS
  <2> HIDE DEF in, new
  <2> QED BY <1>2, <1>7, <2>1, <2>4, <2>5, LookedUpType
<1> QED BY <1>4, <1>8, <1>9, <1>10

LEMMA FillVinByRpcType ==
  ASSUME node \in Block, NEW v \in Request, ViewType(view[v]), FillVinByRpc(v)
  PROVE  Typically(v)
<1> DEFINE w == view[v]
<1>1. PICK o \in w.looks :
        LET n == RpcConfirmations(TxOf[o])
            rest == [w EXCEPT !.looks = @ \ {o}]
        IN  \/ Show(v, rest)
            \/ Show(v, [rest EXCEPT !.ins[o].confirmed = TRUE, !.ins[o].confirmations = n])
  BY Zenon DEF FillVinByRpc
<1> DEFINE rest == [w EXCEPT !.looks = w.looks \ {o}]
           n == RpcConfirmations(TxOf[o])
           counted == [rest EXCEPT !.ins[o].confirmed = TRUE, !.ins[o].confirmations = n]
<1>2. w.pc = "vin" /\ o \in DOMAIN w.ins /\ ViewFields(w) /\ w.ins[o] \in InItem
  BY DEF FillVinByRpc, ViewType, ViewFields
<1>3. Rest(w, o, rest)
  <2>1. rest = [w EXCEPT !.looks = w.looks \ {o}] OBVIOUS
  <2> HIDE DEF w, rest
  <2> QED BY <1>2, <2>1, RestOfLooks
<1>4. Show(v, rest) \/ Show(v, counted) BY <1>1, Zenon
<1>5. CASE Show(v, rest)
  <2> HIDE DEF rest
  <2> QED BY <1>2, <1>3, <1>5, NothingType
<1>6. CASE Show(v, counted)
  <2> DEFINE yes == TRUE
             in == [rest.ins[o] EXCEPT !.confirmed = yes, !.confirmations = n]
             new == [rest EXCEPT !.ins = [rest.ins EXCEPT ![o] = in]]
  <2> HIDE DEF rest
  <2>1. Show(v, new) BY <1>6, ZenonT(60)
  <2>2. yes \in BOOLEAN /\ n \in Int BY RpcType
  <2>3. rest.ins[o] \in InItem BY <1>2, <1>3 DEF Rest
  <2>4. in \in InItem
    <3> HIDE DEF yes, n
    <3> QED BY <2>2, <2>3, ConfirmedType, Zenon
  <2>5. new = [rest EXCEPT !.ins = [rest.ins EXCEPT ![o] = in]] OBVIOUS
  <2> HIDE DEF in, new
  <2> QED BY <1>2, <1>3, <2>1, <2>4, <2>5, LookedUpType
<1> QED BY <1>4, <1>5, <1>6

LEMMA AskTxType ==
  ASSUME NEW v \in Request, AskTx(v)
  PROVE  Typically(v)
<1>1. CASE Show(v, NoView) BY <1>1, NoViewType DEF Typically
<1>2. ASSUME NEW t \in Tx, NEW at, NEW w,
             w = [NoView EXCEPT !.pc = "outpoints", !.tx = t, !.todo = Inputs(t),
                                !.ins = [o \in Inputs(t) |-> NewInput], !.at = at]
      PROVE  ViewType(w)
  <2> DEFINE ins == [o \in Inputs(t) |-> NewInput]
  <2>1. DOMAIN ins = Inputs(t) /\ \A o \in Inputs(t) : ins[o] = NewInput OBVIOUS
  <2>2. w = [NoView EXCEPT !.pc = "outpoints", !.tx = t, !.todo = Inputs(t), !.ins = ins, !.at = at]
    BY <1>2
  <2> HIDE DEF ins
  <2>3. w = [pc |-> "outpoints", tx |-> t, ins |-> ins, outs |-> << >>, todo |-> Inputs(t),
             looks |-> {}, chainHeight |-> -1, at |-> at]
    BY <2>2 DEF NoView
  <2>4. /\ ViewRecord(w) /\ w.pc = "outpoints" /\ w.tx = t /\ w.ins = ins /\ w.outs = << >>
        /\ w.todo = Inputs(t) /\ w.looks = {} /\ w.chainHeight = -1
    BY <2>3 DEF ViewRecord
  <2>5. InputRecord(NewInput) BY DEF InputRecord, NewInput
  <2>6. NewInput \in InItem BY DEF NewInput, InItem
  <2>7. ViewFields(w) BY <1>2, <2>1, <2>4, <2>5 DEF ViewFields
  <2>8. DOMAIN w.outs = {} BY <2>4
  <2> QED BY <2>1, <2>4, <2>6, <2>7, <2>8 DEF ViewType, ViewPhases
<1>3. ASSUME NEW t \in Tx,
             Show(v, [NoView EXCEPT !.pc = "outpoints", !.tx = t, !.todo = Inputs(t),
                                    !.ins = [o \in Inputs(t) |-> NewInput],
                                    !.at = IF StoreCurrent THEN node ELSE NoHash])
      PROVE  Typically(v)
  <2> DEFINE at == IF StoreCurrent THEN node ELSE NoHash
             w == [NoView EXCEPT !.pc = "outpoints", !.tx = t, !.todo = Inputs(t),
                                 !.ins = [o \in Inputs(t) |-> NewInput], !.at = at]
  <2>1. Show(v, w) BY <1>3, Zenon
  <2>2. w = [NoView EXCEPT !.pc = "outpoints", !.tx = t, !.todo = Inputs(t),
                           !.ins = [o \in Inputs(t) |-> NewInput], !.at = at]
    OBVIOUS
  <2> HIDE DEF at, w
  <2>3. ViewType(w) BY <1>2, <2>2, Zenon
  <2> QED BY <2>1, <2>3 DEF Typically
<1> QED BY <1>1, <1>3, Zenon DEF AskTx

TypesInv ==
  /\ RowsType
  /\ DOMAIN req = Request /\ \A r \in Request : ReplyType(req[r])
  /\ DOMAIN view = Request /\ \A v \in Request : ViewType(view[v])
  /\ sent \subseteq Tx

LEMMA TypesInit ==
  ASSUME LedgerInit
  PROVE  TypesInv
<1>1. RowsType
  <2>1. TxTypeOK BY DEF LedgerInit, TxInit, TxTypeOK
  <2>2. \A o \in Out : Spends(o) = {} BY DEF LedgerInit, TxInit, Spends
  <2> QED BY <2>1, <2>2 DEF RowsType
<1>2. /\ DOMAIN req = Request /\ \A r \in Request : req[r] = Idle
      /\ DOMAIN view = Request /\ \A r \in Request : view[r] = NoView
      /\ sent = {}
  BY DEF LedgerInit, ReqInit, ViewInit
<1> QED BY <1>1, <1>2, IdleType, NoViewType DEF TypesInv

LEMMA RowsTypeStep ==
  ASSUME LedgerInv, TypesInv, [LedgerNext]_ledgerVars
  PROVE  RowsType' /\ sent' \subseteq Tx
<1> RowsType /\ node \in Block /\ TypeOK BY DEF TypesInv, LedgerInv, IInv
<1>1. UNCHANGED txVars => RowsType' BY DEF RowsType, TxTypeOK, Spends, txVars
<1>2. CASE PeerSends
  <2>1. PICK t \in PeerTx : AddUnconfirmed(t, StampOf[node] + 1) /\ sent' = sent \cup {t}
    BY <1>2 DEF PeerSends
  <2> DEFINE time == [u \in {t} |-> StampOf[node] + 1]
  <2>2. t \in Tx /\ \A u \in {t} : time[u] \in Stamp BY StampType, ReorgAssumption
  <2>3. {t} \in SUBSET Tx /\ AddScript({t}, time) BY <2>1, <2>2 DEF AddUnconfirmed
  <2> HIDE DEF time
  <2> QED BY <2>1, <2>2, <2>3, AddScriptType DEF TypesInv
<1>3. ASSUME NEW s \in Syncer, Feed(s) \/ Stores(s) PROVE RowsType' /\ UNCHANGED sent
  <2>1. CASE AddMany(TxsOf[job[s].blk])
    <3> DEFINE T == TxsOf[job[s].blk]
               time == [t \in T |-> RpcTime(t)]
    <3>1. T \in SUBSET Tx BY BlockTreeAssumption DEF TypeOK, Job
    <3>2. \A t \in T : time[t] \in Stamp BY <3>1, RpcTimeType
    <3>3. AddScript(T, time) BY <2>1 DEF AddMany
    <3> HIDE DEF time, T
    <3>4. RowsType' BY <3>1, <3>2, <3>3, AddScriptType
    <3> QED BY <1>3, <3>4 DEF Feed, Stores
  <2> QED BY <1>1, <1>3, <2>1 DEF Feed, Stores
<1>4. ASSUME NEW r \in Request, Asks(r) \/ Serve(r) \/ Views(r) PROVE RowsType' /\ UNCHANGED sent
  <2>1. CASE CacheConfirmations(req[r].items)
    <3>1. \A o \in DOMAIN req[r].items : req[r].items[o] \in Item BY DEF TypesInv, ReplyType
    <3> QED BY <1>4, <2>1, <3>1, CachedType DEF Asks, Serve, Views
  <2>2. ASSUME NEW o, NEW item, CacheScript(o, item) PROVE RowsType'
    BY <2>2, ScriptType
  <2>3. UNCHANGED sent BY <1>4 DEF Asks, Serve, Views
  <2> QED BY <1>1, <1>4, <2>1, <2>2, <2>3, RequestRows
<1>5. CASE Advance \/ UNCHANGED ledgerVars BY <1>1, <1>5 DEF Advance, ledgerVars, TypesInv
<1> QED BY <1>2, <1>3, <1>4, <1>5 DEF LedgerNext, TypesInv

LEMMA RequestTypes ==
  ASSUME LedgerInv, TypesInv, [LedgerNext]_ledgerVars
  PROVE  (DOMAIN req = Request /\ \A r \in Request : ReplyType(req[r]))'
<1> RowsType /\ node \in Block /\ TypeOK BY DEF TypesInv, LedgerInv, IInv
<1> DEFINE Moved == DOMAIN req' = Request /\ \A p \in Request : \A q : q = req'[p] => ReplyType(q)
<1>1. DOMAIN req = Request /\ \A r \in Request : ReplyType(req[r]) BY DEF TypesInv
<1>2. UNCHANGED req => Moved BY <1>1
<1>3. ASSUME NEW r \in Request, NEW q, ReplyType(q), req' = [req EXCEPT ![r] = q] PROVE Moved
  BY <1>1, <1>3
<1>4. ASSUME NEW r \in Request, Typed(r) PROVE Moved
  <2>1. PICK q : req' = [req EXCEPT ![r] = Then(q)] /\ ReplyType(q) BY <1>4 DEF Typed
  <2>2. ReplyType(Then(q)) BY <2>1, ThenType
  <2> QED BY <1>3, <2>1, <2>2
<1>5. ASSUME Advance \/ PeerSends \/ UNCHANGED ledgerVars PROVE Moved
  BY <1>2, <1>5 DEF Advance, PeerSends, ledgerVars, reqVars
<1>6. ASSUME NEW s \in Syncer, Feed(s) \/ Stores(s) PROVE Moved
  BY <1>2, <1>6 DEF Feed, Stores, reqVars
<1>7. ASSUME NEW r \in Request, Asks(r) PROVE Moved
  BY <1>4, <1>7, AskType DEF Asks
<1>8. ASSUME NEW r \in Request, Serve(r) PROVE Moved
  <2>1. RequestStep(r) /\ ReplyType(req[r]) BY <1>1, <1>8 DEF Serve
  <2>2. CASE ReadSpends(r) BY <1>4, <2>1, <2>2, ReadSpendsType
  <2>3. CASE AskRpc(r) BY <1>4, <2>1, <2>3, AskRpcType
  <2>4. CASE AskRpcSpent(r) BY <1>4, <2>1, <2>4, AskRpcSpentType
  <2>5. CASE ReadHeight(r) BY <1>4, <2>1, <2>5, ReadHeightType
  <2>6. CASE FillOwn(r) BY <1>4, <2>1, <2>6, FillOwnType
  <2>7. CASE FillSpent(r) BY <1>4, <2>1, <2>7, FillSpentType
  <2>8. CASE CacheItems(r) BY <1>4, <2>1, <2>8, CacheItemsType
  <2>9. CASE FillScript(r) BY <1>4, <2>1, <2>9, FillScriptType
  <2> QED BY <2>1, <2>2, <2>3, <2>4, <2>5, <2>6, <2>7, <2>8, <2>9 DEF RequestStep
<1>9. ASSUME NEW r \in Request, Views(r) PROVE Moved
  <2>1. AskTx(r) \/ ViewStep(r) BY <1>9 DEF Views
  <2>2. AskTx(r) => req' = [req EXCEPT ![r] = Idle] BY DEF AskTx
  <2>3. ReadOutpoint(r) => UNCHANGED req BY DEF ReadOutpoint, reqVars
  <2>4. CheckSpent(r) => UNCHANGED req BY DEF CheckSpent, reqVars
  <2>5. FillOutputs(r) => UNCHANGED req BY DEF FillOutputs, reqVars
  <2>6. ReadVinTip(r) => UNCHANGED req BY DEF ReadVinTip, reqVars
  <2>7. FillVin(r) => UNCHANGED req BY DEF FillVin, reqVars
  <2>8. FillVinByRpc(r) => UNCHANGED req BY DEF FillVinByRpc, reqVars
  <2> HIDE DEF Moved
  <2> QED
    BY <1>2, <1>3, <2>1, <2>2, <2>3, <2>4, <2>5, <2>6, <2>7, <2>8, IdleType DEF ViewStep
<1>10. Moved
  <2> HIDE DEF Moved
  <2> QED BY <1>5, <1>6, <1>7, <1>8, <1>9 DEF LedgerNext
<1> QED BY <1>10

LEMMA ViewTypes ==
  ASSUME LedgerInv, TypesInv, [LedgerNext]_ledgerVars
  PROVE  (DOMAIN view = Request /\ \A v \in Request : ViewType(view[v]))'
<1> RowsType /\ node \in Block /\ TypeOK BY DEF TypesInv, LedgerInv, IInv
<1> DEFINE Moved == DOMAIN view' = Request /\ \A p \in Request : \A w : w = view'[p] => ViewType(w)
<1>1. DOMAIN view = Request /\ \A v \in Request : ViewType(view[v]) BY DEF TypesInv
<1>2. UNCHANGED view => Moved BY <1>1
<1>3. ASSUME NEW v \in Request, NEW w, ViewType(w), view' = [view EXCEPT ![v] = w] PROVE Moved
  BY <1>1, <1>3
<1>4. ASSUME NEW v \in Request, Typically(v) PROVE Moved
  <2>1. PICK w : Show(v, w) /\ ViewType(w) BY <1>4 DEF Typically
  <2>2. ViewType(NextPhase(w)) BY <2>1, NextPhaseType
  <2>3. view' = [view EXCEPT ![v] = NextPhase(w)] BY <2>1 DEF Show
  <2> QED BY <1>3, <2>2, <2>3
<1>5. ASSUME Advance \/ PeerSends \/ UNCHANGED ledgerVars PROVE Moved
  BY <1>2, <1>5 DEF Advance, PeerSends, ledgerVars
<1>6. ASSUME NEW s \in Syncer, Feed(s) \/ Stores(s) PROVE Moved
  BY <1>2, <1>6 DEF Feed, Stores
<1>7. ASSUME NEW r \in Request, Asks(r) \/ Serve(r) PROVE Moved
  <2>1. Asks(r) => view' = [view EXCEPT ![r] = NoView] BY DEF Asks
  <2>2. Serve(r) => UNCHANGED view BY DEF Serve
  <2> HIDE DEF Moved
  <2> QED BY <1>2, <1>3, <1>7, <2>1, <2>2, NoViewType
<1>8. ASSUME NEW v \in Request, Views(v) PROVE Moved
  <2>1. AskTx(v) \/ ViewStep(v) BY <1>8 DEF Views
  <2>2. ViewType(view[v]) BY <1>1
  <2>3. CASE AskTx(v) BY <1>4, <2>3, AskTxType
  <2>4. CASE ReadOutpoint(v) BY <1>4, <2>2, <2>4, ReadOutpointType
  <2>5. CASE CheckSpent(v) BY <1>4, <2>2, <2>5, CheckSpentType
  <2>6. CASE FillOutputs(v) BY <1>4, <2>2, <2>6, FillOutputsType
  <2>7. CASE ReadVinTip(v) BY <1>4, <2>2, <2>7, ReadVinTipType
  <2>8. CASE FillVin(v) BY <1>4, <2>2, <2>8, FillVinType
  <2>9. CASE FillVinByRpc(v) BY <1>4, <2>2, <2>9, FillVinByRpcType
  <2> QED BY <2>1, <2>3, <2>4, <2>5, <2>6, <2>7, <2>8, <2>9 DEF ViewStep
<1>9. Moved
  <2> HIDE DEF Moved
  <2> QED BY <1>5, <1>6, <1>7, <1>8 DEF LedgerNext
<1> QED BY <1>9

(* Every variable keeps its type through reorganisations, peers and        *)
(* requests: rows and items stay well formed, a request's items belong to  *)
(* its address and its lookups to its items, the sums of an answer are     *)
(* never negative, and the inputs and outputs of a view are those of its   *)
(* transaction.                                                            *)
THEOREM LedgerTypeCorrect == LedgerSpec => []LedgerTypeOK
<1>1. LedgerInit => TypesInv BY TypesInit
<1>2. LedgerInv /\ TypesInv /\ [LedgerNext]_ledgerVars => TypesInv'
  BY RowsTypeStep, RequestTypes, ViewTypes DEF TypesInv
<1>3. ASSUME LedgerInv, TypesInv PROVE LedgerTypeOK
  <2>1. TypeOK /\ node \in Block /\ TxTypeOK /\ sent \subseteq Tx
    BY <1>3 DEF LedgerInv, IInv, TypesInv, RowsType
  <2>2. ASSUME NEW r \in Request
        PROVE  /\ req[r].pc \in RequestPhases
               /\ DOMAIN req[r].items \subseteq {o \in Out : AddrOf[o] = req[r].addr}
               /\ \A o \in DOMAIN req[r].items : req[r].items[o] \in Item
               /\ req[r].todo \cup {look[1] : look \in req[r].looks} \subseteq DOMAIN req[r].items
               /\ req[r].answer \in ReqAnswers
    BY <1>3 DEF TypesInv, ReplyType
  <2>3. ViewTypeOK BY <1>3 DEF TypesInv, ViewType, ViewFields, ViewTypeOK
  <2> QED BY <2>1, <2>2, <2>3 DEF LedgerTypeOK
<1>4. LedgerInv /\ TypesInv => LedgerTypeOK BY <1>3
<1> QED BY LedgerInit1, LedgerStep, <1>1, <1>2, <1>4, PTL DEF LedgerSpec

----------------------------------------------------------------------------
(* The index that answers are counted from. *)

LEMMA OwnIndexTurn ==
  ASSUME OwnTxs, LedgerInv, OwnIndexInv, [LedgerNext]_ledgerVars
  PROVE  OwnIndexInv'
<1>1. CASE UNCHANGED dbVars BY <1>1, OwnIndexSame DEF dbVars
<1>2. CASE CacheTip BY <1>2, OwnIndexSame DEF CacheTip
<1>3. ASSUME NEW s \in Syncer, Feed(s) PROVE UNCHANGED dbVars
  BY <1>3 DEF Feed, StoreTipBlock
<1>4. ASSUME NEW s \in Syncer, Stores(s) PROVE OwnIndexInv'
  BY <1>4, OwnIndexStep DEF Stores, LedgerInv
<1>5. Advance \/ PeerSends \/ UNCHANGED ledgerVars => UNCHANGED dbVars
  BY DEF Advance, PeerSends, ledgerVars, vars
<1>6. ASSUME NEW r \in Request, Asks(r) \/ Serve(r) \/ Views(r)
      PROVE  CacheTip \/ UNCHANGED dbVars
  BY <1>6, RequestReads
<1> QED BY <1>1, <1>2, <1>3, <1>4, <1>5, <1>6 DEF LedgerNext

LEMMA OwnIndexInit ==
  ASSUME LedgerInit
  PROVE  OwnIndexInv
BY KeyFacts DEF LedgerInit, Init, DbInit, OwnIndexInv, Connected, Has

LEMMA AnswersInit ==
  ASSUME LedgerInit
  PROVE  AnswersInv
<1>1. node \in Block BY LedgerInit1 DEF LedgerInv
<1>2. DOMAIN view = Request /\ \A r \in Request : view[r] = NoView /\ req[r] = Idle
  BY DEF LedgerInit, ReqInit, ViewInit
<1>3. RowsTrue
  <2>1. \A o \in Out : /\ txo[o] = Absent /\ Spends(o) = {} /\ Rows(o) = {}
    BY DEF LedgerInit, TxInit, Spends, Rows
  <2> QED BY <2>1 DEF RowsTrue
<1> QED BY <1>1, <1>2, <1>3, IdleAnswer, NoViewTrue DEF AnswersInv

(* What a request that began with the store up to date says and will say,  *)
(* while bitcoind stays where it was, is what bitcoind's chain says, as far*)
(* as it has looked that up.                                               *)
THEOREM AnswersInvariant ==
  ASSUME OneFollower, MaxReorg < Safe, OwnTxs, ValidBlocks
  PROVE  LedgerSpec => ([]StraightBranches => []AnswersInv)
<1>1. LedgerInit => AnswersInv /\ OwnIndexInv BY AnswersInit, OwnIndexInit
<1>2. LedgerInv /\ OwnIndexInv /\ [LedgerNext]_ledgerVars => OwnIndexInv' BY OwnIndexTurn
<1>3. ASSUME LedgerInv, RInv, CacheInv, CacheInv', OwnIndexInv, AnswersInv, LedgerTypeOK,
             [LedgerNext]_ledgerVars
      PROVE  AnswersInv'
  <2>1. StoreCurrent => IndexCurrent BY <1>3, StoreIsCurrent
  <2> QED BY <1>3, <2>1, AnswersStep, ViewsStep DEF AnswersInv
<1>4. LedgerInv /\ RInv /\ CacheInv /\ CacheInv' /\ OwnIndexInv /\ AnswersInv
        /\ LedgerTypeOK /\ [LedgerNext]_ledgerVars => AnswersInv'
  BY <1>3
<1> QED BY <1>1, <1>2, <1>4, LedgerReorg, CacheInvariant, LedgerTypeCorrect, PTL DEF LedgerSpec

(* The unspent outputs of an answer are none that the chain spends, all    *)
(* that no known transaction spends, and marked as confirmed exactly when  *)
(* they are, whatever peers sent and other requests cached meanwhile.      *)
THEOREM UnspentIsExact ==
  ASSUME OneFollower, MaxReorg < Safe, OwnTxs, ValidBlocks
  PROVE  LedgerSpec => ([]StraightBranches => []UnspentExact)
<1>1. ASSUME AnswersInv PROVE UnspentExact
  <2>1. ASSUME NEW r \in Request, Undisturbed(r), req[r].onlyUnspent
        PROVE  ListTrue(req[r].addr, req[r].answer.unspent)
    BY <1>1, <2>1 DEF AnswersInv, ReplyInv, RequestTrue, Undisturbed, Waiting
  <2>2. \A o : (\A t \in Tx : txs[o][t] = Unspent) => Spends(o) = {} BY DEF Spends
  <2> QED BY <2>1, <2>2 DEF ListTrue, UnspentExact
<1>2. AnswersInv => UnspentExact BY <1>1
<1> QED BY <1>2, AnswersInvariant, PTL

(* The sums of an answer are those of bitcoind's chain: what the address   *)
(* received, still has and spent there, and how many transactions of the   *)
(* chain touched it, whatever the cache, the peers and other requests did  *)
(* to the rows it was counted from.                                        *)
THEOREM BalanceIsExact ==
  ASSUME OneFollower, MaxReorg < Safe, OwnTxs, ValidBlocks
  PROVE  LedgerSpec => ([]StraightBranches => []BalanceExact)
<1>1. ASSUME AnswersInv PROVE BalanceExact
  <2>1. ASSUME NEW r \in Request, Undisturbed(r), ~req[r].onlyUnspent
        PROVE  SumsTrue(req[r].addr, req[r].answer)
    BY <1>1, <2>1 DEF AnswersInv, ReplyInv, RequestTrue, Undisturbed, Waiting
  <2> QED BY <2>1 DEF SumsTrue, BalanceExact
<1>2. AnswersInv => BalanceExact BY <1>1
<1> QED BY <1>2, AnswersInvariant, PTL

(* The transactions of an answer are all those of bitcoind's chain that    *)
(* pay or spend from the address, none that does neither, and what it      *)
(* counts as unconfirmed is in the list and in no block.                   *)
THEOREM ListIsExact ==
  ASSUME OneFollower, MaxReorg < Safe, OwnTxs, ValidBlocks
  PROVE  LedgerSpec => ([]StraightBranches => []ListExact)
<1>1. ASSUME AnswersInv PROVE ListExact
  <2>1. ASSUME NEW r \in Request, Undisturbed(r), ~req[r].onlyUnspent
        PROVE  SumsTrue(req[r].addr, req[r].answer)
    BY <1>1, <2>1 DEF AnswersInv, ReplyInv, RequestTrue, Undisturbed, Waiting
  <2> QED BY <2>1 DEF SumsTrue, ListExact
<1>2. AnswersInv => ListExact BY <1>1
<1> QED BY <1>2, AnswersInvariant, PTL

(* A transaction of bitcoind's chain is shown with the values and the      *)
(* confirmations of its inputs, with rivals that are known and did not get *)
(* on the chain, and with the spenders of its outputs.                     *)
THEOREM ViewIsExact ==
  ASSUME OneFollower, MaxReorg < Safe, OwnTxs, ValidBlocks
  PROVE  LedgerSpec => ([]StraightBranches => []ViewExact)
<1>1. ASSUME AnswersInv PROVE ViewExact
  <2>1. ASSUME NEW v \in Request, view[v].pc = "done", view[v].at = node, Confirmed(view[v].tx)
        PROVE  ViewTrue(view[v]) /\ DOMAIN view[v].ins = Inputs(view[v].tx)
    BY <1>1, <2>1 DEF AnswersInv, ViewInv, ViewFields
  <2> QED BY <2>1 DEF ViewExact, ViewTrue, InputTrue, OutputTrue
<1>2. AnswersInv => ViewExact BY <1>1
<1> QED BY <1>2, AnswersInvariant, PTL
=============================================================================
