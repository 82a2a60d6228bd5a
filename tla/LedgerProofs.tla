---------------------------- MODULE LedgerProofs ----------------------------
(***************************************************************************)
(* A proof about the transactions under the block index, for any block     *)
(* tree and any outputs: what is indexed is stored.  The failures are those*)
(* of the requests; storeTipBlock may still throw.                         *)
(***************************************************************************)
EXTENDS LedgerInvariant, ReorgLemmas

(* The outputs and the spends of t are stored. *)
Kept(t) ==
  /\ \A o \in Out : TxOf[o] = t => txo[o] # Absent /\ Rows(o) # {}
  /\ \A o \in Inputs(t) : txs[o][t] # Unspent

(* A store with a block has a tip, or is about to have one. *)
TipThere ==
  crashed \/ \A b \in Block : Has(b) => bti # NoEntry \/ \E s \in Syncer : pc[s] = "setTip"

(* IndexedIsStored is not inductive: a block that is connected again puts   *)
(* its transactions back, so those of all stored blocks are stored, and     *)
(* those of a block that is about to be.                                    *)
KeptInv ==
  /\ \A b \in Block : Has(b) => \A t \in TxsOf[b] : Kept(t)
  /\ \A s \in Syncer : pc[s] = "add" => \A t \in TxsOf[job[s].blk] : Kept(t)
  /\ \A t \in Tx : btx[t] # NoEntry => Kept(t)

LedgerInv == IInv /\ node \in Block /\ DOMAIN txo = Out /\ TipThere /\ KeptInv

----------------------------------------------------------------------------
(* What the writes of TransactionDb keep. *)

LEMMA InputsAreOutputs == \A t \in Tx : Inputs(t) \subseteq Out
BY LedgerAssumption DEF Inputs, ToSet

(* Stored outputs and spends stay stored. *)
KeepsAll == DOMAIN txo' = Out /\ \A t \in Tx : Kept(t) => Kept(t)'

LEMMA SameKept ==
  ASSUME DOMAIN txo = Out, UNCHANGED txVars
  PROVE  KeepsAll
BY DEF KeepsAll, Kept, Rows, txVars

LEMMA RowsAreNotAbsent ==
  /\ \A a \in Addr, n \in Nat : [addr |-> a, sat |-> n] # Absent
  /\ \A n \in Nat : [addr |-> NoHash, sat |-> n] # Absent
  /\ Uncached # Absent
<1>1. \A a \in Addr \cup {NoHash}, n \in Nat : [addr |-> a, sat |-> n] \in OutRow
  BY DEF OutRow
<1>2. Uncached \in Cache BY LedgerAssumption DEF Uncached, Cache, Stamp
<1> QED BY <1>1, <1>2, LedgerAssumption DEF Absent

LEMMA AddScriptKept ==
  ASSUME NEW T \in SUBSET Tx, NEW time, \A t \in T : time[t] \in Nat, AddScript(T, time)
  PROVE  KeepsAll
<1>1. DOMAIN txo' = Out BY DEF AddScript
<1>2. ASSUME NEW t \in Tx, Kept(t) PROVE Kept(t)'
  <2>1. ASSUME NEW o \in Out, TxOf[o] = t PROVE txo'[o] # Absent /\ Rows(o)' # {}
    <3>1. txo'[o] # Absent
      BY <1>2, <2>1, RowsAreNotAbsent, LedgerAssumption DEF AddScript, Kept
    <3>2. PICK n \in Stamp : txa[o][n] # Absent BY <1>2, <2>1 DEF Kept, Rows
    <3>3. txa'[o][n] # Absent BY <3>2, RowsAreNotAbsent DEF AddScript
    <3> QED BY <3>1, <3>3 DEF Rows
  <2>2. ASSUME NEW o \in Inputs(t) PROVE txs'[o][t] # Unspent
    <3>1. o \in Out BY InputsAreOutputs
    <3>2. txs[o][t] # Unspent BY <1>2 DEF Kept
    <3> QED BY <3>1, <3>2 DEF AddScript, Unspent
  <2> QED BY <2>1, <2>2 DEF Kept
<1> QED BY <1>1, <1>2 DEF KeepsAll

(* bitcoind's time of a transaction is one an address row can have, and so *)
(* is the time of one that arrives after a block.                          *)
LEMMA StampType ==
  \A b \in Block : StampOf[b] \in Stamp /\ StampOf[b] + 1 \in Stamp
<1>1. \A b \in Block : StampOf[b] \in 1 .. MaxStamp - 1 BY LedgerAssumption
<1>2. MaxStamp \in Nat BY LedgerAssumption
<1>3. \A n \in 1 .. MaxStamp - 1 : n \in 0 .. MaxStamp /\ n + 1 \in 0 .. MaxStamp BY <1>2
<1> QED BY <1>1, <1>3 DEF Stamp

LEMMA RpcTimeType ==
  ASSUME node \in Block, NEW t \in Tx
  PROVE  RpcTime(t) \in Stamp
<1>1. CASE ~Confirmed(t) BY <1>1, LedgerAssumption DEF RpcTime, Stamp
<1>2. CASE Confirmed(t)
  <2> DEFINE S == {StampOf[b] : b \in BlocksWith(t)}
  <2>1. BlocksWith(t) \subseteq Block /\ BlocksWith(t) # {}
    BY <1>2, ChainFacts DEF BlocksWith, Active, Confirmed
  <2>2. S \subseteq Stamp /\ S # {} BY <2>1, StampType
  <2>3. S \in SUBSET Nat BY <2>2 DEF Stamp
  <2>4. \E n \in S : \A m \in S : n <= m BY <2>2, <2>3, Least
  <2> HIDE DEF S
  <2>5. Min(S) \in S BY <2>4 DEF Min
  <2>6. RpcTime(t) = Min(S) BY <1>2 DEF RpcTime, S
  <2> QED BY <2>2, <2>5, <2>6
<1> QED BY <1>1, <1>2

(* addMany stores the transactions it is given. *)
LEMMA AddManyKept ==
  ASSUME node \in Block, NEW T \in SUBSET Tx, AddMany(T)
  PROVE  KeepsAll /\ \A t \in T : Kept(t)'
<1> DEFINE time == [t \in T |-> RpcTime(t)]
<1>1. \A t \in T : time[t] \in Stamp BY RpcTimeType
<1>2. \A t \in T : time[t] \in Nat BY <1>1 DEF Stamp
<1>3. AddScript(T, time) BY DEF AddMany
<1> HIDE DEF time
<1>4. KeepsAll BY <1>2, <1>3, AddScriptKept
<1>5. ASSUME NEW t \in T PROVE Kept(t)'
  <2>1. ASSUME NEW o \in Out, TxOf[o] = t PROVE txo'[o] # Absent /\ Rows(o)' # {}
    <3>1. txo'[o] # Absent BY <1>3, <2>1, RowsAreNotAbsent, LedgerAssumption DEF AddScript
    <3>2. txa'[o][time[t]] = Uncached BY <1>1, <1>3, <2>1 DEF AddScript
    <3> QED BY <1>1, <3>1, <3>2, RowsAreNotAbsent DEF Rows
  <2>2. ASSUME NEW o \in Inputs(t) PROVE txs'[o][t] # Unspent
    <3>1. o \in Out BY InputsAreOutputs
    <3> QED BY <1>2, <1>3, <3>1 DEF AddScript, Unspent
  <2> QED BY <2>1, <2>2 DEF Kept
<1> QED BY <1>4, <1>5

(* A request only replaces rows. *)
LEMMA RequestKept ==
  ASSUME DOMAIN txo = Out, NEW r \in Request, RequestStep(r)
  PROVE  KeepsAll
<1>1. CASE UNCHANGED txVars BY <1>1, SameKept
<1>2. CASE CacheConfirmations(req[r].items)
  <2>1. ASSUME NEW o \in Out PROVE Rows(o) # {} => Rows(o)' # {}
    BY <1>2 DEF CacheConfirmations, Rows
  <2> QED BY <1>2, <2>1 DEF CacheConfirmations, KeepsAll, Kept
<1>3. ASSUME NEW o, CacheScript(o, req[r].items[o]) PROVE KeepsAll
  <2>1. \A n \in {0, 1} : [addr |-> NoHash, sat |-> n] # Absent BY RowsAreNotAbsent
  <2>2. DOMAIN txo' = Out /\ \A p \in Out : txo[p] # Absent => txo'[p] # Absent
    BY <1>3, <2>1 DEF CacheScript
  <2> QED BY <1>3, <2>2 DEF CacheScript, KeepsAll, Kept, Rows
<1> QED
  BY <1>1, <1>2, <1>3 DEF RequestStep, ReadSpends, AskRpc, AskRpcSpent, ReadHeight, FillOwn,
     FillSpent, CacheItems, FillScript

----------------------------------------------------------------------------
(* The steps. *)

(* A step that leaves the blocks, the jobs and the index alone. *)
LEMMA AsideInv ==
  ASSUME LedgerInv, UNCHANGED syncVars, CacheTip \/ UNCHANGED dbVars,
         node' \in Block, KeepsAll
  PROVE  LedgerInv'
<1>1. IInv' BY ReaderInv DEF LedgerInv
<1>2. UNCHANGED <<prev, btx, bti, pc, job, crashed>> BY DEF dbVars, syncVars, CacheTip
<1>3. TipThere' BY <1>2 DEF LedgerInv, TipThere, Has
<1>4. ASSUME NEW b \in Block PROVE TxsOf[b] \subseteq Tx BY BlockTreeAssumption
<1>5. \A s \in Syncer : job[s].blk \in Block BY DEF LedgerInv, IInv, TypeOK, Job
<1>6. KeptInv' BY <1>2, <1>4, <1>5 DEF LedgerInv, KeptInv, KeepsAll, Has
<1> QED BY <1>1, <1>3, <1>6 DEF LedgerInv, KeepsAll

(* The next block of bitcoind's chain may be stored: all jobs are done, so *)
(* a store with a block has a tip.                                         *)
LEMMA FeedInv ==
  ASSUME LedgerInv, NEW s \in Syncer, Feed(s)
  PROVE  LedgerInv'
<1>1. PICK b \in Active : /\ b = Genesis \/ Has(Parent[b])
                          /\ StoreTipBlock(s, [blk |-> b, allow |-> TRUE])
  BY DEF Feed
<1> DEFINE call == [blk |-> b, allow |-> TRUE]
<1>2. b \in Block BY ChainFacts DEF Active, LedgerInv
<1>3. call \in Call BY <1>2 DEF Call
<1>4. ~crashed /\ \A r \in Syncer : pc[r] = "idle"
  BY <1>1 DEF StoreTipBlock, Feed, storingBlock
<1>5. CallInv(call)
  <2>1. CASE b = Genesis BY <2>1, KeyFacts DEF CallInv
  <2>2. CASE b # Genesis
    <3>1. Parent[b] \in Block /\ Has(Parent[b]) BY <1>1, <1>2, <2>2, ParentIsBlock
    <3>2. bti # NoEntry BY <1>4, <3>1 DEF LedgerInv, TipThere
    <3> QED BY <3>2 DEF CallInv
  <2> QED BY <2>1, <2>2
<1> HIDE DEF call
<1>6. StoreTipBlock(s, call) BY <1>1 DEF call
<1>7. IInv' BY <1>3, <1>5, <1>6, StoreTipBlockType, StoreTipBlockInv DEF LedgerInv, IInv
<1>8. UNCHANGED <<prev, btx, bti, crashed>> BY <1>6 DEF StoreTipBlock, dbVars
<1>9. \A r \in Syncer : pc'[r] # "add"
  BY <1>4, <1>6 DEF StoreTipBlock, Begin, GoTo, LedgerInv, IInv, TypeOK
<1>10. KeepsAll BY SameKept DEF Feed, LedgerInv
<1>11. TipThere' BY <1>4, <1>8 DEF LedgerInv, TipThere, Has
<1>12. \A c \in Block : TxsOf[c] \subseteq Tx BY BlockTreeAssumption
<1>13. KeptInv' BY <1>8, <1>9, <1>10, <1>12 DEF LedgerInv, KeptInv, KeepsAll, Has
<1>14. node' \in Block BY DEF Feed, LedgerInv
<1> QED BY <1>7, <1>10, <1>11, <1>13, <1>14 DEF LedgerInv, KeepsAll

(* Only the batch of a block in "add" stores it, and an entry is only made *)
(* for a transaction of a block that is stored by then.                    *)
LEMMA StepWrites ==
  ASSUME IInv, NEW s \in Syncer, Step(s)
  PROVE  /\ \A b \in Block : Has(b)' => Has(b) \/ (pc[s] = "add" /\ b = job[s].blk)
         /\ \A t \in Tx : btx'[t] # NoEntry =>
              btx[t] # NoEntry \/ \E b \in Block : Has(b)' /\ t \in TxsOf[b]
<1> USE KeyFacts
<1>1. CASE AddBlock(s)
  <2>1. PICK b \in Block : b = job[s].blk BY DEF IInv, TypeOK, Job
  <2>2. pc[s] = "add" /\ Add(b, job[s].height) BY <1>1, <2>1 DEF AddBlock, Waits
  <2>3. \A c \in Block : Has(c)' <=> Has(c) \/ c = b
    BY <2>2 DEF Add, Has, IInv, TypeOK, DbTypeOK
  <2>4. \A t \in Tx : t \notin TxsOf[b] => btx'[t] = btx[t] BY <2>2 DEF Add, PutTxs
  <2> QED BY <2>1, <2>2, <2>3, <2>4
<1>2. CASE Connect(s)
  <2> DEFINE h == Head(job[s].branch)
  <2>1. prev' = prev BY <1>2 DEF Connect, SetBlockMain, ChangeBlockHeight, dbVars
  <2>2. CASE h \in Block /\ SetBlockMain(h, job[s].height)
    <3>1. job[s].branch \in Seq(Key) /\ job[s].branch # << >> /\ pc[s] = "connect"
      BY <1>2 DEF Connect, Waits, IInv, TypeOK, Job
    <3>2. h = job[s].branch[1] /\ 1 \in 1 .. Len(job[s].branch) BY <3>1
    <3>3. BranchInv(s) BY <2>2, <3>1, <3>2 DEF IInv, JobInv, PhaseInv, Doomed
    <3>4. Stored(h) BY <3>2, <3>3 DEF BranchInv
    <3>5. \A t \in Tx : t \notin TxsOf[h] => btx'[t] = btx[t]
      BY <2>2 DEF SetBlockMain, ChangeBlockHeight, PutTxs, DelTxs
    <3> HIDE DEF h
    <3> QED BY <2>1, <3>4, <3>5 DEF Stored, Has
  <2>3. CASE UNCHANGED dbVars BY <2>3 DEF dbVars, Has
  <2> QED BY <1>2, <2>2, <2>3 DEF Connect
<1>3. CASE Orphan(s)
  <2>1. \A t \in Tx : btx'[t] \in {btx[t], NoEntry}
    BY <1>3 DEF Orphan, SetBlockNotMain, ChangeBlockHeight, PutTxs, DelTxs
  <2> QED BY <1>3, <2>1 DEF Orphan, SetBlockNotMain, ChangeBlockHeight, Has
<1>4. CASE ~(AddBlock(s) \/ Connect(s) \/ Orphan(s))
  <2>1. prev' = prev /\ btx' = btx
    BY <1>4 DEF Step, CheckPrev, ReadTip, CacheTip, ReadNext, ReorgHeight, RetryReorg, WalkBack,
       WalkTest, ReadFork, Relink, SetNext, Follow, AddTxs, MoveTip, SetTip, LinkPrev, dbVars
  <2> QED BY <2>1 DEF Has
<1> QED BY <1>1, <1>2, <1>3, <1>4

LEMMA StoresInv ==
  ASSUME LedgerInv, NEW s \in Syncer, Stores(s)
  PROVE  LedgerInv'
<1>0. Step(s) /\ node' = node BY DEF Stores
<1>1. IInv' BY <1>0, StepType, StepInv DEF LedgerInv, IInv
<1>2. job[s].blk \in Block /\ TxsOf[job[s].blk] \in SUBSET Tx
  BY BlockTreeAssumption DEF LedgerInv, IInv, TypeOK, Job
<1>3. KeepsAll /\ (pc[s] = "addTxs" => \A t \in TxsOf[job[s].blk] : Kept(t)')
  BY <1>2, AddManyKept, SameKept DEF Stores, LedgerInv
<1>4. TipThere'
  <2>1. CASE crashed' BY <2>1 DEF TipThere
  <2>2. CASE ~crashed'
    <3>1. ~crashed /\ \A r \in Syncer \ {s} : pc'[r] = pc[r]
      BY <1>0, <2>2, MovesOne DEF LedgerInv
    <3>2. ASSUME NEW b \in Block, Has(b)'
          PROVE  bti' # NoEntry \/ \E r \in Syncer : pc'[r] = "setTip"
      <4>1. CASE pc[s] = "add" BY <1>0, <2>2, <4>1, MovesOne DEF LedgerInv
      <4>2. CASE pc[s] # "add"
        <5>1. Has(b) BY <1>0, <3>2, <4>2, StepWrites DEF LedgerInv
        <5>2. bti # NoEntry \/ \E r \in Syncer : pc[r] = "setTip"
          BY <3>1, <5>1 DEF LedgerInv, TipThere
        <5> QED BY <1>0, <3>1, <5>2, StepTip DEF LedgerInv
      <4> QED BY <4>1, <4>2
    <3> QED BY <3>2 DEF TipThere
  <2> QED BY <2>1, <2>2
<1>5. ASSUME NEW b \in Block, Has(b)', NEW t \in TxsOf[b] PROVE Kept(t)'
  <2>1. t \in Tx BY BlockTreeAssumption
  <2>2. Has(b) \/ (pc[s] = "add" /\ b = job[s].blk) BY <1>0, <1>5, StepWrites DEF LedgerInv
  <2>3. Kept(t) BY <2>2 DEF LedgerInv, KeptInv
  <2> QED BY <1>3, <2>1, <2>3 DEF KeepsAll
<1>6. ASSUME NEW r \in Syncer, pc'[r] = "add", NEW t \in TxsOf[job'[r].blk] PROVE Kept(t)'
  <2>1. CASE pc[r] = "add" /\ job'[r] = job[r]
    <3>1. job[r].blk \in Block BY DEF LedgerInv, IInv, TypeOK, Job
    <3>2. t \in Tx /\ Kept(t) BY <1>6, <2>1, <3>1, BlockTreeAssumption DEF LedgerInv, KeptInv
    <3> QED BY <1>3, <3>2 DEF KeepsAll
  <2>2. CASE r = s /\ pc[s] = "addTxs" /\ job'[s] = job[s] BY <1>3, <1>6, <2>2
  <2> QED BY <1>0, <1>6, <2>1, <2>2, MovesOne DEF LedgerInv
<1>7. ASSUME NEW t \in Tx, btx'[t] # NoEntry PROVE Kept(t)'
  <2>1. CASE btx[t] # NoEntry BY <1>3, <2>1 DEF LedgerInv, KeptInv, KeepsAll
  <2>2. CASE \E b \in Block : Has(b)' /\ t \in TxsOf[b] BY <1>5, <2>2
  <2> QED BY <1>0, <1>7, <2>1, <2>2, StepWrites DEF LedgerInv
<1>8. KeptInv' BY <1>5, <1>6, <1>7 DEF KeptInv
<1> QED BY <1>0, <1>1, <1>3, <1>4, <1>8 DEF LedgerInv, KeepsAll

----------------------------------------------------------------------------
(* The result. *)

LEMMA LedgerInit1 == LedgerInit => LedgerInv
<1> SUFFICES ASSUME LedgerInit PROVE LedgerInv
  OBVIOUS
<1>1. IInv BY InitInv DEF LedgerInit
<1>2. node \in Block BY ReorgAssumption DEF LedgerInit
<1>3. DOMAIN txo = Out BY DEF LedgerInit, TxInit
<1>4. \A b \in Block : ~Has(b) BY KeyFacts DEF LedgerInit, Init, DbInit, Has
<1>5. \A s \in Syncer : pc[s] = "idle" BY DEF LedgerInit, Init, SyncInit
<1>6. \A t \in Tx : btx[t] = NoEntry BY DEF LedgerInit, Init, DbInit
<1> QED BY <1>1, <1>2, <1>3, <1>4, <1>5, <1>6 DEF LedgerInv, TipThere, KeptInv

LEMMA LedgerStep == LedgerInv /\ [LedgerNext]_ledgerVars => LedgerInv'
<1> SUFFICES ASSUME LedgerInv, [LedgerNext]_ledgerVars PROVE LedgerInv'
  OBVIOUS
<1> USE SameKept DEF LedgerInv, vars
<1>1. CASE Advance BY <1>1, AsideInv DEF Advance, NodeMoves
<1>2. CASE PeerSends
  <2>1. PICK t \in Tx : AddUnconfirmed(t, StampOf[node] + 1)
    BY <1>2, ReorgAssumption DEF PeerSends
  <2>2. StampOf[node] + 1 \in Nat BY LedgerAssumption DEF Stamp
  <2> DEFINE time == [u \in {t} |-> StampOf[node] + 1]
  <2>3. KeepsAll BY <2>1, <2>2, AddScriptKept DEF AddUnconfirmed
  <2> QED BY <1>2, <2>3, AsideInv DEF PeerSends
<1>3. ASSUME NEW s \in Syncer, Feed(s) \/ Stores(s) PROVE LedgerInv'
  BY <1>3, FeedInv, StoresInv
<1>4. ASSUME NEW r \in Request, Asks(r) PROVE LedgerInv'
  BY <1>4, AsideInv DEF Asks, Ask
<1>5. ASSUME NEW r \in Request, Serve(r) PROVE LedgerInv'
  <2>1. KeepsAll BY <1>5, RequestKept DEF Serve
  <2>2. CacheTip \/ UNCHANGED dbVars
    BY <1>5 DEF Serve, RequestStep, ReadSpends, AskRpc, AskRpcSpent, ReadHeight, FillOwn,
       FillSpent, CacheItems, FillScript
  <2> QED BY <1>5, <2>1, <2>2, AsideInv DEF Serve
<1>6. ASSUME NEW v \in Request, Views(v) PROVE LedgerInv'
  <2>1. UNCHANGED txVars /\ (CacheTip \/ UNCHANGED dbVars)
    BY <1>6 DEF Views, AskTx, ViewStep, ReadOutpoint, CheckSpent, FillOutputs, ReadVinTip,
       FillVin, FillVinByRpc
  <2> QED BY <1>6, <2>1, AsideInv DEF Views
<1>7. CASE UNCHANGED ledgerVars BY <1>7, AsideInv DEF ledgerVars
<1> QED BY <1>1, <1>2, <1>3, <1>4, <1>5, <1>6, <1>7 DEF LedgerNext

(* A transaction is only indexed when its outputs and spends are stored,   *)
(* while bitcoind reorganises, peers send transactions and requests cache  *)
(* what they found in the same rows.                                       *)
THEOREM IndexedCorrect == LedgerSpec => []IndexedIsStored
<1>1. LedgerInv => IndexedIsStored BY DEF LedgerInv, KeptInv, Kept, IndexedIsStored
<1> QED BY LedgerInit1, LedgerStep, <1>1, PTL DEF LedgerSpec

----------------------------------------------------------------------------
(* Reorganisations under the ledger: Sync gets the blocks of bitcoind's    *)
(* chain from below, one at a time, and reads of the tip go on beside it.  *)

OneFollower == (\E s \in Syncer : Syncer = {s}) /\ OneFirstBlock

LEMMA ReadsTurn ==
  ASSUME RInv, UNCHANGED syncVars, CacheTip \/ UNCHANGED dbVars
  PROVE  RInv'
<1>1. CASE UNCHANGED dbVars BY <1>1, ReorgStutters DEF vars
<1>2. CASE CacheTip
  <2>1. UNCHANGED <<prev, next, main, bti, pc, job, waiting, cachedLastHash, crashed>>
        /\ cachedTip' = GetTip
    BY <1>2 DEF CacheTip, syncVars
  <2>2. PointerInv' BY <2>1 DEF RInv, PointerInv, Unlinked, Has, GetTip
  <2>3. ASSUME NEW s \in Syncer PROVE TurnInv(s)'
    <3>1. QueueInv(s)' BY <2>1 DEF RInv, TurnInv, QueueInv, Stored, Has
    <3>2. ConnectedInv(s)'
      BY <2>1 DEF RInv, TurnInv, ConnectedInv, NewPrev, Connected, Best, BestFrom, Has
    <3>3. LinkedInv(s)' BY <2>1 DEF RInv, TurnInv, LinkedInv, NewPrev, Linked, Best
    <3>4. LocalsInv(s)' BY <2>1 DEF RInv, TurnInv, LocalsInv, NewPrev, Best, Stored, Has
    <3> QED BY <3>1, <3>2, <3>3, <3>4 DEF TurnInv
  <2> QED BY <2>1, <2>2, <2>3 DEF RInv
<1> QED BY <1>1, <1>2

(* The block that is fed is not stored, and no other call waits. *)
LEMMA FeedTurn ==
  ASSUME LedgerInv, RInv, NEW s \in Syncer, Syncer = {s}, Feed(s)
  PROVE  /\ RInv'
         /\ \E b \in Active : /\ pc'[s] # "idle" /\ job'[s].blk = b
                              /\ UNCHANGED dbVars
<1>1. PICK b \in Active : ~Has(b) /\ StoreTipBlock(s, [blk |-> b, allow |-> TRUE])
  BY DEF Feed
<1> DEFINE call == [blk |-> b, allow |-> TRUE]
<1>2. b \in Block BY ChainFacts DEF Active, LedgerInv
<1>3. call \in Call /\ call.allow /\ call.blk = b BY <1>2 DEF Call
<1>4. pc[s] = "idle" /\ waiting[s] = {} BY DEF Feed, storingBlock
<1>5. FreshCall(s, call) BY <1>1, <1>3, <1>4 DEF FreshCall
<1> HIDE DEF call
<1>6. StoreTipBlock(s, call) BY <1>1 DEF call
<1>7. RInv' BY <1>3, <1>4, <1>5, <1>6, StoreTipBlockTurn DEF LedgerInv
<1>8. UNCHANGED dbVars /\ Begin(s, call) BY <1>4, <1>6 DEF StoreTipBlock, storingBlock
<1>9. pc'[s] # "idle" /\ job'[s].blk = b
  BY <1>3, <1>8 DEF Begin, GoTo, NewJob, LedgerInv, IInv, TypeOK
<1> QED BY <1>7, <1>8, <1>9

(* What requests and peers do leaves the blocks and the jobs alone. *)
LEMMA RequestReads ==
  ASSUME NEW r \in Request, Asks(r) \/ Serve(r) \/ Views(r)
  PROVE  UNCHANGED <<syncVars, node>> /\ (CacheTip \/ UNCHANGED dbVars)
<1>1. CASE Asks(r)
  <2>1. Ask(r) => UNCHANGED dbVars BY DEF Ask
  <2> QED BY <1>1, <2>1 DEF Asks
<1>2. CASE Serve(r)
  <2>1. RequestStep(r) BY <1>2 DEF Serve
  <2>2. ReadSpends(r) => UNCHANGED dbVars BY DEF ReadSpends
  <2>3. AskRpc(r) => UNCHANGED dbVars BY DEF AskRpc
  <2>4. AskRpcSpent(r) => UNCHANGED dbVars BY DEF AskRpcSpent
  <2>5. ReadHeight(r) => CacheTip BY DEF ReadHeight
  <2>6. FillOwn(r) => UNCHANGED dbVars BY DEF FillOwn
  <2>7. FillSpent(r) => UNCHANGED dbVars BY DEF FillSpent
  <2>8. CacheItems(r) => UNCHANGED dbVars BY DEF CacheItems
  <2>9. FillScript(r) => UNCHANGED dbVars BY DEF FillScript
  <2> QED
    BY <1>2, <2>1, <2>2, <2>3, <2>4, <2>5, <2>6, <2>7, <2>8, <2>9 DEF Serve, RequestStep
<1>3. CASE Views(r)
  <2>1. AskTx(r) \/ ViewStep(r) BY <1>3 DEF Views
  <2>2. AskTx(r) => UNCHANGED dbVars BY DEF AskTx
  <2>3. ReadOutpoint(r) => UNCHANGED dbVars BY DEF ReadOutpoint
  <2>4. CheckSpent(r) => UNCHANGED dbVars BY DEF CheckSpent
  <2>5. FillOutputs(r) => UNCHANGED dbVars BY DEF FillOutputs
  <2>6. ReadVinTip(r) => CacheTip BY DEF ReadVinTip
  <2>7. FillVin(r) => UNCHANGED dbVars BY DEF FillVin
  <2>8. FillVinByRpc(r) => UNCHANGED dbVars BY DEF FillVinByRpc
  <2> QED BY <1>3, <2>1, <2>2, <2>3, <2>4, <2>5, <2>6, <2>7, <2>8 DEF Views, ViewStep
<1> QED BY <1>1, <1>2, <1>3

LEMMA LedgerTurn ==
  ASSUME OneFollower, LedgerInv, RInv, StraightBranches, [LedgerNext]_ledgerVars
  PROVE  RInv'
<1>1. PICK s \in Syncer : Syncer = {s} BY DEF OneFollower
<1>2. CASE Advance \/ PeerSends \/ UNCHANGED ledgerVars
  BY <1>2, ReorgStutters DEF Advance, PeerSends, ledgerVars
<1>3. CASE Feed(s) BY <1>1, <1>3, FeedTurn
<1>4. CASE Stores(s)
  BY <1>1, <1>4, StepTurn DEF Stores, LedgerInv, StraightBranches, OneFollower
<1>5. ASSUME NEW r \in Request, Asks(r) \/ Serve(r) \/ Views(r) PROVE RInv'
  BY <1>5, RequestReads, ReadsTurn
<1> QED BY <1>1, <1>2, <1>3, <1>4, <1>5 DEF LedgerNext

----------------------------------------------------------------------------
(* Confirmations that are cached: what is counted deep enough is settled.  *)

LEMMA SettledConfirmed ==
  ASSUME node \in Block, NEW t, Settled(t)
  PROVE  t \in Tx /\ Confirmed(t)
BY ChainFacts, BlockTreeAssumption DEF Settled, Active, Confirmed, BlocksWith

LEMMA OnMainBlocks ==
  ASSUME LedgerInv, NEW s \in Syncer
  PROVE  OnMain(s) \subseteq Block
<1>1. job[s].blk \in Block BY DEF LedgerInv, IInv, TypeOK, Job
<1>2. Connected \subseteq Block /\ Chain[job[s].blk] \subseteq Block
  BY <1>1, ChainFacts DEF Connected
<1> QED BY <1>2 DEF OnMain

LEMMA DepthsAreNat ==
  ASSUME NEW b \in Block
  PROVE  Depth[b] \in Nat
BY KeyFacts

(* No height at all is one to count from. *)
LEMMA NoHeight ==
  ASSUME LedgerInv
  PROVE  CountsFrom(-1)
<1>1. -1 \in Int /\ -1 <= Depth[node] BY DepthsAreNat DEF LedgerInv
<1>2. ASSUME NEW s \in Syncer, NEW b \in OnMain(s) PROVE -1 - Depth[b] < MaxReorg
  BY OnMainBlocks, DepthsAreNat, ReorgAssumption
<1> QED BY <1>1, <1>2 DEF CountsFrom

(* bitcoind's own count. *)
LEMMA RpcSettles ==
  ASSUME node \in Block, MaxReorg < Safe, NEW t
  PROVE  RpcConfirmations(t) \in Int /\ (RpcConfirmations(t) >= Safe => Settled(t))
<1>1. CASE ~Confirmed(t) BY <1>1, LedgerAssumption DEF RpcConfirmations
<1>2. CASE Confirmed(t)
  <2> DEFINE S == {Depth[b] : b \in BlocksWith(t)}
  <2>1. BlocksWith(t) \subseteq Block /\ BlocksWith(t) # {}
    BY <1>2, ChainFacts DEF BlocksWith, Active, Confirmed
  <2>2. S \in SUBSET Nat /\ S # {} BY <2>1, DepthsAreNat
  <2>3. \E n \in S : \A m \in S : n <= m BY <2>2, Least
  <2>4. RpcConfirmations(t) = Depth[node] - Min(S) + 1 BY <1>2 DEF RpcConfirmations
  <2> HIDE DEF S
  <2>5. Min(S) \in S BY <2>3 DEF Min
  <2>6. PICK b \in BlocksWith(t) : Depth[b] = Min(S) BY <2>5 DEF S
  <2>7. Depth[node] \in Nat /\ Depth[b] \in Nat BY <2>1, DepthsAreNat
  <2>8. RpcConfirmations(t) = Depth[node] - Depth[b] + 1 BY <2>4, <2>6
  <2>9. ASSUME RpcConfirmations(t) >= Safe PROVE Depth[node] - Depth[b] >= MaxReorg
    BY <2>7, <2>8, <2>9, ReorgAssumption, LedgerAssumption
  <2> QED BY <2>7, <2>8, <2>9 DEF Settled, BlocksWith
<1> QED BY <1>1, <1>2

(* A count from the index, against a height that may be older. *)
LEMMA IndexSettles ==
  ASSUME LedgerInv, EntriesStored, MaxReorg < Safe, NEW s \in Syncer,
         NEW h, CountsFrom(h), NEW t \in Tx, btx[t].height >= 0
  PROVE  /\ h - btx[t].height + 1 \in Int
         /\ h - btx[t].height + 1 >= Safe => Settled(t)
<1> DEFINE b == btx[t].hash
<1>1. btx[t] # NoEntry BY DEF NoEntry
<1>2. Stored(b) BY <1>1 DEF EntriesStored
<1>3. t \in TxsOf[b] /\ btx[t].height = main[b] /\ main[b] >= 0
  BY <1>1 DEF LedgerInv, IInv, DbInv, TxIndexTruthful
<1>4. b \in Block /\ Depth[b] \in Nat BY <1>2, DepthsAreNat DEF Stored
<1>5. main[b] \in {-1, Depth[b]}
  BY <1>2, <1>4 DEF LedgerInv, IInv, DbInv, HeightsTruthful, Stored
<1>6. btx[t].height = Depth[b] BY <1>3, <1>4, <1>5
<1>7. b \in OnMain(s) BY <1>2, <1>3 DEF OnMain, Connected, Stored
<1>8. h \in Int /\ h <= Depth[node] /\ Depth[node] \in Nat
  BY DepthsAreNat DEF CountsFrom, LedgerInv
<1>9. MaxReorg \in Nat /\ Safe \in Nat BY ReorgAssumption, LedgerAssumption
<1>10. ASSUME h - Depth[b] + 1 >= Safe PROVE Settled(t)
  <2>1. h - Depth[b] >= MaxReorg BY <1>4, <1>8, <1>9, <1>10
  <2>2. b \in Active BY <1>4, <1>7, <1>8, <1>9, <2>1 DEF CountsFrom
  <2>3. Depth[node] - Depth[b] >= MaxReorg BY <1>4, <1>8, <1>9, <2>1
  <2> QED BY <1>3, <2>2, <2>3 DEF Settled
<1> QED BY <1>4, <1>6, <1>8, <1>10

(* What is settled stays settled, and a height to count from stays one. *)
KeepsTruth ==
  /\ \A t : Settled(t) => Settled(t)'
  /\ \A h : CountsFrom(h) => CountsFrom(h)'

LEMMA RequestKeeps ==
  ASSUME KeepsTruth, NEW q, RequestInv(q)
  PROVE  RequestInv(q)'
<1>1. CountsFrom(q.chainHeight)' BY DEF KeepsTruth, RequestInv
<1>2. ASSUME NEW o \in DOMAIN q.items PROVE ItemInv(o, q.items[o])'
  BY DEF KeepsTruth, RequestInv, ItemInv
<1> QED BY <1>1, <1>2 DEF RequestInv

LEMMA SameTruth ==
  ASSUME UNCHANGED <<prev, main, pc, job, node>>
  PROVE  KeepsTruth
BY DEF KeepsTruth, Settled, CountsFrom, OnMain, Connected, Has, Active

(* Rows that are put anew hold nothing, and the others what they held. *)
LEMMA RowsKeep ==
  ASSUME KeepsTruth, RowsInv,
         \A o \in Out, n \in Stamp : txa'[o][n] \in {txa[o][n], Uncached}
  PROVE  RowsInv'
<1>1. ASSUME NEW o \in Out, NEW n \in Stamp, NEW c, c = txa'[o][n], c # Absent
      PROVE  /\ c.confirmed => Settled(TxOf[o])'
             /\ c.spent # NoHash => Settled(c.spent)'
  <2>1. CASE c = Uncached BY <2>1 DEF Uncached
  <2>2. CASE c = txa[o][n] BY <1>1, <2>2 DEF KeepsTruth, RowsInv
  <2> QED BY <1>1, <2>1, <2>2
<1> QED BY <1>1 DEF RowsInv

----------------------------------------------------------------------------
(* The items of a request. *)

LEMMA FirstIsSpend ==
  ASSUME NEW o, Spends(o) # {}
  PROVE  FirstSpend(o) \in Spends(o) /\ Spends(o) \subseteq Tx
<1> DEFINE S == {TxOrder[t] : t \in Spends(o)}
<1>1. Spends(o) \subseteq Tx BY DEF Spends
<1>2. S \in SUBSET Nat /\ S # {} BY <1>1, LedgerAssumption
<1>3. PICK n \in S : \A m \in S : n <= m BY <1>2, Least
<1>4. PICK t \in Spends(o) : TxOrder[t] = n BY <1>3
<1>5. \A u \in Spends(o) : TxOrder[t] <= TxOrder[u] BY <1>3, <1>4
<1> QED BY <1>1, <1>5 DEF FirstSpend

LEMMA LatestRow ==
  ASSUME NEW o, Rows(o) # {}
  PROVE  Max(Rows(o)) \in Rows(o)
<1> DEFINE S == {MaxStamp - n : n \in Rows(o)}
<1>1. Rows(o) \subseteq 0 .. MaxStamp /\ MaxStamp \in Nat
  BY LedgerAssumption DEF Rows, Stamp
<1>2. S \in SUBSET Nat /\ S # {} BY <1>1
<1>3. PICK k \in S : \A m \in S : k <= m BY <1>2, Least
<1>4. PICK n \in Rows(o) : MaxStamp - n = k BY <1>3
<1>5. ASSUME NEW m \in Rows(o) PROVE n >= m
  <2>1. k <= MaxStamp - m BY <1>3
  <2> QED BY <1>1, <1>4, <2>1
<1> QED BY <1>5 DEF Max

LEMMA NoConfirmations == 0 \in Int /\ ~(0 >= Safe)
BY LedgerAssumption

LEMMA ParsedItem ==
  ASSUME LedgerInv, RowsInv, NEW o \in Out, Rows(o) # {}, NEW ignoreCache \in BOOLEAN,
         NEW item, item = ParseAddrData(o, Max(Rows(o)), ignoreCache)
  PROVE  ItemInv(o, item) /\ item.spentConfirmations = 0
<1> DEFINE c == IF ignoreCache THEN Uncached ELSE txa[o][Max(Rows(o))]
<1>1. c.spent \in Tx \cup {NoHash}
  <2>1. CASE ignoreCache BY <2>1 DEF Uncached
  <2>2. CASE ~ignoreCache
    <3>1. Max(Rows(o)) \in Stamp /\ c # Absent BY <2>2, LatestRow DEF Rows
    <3>2. c.spent # NoHash => Settled(c.spent) BY <2>2, <3>1 DEF RowsInv
    <3> QED BY <3>2, SettledConfirmed DEF LedgerInv
  <2> QED BY <2>1, <2>2
<1> HIDE DEF c
<1>2. item = [ts |-> Max(Rows(o)), cached |-> c.confirmed, confirmed |-> c.confirmed,
              confirmations |-> 0, spent |-> c.spent, spentIndex |-> c.index,
              spentTs |-> c.ts, attempts |-> {}, spentConfirmed |-> c.spent # NoHash,
              spentCached |-> c.spent # NoHash, spentConfirmations |-> 0]
  BY DEF ParseAddrData, c
<1>3. ItemFields(item) BY <1>2 DEF ItemFields
<1>4. item.confirmations = 0 /\ item.spentConfirmations = 0 /\ item.spent = c.spent
      /\ item.attempts = {}
  BY <1>2
<1> QED BY <1>1, <1>3, <1>4, NoConfirmations DEF ItemInv

LEMMA SpentItem ==
  ASSUME NEW o, NEW item, ItemInv(o, item), item.spentConfirmations = 0,
         NEW new, new = AddSpentInfo(item, o)
  PROVE  ItemInv(o, new) /\ new.spentConfirmations = 0
<1>1. CASE Spends(o) = {} BY <1>1 DEF AddSpentInfo
<1>2. CASE Spends(o) # {}
  <2> DEFINE first == FirstSpend(o)
             index == Index(first, o)
             ts == txs[o][first]
             attempts == IF Spends(o) = {first} THEN {} ELSE Spends(o)
  <2>1. first \in Tx /\ attempts \subseteq Tx BY <1>2, FirstIsSpend
  <2>2. new = [item EXCEPT !.spent = first, !.spentIndex = index, !.spentTs = ts,
                           !.attempts = attempts]
    BY <1>2 DEF AddSpentInfo
  <2> HIDE DEF first, index, ts, attempts
  <2>3. ItemFields(item) BY DEF ItemInv
  <2>4. ItemFields(new) BY <2>2, <2>3 DEF ItemFields
  <2>5. new.confirmations = item.confirmations /\ new.spentConfirmations = 0
        /\ new.spent = first /\ new.attempts = attempts
    BY <2>2, <2>3 DEF ItemFields
  <2> QED BY <2>1, <2>4, <2>5, NoConfirmations DEF ItemInv
<1> QED BY <1>1, <1>2

LEMMA OwnItem ==
  ASSUME NEW o, NEW item, ItemInv(o, item), NEW x, NEW n \in Int,
         n >= Safe => Settled(TxOf[o]),
         NEW new, new = [item EXCEPT !.confirmed = x, !.confirmations = n]
  PROVE  ItemInv(o, new) /\ new.spentConfirmations = item.spentConfirmations
<1>1. ItemFields(item) BY DEF ItemInv
<1>2. ItemFields(new) BY <1>1 DEF ItemFields
<1>3. new.confirmations = n /\ new.spentConfirmations = item.spentConfirmations
      /\ new.spent = item.spent /\ new.attempts = item.attempts
  BY <1>1 DEF ItemFields
<1> QED BY <1>2, <1>3 DEF ItemInv

LEMMA SpenderItem ==
  ASSUME NEW o, NEW item, ItemInv(o, item), NEW t \in Tx \cup {NoHash}, NEW x, NEW n \in Int,
         n >= Safe => Settled(t),
         NEW new, new = [item EXCEPT !.spent = t, !.spentConfirmed = x, !.spentConfirmations = n]
  PROVE  ItemInv(o, new)
<1>1. ItemFields(item) BY DEF ItemInv
<1>2. ItemFields(new) BY <1>1 DEF ItemFields
<1>3. new.confirmations = item.confirmations /\ new.spentConfirmations = n
      /\ new.spent = t /\ new.attempts = item.attempts
  BY <1>1 DEF ItemFields
<1> QED BY <1>2, <1>3 DEF ItemInv

----------------------------------------------------------------------------
(* The records of a request. *)

SameItems(q, new) ==
  /\ RequestFields(new)
  /\ new.items = q.items /\ new.looks = q.looks /\ new.chainHeight = q.chainHeight

LEMMA PhaseRequest ==
  ASSUME NEW q, RequestInv(q), NEW new, SameItems(q, new),
         new.pc # "spends", new.pc # "fill" => q.looks = {}, new.todo \subseteq DOMAIN q.items
  PROVE  RequestInv(new)
BY DEF RequestInv, SameItems

LEMMA DoneRequest ==
  ASSUME LedgerInv, NEW q, RequestInv(q), q.looks = {}, NEW answer,
         NEW new, new = Done(q, answer)
  PROVE  RequestInv(new)
<1>1. RequestFields(q) BY DEF RequestInv
<1>2. RequestFields(new) BY <1>1 DEF RequestFields, Done
<1>3. new.todo = {} /\ new.items = << >> /\ new.looks = {} /\ new.chainHeight = -1
  BY <1>1 DEF RequestFields, Done
<1>4. DOMAIN new.items = {} BY <1>3
<1> QED BY <1>2, <1>3, <1>4, NoHeight DEF RequestInv

LEMMA EnterRequest ==
  ASSUME NEW q, RequestInv(q), q.looks = {}, NEW new, new \in {EnterRpc(q), EnterRpcSpent(q)}
  PROVE  RequestInv(new)
<1> DEFINE spent == {o \in DOMAIN q.items : q.items[o].spent # NoHash /\ ~q.items[o].spentConfirmed}
           own == {o \in DOMAIN q.items : ~q.items[o].confirmed}
           phase == IF spent = {} THEN "tip" ELSE "rpcSpent"
<1>1. RequestFields(q) BY DEF RequestInv
<1>2. EnterRpcSpent(q) = [q EXCEPT !.pc = phase, !.todo = spent] BY DEF EnterRpcSpent
<1>3. EnterRpc(q) = IF own = {} THEN EnterRpcSpent(q) ELSE [q EXCEPT !.pc = "rpc", !.todo = own]
  BY DEF EnterRpc
<1>4. spent \subseteq DOMAIN q.items /\ own \subseteq DOMAIN q.items /\ phase # "spends"
  OBVIOUS
<1> HIDE DEF spent, own, phase
<1>5. CASE new = [q EXCEPT !.pc = phase, !.todo = spent]
  <2>1. SameItems(q, new) /\ new.pc = phase /\ new.todo = spent
    BY <1>1, <1>5 DEF SameItems, RequestFields
  <2> QED BY <1>4, <2>1, PhaseRequest
<1>6. CASE new = [q EXCEPT !.pc = "rpc", !.todo = own]
  <2>1. SameItems(q, new) /\ new.pc = "rpc" /\ new.todo = own
    BY <1>1, <1>6 DEF SameItems, RequestFields
  <2> QED BY <1>4, <2>1, PhaseRequest
<1> QED BY <1>2, <1>3, <1>5, <1>6

LEMMA ThenRequest ==
  ASSUME LedgerInv, NEW q, RequestInv(q), NEW new, new = Then(q)
  PROVE  RequestInv(new)
<1>1. RequestFields(q) BY DEF RequestInv
<1>2. CASE q.todo # {} \/ q.looks # {}
  <2>1. new = q BY <1>2 DEF Then
  <2> QED BY <2>1
<1>3. CASE q.todo = {} /\ q.looks = {} /\ q.pc = "spends"
  <2>1. new = EnterRpc(q) BY <1>3 DEF Then
  <2> QED BY <1>3, <2>1, EnterRequest
<1>4. CASE q.todo = {} /\ q.looks = {} /\ q.pc = "rpc"
  <2>1. new = EnterRpcSpent(q) BY <1>4 DEF Then
  <2> QED BY <1>4, <2>1, EnterRequest
<1>5. CASE q.todo = {} /\ q.looks = {} /\ q.pc \in {"rpcSpent", "fill"}
  <2>1. new = [q EXCEPT !.pc = "tip"] \/ new = [q EXCEPT !.pc = "cache"]
    <3>1. CASE q.pc = "rpcSpent" BY <1>5, <3>1 DEF Then
    <3>2. CASE q.pc = "fill" BY <1>5, <3>2 DEF Then
    <3> QED BY <1>5, <3>1, <3>2
  <2>2. SameItems(q, new) /\ new.pc # "spends" /\ new.todo = {}
    BY <1>1, <1>5, <2>1 DEF SameItems, RequestFields
  <2> QED BY <1>5, <2>2, PhaseRequest
<1>6. CASE q.todo = {} /\ q.looks = {} /\ q.pc = "script"
  <2>1. \E answer : new = Done(q, answer) BY <1>6 DEF Then
  <2> QED BY <1>6, <2>1, DoneRequest
<1>7. CASE q.pc \notin {"spends", "rpc", "rpcSpent", "fill", "script"}
  <2>1. new = q BY <1>7 DEF Then
  <2> QED BY <2>1
<1> QED BY <1>2, <1>3, <1>4, <1>5, <1>6, <1>7

(* Lookups end, others begin, and one item changes. *)
ItemChanges(q, o, item, new) ==
  /\ RequestFields(new) /\ new.pc = q.pc /\ new.chainHeight = q.chainHeight
  /\ new.items = [q.items EXCEPT ![o] = item]
  /\ new.todo \subseteq DOMAIN q.items
  /\ q.pc # "fill" => new.looks = {}
  /\ \A look \in new.looks : look[1] \in DOMAIN q.items /\ look[2] \in Tx

LEMMA ItemRequest ==
  ASSUME NEW q, RequestInv(q), NEW o \in DOMAIN q.items, NEW item, ItemInv(o, item),
         q.pc = "spends" => item.spentConfirmations = 0,
         NEW new, ItemChanges(q, o, item, new)
  PROVE  RequestInv(new)
<1> USE DEF ItemChanges
<1>1. DOMAIN new.items = DOMAIN q.items OBVIOUS
<1>2. ASSUME NEW p \in DOMAIN new.items
      PROVE  /\ ItemInv(p, new.items[p])
             /\ new.pc = "spends" => new.items[p].spentConfirmations = 0
  <2>1. CASE p = o BY <1>1, <1>2, <2>1
  <2>2. CASE p # o BY <1>1, <1>2, <2>2 DEF RequestInv
  <2> QED BY <2>1, <2>2
<1> QED BY <1>1, <1>2 DEF RequestInv

(* A request moves on to a record that counts truthfully. *)
Moves(r) == \E q : req' = [req EXCEPT ![r] = Then(q)] /\ RequestInv(q)

LEMMA AnsweredMoves ==
  ASSUME NEW r \in Request, RequestInv(req[r]), NEW o \in req[r].todo,
         NEW item, ItemInv(o, item), req[r].pc = "spends" => item.spentConfirmations = 0,
         Answered(r, o, item)
  PROVE  Moves(r)
<1> DEFINE q == req[r]
           todo == q.todo \ {o}
           items == [q.items EXCEPT ![o] = item]
           new == [q EXCEPT !.todo = todo, !.items = items]
<1>1. o \in DOMAIN q.items /\ todo \subseteq DOMAIN q.items BY DEF RequestInv
<1>2. req' = [req EXCEPT ![r] = Then(new)] BY DEF Answered, Set
<1>3. RequestFields(q) /\ new = [q EXCEPT !.todo = todo, !.items = items] BY DEF RequestInv
<1>4. /\ RequestFields(new) /\ new.pc = q.pc /\ new.todo = todo /\ new.items = items
      /\ new.looks = q.looks /\ new.chainHeight = q.chainHeight
  <2> HIDE DEF q, todo, items, new
  <2> QED BY <1>3 DEF RequestFields
<1>5. /\ q.pc # "fill" => q.looks = {}
      /\ \A look \in q.looks : look[1] \in DOMAIN q.items /\ look[2] \in Tx
  BY DEF RequestInv
<1>6. ItemChanges(q, o, item, new)
  <2> HIDE DEF new
  <2> QED BY <1>1, <1>4, <1>5 DEF ItemChanges
<1> HIDE DEF new
<1>7. RequestInv(new) BY <1>1, <1>6, ItemRequest
<1> QED BY <1>2, <1>7 DEF Moves

LEMMA SpendersAreTxs ==
  ASSUME NEW o, NEW item, ItemInv(o, item), NEW look \in Looks(o, item)
  PROVE  look[1] = o /\ look[2] \in Tx
BY DEF Looks, Spenders, ItemInv

(* fromAddr. *)
LEMMA AskMoves ==
  ASSUME LedgerInv, RowsInv, NEW r \in Request, Ask(r)
  PROVE  Moves(r)
<1>1. PICK a \in Asked, onlyUnspent \in BOOLEAN, ignoreCache \in BOOLEAN :
        LET items == FromAddr(a, ignoreCache) IN
          Set(r, [Idle EXCEPT !.pc = "spends", !.items = items, !.addr = a,
                              !.onlyUnspent = onlyUnspent,
                              !.at = IF StoreCurrent THEN node ELSE NoHash,
                              !.todo = {o \in DOMAIN items : ~items[o].spentConfirmed}])
  BY Zenon DEF Ask
<1> DEFINE items == FromAddr(a, ignoreCache)
           todo == {o \in DOMAIN items : ~items[o].spentConfirmed}
           at == IF StoreCurrent THEN node ELSE NoHash
           new == [Idle EXCEPT !.pc = "spends", !.items = items, !.addr = a,
                               !.onlyUnspent = onlyUnspent, !.at = at, !.todo = todo]
<1>2. req' = [req EXCEPT ![r] = Then(new)] BY <1>1 DEF Set
<1>3. DOMAIN items \subseteq Out BY DEF FromAddr
<1>4. ASSUME NEW o \in DOMAIN items
      PROVE  ItemInv(o, items[o]) /\ items[o].spentConfirmations = 0
  <2>1. o \in Out /\ Rows(o) # {} /\ items[o] = ParseAddrData(o, Max(Rows(o)), ignoreCache)
    BY DEF FromAddr
  <2> HIDE DEF items
  <2> QED BY <2>1, ParsedItem
<1>5. todo \subseteq DOMAIN items OBVIOUS
<1>new. new = [Idle EXCEPT !.pc = "spends", !.items = items, !.addr = a,
                           !.onlyUnspent = onlyUnspent, !.at = at, !.todo = todo]
  OBVIOUS
<1> HIDE DEF items, todo, at, new
<1>6. RequestFields(new) /\ new.items = items /\ new.todo = todo /\ new.looks = {}
      /\ new.chainHeight = -1
  BY <1>new DEF Idle, RequestFields
<1>7. RequestInv(new) BY <1>3, <1>4, <1>5, <1>6, NoHeight DEF RequestInv
<1> QED BY <1>2, <1>7 DEF Moves

LEMMA ReadSpendsMoves ==
  ASSUME NEW r \in Request, RequestInv(req[r]), ReadSpends(r)
  PROVE  Moves(r)
<1>1. PICK o \in req[r].todo : Answered(r, o, AddSpentInfo(req[r].items[o], o))
  BY DEF ReadSpends
<1>2. o \in DOMAIN req[r].items /\ req[r].pc = "spends" BY DEF ReadSpends, Waiting, RequestInv
<1>3. ItemInv(o, req[r].items[o]) /\ req[r].items[o].spentConfirmations = 0
  BY <1>2 DEF RequestInv
<1> QED BY <1>1, <1>3, SpentItem, AnsweredMoves

LEMMA AskRpcMoves ==
  ASSUME LedgerInv, MaxReorg < Safe, NEW r \in Request, RequestInv(req[r]), AskRpc(r)
  PROVE  Moves(r)
<1>1. PICK o \in req[r].todo :
        \/ Answered(r, o, req[r].items[o])
        \/ Answered(r, o, [req[r].items[o] EXCEPT !.confirmed = TRUE,
                                                  !.confirmations = RpcConfirmations(TxOf[o])])
  BY Zenon DEF AskRpc
<1>2. o \in DOMAIN req[r].items /\ req[r].pc # "spends" BY DEF AskRpc, Waiting, RequestInv
<1>3. ItemInv(o, req[r].items[o]) BY <1>2 DEF RequestInv
<1> DEFINE n == RpcConfirmations(TxOf[o])
           item == [req[r].items[o] EXCEPT !.confirmed = TRUE, !.confirmations = n]
<1>4. n \in Int /\ (n >= Safe => Settled(TxOf[o])) BY RpcSettles DEF LedgerInv
<1> HIDE DEF n
<1>5. ItemInv(o, item) BY <1>3, <1>4, OwnItem, Zenon
<1>6. CASE Answered(r, o, req[r].items[o]) BY <1>2, <1>3, <1>6, AnsweredMoves
<1>7. CASE Answered(r, o, item)
  <2> HIDE DEF item
  <2> QED BY <1>2, <1>5, <1>7, AnsweredMoves
<1> QED BY <1>1, <1>6, <1>7 DEF n

LEMMA AskRpcSpentMoves ==
  ASSUME LedgerInv, MaxReorg < Safe, NEW r \in Request, RequestInv(req[r]), AskRpcSpent(r)
  PROVE  Moves(r)
<1>1. PICK o \in req[r].todo :
        \/ Answered(r, o, req[r].items[o])
        \/ Answered(r, o, [req[r].items[o] EXCEPT !.spentConfirmed = TRUE,
             !.spentConfirmations = RpcConfirmations(req[r].items[o].spent)])
  BY Zenon DEF AskRpcSpent
<1>2. o \in DOMAIN req[r].items /\ req[r].pc # "spends" BY DEF AskRpcSpent, Waiting, RequestInv
<1>3. ItemInv(o, req[r].items[o]) BY <1>2 DEF RequestInv
<1> DEFINE old == req[r].items[o]
           n == RpcConfirmations(old.spent)
           item == [old EXCEPT !.spentConfirmed = TRUE, !.spentConfirmations = n]
<1>4. n \in Int /\ (n >= Safe => Settled(old.spent)) BY RpcSettles DEF LedgerInv
<1> HIDE DEF n, old
<1>5. ItemInv(o, item)
  <2>1. ItemFields(old) /\ old.spent \in Tx \cup {NoHash} BY <1>3 DEF ItemInv, old
  <2>2. item = [old EXCEPT !.spent = old.spent, !.spentConfirmed = TRUE, !.spentConfirmations = n]
    BY <2>1 DEF ItemFields
  <2>3. ItemInv(o, old) BY <1>3 DEF old
  <2> HIDE DEF item
  <2> QED BY <1>4, <2>1, <2>2, <2>3, SpenderItem, Zenon
<1>6. CASE Answered(r, o, req[r].items[o]) BY <1>2, <1>3, <1>6, AnsweredMoves
<1>7. CASE Answered(r, o, item)
  <2> HIDE DEF item
  <2> QED BY <1>2, <1>5, <1>7, AnsweredMoves
<1> QED BY <1>1, <1>6, <1>7 DEF n, old

(* The height of the tip is one to count from. *)
LEMMA TipToCountFrom ==
  ASSUME LedgerInv, RInv, CountsFrom(bti.height)
  PROVE  CountsFrom(GetTip.height)
<1>1. CASE cachedTip = NoEntry BY <1>1 DEF GetTip
<1>2. CASE cachedTip # NoEntry BY <1>2 DEF GetTip, RInv, PointerInv
<1> QED BY <1>1, <1>2

LEMMA ReadHeightMoves ==
  ASSUME LedgerInv, RInv, CountsFrom(bti.height),
         NEW r \in Request, RequestInv(req[r]), ReadHeight(r)
  PROVE  Moves(r)
<1> DEFINE q == req[r]
           items == q.items
           more == {o \in DOMAIN items :
                      ~items[o].spentCached /\ ~(items[o].cached /\ items[o].spent = NoHash)}
           todo == {o \in more : ~items[o].cached}
           looks == UNION {Looks(o, items[o]) : o \in {x \in more : items[x].cached}}
           h == GetTip.height
           new == [q EXCEPT !.pc = "fill", !.chainHeight = h, !.todo = todo, !.looks = looks]
<1>1. req' = [req EXCEPT ![r] = Then(new)] BY Zenon DEF ReadHeight, Set
<1>2. more \subseteq DOMAIN items /\ todo \subseteq DOMAIN items OBVIOUS
<1>3. ASSUME NEW look \in looks PROVE look[1] \in DOMAIN items /\ look[2] \in Tx
  <2>1. PICK o \in more : look \in Looks(o, items[o]) OBVIOUS
  <2>2. o \in DOMAIN items /\ ItemInv(o, items[o]) BY <1>2 DEF RequestInv
  <2> QED BY <2>1, <2>2, SpendersAreTxs
<1>4. RequestFields(q) BY DEF RequestInv
<1>5. new = [q EXCEPT !.pc = "fill", !.chainHeight = h, !.todo = todo, !.looks = looks] OBVIOUS
<1>6. CountsFrom(h) BY TipToCountFrom
<1> HIDE DEF todo, looks, h, new
<1>7. /\ RequestFields(new) /\ new.pc = "fill" /\ new.todo = todo /\ new.items = items
      /\ new.looks = looks /\ new.chainHeight = h
  <2> HIDE DEF q
  <2> QED BY <1>4, <1>5 DEF RequestFields
<1>8. RequestInv(new) BY <1>2, <1>3, <1>6, <1>7 DEF RequestInv
<1> QED BY <1>1, <1>8 DEF Moves

(* A lookup of the phase "fill" ends, perhaps with an item that changed. *)
LEMMA FilledRequest ==
  ASSUME NEW r \in Request, RequestInv(req[r]), req[r].pc = "fill",
         NEW todo \in SUBSET req[r].todo,
         NEW looks, \A look \in looks : look[1] \in DOMAIN req[r].items /\ look[2] \in Tx,
         NEW o \in DOMAIN req[r].items, NEW item, ItemInv(o, item),
         NEW new,
         new = [req[r] EXCEPT !.todo = todo, !.looks = looks,
                              !.items = [req[r].items EXCEPT ![o] = item]]
  PROVE  RequestInv(new)
<1> DEFINE q == req[r]
           items == [q.items EXCEPT ![o] = item]
<1>1. RequestFields(q) /\ new = [q EXCEPT !.todo = todo, !.looks = looks, !.items = items]
  BY DEF RequestInv
<1>2. todo \subseteq DOMAIN q.items BY DEF RequestInv
<1>3. /\ RequestFields(new) /\ new.pc = q.pc /\ new.todo = todo /\ new.items = items
      /\ new.looks = looks /\ new.chainHeight = q.chainHeight
  <2> HIDE DEF q, items
  <2> QED BY <1>1 DEF RequestFields
<1>4. q.pc # "spends" /\ ItemChanges(q, o, item, new) BY <1>2, <1>3 DEF ItemChanges
<1> QED BY <1>4, ItemRequest, Zenon

LEMMA FillOwnMoves ==
  ASSUME LedgerInv, EntriesStored, MaxReorg < Safe, NEW s \in Syncer,
         NEW r \in Request, RequestInv(req[r]), FillOwn(r)
  PROVE  Moves(r)
<1> DEFINE q == req[r]
<1>1. PICK o \in q.todo :
        LET height == btx[TxOf[o]].height IN
          IF height >= 0
          THEN Set(r, [q EXCEPT !.todo = @ \ {o}, !.looks = @ \cup Looks(o, q.items[o]),
                                !.items[o].confirmed = q.chainHeight >= height,
                                !.items[o].confirmations = q.chainHeight - height + 1])
          ELSE Set(r, [q EXCEPT !.todo = @ \ {o}])
  BY Zenon DEF FillOwn
<1>2. o \in DOMAIN q.items /\ q.pc = "fill" /\ RequestFields(q)
  BY DEF FillOwn, Waiting, RequestInv
<1>3. ItemInv(o, q.items[o]) BY <1>2 DEF RequestInv
<1>4. TxOf[o] \in Tx BY <1>2, LedgerAssumption DEF RequestInv
<1> DEFINE height == btx[TxOf[o]].height
           todo == q.todo \ {o}
           old == q.items[o]
           looks == q.looks \cup Looks(o, old)
<1>5. \A look \in looks : look[1] \in DOMAIN q.items /\ look[2] \in Tx
  BY <1>2, <1>3, SpendersAreTxs DEF RequestInv
<1>6. CASE height >= 0
  <2> DEFINE x == q.chainHeight >= height
             n == q.chainHeight - height + 1
             item == [old EXCEPT !.confirmed = x, !.confirmations = n]
             new == [q EXCEPT !.todo = todo, !.looks = looks,
                              !.items = [q.items EXCEPT ![o] = item]]
  <2>1. n \in Int /\ (n >= Safe => Settled(TxOf[o]))
    <3>1. CountsFrom(q.chainHeight) BY DEF RequestInv
    <3> QED BY <1>4, <1>6, <3>1, IndexSettles
  <2>2. ItemInv(o, item)
    <3> HIDE DEF x, n, old
    <3>1. ItemInv(o, old) BY <1>3 DEF old
    <3> QED BY <2>1, <3>1, OwnItem, Zenon
  <2>3. req' = [req EXCEPT ![r] = Then(new)]
    <3>1. Set(r, [q EXCEPT !.todo = @ \ {o}, !.looks = @ \cup Looks(o, q.items[o]),
                           !.items[o].confirmed = q.chainHeight >= height,
                           !.items[o].confirmations = q.chainHeight - height + 1])
      BY <1>1, <1>6, Zenon
    <3> QED BY <3>1, ZenonT(60) DEF Set
  <2>4. RequestInv(new)
    <3>1. todo \subseteq q.todo OBVIOUS
    <3>2. new = [q EXCEPT !.todo = todo, !.looks = looks,
                          !.items = [q.items EXCEPT ![o] = item]]
      OBVIOUS
    <3> HIDE DEF todo, looks, item, new
    <3> QED BY <1>2, <1>5, <2>2, <3>1, <3>2, FilledRequest, Zenon
  <2> QED BY <2>3, <2>4 DEF Moves
<1>7. CASE ~(height >= 0)
  <2> DEFINE new == [q EXCEPT !.todo = todo]
  <2>1. req' = [req EXCEPT ![r] = Then(new)] BY <1>1, <1>7, Zenon DEF Set
  <2>2. new = [q EXCEPT !.todo = todo] OBVIOUS
  <2>3. todo \subseteq DOMAIN q.items BY DEF RequestInv
  <2> HIDE DEF todo, new
  <2>4. SameItems(q, new) /\ new.pc = "fill" /\ new.todo = todo
    <3> HIDE DEF q
    <3> QED BY <1>2, <2>2 DEF SameItems, RequestFields
  <2>5. RequestInv(new) BY <2>3, <2>4, PhaseRequest
  <2> QED BY <2>1, <2>5 DEF Moves
<1> QED BY <1>6, <1>7

LEMMA FillSpentMoves ==
  ASSUME LedgerInv, EntriesStored, MaxReorg < Safe, NEW s \in Syncer,
         NEW r \in Request, RequestInv(req[r]), FillSpent(r)
  PROVE  Moves(r)
<1> DEFINE q == req[r]
<1>1. PICK look \in q.looks :
        LET height == btx[look[2]].height
            o == look[1]
        IN  IF height >= 0
            THEN Set(r, [q EXCEPT !.looks = @ \ {look}, !.items[o].spent = look[2],
                                  !.items[o].spentConfirmed = q.chainHeight >= height,
                                  !.items[o].spentConfirmations = q.chainHeight - height + 1])
            ELSE Set(r, [q EXCEPT !.looks = @ \ {look}])
  BY Zenon DEF FillSpent
<1> DEFINE o == look[1]
           t == look[2]
           height == btx[t].height
           looks == q.looks \ {look}
           old == q.items[o]
<1>2. o \in DOMAIN q.items /\ t \in Tx /\ q.pc = "fill" /\ RequestFields(q)
  BY DEF FillSpent, Waiting, RequestInv
<1>3. ItemInv(o, q.items[o]) BY <1>2 DEF RequestInv
<1>4. \A l \in looks : l[1] \in DOMAIN q.items /\ l[2] \in Tx BY DEF RequestInv
<1>5. CASE height >= 0
  <2> DEFINE x == q.chainHeight >= height
             n == q.chainHeight - height + 1
             item == [old EXCEPT !.spent = t, !.spentConfirmed = x, !.spentConfirmations = n]
             items == [q.items EXCEPT ![o] = item]
             new == [q EXCEPT !.looks = looks, !.items = items]
  <2>1. n \in Int /\ (n >= Safe => Settled(t))
    <3>1. CountsFrom(q.chainHeight) BY DEF RequestInv
    <3> QED BY <1>2, <1>5, <3>1, IndexSettles
  <2>2. ItemInv(o, item)
    <3>1. ItemInv(o, old) /\ t \in Tx \cup {NoHash} BY <1>2, <1>3
    <3> HIDE DEF x, n, old, t
    <3> QED BY <2>1, <3>1, SpenderItem, Zenon
  <2>3. req' = [req EXCEPT ![r] = Then(new)]
    <3>1. Set(r, [q EXCEPT !.looks = @ \ {look}, !.items[o].spent = look[2],
                           !.items[o].spentConfirmed = q.chainHeight >= height,
                           !.items[o].spentConfirmations = q.chainHeight - height + 1])
      BY <1>1, <1>5, Zenon
    <3> QED BY <3>1, ZenonT(60) DEF Set
  <2>4. new = [q EXCEPT !.looks = looks, !.items = items] OBVIOUS
  <2>5. /\ RequestFields(new) /\ new.pc = q.pc /\ new.todo = q.todo /\ new.items = items
        /\ new.looks = looks /\ new.chainHeight = q.chainHeight
    <3> HIDE DEF q, items, looks, new
    <3> QED BY <1>2, <2>4 DEF RequestFields
  <2>6. q.todo \subseteq DOMAIN q.items BY DEF RequestInv
  <2>7. RequestInv(new)
    <3>1. new.items = [q.items EXCEPT ![o] = item] BY <2>5, Zenon
    <3>2. q.pc # "spends" /\ ItemChanges(q, o, item, new)
      <4> HIDE DEF new, item, looks, items
      <4> QED BY <1>2, <1>4, <2>5, <2>6, <3>1 DEF ItemChanges
    <3> HIDE DEF new, item
    <3> QED BY <1>2, <2>2, <3>2, ItemRequest, Zenon
  <2> QED BY <2>3, <2>7 DEF Moves
<1>6. CASE ~(height >= 0)
  <2> DEFINE new == [q EXCEPT !.looks = looks]
  <2>1. req' = [req EXCEPT ![r] = Then(new)] BY <1>1, <1>6, Zenon DEF Set
  <2>2. new = [q EXCEPT !.looks = looks] OBVIOUS
  <2> HIDE DEF looks, new
  <2>3. /\ RequestFields(new) /\ new.pc = q.pc /\ new.todo = q.todo /\ new.items = q.items
        /\ new.looks = looks /\ new.chainHeight = q.chainHeight
    <3> HIDE DEF q
    <3> QED BY <1>2, <2>2 DEF RequestFields
  <2>4. RequestInv(new) BY <1>4, <2>3 DEF RequestInv
  <2> QED BY <2>1, <2>4 DEF Moves
<1> QED BY <1>5, <1>6

LEMMA CacheItemsMoves ==
  ASSUME LedgerInv, NEW r \in Request, RequestInv(req[r]), CacheItems(r)
  PROVE  Moves(r)
<1> DEFINE q == req[r]
           open == {o \in DOMAIN q.items : q.items[o].spent = NoHash}
           items == Restrict(q.items, open)
           script == [q EXCEPT !.pc = "script", !.todo = open, !.items = items]
           sums == Done(q, Sums(q.items))
<1>1. Set(r, IF q.onlyUnspent THEN script ELSE sums) BY Zenon DEF CacheItems
<1>2. RequestFields(q) BY DEF RequestInv
<1>3. RequestInv(script)
  <2>1. open \subseteq DOMAIN q.items /\ items = [o \in open |-> q.items[o]] BY DEF Restrict
  <2>2. script = [q EXCEPT !.pc = "script", !.todo = open, !.items = items] OBVIOUS
  <2> HIDE DEF open, items, script
  <2>3. /\ RequestFields(script) /\ script.pc = "script" /\ script.todo = open
        /\ script.items = items /\ script.looks = q.looks /\ script.chainHeight = q.chainHeight
    <3> HIDE DEF q
    <3> QED BY <1>2, <2>2 DEF RequestFields
  <2>4. q.looks = {} BY DEF CacheItems, Waiting, RequestInv
  <2> QED BY <2>1, <2>3, <2>4 DEF RequestInv
<1>4. ASSUME NEW new, new = sums PROVE RequestInv(new)
  <2>1. q.looks = {} BY DEF CacheItems, Waiting, RequestInv
  <2> QED BY <1>4, <2>1, DoneRequest
<1> HIDE DEF script, sums
<1>5. PICK new : new \in {script, sums} /\ Set(r, new) BY <1>1
<1> QED BY <1>3, <1>4, <1>5 DEF Set, Moves

LEMMA FillScriptMoves ==
  ASSUME NEW r \in Request, RequestInv(req[r]), FillScript(r)
  PROVE  Moves(r)
<1>1. PICK o \in req[r].todo : Answered(r, o, req[r].items[o]) BY DEF FillScript
<1>2. o \in DOMAIN req[r].items /\ req[r].pc # "spends" BY DEF FillScript, Waiting, RequestInv
<1>3. ItemInv(o, req[r].items[o]) BY <1>2 DEF RequestInv
<1> QED BY <1>1, <1>2, <1>3, AnsweredMoves

----------------------------------------------------------------------------
(* What the steps of Sync and of bitcoind do to what is counted. *)

LEMMA SameBlock ==
  ASSUME IInv, NEW s \in Syncer, Step(s)
  PROVE  pc[s] # "idle" /\ (pc'[s] # "idle" => job'[s].blk = job[s].blk)
<1> USE DEF IInv, TypeOK, Job, GoTo, Continue, StartAdd, Answer, ProcessEnds, Waits
<1>1. CASE CheckPrev(s) \/ ReadNext(s) \/ RetryReorg(s)
  BY <1>1 DEF CheckPrev, ReadNext, RetryReorg
<1>2. CASE ReadTip(s) BY <1>2 DEF ReadTip
<1>3. CASE ReorgHeight(s)
  <2>1. CASE Continue(s, "timer", job[s]) BY <1>3, <2>1 DEF ReorgHeight
  <2>2. CASE ProcessEnds BY <1>3, <2>2 DEF ReorgHeight
  <2>3. CASE Continue(s, "orphan", [job[s] EXCEPT !.height = GetHeight(Parent[job[s].blk]) + 1,
                                                  !.from = job[s].oldNext])
    BY <1>3, <2>3 DEF ReorgHeight
  <2>4. CASE Continue(s, "walk", [job[s] EXCEPT !.cur = Parent[job[s].blk],
                                                !.branch = << >>, !.from = NoHash])
    BY <1>3, <2>4 DEF ReorgHeight
  <2> QED
    <3> HIDE DEF Continue, ProcessEnds
    <3> QED BY <1>3, <2>1, <2>2, <2>3, <2>4, Zenon DEF ReorgHeight
<1>4. CASE WalkBack(s)
  <2>1. PICK branch, top, cur : job' = [job EXCEPT ![s] = [job[s] EXCEPT !.branch = branch,
                                                             !.top = top, !.cur = cur]]
    BY <1>4, Zenon DEF WalkBack
  <2> QED BY <1>4, <2>1 DEF WalkBack
<1>5. CASE WalkTest(s) BY <1>5 DEF WalkTest
<1>6. CASE Connect(s)
  <2>1. CASE ProcessEnds BY <1>6, <2>1 DEF Connect
  <2>2. CASE ~ProcessEnds
    <3>1. PICK branch, height : job' = [job EXCEPT ![s] = [job[s] EXCEPT !.branch = branch,
                                                             !.height = height]]
      BY <1>6, <2>2, Zenon DEF Connect
    <3> QED BY <1>6, <3>1 DEF Connect
  <2> QED BY <2>1, <2>2
<1>7. CASE ReadFork(s) BY <1>7 DEF ReadFork
<1>8. CASE Relink(s) BY <1>8 DEF Relink
<1>9. CASE Orphan(s) \/ Follow(s) BY <1>9 DEF Orphan, Follow
<1>10. CASE AddTxs(s) \/ AddBlock(s) BY <1>10 DEF AddTxs, AddBlock
<1>11. CASE MoveTip(s) \/ LinkPrev(s) BY <1>11 DEF MoveTip, LinkPrev
<1> QED
  BY <1>1, <1>2, <1>3, <1>4, <1>5, <1>6, <1>7, <1>8, <1>9, <1>10, <1>11 DEF Step

(* Only the blocks of the job's own branch come to the main chain, and an  *)
(* entry is made for a stored block.                                       *)
LEMMA StepConnects ==
  ASSUME IInv, RInv, EntriesStored, NEW s \in Syncer, Step(s)
  PROVE  Connected' \subseteq Connected \cup Chain[job[s].blk] /\ EntriesStored'
<1> USE KeyFacts
<1>1. job[s].blk \in Block /\ job[s].blk \in Chain[job[s].blk]
  BY ChainFacts DEF IInv, TypeOK, Job
<1>2. CASE AddBlock(s)
  <2>1. PICK b \in Block : b = job[s].blk BY <1>1
  <2>2. Add(b, job[s].height) BY <1>2, <2>1 DEF AddBlock
  <2>3. \A c \in Block : Has(c)' <=> Has(c) \/ c = b
    BY <2>2 DEF Add, Has, IInv, TypeOK, DbTypeOK
  <2>4. \A c \in Block \ {b} : main'[c] = main[c]
    BY <2>2 DEF Add, IInv, TypeOK, DbTypeOK
  <2>5. \A t \in Tx : btx'[t] = btx[t] \/ btx'[t].hash = b BY <2>2 DEF Add, PutTxs, At
  <2>6. EntriesStored' BY <2>3, <2>5 DEF EntriesStored, Stored
  <2> QED BY <1>1, <2>1, <2>3, <2>4, <2>6 DEF Connected
<1>3. CASE Connect(s)
  <2> DEFINE h == Head(job[s].branch)
  <2>1. prev' = prev BY <1>3 DEF Connect, SetBlockMain, ChangeBlockHeight, dbVars
  <2>2. CASE h \in Block /\ SetBlockMain(h, job[s].height)
    <3>1. job[s].branch \in Seq(Key) /\ job[s].branch # << >> /\ pc[s] = "connect"
      BY <1>3 DEF Connect, Waits, IInv, TypeOK, Job
    <3>2. h = job[s].branch[1] /\ 1 \in 1 .. Len(job[s].branch) BY <3>1
    <3>3. h \in Line(NewPrev(s)) BY <3>1, <3>2 DEF RInv, TurnInv, LocalsInv
    <3>4. h \in Chain[job[s].blk]
      BY <1>1, <3>3, ChainEquation DEF Line, NewPrev
    <3>5. BranchInv(s) BY <2>2, <3>1, <3>2 DEF IInv, JobInv, PhaseInv, Doomed
    <3>6. Has(h) BY <3>2, <3>5 DEF BranchInv, Stored
    <3> HIDE DEF h
    <3>7. \A c \in Block \ {h} : main'[c] = main[c]
      BY <2>2 DEF SetBlockMain, ChangeBlockHeight, IInv, TypeOK, DbTypeOK
    <3>8. \A t \in Tx : btx'[t] \in {btx[t], NoEntry} \/ btx'[t].hash = h
      BY <2>2 DEF SetBlockMain, ChangeBlockHeight, PutTxs, DelTxs, At
    <3>9. EntriesStored' BY <2>1, <2>2, <3>6, <3>8 DEF EntriesStored, Stored, Has
    <3> QED BY <2>1, <3>4, <3>7, <3>9 DEF Connected, Has
  <2>3. CASE UNCHANGED dbVars
    BY <2>3 DEF dbVars, Connected, EntriesStored, Stored, Has
  <2> QED BY <1>3, <2>2, <2>3 DEF Connect
<1>4. CASE Orphan(s)
  <2>1. /\ prev' = prev
        /\ \A t \in Tx : btx'[t] \in {btx[t], NoEntry}
        /\ \A c \in Block : main'[c] \in {main[c], -1}
    BY <1>4 DEF Orphan, SetBlockNotMain, ChangeBlockHeight, PutTxs, DelTxs, IInv, TypeOK, DbTypeOK
  <2> QED BY <2>1 DEF Connected, EntriesStored, Stored, Has
<1>5. CASE ~(AddBlock(s) \/ Connect(s) \/ Orphan(s))
  <2>1. prev' = prev /\ btx' = btx /\ main' = main
    BY <1>5 DEF Step, CheckPrev, ReadTip, CacheTip, ReadNext, ReorgHeight, RetryReorg, WalkBack,
       WalkTest, ReadFork, Relink, SetNext, Follow, AddTxs, MoveTip, SetTip, LinkPrev, dbVars
  <2> QED BY <2>1 DEF Connected, EntriesStored, Stored, Has
<1> QED BY <1>2, <1>3, <1>4, <1>5

(* The tip moves to a block when that block's chain is the main chain. *)
LEMMA StepMovesTip ==
  ASSUME IInv, RInv, NEW s \in Syncer, Step(s), bti' # bti
  PROVE  bti'.height = Depth[job[s].blk] /\ Connected = Chain[job[s].blk] /\ Connected' = Connected
<1>1. CASE MoveTip(s)
  <2>1. pc[s] = "setTip" /\ SetTip(job[s].blk, job[s].height) BY <1>1 DEF MoveTip, Waits
  <2>2. job[s].height = Depth[job[s].blk] BY <2>1 DEF IInv, JobInv, PhaseInv, Placed
  <2>3. Connected = Chain[job[s].blk] BY <2>1 DEF RInv, TurnInv, ConnectedInv
  <2>4. UNCHANGED <<prev, main>> /\ bti' = At(job[s].blk, job[s].height) BY <2>1 DEF SetTip
  <2> QED BY <2>2, <2>3, <2>4 DEF Connected, Has, At
<1>2. CASE ~MoveTip(s)
  BY <1>2 DEF Step, CheckPrev, ReadTip, CacheTip, ReadNext, ReorgHeight, RetryReorg, WalkBack,
     WalkTest, Connect, SetBlockMain, ReadFork, Relink, SetNext, Orphan, SetBlockNotMain,
     ChangeBlockHeight, Follow, AddTxs, AddBlock, Add, LinkPrev, dbVars
<1> QED BY <1>1, <1>2

(* bitcoind gives up few blocks. *)
LEMMA AdvanceTruth ==
  ASSUME LedgerInv, Advance
  PROVE  KeepsTruth /\ \A s \in Syncer : WasActive(s) => WasActive(s)'
<1>1. PICK n \in Block : /\ Depth[n] > Depth[node] /\ node' = n
                         /\ \A b \in Active \ Chain[n] : Depth[node] - Depth[b] < MaxReorg
  BY DEF Advance, NodeMoves
<1>2. UNCHANGED <<prev, main, pc, job>> BY DEF Advance, vars, dbVars, syncVars
<1>3. Active' = Chain[n] /\ Active \subseteq Block BY <1>1, ChainFacts DEF Active, LedgerInv
<1>4. Depth[node] \in Nat /\ Depth[n] \in Nat /\ MaxReorg \in Nat
  BY DepthsAreNat, ReorgAssumption DEF LedgerInv
<1>5. ASSUME NEW t, Settled(t) PROVE Settled(t)'
  <2>1. PICK b \in Active : t \in TxsOf[b] /\ Depth[node] - Depth[b] >= MaxReorg
    BY <1>5 DEF Settled
  <2>2. Depth[b] \in Nat BY <1>3, DepthsAreNat
  <2>3. b \in Chain[n] BY <1>1, <1>4, <2>1, <2>2
  <2>4. Depth[n] - Depth[b] >= MaxReorg BY <1>1, <1>4, <2>1, <2>2
  <2> QED BY <1>1, <1>3, <2>1, <2>3, <2>4 DEF Settled
<1>6. ASSUME NEW h \in Int, h <= Depth[node], NEW b \in Block \ Chain[n],
             b \notin Active => h - Depth[b] < MaxReorg
      PROVE  h - Depth[b] < MaxReorg
  <2>1. CASE b \in Active
    <3>1. Depth[node] - Depth[b] < MaxReorg BY <1>1, <2>1
    <3>2. Depth[b] \in Nat BY DepthsAreNat
    <3> QED BY <1>4, <1>6, <3>1, <3>2
  <2> QED BY <1>6, <2>1
<1>7. ASSUME NEW h, CountsFrom(h) PROVE CountsFrom(h)'
  <2>1. h \in Int /\ h <= Depth[n] BY <1>1, <1>4, <1>7 DEF CountsFrom
  <2>2. ASSUME NEW s \in Syncer, NEW b \in OnMain(s) \ Chain[n] PROVE h - Depth[b] < MaxReorg
    <3>1. b \in Block BY OnMainBlocks
    <3>2. b \notin Active => h - Depth[b] < MaxReorg BY <1>7, <2>2 DEF CountsFrom
    <3> QED BY <1>6, <1>7, <3>1, <3>2 DEF CountsFrom
  <2>3. \A s \in Syncer : OnMain(s)' = OnMain(s) BY <1>2 DEF OnMain, Connected, Has
  <2> QED BY <1>1, <1>3, <2>1, <2>2, <2>3 DEF CountsFrom
<1>8. ASSUME NEW s \in Syncer, WasActive(s) PROVE WasActive(s)'
  <2> DEFINE c == job[s].blk
  <2>1. c \in Block /\ Chain[c] \subseteq Block /\ Depth[c] \in Nat
    BY ChainFacts, DepthsAreNat DEF LedgerInv, IInv, TypeOK, Job
  <2>2. CASE pc[s] = "idle" BY <1>2, <2>2 DEF WasActive
  <2>3. CASE pc[s] # "idle"
    <3>1. Depth[c] <= Depth[node] /\ \A b \in Chain[c] \ Active : Depth[c] - Depth[b] < MaxReorg
      BY <1>8, <2>3 DEF WasActive
    <3>2. \A b \in Chain[c] \ Chain[n] : Depth[c] - Depth[b] < MaxReorg
      BY <1>6, <2>1, <3>1
    <3>3. Depth[c] <= Depth[n] BY <1>1, <1>4, <2>1, <3>1
    <3> QED BY <1>1, <1>2, <1>3, <3>2, <3>3 DEF WasActive
  <2> QED BY <2>2, <2>3
<1> QED BY <1>5, <1>7, <1>8 DEF KeepsTruth

(* The next block of bitcoind's chain is on it. *)
LEMMA FeedTruth ==
  ASSUME LedgerInv, RInv, CacheInv, NEW s \in Syncer, Syncer = {s}, Feed(s)
  PROVE  /\ KeepsTruth /\ WasActive(s)'
         /\ UNCHANGED dbVars
<1>1. PICK b \in Active : pc'[s] # "idle" /\ job'[s].blk = b /\ UNCHANGED dbVars
  BY FeedTurn
<1>2. b \in Block /\ Chain[b] \subseteq Active /\ Depth[b] <= Depth[node]
  BY <1>1, ChainFacts, ChainOrder, DepthsAreNat DEF Active, LedgerInv
<1>3. UNCHANGED <<prev, main, node>> BY <1>1 DEF dbVars, Feed
<1>4. Active' = Active /\ Connected' = Connected BY <1>3 DEF Active, Connected, Has
<1>5. \A t : Settled(t) => Settled(t)' BY <1>3, <1>4 DEF Settled
<1>6. OnMain(s)' = Connected \cup Chain[b] BY <1>1, <1>4 DEF OnMain
<1>7. Connected \subseteq OnMain(s) BY DEF OnMain
<1>8. ASSUME NEW h, CountsFrom(h) PROVE CountsFrom(h)'
  BY <1>2, <1>3, <1>4, <1>6, <1>7, <1>8 DEF CountsFrom
<1>9. WasActive(s)' BY <1>1, <1>2, <1>3, <1>4 DEF WasActive
<1> QED BY <1>1, <1>5, <1>8, <1>9 DEF KeepsTruth

LEMMA StoresTruth ==
  ASSUME LedgerInv, RInv, CacheInv, NEW s \in Syncer, Syncer = {s}, Stores(s)
  PROVE  /\ KeepsTruth /\ WasActive(s)' /\ EntriesStored'
         /\ CountsFrom(bti.height)'
<1>1. Step(s) /\ node' = node /\ IInv /\ EntriesStored
  BY DEF Stores, LedgerInv, CacheInv
<1> DEFINE c == job[s].blk
<1>2. pc[s] # "idle" /\ (pc'[s] # "idle" => job'[s].blk = c) BY <1>1, SameBlock
<1>3. Connected' \subseteq Connected \cup Chain[c] /\ EntriesStored'
  BY <1>1, StepConnects
<1>4. OnMain(s) = Connected \cup Chain[c] /\ OnMain(s)' \subseteq OnMain(s)
  BY <1>2, <1>3 DEF OnMain
<1>5. Active' = Active BY <1>1 DEF Active
<1>6. \A t : Settled(t) => Settled(t)' BY <1>1, <1>5 DEF Settled
<1>7. ASSUME NEW h, CountsFrom(h) PROVE CountsFrom(h)'
  BY <1>1, <1>4, <1>5, <1>7 DEF CountsFrom
<1>8. WasActive(s) BY DEF CacheInv
<1>9. WasActive(s)' BY <1>1, <1>2, <1>5, <1>8 DEF WasActive
<1>10. CountsFrom(bti.height)'
  <2>1. CASE bti' = bti
    <3>1. CountsFrom(bti.height) BY DEF CacheInv
    <3>2. \A h : h = bti.height => CountsFrom(h)' BY <1>7, <3>1
    <3> QED BY <2>1, <3>2 DEF CountsFrom
  <2>2. CASE bti' # bti
    <3>1. bti'.height = Depth[c] /\ Connected' = Chain[c] BY <1>1, <2>2, StepMovesTip
    <3>2. OnMain(s)' = Chain[c] BY <1>2, <3>1 DEF OnMain
    <3>3. Depth[c] \in Int /\ Depth[c] <= Depth[node]
          /\ \A b \in Chain[c] \ Active : Depth[c] - Depth[b] < MaxReorg
      BY <1>2, <1>8, DepthsAreNat DEF WasActive, LedgerInv, IInv, TypeOK, Job
    <3> QED BY <1>1, <1>5, <3>1, <3>2, <3>3 DEF CountsFrom
  <2> QED BY <2>1, <2>2
<1> QED BY <1>3, <1>6, <1>7, <1>9, <1>10 DEF KeepsTruth

(* What cacheConfirmations writes is settled. *)
LEMMA CachedSettled ==
  ASSUME NEW o, NEW item, ItemInv(o, item), NEW c, c = ToCache(item), c # Absent
  PROVE  Settled(TxOf[o]) /\ (c.spent # NoHash => Settled(c.spent))
<1>1. item.confirmations >= Safe BY DEF ToCache
<1>2. CASE item.spentConfirmations >= Safe
  <2>1. c.spent = item.spent BY <1>1, <1>2 DEF ToCache
  <2> QED BY <1>1, <1>2, <2>1 DEF ItemInv
<1>3. CASE ~(item.spentConfirmations >= Safe)
  <2>1. c = [Uncached EXCEPT !.confirmed = TRUE] BY <1>1, <1>3 DEF ToCache
  <2>2. c.spent = NoHash BY <2>1 DEF Uncached
  <2> QED BY <1>1, <2>2 DEF ItemInv
<1> QED BY <1>2, <1>3

LEMMA CachedRows ==
  ASSUME KeepsTruth, RowsInv, NEW q, RequestInv(q), CacheConfirmations(q.items)
  PROVE  RowsInv'
<1>1. ASSUME NEW o \in Out, NEW n \in Stamp, NEW c, c = txa'[o][n], c # Absent
      PROVE  /\ c.confirmed => Settled(TxOf[o])'
             /\ c.spent # NoHash => Settled(c.spent)'
  <2>1. CASE o \in DOMAIN q.items /\ c = ToCache(q.items[o])
    <3>1. ItemInv(o, q.items[o]) BY <2>1 DEF RequestInv
    <3> QED BY <1>1, <2>1, <3>1, CachedSettled DEF KeepsTruth
  <2>2. CASE c = txa[o][n] BY <1>1, <2>2 DEF KeepsTruth, RowsInv
  <2> QED BY <1>1, <2>1, <2>2 DEF CacheConfirmations
<1> QED BY <1>1 DEF RowsInv

(* What requests do to their records and to the rows. *)
LEMMA ServeTruth ==
  ASSUME OneFollower, MaxReorg < Safe, LedgerInv, RInv, CacheInv, KeepsTruth,
         NEW r \in Request, RequestStep(r)
  PROVE  Moves(r) /\ RowsInv'
<1>1. RequestInv(req[r]) /\ CountsFrom(bti.height) /\ EntriesStored /\ RowsInv BY DEF CacheInv
<1>2. PICK s \in Syncer : TRUE BY DEF OneFollower
<1>3. UNCHANGED txVars => RowsInv' BY <1>1, RowsKeep DEF txVars
<1>4. CASE ReadSpends(r)
  <2>1. UNCHANGED txVars BY <1>4 DEF ReadSpends
  <2> QED BY <1>1, <1>3, <1>4, <2>1, ReadSpendsMoves
<1>5. CASE AskRpc(r)
  <2>1. UNCHANGED txVars BY <1>5 DEF AskRpc
  <2> QED BY <1>1, <1>3, <1>5, <2>1, AskRpcMoves
<1>6. CASE AskRpcSpent(r)
  <2>1. UNCHANGED txVars BY <1>6 DEF AskRpcSpent
  <2> QED BY <1>1, <1>3, <1>6, <2>1, AskRpcSpentMoves
<1>7. CASE ReadHeight(r)
  <2>1. UNCHANGED txVars BY <1>7 DEF ReadHeight
  <2> QED BY <1>1, <1>3, <1>7, <2>1, ReadHeightMoves
<1>8. CASE FillOwn(r)
  <2>1. UNCHANGED txVars BY <1>8 DEF FillOwn
  <2> QED BY <1>1, <1>3, <1>8, <2>1, FillOwnMoves
<1>9. CASE FillSpent(r)
  <2>1. UNCHANGED txVars BY <1>9 DEF FillSpent
  <2> QED BY <1>1, <1>3, <1>9, <2>1, FillSpentMoves
<1>10. CASE CacheItems(r)
  <2>1. CacheConfirmations(req[r].items) BY <1>10 DEF CacheItems
  <2> QED BY <1>1, <1>10, <2>1, CacheItemsMoves, CachedRows
<1>11. CASE FillScript(r)
  <2>1. UNCHANGED txa BY <1>11 DEF FillScript, txVars, CacheScript
  <2>2. RowsInv' BY <1>1, <2>1, RowsKeep
  <2> QED BY <1>1, <1>11, <2>2, FillScriptMoves
<1> QED
  BY <1>4, <1>5, <1>6, <1>7, <1>8, <1>9, <1>10, <1>11 DEF RequestStep

LEMMA IdleTruth == ASSUME LedgerInv PROVE RequestInv(Idle)
<1>1. RequestFields(Idle) BY DEF RequestFields, Idle
<1>2. Idle.chainHeight = -1 /\ Idle.items = << >> /\ Idle.todo = {} /\ Idle.looks = {}
  BY DEF Idle
<1> QED BY <1>1, <1>2, NoHeight DEF RequestInv

(* One request moves on, and what the others count stays true. *)
LEMMA RequestsTruth ==
  ASSUME LedgerInv, CacheInv, KeepsTruth, NEW r \in Request,
         \/ UNCHANGED req
         \/ Moves(r)
         \/ req' = [req EXCEPT ![r] = Idle]
  PROVE  (DOMAIN req = Request /\ \A p \in Request : RequestInv(req[p]))'
<1>1. DOMAIN req = Request /\ \A p \in Request : RequestInv(req[p]) BY DEF CacheInv
<1>2. ASSUME NEW q, req' = [req EXCEPT ![r] = q], RequestInv(q)
      PROVE  (DOMAIN req = Request /\ \A p \in Request : RequestInv(req[p]))'
  <2>1. ASSUME NEW p \in Request, NEW x, x = req'[p] PROVE RequestInv(x)'
    <3>1. RequestInv(x) BY <1>1, <1>2, <2>1
    <3> QED BY <3>1, RequestKeeps
  <2> QED BY <1>1, <1>2, <2>1
<1>3. CASE UNCHANGED req
  <2>1. ASSUME NEW p \in Request, NEW x, x = req[p] PROVE RequestInv(x)'
    BY <1>1, <2>1, RequestKeeps
  <2> QED BY <1>1, <1>3, <2>1
<1>4. CASE Moves(r)
  <2>1. PICK q : req' = [req EXCEPT ![r] = Then(q)] /\ RequestInv(q) BY <1>4 DEF Moves
  <2>2. RequestInv(Then(q)) BY <2>1, ThenRequest
  <2> QED BY <1>2, <2>1, <2>2
<1>5. CASE req' = [req EXCEPT ![r] = Idle] BY <1>2, <1>5, IdleTruth
<1> QED BY <1>3, <1>4, <1>5

(* The blocks, the jobs and bitcoind stay as they are, but for cachedTip. *)
LEMMA AsideTruth ==
  ASSUME CacheInv, UNCHANGED <<syncVars, node>>, CacheTip \/ UNCHANGED dbVars
  PROVE  /\ KeepsTruth /\ CountsFrom(bti.height)'
         /\ \A s \in Syncer : WasActive(s)'
         /\ EntriesStored'
<1>1. UNCHANGED <<prev, main, btx, bti, pc, job, node>> BY DEF dbVars, syncVars, CacheTip
<1>2. KeepsTruth BY <1>1, SameTruth
<1>3. \A h : h = bti.height => CountsFrom(h)' BY <1>2 DEF CacheInv, KeepsTruth
<1>4. CountsFrom(bti.height)' BY <1>1, <1>3 DEF CountsFrom
<1>5. \A s \in Syncer : WasActive(s)' BY <1>1 DEF CacheInv, WasActive, Active
<1>6. EntriesStored' BY <1>1 DEF CacheInv, EntriesStored, Stored, Has
<1> QED BY <1>2, <1>4, <1>5, <1>6

LEMMA AddScriptRows ==
  ASSUME KeepsTruth, RowsInv, NEW T, NEW time, AddScript(T, time)
  PROVE  RowsInv'
BY RowsKeep DEF AddScript

LEMMA CacheStep ==
  ASSUME OneFollower, MaxReorg < Safe, LedgerInv, RInv, CacheInv, [LedgerNext]_ledgerVars
  PROVE  CacheInv'
<1> PICK s \in Syncer : Syncer = {s} BY DEF OneFollower
<1> RowsInv /\ \A u \in Syncer : WasActive(u) BY DEF CacheInv
<1>1. CASE Advance
  <2>1. UNCHANGED <<btx, prev, bti, txa, req>>
    BY <1>1 DEF Advance, vars, dbVars, txVars, reqVars
  <2>2. KeepsTruth /\ \A u \in Syncer : WasActive(u)' BY <1>1, AdvanceTruth
  <2>3. \A h : h = bti.height => CountsFrom(h)' BY <2>2 DEF CacheInv, KeepsTruth
  <2>4. CountsFrom(bti.height)' BY <2>1, <2>3 DEF CountsFrom
  <2>5. EntriesStored' BY <2>1 DEF CacheInv, EntriesStored, Stored, Has
  <2>6. RowsInv' BY <2>1, <2>2, RowsKeep
  <2>7. (DOMAIN req = Request /\ \A p \in Request : RequestInv(req[p]))'
    <3>1. ASSUME NEW p \in Request, NEW x, x = req[p] PROVE RequestInv(x)'
      BY <2>2, <3>1, RequestKeeps DEF CacheInv
    <3> QED BY <2>1, <3>1 DEF CacheInv
  <2> QED BY <2>2, <2>4, <2>5, <2>6, <2>7 DEF CacheInv
<1>2. CASE PeerSends
  <2>1. UNCHANGED <<syncVars, node, dbVars, req>> BY <1>2 DEF PeerSends, vars, reqVars
  <2>2. /\ KeepsTruth /\ CountsFrom(bti.height)'
        /\ \A u \in Syncer : WasActive(u)'
        /\ EntriesStored'
    BY <2>1, AsideTruth
  <2>3. \E T, time : AddScript(T, time) BY <1>2, Zenon DEF PeerSends, AddUnconfirmed
  <2>4. RowsInv' BY <2>2, <2>3, AddScriptRows
  <2>5. (DOMAIN req = Request /\ \A p \in Request : RequestInv(req[p]))'
    <3>1. ASSUME NEW p \in Request, NEW x, x = req[p] PROVE RequestInv(x)'
      BY <2>2, <3>1, RequestKeeps DEF CacheInv
    <3> QED BY <2>1, <3>1 DEF CacheInv
  <2> QED BY <2>2, <2>4, <2>5 DEF CacheInv
<1>3. CASE Feed(s)
  <2>1. KeepsTruth /\ WasActive(s)' /\ UNCHANGED dbVars BY <1>3, FeedTruth
  <2>2. UNCHANGED <<btx, prev, bti, txa, req>> BY <1>3, <2>1 DEF Feed, dbVars, txVars, reqVars
  <2>3. \A h : h = bti.height => CountsFrom(h)' BY <2>1 DEF CacheInv, KeepsTruth
  <2>4. CountsFrom(bti.height)' BY <2>2, <2>3 DEF CountsFrom
  <2>5. EntriesStored' BY <2>2 DEF CacheInv, EntriesStored, Stored, Has
  <2>6. RowsInv' BY <2>1, <2>2, RowsKeep
  <2>7. (DOMAIN req = Request /\ \A p \in Request : RequestInv(req[p]))'
    <3>1. ASSUME NEW p \in Request, NEW x, x = req[p] PROVE RequestInv(x)'
      BY <2>1, <3>1, RequestKeeps DEF CacheInv
    <3> QED BY <2>2, <3>1 DEF CacheInv
  <2> QED BY <2>1, <2>4, <2>5, <2>6, <2>7 DEF CacheInv
<1>4. CASE Stores(s)
  <2>1. /\ KeepsTruth /\ WasActive(s)' /\ EntriesStored'
        /\ CountsFrom(bti.height)'
    BY <1>4, StoresTruth
  <2>2. RowsInv'
    <3>1. CASE UNCHANGED txVars BY <2>1, <3>1, RowsKeep DEF txVars
    <3>2. CASE AddMany(TxsOf[job[s].blk]) BY <2>1, <3>2, AddScriptRows DEF AddMany
    <3> QED BY <1>4, <3>1, <3>2 DEF Stores
  <2>3. (DOMAIN req = Request /\ \A p \in Request : RequestInv(req[p]))'
    <3>1. ASSUME NEW p \in Request, NEW x, x = req[p] PROVE RequestInv(x)'
      BY <2>1, <3>1, RequestKeeps DEF CacheInv
    <3>2. req' = req BY <1>4 DEF Stores, reqVars
    <3> QED BY <3>1, <3>2 DEF CacheInv
  <2> QED BY <2>1, <2>2, <2>3 DEF CacheInv
<1>5. ASSUME NEW r \in Request, Asks(r) \/ Serve(r) \/ Views(r) PROVE CacheInv'
  <2>1. UNCHANGED <<syncVars, node>> /\ (CacheTip \/ UNCHANGED dbVars) BY <1>5, RequestReads
  <2>2. /\ KeepsTruth /\ CountsFrom(bti.height)'
        /\ \A u \in Syncer : WasActive(u)'
        /\ EntriesStored'
    BY <2>1, AsideTruth
  <2>3. (\/ UNCHANGED req \/ Moves(r) \/ req' = [req EXCEPT ![r] = Idle]) /\ RowsInv'
    <3>1. CASE Asks(r)
      <4>1. Ask(r) BY <3>1 DEF Asks
      <4>2. UNCHANGED txa BY <4>1 DEF Ask, txVars
      <4> QED BY <2>2, <4>1, <4>2, AskMoves, RowsKeep
    <3>2. CASE Serve(r) BY <2>2, <3>2, ServeTruth DEF Serve
    <3>3. CASE Views(r)
      <4>1. AskTx(r) \/ ViewStep(r) BY <3>3 DEF Views
      <4>2. AskTx(r) => req' = [req EXCEPT ![r] = Idle] /\ UNCHANGED txa BY DEF AskTx, txVars
      <4>3. ReadOutpoint(r) => UNCHANGED <<req, txa>> BY DEF ReadOutpoint, txVars, reqVars
      <4>4. CheckSpent(r) => UNCHANGED <<req, txa>> BY DEF CheckSpent, txVars, reqVars
      <4>5. FillOutputs(r) => UNCHANGED <<req, txa>> BY DEF FillOutputs, txVars, reqVars
      <4>6. ReadVinTip(r) => UNCHANGED <<req, txa>> BY DEF ReadVinTip, txVars, reqVars
      <4>7. FillVin(r) => UNCHANGED <<req, txa>> BY DEF FillVin, txVars, reqVars
      <4>8. FillVinByRpc(r) => UNCHANGED <<req, txa>> BY DEF FillVinByRpc, txVars, reqVars
      <4>9. UNCHANGED txa BY <4>1, <4>2, <4>3, <4>4, <4>5, <4>6, <4>7, <4>8 DEF ViewStep
      <4> QED
        BY <2>2, <4>1, <4>2, <4>3, <4>4, <4>5, <4>6, <4>7, <4>8, <4>9, RowsKeep DEF ViewStep
    <3> QED BY <1>5, <3>1, <3>2, <3>3
  <2>4. (DOMAIN req = Request /\ \A p \in Request : RequestInv(req[p]))'
    BY <2>2, <2>3, RequestsTruth
  <2> QED BY <2>2, <2>3, <2>4 DEF CacheInv
<1>6. CASE UNCHANGED ledgerVars
  <2>1. UNCHANGED <<syncVars, node, dbVars, txa, req>>
    BY <1>6 DEF ledgerVars, vars, txVars, reqVars
  <2>2. /\ KeepsTruth /\ CountsFrom(bti.height)'
        /\ \A u \in Syncer : WasActive(u)'
        /\ EntriesStored'
    BY <2>1, AsideTruth
  <2>3. RowsInv' BY <2>1, <2>2, RowsKeep
  <2>4. (DOMAIN req = Request /\ \A p \in Request : RequestInv(req[p]))'
    <3>1. ASSUME NEW p \in Request, NEW x, x = req[p] PROVE RequestInv(x)'
      BY <2>2, <3>1, RequestKeeps DEF CacheInv
    <3> QED BY <2>1, <3>1 DEF CacheInv
  <2> QED BY <2>2, <2>3, <2>4 DEF CacheInv
<1> QED BY <1>1, <1>2, <1>3, <1>4, <1>5, <1>6 DEF LedgerNext

LEMMA CacheInit ==
  ASSUME LedgerInit
  PROVE  CacheInv
<1>1. LedgerInv BY LedgerInit1
<1>2. bti = NoEntry /\ (\A t \in Tx : btx[t] = NoEntry) /\ \A s \in Syncer : pc[s] = "idle"
  BY DEF LedgerInit, Init, DbInit, SyncInit
<1>3. CountsFrom(bti.height) BY <1>1, <1>2, NoHeight DEF NoEntry
<1>4. (\A s \in Syncer : WasActive(s)) /\ EntriesStored BY <1>2 DEF WasActive, EntriesStored
<1>5. DOMAIN req = Request /\ \A r \in Request : RequestInv(req[r])
  BY <1>1, IdleTruth DEF LedgerInit, ReqInit
<1>6. RowsInv BY DEF LedgerInit, TxInit, RowsInv
<1> QED BY <1>3, <1>4, <1>5, <1>6 DEF CacheInv

(* Sync reorganises as proved in SyncProofs while requests read in between. *)
THEOREM LedgerReorg ==
  ASSUME OneFollower
  PROVE  LedgerSpec => ([]StraightBranches => [](LedgerInv /\ RInv))
<1>1. LedgerInit => LedgerInv /\ RInv BY LedgerInit1, ReorgInit DEF LedgerInit
<1>2. LedgerInv /\ [LedgerNext]_ledgerVars => LedgerInv' BY LedgerStep
<1>3. LedgerInv /\ RInv /\ StraightBranches /\ [LedgerNext]_ledgerVars => RInv'
  BY LedgerTurn
<1> QED BY <1>1, <1>2, <1>3, PTL DEF LedgerSpec

(* No height that a request counts from, no job of storeTipBlock and no    *)
(* cached row names a block that bitcoind can still take back.             *)
THEOREM CacheInvariant ==
  ASSUME OneFollower, MaxReorg < Safe
  PROVE  LedgerSpec => ([]StraightBranches => []CacheInv)
<1>1. LedgerInit => CacheInv BY CacheInit
<1>2. LedgerInv /\ RInv /\ CacheInv /\ [LedgerNext]_ledgerVars => CacheInv' BY CacheStep
<1> QED BY <1>1, <1>2, LedgerReorg, PTL DEF LedgerSpec

(* cacheConfirmations never keeps a confirmation or a spend that bitcoind  *)
(* takes back later, when a reorganisation takes fewer than Safe blocks.   *)
THEOREM CacheIsTruthful ==
  ASSUME OneFollower, MaxReorg < Safe
  PROVE  LedgerSpec => ([]StraightBranches => []CacheTruthful)
<1>1. LedgerInv /\ CacheInv => CacheTruthful
  BY SettledConfirmed DEF LedgerInv, CacheInv, RowsInv, CacheTruthful, Rows
<1> QED BY <1>1, LedgerReorg, CacheInvariant, PTL

----------------------------------------------------------------------------
(* What an answer adds up.  Value and Sums are folds, whose equations hold *)
(* because there are finitely many outputs.                                *)

(* The folds that the definitions of Value and Sums stand for. *)
Pick(s) == CHOOSE x \in s : TRUE
Adding(f, D) == f = [s \in D |-> IF s = {} THEN 0 ELSE Sat[Pick(s)] + f[s \ {Pick(s)}]]

LEMMA ValueFold ==
  ASSUME NEW S \in SUBSET Out
  PROVE  \E f : Adding(f, SUBSET S) /\ Value(S) = f[S]
<1> DEFINE f == CHOOSE f : Adding(f, SUBSET S)
           pick == [s \in SUBSET S |-> Pick(s)]
           G == [p \in S \X Nat |-> Sat[p[1]] + p[2]]
<1>1. Value(S) = f[S] BY DEF Value, MapThenSumSet, MapThenFoldSet, Adding, Pick
<1>2. IsFiniteSet(S) BY LedgerAssumption, FS_Subset
<1>3. \A s \in (SUBSET S) \ {{}} : pick[s] \in s /\ pick[s] = Pick(s)
  <2>1. \A s : s # {} => Pick(s) \in s BY DEF Pick
  <2>2. \A s \in SUBSET S : pick[s] = Pick(s) OBVIOUS
  <2> QED BY <2>1, <2>2
<1>4. \A x \in S : Sat[x] \in Nat BY LedgerAssumption
<1>5. G \in [S \X Nat -> Nat] BY <1>4
<1>10. \A x \in S, v \in Nat : G[<<x, v>>] = Sat[x] + v OBVIOUS
<1> HIDE DEF G, pick
<1>6. PICK h \in [SUBSET S -> Nat] : FoldsBy(h, SUBSET S, 0, pick, G)
  BY <1>2, <1>3, <1>5, FoldExists
<1>7. \A s \in (SUBSET S) \ {{}} : G[<<pick[s], h[s \ {pick[s]}]>>] = Sat[Pick(s)] + h[s \ {Pick(s)}]
  <2> SUFFICES ASSUME NEW s \in SUBSET S, s # {}
               PROVE  G[<<pick[s], h[s \ {pick[s]}]>>] = Sat[Pick(s)] + h[s \ {Pick(s)}]
    OBVIOUS
  <2>1. pick[s] = Pick(s) /\ pick[s] \in S BY <1>3
  <2>2. h[s \ {pick[s]}] \in Nat OBVIOUS
  <2> QED BY <1>10, <2>1, <2>2
<1>8. Adding(h, SUBSET S) BY <1>6, <1>7 DEF FoldsBy, Adding
<1>9. Adding(f, SUBSET S) BY <1>8
<1> QED BY <1>1, <1>9

LEMMA ValueIsOne ==
  ASSUME NEW S \in SUBSET Out, NEW f, Adding(f, SUBSET S)
  PROVE  \A s \in SUBSET S : f[s] = Value(s)
<1> DEFINE Good == {s \in SUBSET S : f[s] = Value(s)}
<1>1. IsFiniteSet(S) BY LedgerAssumption, FS_Subset
<1>2. ASSUME NEW s \in SUBSET S, \A x \in s : s \ {x} \in Good PROVE s \in Good
  <2>1. PICK g : Adding(g, SUBSET s) /\ Value(s) = g[s] BY ValueFold
  <2> DEFINE Same == {t \in SUBSET s : g[t] = f[t]}
  <2>2. ASSUME NEW t \in SUBSET s, \A x \in t : t \ {x} \in Same PROVE t \in Same
    <3>1. t # {} => Pick(t) \in t BY DEF Pick
    <3>2. g[t] = IF t = {} THEN 0 ELSE Sat[Pick(t)] + g[t \ {Pick(t)}] BY <2>1 DEF Adding
    <3>3. f[t] = IF t = {} THEN 0 ELSE Sat[Pick(t)] + f[t \ {Pick(t)}] BY DEF Adding
    <3>4. t # {} => g[t \ {Pick(t)}] = f[t \ {Pick(t)}] BY <2>2, <3>1
    <3> QED BY <3>2, <3>3, <3>4
  <2>3. IsFiniteSet(s) BY <1>1, FS_Subset
  <2> HIDE DEF Same
  <2>4. s \in Same BY <2>2, <2>3, SmallerSets
  <2> QED BY <2>1, <2>4 DEF Same
<1> HIDE DEF Good
<1>3. \A s \in SUBSET S : s \in Good BY <1>1, <1>2, SmallerSets
<1> QED BY <1>3 DEF Good

(* The value of one output more. *)
LEMMA ValueStep ==
  /\ Value({}) = 0
  /\ \A S \in SUBSET Out : S # {} =>
       Pick(S) \in S /\ Value(S) = Sat[Pick(S)] + Value(S \ {Pick(S)})
<1>1. ASSUME NEW S \in SUBSET Out
      PROVE  Value(S) = IF S = {} THEN 0 ELSE Sat[Pick(S)] + Value(S \ {Pick(S)})
  <2>1. PICK f : Adding(f, SUBSET S) /\ Value(S) = f[S] BY ValueFold
  <2>2. \A s \in SUBSET S : f[s] = Value(s) BY <2>1, ValueIsOne
  <2>3. f[S] = IF S = {} THEN 0 ELSE Sat[Pick(S)] + f[S \ {Pick(S)}] BY <2>1 DEF Adding
  <2>4. S \ {Pick(S)} \in SUBSET S OBVIOUS
  <2> QED BY <2>1, <2>2, <2>3, <2>4
<1>2. \A S : S # {} => Pick(S) \in S BY DEF Pick
<1> QED BY <1>1, <1>2

LEMMA ValueOfOneMore ==
  ASSUME NEW S \in SUBSET Out
  PROVE  Value(S) \in Nat /\ \A x \in Out \ S : Value(S \cup {x}) = Value(S) + Sat[x]
<1> DEFINE Good == {s \in SUBSET Out : Value(s) \in Nat
                      /\ \A x \in Out \ s : Value(s \cup {x}) = Value(s) + Sat[x]}
<1>1. IsFiniteSet(Out) /\ \A x \in Out : Sat[x] \in Nat BY LedgerAssumption
<1>2. ASSUME NEW s \in SUBSET Out, \A x \in s : s \ {x} \in Good PROVE s \in Good
  <2>1. Value(s) \in Nat
    <3>1. CASE s = {} BY <3>1, ValueStep
    <3>2. CASE s # {} 
      <4>1. Pick(s) \in s /\ Value(s) = Sat[Pick(s)] + Value(s \ {Pick(s)}) BY <3>2, ValueStep
      <4> QED BY <1>1, <1>2, <4>1
    <3> QED BY <3>1, <3>2
  <2>2. ASSUME NEW x \in Out \ s PROVE Value(s \cup {x}) = Value(s) + Sat[x]
    <3> DEFINE p == Pick(s \cup {x})
    <3>1. p \in s \cup {x} /\ Value(s \cup {x}) = Sat[p] + Value((s \cup {x}) \ {p})
      BY ValueStep
    <3> HIDE DEF p
    <3>2. CASE p = x
      <4> DEFINE rest == (s \cup {x}) \ {p}
      <4>1. rest = s BY <2>2, <3>2
      <4>2. Value(s \cup {x}) = Sat[p] + Value(rest) BY <3>1
      <4> HIDE DEF rest
      <4>3. Sat[x] \in Nat BY <1>1
      <4> QED BY <2>1, <3>2, <4>1, <4>2, <4>3
    <3>3. CASE p # x
      <4> DEFINE rest == s \ {p}
      <4>1. p \in s /\ p \in Out BY <3>1, <3>3
      <4>2. (s \cup {x}) \ {p} = rest \cup {x} /\ rest \cup {p} = s BY <3>3, <4>1
      <4>3. rest \in Good BY <1>2, <4>1
      <4>4. x \in Out \ rest /\ p \in Out \ rest BY <2>2, <4>1
      <4> HIDE DEF rest
      <4>5. Value(rest) \in Nat /\ Value(rest \cup {x}) = Value(rest) + Sat[x]
            /\ Value(rest \cup {p}) = Value(rest) + Sat[p]
        BY <4>3, <4>4
      <4>6. Sat[x] \in Nat /\ Sat[p] \in Nat BY <1>1, <4>1
      <4>7. Value(s \cup {x}) = Sat[p] + (Value(rest) + Sat[x]) BY <3>1, <4>2, <4>5
      <4>8. Value(s) = Value(rest) + Sat[p] BY <4>2, <4>5
      <4> QED BY <4>5, <4>6, <4>7, <4>8
    <3> QED BY <3>2, <3>3
  <2> QED BY <2>1, <2>2
<1> HIDE DEF Good
<1>3. S \in Good BY <1>1, <1>2, SmallerSets
<1> QED BY <1>3 DEF Good

LEMMA ValueGrows ==
  ASSUME NEW S \in SUBSET Out, NEW R \in SUBSET S
  PROVE  Value(R) <= Value(S)
<1> DEFINE Good == {s \in SUBSET (S \ R) : Value(R) <= Value(R \cup s)}
<1>1. IsFiniteSet(S \ R) BY LedgerAssumption, FS_Subset
<1>2. ASSUME NEW s \in SUBSET (S \ R), \A x \in s : s \ {x} \in Good PROVE s \in Good
  <2>1. CASE s = {}
    <3>1. R \cup s = R /\ Value(R) \in Nat BY <2>1, ValueOfOneMore
    <3> QED BY <3>1
  <2>2. CASE s # {}
    <3>1. PICK x \in s : TRUE BY <2>2
    <3> DEFINE most == R \cup (s \ {x})
    <3>2. Value(R) <= Value(most) BY <1>2
    <3>3. most \in SUBSET Out /\ x \in Out \ most /\ most \cup {x} = R \cup s OBVIOUS
    <3>4. Value(R \cup s) = Value(most) + Sat[x] /\ Value(most) \in Nat BY <3>3, ValueOfOneMore
    <3>5. Sat[x] \in Nat /\ Value(R) \in Nat BY <3>3, LedgerAssumption, ValueOfOneMore
    <3> QED BY <3>2, <3>4, <3>5
  <2> QED BY <2>1, <2>2
<1>3. S \ R \in Good
  <2> DEFINE more == S \ R
  <2>1. IsFiniteSet(more) /\ \A s \in SUBSET more : (\A x \in s : s \ {x} \in Good) => s \in Good
    BY <1>1, <1>2
  <2> HIDE DEF Good, more
  <2>2. \A s \in SUBSET more : s \in Good BY <2>1, SmallerSets
  <2> QED BY <2>2 DEF more
<1>4. R \cup (S \ R) = S OBVIOUS
<1> QED BY <1>3, <1>4 DEF Good

(* The items that are added up: their times have an order, and who spends  *)
(* them is a transaction.                                                  *)
Summable(items) ==
  /\ DOMAIN items \subseteq Out
  /\ \A o \in DOMAIN items : items[o].ts \in Nat /\ items[o].spent \in Tx \cup {NoHash}

(* One of finitely many items is the last in the order of the keys. *)
LEMMA LastItemIs ==
  ASSUME NEW items, Summable(items), NEW S \in SUBSET DOMAIN items, S # {}
  PROVE  LastItem(items, S) \in S
<1> DEFINE Good == {s \in SUBSET DOMAIN items :
                      s = {} \/ \E p \in s : \A o \in s : KeyOrder(items, o, p)}
<1>1. IsFiniteSet(DOMAIN items) BY LedgerAssumption, FS_Subset DEF Summable
<1>2. \A o \in DOMAIN items : items[o].ts \in Nat /\ TxOrder[TxOf[o]] \in Nat
  BY LedgerAssumption DEF Summable
<1>3. ASSUME NEW s \in SUBSET DOMAIN items, \A x \in s : s \ {x} \in Good PROVE s \in Good
  <2> SUFFICES ASSUME s # {} PROVE \E p \in s : \A o \in s : KeyOrder(items, o, p) OBVIOUS
  <2>1. PICK x \in s : TRUE OBVIOUS
  <2>2. KeyOrder(items, x, x) BY <1>2 DEF KeyOrder
  <2>3. CASE s \ {x} = {}
    <3>1. \A o \in s : o = x BY <2>3
    <3> QED BY <2>2, <3>1
  <2>4. CASE s \ {x} # {}
    <3>1. PICK p \in s \ {x} : \A o \in s \ {x} : KeyOrder(items, o, p) BY <1>3, <2>4
    <3>2. CASE KeyOrder(items, x, p) BY <3>1, <3>2
    <3>3. CASE ~KeyOrder(items, x, p)
      <4>1. \A o \in s \ {x} : KeyOrder(items, o, x) BY <1>2, <3>1, <3>3 DEF KeyOrder
      <4> QED BY <2>2, <4>1
    <3> QED BY <3>2, <3>3
  <2> QED BY <2>3, <2>4
<1> HIDE DEF Good
<1>4. S \in Good BY <1>1, <1>3, SmallerSets
<1>5. \E p \in S : \A o \in S : KeyOrder(items, o, p) BY <1>4 DEF Good
<1> QED BY <1>5 DEF LastItem

(* One item more in the sums. *)
LEMMA AddedItem ==
  ASSUME NEW items, Summable(items), NEW o \in DOMAIN items, NEW sums \in ReqAnswers,
         NEW new, new = AddTxItem(items, sums, o)
  PROVE  LET item == items[o]
             seen == sums.transactions
             kept == item.spent = NoHash \/ ~SpentIsConfirmed(item)
             add == IF TxOf[o] \in seen THEN 0 ELSE 1
             addSpend == IF item.spent \in seen \cup {TxOf[o]} THEN 0 ELSE 1
         IN  /\ new \in ReqAnswers
             /\ new.transactions = seen \cup ({TxOf[o], item.spent} \ {NoHash})
             /\ IsConfirmed(item) =>
                  /\ new.received = sums.received + Sat[o]
                  /\ new.balance = sums.balance + (IF kept THEN Sat[o] ELSE 0)
                  /\ new.sent = sums.sent + (IF kept THEN 0 ELSE Sat[o])
                  /\ new.appearances = sums.appearances + add + (IF kept THEN 0 ELSE addSpend)
                  /\ new.unconfirmed = sums.unconfirmed
                  /\ new.unconfirmedAppearances = sums.unconfirmedAppearances
             /\ ~IsConfirmed(item) =>
                  /\ new.received = sums.received /\ new.balance = sums.balance
                  /\ new.sent = sums.sent /\ new.appearances = sums.appearances
                  /\ new.unconfirmed = sums.unconfirmed + Sat[o]
                  /\ new.unconfirmedAppearances = sums.unconfirmedAppearances + add
<1> DEFINE item == items[o]
           v == Sat[o]
           founding == TxOf[o]
           seen == sums.transactions
           add == IF founding \in seen THEN 0 ELSE 1
           addSpend == IF item.spent \in seen \cup {founding} THEN 0 ELSE 1
           kept == item.spent = NoHash \/ ~SpentIsConfirmed(item)
           list == seen \cup ({founding, item.spent} \ {NoHash})
           more == add + (IF kept THEN 0 ELSE addSpend)
           keeps == IF kept THEN v ELSE 0
           spends == IF kept THEN 0 ELSE v
<1>1. new = IF ~IsConfirmed(item)
            THEN [sums EXCEPT !.transactions = list, !.unconfirmed = @ + v,
                              !.unconfirmedAppearances = @ + add]
            ELSE [sums EXCEPT !.transactions = list, !.received = @ + v, !.balance = @ + keeps,
                              !.sent = @ + spends,
                              !.appearances = @ + add + (IF kept THEN 0 ELSE addSpend)]
  BY DEF AddTxItem, ReqAnswers
<1>2. v \in Nat /\ add \in Nat /\ addSpend \in Nat /\ keeps \in Nat /\ spends \in Nat
  BY LedgerAssumption DEF Summable
<1>3. founding \in Tx /\ item.spent \in Tx \cup {NoHash} BY LedgerAssumption DEF Summable
<1>4. list \in SUBSET Tx BY <1>3 DEF ReqAnswers
<1>5. (IF kept THEN 0 ELSE addSpend) \in Nat BY <1>2
<1> HIDE DEF item, v, add, addSpend, keeps, spends, list, kept
<1>6. CASE ~IsConfirmed(item)
  <2>1. new = [sums EXCEPT !.transactions = list, !.unconfirmed = @ + v,
                              !.unconfirmedAppearances = @ + add] BY <1>1, <1>6
  <2>2. new = [received |-> sums.received, sent |-> sums.sent, balance |-> sums.balance,
               appearances |-> sums.appearances, unconfirmed |-> sums.unconfirmed + v,
               unconfirmedAppearances |-> sums.unconfirmedAppearances + add,
               transactions |-> list, unspent |-> sums.unspent]
    BY <2>1 DEF ReqAnswers
  <2>3. new \in ReqAnswers BY <1>2, <1>4, <2>2 DEF ReqAnswers
  <2> QED BY <1>6, <2>2, <2>3 DEF item, list, add, v, kept
<1>7. CASE IsConfirmed(item)
  <2> DEFINE once == IF kept THEN 0 ELSE addSpend
  <2> HIDE DEF once
  <2>1. new = [sums EXCEPT !.transactions = list, !.received = @ + v, !.balance = @ + keeps,
                              !.sent = @ + spends, !.appearances = @ + add + once]
    BY <1>1, <1>7 DEF once
  <2>2. once \in Nat BY <1>5 DEF once
  <2>3. /\ new \in ReqAnswers /\ new.transactions = list
        /\ new.received = sums.received + v /\ new.balance = sums.balance + keeps
        /\ new.sent = sums.sent + spends /\ new.appearances = sums.appearances + add + once
        /\ new.unconfirmed = sums.unconfirmed
        /\ new.unconfirmedAppearances = sums.unconfirmedAppearances
    <3>1. new = [received |-> sums.received + v, sent |-> sums.sent + spends,
                 balance |-> sums.balance + keeps,
                 appearances |-> sums.appearances + add + once, unconfirmed |-> sums.unconfirmed,
                 unconfirmedAppearances |-> sums.unconfirmedAppearances,
                 transactions |-> list, unspent |-> sums.unspent]
      BY <2>1 DEF ReqAnswers
    <3>2. new \in ReqAnswers BY <1>2, <1>4, <2>2, <3>1 DEF ReqAnswers
    <3> QED BY <3>1, <3>2
  <2> QED BY <1>7, <2>3 DEF item, list, add, addSpend, v, keeps, spends, once, kept
<1> QED BY <1>6, <1>7 DEF item

Summing(items, f, D) ==
  f = [s \in D |-> IF s = {} THEN NoAnswer
                   ELSE AddTxItem(items, f[s \ {LastItem(items, s)}], LastItem(items, s))]

LEMMA NoAnswerType == NoAnswer \in ReqAnswers
BY DEF NoAnswer, ReqAnswers

LEMMA SumsFold ==
  ASSUME NEW items, Summable(items)
  PROVE  \E f : Summing(items, f, SUBSET DOMAIN items) /\ Sums(items) = f[DOMAIN items]
<1> DEFINE D == DOMAIN items
           f == CHOOSE f : Summing(items, f, SUBSET D)
           pick == [s \in SUBSET D |-> LastItem(items, s)]
           G == [p \in D \X ReqAnswers |-> AddTxItem(items, p[2], p[1])]
<1>1. Sums(items) = f[D] BY DEF Sums, MapThenFoldSet, Summing
<1>2. IsFiniteSet(D) BY LedgerAssumption, FS_Subset DEF Summable
<1>3. \A s \in (SUBSET D) \ {{}} : pick[s] \in s /\ pick[s] = LastItem(items, s)
  BY LastItemIs
<1>4. \A o \in D : \A sums \in ReqAnswers :
        AddTxItem(items, sums, o) \in ReqAnswers /\ G[<<o, sums>>] = AddTxItem(items, sums, o)
  BY AddedItem
<1>5. G \in [D \X ReqAnswers -> ReqAnswers] BY <1>4
<1> HIDE DEF G, pick, D
<1>6. PICK h \in [SUBSET D -> ReqAnswers] : FoldsBy(h, SUBSET D, NoAnswer, pick, G)
  BY <1>2, <1>3, <1>5, FoldExists, NoAnswerType
<1>7. \A s \in (SUBSET D) \ {{}} :
        G[<<pick[s], h[s \ {pick[s]}]>>]
          = AddTxItem(items, h[s \ {LastItem(items, s)}], LastItem(items, s))
  <2> SUFFICES ASSUME NEW s \in SUBSET D, s # {}
               PROVE  G[<<pick[s], h[s \ {pick[s]}]>>]
                        = AddTxItem(items, h[s \ {LastItem(items, s)}], LastItem(items, s))
    OBVIOUS
  <2>1. pick[s] = LastItem(items, s) /\ pick[s] \in D BY <1>3
  <2>2. h[s \ {pick[s]}] \in ReqAnswers OBVIOUS
  <2> QED BY <1>4, <2>1, <2>2
<1>8. Summing(items, h, SUBSET D) BY <1>6, <1>7 DEF FoldsBy, Summing
<1>9. Summing(items, f, SUBSET D) BY <1>8
<1> QED BY <1>1, <1>9 DEF D

(* A sum of items that begins at nothing and stays what one says of it.    *)
LEMMA SumsType ==
  ASSUME NEW items, Summable(items), NEW f, Summing(items, f, SUBSET DOMAIN items)
  PROVE  \A s \in SUBSET DOMAIN items : f[s] \in ReqAnswers
<1> DEFINE D == DOMAIN items
           Good == {s \in SUBSET D : f[s] \in ReqAnswers}
<1>1. IsFiniteSet(D) BY LedgerAssumption, FS_Subset DEF Summable
<1>2. ASSUME NEW s \in SUBSET D, \A x \in s : s \ {x} \in Good PROVE s \in Good
  <2> DEFINE p == LastItem(items, s)
  <2>1. f[s] = IF s = {} THEN NoAnswer ELSE AddTxItem(items, f[s \ {p}], p) BY DEF Summing
  <2>2. s # {} => p \in s BY LastItemIs
  <2> HIDE DEF p
  <2>3. s # {} => f[s \ {p}] \in ReqAnswers BY <1>2, <2>2
  <2>4. s # {} => AddTxItem(items, f[s \ {p}], p) \in ReqAnswers BY <2>2, <2>3, AddedItem
  <2> QED BY <2>1, <2>4, NoAnswerType
<1> HIDE DEF Good
<1>3. \A s \in SUBSET D : s \in Good BY <1>1, <1>2, SmallerSets
<1> QED BY <1>3 DEF Good
----------------------------------------------------------------------------
(* The types, which are inductive when a request only looks things up in   *)
(* the phase of the lookups, and a spend is one of an input.               *)

ReplyType(q) ==
  /\ RequestFields(q)
  /\ q.pc \in RequestPhases /\ q.chainHeight \in Int /\ q.answer \in ReqAnswers
  /\ DOMAIN q.items \subseteq {o \in Out : AddrOf[o] = q.addr}
  /\ \A o \in DOMAIN q.items : q.items[o] \in Item
  /\ q.todo \subseteq DOMAIN q.items
  /\ q.pc # "fill" => q.looks = {}
  /\ \A look \in q.looks : look[1] \in DOMAIN q.items /\ look[2] \in Tx

RowsType ==
  /\ TxTypeOK
  /\ \A o \in Out : \A t \in Spends(o) : o \in Inputs(t)

(* The rows. *)

LEMMA AddScriptType ==
  ASSUME RowsType, NEW T \in SUBSET Tx, NEW time, \A t \in T : time[t] \in Stamp,
         AddScript(T, time)
  PROVE  RowsType'
<1>1. Uncached \in Cache BY LedgerAssumption DEF Uncached, Cache, Stamp
<1>2. txo' \in [Out -> OutRow \cup {Absent}]
  BY LedgerAssumption DEF AddScript, RowsType, TxTypeOK, OutRow
<1>3. txs' \in [Out -> [Tx -> Stamp \cup {Unspent}]] BY DEF AddScript, RowsType, TxTypeOK
<1>4. txa' \in [Out -> [Stamp -> Cache \cup {Absent}]]
  BY <1>1 DEF AddScript, RowsType, TxTypeOK
<1>5. ASSUME NEW o \in Out, NEW t \in Spends(o)' PROVE o \in Inputs(t)
  <2>1. t \in Tx /\ txs'[o][t] # Unspent BY DEF Spends
  <2>2. txs'[o][t] = IF t \in T /\ o \in Inputs(t) THEN time[t] ELSE txs[o][t]
    BY <2>1 DEF AddScript
  <2> QED BY <2>1, <2>2 DEF RowsType, Spends
<1> QED BY <1>2, <1>3, <1>4, <1>5 DEF RowsType, TxTypeOK

LEMMA ToCacheType ==
  ASSUME NEW item \in Item
  PROVE  ToCache(item) \in Cache \cup {Absent}
<1>1. [Uncached EXCEPT !.confirmed = TRUE] \in Cache
  <2>1. \A x, y : [[confirmed |-> y, spent |-> NoHash, index |-> 0, ts |-> 0] EXCEPT !.confirmed = x]
                   = [confirmed |-> x, spent |-> NoHash, index |-> 0, ts |-> 0]
    OBVIOUS
  <2>2. 0 \in Stamp /\ 0 \in Nat BY LedgerAssumption DEF Stamp
  <2>3. [Uncached EXCEPT !.confirmed = TRUE]
          = [confirmed |-> TRUE, spent |-> NoHash, index |-> 0, ts |-> 0]
    BY <2>1, Zenon DEF Uncached
  <2> QED BY <2>2, <2>3 DEF Cache
<1>2. [confirmed |-> TRUE, spent |-> item.spent, index |-> item.spentIndex,
       ts |-> item.spentTs] \in Cache
  BY DEF Item, Cache
<1> QED BY <1>1, <1>2 DEF ToCache

LEMMA CachedType ==
  ASSUME RowsType, NEW items, \A o \in DOMAIN items : items[o] \in Item,
         CacheConfirmations(items)
  PROVE  RowsType'
<1>1. \A o \in DOMAIN items : ToCache(items[o]) \in Cache \cup {Absent} BY ToCacheType
<1>2. txa' \in [Out -> [Stamp -> Cache \cup {Absent}]]
  BY <1>1 DEF CacheConfirmations, RowsType, TxTypeOK
<1> QED BY <1>2 DEF CacheConfirmations, RowsType, TxTypeOK, Spends

LEMMA ScriptType ==
  ASSUME RowsType, NEW o, NEW item, CacheScript(o, item)
  PROVE  RowsType'
<1>1. \A n \in {0, 1} : [addr |-> NoHash, sat |-> n] \in OutRow BY DEF OutRow
<1>2. txo' \in [Out -> OutRow \cup {Absent}] BY <1>1 DEF CacheScript, RowsType, TxTypeOK
<1> QED BY <1>2 DEF CacheScript, RowsType, TxTypeOK, Spends

(* The items. *)

LEMMA ParsedType ==
  ASSUME RowsType, NEW o \in Out, Rows(o) # {}, NEW ignoreCache \in BOOLEAN
  PROVE  ParseAddrData(o, Max(Rows(o)), ignoreCache) \in Item
<1> DEFINE n == Max(Rows(o))
           c == IF ignoreCache THEN Uncached ELSE txa[o][n]
<1>1. Uncached \in Cache BY LedgerAssumption DEF Uncached, Cache, Stamp
<1>2. n \in Stamp /\ txa[o][n] # Absent BY LatestRow DEF Rows
<1>3. c \in Cache BY <1>1, <1>2 DEF RowsType, TxTypeOK
<1>4. ParseAddrData(o, n, ignoreCache)
        = [ts |-> n, cached |-> c.confirmed, confirmed |-> c.confirmed,
           confirmations |-> 0, spent |-> c.spent, spentIndex |-> c.index,
           spentTs |-> c.ts, attempts |-> {}, spentConfirmed |-> c.spent # NoHash,
           spentCached |-> c.spent # NoHash, spentConfirmations |-> 0]
  BY DEF ParseAddrData
<1> HIDE DEF n, c
<1>5. ParseAddrData(o, n, ignoreCache) \in Item BY <1>2, <1>3, <1>4 DEF Cache, Item
<1> QED BY <1>5 DEF n

(* An output is an input of who spends it, at some place. *)
LEMMA IndexType ==
  ASSUME NEW t \in Tx, NEW o \in Inputs(t)
  PROVE  Index(t, o) \in Nat
<1>1. \E i \in DOMAIN Vin[t] : Vin[t][i] = o BY DEF Inputs, ToSet
<1>2. (CHOOSE i \in DOMAIN Vin[t] : Vin[t][i] = o) \in DOMAIN Vin[t] BY <1>1
<1>3. DOMAIN Vin[t] \subseteq Nat \ {0} BY LedgerAssumption
<1> QED BY <1>2, <1>3 DEF Index

LEMMA SpentType ==
  ASSUME RowsType, NEW o \in Out, NEW item \in Item
  PROVE  AddSpentInfo(item, o) \in Item
<1>1. CASE Spends(o) = {} BY <1>1 DEF AddSpentInfo
<1>2. CASE Spends(o) # {}
  <2> DEFINE first == FirstSpend(o)
             index == Index(first, o)
             ts == txs[o][first]
             attempts == IF Spends(o) = {first} THEN {} ELSE Spends(o)
             new == AddSpentInfo(item, o)
  <2>1. first \in Spends(o) /\ first \in Tx /\ attempts \subseteq Tx BY <1>2, FirstIsSpend
  <2>2. index \in Nat BY <2>1, IndexType DEF RowsType
  <2>3. ts \in Stamp BY <2>1 DEF RowsType, TxTypeOK, Spends
  <2>4. new = [item EXCEPT !.spent = first, !.spentIndex = index, !.spentTs = ts,
                           !.attempts = attempts]
    BY <1>2 DEF AddSpentInfo
  <2> HIDE DEF first, index, ts, attempts, new
  <2>5. new = [ts |-> item.ts, cached |-> item.cached, confirmed |-> item.confirmed,
               confirmations |-> item.confirmations, spent |-> first, spentIndex |-> index,
               spentTs |-> ts, attempts |-> attempts, spentConfirmed |-> item.spentConfirmed,
               spentCached |-> item.spentCached, spentConfirmations |-> item.spentConfirmations]
    BY <2>4 DEF Item
  <2>6. new \in Item BY <2>1, <2>2, <2>3, <2>5 DEF Item
  <2> QED BY <2>6 DEF new
<1> QED BY <1>1, <1>2

LEMMA OwnType ==
  ASSUME NEW item \in Item, NEW x \in BOOLEAN, NEW n \in Int,
         NEW new, new = [item EXCEPT !.confirmed = x, !.confirmations = n]
  PROVE  new \in Item
<1>1. new = [ts |-> item.ts, cached |-> item.cached, confirmed |-> x, confirmations |-> n,
             spent |-> item.spent, spentIndex |-> item.spentIndex, spentTs |-> item.spentTs,
             attempts |-> item.attempts, spentConfirmed |-> item.spentConfirmed,
             spentCached |-> item.spentCached, spentConfirmations |-> item.spentConfirmations]
  BY DEF Item
<1> QED BY <1>1 DEF Item

LEMMA SpenderType ==
  ASSUME NEW item \in Item, NEW t \in Tx \cup {NoHash}, NEW x \in BOOLEAN, NEW n \in Int,
         NEW new, new = [item EXCEPT !.spent = t, !.spentConfirmed = x, !.spentConfirmations = n]
  PROVE  new \in Item
<1>1. new = [ts |-> item.ts, cached |-> item.cached, confirmed |-> item.confirmed,
             confirmations |-> item.confirmations, spent |-> t, spentIndex |-> item.spentIndex,
             spentTs |-> item.spentTs, attempts |-> item.attempts, spentConfirmed |-> x,
             spentCached |-> item.spentCached, spentConfirmations |-> n]
  BY DEF Item
<1> QED BY <1>1 DEF Item

LEMMA RpcType ==
  ASSUME node \in Block, NEW t
  PROVE  RpcConfirmations(t) \in Int
<1>1. CASE ~Confirmed(t) BY <1>1 DEF RpcConfirmations
<1>2. CASE Confirmed(t)
  <2> DEFINE S == {Depth[b] : b \in BlocksWith(t)}
  <2>1. BlocksWith(t) \subseteq Block /\ BlocksWith(t) # {}
    BY <1>2, ChainFacts DEF BlocksWith, Active, Confirmed
  <2>2. S \in SUBSET Nat /\ S # {} BY <2>1, DepthsAreNat
  <2>3. \E n \in S : \A m \in S : n <= m BY <2>2, Least
  <2> HIDE DEF S
  <2>4. Min(S) \in S BY <2>3 DEF Min
  <2>5. RpcConfirmations(t) = Depth[node] - Min(S) + 1 BY <1>2 DEF RpcConfirmations, S
  <2>6. Depth[node] \in Nat BY DepthsAreNat
  <2>7. PICK n \in Nat : n = Min(S) BY <2>2, <2>4
  <2> QED BY <2>5, <2>6, <2>7
<1> QED BY <1>1, <1>2

(* The heights that confirmations are counted from. *)
LEMMA HeightTypes ==
  ASSUME TypeOK
  PROVE  GetTip.height \in Int /\ \A t \in Tx : btx[t].height \in Int
BY DEF TypeOK, DbTypeOK, Entry, GetTip
(* A request for an address. *)

LEMMA IdleType == ReplyType(Idle)
<1>1. DOMAIN Idle.items = {} BY DEF Idle
<1>2. RequestFields(Idle) BY DEF Idle, RequestFields
<1>3. /\ Idle.pc = "idle" /\ Idle.looks = {} /\ Idle.todo = {} /\ Idle.chainHeight = -1
      /\ Idle.answer = NoAnswer
  BY DEF Idle
<1> QED BY <1>1, <1>2, <1>3, NoAnswerType DEF ReplyType, RequestPhases

(* A request with the same items in another phase. *)
SameKinds(q, new) ==
  /\ SameItems(q, new)
  /\ new.addr = q.addr /\ new.answer = q.answer

LEMMA PhaseType ==
  ASSUME NEW q, ReplyType(q), q.looks = {}, NEW new, SameKinds(q, new),
         new.pc \in RequestPhases, new.todo \subseteq DOMAIN q.items
  PROVE  ReplyType(new)
BY DEF ReplyType, SameKinds, SameItems

LEMMA DoneType ==
  ASSUME NEW q, ReplyType(q), q.looks = {}, NEW answer \in ReqAnswers,
         NEW new, new = Done(q, answer)
  PROVE  ReplyType(new)
<1>1. RequestFields(q) BY DEF ReplyType
<1>2. RequestFields(new) BY <1>1 DEF RequestFields, Done
<1>3. /\ new.pc = "done" /\ new.todo = {} /\ new.items = << >> /\ new.looks = {}
      /\ new.chainHeight = -1 /\ new.answer = answer
  BY <1>1 DEF RequestFields, Done
<1>4. DOMAIN new.items = {} BY <1>3
<1> QED BY <1>2, <1>3, <1>4 DEF ReplyType, RequestPhases

LEMMA EnterType ==
  ASSUME NEW q, ReplyType(q), q.looks = {}, NEW new, new \in {EnterRpc(q), EnterRpcSpent(q)}
  PROVE  ReplyType(new)
<1> DEFINE spent == {o \in DOMAIN q.items : q.items[o].spent # NoHash /\ ~q.items[o].spentConfirmed}
           own == {o \in DOMAIN q.items : ~q.items[o].confirmed}
           phase == IF spent = {} THEN "tip" ELSE "rpcSpent"
<1>1. RequestFields(q) BY DEF ReplyType
<1>2. EnterRpcSpent(q) = [q EXCEPT !.pc = phase, !.todo = spent] BY DEF EnterRpcSpent
<1>3. EnterRpc(q) = IF own = {} THEN EnterRpcSpent(q) ELSE [q EXCEPT !.pc = "rpc", !.todo = own]
  BY DEF EnterRpc
<1>4. spent \subseteq DOMAIN q.items /\ own \subseteq DOMAIN q.items /\ phase \in {"tip", "rpcSpent"}
  OBVIOUS
<1> HIDE DEF spent, own, phase
<1>5. CASE new = [q EXCEPT !.pc = phase, !.todo = spent]
  <2>1. SameKinds(q, new) /\ new.pc = phase /\ new.todo = spent
    BY <1>1, <1>5 DEF SameKinds, SameItems, RequestFields
  <2> QED BY <1>4, <2>1, PhaseType DEF RequestPhases
<1>6. CASE new = [q EXCEPT !.pc = "rpc", !.todo = own]
  <2>1. SameKinds(q, new) /\ new.pc = "rpc" /\ new.todo = own
    BY <1>1, <1>6 DEF SameKinds, SameItems, RequestFields
  <2> QED BY <1>4, <2>1, PhaseType DEF RequestPhases
<1> QED BY <1>2, <1>3, <1>5, <1>6

(* The answer of a request for the unspent outputs. *)
LEMMA ListedType ==
  ASSUME NEW q, ReplyType(q)
  PROVE  [NoAnswer EXCEPT !.unspent = Listed(q.items)] \in ReqAnswers
<1>1. \A o \in DOMAIN q.items : o \in Out /\ q.items[o].confirmed \in BOOLEAN
  BY DEF ReplyType, Item
<1>2. Listed(q.items) \in SUBSET (Out \X BOOLEAN) BY <1>1 DEF Listed
<1>3. \A l : [NoAnswer EXCEPT !.unspent = l]
               = [received |-> 0, sent |-> 0, balance |-> 0, appearances |-> 0, unconfirmed |-> 0,
                  unconfirmedAppearances |-> 0, transactions |-> {}, unspent |-> l]
  BY DEF NoAnswer
<1> DEFINE l == Listed(q.items)
<1>4. [NoAnswer EXCEPT !.unspent = l]
        = [received |-> 0, sent |-> 0, balance |-> 0, appearances |-> 0, unconfirmed |-> 0,
           unconfirmedAppearances |-> 0, transactions |-> {}, unspent |-> l]
  BY <1>3
<1>5. l \in SUBSET (Out \X BOOLEAN) BY <1>2
<1> HIDE DEF l
<1>6. [NoAnswer EXCEPT !.unspent = l] \in ReqAnswers BY <1>4, <1>5 DEF ReqAnswers
<1> QED BY <1>6 DEF l

LEMMA ThenType ==
  ASSUME NEW q, ReplyType(q), NEW new, new = Then(q)
  PROVE  ReplyType(new)
<1>1. RequestFields(q) BY DEF ReplyType
<1>2. CASE q.todo # {} \/ q.looks # {}
  <2>1. new = q BY <1>2 DEF Then
  <2> QED BY <2>1
<1>3. CASE q.todo = {} /\ q.looks = {} /\ q.pc = "spends"
  <2>1. new = EnterRpc(q) BY <1>3 DEF Then
  <2> QED BY <1>3, <2>1, EnterType
<1>4. CASE q.todo = {} /\ q.looks = {} /\ q.pc = "rpc"
  <2>1. new = EnterRpcSpent(q) BY <1>4 DEF Then
  <2> QED BY <1>4, <2>1, EnterType
<1>5. CASE q.todo = {} /\ q.looks = {} /\ q.pc \in {"rpcSpent", "fill"}
  <2>1. new = [q EXCEPT !.pc = "tip"] \/ new = [q EXCEPT !.pc = "cache"]
    <3>1. CASE q.pc = "rpcSpent" BY <1>5, <3>1 DEF Then
    <3>2. CASE q.pc = "fill" BY <1>5, <3>2 DEF Then
    <3> QED BY <1>5, <3>1, <3>2
  <2>2. SameKinds(q, new) /\ new.pc \in {"tip", "cache"} /\ new.todo = {}
    BY <1>1, <1>5, <2>1 DEF SameKinds, SameItems, RequestFields
  <2> QED BY <1>5, <2>2, PhaseType DEF RequestPhases
<1>6. CASE q.todo = {} /\ q.looks = {} /\ q.pc = "script"
  <2>1. new = Done(q, [NoAnswer EXCEPT !.unspent = Listed(q.items)]) BY <1>6 DEF Then
  <2> QED BY <1>6, <2>1, ListedType, DoneType
<1>7. CASE q.pc \notin {"spends", "rpc", "rpcSpent", "fill", "script"}
  <2>1. new = q BY <1>7 DEF Then
  <2> QED BY <2>1
<1> QED BY <1>2, <1>3, <1>4, <1>5, <1>6, <1>7

(* A request moves on to a record of its type. *)
Typed(r) == \E q : req' = [req EXCEPT ![r] = Then(q)] /\ ReplyType(q)

LEMMA ItemType ==
  ASSUME NEW q, ReplyType(q), NEW o \in DOMAIN q.items, NEW item \in Item,
         NEW new, ItemChanges(q, o, item, new), new.addr = q.addr, new.answer = q.answer
  PROVE  ReplyType(new)
<1> USE DEF ItemChanges
<1>1. DOMAIN new.items = DOMAIN q.items OBVIOUS
<1>2. \A p \in DOMAIN new.items : new.items[p] \in Item BY <1>1 DEF ReplyType
<1> QED BY <1>1, <1>2 DEF ReplyType

LEMMA AnsweredType ==
  ASSUME NEW r \in Request, ReplyType(req[r]), NEW o \in req[r].todo, NEW item \in Item,
         Answered(r, o, item)
  PROVE  Typed(r)
<1> DEFINE q == req[r]
           todo == q.todo \ {o}
           items == [q.items EXCEPT ![o] = item]
           new == [q EXCEPT !.todo = todo, !.items = items]
<1>1. o \in DOMAIN q.items /\ todo \subseteq DOMAIN q.items BY DEF ReplyType
<1>2. req' = [req EXCEPT ![r] = Then(new)] BY DEF Answered, Set
<1>3. RequestFields(q) /\ new = [q EXCEPT !.todo = todo, !.items = items] BY DEF ReplyType
<1>4. /\ RequestFields(new) /\ new.pc = q.pc /\ new.todo = todo /\ new.items = items
      /\ new.looks = q.looks /\ new.chainHeight = q.chainHeight
      /\ new.addr = q.addr /\ new.answer = q.answer
  <2> HIDE DEF q, todo, items, new
  <2> QED BY <1>3 DEF RequestFields
<1>5. /\ q.pc # "fill" => q.looks = {}
      /\ \A look \in q.looks : look[1] \in DOMAIN q.items /\ look[2] \in Tx
  BY DEF ReplyType
<1> HIDE DEF new
<1>6. ItemChanges(q, o, item, new) BY <1>1, <1>4, <1>5 DEF ItemChanges
<1>7. ReplyType(new) BY <1>1, <1>4, <1>6, ItemType
<1> QED BY <1>2, <1>7 DEF Typed

LEMMA SpendersType ==
  ASSUME NEW o, NEW item \in Item, NEW look \in Looks(o, item)
  PROVE  look[1] = o /\ look[2] \in Tx
BY DEF Looks, Spenders, Item

LEMMA AskType ==
  ASSUME RowsType, NEW r \in Request, Ask(r)
  PROVE  Typed(r)
<1>1. PICK a \in Asked, onlyUnspent \in BOOLEAN, ignoreCache \in BOOLEAN :
        LET items == FromAddr(a, ignoreCache) IN
          Set(r, [Idle EXCEPT !.pc = "spends", !.items = items, !.addr = a,
                              !.onlyUnspent = onlyUnspent,
                              !.at = IF StoreCurrent THEN node ELSE NoHash,
                              !.todo = {o \in DOMAIN items : ~items[o].spentConfirmed}])
  BY Zenon DEF Ask
<1> DEFINE items == FromAddr(a, ignoreCache)
           todo == {o \in DOMAIN items : ~items[o].spentConfirmed}
           at == IF StoreCurrent THEN node ELSE NoHash
           new == [Idle EXCEPT !.pc = "spends", !.items = items, !.addr = a,
                               !.onlyUnspent = onlyUnspent, !.at = at, !.todo = todo]
<1>2. req' = [req EXCEPT ![r] = Then(new)] BY <1>1 DEF Set
<1>3. DOMAIN items \subseteq {o \in Out : AddrOf[o] = a} BY DEF FromAddr
<1>4. ASSUME NEW o \in DOMAIN items PROVE items[o] \in Item
  <2>1. o \in Out /\ Rows(o) # {} /\ items[o] = ParseAddrData(o, Max(Rows(o)), ignoreCache)
    BY DEF FromAddr
  <2> HIDE DEF items
  <2> QED BY <2>1, ParsedType
<1>5. todo \subseteq DOMAIN items OBVIOUS
<1>6. new = [Idle EXCEPT !.pc = "spends", !.items = items, !.addr = a,
                         !.onlyUnspent = onlyUnspent, !.at = at, !.todo = todo]
  OBVIOUS
<1> HIDE DEF items, todo, at, new
<1>7. RequestFields(new) /\ new.pc = "spends" /\ new.items = items /\ new.todo = todo
      /\ new.looks = {} /\ new.chainHeight = -1 /\ new.addr = a /\ new.answer = NoAnswer
  BY <1>6 DEF Idle, RequestFields
<1>8. ReplyType(new)
  BY <1>3, <1>4, <1>5, <1>7, NoAnswerType DEF ReplyType, RequestPhases
<1> QED BY <1>2, <1>8 DEF Typed

LEMMA ReadSpendsType ==
  ASSUME RowsType, NEW r \in Request, ReplyType(req[r]), ReadSpends(r)
  PROVE  Typed(r)
<1>1. PICK o \in req[r].todo : Answered(r, o, AddSpentInfo(req[r].items[o], o))
  BY DEF ReadSpends
<1>2. o \in Out /\ req[r].items[o] \in Item BY DEF ReplyType
<1> QED BY <1>1, <1>2, SpentType, AnsweredType

LEMMA AskRpcType ==
  ASSUME node \in Block, NEW r \in Request, ReplyType(req[r]), AskRpc(r)
  PROVE  Typed(r)
<1>1. PICK o \in req[r].todo :
        \/ Answered(r, o, req[r].items[o])
        \/ Answered(r, o, [req[r].items[o] EXCEPT !.confirmed = TRUE,
                                                  !.confirmations = RpcConfirmations(TxOf[o])])
  BY Zenon DEF AskRpc
<1> DEFINE n == RpcConfirmations(TxOf[o])
           old == req[r].items[o]
           yes == TRUE
           item == [old EXCEPT !.confirmed = yes, !.confirmations = n]
<1>2. old \in Item BY DEF ReplyType
<1>3. n \in Int /\ yes \in BOOLEAN BY RpcType
<1>4. Answered(r, o, old) \/ Answered(r, o, item) BY <1>1, Zenon
<1> HIDE DEF n, old, yes
<1>5. item \in Item BY <1>2, <1>3, OwnType, Zenon
<1> HIDE DEF item
<1> QED BY <1>2, <1>4, <1>5, AnsweredType

LEMMA AskRpcSpentType ==
  ASSUME node \in Block, NEW r \in Request, ReplyType(req[r]), AskRpcSpent(r)
  PROVE  Typed(r)
<1>1. PICK o \in req[r].todo :
        \/ Answered(r, o, req[r].items[o])
        \/ Answered(r, o, [req[r].items[o] EXCEPT !.spentConfirmed = TRUE,
             !.spentConfirmations = RpcConfirmations(req[r].items[o].spent)])
  BY Zenon DEF AskRpcSpent
<1> DEFINE old == req[r].items[o]
           n == RpcConfirmations(old.spent)
           yes == TRUE
           item == [old EXCEPT !.spentConfirmed = yes, !.spentConfirmations = n]
<1>2. old \in Item BY DEF ReplyType
<1>3. n \in Int /\ yes \in BOOLEAN BY RpcType
<1>4. Answered(r, o, old) \/ Answered(r, o, item) BY <1>1, Zenon
<1> HIDE DEF n, old, yes
<1>5. item = [old EXCEPT !.spent = old.spent, !.spentConfirmed = yes, !.spentConfirmations = n]
  BY <1>2 DEF Item
<1>6. old.spent \in Tx \cup {NoHash} BY <1>2 DEF Item
<1> HIDE DEF item
<1>7. item \in Item BY <1>2, <1>3, <1>5, <1>6, SpenderType, Zenon
<1> QED BY <1>2, <1>4, <1>7, AnsweredType

LEMMA ReadHeightType ==
  ASSUME TypeOK, NEW r \in Request, ReplyType(req[r]), ReadHeight(r)
  PROVE  Typed(r)
<1> DEFINE q == req[r]
           items == q.items
           more == {o \in DOMAIN items :
                      ~items[o].spentCached /\ ~(items[o].cached /\ items[o].spent = NoHash)}
           todo == {o \in more : ~items[o].cached}
           looks == UNION {Looks(o, items[o]) : o \in {x \in more : items[x].cached}}
           h == GetTip.height
           new == [q EXCEPT !.pc = "fill", !.chainHeight = h, !.todo = todo, !.looks = looks]
<1>1. req' = [req EXCEPT ![r] = Then(new)] BY Zenon DEF ReadHeight, Set
<1>2. more \subseteq DOMAIN items /\ todo \subseteq DOMAIN items OBVIOUS
<1>3. ASSUME NEW look \in looks PROVE look[1] \in DOMAIN items /\ look[2] \in Tx
  <2>1. PICK o \in more : look \in Looks(o, items[o]) OBVIOUS
  <2>2. o \in DOMAIN items /\ items[o] \in Item BY <1>2 DEF ReplyType
  <2> QED BY <2>1, <2>2, SpendersType
<1>4. RequestFields(q) BY DEF ReplyType
<1>5. new = [q EXCEPT !.pc = "fill", !.chainHeight = h, !.todo = todo, !.looks = looks] OBVIOUS
<1>6. h \in Int BY HeightTypes
<1> HIDE DEF todo, looks, h, new
<1>7. /\ RequestFields(new) /\ new.pc = "fill" /\ new.todo = todo /\ new.items = items
      /\ new.looks = looks /\ new.chainHeight = h /\ new.addr = q.addr /\ new.answer = q.answer
  <2> HIDE DEF q
  <2> QED BY <1>4, <1>5 DEF RequestFields
<1>8. ReplyType(new) BY <1>2, <1>3, <1>6, <1>7 DEF ReplyType, RequestPhases
<1> QED BY <1>1, <1>8 DEF Typed
(* A lookup of the phase "fill" ends, perhaps with an item that changed. *)
LEMMA FilledType ==
  ASSUME NEW r \in Request, ReplyType(req[r]), req[r].pc = "fill",
         NEW todo \in SUBSET req[r].todo,
         NEW looks, \A look \in looks : look[1] \in DOMAIN req[r].items /\ look[2] \in Tx,
         NEW o \in DOMAIN req[r].items, NEW item \in Item,
         NEW new,
         new = [req[r] EXCEPT !.todo = todo, !.looks = looks,
                              !.items = [req[r].items EXCEPT ![o] = item]]
  PROVE  ReplyType(new)
<1> DEFINE q == req[r]
           items == [q.items EXCEPT ![o] = item]
<1>1. RequestFields(q) /\ new = [q EXCEPT !.todo = todo, !.looks = looks, !.items = items]
  BY DEF ReplyType
<1>2. todo \subseteq DOMAIN q.items BY DEF ReplyType
<1>3. /\ RequestFields(new) /\ new.pc = q.pc /\ new.todo = todo /\ new.items = items
      /\ new.looks = looks /\ new.chainHeight = q.chainHeight
      /\ new.addr = q.addr /\ new.answer = q.answer
  <2> HIDE DEF q, items
  <2> QED BY <1>1 DEF RequestFields
<1>4. ItemChanges(q, o, item, new) BY <1>2, <1>3 DEF ItemChanges
<1> QED BY <1>3, <1>4, ItemType, Zenon

LEMMA FillOwnType ==
  ASSUME TypeOK, NEW r \in Request, ReplyType(req[r]), FillOwn(r)
  PROVE  Typed(r)
<1> DEFINE q == req[r]
<1>1. PICK o \in q.todo :
        LET height == btx[TxOf[o]].height IN
          IF height >= 0
          THEN Set(r, [q EXCEPT !.todo = @ \ {o}, !.looks = @ \cup Looks(o, q.items[o]),
                                !.items[o].confirmed = q.chainHeight >= height,
                                !.items[o].confirmations = q.chainHeight - height + 1])
          ELSE Set(r, [q EXCEPT !.todo = @ \ {o}])
  BY Zenon DEF FillOwn
<1>2. o \in DOMAIN q.items /\ o \in Out /\ q.pc = "fill" /\ RequestFields(q) /\ q.items[o] \in Item
  BY DEF FillOwn, Waiting, ReplyType
<1> DEFINE height == btx[TxOf[o]].height
           todo == q.todo \ {o}
           old == q.items[o]
           looks == q.looks \cup Looks(o, old)
<1>3. \A look \in looks : look[1] \in DOMAIN q.items /\ look[2] \in Tx
  BY <1>2, SpendersType DEF ReplyType
<1>4. height \in Int /\ q.chainHeight \in Int
  BY <1>2, HeightTypes, LedgerAssumption DEF ReplyType
<1>5. CASE height >= 0
  <2> DEFINE x == q.chainHeight >= height
             n == q.chainHeight - height + 1
             item == [old EXCEPT !.confirmed = x, !.confirmations = n]
             new == [q EXCEPT !.todo = todo, !.looks = looks,
                              !.items = [q.items EXCEPT ![o] = item]]
  <2>1. n \in Int /\ x \in BOOLEAN
    <3> HIDE DEF height, q
    <3> QED BY <1>4
  <2>2. item \in Item
    <3> HIDE DEF x, n, old
    <3>1. old \in Item BY <1>2 DEF old
    <3> QED BY <2>1, <3>1, OwnType, Zenon
  <2>3. req' = [req EXCEPT ![r] = Then(new)]
    <3>1. Set(r, [q EXCEPT !.todo = @ \ {o}, !.looks = @ \cup Looks(o, q.items[o]),
                           !.items[o].confirmed = q.chainHeight >= height,
                           !.items[o].confirmations = q.chainHeight - height + 1])
      BY <1>1, <1>5, Zenon
    <3> QED BY <3>1, ZenonT(60) DEF Set
  <2>4. ReplyType(new)
    <3>1. todo \subseteq q.todo OBVIOUS
    <3>2. new = [q EXCEPT !.todo = todo, !.looks = looks,
                          !.items = [q.items EXCEPT ![o] = item]]
      OBVIOUS
    <3> HIDE DEF todo, looks, item, new
    <3> QED BY <1>2, <1>3, <2>2, <3>1, <3>2, FilledType, Zenon
  <2> QED BY <2>3, <2>4 DEF Typed
<1>6. CASE ~(height >= 0)
  <2> DEFINE new == [q EXCEPT !.todo = todo]
  <2>1. req' = [req EXCEPT ![r] = Then(new)] BY <1>1, <1>6, Zenon DEF Set
  <2>2. new = [q EXCEPT !.todo = todo] OBVIOUS
  <2>3. todo \subseteq DOMAIN q.items BY DEF ReplyType
  <2> HIDE DEF todo, new
  <2>4. SameKinds(q, new) /\ new.pc = "fill" /\ new.todo = todo
    <3> HIDE DEF q
    <3> QED BY <1>2, <2>2 DEF SameKinds, SameItems, RequestFields
  <2>5. ReplyType(new)
    <3> HIDE DEF q
    <3>1. ReplyType(q) BY DEF q
    <3> QED BY <1>2, <2>3, <2>4, <3>1 DEF ReplyType, SameKinds, SameItems
  <2> QED BY <2>1, <2>5 DEF Typed
<1> QED BY <1>5, <1>6

LEMMA FillSpentType ==
  ASSUME TypeOK, NEW r \in Request, ReplyType(req[r]), FillSpent(r)
  PROVE  Typed(r)
<1> DEFINE q == req[r]
<1>1. PICK look \in q.looks :
        LET height == btx[look[2]].height
            o == look[1]
        IN  IF height >= 0
            THEN Set(r, [q EXCEPT !.looks = @ \ {look}, !.items[o].spent = look[2],
                                  !.items[o].spentConfirmed = q.chainHeight >= height,
                                  !.items[o].spentConfirmations = q.chainHeight - height + 1])
            ELSE Set(r, [q EXCEPT !.looks = @ \ {look}])
  BY Zenon DEF FillSpent
<1> DEFINE o == look[1]
           t == look[2]
           height == btx[t].height
           looks == q.looks \ {look}
           old == q.items[o]
<1>2. o \in DOMAIN q.items /\ t \in Tx /\ q.pc = "fill" /\ RequestFields(q) /\ old \in Item
  BY DEF FillSpent, Waiting, ReplyType
<1>3. \A l \in looks : l[1] \in DOMAIN q.items /\ l[2] \in Tx BY DEF ReplyType
<1>4. height \in Int /\ q.chainHeight \in Int BY <1>2, HeightTypes DEF ReplyType
<1>5. CASE height >= 0
  <2> DEFINE x == q.chainHeight >= height
             n == q.chainHeight - height + 1
             item == [old EXCEPT !.spent = t, !.spentConfirmed = x, !.spentConfirmations = n]
             items == [q.items EXCEPT ![o] = item]
             new == [q EXCEPT !.looks = looks, !.items = items]
  <2>1. n \in Int /\ x \in BOOLEAN
    <3> HIDE DEF height, q
    <3> QED BY <1>4
  <2>2. item \in Item
    <3>1. old \in Item /\ t \in Tx \cup {NoHash} BY <1>2
    <3> HIDE DEF x, n, old, t
    <3> QED BY <2>1, <3>1, SpenderType, Zenon
  <2>3. req' = [req EXCEPT ![r] = Then(new)]
    <3>1. Set(r, [q EXCEPT !.looks = @ \ {look}, !.items[o].spent = look[2],
                           !.items[o].spentConfirmed = q.chainHeight >= height,
                           !.items[o].spentConfirmations = q.chainHeight - height + 1])
      BY <1>1, <1>5, Zenon
    <3> QED BY <3>1, ZenonT(60) DEF Set
  <2>4. new = [q EXCEPT !.looks = looks, !.items = items] OBVIOUS
  <2>5. /\ RequestFields(new) /\ new.pc = q.pc /\ new.todo = q.todo /\ new.items = items
        /\ new.looks = looks /\ new.chainHeight = q.chainHeight
        /\ new.addr = q.addr /\ new.answer = q.answer
    <3> HIDE DEF q, items, looks, new
    <3> QED BY <1>2, <2>4 DEF RequestFields
  <2>6. q.todo \subseteq DOMAIN q.items BY DEF ReplyType
  <2>7. ReplyType(new)
    <3>1. new.items = [q.items EXCEPT ![o] = item] BY <2>5, Zenon
    <3>2. ItemChanges(q, o, item, new)
      <4> HIDE DEF new, item, looks, items
      <4> QED BY <1>2, <1>3, <2>5, <2>6, <3>1 DEF ItemChanges
    <3> HIDE DEF new, item
    <3> QED BY <1>2, <2>2, <2>5, <3>2, ItemType, Zenon
  <2> QED BY <2>3, <2>7 DEF Typed
<1>6. CASE ~(height >= 0)
  <2> DEFINE new == [q EXCEPT !.looks = looks]
  <2>1. req' = [req EXCEPT ![r] = Then(new)] BY <1>1, <1>6, Zenon DEF Set
  <2>2. new = [q EXCEPT !.looks = looks] OBVIOUS
  <2> HIDE DEF looks, new
  <2>3. /\ RequestFields(new) /\ new.pc = q.pc /\ new.todo = q.todo /\ new.items = q.items
        /\ new.looks = looks /\ new.chainHeight = q.chainHeight
        /\ new.addr = q.addr /\ new.answer = q.answer
    <3> HIDE DEF q
    <3> QED BY <1>2, <2>2 DEF RequestFields
  <2>4. ReplyType(new)
    <3> HIDE DEF q
    <3>1. ReplyType(q) BY DEF q
    <3> QED BY <1>2, <1>3, <2>3, <3>1 DEF ReplyType
  <2> QED BY <2>1, <2>4 DEF Typed
<1> QED BY <1>5, <1>6

LEMMA CacheItemsType ==
  ASSUME NEW r \in Request, ReplyType(req[r]), CacheItems(r)
  PROVE  Typed(r)
<1> DEFINE q == req[r]
           open == {o \in DOMAIN q.items : q.items[o].spent = NoHash}
           items == Restrict(q.items, open)
           script == [q EXCEPT !.pc = "script", !.todo = open, !.items = items]
           sums == Done(q, Sums(q.items))
<1>1. Set(r, IF q.onlyUnspent THEN script ELSE sums) BY Zenon DEF CacheItems
<1>2. RequestFields(q) /\ q.looks = {} BY DEF CacheItems, Waiting, ReplyType
<1>3. ReplyType(script)
  <2>1. open \subseteq DOMAIN q.items /\ items = [o \in open |-> q.items[o]] BY DEF Restrict
  <2>2. script = [q EXCEPT !.pc = "script", !.todo = open, !.items = items] OBVIOUS
  <2>3. DOMAIN items = open /\ \A o \in open : items[o] \in Item BY <2>1 DEF ReplyType
  <2> HIDE DEF open, items, script
  <2>4. /\ RequestFields(script) /\ script.pc = "script" /\ script.todo = open
        /\ script.items = items /\ script.looks = {} /\ script.chainHeight = q.chainHeight
        /\ script.addr = q.addr /\ script.answer = q.answer
    <3> HIDE DEF q
    <3> QED BY <1>2, <2>2 DEF RequestFields
  <2> QED BY <2>1, <2>3, <2>4 DEF ReplyType, RequestPhases
<1>4. ASSUME NEW new, new = sums PROVE ReplyType(new)
  <2>1. Summable(q.items)
    <3>1. \A o \in DOMAIN q.items : o \in Out /\ q.items[o] \in Item BY DEF ReplyType
    <3>2. \A item \in Item : item.ts \in Nat /\ item.spent \in Tx \cup {NoHash}
      BY LedgerAssumption DEF Item, Stamp
    <3> QED BY <3>1, <3>2 DEF Summable
  <2>2. PICK f : Summing(q.items, f, SUBSET DOMAIN q.items) /\ Sums(q.items) = f[DOMAIN q.items]
    BY <2>1, SumsFold
  <2>3. Sums(q.items) \in ReqAnswers BY <2>1, <2>2, SumsType
  <2> QED BY <1>2, <1>4, <2>3, DoneType
<1> HIDE DEF script, sums
<1>5. PICK new : new \in {script, sums} /\ Set(r, new) BY <1>1
<1> QED BY <1>3, <1>4, <1>5 DEF Set, Typed

LEMMA FillScriptType ==
  ASSUME NEW r \in Request, ReplyType(req[r]), FillScript(r)
  PROVE  Typed(r)
<1>1. PICK o \in req[r].todo : Answered(r, o, req[r].items[o]) BY DEF FillScript
<1>2. req[r].items[o] \in Item BY DEF ReplyType
<1> QED BY <1>1, <1>2, AnsweredType
=============================================================================
