----------------------------- MODULE SyncLemmas -----------------------------
(***************************************************************************)
(* What each step of storeTipBlock, each call of it and each failure does  *)
(* to the types, to the inductive invariant and to the abstract store,     *)
(* whoever the callers are: the lemmas that the proofs about a Sync object *)
(* in any environment rest on, and what a chain of blocks is.              *)
(***************************************************************************)
EXTENDS SyncInvariant, FiniteSetTheorems, WellFoundedInduction, TLAPS

----------------------------------------------------------------------------
(* Types. *)

LEMMA NewJobType ==
  ASSUME NEW call \in Call
  PROVE  NewJob(call) \in Job
BY DEF NewJob, Call, Job, Key, Hash

LEMMA IdleJobType == IdleJob \in Job
BY NewJobType, BlockTreeAssumption DEF IdleJob, Call

LEMMA HeightFromJob ==
  ASSUME NEW j \in Job, NEW n \in Int, NEW k \in Key
  PROVE  [j EXCEPT !.height = n, !.from = k] \in Job
BY DEF Job

LEMMA BranchHeightJob ==
  ASSUME NEW j \in Job, NEW q \in Seq(Key)
  PROVE  [j EXCEPT !.branch = q, !.height = @ + 1] \in Job
<1>1. \A n \in Int : [j EXCEPT !.branch = q, !.height = n] \in Job
  BY DEF Job
<1>2. j.height + 1 \in Int BY DEF Job
<1> QED BY <1>1, <1>2

(* The initial state has the types. *)
LEMMA TypeInit == Init => TypeOK
<1> SUFFICES ASSUME Init PROVE TypeOK
  OBVIOUS
<1>1. NoEntry \in Entry BY DEF NoEntry, Entry, Key
<1>2. DbTypeOK BY <1>1 DEF Init, DbInit, DbTypeOK, Key
<1>3. /\ pc \in [Syncer -> Phases]
      /\ waiting \in [Syncer -> SUBSET Call]
      /\ cachedLastHash \in [Syncer -> Key]
      /\ reply \in [Syncer -> Replies]
      /\ crashed \in BOOLEAN
  BY DEF Init, SyncInit, Phases, Key, Replies
<1>4. job \in [Syncer -> Job] BY IdleJobType DEF Init, SyncInit
<1> QED BY <1>2, <1>3, <1>4 DEF TypeOK

(* What a step that moves a job on leaves to be shown: the new job is one. *)
LEMMA ContinueType ==
  ASSUME TypeOK, NEW s \in Syncer, NEW phase \in Phases, NEW j \in Job,
         Continue(s, phase, j), DbTypeOK'
  PROVE  TypeOK'
BY DEF TypeOK, Continue, GoTo

LEMMA StartAddType ==
  ASSUME TypeOK, NEW s \in Syncer, NEW j \in Job, StartAdd(s, j), DbTypeOK'
  PROVE  TypeOK'
BY DEF TypeOK, StartAdd, GoTo, Phases, Job, Key, Hash

LEMMA AnswerType ==
  ASSUME TypeOK, NEW s \in Syncer, NEW r \in Replies, Answer(s, r), DbTypeOK'
  PROVE  TypeOK'
BY IdleJobType DEF TypeOK, Answer, GoTo, Phases

LEMMA ProcessEndsType ==
  ASSUME TypeOK, ProcessEnds, DbTypeOK'
  PROVE  TypeOK'
BY IdleJobType DEF TypeOK, ProcessEnds, Phases, Replies, Key

LEMMA BeginType ==
  ASSUME TypeOK, NEW s \in Syncer, NEW call \in Call, Begin(s, call),
         waiting' \in [Syncer -> SUBSET Call], UNCHANGED <<dbVars, crashed>>
  PROVE  TypeOK'
<1> DEFINE j == NewJob(call)
<1>1. j \in Job BY NewJobType
<1>2. pc' \in [Syncer -> Phases] BY DEF TypeOK, Begin, GoTo, Phases
<1>3. job' \in [Syncer -> Job] BY <1>1 DEF TypeOK, Begin
<1>4. reply' \in [Syncer -> Replies] BY DEF TypeOK, Begin, Replies
<1>5. cachedLastHash' \in [Syncer -> Key]
  BY DEF TypeOK, Begin, Call, Key, Hash
<1> QED BY <1>2, <1>3, <1>4, <1>5 DEF TypeOK, DbTypeOK, dbVars

LEMMA DbUnchangedType == TypeOK /\ UNCHANGED dbVars => DbTypeOK'
BY DEF TypeOK, DbTypeOK, dbVars

LEMMA HeightChangeType ==
  ASSUME TypeOK, NEW h \in Key, NEW height \in Int, ChangeBlockHeight(h, height)
  PROVE  DbTypeOK'
BY DEF TypeOK, DbTypeOK, ChangeBlockHeight, PutTxs, DelTxs, At, Entry, NoEntry, Key

LEMMA AddType ==
  ASSUME TypeOK, NEW b \in Block, NEW height \in Int, Add(b, height)
  PROVE  DbTypeOK'
<1>1. Parent[b] \in Key /\ b \in Key /\ TimeOf[b] \in Time
  BY BlockTreeAssumption DEF Key, Hash
<1>2. prev' \in [Key -> Key] /\ main' \in [Key -> Int] /\ bts' \in [Time -> Block \cup {NoHash}]
  BY <1>1 DEF TypeOK, DbTypeOK, Add
<1>3. At(b, height) \in Entry BY <1>1 DEF At, Entry
<1>4. btx' \in [Tx -> Entry]
  BY <1>3 DEF TypeOK, DbTypeOK, Add, PutTxs
<1> QED BY <1>2, <1>4 DEF TypeOK, DbTypeOK, Add

(* The steps of a job keep the types ... *)
LEMMA StepType ==
  ASSUME TypeOK, NEW s \in Syncer, Step(s)
  PROVE  TypeOK'
<1> USE DbUnchangedType
<1>j. job[s] \in Job /\ job[s].blk \in Block
  BY DEF TypeOK, Job
<1> USE <1>j
<1> DEFINE j == job[s]
           p == Parent[j.blk]
<1>a. p \in Key /\ j.cur \in Key /\ j.top \in Key /\ j.from \in Key /\ j.oldNext \in Key
      /\ j.height \in Int /\ j.branch \in Seq(Key) /\ j.blk \in Key
  BY BlockTreeAssumption DEF Job, Key, Hash
<1>b. \A k \in Key : prev[k] \in Key /\ next[k] \in Key /\ main[k] \in Int
  BY DEF TypeOK, DbTypeOK
<1>1. CASE CheckPrev(s)
  BY <1>1, ContinueType, AnswerType DEF CheckPrev, Phases, Replies
<1>2. CASE ReadTip(s)
  <2>1. DbTypeOK' /\ GetTip.height \in Int
    BY <1>2 DEF ReadTip, CacheTip, GetTip, TypeOK, DbTypeOK, Entry
  <2>2. [j EXCEPT !.height = GetTip.height + 1] \in Job BY <2>1 DEF Job
  <2> QED BY <1>2, <2>1, <2>2, ContinueType, StartAddType DEF ReadTip, Phases
<1>3. CASE ReadNext(s)
  <2>1. [j EXCEPT !.oldNext = GetNext(p)] \in Job BY <1>a, <1>b DEF Job, GetNext
  <2> QED BY <1>3, <2>1, ContinueType DEF ReadNext, Phases
<1>4. CASE ReorgHeight(s)
  <2> DEFINE h == GetHeight(p)
             j1 == [j EXCEPT !.height = h + 1, !.from = j.oldNext]
             j2 == [j EXCEPT !.cur = p, !.branch = << >>, !.from = NoHash]
  <2>1. h + 1 \in Int /\ << >> \in Seq(Key) /\ NoHash \in Key
    BY <1>a, <1>b DEF GetHeight, Key
  <2>2. j1 \in Job BY <2>1, <1>a, HeightFromJob
  <2>3. j2 \in Job BY <2>1, <1>a DEF Job
  <2> QED BY <1>4, <2>2, <2>3, ContinueType, ProcessEndsType DEF ReorgHeight, Phases
<1>5. CASE RetryReorg(s)
  <2>1. [j EXCEPT !.retried = TRUE] \in Job BY DEF Job
  <2> QED BY <1>5, <2>1, ContinueType DEF RetryReorg, Phases
<1>6. CASE WalkBack(s)
  <2>1. <<j.cur>> \o j.branch \in Seq(Key) BY <1>a
  <2>2. [j EXCEPT !.branch = <<j.cur>> \o @, !.top = j.cur, !.cur = GetPrev(j.cur)] \in Job
    BY <2>1, <1>a, <1>b DEF Job, GetPrev
  <2> QED BY <1>6, <2>2, ContinueType DEF WalkBack, Phases
<1>7. CASE WalkTest(s)
  <2>1. [j EXCEPT !.height = GetHeight(j.cur) + 1] \in Job BY <1>a, <1>b DEF Job, GetHeight
  <2> QED BY <1>7, <2>1, ContinueType DEF WalkTest, Phases
<1>8. CASE Connect(s)
  <2> DEFINE h == Head(j.branch)
             r == Tail(j.branch)
             j1 == [j EXCEPT !.branch = r, !.height = @ + 1]
  <2>1. CASE h \in Block /\ SetBlockMain(h, j.height)
             /\ Continue(s, IF r = << >> THEN "fork" ELSE "connect", j1)
    <3>1. DbTypeOK' BY <2>1, <1>a, HeightChangeType DEF SetBlockMain, Key, Hash
    <3>2. r \in Seq(Key) BY <1>8, <1>a DEF Connect
    <3>3. j1 \in Job BY <3>2, BranchHeightJob
    <3> QED BY <2>1, <3>1, <3>3, ContinueType DEF Phases
  <2>2. CASE ProcessEnds /\ UNCHANGED dbVars
    BY <2>2, ProcessEndsType
  <2> QED BY <1>8, <2>1, <2>2 DEF Connect
<1>9. CASE ReadFork(s)
  <2>1. [j EXCEPT !.from = GetNext(j.cur)] \in Job BY <1>a, <1>b DEF Job, GetNext
  <2> QED BY <1>9, <2>1, ContinueType DEF ReadFork, Phases
<1>10. CASE Relink(s)
  <2>1. DbTypeOK' BY <1>10, <1>a DEF Relink, SetNext, TypeOK, DbTypeOK
  <2> QED BY <1>10, <2>1, ContinueType, StartAddType DEF Relink, Phases
<1>11. CASE Orphan(s)
  <2>1. DbTypeOK' BY <1>11, <1>a, HeightChangeType DEF Orphan, SetBlockNotMain
  <2> QED BY <1>11, <2>1, ContinueType DEF Orphan, Phases
<1>12. CASE Follow(s)
  <2>1. [j EXCEPT !.from = GetNext(j.from)] \in Job BY <1>a, <1>b DEF Job, GetNext
  <2> QED BY <1>12, <2>1, ContinueType, StartAddType DEF Follow, Phases
<1>13. CASE AddTxs(s)
  BY <1>13, ContinueType DEF AddTxs, Phases
<1>14. CASE AddBlock(s)
  <2>1. DbTypeOK' BY <1>14, <1>a, AddType DEF AddBlock
  <2> QED BY <1>14, <2>1, ContinueType DEF AddBlock, Phases
<1>15. CASE MoveTip(s)
  <2>1. DbTypeOK'
    BY <1>15, <1>a DEF MoveTip, SetTip, TypeOK, DbTypeOK, At, Entry
  <2> QED BY <1>15, <2>1, ContinueType DEF MoveTip, Phases
<1>16. CASE LinkPrev(s)
  <2>1. DbTypeOK' BY <1>16, <1>a DEF LinkPrev, SetNext, TypeOK, DbTypeOK
  <2> QED BY <1>16, <2>1, AnswerType DEF LinkPrev, Replies
<1> QED
  BY <1>1, <1>2, <1>3, <1>4, <1>5, <1>6, <1>7, <1>8, <1>9, <1>10, <1>11, <1>12,
     <1>13, <1>14, <1>15, <1>16 DEF Step

(* ... and so do the calls, the timers and the failures. *)
LEMMA StoreTipBlockType ==
  ASSUME TypeOK, NEW s \in Syncer, NEW call \in Call, StoreTipBlock(s, call)
  PROVE  TypeOK'
<1>1. CASE ~storingBlock(s) /\ Begin(s, call) /\ UNCHANGED waiting
  BY <1>1, BeginType DEF StoreTipBlock, TypeOK
<1>2. CASE /\ storingBlock(s)
           /\ waiting' = [waiting EXCEPT ![s] = @ \cup {call}]
           /\ UNCHANGED <<pc, job, cachedLastHash, reply>>
  BY <1>2 DEF StoreTipBlock, TypeOK, DbTypeOK, dbVars
<1> QED BY <1>1, <1>2 DEF StoreTipBlock

LEMMA PollsType ==
  ASSUME TypeOK, NEW s \in Syncer, Polls(s)
  PROVE  TypeOK'
<1>1. PICK call \in waiting[s] : Poll(s, call) BY DEF Polls
<1>2. call \in Call /\ waiting' \in [Syncer -> SUBSET Call]
  BY <1>1 DEF Poll, TypeOK
<1> QED BY <1>1, <1>2, BeginType DEF Poll

LEMMA FaultType ==
  ASSUME TypeOK, Fault
  PROVE  TypeOK'
<1> USE DbUnchangedType
<1>1. CASE Kill
  BY <1>1, ProcessEndsType DEF Kill
<1>2. CASE Restart
  <2>1. NoEntry \in Entry BY DEF NoEntry, Entry, Key
  <2> QED BY <1>2, <2>1 DEF Restart, TypeOK, DbTypeOK
<1>3. ASSUME NEW s \in Syncer, AddTxsFails(s) \/ HeightChangeThrows(s) PROVE TypeOK'
  BY <1>3, ProcessEndsType, AnswerType DEF AddTxsFails, HeightChangeThrows, Replies
<1> QED BY <1>1, <1>2, <1>3 DEF Fault

LEMMA StutterType ==
  ASSUME TypeOK, UNCHANGED vars
  PROVE  TypeOK'
BY DEF vars, dbVars, syncVars, TypeOK, DbTypeOK

----------------------------------------------------------------------------
(* What each kind of write does to the database invariant. *)

(* Stored blocks stay stored, and a tip stays. *)
Grows == (\A k \in Key : Has(k) => Has(k)') /\ (bti # NoEntry => bti' # NoEntry)

LEMMA KeyFacts ==
  /\ Block \subseteq Key /\ Zeros \in Key /\ NoHash \in Key
  /\ Zeros \notin Block /\ NoHash \notin Block /\ Zeros # NoHash
  /\ \A b \in Block : Parent[b] \in Key /\ Depth[b] \in Nat /\ TxsOf[b] \subseteq Tx
  /\ \A b \in Block \ {Genesis} : Parent[b] \in Block /\ Depth[b] = Depth[Parent[b]] + 1
  /\ Genesis \in Block /\ Depth[Genesis] = 0 /\ Parent[Genesis] = Zeros
BY BlockTreeAssumption DEF Key, Hash

LEMMA SameDb ==
  ASSUME DbInv, UNCHANGED dbVars
  PROVE  DbInv' /\ Grows
BY DEF DbInv, LinkInv, TipInv, TruthfulTip, HeightsTruthful, TxIndexTruthful, Stored,
       Follows, Has, dbVars, Grows

LEMMA CacheDb ==
  ASSUME DbInv, CacheTip
  PROVE  DbInv' /\ Grows
BY DEF DbInv, LinkInv, TipInv, TruthfulTip, HeightsTruthful, TxIndexTruthful, Stored,
       Follows, Has, CacheTip, GetTip, Grows

LEMMA NextDb ==
  ASSUME TypeOK, DbInv, NEW k \in Key, NEW n, Stored(n), SetNext(k, n)
  PROVE  DbInv' /\ Grows
<1>1. Grows BY DEF SetNext, Grows, Has
<1>2. LinkInv' BY DEF DbInv, LinkInv, SetNext, Stored, Follows, Has, TypeOK, DbTypeOK
<1>3. TipInv' BY DEF DbInv, TipInv, TruthfulTip, SetNext, Stored, Has
<1>4. HeightsTruthful' /\ TxIndexTruthful'
  BY DEF DbInv, HeightsTruthful, TxIndexTruthful, SetNext, Has
<1> QED BY <1>1, <1>2, <1>3, <1>4 DEF DbInv

LEMMA TipDb ==
  ASSUME DbInv, NEW b, Stored(b), SetTip(b, Depth[b])
  PROVE  DbInv' /\ Grows
<1>1. At(b, Depth[b]) # NoEntry BY KeyFacts DEF At, NoEntry, Stored
<1>2. Grows BY <1>1 DEF SetTip, Grows, Has
<1>3. LinkInv' BY DEF DbInv, LinkInv, SetTip, Stored, Follows, Has
<1>4. TipInv' BY <1>1 DEF DbInv, TipInv, TruthfulTip, SetTip, Stored, Has, At
<1>5. HeightsTruthful' /\ TxIndexTruthful'
  BY DEF DbInv, HeightsTruthful, TxIndexTruthful, SetTip, Has
<1> QED BY <1>2, <1>3, <1>4, <1>5 DEF DbInv

(* A stored block gets -1 or its own height, with its transactions. *)
LEMMA HeightDb ==
  ASSUME TypeOK, DbInv, NEW b, Stored(b), NEW n \in {-1, Depth[b]}, ChangeBlockHeight(b, n)
  PROVE  DbInv' /\ Grows
<1> USE KeyFacts
<1>1. Grows BY DEF ChangeBlockHeight, Grows, Has
<1>2. LinkInv'
  BY DEF DbInv, LinkInv, ChangeBlockHeight, Stored, Follows, Has, TypeOK, DbTypeOK
<1>3. TipInv' BY DEF DbInv, TipInv, TruthfulTip, ChangeBlockHeight, Stored, Has
<1>4. HeightsTruthful'
  BY DEF DbInv, HeightsTruthful, ChangeBlockHeight, Stored, Has, TypeOK, DbTypeOK
<1>5. TxIndexTruthful'
  <2> SUFFICES ASSUME NEW t \in Tx, btx'[t] # NoEntry
               PROVE  /\ t \in TxsOf[btx'[t].hash]
                      /\ btx'[t].height = main'[btx'[t].hash]
                      /\ btx'[t].height >= 0
    BY DEF TxIndexTruthful
  <2>1. CASE t \in TxsOf[b]
    <3>1. n >= 0 /\ btx'[t] = At(b, n)
      BY <2>1 DEF ChangeBlockHeight, PutTxs, DelTxs
    <3> QED BY <2>1, <3>1 DEF ChangeBlockHeight, At, Stored, TypeOK, DbTypeOK
  <2>2. CASE t \notin TxsOf[b]
    <3>1. btx'[t] = btx[t] BY <2>2 DEF ChangeBlockHeight, PutTxs, DelTxs
    <3>2. t \in TxsOf[btx[t].hash] /\ btx[t].height = main[btx[t].hash] /\ btx[t].height >= 0
      BY <3>1 DEF DbInv, TxIndexTruthful
    <3>3. btx[t].hash # b /\ btx[t].hash \in Key
      BY <2>2, <3>2 DEF TypeOK, DbTypeOK, Entry
    <3> QED BY <3>1, <3>2, <3>3 DEF ChangeBlockHeight, TypeOK, DbTypeOK
  <2> QED BY <2>1, <2>2
<1> QED BY <1>1, <1>2, <1>3, <1>4, <1>5 DEF DbInv

(* A block is added on a stored parent with its own height. *)
LEMMA AddDb ==
  ASSUME TypeOK, DbInv, NEW b \in Block, b = Genesis \/ Stored(Parent[b]),
         b = Genesis \/ bti # NoEntry, Add(b, Depth[b])
  PROVE  DbInv' /\ Grows /\ Stored(b)'
<1> USE KeyFacts
<1>1. Grows /\ Stored(b)' BY DEF Add, Grows, Has, Stored, TypeOK, DbTypeOK
<1>2. LinkInv'
  <2>1. (~Has(Zeros) /\ ~Has(NoHash) /\ main[Zeros] = 0 /\ main[NoHash] = 0)'
    BY DEF DbInv, LinkInv, Add, Has, TypeOK, DbTypeOK
  <2>2. ASSUME NEW c \in Block, Has(c)'
        PROVE  prev'[c] = Parent[c] /\ (c = Genesis \/ Stored(Parent[c])')
    BY <1>1, <2>2 DEF DbInv, LinkInv, Add, Has, Stored, Grows, TypeOK, DbTypeOK
  <2>3. \A k \in Key : Follows(next[k])'
    BY <1>1 DEF DbInv, LinkInv, Add, Follows, Stored, Grows
  <2> QED BY <2>1, <2>2, <2>3 DEF LinkInv
<1>3. TipInv'
  BY <1>1 DEF DbInv, TipInv, TruthfulTip, Add, Has, Stored, Grows, TypeOK, DbTypeOK
<1>4. HeightsTruthful'
  BY DEF DbInv, HeightsTruthful, Add, Has, TypeOK, DbTypeOK
<1>5. TxIndexTruthful'
  <2> SUFFICES ASSUME NEW t \in Tx, btx'[t] # NoEntry
               PROVE  /\ t \in TxsOf[btx'[t].hash]
                      /\ btx'[t].height = main'[btx'[t].hash]
                      /\ btx'[t].height >= 0
    BY DEF TxIndexTruthful
  <2>1. CASE t \in TxsOf[b]
    BY <2>1 DEF Add, PutTxs, At, TypeOK, DbTypeOK
  <2>2. CASE t \notin TxsOf[b]
    <3>1. btx'[t] = btx[t] BY <2>2 DEF Add, PutTxs
    <3>2. t \in TxsOf[btx[t].hash] /\ btx[t].height = main[btx[t].hash] /\ btx[t].height >= 0
      BY <3>1 DEF DbInv, TxIndexTruthful
    <3>3. btx[t].hash # b /\ btx[t].hash \in Key
      BY <2>2, <3>2 DEF TypeOK, DbTypeOK, Entry
    <3> QED BY <3>1, <3>2, <3>3 DEF Add, TypeOK, DbTypeOK
  <2> QED BY <2>1, <2>2
<1> QED BY <1>1, <1>2, <1>3, <1>4, <1>5 DEF DbInv

(* A job that does not move keeps its invariant whatever is written. *)
LEMMA FrameJob ==
  ASSUME TypeOK, Grows, NEW s \in Syncer, JobInv(s),
         pc'[s] = pc[s], job'[s] = job[s], waiting'[s] \subseteq waiting[s],
         cachedLastHash'[s] = cachedLastHash[s]
  PROVE  JobInv(s)'
BY DEF JobInv, CallsInv, PhaseInv, CallInv, Founded, Follows, Stored, NewPrev, BranchInv, CurInv,
       Doomed, Placed, Grows, Key, Hash

LEMMA FrameCalls ==
  ASSUME TypeOK, Grows, NEW s \in Syncer, CallsInv(s), pc[s] # "idle",
         pc[s] = "check" => Founded(s),
         job'[s].blk = job[s].blk, job'[s].allow = job[s].allow, waiting'[s] = waiting[s],
         cachedLastHash'[s] \in {cachedLastHash[s], job[s].blk}
  PROVE  CallsInv(s)'
<1>1. Founded(s) BY DEF CallsInv
<1> QED BY <1>1 DEF CallsInv, CallInv, Founded, Grows

----------------------------------------------------------------------------
(* One job moves; what the others have to keep, they keep. *)

LEMMA OneMoves ==
  ASSUME IInv, TypeOK', DbInv', Grows, NEW s \in Syncer, JobInv(s)',
         \A r \in Syncer \ {s} :
           /\ pc'[r] = pc[r] /\ job'[r] = job[r] /\ waiting'[r] \subseteq waiting[r]
           /\ cachedLastHash'[r] = cachedLastHash[r]
  PROVE  IInv'
<1>1. ASSUME NEW r \in Syncer PROVE JobInv(r)'
  BY FrameJob DEF IInv
<1> QED BY <1>1 DEF IInv

LEMMA ContinueInv ==
  ASSUME IInv, TypeOK', DbInv', Grows, NEW s \in Syncer, pc[s] # "idle", NEW phase, NEW j,
         pc[s] = "check" => Founded(s), Continue(s, phase, j), j.blk = job[s].blk, j.allow = job[s].allow,
         pc'[s] = phase /\ job'[s] = j => PhaseInv(s)'
  PROVE  IInv'
<1>1. /\ pc'[s] = phase /\ job'[s] = j /\ waiting' = waiting /\ cachedLastHash' = cachedLastHash
      /\ \A r \in Syncer \ {s} : pc'[r] = pc[r] /\ job'[r] = job[r]
  BY DEF Continue, GoTo, IInv, TypeOK
<1>2. CallsInv(s)' BY <1>1, FrameCalls DEF IInv, JobInv
<1> QED BY <1>1, <1>2, OneMoves DEF JobInv

LEMMA StartAddInv ==
  ASSUME IInv, TypeOK', DbInv', Grows, NEW s \in Syncer, pc[s] \notin {"idle", "check"}, NEW j,
         StartAdd(s, j), j.blk = job[s].blk, j.allow = job[s].allow,
         job'[s] = j => Placed(s)'
  PROVE  IInv'
<1>1. /\ pc'[s] = "addTxs" /\ job'[s] = j /\ waiting' = waiting /\ cachedLastHash'[s] = j.blk
      /\ \A r \in Syncer \ {s} :
           pc'[r] = pc[r] /\ job'[r] = job[r] /\ cachedLastHash'[r] = cachedLastHash[r]
  BY DEF StartAdd, GoTo, IInv, TypeOK
<1>2. CallsInv(s)' BY <1>1, FrameCalls DEF IInv, JobInv
<1>3. PhaseInv(s)' BY <1>1 DEF PhaseInv
<1> QED BY <1>1, <1>2, <1>3, OneMoves DEF JobInv

LEMMA AnswerInv ==
  ASSUME IInv, TypeOK', DbInv', Grows, NEW s \in Syncer, NEW r, Answer(s, r)
  PROVE  IInv'
<1>1. /\ pc'[s] = "idle" /\ waiting' = waiting /\ cachedLastHash' = cachedLastHash
      /\ \A q \in Syncer \ {s} : pc'[q] = pc[q] /\ job'[q] = job[q]
  BY DEF Answer, GoTo, IInv, TypeOK
<1>2. CallsInv(s)' BY <1>1 DEF CallsInv, CallInv, Grows, IInv, JobInv
<1>3. PhaseInv(s)' BY <1>1 DEF PhaseInv
<1> QED BY <1>1, <1>2, <1>3, OneMoves DEF JobInv

LEMMA EndsInv ==
  ASSUME IInv, TypeOK', DbInv', Grows, ProcessEnds
  PROVE  IInv'
<1>1. ASSUME NEW s \in Syncer PROVE JobInv(s)'
  BY DEF ProcessEnds, JobInv, CallsInv, PhaseInv
<1> QED BY <1>1 DEF IInv

LEMMA BeginInv ==
  ASSUME IInv, TypeOK', DbInv', Grows, NEW s \in Syncer, NEW call, CallInv(call),
         call.blk \in Block, Begin(s, call), \A r \in Syncer : waiting'[r] \subseteq waiting[r]
  PROVE  IInv'
<1>1. /\ pc'[s] \in {"tip", "check"} /\ job'[s] = NewJob(call)
      /\ pc'[s] = "tip" => Parent[call.blk] = cachedLastHash[s]
      /\ cachedLastHash' = cachedLastHash
      /\ \A r \in Syncer \ {s} : pc'[r] = pc[r] /\ job'[r] = job[r]
  BY DEF Begin, GoTo, IInv, TypeOK, CallInv
<1>2. CallsInv(s)'
  <2>1. job'[s].blk = call.blk /\ job'[s].allow = call.allow BY <1>1 DEF NewJob
  <2>2. bti = NoEntry => cachedLastHash[s] \in {NoHash, Genesis} BY DEF IInv, JobInv, CallsInv
  <2>3. pc'[s] = "tip" => bti # NoEntry
    BY <1>1, <2>2, BlockTreeAssumption DEF CallInv, Hash
  <2> QED BY <1>1, <2>1, <2>2, <2>3 DEF CallsInv, CallInv, Founded, Grows, IInv, JobInv
<1>3. PhaseInv(s)' BY <1>1 DEF PhaseInv
<1> QED BY <1>1, <1>2, <1>3, OneMoves DEF JobInv

----------------------------------------------------------------------------
(* The steps of a job. *)

(* A read of the database that moves a job on. *)
LEMMA ReadInv ==
  ASSUME IInv, TypeOK', UNCHANGED dbVars, NEW s \in Syncer, pc[s] # "idle", NEW phase, NEW j,
         pc[s] = "check" => Founded(s),
         Continue(s, phase, j), j.blk = job[s].blk, j.allow = job[s].allow,
         pc'[s] = phase /\ job'[s] = j => PhaseInv(s)'
  PROVE  IInv'
BY SameDb, ContinueInv DEF IInv

(* A truthful tip and a parent that is the tip, or no tip and Genesis. *)
LEMMA PlaceOnTip ==
  ASSUME IInv, NEW s \in Syncer, Founded(s),
         GetTip = NoEntry \/ GetTip.hash = NewPrev(s)
  PROVE  /\ GetTip.height + 1 = Depth[job[s].blk]
         /\ job[s].blk = Genesis \/ Stored(NewPrev(s))
<1> USE KeyFacts
<1>1. TruthfulTip(GetTip) /\ (GetTip # NoEntry => bti # NoEntry)
  BY DEF IInv, DbInv, TipInv, GetTip
<1>2. job[s].blk \in Block BY DEF IInv, TypeOK, Job
<1>3. CASE GetTip = NoEntry
  <2>1. bti = NoEntry BY <1>3 DEF IInv, DbInv, TipInv, GetTip
  <2>2. job[s].blk = Genesis BY <2>1 DEF Founded
  <2> QED BY <1>3, <2>2 DEF NoEntry
<1>4. CASE GetTip # NoEntry
  <2>1. Stored(NewPrev(s)) /\ GetTip.height = Depth[NewPrev(s)]
    BY <1>1, <1>4 DEF TruthfulTip
  <2>2. job[s].blk # Genesis BY <2>1 DEF NewPrev, Stored
  <2> QED BY <1>2, <2>1, <2>2 DEF NewPrev
<1> QED BY <1>3, <1>4

LEMMA ReadTipInv ==
  ASSUME IInv, TypeOK', NEW s \in Syncer, ReadTip(s)
  PROVE  IInv'
<1>1. pc[s] = "tip" /\ Founded(s) BY DEF ReadTip, Waits, IInv, JobInv, CallsInv
<1>2. DbInv' /\ Grows BY CacheDb DEF IInv, ReadTip
<1>3. CASE Continue(s, "next", job[s])
  BY <1>1, <1>2, <1>3, ContinueInv DEF PhaseInv
<1>4. CASE /\ GetTip = NoEntry \/ GetTip.hash = NewPrev(s)
           /\ StartAdd(s, [job[s] EXCEPT !.height = GetTip.height + 1])
  <2> DEFINE j == [job[s] EXCEPT !.height = GetTip.height + 1]
  <2>1. j.blk = job[s].blk /\ j.allow = job[s].allow /\ j.height = GetTip.height + 1
    BY DEF IInv, TypeOK, Job
  <2>2. j.height = Depth[job[s].blk] /\ (job[s].blk = Genesis \/ Stored(NewPrev(s)))
    BY <1>1, <1>4, <2>1, PlaceOnTip
  <2>3. job'[s] = j => Placed(s)'
    BY <1>2, <2>1, <2>2, KeyFacts DEF Placed, NewPrev, Stored, Grows
  <2> QED BY <1>1, <1>2, <1>4, <2>1, <2>3, StartAddInv
<1> QED BY <1>3, <1>4 DEF ReadTip, NewPrev

LEMMA ReorgHeightInv ==
  ASSUME IInv, TypeOK', NEW s \in Syncer, ReorgHeight(s)
  PROVE  IInv'
<1> USE KeyFacts
<1> DEFINE p == NewPrev(s)
           h == main[p]
<1>1. pc[s] = "reorg" /\ Follows(job[s].oldNext) /\ UNCHANGED dbVars
  BY DEF ReorgHeight, Waits, IInv, JobInv, PhaseInv
<1>2. job[s] \in Job /\ job[s].blk \in Block /\ p \in Key /\ h \in Int
  BY DEF IInv, TypeOK, DbTypeOK, Job, NewPrev
<1>3. p = Zeros \/ p \in Block BY <1>2 DEF NewPrev
<1>4. h # 0 => Stored(p) /\ (h = -1 \/ h = Depth[p])
  <2>1. main[Zeros] = 0 /\ \A b \in Block : main[b] \in IF Has(b) THEN {-1, Depth[b]} ELSE {0}
    BY DEF IInv, DbInv, LinkInv, HeightsTruthful
  <2> QED BY <1>3, <2>1 DEF Stored
<1>5. CASE Continue(s, "timer", job[s])
  BY <1>1, <1>5, ReadInv DEF PhaseInv, Follows, Stored, Has, dbVars
<1>6. CASE ProcessEnds
  BY <1>1, <1>6, SameDb, EndsInv DEF IInv
<1>7. CASE /\ h > 0 /\ job[s].oldNext # NoHash
           /\ Continue(s, "orphan", [job[s] EXCEPT !.height = h + 1, !.from = job[s].oldNext])
  <2> DEFINE j == [job[s] EXCEPT !.height = h + 1, !.from = job[s].oldNext]
  <2>1. j.blk = job[s].blk /\ j.allow = job[s].allow /\ j.height = h + 1
        /\ j.from = job[s].oldNext
    BY <1>2 DEF Job
  <2>2. Stored(p) /\ h = Depth[p] BY <1>4, <1>7, <1>2
  <2>3. job[s].blk # Genesis BY <2>2 DEF NewPrev, Stored
  <2>4. Depth[job[s].blk] = Depth[p] + 1 BY <1>2, <2>3 DEF NewPrev
  <2>6. job'[s] = j => Placed(s)' /\ Stored(job[s].from)'
    <3>1. Stored(job[s].oldNext) BY <1>1, <1>7 DEF Follows
    <3> SUFFICES ASSUME job'[s] = j PROVE Placed(s)' /\ Stored(job[s].from)'
      OBVIOUS
    <3>2. Placed(s)'
      BY <1>1, <2>1, <2>2, <2>4 DEF Placed, NewPrev, Stored, Has, dbVars
    <3> QED BY <1>1, <2>1, <3>1, <3>2 DEF Stored, Has, dbVars
  <2>5. pc'[s] = "orphan" /\ job'[s] = j => PhaseInv(s)'
    BY <2>6 DEF PhaseInv
  <2> QED BY <1>1, <1>7, <2>1, <2>5, ReadInv
<1>8. CASE /\ h # 0
           /\ Continue(s, "walk", [job[s] EXCEPT !.cur = p, !.branch = << >>, !.from = NoHash])
  <2> DEFINE j == [job[s] EXCEPT !.cur = p, !.branch = << >>, !.from = NoHash]
  <2>1. j.blk = job[s].blk /\ j.allow = job[s].allow /\ j.cur = p /\ j.branch = << >>
    BY <1>2 DEF Job
  <2>2. pc'[s] = "walk" /\ job'[s] = j =>
           Stored(NewPrev(s))' /\ NewPrev(s)' = p /\ BranchInv(s)' /\ CurInv(s)'
    BY <1>1, <1>4, <1>8, <2>1 DEF BranchInv, CurInv, NewPrev, Stored, Has, dbVars
  <2>3. pc'[s] = "walk" /\ job'[s] = j => PhaseInv(s)'
    BY <2>2 DEF PhaseInv
  <2> QED BY <1>1, <1>8, <2>1, <2>3, ReadInv
<1> QED BY <1>2, <1>5, <1>6, <1>7, <1>8 DEF ReorgHeight, GetHeight, NewPrev

(* A stored block leads to a stored block one lower, or before Genesis. *)
LEMMA PrevOf ==
  ASSUME DbInv, NEW k
  PROVE  /\ Stored(k) => \/ prev[k] = Zeros
                         \/ Stored(prev[k]) /\ Depth[prev[k]] = Depth[k] - 1
         /\ prev[Zeros] = NoHash
<1> USE KeyFacts
<1>1. prev[Zeros] = NoHash BY DEF DbInv, LinkInv, Has
<1>2. ASSUME Stored(k), k = Genesis PROVE prev[k] = Zeros
  BY <1>2 DEF DbInv, LinkInv, Stored
<1>3. ASSUME Stored(k), k # Genesis
      PROVE  Stored(prev[k]) /\ Depth[prev[k]] = Depth[k] - 1
  <2>1. k \in Block /\ prev[k] = Parent[k] /\ Stored(Parent[k])
    BY <1>3 DEF DbInv, LinkInv, Stored
  <2>2. Depth[k] = Depth[Parent[k]] + 1 /\ Depth[k] \in Nat /\ Depth[Parent[k]] \in Nat
    BY <1>3, <2>1 DEF Stored
  <2> QED BY <2>1, <2>2
<1> QED BY <1>1, <1>2, <1>3

LEMMA WalkBackInv ==
  ASSUME IInv, TypeOK', NEW s \in Syncer, WalkBack(s)
  PROVE  IInv'
<1> USE KeyFacts
<1> DEFINE o == job[s]
           j == [o EXCEPT !.branch = <<o.cur>> \o @, !.top = o.cur, !.cur = GetPrev(o.cur)]
           D == Depth[NewPrev(s)]
<1>1. pc[s] = "walk" /\ Stored(NewPrev(s)) /\ BranchInv(s) /\ CurInv(s) /\ UNCHANGED dbVars
  BY DEF WalkBack, Waits, IInv, JobInv, PhaseInv
<1>2. o \in Job /\ o.branch \in Seq(Key) /\ o.cur \in Key /\ o.blk \in Block
  BY DEF IInv, TypeOK, Job
<1>3. /\ j.blk = o.blk /\ j.allow = o.allow
      /\ j.branch = <<o.cur>> \o o.branch /\ j.top = o.cur /\ j.cur = prev[o.cur]
  BY <1>2 DEF Job, GetPrev
<1>4. /\ Len(j.branch) = Len(o.branch) + 1 /\ j.branch # << >> /\ j.branch[1] = o.cur
      /\ \A i \in 2 .. Len(j.branch) : j.branch[i] = o.branch[i-1]
      /\ Len(o.branch) \in Nat
  BY <1>2, <1>3
<1>5. D \in Nat BY <1>1 DEF Stored
<1>6. CASE o.cur = Zeros
  <2>1. j.cur = NoHash /\ j.branch[1] = Zeros BY <1>3, <1>4, <1>6, PrevOf DEF IInv
  <2>2. pc'[s] = "walked" /\ job'[s] = j => PhaseInv(s)'
    BY <1>1, <1>3, <1>4, <2>1 DEF PhaseInv, Doomed, NewPrev, Stored, Has, dbVars
  <2> QED BY <1>1, <1>3, <2>2, ReadInv DEF WalkBack
<1>7. CASE o.cur # Zeros
  <2>1. Stored(o.cur) /\ Depth[o.cur] = D - Len(o.branch) /\ Depth[o.cur] \in Nat
    BY <1>1, <1>7 DEF CurInv, Stored
  <2>2. \/ j.cur = Zeros
        \/ Stored(j.cur) /\ Depth[j.cur] = D - Len(j.branch)
    <3>1. \/ j.cur = Zeros
          \/ Stored(j.cur) /\ Depth[j.cur] = Depth[o.cur] - 1
      BY <1>3, <2>1, PrevOf DEF IInv
    <3> QED BY <3>1, <2>1, <1>4, <1>5
  <2>3. ASSUME NEW i \in 1 .. Len(j.branch)
        PROVE  Stored(j.branch[i]) /\ Depth[j.branch[i]] = D - (Len(j.branch) - i)
    <3>1. CASE i = 1
      <4>1. j.branch[i] = o.cur BY <3>1, <1>4
      <4>2. Len(j.branch) - i = Len(o.branch) BY <3>1, <1>4
      <4> QED BY <4>1, <4>2, <2>1
    <3>2. CASE i # 1
      <4>1. i - 1 \in 1 .. Len(o.branch) /\ j.branch[i] = o.branch[i-1]
        BY <3>2, <2>3, <1>4
      <4>2. Stored(o.branch[i-1])
            /\ Depth[o.branch[i-1]] = D - (Len(o.branch) - (i - 1))
        BY <4>1, <1>1 DEF BranchInv
      <4>3. Len(o.branch) - (i - 1) = Len(j.branch) - i BY <4>1, <1>4
      <4> QED BY <4>1, <4>2, <4>3
    <3> QED BY <3>1, <3>2
  <2>4. job'[s] = j => BranchInv(s)' /\ CurInv(s)' /\ Stored(NewPrev(s))'
    BY <1>1, <1>3, <2>2, <2>3 DEF BranchInv, CurInv, NewPrev, Stored, Has, dbVars
  <2>5. pc'[s] = "walked" /\ job'[s] = j => PhaseInv(s)'
    BY <1>3, <1>4, <2>4 DEF PhaseInv
  <2> QED BY <1>1, <1>3, <2>5, ReadInv DEF WalkBack
<1> QED BY <1>6, <1>7

LEMMA WalkTestInv ==
  ASSUME IInv, TypeOK', NEW s \in Syncer, WalkTest(s)
  PROVE  IInv'
<1> USE KeyFacts
<1> DEFINE o == job[s]
           y == main[o.cur]
           D == Depth[NewPrev(s)]
<1>1. /\ pc[s] = "walked" /\ Stored(NewPrev(s)) /\ UNCHANGED dbVars
      /\ o.branch # << >> /\ o.top = o.branch[1]
      /\ (o.cur = NoHash /\ Doomed(s)) \/ (BranchInv(s) /\ CurInv(s))
  BY DEF WalkTest, Waits, IInv, JobInv, PhaseInv
<1>2. o \in Job /\ o.branch \in Seq(Key) /\ o.cur \in Key /\ o.blk \in Block /\ y \in Int
  BY DEF IInv, TypeOK, DbTypeOK, Job
<1>3. CASE o.cur # NoHash /\ y <= 0 /\ Continue(s, "walk", o)
  <2>1. job'[s] = o => BranchInv(s)' /\ CurInv(s)' /\ Stored(NewPrev(s))'
    BY <1>1, <1>3 DEF BranchInv, CurInv, NewPrev, Stored, Has, dbVars
  <2>2. pc'[s] = "walk" /\ job'[s] = o => PhaseInv(s)'
    BY <2>1 DEF PhaseInv
  <2> QED BY <1>1, <1>3, <2>2, ReadInv
<1>4. CASE (o.cur = NoHash \/ y > 0) /\ Continue(s, "connect", [o EXCEPT !.height = y + 1])
  <2> DEFINE j == [o EXCEPT !.height = y + 1]
  <2>1. /\ j.blk = o.blk /\ j.allow = o.allow /\ j.height = y + 1
        /\ j.branch = o.branch /\ j.cur = o.cur /\ j.top = o.top
    BY <1>2 DEF Job
  <2>2. CASE Doomed(s)
    <3>1. pc'[s] = "connect" /\ job'[s] = j => Doomed(s)' /\ Stored(NewPrev(s))'
      BY <1>1, <2>1, <2>2 DEF Doomed, NewPrev, Stored, Has, dbVars
    <3>2. pc'[s] = "connect" /\ job'[s] = j => PhaseInv(s)'
      BY <3>1 DEF PhaseInv
    <3> QED BY <1>1, <1>4, <2>1, <3>2, ReadInv
  <2>3. CASE BranchInv(s) /\ CurInv(s)
    <3>1. main[Zeros] = 0 /\ \A b \in Block : main[b] \in IF Has(b) THEN {-1, Depth[b]} ELSE {0}
      BY DEF IInv, DbInv, LinkInv, HeightsTruthful
    <3>2. o.cur # NoHash BY <2>3 DEF CurInv, Stored
    <3>3. y > 0 BY <1>4, <3>2
    <3>4. Stored(o.cur) /\ Depth[o.cur] = D - Len(o.branch)
      BY <2>3, <3>1, <3>3 DEF CurInv
    <3>5. y = Depth[o.cur]
      <4>1. o.cur \in Block /\ Has(o.cur) BY <3>4 DEF Stored
      <4>2. main[o.cur] \in {-1, Depth[o.cur]} BY <3>1, <4>1
      <4> QED BY <3>3, <4>2
    <3>6. Stored(o.top)
      <4>1. 1 \in 1 .. Len(o.branch) BY <1>1, <1>2
      <4> QED BY <4>1, <1>1, <2>3 DEF BranchInv
    <3>7. D \in Nat /\ Len(o.branch) \in Nat BY <1>1, <1>2 DEF Stored
    <3>8. j.height = D - Len(j.branch) + 1 BY <2>1, <3>4, <3>5, <3>7
    <3>9. job'[s] = j => /\ BranchInv(s)' /\ Stored(job[s].cur)' /\ Stored(job[s].top)'
                         /\ (job[s].height = Depth[NewPrev(s)] - Len(job[s].branch) + 1)'
                         /\ Stored(NewPrev(s))'
      BY <1>1, <2>1, <2>3, <3>4, <3>6, <3>8 DEF BranchInv, NewPrev, Stored, Has, dbVars
    <3>10. pc'[s] = "connect" /\ job'[s] = j => PhaseInv(s)'
      BY <3>9 DEF PhaseInv
    <3> QED BY <1>1, <1>4, <2>1, <3>10, ReadInv
  <2> QED BY <1>1, <2>2, <2>3
<1> QED BY <1>2, <1>3, <1>4 DEF WalkTest, GetHeight

(* Connecting a block gives it its own height, and leaves a shorter branch. *)
LEMMA ConnectInv ==
  ASSUME IInv, TypeOK', NEW s \in Syncer, Connect(s)
  PROVE  IInv'
<1> USE KeyFacts
<1> DEFINE o == job[s]
           h == Head(o.branch)
           rest == Tail(o.branch)
           j == [o EXCEPT !.branch = rest, !.height = @ + 1]
           D == Depth[NewPrev(s)]
           n == Len(o.branch)
<1>1. /\ pc[s] = "connect" /\ Stored(NewPrev(s)) /\ o.branch # << >>
      /\ \/ Doomed(s)
         \/ /\ BranchInv(s) /\ Stored(o.cur) /\ Stored(o.top)
            /\ o.height = D - n + 1
  BY DEF Connect, Waits, IInv, JobInv, PhaseInv
<1>2. o \in Job /\ o.branch \in Seq(Key) /\ o.blk \in Block /\ o.height \in Int /\ D \in Nat
  BY <1>1 DEF IInv, TypeOK, Job, Stored
<1>3. CASE ProcessEnds /\ UNCHANGED dbVars
  BY <1>3, SameDb, EndsInv DEF IInv
<1>4. CASE /\ h \in Block
           /\ SetBlockMain(h, o.height)
           /\ Continue(s, IF rest = << >> THEN "fork" ELSE "connect", j)
  <2>1. h = o.branch[1] /\ n \in Nat \ {0} /\ 1 \in 1 .. n BY <1>1, <1>2
  <2>2. BranchInv(s) /\ Stored(o.cur) /\ Stored(o.top) /\ o.height = D - n + 1
    BY <1>1, <1>4, <2>1 DEF Doomed
  <2>3. Stored(h) /\ Depth[h] = D - (n - 1) BY <2>1, <2>2 DEF BranchInv
  <2>4. o.height = Depth[h] BY <2>1, <2>2, <2>3, <1>2
  <2>5. DbInv' /\ Grows
    BY <1>4, <2>3, <2>4, HeightDb DEF SetBlockMain, IInv
  <2>6. /\ j.blk = o.blk /\ j.allow = o.allow /\ j.height = o.height + 1
        /\ j.branch = rest /\ j.cur = o.cur /\ j.top = o.top
    BY <1>2 DEF Job
  <2>7. /\ rest \in Seq(Key) /\ Len(rest) = n - 1
        /\ \A i \in 1 .. Len(rest) : rest[i] = o.branch[i+1]
    BY <1>1, <1>2, <2>1
  <2>8. CASE rest = << >>
    <3>0. Len(rest) = 0 BY <2>8
    <3>1. n = 1
      <4>1. n - 1 = 0 BY <2>7, <3>0
      <4> QED BY <4>1, <2>1
    <3>2. o.blk # Genesis /\ NewPrev(s) = Parent[o.blk] BY <1>1 DEF NewPrev, Stored
    <3>3. Depth[o.blk] = D + 1 BY <3>2, <1>2
    <3>4. j.height = Depth[o.blk]
      <4>1. o.height = D BY <3>1, <2>2, <1>2
      <4> QED BY <4>1, <3>3, <2>6
    <3>5. job'[s] = j =>
            Stored(NewPrev(s))' /\ Stored(job[s].cur)' /\ Stored(job[s].top)' /\ Placed(s)'
      BY <1>1, <2>2, <2>5, <2>6, <3>4 DEF Placed, NewPrev, Stored, Grows
    <3>6. pc'[s] = "fork" /\ job'[s] = j => PhaseInv(s)'
      BY <3>5 DEF PhaseInv
    <3>7. Continue(s, "fork", j) BY <1>4, <2>8
    <3> QED BY <1>1, <2>5, <2>6, <3>6, <3>7, ContinueInv
  <2>9. CASE rest # << >>
    <3>1. ASSUME NEW i \in 1 .. Len(rest)
          PROVE  Stored(rest[i]) /\ Depth[rest[i]] = D - (Len(rest) - i)
      <4>1. i + 1 \in 1 .. n /\ rest[i] = o.branch[i+1] BY <2>7, <2>1
      <4>2. Stored(o.branch[i+1]) /\ Depth[o.branch[i+1]] = D - (n - (i + 1))
        BY <4>1, <2>2 DEF BranchInv
      <4>3. n - (i + 1) = Len(rest) - i BY <2>7, <2>1
      <4> QED BY <4>1, <4>2, <4>3
    <3>2. j.height = D - Len(j.branch) + 1 BY <2>1, <2>2, <2>6, <2>7, <1>2
    <3>3. job'[s] = j =>
            /\ Stored(NewPrev(s))' /\ Stored(job[s].cur)' /\ Stored(job[s].top)'
            /\ BranchInv(s)'
            /\ (job[s].height = Depth[NewPrev(s)] - Len(job[s].branch) + 1)'
      BY <1>1, <2>2, <2>5, <2>6, <3>1, <3>2 DEF BranchInv, NewPrev, Stored, Grows, Key, Hash
    <3>4. pc'[s] = "connect" /\ job'[s] = j => PhaseInv(s)'
      BY <3>3 DEF PhaseInv
    <3>5. Continue(s, "connect", j) BY <1>4, <2>9
    <3> QED BY <1>1, <2>5, <2>6, <3>4, <3>5, ContinueInv
  <2> QED BY <2>8, <2>9
<1> QED BY <1>3, <1>4 DEF Connect

LEMMA ReadForkInv ==
  ASSUME IInv, TypeOK', NEW s \in Syncer, ReadFork(s)
  PROVE  IInv'
<1> USE KeyFacts
<1> DEFINE o == job[s]
           j == [o EXCEPT !.from = GetNext(o.cur)]
<1>1. /\ pc[s] = "fork" /\ Stored(NewPrev(s)) /\ Stored(o.cur) /\ Stored(o.top) /\ Placed(s)
      /\ UNCHANGED dbVars
  BY DEF ReadFork, Waits, IInv, JobInv, PhaseInv
<1>2. o \in Job BY DEF IInv, TypeOK
<1>3. /\ j.blk = o.blk /\ j.allow = o.allow /\ j.cur = o.cur /\ j.top = o.top
      /\ j.height = o.height /\ j.from = next[o.cur]
  BY <1>2 DEF Job, GetNext
<1>4. Follows(next[o.cur]) BY <1>1 DEF IInv, DbInv, LinkInv, Stored, Key, Hash
<1>5. job'[s] = j => /\ Stored(NewPrev(s))' /\ Stored(job[s].cur)' /\ Stored(job[s].top)'
                     /\ Placed(s)' /\ Follows(job[s].from)'
  BY <1>1, <1>3, <1>4 DEF Placed, NewPrev, Stored, Follows, Has, dbVars
<1>6. pc'[s] = "relink" /\ job'[s] = j => PhaseInv(s)'
  BY <1>5 DEF PhaseInv
<1> QED BY <1>1, <1>3, <1>6, ReadInv DEF ReadFork

LEMMA RelinkInv ==
  ASSUME IInv, TypeOK', NEW s \in Syncer, Relink(s)
  PROVE  IInv'
<1> USE KeyFacts
<1> DEFINE o == job[s]
<1>1. /\ pc[s] = "relink" /\ Stored(o.cur) /\ Stored(o.top) /\ Placed(s) /\ Follows(o.from)
      /\ SetNext(o.cur, o.top)
  BY DEF Relink, Waits, IInv, JobInv, PhaseInv
<1>2. DbInv' /\ Grows BY <1>1, NextDb DEF IInv, Stored
<1>3. job'[s] = o => Placed(s)'
  BY <1>1, <1>2 DEF Placed, NewPrev, Stored, Grows
<1>4. CASE StartAdd(s, o)
  BY <1>1, <1>2, <1>3, <1>4, StartAddInv
<1>5. CASE o.from # NoHash /\ Continue(s, "orphan", o)
  <2>1. job'[s] = o => Stored(job[s].from)'
    BY <1>1, <1>2, <1>5 DEF Follows, Stored, Grows
  <2>2. pc'[s] = "orphan" /\ job'[s] = o => PhaseInv(s)'
    BY <1>3, <2>1 DEF PhaseInv
  <2> QED BY <1>1, <1>2, <1>5, <2>2, ContinueInv
<1> QED BY <1>4, <1>5 DEF Relink

LEMMA OrphanInv ==
  ASSUME IInv, TypeOK', NEW s \in Syncer, Orphan(s)
  PROVE  IInv'
<1> USE KeyFacts
<1> DEFINE o == job[s]
<1>1. /\ pc[s] = "orphan" /\ Stored(o.from) /\ Placed(s)
      /\ ChangeBlockHeight(o.from, -1) /\ Continue(s, "follow", o)
  BY DEF Orphan, Waits, IInv, JobInv, PhaseInv, SetBlockNotMain
<1>2. DbInv' /\ Grows BY <1>1, HeightDb DEF IInv
<1>3. job'[s] = o => Placed(s)' /\ Stored(job[s].from)'
  BY <1>1, <1>2 DEF Placed, NewPrev, Stored, Grows
<1>4. pc'[s] = "follow" /\ job'[s] = o => PhaseInv(s)'
  BY <1>3 DEF PhaseInv
<1> QED BY <1>1, <1>2, <1>4, ContinueInv

LEMMA FollowInv ==
  ASSUME IInv, TypeOK', NEW s \in Syncer, Follow(s)
  PROVE  IInv'
<1> USE KeyFacts
<1> DEFINE o == job[s]
           j == [o EXCEPT !.from = GetNext(o.from)]
<1>1. pc[s] = "follow" /\ Stored(o.from) /\ Placed(s) /\ UNCHANGED dbVars
  BY DEF Follow, Waits, IInv, JobInv, PhaseInv
<1>2. o \in Job BY DEF IInv, TypeOK
<1>3. DbInv' /\ Grows BY <1>1, SameDb DEF IInv
<1>4. CASE StartAdd(s, o)
  <2>1. job'[s] = o => Placed(s)'
    BY <1>1, <1>3 DEF Placed, NewPrev, Stored, Grows
  <2> QED BY <1>1, <1>3, <1>4, <2>1, StartAddInv
<1>5. CASE GetNext(o.from) # NoHash /\ Continue(s, "orphan", j)
  <2>1. /\ j.blk = o.blk /\ j.allow = o.allow /\ j.height = o.height /\ j.from = next[o.from]
    BY <1>2 DEF Job, GetNext
  <2>2. Stored(next[o.from])
    BY <1>1, <1>5 DEF IInv, DbInv, LinkInv, Follows, GetNext, Stored, Key, Hash
  <2>3. job'[s] = j => Placed(s)' /\ Stored(job[s].from)'
    BY <1>1, <1>3, <2>1, <2>2 DEF Placed, NewPrev, Stored, Grows
  <2>4. pc'[s] = "orphan" /\ job'[s] = j => PhaseInv(s)'
    BY <2>3 DEF PhaseInv
  <2> QED BY <1>1, <1>5, <2>1, <2>4, ReadInv
<1> QED BY <1>4, <1>5 DEF Follow

LEMMA AddBlockInv ==
  ASSUME IInv, TypeOK', NEW s \in Syncer, AddBlock(s)
  PROVE  IInv'
<1> USE KeyFacts
<1> DEFINE o == job[s]
<1>0. PICK b \in Block : b = o.blk BY DEF IInv, TypeOK, Job
<1>1. pc[s] = "add" /\ Placed(s) /\ Add(b, Depth[b]) /\ o.allow
  BY <1>0 DEF AddBlock, Waits, IInv, JobInv, PhaseInv, CallsInv, CallInv, Placed
<1>2. DbInv' /\ Grows /\ Stored(b)'
  BY <1>0, <1>1, AddDb DEF IInv, JobInv, CallsInv, Founded, Placed, NewPrev
<1>3. job'[s] = o => Placed(s)'
  BY <1>1, <1>2 DEF Placed, NewPrev, Stored, Grows
<1>4. job'[s] = o => Stored(job[s].blk)'
  BY <1>0, <1>2 DEF Stored, Has
<1>5. pc'[s] = "setTip" /\ job'[s] = o => PhaseInv(s)'
  BY <1>3, <1>4 DEF PhaseInv
<1>6. Continue(s, "setTip", o) BY <1>1 DEF AddBlock
<1> QED BY <1>1, <1>2, <1>5, <1>6, ContinueInv

LEMMA MoveTipInv ==
  ASSUME IInv, TypeOK', NEW s \in Syncer, MoveTip(s)
  PROVE  IInv'
<1> USE KeyFacts
<1> DEFINE o == job[s]
<1>1. /\ pc[s] = "setTip" /\ Placed(s) /\ Stored(o.blk)
      /\ SetTip(o.blk, Depth[o.blk]) /\ Continue(s, "setNext", o)
  BY DEF MoveTip, Waits, IInv, JobInv, PhaseInv, Placed
<1>2. DbInv' /\ Grows BY <1>1, TipDb DEF IInv
<1>3. job'[s] = o => Placed(s)' /\ Stored(job[s].blk)'
  BY <1>1, <1>2 DEF Placed, NewPrev, Stored, Grows
<1>4. pc'[s] = "setNext" /\ job'[s] = o => PhaseInv(s)'
  BY <1>3 DEF PhaseInv
<1> QED BY <1>1, <1>2, <1>4, ContinueInv

LEMMA LinkPrevInv ==
  ASSUME IInv, TypeOK', NEW s \in Syncer, LinkPrev(s)
  PROVE  IInv'
<1>1. pc[s] = "setNext" /\ Stored(job[s].blk) /\ SetNext(Parent[job[s].blk], job[s].blk)
      /\ Answer(s, "ok")
  BY DEF LinkPrev, Waits, IInv, JobInv, PhaseInv
<1>2. Parent[job[s].blk] \in Key BY KeyFacts DEF IInv, TypeOK, Job
<1>3. DbInv' /\ Grows BY <1>1, <1>2, NextDb DEF IInv
<1> QED BY <1>1, <1>3, AnswerInv

(* The steps that read nothing the invariant depends on. *)
LEMMA PlainInv ==
  ASSUME IInv, TypeOK', NEW s \in Syncer,
         CheckPrev(s) \/ ReadNext(s) \/ RetryReorg(s) \/ AddTxs(s) \/ AddTxsFails(s)
           \/ HeightChangeThrows(s)
  PROVE  IInv'
<1> USE KeyFacts
<1> DEFINE o == job[s]
<1>0. o \in Job /\ o.blk \in Block BY DEF IInv, TypeOK, Job
<1>1. UNCHANGED dbVars
  BY DEF CheckPrev, ReadNext, RetryReorg, AddTxs, AddTxsFails, HeightChangeThrows
<1>2. DbInv' /\ Grows BY <1>1, SameDb DEF IInv
<1>3. CASE CheckPrev(s)
  <2>1. pc'[s] = "tip" => PhaseInv(s)' BY DEF PhaseInv
  <2>2. CallInv(o) /\ pc[s] = "check" BY <1>3 DEF CheckPrev, Waits, IInv, JobInv, CallsInv
  <2>3. Has(Parent[o.blk]) \/ Parent[o.blk] = Zeros => Founded(s)
    BY <1>0, <2>2, BlockTreeAssumption DEF Founded, CallInv, IInv, DbInv, LinkInv, TipInv, Hash
  <2> QED BY <1>1, <1>2, <1>3, <2>1, <2>2, <2>3, ReadInv, AnswerInv DEF CheckPrev
<1>4. CASE ReadNext(s)
  <2> DEFINE j == [o EXCEPT !.oldNext = GetNext(Parent[o.blk])]
  <2>1. j.blk = o.blk /\ j.allow = o.allow /\ j.oldNext = next[Parent[o.blk]]
    BY <1>0 DEF Job, GetNext
  <2>2. Follows(next[Parent[o.blk]]) BY <1>0 DEF IInv, DbInv, LinkInv
  <2>3. job'[s] = j => Follows(job[s].oldNext)'
    BY <1>1, <2>1, <2>2 DEF Follows, Stored, Has, dbVars
  <2>4. pc'[s] = "reorg" /\ job'[s] = j => PhaseInv(s)'
    BY <2>3 DEF PhaseInv
  <2> QED BY <1>1, <1>4, <2>1, <2>4, ReadInv DEF ReadNext, Waits
<1>5. CASE RetryReorg(s)
  <2> DEFINE j == [o EXCEPT !.retried = TRUE]
  <2>1. j.blk = o.blk /\ j.allow = o.allow /\ j.oldNext = o.oldNext
    BY <1>0 DEF Job
  <2>2. Follows(o.oldNext) BY <1>5 DEF RetryReorg, Waits, IInv, JobInv, PhaseInv
  <2>3. job'[s] = j => Follows(job[s].oldNext)'
    BY <1>1, <2>1, <2>2 DEF Follows, Stored, Has, dbVars
  <2>4. pc'[s] = "reorg" /\ job'[s] = j => PhaseInv(s)'
    BY <2>3 DEF PhaseInv
  <2> QED BY <1>1, <1>5, <2>1, <2>4, ReadInv DEF RetryReorg, Waits
<1>6. CASE AddTxs(s)
  <2>1. Placed(s) BY <1>6 DEF AddTxs, Waits, IInv, JobInv, PhaseInv
  <2>2. job'[s] = o => Placed(s)'
    BY <1>2, <2>1 DEF Placed, NewPrev, Stored, Grows
  <2>3. pc'[s] = "add" /\ job'[s] = o => PhaseInv(s)'
    BY <2>2 DEF PhaseInv
  <2> QED BY <1>1, <1>6, <2>3, ReadInv DEF AddTxs, Waits
<1>7. CASE AddTxsFails(s)
  BY <1>2, <1>7, AnswerInv DEF AddTxsFails
<1>8. CASE HeightChangeThrows(s)
  BY <1>2, <1>8, EndsInv DEF HeightChangeThrows
<1> QED BY <1>3, <1>4, <1>5, <1>6, <1>7, <1>8

LEMMA StepInv ==
  ASSUME IInv, TypeOK', NEW s \in Syncer, Step(s)
  PROVE  IInv'
BY ReadTipInv, ReorgHeightInv, WalkBackInv, WalkTestInv, ConnectInv, ReadForkInv, RelinkInv,
   OrphanInv, FollowInv, AddBlockInv, MoveTipInv, LinkPrevInv, PlainInv DEF Step

(* One job moves, or the process ends. *)
LEMMA MovesOne ==
  ASSUME IInv, NEW s \in Syncer, Step(s)
  PROVE  \/ crashed' /\ \A r \in Syncer : pc'[r] = "idle"
         \/ /\ crashed' = crashed
            /\ \A r \in Syncer \ {s} : pc'[r] = pc[r] /\ job'[r] = job[r]
            /\ pc[s] = "add" => pc'[s] = "setTip"
            /\ pc'[s] = "add" => pc[s] = "addTxs" /\ job'[s] = job[s]
            /\ pc'[s] = "setNext" => pc[s] = "setTip"
            /\ pc'[s] = "idle" /\ reply'[s] = "ok" => pc[s] = "setNext"
<1> USE DEF IInv, TypeOK, GoTo, Continue, StartAdd, Answer, ProcessEnds, Waits
<1>1. CASE CheckPrev(s) \/ ReadTip(s) \/ ReadNext(s) \/ RetryReorg(s)
  BY <1>1 DEF CheckPrev, ReadTip, ReadNext, RetryReorg
<1>2. CASE ReorgHeight(s) BY <1>2 DEF ReorgHeight
<1>3. CASE WalkBack(s) \/ WalkTest(s) BY <1>3 DEF WalkBack, WalkTest
<1>4. CASE Connect(s) BY <1>4 DEF Connect
<1>5. CASE ReadFork(s) \/ Relink(s) BY <1>5 DEF ReadFork, Relink
<1>6. CASE Orphan(s) \/ Follow(s) BY <1>6 DEF Orphan, Follow
<1>7. CASE AddTxs(s) BY <1>7 DEF AddTxs
<1>8. CASE AddBlock(s) BY <1>8 DEF AddBlock, JobInv, CallsInv, CallInv
<1>9. CASE MoveTip(s) \/ LinkPrev(s) BY <1>9 DEF MoveTip, LinkPrev
<1> QED BY <1>1, <1>2, <1>3, <1>4, <1>5, <1>6, <1>7, <1>8, <1>9 DEF Step

(* A tip stays, and setTip sets one. *)
LEMMA StepTip ==
  ASSUME IInv, NEW s \in Syncer, Step(s), bti # NoEntry \/ pc[s] = "setTip"
  PROVE  bti' # NoEntry
<1>1. CASE MoveTip(s)
  <2>1. job[s].blk # NoHash BY KeyFacts DEF IInv, TypeOK, Job
  <2> QED BY <1>1, <2>1 DEF MoveTip, SetTip, At, NoEntry
<1>2. CASE ~MoveTip(s)
  <2>1. bti' = bti
    BY <1>2 DEF Step, CheckPrev, ReadTip, CacheTip, ReadNext, ReorgHeight, RetryReorg, WalkBack,
       WalkTest, Connect, SetBlockMain, ReadFork, Relink, SetNext, Orphan, SetBlockNotMain,
       ChangeBlockHeight, Follow, AddTxs, AddBlock, Add, LinkPrev, dbVars
  <2>2. pc[s] # "setTip"
    BY <1>2 DEF Step, CheckPrev, ReadTip, ReadNext, ReorgHeight, RetryReorg, WalkBack, WalkTest,
       Connect, ReadFork, Relink, Orphan, Follow, AddTxs, AddBlock, LinkPrev, Waits
  <2> QED BY <2>1, <2>2
<1> QED BY <1>1, <1>2

LEMMA StepGrows ==
  ASSUME IInv, NEW s \in Syncer, Step(s)
  PROVE  Grows
<1>1. CASE AddBlock(s)
  <2>1. job[s].blk \in Block /\ Parent[job[s].blk] # NoHash
    BY BlockTreeAssumption DEF IInv, TypeOK, Job
  <2> QED BY <1>1, <2>1 DEF AddBlock, Add, Grows, Has, IInv, TypeOK, DbTypeOK
<1>2. CASE ~AddBlock(s)
  <2>1. prev' = prev
    BY <1>2 DEF Step, CheckPrev, ReadTip, CacheTip, ReadNext, ReorgHeight, RetryReorg, WalkBack,
       WalkTest, Connect, SetBlockMain, ReadFork, Relink, SetNext, Orphan, SetBlockNotMain,
       ChangeBlockHeight, Follow, AddTxs, MoveTip, SetTip, LinkPrev, dbVars
  <2> QED BY <2>1, StepTip DEF Grows, Has
<1> QED BY <1>1, <1>2

----------------------------------------------------------------------------
(* Calls, timers, failures and restarts. *)

LEMMA StoreTipBlockInv ==
  ASSUME IInv, TypeOK', NEW s \in Syncer, NEW call \in Call, CallInv(call), StoreTipBlock(s, call)
  PROVE  IInv'
<1>1. DbInv' /\ Grows BY SameDb DEF IInv, StoreTipBlock
<1>2. CASE Begin(s, call) /\ UNCHANGED waiting
  BY <1>1, <1>2, BeginInv DEF Call
<1>3. CASE /\ storingBlock(s)
           /\ waiting' = [waiting EXCEPT ![s] = @ \cup {call}]
           /\ UNCHANGED <<pc, job, cachedLastHash, reply>>
  <2>1. CallsInv(s)'
    BY <1>1, <1>3 DEF CallsInv, CallInv, Founded, Grows, IInv, JobInv, TypeOK
  <2>2. PhaseInv(s)'
    BY <1>3 DEF StoreTipBlock, IInv, JobInv, PhaseInv, Follows, Stored, NewPrev,
                BranchInv, CurInv, Doomed, Placed, Has, dbVars
  <2>3. \A r \in Syncer \ {s} :
          /\ pc'[r] = pc[r] /\ job'[r] = job[r] /\ waiting'[r] \subseteq waiting[r]
          /\ cachedLastHash'[r] = cachedLastHash[r]
    BY <1>3 DEF IInv, TypeOK
  <2> QED BY <1>1, <2>1, <2>2, <2>3, OneMoves DEF JobInv
<1> QED BY <1>2, <1>3 DEF StoreTipBlock

LEMMA PollsInv ==
  ASSUME IInv, TypeOK', NEW s \in Syncer, Polls(s)
  PROVE  IInv'
<1>1. PICK call \in waiting[s] : Poll(s, call) BY DEF Polls
<1>2. CallInv(call) /\ call.blk \in Block BY DEF IInv, TypeOK, Call, JobInv, CallsInv
<1>3. DbInv' /\ Grows BY <1>1, SameDb DEF IInv, Poll
<1>4. \A r \in Syncer : waiting'[r] \subseteq waiting[r]
  BY <1>1 DEF Poll, IInv, TypeOK
<1> QED BY <1>1, <1>2, <1>3, <1>4, BeginInv DEF Poll

(* Nothing the disk holds depends on the memory a restart empties. *)
LEMMA RestartInv ==
  ASSUME IInv, TypeOK', Restart
  PROVE  IInv'
<1>1. DbInv' /\ Grows
  BY DEF IInv, DbInv, LinkInv, TipInv, TruthfulTip, HeightsTruthful, TxIndexTruthful, Stored,
         Follows, Has, Restart, Grows
<1>2. ASSUME NEW s \in Syncer PROVE JobInv(s)'
  BY <1>1, FrameJob DEF IInv, Restart
<1> QED BY <1>1, <1>2 DEF IInv

LEMMA FaultInv ==
  ASSUME IInv, TypeOK', Fault
  PROVE  IInv'
<1>1. CASE Kill
  BY <1>1, SameDb, EndsInv DEF IInv, Kill
<1>2. CASE Restart
  BY <1>2, RestartInv
<1>3. ASSUME NEW s \in Syncer, AddTxsFails(s) \/ HeightChangeThrows(s) PROVE IInv'
  BY <1>3, PlainInv
<1> QED BY <1>1, <1>2, <1>3 DEF Fault

LEMMA StutterInv ==
  ASSUME IInv, UNCHANGED vars
  PROVE  IInv'
<1>1. TypeOK' BY StutterType DEF IInv
<1>2. DbInv' /\ Grows BY SameDb DEF IInv, vars
<1>3. ASSUME NEW s \in Syncer PROVE JobInv(s)'
  BY <1>2, FrameJob DEF IInv, vars, syncVars
<1> QED BY <1>1, <1>2, <1>3 DEF IInv

LEMMA InitInv == Init => IInv
<1> SUFFICES ASSUME Init PROVE IInv
  OBVIOUS
<1>1. TypeOK BY TypeInit
<1>2. LinkInv BY KeyFacts DEF Init, DbInit, LinkInv, Has, Follows
<1>3. TipInv BY KeyFacts DEF Init, DbInit, TipInv, TruthfulTip, Has
<1>4. HeightsTruthful BY KeyFacts DEF Init, DbInit, HeightsTruthful, Has
<1>5. TxIndexTruthful BY DEF Init, DbInit, TxIndexTruthful
<1>6. ASSUME NEW s \in Syncer PROVE JobInv(s)
  BY DEF Init, SyncInit, JobInv, CallsInv, PhaseInv
<1> QED BY <1>1, <1>2, <1>3, <1>4, <1>5, <1>6 DEF IInv, DbInv

(* What others do to the store: a read of the tip, or of nothing, ...      *)
LEMMA ReaderInv ==
  ASSUME IInv, UNCHANGED syncVars, CacheTip \/ UNCHANGED dbVars
  PROVE  IInv'
<1>1. CASE UNCHANGED dbVars BY <1>1, StutterInv DEF vars
<1>2. CASE CacheTip
  <2>1. TypeOK' BY <1>2 DEF IInv, TypeOK, DbTypeOK, CacheTip, GetTip, syncVars
  <2>2. DbInv' /\ Grows BY <1>2, CacheDb DEF IInv
  <2>3. ASSUME NEW s \in Syncer PROVE JobInv(s)'
    BY <2>2, FrameJob DEF IInv, syncVars
  <2> QED BY <2>1, <2>2, <2>3 DEF IInv
<1> QED BY <1>1, <1>2

(* ... and the end of the process. *)
LEMMA HaltInv ==
  ASSUME IInv, UNCHANGED dbVars, UNCHANGED syncVars \/ ProcessEnds
  PROVE  IInv'
<1>1. CASE UNCHANGED syncVars BY <1>1, StutterInv DEF vars
<1>2. CASE ProcessEnds
  <2>1. TypeOK' BY <1>2, DbUnchangedType, ProcessEndsType DEF IInv
  <2>2. DbInv' /\ Grows BY SameDb DEF IInv
  <2> QED BY <1>2, <2>1, <2>2, EndsInv
<1> QED BY <1>1, <1>2

----------------------------------------------------------------------------
(* The abstract store. *)

LEMMA InitRefines == Init => Abstract!Init
BY KeyFacts DEF Init, DbInit, Abstract!Init, Has, NoEntry

(* A batch that adds a block stores it ... *)
LEMMA AddRefines ==
  ASSUME IInv, NEW s \in Syncer, AddBlock(s)
  PROVE  Abstract!Next
<1> USE KeyFacts
<1>1. PICK b \in Block : b = job[s].blk BY DEF IInv, TypeOK, Job
<1>2. Placed(s) /\ Add(b, job[s].height)
  BY <1>1 DEF AddBlock, Waits, IInv, JobInv, PhaseInv
<1>3. b = Genesis \/ Parent[b] \in {k \in Block : Has(k)}
  BY <1>1, <1>2 DEF Placed, NewPrev, Stored
<1>4. \A k \in Block : Has(k)' <=> Has(k) \/ k = b
  BY <1>2 DEF Add, Has, IInv, TypeOK, DbTypeOK
<1>5. {k \in Block : Has(k)}' = {k \in Block : Has(k)} \cup {b}
  BY <1>4
<1>6. bti' = bti BY <1>2 DEF Add
<1>7. Abstract!Store(b) BY <1>3, <1>5, <1>6 DEF Abstract!Store
<1> QED BY <1>7 DEF Abstract!Next

(* ... setTip adopts it ... *)
LEMMA TipRefines ==
  ASSUME IInv, NEW s \in Syncer, MoveTip(s)
  PROVE  Abstract!Next
<1>1. PICK b \in Block : b = job[s].blk BY DEF IInv, TypeOK, Job
<1>2. Stored(b) /\ SetTip(b, Depth[b])
  BY <1>1 DEF MoveTip, Waits, IInv, JobInv, PhaseInv, Placed
<1>3. {k \in Block : Has(k)}' = {k \in Block : Has(k)} BY <1>2 DEF SetTip, Has
<1>4. <<bti.hash, bti.height>>' = <<b, Depth[b]>> BY <1>2 DEF SetTip, At
<1>5. Abstract!Adopt(b) BY <1>2, <1>3, <1>4 DEF Abstract!Adopt, Stored
<1> QED BY <1>5 DEF Abstract!Next

(* ... and nothing else shows. *)
LEMMA StutterRefines ==
  ASSUME prev' = prev, bti' = bti
  PROVE  UNCHANGED <<{k \in Block : Has(k)}, <<bti.hash, bti.height>>>>
BY DEF Has

(* The variables of BestChain. *)
Shown == <<{b \in Block : Has(b)}, <<bti.hash, bti.height>>>>

LEMMA StepRefines ==
  ASSUME IInv, NEW s \in Syncer, Step(s)
  PROVE  [Abstract!Next]_Shown
<1>1. CASE AddBlock(s) \/ MoveTip(s)
  BY <1>1, AddRefines, TipRefines
<1>2. CASE ~(AddBlock(s) \/ MoveTip(s))
  <2>1. prev' = prev /\ bti' = bti
    BY <1>2 DEF Step, CheckPrev, ReadTip, CacheTip, ReadNext, ReorgHeight, RetryReorg, WalkBack,
       WalkTest, Connect, SetBlockMain, ReadFork, Relink, SetNext, Orphan, SetBlockNotMain,
       ChangeBlockHeight, Follow, AddTxs, LinkPrev, dbVars
  <2> QED BY <2>1, StutterRefines DEF Shown
<1> QED BY <1>1, <1>2

LEMMA OthersStutter ==
  ASSUME \/ Fault \/ UNCHANGED vars
         \/ \E s \in Syncer : Polls(s) \/ \E call \in Call : StoreTipBlock(s, call)
  PROVE  UNCHANGED Shown
<1>1. prev' = prev /\ bti' = bti
  BY DEF Fault, Kill, Restart, AddTxsFails, HeightChangeThrows, StoreTipBlock, Polls, Poll,
         vars, dbVars
<1> QED BY <1>1, StutterRefines DEF Shown

----------------------------------------------------------------------------
(* Numbers and finite sets: the induction that what follows rests on.      *)

(* A set of natural numbers has a least one. *)
LEMMA Least ==
  ASSUME NEW S \in SUBSET Nat, S # {}
  PROVE  \E n \in S : \A m \in S : n <= m
<1>1. IsWellFoundedOn(OpToRel(<, Nat), Nat) BY NatLessThanWellFounded
<1>2. PICK n \in S : \A m \in S : ~(<<m, n>> \in OpToRel(<, Nat)) BY <1>1, WFMin
<1>3. \A m \in S : ~(m < n) BY <1>2 DEF OpToRel
<1> QED BY <1>3

(* What holds of a set once it holds of all that have one element less     *)
(* holds of every finite set: there is no smallest one it does not hold of.*)
LEMMA SmallerSets ==
  ASSUME NEW T, IsFiniteSet(T), NEW Good,
         \A s \in SUBSET T : (\A x \in s : s \ {x} \in Good) => s \in Good
  PROVE  \A s \in SUBSET T : s \in Good
<1> SUFFICES ASSUME NEW t \in SUBSET T, t \notin Good PROVE FALSE OBVIOUS
<1> DEFINE Bad == {s \in SUBSET T : s \notin Good}
           Sizes == {Cardinality(s) : s \in Bad}
<1>1. \A s \in SUBSET T : IsFiniteSet(s) /\ Cardinality(s) \in Nat
  BY FS_Subset, FS_CardinalityType
<1>2. Sizes \in SUBSET Nat /\ Cardinality(t) \in Sizes BY <1>1
<1>3. PICK n \in Sizes : \A m \in Sizes : n <= m BY <1>2, Least
<1>4. PICK s \in Bad : Cardinality(s) = n BY <1>3
<1>5. PICK x \in s : s \ {x} \notin Good BY <1>4
<1>6. s \ {x} \in Bad /\ Cardinality(s \ {x}) = n - 1
  BY <1>1, <1>4, <1>5, FS_RemoveElement
<1>7. n - 1 \in Sizes /\ n \in Nat BY <1>2, <1>6
<1> QED BY <1>3, <1>7

(* A fold over the subsets of a finite set has a value for each of them,   *)
(* whichever element it takes out of them first.                           *)
FoldsBy(f, D, base, pick, G) ==
  f = [s \in D |-> IF s = {} THEN base ELSE G[<<pick[s], f[s \ {pick[s]}]>>]]

LEMMA FoldExists ==
  ASSUME NEW T, IsFiniteSet(T), NEW Typ, NEW base \in Typ, NEW G \in [T \X Typ -> Typ],
         NEW pick, \A s \in (SUBSET T) \ {{}} : pick[s] \in s
  PROVE  \E f \in [SUBSET T -> Typ] : FoldsBy(f, SUBSET T, base, pick, G)
<1> DEFINE Upto(n) == {s \in SUBSET T : Cardinality(s) <= n}
           Solved == {n \in Nat : \E f \in [Upto(n) -> Typ] : FoldsBy(f, Upto(n), base, pick, G)}
<1>1. \A s \in SUBSET T : IsFiniteSet(s) /\ Cardinality(s) \in Nat
  BY FS_Subset, FS_CardinalityType
<1>2. 0 \in Solved
  <2>1. \A s \in Upto(0) : s = {} BY <1>1, FS_EmptySet
  <2> DEFINE f == [s \in Upto(0) |-> base]
  <2>2. f \in [Upto(0) -> Typ] OBVIOUS
  <2>3. FoldsBy(f, Upto(0), base, pick, G) BY <2>1 DEF FoldsBy
  <2> QED BY <2>2, <2>3
<1>3. ASSUME NEW n \in Nat, n \in Solved PROVE n + 1 \in Solved
  <2>1. PICK f \in [Upto(n) -> Typ] : FoldsBy(f, Upto(n), base, pick, G) BY <1>3
  <2> DEFINE D == Upto(n + 1)
             g == [s \in D |-> IF s = {} THEN base ELSE G[<<pick[s], f[s \ {pick[s]}]>>]]
  <2>2. \A s \in D \ {{}} : pick[s] \in s /\ pick[s] \in T /\ s \ {pick[s]} \in Upto(n)
    <3> SUFFICES ASSUME NEW s \in D, s # {}
                 PROVE  pick[s] \in s /\ pick[s] \in T /\ s \ {pick[s]} \in Upto(n)
      OBVIOUS
    <3>1. pick[s] \in s OBVIOUS
    <3>2. Cardinality(s \ {pick[s]}) = Cardinality(s) - 1 BY <1>1, <3>1, FS_RemoveElement
    <3>3. Cardinality(s) \in Nat /\ Cardinality(s) <= n + 1 BY <1>1
    <3> QED BY <3>1, <3>2, <3>3
  <2>3. \A s \in D \ {{}} : f[s \ {pick[s]}] \in Typ BY <2>2
  <2>4. \A s \in D : (IF s = {} THEN base ELSE G[<<pick[s], f[s \ {pick[s]}]>>]) \in Typ
    <3>1. \A x \in T, v \in Typ : G[<<x, v>>] \in Typ OBVIOUS
    <3> QED BY <2>2, <2>3, <3>1
  <2>5. g \in [D -> Typ] BY <2>4
  <2>6. ASSUME NEW s \in Upto(n) PROVE s \in D /\ g[s] = f[s]
    <3>1. s \in D BY <1>1
    <3>2. f[s] = IF s = {} THEN base ELSE G[<<pick[s], f[s \ {pick[s]}]>>] BY <2>1 DEF FoldsBy
    <3> QED BY <3>1, <3>2
  <2>7. \A s \in D \ {{}} : g[s \ {pick[s]}] = f[s \ {pick[s]}] BY <2>2, <2>6
  <2>8. g = [s \in D |-> IF s = {} THEN base ELSE G[<<pick[s], g[s \ {pick[s]}]>>]] BY <2>7
  <2> HIDE DEF g, D
  <2>9. FoldsBy(g, D, base, pick, G) BY <2>8 DEF FoldsBy
  <2>10. \E k \in [D -> Typ] : FoldsBy(k, D, base, pick, G) BY <2>5, <2>9
  <2>11. n + 1 \in Nat OBVIOUS
  <2> QED BY <2>10, <2>11 DEF D
<1> HIDE DEF Solved
<1>4. Nat \subseteq Solved
  <2> SUFFICES ASSUME Nat \ Solved # {} PROVE FALSE OBVIOUS
  <2>1. PICK n \in Nat \ Solved : \A m \in Nat \ Solved : n <= m BY Least
  <2>2. n # 0 BY <1>2
  <2>3. n - 1 \in Nat /\ n - 1 \in Solved BY <2>1, <2>2
  <2>4. (n - 1) + 1 \in Solved BY <1>3, <2>3
  <2> QED BY <2>1, <2>4
<1>5. Upto(Cardinality(T)) = SUBSET T /\ Cardinality(T) \in Nat
  BY <1>1, FS_Subset
<1>6. Cardinality(T) \in Solved BY <1>4, <1>5
<1>7. \E f \in [Upto(Cardinality(T)) -> Typ] : FoldsBy(f, Upto(Cardinality(T)), base, pick, G)
  BY <1>6 DEF Solved
<1> HIDE DEF Upto
<1> QED BY <1>5, <1>7

----------------------------------------------------------------------------
(* Chains: what the recursive function Chain of module Sync gives, the     *)
(* equation of its definition, and by it that a chain consists of blocks,  *)
(* reaches down to Genesis, and leads up again from each of its blocks.    *)

(* The equation has a solution: the blocks in every set that holds b and   *)
(* the parents of what it holds.                                           *)
HoldsParents(S) == \A x \in S \ {Genesis} : Parent[x] \in S
Below(b) == {a \in Block : \A S \in SUBSET Block : b \in S /\ HoldsParents(S) => a \in S}
Unfolded(C) == [b \in Block |-> {b} \cup (IF b = Genesis THEN {} ELSE C[Parent[b]])]

LEMMA ParentIsBlock == \A b \in Block \ {Genesis} : Parent[b] \in Block
BY BlockTreeAssumption DEF Hash

LEMMA BelowFacts ==
  ASSUME NEW b \in Block
  PROVE  /\ b \in Below(b) /\ Below(b) \subseteq Block /\ HoldsParents(Below(b))
         /\ \A S \in SUBSET Block : b \in S /\ HoldsParents(S) => Below(b) \subseteq S
<1>1. b \in Below(b) /\ Below(b) \subseteq Block BY DEF Below
<1>2. ASSUME NEW S \in SUBSET Block, b \in S, HoldsParents(S), NEW a \in Below(b)
      PROVE  a \in S
  BY <1>2 DEF Below
<1>3. ASSUME NEW x \in Below(b) \ {Genesis} PROVE Parent[x] \in Below(b)
  <2>1. Parent[x] \in Block BY <1>1, ParentIsBlock
  <2>2. ASSUME NEW S \in SUBSET Block, b \in S, HoldsParents(S) PROVE Parent[x] \in S
    <3>1. x \in S BY <1>2, <2>2
    <3> QED BY <2>2, <3>1 DEF HoldsParents
  <2> QED BY <2>1, <2>2 DEF Below
<1>4. HoldsParents(Below(b)) BY <1>3 DEF HoldsParents
<1> QED BY <1>1, <1>2, <1>4

LEMMA BelowUnfolds ==
  ASSUME NEW b \in Block
  PROVE  Below(b) = {b} \cup (IF b = Genesis THEN {} ELSE Below(Parent[b]))
<1>1. CASE b = Genesis
  <2>1. HoldsParents({b}) BY <1>1 DEF HoldsParents
  <2>2. Below(b) \subseteq {b} BY <2>1, BelowFacts
  <2> QED BY <1>1, <2>2, BelowFacts
<1>2. CASE b # Genesis
  <2> DEFINE p == Parent[b]
  <2>1. p \in Block BY <1>2, ParentIsBlock
  <2>2. p \in Below(p) /\ Below(p) \subseteq Block /\ HoldsParents(Below(p))
    BY <2>1, BelowFacts
  <2>3. p \in Below(b) BY <1>2, BelowFacts DEF HoldsParents
  <2>4. Below(p) \subseteq Below(b) BY <2>1, <2>3, BelowFacts
  <2>5. HoldsParents({b} \cup Below(p)) BY <2>2 DEF HoldsParents
  <2>6. Below(b) \subseteq {b} \cup Below(p) BY <2>2, <2>5, BelowFacts
  <2>7. b \in Below(b) BY BelowFacts
  <2> HIDE DEF p
  <2>8. Below(b) = {b} \cup Below(p) BY <2>4, <2>6, <2>7
  <2> QED BY <1>2, <2>8 DEF p
<1> QED BY <1>1, <1>2

LEMMA ChainEquation ==
  \A b \in Block : Chain[b] = {b} \cup (IF b = Genesis THEN {} ELSE Chain[Parent[b]])
<1> DEFINE F == [b \in Block |-> Below(b)]
<1>1. ASSUME NEW b \in Block PROVE F[b] = Unfolded(F)[b]
  BY BelowUnfolds, ParentIsBlock DEF Unfolded
<1>2. F = Unfolded(F) BY <1>1 DEF Unfolded
<1>3. Down = CHOOSE C : C = Unfolded(C) BY DEF Down, Unfolded
<1> HIDE DEF F
<1>4. Down = Unfolded(Down) BY <1>2, <1>3
<1>5. \A b \in Block :
        /\ Chain[b] = Down[b]
        /\ Down[b] = {b} \cup (IF b = Genesis THEN {} ELSE Down[Parent[b]])
  BY <1>4 DEF Unfolded, Chain
<1>6. \A b \in Block \ {Genesis} : Parent[b] \in Block BY ParentIsBlock
<1> QED BY <1>5, <1>6

(* A chain consists of blocks, goes down to Genesis, and each of its blocks *)
(* but the first has its successor in it: by induction on the depth.        *)
LEMMA ChainFacts ==
  ASSUME NEW n \in Block
  PROVE  /\ Chain[n] \subseteq Block
         /\ n \in Chain[n] /\ Genesis \in Chain[n]
         /\ \A b \in Chain[n] \ {n} : \E c \in Chain[n] : Parent[c] = b
<1> DEFINE Good(b) == /\ Chain[b] \subseteq Block
                      /\ b \in Chain[b] /\ Genesis \in Chain[b]
                      /\ \A a \in Chain[b] \ {b} : \E c \in Chain[b] : Parent[c] = a
           Bad == {b \in Block : ~Good(b)}
           Depths == {Depth[b] : b \in Bad}
<1>1. ASSUME Bad # {} PROVE FALSE
  <2>1. Depths \in SUBSET Nat /\ Depths # {} BY <1>1, BlockTreeAssumption
  <2>2. PICK d \in Depths : \A x \in Depths : d <= x BY <2>1, Least
  <2>3. PICK b \in Bad : d = Depth[b] OBVIOUS
  <2>4. b \in Block /\ Chain[b] = {b} \cup (IF b = Genesis THEN {} ELSE Chain[Parent[b]])
    BY ChainEquation
  <2>5. CASE b = Genesis
    <3>1. Good(b) BY <2>4, <2>5
    <3> QED BY <3>1
  <2>6. CASE b # Genesis
    <3> DEFINE p == Parent[b]
    <3>1. p \in Block /\ Depth[b] = Depth[p] + 1 /\ Depth[p] \in Nat
      BY <2>4, <2>6, BlockTreeAssumption DEF Hash
    <3>2. Good(p)
      <4>1. CASE p \in Bad
        <5>1. Depth[p] \in Depths BY <4>1
        <5>2. d <= Depth[p] BY <2>2, <5>1
        <5> QED BY <2>3, <3>1, <5>2
      <4> QED BY <3>1, <4>1
    <3>3. Chain[b] = {b} \cup Chain[p] BY <2>4, <2>6
    <3>4. Good(b) BY <2>4, <3>2, <3>3
    <3> QED BY <3>4
  <2> QED BY <2>5, <2>6
<1> QED BY <1>1

(* A chain holds the parents and the chains of its blocks, all of them lower *)
(* than its end, and any two of them are one below the other.                *)
LEMMA ChainOrder ==
  ASSUME NEW n \in Block
  PROVE  /\ \A a \in Chain[n] \ {Genesis} : Parent[a] \in Chain[n]
         /\ \A a \in Chain[n] : Chain[a] \subseteq Chain[n]
         /\ \A a \in Chain[n] \ {n} : Depth[a] < Depth[n]
         /\ \A x, y \in Chain[n] : x \in Chain[y] \/ y \in Chain[x]
<1> DEFINE Good(b) == /\ \A a \in Chain[b] \ {Genesis} : Parent[a] \in Chain[b]
                      /\ \A a \in Chain[b] : Chain[a] \subseteq Chain[b]
                      /\ \A a \in Chain[b] \ {b} : Depth[a] < Depth[b]
                      /\ \A x, y \in Chain[b] : x \in Chain[y] \/ y \in Chain[x]
           Bad == {b \in Block : ~Good(b)}
           Depths == {Depth[b] : b \in Bad}
<1>1. ASSUME Bad # {} PROVE FALSE
  <2>1. Depths \in SUBSET Nat /\ Depths # {} BY <1>1, BlockTreeAssumption
  <2>2. PICK d \in Depths : \A x \in Depths : d <= x BY <2>1, Least
  <2>3. PICK b \in Bad : d = Depth[b] OBVIOUS
  <2>4. b \in Block /\ Chain[b] = {b} \cup (IF b = Genesis THEN {} ELSE Chain[Parent[b]])
    BY ChainEquation
  <2>5. CASE b = Genesis
    <3>1. Chain[b] = {b} BY <2>4, <2>5
    <3>2. Good(b) BY <2>5, <3>1
    <3> QED BY <3>2
  <2>6. CASE b # Genesis
    <3> DEFINE p == Parent[b]
    <3>1. p \in Block /\ Depth[b] = Depth[p] + 1 /\ Depth[p] \in Nat
      BY <2>4, <2>6, BlockTreeAssumption DEF Hash
    <3>2. Good(p)
      <4>1. CASE p \in Bad
        <5>1. Depth[p] \in Depths BY <4>1
        <5>2. d <= Depth[p] BY <2>2, <5>1
        <5> QED BY <2>3, <3>1, <5>2
      <4> QED BY <3>1, <4>1
    <3>3. Chain[b] = {b} \cup Chain[p] BY <2>4, <2>6
    <3>4. p \in Chain[p] /\ Chain[p] \subseteq Block BY <3>1, ChainFacts
    <3>5. \A a \in Chain[b] \ {Genesis} : Parent[a] \in Chain[b]
      BY <3>2, <3>3, <3>4
    <3>6. \A a \in Chain[b] : Chain[a] \subseteq Chain[b]
      BY <3>2, <3>3
    <3>7. ASSUME NEW a \in Chain[b] \ {b} PROVE Depth[a] < Depth[b]
      <4>1. a \in Chain[p] /\ Depth[a] \in Nat
        BY <3>3, <3>4, <3>7, BlockTreeAssumption
      <4>2. a = p \/ Depth[a] < Depth[p] BY <3>2, <4>1
      <4> QED BY <3>1, <4>1, <4>2
    <3>8. \A x, y \in Chain[b] : x \in Chain[y] \/ y \in Chain[x]
      BY <3>2, <3>3
    <3>9. Good(b) BY <3>5, <3>6, <3>7, <3>8
    <3> QED BY <3>9
  <2> QED BY <2>5, <2>6
<1> QED BY <1>1

(* Of two blocks of a chain the lower one is in the chain of the other, so  *)
(* a chain has one block of each depth and one child of each block.         *)
LEMMA ChainLine ==
  ASSUME NEW n \in Block, NEW x \in Chain[n], NEW y \in Chain[n]
  PROVE  /\ x \in Block /\ y \in Block /\ Depth[x] \in Nat /\ Depth[y] \in Nat
         /\ Depth[x] <= Depth[y] => x \in Chain[y]
         /\ Depth[x] = Depth[y] => x = y
         /\ x # Genesis /\ y # Genesis /\ Parent[x] = Parent[y] => x = y
<1>1. x \in Block /\ y \in Block /\ Depth[x] \in Nat /\ Depth[y] \in Nat
  BY ChainFacts, BlockTreeAssumption
<1>2. x \in Chain[y] \/ y \in Chain[x] BY ChainOrder
<1>3. /\ y \in Chain[x] => y = x \/ Depth[y] < Depth[x]
      /\ x \in Chain[y] => y = x \/ Depth[x] < Depth[y]
  BY <1>1, ChainOrder
<1>4. x \in Chain[x] BY <1>1, ChainFacts
<1>5. Depth[x] <= Depth[y] => x \in Chain[y] BY <1>1, <1>2, <1>3, <1>4
<1>6. Depth[x] = Depth[y] => x = y BY <1>1, <1>2, <1>3
<1>7. x # Genesis /\ y # Genesis /\ Parent[x] = Parent[y] => x = y
  <2>1. x # Genesis /\ y # Genesis =>
          Depth[x] = Depth[Parent[x]] + 1 /\ Depth[y] = Depth[Parent[y]] + 1
    BY <1>1, BlockTreeAssumption
  <2> QED BY <1>6, <2>1
<1> QED BY <1>1, <1>5, <1>6, <1>7

(* A chain through a and its child c goes on from a by c. *)
LEMMA ChainThrough ==
  ASSUME NEW n \in Block, NEW c \in Chain[n], c # Genesis,
         NEW b \in Chain[n], Parent[c] \in Chain[b], b # Parent[c]
  PROVE  c \in Chain[b]
<1>1. b \in Block /\ Chain[b] \subseteq Chain[n] BY ChainFacts, ChainOrder
<1>2. PICK e \in Chain[b] : Parent[e] = Parent[c] BY <1>1, ChainFacts
<1>3. e \in Chain[n] BY <1>1, <1>2
<1>4. Parent[c] \in Block /\ Zeros \notin Block
  BY <1>1, ChainFacts, BlockTreeAssumption
<1>5. e # Genesis BY <1>2, <1>4, BlockTreeAssumption
<1>6. e = c BY <1>2, <1>3, <1>5, ChainLine
<1> QED BY <1>2, <1>6

(* ... and the part of it from c on is the part from a on without a. *)
LEMMA ChainSplits ==
  ASSUME NEW n \in Block, NEW c \in Chain[n], c # Genesis
  PROVE  /\ Parent[c] \in Chain[n] /\ Depth[c] = Depth[Parent[c]] + 1
         /\ {b \in Chain[n] : c \in Chain[b]}
              = {b \in Chain[n] : Parent[c] \in Chain[b]} \ {Parent[c]}
         /\ Chain[n] = Chain[Parent[c]] \cup {b \in Chain[n] : c \in Chain[b]}
<1> DEFINE a == Parent[c]
<1>1. /\ c \in Block /\ a \in Block /\ Depth[c] = Depth[a] + 1
      /\ Depth[a] \in Nat /\ Depth[c] \in Nat /\ a \in Chain[n]
  BY ChainFacts, ChainOrder, BlockTreeAssumption
<1>2. ASSUME NEW b \in Chain[n], c \in Chain[b] PROVE a \in Chain[b] /\ b # a
  <2>1. b \in Block BY ChainFacts
  <2>2. a \in Chain[b] BY <1>2, <2>1, ChainOrder
  <2>3. b # a
    <3>1. c = b \/ Depth[c] < Depth[b] BY <1>2, <2>1, ChainOrder
    <3> QED BY <1>1, <3>1
  <2> QED BY <2>2, <2>3
<1>3. ASSUME NEW b \in Chain[n], a \in Chain[b], b # a PROVE c \in Chain[b]
  BY <1>3, ChainThrough
<1>4. ASSUME NEW b \in Chain[n], b \notin Chain[a] PROVE c \in Chain[b]
  <2>1. a \in Chain[b] BY <1>1, <1>4, ChainOrder
  <2>2. a \in Chain[a] BY <1>1, ChainFacts
  <2> QED BY <1>3, <1>4, <2>1, <2>2
<1>5. Chain[a] \subseteq Chain[n] BY <1>1, ChainOrder
<1> HIDE DEF a
<1>6. {b \in Chain[n] : c \in Chain[b]} = {b \in Chain[n] : a \in Chain[b]} \ {a}
  BY <1>2, <1>3
<1>7. Chain[n] = Chain[a] \cup {b \in Chain[n] : c \in Chain[b]}
  BY <1>4, <1>5
<1> QED BY <1>1, <1>6, <1>7 DEF a
=============================================================================
