---------------------------- MODULE ReorgLemmas ----------------------------
(***************************************************************************)
(* What each step of storeTipBlock keeps of the invariant of a             *)
(* reorganisation, when one Sync object runs, whoever calls it.            *)
(***************************************************************************)
EXTENDS ReorgInvariant, SyncLemmas

(* Genesis has one child: no reorganisation goes below block 1, which the  *)
(* code cannot tell from a missing block.                                  *)
OneFirstBlock == \A a, b \in Block : Parent[a] = Genesis /\ Parent[b] = Genesis => a = b

LEMMA JobFacts ==
  ASSUME IInv, NEW s \in Syncer
  PROVE  /\ job[s] \in Job /\ job[s].blk \in Block
         /\ NewPrev(s) = Parent[job[s].blk] /\ NewPrev(s) \in Hash
         /\ NewPrev(s) = Zeros <=> job[s].blk = Genesis
         /\ NewPrev(s) # Zeros => NewPrev(s) \in Block
BY BlockTreeAssumption DEF IInv, TypeOK, Job, NewPrev, Hash

LEMMA LineFacts ==
  ASSUME IInv, NEW s \in Syncer
  PROVE  /\ Line(NewPrev(s)) \subseteq Block
         /\ Chain[job[s].blk] = Line(NewPrev(s)) \cup {job[s].blk}
         /\ job[s].blk \notin Line(NewPrev(s))
         /\ \A b \in Line(NewPrev(s)) \ {Genesis} : Parent[b] \in Line(NewPrev(s))
         /\ \A b \in Line(NewPrev(s)) : Parent[b] # NewPrev(s)
<1> DEFINE n == job[s].blk
           p == NewPrev(s)
<1>1. n \in Block /\ p = Parent[n] /\ (p = Zeros <=> n = Genesis)
      /\ (p # Zeros => p \in Block) /\ Zeros \notin Block
  BY JobFacts, KeyFacts
<1>2. CASE n = Genesis
  <2>1. Line(p) = {} BY <1>1, <1>2 DEF Line
  <2>2. Chain[n] = {n} BY <1>1, <1>2, ChainEquation
  <2> QED BY <2>1, <2>2
<1>3. CASE n # Genesis
  <2>1. p \in Block /\ Line(p) = Chain[p] BY <1>1, <1>3 DEF Line
  <2>2. Chain[n] = {n} \cup Chain[p] BY <1>1, <1>3, ChainEquation
  <2>3. Depth[n] = Depth[p] + 1 /\ Depth[p] \in Nat BY <1>1, <1>3, KeyFacts
  <2>4. ASSUME NEW b \in Chain[p] PROVE b # n /\ Parent[b] # p
    <3>1. b \in Block /\ Depth[b] \in Nat /\ Depth[b] <= Depth[p]
      BY <2>1, <2>3, ChainFacts, ChainOrder, KeyFacts
    <3>2. b # Genesis => Depth[b] = Depth[Parent[b]] + 1 BY <3>1, KeyFacts
    <3>3. b = Genesis => Parent[b] = Zeros BY KeyFacts
    <3> QED BY <1>1, <2>1, <2>3, <3>1, <3>2, <3>3
  <2> QED BY <2>1, <2>2, <2>4, ChainFacts, ChainOrder
<1> QED BY <1>2, <1>3

(* The tip is stored and at the end of the best chain. *)
LEMMA BestFacts ==
  ASSUME IInv
  PROVE  /\ bti # NoEntry => /\ bti.hash \in Block /\ Has(bti.hash)
                             /\ Best = Chain[bti.hash] /\ bti.hash \in Best
                             /\ Genesis \in Best
         /\ bti = NoEntry => Best = {} /\ bti.hash = NoHash
         /\ Best \subseteq Block
<1>1. bti # NoEntry => bti.hash \in Block /\ Has(bti.hash)
  BY DEF IInv, DbInv, TipInv, TruthfulTip, Stored
<1> QED BY <1>1, ChainFacts DEF Best, NoEntry

(* A connected block has its height. *)
LEMMA ConnectedFacts ==
  ASSUME IInv, NEW b \in Block
  PROVE  /\ b \in Connected => Has(b) /\ main[b] = Depth[b]
         /\ Has(b) /\ b \notin Connected => main[b] = -1
         /\ ~Has(b) => main[b] = 0
<1>1. main[b] \in IF Has(b) THEN {-1, Depth[b]} ELSE {0}
  BY DEF IInv, DbInv, HeightsTruthful
<1> QED BY <1>1, KeyFacts DEF Connected

----------------------------------------------------------------------------
(* The parts of the invariant that a step of the one job leaves to be shown. *)

LEMMA PointerKept ==
  ASSUME PointerInv, prev' = prev, next' = next, bti' = bti,
         cachedTip' = cachedTip \/ cachedTip' = GetTip,
         \A r \in Syncer : pc[r] \notin {"setTip", "setNext"}
  PROVE  PointerInv'
BY DEF PointerInv, Unlinked, Has, GetTip

(* A job goes on with the next call ... *)
LEMMA ContinueTurn ==
  ASSUME NEW s \in Syncer, Syncer = {s}, IInv, RInv, PointerInv', NEW phase, NEW j,
         Continue(s, phase, j), j.blk = job[s].blk,
         pc[s] \notin {"idle", "setTip", "setNext", "addTxs", "add"},
         phase # "idle", prev' = prev, bti' = bti,
         pc'[s] = phase /\ job'[s] = j => ConnectedInv(s)' /\ LinkedInv(s)' /\ LocalsInv(s)'
  PROVE  RInv'
<1>1. /\ pc'[s] = phase /\ job'[s] = j /\ waiting' = waiting /\ crashed' = crashed
      /\ cachedLastHash' = cachedLastHash
  BY DEF Continue, GoTo, IInv, TypeOK
<1>2. QueueInv(s) BY DEF RInv, TurnInv
<1>3. QueueInv(s)' BY <1>1, <1>2 DEF QueueInv, Stored, Has
<1>4. TurnInv(s)' BY <1>1, <1>3 DEF TurnInv
<1> QED BY <1>1, <1>4 DEF RInv

(* ... or starts to add the block. *)
LEMMA StartAddTurn ==
  ASSUME NEW s \in Syncer, Syncer = {s}, IInv, RInv, PointerInv', NEW j,
         StartAdd(s, j), j.blk = job[s].blk,
         pc[s] \notin {"idle", "setTip", "setNext", "addTxs", "add"},
         prev' = prev, bti' = bti,
         Connected' = Line(NewPrev(s)), next'[job[s].blk] = NoHash,
         \A b \in Line(NewPrev(s)) : next'[Parent[b]] = b
  PROVE  RInv'
<1>1. /\ pc'[s] = "addTxs" /\ job'[s] = j /\ waiting' = waiting /\ crashed' = crashed
      /\ cachedLastHash'[s] = j.blk
  BY DEF StartAdd, GoTo, IInv, TypeOK
<1>2. QueueInv(s) BY DEF RInv, TurnInv
<1>3. QueueInv(s)' BY <1>1, <1>2 DEF QueueInv, Stored, Has
<1>4. NewPrev(s)' = NewPrev(s) BY <1>1 DEF NewPrev
<1>5. ConnectedInv(s)' BY <1>1, <1>4 DEF ConnectedInv, Reading
<1>6. LinkedInv(s)' BY <1>1, <1>4 DEF LinkedInv, Reading, Walking, Linked
<1>7. LocalsInv(s)' BY <1>1 DEF LocalsInv, Reorganising, Walking
<1>8. TurnInv(s)' BY <1>3, <1>5, <1>6, <1>7 DEF TurnInv
<1> QED BY <1>1, <1>8 DEF RInv

(* The block of a job has no next block before it is linked. *)
LEMMA NewBlockEnds ==
  ASSUME NEW s \in Syncer, IInv, RInv,
         pc[s] \notin {"idle", "addTxs", "add", "setTip", "setNext"}
  PROVE  next[job[s].blk] = NoHash
<1>1. PointerInv /\ QueueInv(s) /\ LinkedInv(s) BY DEF RInv, TurnInv
<1>2. CASE ~Has(job[s].blk) BY <1>1, <1>2, JobFacts DEF PointerInv
<1>3. CASE job[s].blk = bti.hash
  <2>1. bti # NoEntry BY <1>3, JobFacts, BestFacts, KeyFacts
  <2> QED BY <1>1, <1>3, <2>1 DEF LinkedInv
<1> QED BY <1>1, <1>2, <1>3 DEF QueueInv

(* What a state of the database says does not change while it is read. *)
LEMMA ReadKeeps ==
  ASSUME prev' = prev, next' = next, main' = main, bti' = bti
  PROVE  /\ Connected' = Connected /\ Best' = Best
         /\ \A k : BestFrom(k)' = BestFrom(k) /\ Has(k)' = Has(k) /\ Stored(k)' = Stored(k)
         /\ \A S : Linked(S)' <=> Linked(S)
BY DEF Connected, Best, BestFrom, Linked, Has, Stored

----------------------------------------------------------------------------
(* The steps of a job up to the reorganisation. *)

LEMMA CheckPrevTurn ==
  ASSUME NEW s \in Syncer, Syncer = {s}, IInv, RInv, CheckPrev(s)
  PROVE  RInv'
<1>1. pc[s] = "check" /\ UNCHANGED dbVars BY DEF CheckPrev, Waits
<1>2. PointerInv' BY <1>1, PointerKept DEF RInv, dbVars
<1>3. Connected' = Connected /\ Best' = Best /\ (Linked(Best)' <=> Linked(Best))
      /\ \A k : Stored(k)' = Stored(k)
  BY <1>1, ReadKeeps DEF dbVars
<1>4. Connected = Best /\ Linked(Best) /\ (bti # NoEntry => next[bti.hash] = NoHash)
  BY <1>1 DEF RInv, TurnInv, ConnectedInv, LinkedInv, Reading
<1>5. CASE /\ Has(NewPrev(s)) \/ NewPrev(s) = Zeros
           /\ Continue(s, "tip", job[s])
  <2>1. job[s].blk = Genesis \/ Stored(NewPrev(s)) BY <1>5, JobFacts DEF Stored
  <2>2. pc'[s] = "tip" /\ job'[s] = job[s] =>
          ConnectedInv(s)' /\ LinkedInv(s)' /\ LocalsInv(s)'
    <3> SUFFICES ASSUME pc'[s] = "tip", job'[s] = job[s]
                 PROVE  ConnectedInv(s)' /\ LinkedInv(s)' /\ LocalsInv(s)'
      OBVIOUS
    <3>1. ConnectedInv(s)' BY <1>3, <1>4 DEF ConnectedInv, Reading
    <3>2. LinkedInv(s)' BY <1>1, <1>3, <1>4 DEF LinkedInv, Linked, Reading, Walking, dbVars
    <3>3. LocalsInv(s)' BY <1>3, <2>1 DEF LocalsInv, Reorganising, Walking, NewPrev
    <3> QED BY <3>1, <3>2, <3>3
  <2> QED BY <1>1, <1>2, <1>5, <2>2, ContinueTurn DEF dbVars
<1>6. CASE Answer(s, "needSync")
  <2>1. /\ pc'[s] = "idle" /\ waiting' = waiting /\ cachedLastHash' = cachedLastHash
        /\ crashed' = crashed
    BY <1>6 DEF Answer, GoTo, IInv, TypeOK
  <2>2. QueueInv(s)' BY <1>1, <2>1 DEF RInv, TurnInv, QueueInv, Stored, Has, dbVars
  <2>3. ConnectedInv(s)' BY <1>3, <1>4, <2>1 DEF ConnectedInv, Reading
  <2>4. LinkedInv(s)' BY <1>1, <1>3, <1>4, <2>1 DEF LinkedInv, Linked, Reading, Walking, dbVars
  <2>5. LocalsInv(s)' BY <2>1 DEF LocalsInv, Reorganising, Walking
  <2>6. TurnInv(s)' BY <2>2, <2>3, <2>4, <2>5 DEF TurnInv
  <2> QED BY <1>2, <2>1, <2>6 DEF RInv
<1> QED BY <1>5, <1>6 DEF CheckPrev, NewPrev

(* On the tip the block is added at once; elsewhere the branches part. *)
LEMMA ReadTipTurn ==
  ASSUME OneFirstBlock, NEW s \in Syncer, Syncer = {s}, IInv, RInv, ReadTip(s)
  PROVE  RInv'
<1> DEFINE p == NewPrev(s)
<1>1. pc[s] = "tip" /\ CacheTip BY DEF ReadTip, Waits
<1>2. PointerInv' BY <1>1, PointerKept DEF RInv, CacheTip
<1>3. Connected' = Connected /\ Best' = Best /\ (\A S : Linked(S)' <=> Linked(S))
      /\ \A k : Stored(k)' = Stored(k)
  BY <1>1, ReadKeeps DEF CacheTip
<1>4. Connected = Best /\ Linked(Best) /\ (bti # NoEntry => next[bti.hash] = NoHash)
  BY <1>1 DEF RInv, TurnInv, ConnectedInv, LinkedInv, Reading
<1>5. GetTip = bti BY DEF RInv, PointerInv, GetTip
<1>6. job[s].blk = Genesis \/ Stored(p) BY <1>1 DEF RInv, TurnInv, LocalsInv
<1>7. job[s].blk = Genesis => bti = NoEntry
  <2> SUFFICES ASSUME job[s].blk = Genesis, bti # NoEntry PROVE FALSE
    OBVIOUS
  <2>1. Has(Genesis) BY <1>4, BestFacts DEF Connected
  <2>2. ~Has(Genesis) \/ Depth[Genesis] >= 2 BY <1>1 DEF RInv, TurnInv, QueueInv
  <2> QED BY <2>1, <2>2, KeyFacts
<1>8. job[s].blk # Genesis => bti # NoEntry
  BY <1>1 DEF IInv, JobInv, CallsInv, Founded
<1>9. CASE bti # NoEntry /\ bti.hash # p /\ Continue(s, "next", job[s])
  <2>1. Stored(p) /\ job[s].blk # Genesis BY <1>6, <1>7, <1>9
  <2>2. p # Genesis
    <3> SUFFICES ASSUME p = Genesis PROVE FALSE
      OBVIOUS
    <3>1. Genesis \in Chain[bti.hash] \ {bti.hash} /\ Best = Chain[bti.hash] /\ bti.hash \in Block
      BY <1>9, BestFacts
    <3>2. PICK c \in Best : Parent[c] = Genesis BY <3>1, ChainFacts
    <3>3. c = job[s].blk BY <3>1, <3>2, ChainFacts, JobFacts DEF OneFirstBlock
    <3>4. Has(c) BY <1>4, <3>2 DEF Connected
    <3>5. Depth[c] >= 2 BY <1>1, <3>3, <3>4 DEF RInv, TurnInv, QueueInv
    <3> QED BY <2>1, <3>3, <3>5, JobFacts, KeyFacts
  <2>3. pc'[s] = "next" /\ job'[s] = job[s] =>
          ConnectedInv(s)' /\ LinkedInv(s)' /\ LocalsInv(s)'
    <3> SUFFICES ASSUME pc'[s] = "next", job'[s] = job[s]
                 PROVE  ConnectedInv(s)' /\ LinkedInv(s)' /\ LocalsInv(s)'
      OBVIOUS
    <3>1. ConnectedInv(s)' BY <1>3, <1>4 DEF ConnectedInv, Reading
    <3>2. LinkedInv(s)'
      BY <1>1, <1>3, <1>4 DEF LinkedInv, Linked, Reading, Walking, CacheTip
    <3>3. LocalsInv(s)'
      BY <1>1, <1>3, <1>9, <2>1, <2>2 DEF LocalsInv, Reorganising, Walking, NewPrev, CacheTip
    <3> QED BY <3>1, <3>2, <3>3
  <2> QED BY <1>1, <1>2, <1>9, <2>3, ContinueTurn DEF CacheTip
<1>10. CASE /\ bti = NoEntry \/ bti.hash = p
            /\ StartAdd(s, [job[s] EXCEPT !.height = GetTip.height + 1])
  <2> DEFINE j == [job[s] EXCEPT !.height = GetTip.height + 1]
  <2>1. j.blk = job[s].blk BY JobFacts DEF Job
  <2>2. Line(p) = Best
    <3>1. CASE bti = NoEntry
      <4>1. p \notin Block BY <1>8, <3>1, JobFacts, KeyFacts
      <4> QED BY <3>1, <4>1, BestFacts DEF Line
    <3>2. CASE bti # NoEntry
      BY <1>10, <3>2, BestFacts DEF Line
    <3> QED BY <3>1, <3>2
  <2>3. next'[job[s].blk] = NoHash BY <1>1, NewBlockEnds DEF CacheTip
  <2>4. Connected' = Line(p) /\ \A b \in Line(p) : next'[Parent[b]] = b
    BY <1>1, <1>3, <1>4, <2>2 DEF Linked, CacheTip
  <2> QED BY <1>1, <1>2, <1>10, <2>1, <2>3, <2>4, StartAddTurn DEF CacheTip
<1> QED BY <1>5, <1>9, <1>10 DEF ReadTip, NewPrev

LEMMA ReadNextTurn ==
  ASSUME NEW s \in Syncer, Syncer = {s}, IInv, RInv, ReadNext(s)
  PROVE  RInv'
<1> DEFINE j == [job[s] EXCEPT !.oldNext = GetNext(Parent[job[s].blk])]
<1>1. pc[s] = "next" /\ UNCHANGED dbVars /\ Continue(s, "reorg", j)
  BY DEF ReadNext, Waits
<1>2. PointerInv' BY <1>1, PointerKept DEF RInv, dbVars
<1>3. Connected' = Connected /\ Best' = Best /\ (Linked(Best)' <=> Linked(Best))
      /\ \A k : Stored(k)' = Stored(k)
  BY <1>1, ReadKeeps DEF dbVars
<1>4. Connected = Best /\ Linked(Best) /\ (bti # NoEntry => next[bti.hash] = NoHash)
  BY <1>1 DEF RInv, TurnInv, ConnectedInv, LinkedInv, Reading
<1>5. j.blk = job[s].blk /\ j.oldNext = next[NewPrev(s)] BY JobFacts DEF Job, GetNext
<1>6. /\ Stored(NewPrev(s)) /\ NewPrev(s) # Genesis /\ bti # NoEntry
      /\ NewPrev(s) # bti.hash
  BY <1>1 DEF RInv, TurnInv, LocalsInv, Reorganising
<1>7. pc'[s] = "reorg" /\ job'[s] = j =>
        ConnectedInv(s)' /\ LinkedInv(s)' /\ LocalsInv(s)'
  <2> SUFFICES ASSUME pc'[s] = "reorg", job'[s] = j
               PROVE  ConnectedInv(s)' /\ LinkedInv(s)' /\ LocalsInv(s)'
    OBVIOUS
  <2>1. ConnectedInv(s)' BY <1>3, <1>4 DEF ConnectedInv, Reading
  <2>2. LinkedInv(s)' BY <1>1, <1>3, <1>4 DEF LinkedInv, Linked, Reading, Walking, dbVars
  <2>3. LocalsInv(s)'
    <3>1. NewPrev(s)' = NewPrev(s) BY <1>5 DEF NewPrev
    <3> HIDE DEF j
    <3> QED BY <1>1, <1>3, <1>5, <1>6, <3>1 DEF LocalsInv, Reorganising, Walking, dbVars
  <2> QED BY <2>1, <2>2, <2>3
<1> QED BY <1>1, <1>2, <1>5, <1>7, ContinueTurn DEF dbVars

----------------------------------------------------------------------------
(* processReorg: from the height of the parent to the connected branch. *)

(* Every connected block has a positive height except Genesis. *)
LEMMA HeightOf ==
  ASSUME IInv, NEW b \in Block \ {Genesis}
  PROVE  main[b] > 0 <=> b \in Connected
<1>1. Depth[b] \in Nat /\ Depth[b] > 0 BY KeyFacts
<1> QED BY <1>1, ConnectedFacts

LEMMA ReorgHeightTurn ==
  ASSUME NEW s \in Syncer, Syncer = {s}, IInv, RInv, ReorgHeight(s)
  PROVE  RInv'
<1> DEFINE p == NewPrev(s)
           o == job[s]
           j1 == [o EXCEPT !.height = main[p] + 1, !.from = o.oldNext]
           j2 == [o EXCEPT !.cur = p, !.branch = << >>, !.from = NoHash]
<1>1. pc[s] = "reorg" /\ UNCHANGED dbVars BY DEF ReorgHeight, Waits
<1>2. PointerInv' BY <1>1, PointerKept DEF RInv, dbVars
<1>3. Connected' = Connected /\ Best' = Best /\ (\A S : Linked(S)' <=> Linked(S))
      /\ \A k : Stored(k)' = Stored(k) /\ BestFrom(k)' = BestFrom(k)
  BY <1>1, ReadKeeps DEF dbVars
<1>4. Connected = Best /\ Linked(Best) /\ (bti # NoEntry => next[bti.hash] = NoHash)
  BY <1>1 DEF RInv, TurnInv, ConnectedInv, LinkedInv, Reading
<1>5. Stored(p) /\ p # Genesis /\ bti # NoEntry /\ p # bti.hash /\ o.oldNext = next[p]
  BY <1>1 DEF RInv, TurnInv, LocalsInv, Reorganising
<1>6. /\ j1.blk = o.blk /\ j1.from = o.oldNext
      /\ j2.blk = o.blk /\ j2.cur = p /\ j2.branch = << >>
  BY JobFacts DEF Job
<1>7. /\ bti.hash \in Block /\ Best = Chain[bti.hash] /\ p \in Block /\ Line(p) = Chain[p]
      /\ p \in Chain[p]
  BY <1>5, BestFacts, ChainFacts DEF Stored, Line
<1>8. main[p] > 0 <=> p \in Best BY <1>4, <1>5, <1>7, HeightOf
<1>9. CASE p \in Best
  <2>1. PICK c \in Best : Parent[c] = p BY <1>5, <1>7, <1>9, ChainFacts
  <2>2. c \in Block /\ c # Genesis /\ Zeros \notin Block
    BY <1>7, <2>1, ChainFacts, KeyFacts
  <2>3. next[p] = c BY <1>4, <2>1 DEF Linked
  <2>4. Depth[c] = Depth[p] + 1 /\ Depth[p] \in Nat /\ Best = Chain[p] \cup BestFrom(c)
    BY <1>7, <2>1, <2>2, ChainSplits, KeyFacts DEF BestFrom
  <2>5. c \notin Chain[p] BY <1>7, <2>4, ChainOrder
  <2>6. Chain[p] \subseteq Best BY <2>4
  <2>7. Continue(s, "orphan", j1)
    <3>1. main[p] = Depth[p] /\ Depth[p] \in Nat /\ main[p] > 0
      BY <1>4, <1>7, <1>8, <1>9, <2>4, ConnectedFacts
    <3>2. o.oldNext # NoHash BY <1>5, <2>2, <2>3, KeyFacts
    <3> QED BY <3>1, <3>2 DEF ReorgHeight, GetHeight, NewPrev
  <2>8. pc'[s] = "orphan" /\ job'[s] = j1 =>
          ConnectedInv(s)' /\ LinkedInv(s)' /\ LocalsInv(s)'
    <3> SUFFICES ASSUME pc'[s] = "orphan", job'[s] = j1
                 PROVE  ConnectedInv(s)' /\ LinkedInv(s)' /\ LocalsInv(s)'
      OBVIOUS
    <3>1. NewPrev(s)' = p /\ Line(p)' = Line(p) /\ job'[s].from = c
      BY <1>5, <1>6, <2>3 DEF NewPrev, Line
    <3> HIDE DEF p, o, j1, j2
    <3>2. ConnectedInv(s)'
      BY <1>3, <1>4, <1>7, <2>4, <3>1 DEF ConnectedInv, Reading, Line
    <3>3. LinkedInv(s)'
      BY <1>1, <1>3, <1>4, <1>7, <2>6, <3>1 DEF LinkedInv, Linked, Reading, Walking, dbVars, Line
    <3>4. LocalsInv(s)'
      BY <1>1, <1>3, <1>5, <1>7, <2>1, <2>5, <3>1
         DEF LocalsInv, Reorganising, Walking, dbVars, Line
    <3> QED BY <3>2, <3>3, <3>4
  <2> QED BY <1>1, <1>2, <1>6, <2>7, <2>8, ContinueTurn DEF dbVars
<1>10. CASE p \notin Best
  <2>1. main[p] = -1 BY <1>4, <1>5, <1>7, <1>10, ConnectedFacts DEF Stored
  <2>2. Continue(s, "walk", j2)
    BY <2>1 DEF ReorgHeight, GetHeight, NewPrev
  <2>3. pc'[s] = "walk" /\ job'[s] = j2 =>
          ConnectedInv(s)' /\ LinkedInv(s)' /\ LocalsInv(s)'
    <3> SUFFICES ASSUME pc'[s] = "walk", job'[s] = j2
                 PROVE  ConnectedInv(s)' /\ LinkedInv(s)' /\ LocalsInv(s)'
      OBVIOUS
    <3>1. NewPrev(s)' = p /\ job'[s].cur = p /\ job'[s].branch = << >>
      BY <1>6 DEF NewPrev
    <3> HIDE DEF p, o, j1, j2
    <3>2. ConnectedInv(s)' BY <1>3, <1>4 DEF ConnectedInv, Reading
    <3>3. LinkedInv(s)'
      BY <1>1, <1>3, <1>4 DEF LinkedInv, Linked, Reading, Walking, dbVars
    <3>4. LocalsInv(s)'
      BY <1>1, <1>3, <1>5, <1>7, <1>10, <3>1 DEF LocalsInv, Reorganising, Walking, dbVars, Line
    <3> QED BY <3>2, <3>3, <3>4
  <2> QED BY <1>1, <1>2, <1>6, <2>2, <2>3, ContinueTurn DEF dbVars
<1> QED BY <1>9, <1>10

LEMMA WalkBackTurn ==
  ASSUME OneFirstBlock, NEW s \in Syncer, Syncer = {s}, IInv, RInv, WalkBack(s)
  PROVE  RInv'
<1> DEFINE p == NewPrev(s)
           o == job[s]
           j == [o EXCEPT !.branch = <<o.cur>> \o @, !.top = o.cur, !.cur = GetPrev(o.cur)]
<1>1. pc[s] = "walk" /\ UNCHANGED dbVars /\ Continue(s, "walked", j)
  BY DEF WalkBack, Waits
<1>2. PointerInv' BY <1>1, PointerKept DEF RInv, dbVars
<1>3. Connected' = Connected /\ Best' = Best /\ (\A S : Linked(S)' <=> Linked(S))
      /\ \A k : Stored(k)' = Stored(k)
  BY <1>1, ReadKeeps DEF dbVars
<1>4. Connected = Best /\ Linked(Best) /\ (bti # NoEntry => next[bti.hash] = NoHash)
  BY <1>1 DEF RInv, TurnInv, ConnectedInv, LinkedInv, Reading
<1>5. /\ Stored(p) /\ p # Genesis /\ bti # NoEntry /\ p \notin Best
      /\ o.cur \in Line(p) \ Best
      /\ \A i \in 1 .. Len(o.branch) : o.branch[i] \in Line(p)
  BY <1>1 DEF RInv, TurnInv, LocalsInv, Reorganising, Walking
<1>6. /\ bti.hash \in Block /\ Best = Chain[bti.hash] /\ Genesis \in Best
      /\ Line(p) = Chain[p] /\ p \in Block
  BY <1>5, BestFacts DEF Stored, Line
<1>7. o.cur \in Block /\ o.cur # Genesis /\ Parent[o.cur] \in Line(p) /\ Parent[o.cur] \in Block
  BY <1>5, <1>6, ChainFacts, ChainOrder
<1>8. Stored(o.cur) /\ prev[o.cur] = Parent[o.cur]
  <2>1. o.cur = Zeros \/ Stored(o.cur)
    BY <1>1 DEF IInv, JobInv, PhaseInv, CurInv
  <2> QED BY <1>7, <2>1, KeyFacts DEF IInv, DbInv, LinkInv, Stored
<1>9. Parent[o.cur] # Genesis
  <2> SUFFICES ASSUME Parent[o.cur] = Genesis PROVE FALSE
    OBVIOUS
  <2>1. next[Genesis] # NoHash
    BY <1>1, <1>7, <1>8 DEF RInv, PointerInv, Unlinked, Stored
  <2>2. bti.hash # Genesis BY <1>4, <1>5, <2>1
  <2>3. PICK c \in Best : Parent[c] = Genesis BY <1>6, <2>2, ChainFacts
  <2>4. c = o.cur BY <1>6, <1>7, <2>3, ChainFacts DEF OneFirstBlock
  <2> QED BY <1>5, <2>3, <2>4
<1>10. o.branch \in Seq(Key) BY JobFacts DEF Job
<1>11. /\ j.blk = o.blk /\ j.top = o.cur /\ j.cur = Parent[o.cur]
       /\ j.branch = <<o.cur>> \o o.branch
  BY <1>8, JobFacts DEF Job, GetPrev
<1>12. \A i \in 1 .. Len(j.branch) : j.branch[i] \in Line(p)
  <2> SUFFICES ASSUME NEW i \in 1 .. Len(j.branch) PROVE j.branch[i] \in Line(p)
    OBVIOUS
  <2>1. CASE i = 1 BY <1>5, <1>10, <1>11, <2>1
  <2>2. CASE i # 1
    <3>1. i - 1 \in 1 .. Len(o.branch) /\ j.branch[i] = o.branch[i - 1]
      BY <1>10, <1>11, <2>2
    <3> QED BY <1>5, <3>1
  <2> QED BY <2>1, <2>2
<1>13. pc'[s] = "walked" /\ job'[s] = j =>
         ConnectedInv(s)' /\ LinkedInv(s)' /\ LocalsInv(s)'
  <2> SUFFICES ASSUME pc'[s] = "walked", job'[s] = j
               PROVE  ConnectedInv(s)' /\ LinkedInv(s)' /\ LocalsInv(s)'
    OBVIOUS
  <2>1. NewPrev(s)' = p BY <1>11 DEF NewPrev
  <2> HIDE DEF p, o, j
  <2>2. ConnectedInv(s)' BY <1>3, <1>4 DEF ConnectedInv, Reading
  <2>3. LinkedInv(s)'
    BY <1>1, <1>3, <1>4 DEF LinkedInv, Linked, Reading, Walking, dbVars
  <2>4. LocalsInv(s)'
    BY <1>1, <1>3, <1>5, <1>6, <1>7, <1>9, <1>11, <1>12, <2>1
       DEF LocalsInv, Reorganising, Walking, dbVars, Line
  <2> QED BY <2>2, <2>3, <2>4
<1> QED BY <1>1, <1>2, <1>11, <1>13, ContinueTurn DEF dbVars

LEMMA WalkTestTurn ==
  ASSUME NEW s \in Syncer, Syncer = {s}, IInv, RInv, WalkTest(s)
  PROVE  RInv'
<1> DEFINE p == NewPrev(s)
           o == job[s]
           y == main[o.cur]
           j == [o EXCEPT !.height = y + 1]
<1>1. pc[s] = "walked" /\ UNCHANGED dbVars BY DEF WalkTest, Waits
<1>2. PointerInv' BY <1>1, PointerKept DEF RInv, dbVars
<1>3. Connected' = Connected /\ Best' = Best /\ (\A S : Linked(S)' <=> Linked(S))
      /\ \A k : Stored(k)' = Stored(k)
  BY <1>1, ReadKeeps DEF dbVars
<1>4. Connected = Best /\ Linked(Best) /\ (bti # NoEntry => next[bti.hash] = NoHash)
  BY <1>1 DEF RInv, TurnInv, ConnectedInv, LinkedInv, Reading
<1>5. /\ Stored(p) /\ p # Genesis /\ bti # NoEntry /\ p \notin Best
      /\ o.cur \in Line(p) /\ o.cur # Genesis
      /\ o.top \in Line(p) \ Best /\ Parent[o.top] = o.cur
      /\ \A i \in 1 .. Len(o.branch) : o.branch[i] \in Line(p)
  BY <1>1 DEF RInv, TurnInv, LocalsInv, Reorganising, Walking
<1>6. /\ bti.hash \in Block /\ Best = Chain[bti.hash] /\ Line(p) = Chain[p] /\ p \in Block
      /\ o.cur \in Block
  BY <1>5, BestFacts, ChainFacts DEF Stored, Line
<1>7. y > 0 <=> o.cur \in Best BY <1>4, <1>5, <1>6, HeightOf
<1>8. CASE o.cur \notin Best
  <2>1. y = -1 \/ y = 0 BY <1>4, <1>6, <1>8, ConnectedFacts
  <2>2. Continue(s, "walk", o)
    BY <1>6, <2>1, KeyFacts DEF WalkTest, GetHeight
  <2>3. pc'[s] = "walk" /\ job'[s] = o =>
          ConnectedInv(s)' /\ LinkedInv(s)' /\ LocalsInv(s)'
    <3> SUFFICES ASSUME pc'[s] = "walk", job'[s] = o
                 PROVE  ConnectedInv(s)' /\ LinkedInv(s)' /\ LocalsInv(s)'
      OBVIOUS
    <3>1. NewPrev(s)' = p BY DEF NewPrev
    <3> HIDE DEF p, o
    <3>2. ConnectedInv(s)' BY <1>3, <1>4 DEF ConnectedInv, Reading
    <3>3. LinkedInv(s)'
      BY <1>1, <1>3, <1>4 DEF LinkedInv, Linked, Reading, Walking, dbVars
    <3>4. LocalsInv(s)'
      BY <1>1, <1>3, <1>5, <1>8, <3>1 DEF LocalsInv, Reorganising, Walking, dbVars, Line
    <3> QED BY <3>2, <3>3, <3>4
  <2> QED BY <1>1, <1>2, <2>2, <2>3, ContinueTurn DEF dbVars
<1>9. CASE o.cur \in Best
  <2>1. y = Depth[o.cur] /\ Depth[o.cur] \in Nat /\ y > 0
    BY <1>4, <1>6, <1>7, <1>9, ConnectedFacts, KeyFacts
  <2>2. Continue(s, "connect", j) BY <2>1 DEF WalkTest, GetHeight
  <2>3. /\ j.blk = o.blk /\ j.height = Depth[o.cur] + 1 /\ j.cur = o.cur /\ j.top = o.top
        /\ j.branch = o.branch
    BY <2>1, JobFacts DEF Job
  <2>4. ASSUME NEW b \in Chain[p], Depth[b] < Depth[o.cur] + 1 PROVE b \in Best
    <3>1. Depth[b] \in Nat /\ Depth[b] <= Depth[o.cur]
      BY <1>6, <2>1, <2>4, ChainFacts, KeyFacts
    <3>2. b \in Chain[o.cur] BY <1>5, <1>6, <3>1, ChainLine
    <3> QED BY <1>6, <1>9, <3>2, ChainOrder
  <2>5. pc'[s] = "connect" /\ job'[s] = j =>
          ConnectedInv(s)' /\ LinkedInv(s)' /\ LocalsInv(s)'
    <3> SUFFICES ASSUME pc'[s] = "connect", job'[s] = j
                 PROVE  ConnectedInv(s)' /\ LinkedInv(s)' /\ LocalsInv(s)'
      OBVIOUS
    <3>1. NewPrev(s)' = p BY <2>3 DEF NewPrev
    <3> HIDE DEF p, o, j
    <3>2. ConnectedInv(s)'
      BY <1>3, <1>4, <1>6, <2>3, <2>4, <3>1 DEF ConnectedInv, Reading, Line
    <3>3. LinkedInv(s)'
      BY <1>1, <1>3, <1>4 DEF LinkedInv, Linked, Reading, Walking, dbVars
    <3>4. LocalsInv(s)'
      BY <1>1, <1>3, <1>5, <1>9, <2>3, <3>1 DEF LocalsInv, Reorganising, Walking, dbVars, Line
    <3> QED BY <3>2, <3>3, <3>4
  <2> QED BY <1>1, <1>2, <2>2, <2>3, <2>5, ContinueTurn DEF dbVars
<1> QED BY <1>8, <1>9

(* Each setBlockMain connects the next block up, until the parent is. *)
LEMMA ConnectTurn ==
  ASSUME NEW s \in Syncer, Syncer = {s}, IInv, RInv, Connect(s)
  PROVE  RInv'
<1> DEFINE p == NewPrev(s)
           o == job[s]
           h == Head(o.branch)
           rest == Tail(o.branch)
           j == [o EXCEPT !.branch = rest, !.height = @ + 1]
           phase == IF rest = << >> THEN "fork" ELSE "connect"
<1>1. pc[s] = "connect" /\ o.branch # << >> BY DEF Connect, Waits
<1>2. Connected = Best \cup {b \in Line(p) : Depth[b] < o.height}
  BY <1>1 DEF RInv, TurnInv, ConnectedInv
<1>3. Linked(Best) /\ (bti # NoEntry => next[bti.hash] = NoHash)
  BY <1>1 DEF RInv, TurnInv, LinkedInv, Walking
<1>4. /\ Stored(p) /\ p # Genesis /\ bti # NoEntry /\ p \notin Best
      /\ o.cur \in Line(p) /\ o.cur \in Best
      /\ o.top \in Line(p) \ Best /\ Parent[o.top] = o.cur
      /\ \A i \in 1 .. Len(o.branch) : o.branch[i] \in Line(p)
  BY <1>1 DEF RInv, TurnInv, LocalsInv, Reorganising, Walking
<1>5. Line(p) = Chain[p] /\ p \in Block /\ p \in Chain[p] BY <1>4, ChainFacts DEF Stored, Line
<1>6. o.branch \in Seq(Key) /\ o.height \in Int /\ Len(o.branch) \in Nat \ {0}
  BY <1>1, JobFacts DEF Job
<1>7. h = o.branch[1] /\ h \in Chain[p] /\ h \in Block BY <1>4, <1>5, <1>6, ChainFacts
<1>8. BranchInv(s) /\ o.height = Depth[p] - Len(o.branch) + 1
  BY <1>1, <1>7, KeyFacts DEF IInv, JobInv, PhaseInv, Doomed
<1>9. /\ Stored(h) /\ Depth[h] = Depth[p] - (Len(o.branch) - 1) /\ Depth[p] \in Nat
      /\ Depth[h] \in Nat
  BY <1>5, <1>6, <1>7, <1>8, KeyFacts DEF BranchInv
<1>10. o.height = Depth[h] BY <1>6, <1>8, <1>9
<1>11. ChangeBlockHeight(h, Depth[h]) /\ Continue(s, phase, j)
  BY <1>7, <1>10 DEF Connect, SetBlockMain
<1>12. UNCHANGED <<prev, next, bti, cachedTip>> BY <1>11 DEF ChangeBlockHeight
<1>13. PointerInv' BY <1>1, <1>12, PointerKept DEF RInv
<1>14. Connected' = Connected \cup {h}
  BY <1>7, <1>9, <1>11, KeyFacts
     DEF ChangeBlockHeight, Connected, Has, Stored, IInv, TypeOK, DbTypeOK
<1>15. Best' = Best BY <1>12 DEF Best
<1>16. /\ j.blk = o.blk /\ j.height = Depth[h] + 1 /\ j.cur = o.cur /\ j.top = o.top
       /\ j.branch = rest
  BY <1>10, JobFacts DEF Job
<1>17. {b \in Chain[p] : Depth[b] < Depth[h] + 1} = {b \in Chain[p] : Depth[b] < Depth[h]} \cup {h}
  <2>1. ASSUME NEW b \in Chain[p]
        PROVE  Depth[b] < Depth[h] + 1 <=> Depth[b] < Depth[h] \/ b = h
    <3>1. Depth[b] \in Nat /\ (Depth[b] = Depth[h] => b = h)
      BY <1>5, <1>7, ChainLine
    <3> QED BY <1>9, <3>1
  <2> QED BY <1>7, <2>1
<1>18. Connected' = Best \cup {b \in Chain[p] : Depth[b] < Depth[h] + 1}
  BY <1>2, <1>5, <1>10, <1>14, <1>17
<1>19. ASSUME rest = << >> PROVE Connected' = Best \cup Chain[p]
  <2>1. Len(rest) = Len(o.branch) - 1 BY <1>1, <1>6
  <2>2. Len(rest) = 0
    <3> HIDE DEF rest
    <3> QED BY <1>19
  <2>5. Len(o.branch) = 1
    <3> DEFINE n == Len(o.branch)
               m == Len(rest)
    <3>1. n \in Nat /\ m = n - 1 /\ m = 0 BY <1>6, <2>1, <2>2
    <3> HIDE DEF n, m
    <3>2. n = 1 BY <3>1
    <3> QED BY <3>2 DEF n
  <2>3. Depth[h] = Depth[p] BY <1>9, <2>5
  <2>4. ASSUME NEW b \in Chain[p] PROVE Depth[b] < Depth[p] + 1
    <3>1. Depth[b] \in Nat /\ (b = p \/ Depth[b] < Depth[p])
      BY <1>5, ChainOrder, ChainFacts, KeyFacts
    <3> QED BY <1>9, <3>1
  <2> QED BY <1>18, <2>3, <2>4
<1>20. \A i \in 1 .. Len(rest) : rest[i] \in Line(p)
  <2> SUFFICES ASSUME NEW i \in 1 .. Len(rest) PROVE rest[i] \in Line(p)
    OBVIOUS
  <2>1. i + 1 \in 1 .. Len(o.branch) /\ rest[i] = o.branch[i + 1] BY <1>1, <1>6
  <2> QED BY <1>4, <2>1
<1>21. pc'[s] = phase /\ job'[s] = j =>
         ConnectedInv(s)' /\ LinkedInv(s)' /\ LocalsInv(s)'
  <2> SUFFICES ASSUME pc'[s] = phase, job'[s] = j
               PROVE  ConnectedInv(s)' /\ LinkedInv(s)' /\ LocalsInv(s)'
    OBVIOUS
  <2>1. NewPrev(s)' = p /\ (rest = << >> => pc'[s] = "fork")
        /\ (rest # << >> => pc'[s] = "connect")
    BY <1>16 DEF NewPrev
  <2>2. pc'[s] \in {"fork", "connect"} BY <2>1
  <2>3. \A k : Stored(k)' = Stored(k) BY <1>12 DEF Stored, Has
  <2> HIDE DEF p, o, j, h, phase, rest
  <2>4. ConnectedInv(s)'
    BY <1>5, <1>15, <1>16, <1>18, <1>19, <2>1, <2>2 DEF ConnectedInv, Reading, Line
  <2>5. LinkedInv(s)'
    BY <1>3, <1>12, <1>15, <2>2 DEF LinkedInv, Linked, Reading, Walking
  <2>6. LocalsInv(s)'
    BY <1>4, <1>12, <1>15, <1>16, <1>20, <2>1, <2>2, <2>3
       DEF LocalsInv, Reorganising, Walking, Line
  <2> QED BY <2>4, <2>5, <2>6
<1> QED BY <1>1, <1>11, <1>12, <1>13, <1>16, <1>21, ContinueTurn

LEMMA ReadForkTurn ==
  ASSUME NEW s \in Syncer, Syncer = {s}, IInv, RInv, ReadFork(s)
  PROVE  RInv'
<1> DEFINE p == NewPrev(s)
           o == job[s]
           j == [o EXCEPT !.from = GetNext(o.cur)]
<1>1. pc[s] = "fork" /\ UNCHANGED dbVars /\ Continue(s, "relink", j)
  BY DEF ReadFork, Waits
<1>2. PointerInv' BY <1>1, PointerKept DEF RInv, dbVars
<1>3. Connected' = Connected /\ Best' = Best /\ (\A S : Linked(S)' <=> Linked(S))
      /\ \A k : Stored(k)' = Stored(k)
  BY <1>1, ReadKeeps DEF dbVars
<1>4. /\ Connected = Best \cup Line(p) /\ Linked(Best)
      /\ bti # NoEntry => next[bti.hash] = NoHash
  BY <1>1 DEF RInv, TurnInv, ConnectedInv, LinkedInv, Walking
<1>5. /\ Stored(p) /\ p # Genesis /\ bti # NoEntry /\ p \notin Best
      /\ o.cur \in Line(p) /\ o.cur \in Best
      /\ o.top \in Line(p) \ Best /\ Parent[o.top] = o.cur
  BY <1>1 DEF RInv, TurnInv, LocalsInv, Reorganising, Walking
<1>6. j.blk = o.blk /\ j.from = next[o.cur] /\ j.cur = o.cur /\ j.top = o.top
  BY JobFacts DEF Job, GetNext
<1>7. pc'[s] = "relink" /\ job'[s] = j =>
        ConnectedInv(s)' /\ LinkedInv(s)' /\ LocalsInv(s)'
  <2> SUFFICES ASSUME pc'[s] = "relink", job'[s] = j
               PROVE  ConnectedInv(s)' /\ LinkedInv(s)' /\ LocalsInv(s)'
    OBVIOUS
  <2>1. NewPrev(s)' = p BY <1>6 DEF NewPrev
  <2> HIDE DEF p, o, j
  <2>2. ConnectedInv(s)' BY <1>3, <1>4, <2>1 DEF ConnectedInv, Reading, Line
  <2>3. LinkedInv(s)'
    BY <1>1, <1>3, <1>4 DEF LinkedInv, Linked, Reading, Walking, dbVars
  <2>4. LocalsInv(s)'
    BY <1>1, <1>3, <1>5, <1>6, <2>1 DEF LocalsInv, Reorganising, Walking, dbVars, Line
  <2> QED BY <2>2, <2>3, <2>4
<1> QED BY <1>1, <1>2, <1>6, <1>7, ContinueTurn DEF dbVars

(* The best chain leaves the new branch at cur by another block than top. *)
LEMMA ForkFacts ==
  ASSUME NEW s \in Syncer, Syncer = {s}, IInv, RInv, pc[s] = "relink"
  PROVE  LET p == NewPrev(s)
             cur == job[s].cur
             from == job[s].from
         IN  /\ from \in Best \ Line(p) /\ Parent[from] = cur /\ from # NoHash
             /\ cur # bti.hash
             /\ Best \cup Line(p) = Line(p) \cup BestFrom(from)
<1> DEFINE p == NewPrev(s)
           cur == job[s].cur
           top == job[s].top
<1>1. /\ Connected = Best \cup Line(p) /\ Linked(Best)
      /\ bti # NoEntry => next[bti.hash] = NoHash
  BY DEF RInv, TurnInv, ConnectedInv, LinkedInv, Walking
<1>2. /\ Stored(p) /\ bti # NoEntry /\ cur \in Line(p) /\ cur \in Best
      /\ top \in Line(p) \ Best /\ Parent[top] = cur /\ job[s].from = next[cur]
  BY DEF RInv, TurnInv, LocalsInv, Reorganising, Walking
<1>3. /\ bti.hash \in Block /\ Best = Chain[bti.hash] /\ Line(p) = Chain[p] /\ p \in Block
      /\ cur \in Block /\ top \in Block /\ Zeros \notin Block /\ NoHash \notin Block
  BY <1>2, BestFacts, ChainFacts, KeyFacts DEF Stored, Line
<1>4. Has(top) BY <1>1, <1>2 DEF Connected
<1>5. next[cur] # NoHash BY <1>2, <1>3, <1>4 DEF RInv, PointerInv, Unlinked
<1>6. cur # bti.hash BY <1>1, <1>2, <1>5
<1>7. PICK c \in Best : Parent[c] = cur BY <1>2, <1>3, <1>6, ChainFacts
<1>8. next[cur] = c BY <1>1, <1>7 DEF Linked
<1>9. c \in Block /\ c # Genesis /\ top # Genesis BY <1>2, <1>3, <1>7, ChainFacts, KeyFacts
<1>10. c \notin Chain[p] BY <1>2, <1>3, <1>7, <1>9, ChainLine
<1>11. Best = Chain[cur] \cup BestFrom(c) BY <1>3, <1>7, <1>9, ChainSplits DEF BestFrom
<1>12. Chain[cur] \subseteq Chain[p] BY <1>2, <1>3, ChainOrder
<1>13. Best \cup Line(p) = Line(p) \cup BestFrom(c) BY <1>3, <1>11, <1>12
<1> QED BY <1>2, <1>3, <1>6, <1>7, <1>8, <1>9, <1>10, <1>13

(* After the fork block is relinked the pointers lead up the new branch: a *)
(* branch without forks has kept its own.                                  *)
LEMMA BranchLinked ==
  ASSUME NEW s \in Syncer, Syncer = {s}, IInv, RInv, pc[s] = "relink", Straight(s),
         NEW b \in Line(NewPrev(s))
  PROVE  IF Parent[b] = job[s].cur THEN b = job[s].top ELSE next[Parent[b]] = b
<1> DEFINE p == NewPrev(s)
           cur == job[s].cur
           top == job[s].top
           x == Parent[b]
<1>1. /\ Connected = Best \cup Line(p) /\ Linked(Best)
  BY DEF RInv, TurnInv, ConnectedInv, LinkedInv, Walking
<1>2. /\ Stored(p) /\ bti # NoEntry /\ cur \in Line(p) /\ cur \in Best
      /\ top \in Line(p) \ Best /\ Parent[top] = cur
  BY DEF RInv, TurnInv, LocalsInv, Reorganising, Walking
<1>3. /\ bti.hash \in Block /\ Best = Chain[bti.hash] /\ Line(p) = Chain[p] /\ p \in Block
      /\ cur \in Block /\ top \in Block /\ b \in Block /\ Zeros \notin Block
      /\ NoHash \notin Block /\ Genesis \in Best
  BY <1>2, BestFacts, ChainFacts, KeyFacts DEF Stored, Line
<1>4. CASE x = cur
  <2>1. b # Genesis /\ top # Genesis BY <1>2, <1>3, <1>4, KeyFacts
  <2> QED BY <1>2, <1>3, <1>4, <2>1, ChainLine
<1>5. CASE x # cur /\ b \in Best
  BY <1>1, <1>5 DEF Linked
<1>6. CASE x # cur /\ b \notin Best
  <2>1. b # Genesis /\ top # Genesis BY <1>2, <1>3, <1>6, KeyFacts
  <2>2. x \in Chain[p] /\ x \in Block BY <1>3, <2>1, ChainOrder, ChainFacts
  <2>3. x \notin Best
    <3> SUFFICES ASSUME x \in Best PROVE FALSE
      OBVIOUS
    <3>1. CASE x \in Chain[cur]
      <4>1. b \in Chain[cur] BY <1>2, <1>3, <1>6, <2>1, <3>1, ChainThrough
      <4>2. Chain[cur] \subseteq Best BY <1>2, <1>3, ChainOrder
      <4> QED BY <1>6, <4>1, <4>2
    <3>2. CASE cur \in Chain[x]
      <4>1. top \in Chain[x] BY <1>2, <1>3, <1>6, <2>1, <2>2, <3>2, ChainThrough
      <4>2. Chain[x] \subseteq Best BY <1>3, ChainOrder
      <4> QED BY <1>2, <4>1, <4>2
    <3> QED BY <1>2, <1>3, <2>2, <3>1, <3>2, ChainOrder
  <2>4. Has(b) BY <1>1, <1>3 DEF Connected
  <2>5. next[x] # NoHash BY <1>3, <2>4 DEF RInv, PointerInv, Unlinked
  <2>6. x \in Hash /\ x \in Key BY <2>2, KeyFacts DEF Hash
  <2>7. Parent[next[x]] = x BY <2>5, <2>6 DEF RInv, PointerInv
  <2>8. Stored(next[x]) BY <2>5, <2>6 DEF IInv, DbInv, LinkInv, Follows
  <2>9. next[x] = b
    BY <1>3, <1>6, <2>3, <2>7, <2>8 DEF Straight, storingBlock, Stored
  <2> QED BY <1>6, <2>9
<1> QED BY <1>4, <1>5, <1>6

LEMMA RelinkTurn ==
  ASSUME NEW s \in Syncer, Syncer = {s}, IInv, RInv, Straight(s), Relink(s)
  PROVE  RInv'
<1> DEFINE p == NewPrev(s)
           o == job[s]
<1>1. pc[s] = "relink" /\ SetNext(o.cur, o.top) BY DEF Relink, Waits
<1>2. /\ o.from \in Best \ Line(p) /\ Parent[o.from] = o.cur /\ o.from # NoHash
      /\ o.cur # bti.hash /\ Best \cup Line(p) = Line(p) \cup BestFrom(o.from)
  BY <1>1, ForkFacts
<1>3. /\ Connected = Best \cup Line(p) /\ Linked(Best)
      /\ bti # NoEntry => next[bti.hash] = NoHash
  BY <1>1 DEF RInv, TurnInv, ConnectedInv, LinkedInv, Walking
<1>4. /\ Stored(p) /\ p # Genesis /\ bti # NoEntry
      /\ o.cur \in Line(p) /\ o.cur \in Best
      /\ o.top \in Line(p) \ Best /\ Parent[o.top] = o.cur
  BY <1>1 DEF RInv, TurnInv, LocalsInv, Reorganising, Walking
<1>5. Line(p) \subseteq Block BY LineFacts
<1>6. /\ UNCHANGED <<prev, main, btx, bts, bti, cachedTip>>
      /\ \A k \in Key : next'[k] = IF k = o.cur THEN o.top ELSE next[k]
  BY <1>1 DEF SetNext, IInv, TypeOK, DbTypeOK
<1>7. Continue(s, "orphan", o) BY <1>2 DEF Relink
<1>8. PointerInv'
  <2>1. \A k : Has(k)' = Has(k) BY <1>6 DEF Has
  <2>2. Has(o.cur) /\ o.top # NoHash BY <1>3, <1>4, <1>5, KeyFacts DEF Connected
  <2>3. \A b \in Block : Has(b) => next[Parent[b]] # NoHash
    BY <1>1 DEF RInv, PointerInv, Unlinked
  <2>4. Hash \subseteq Key /\ Block \subseteq Key /\ \A b \in Block : Parent[b] \in Key
    BY KeyFacts DEF Key
  <2> HIDE DEF p, o
  <2>5. \A k \in Hash : next'[k] # NoHash => Parent[next'[k]] = k
    BY <1>4, <1>6, <2>4 DEF RInv, PointerInv
  <2>6. \A b \in Block : ~Has(b) => next'[b] = NoHash
    BY <1>6, <2>2, <2>4 DEF RInv, PointerInv
  <2>7. \A b \in Block : Has(b) => next'[Parent[b]] # NoHash
    BY <1>6, <2>2, <2>3, <2>4
  <2>8. cachedTip' # NoEntry => cachedTip' = bti' BY <1>6 DEF RInv, PointerInv
  <2> QED BY <2>1, <2>5, <2>6, <2>7, <2>8 DEF PointerInv
<1>9. Connected' = Connected /\ Best' = Best /\ \A k : Stored(k)' = Stored(k)
  BY <1>6 DEF Connected, Best, Has, Stored
<1>10. \A b \in Line(p) : next'[Parent[b]] = b
  BY <1>1, <1>5, <1>6, BranchLinked, KeyFacts
<1>11. \A b \in Best : Parent[b] \notin Line(p) => next'[Parent[b]] = b
  BY <1>3, <1>4, <1>6, BestFacts, KeyFacts DEF Linked
<1>12. next'[bti.hash] = NoHash BY <1>2, <1>3, <1>4, <1>6, BestFacts, KeyFacts
<1>13. pc'[s] = "orphan" /\ job'[s] = o =>
         ConnectedInv(s)' /\ LinkedInv(s)' /\ LocalsInv(s)'
  <2> SUFFICES ASSUME pc'[s] = "orphan", job'[s] = o
               PROVE  ConnectedInv(s)' /\ LinkedInv(s)' /\ LocalsInv(s)'
    OBVIOUS
  <2>1. NewPrev(s)' = p BY DEF NewPrev
  <2>2. BestFrom(job[s].from)' = BestFrom(o.from) BY <1>9 DEF BestFrom
  <2> HIDE DEF p, o
  <2>3. ConnectedInv(s)' BY <1>2, <1>3, <1>9, <2>1, <2>2 DEF ConnectedInv, Reading, Line
  <2>4. LinkedInv(s)'
    BY <1>6, <1>9, <1>10, <1>11, <1>12, <2>1 DEF LinkedInv, Linked, Reading, Walking, Line
  <2>5. LocalsInv(s)'
    BY <1>2, <1>4, <1>6, <1>9, <2>1 DEF LocalsInv, Reorganising, Walking, Line
  <2> QED BY <2>3, <2>4, <2>5
<1> QED BY <1>1, <1>6, <1>7, <1>8, <1>13, ContinueTurn

----------------------------------------------------------------------------
(* The old branch leaves the main chain. *)

LEMMA OrphanTurn ==
  ASSUME NEW s \in Syncer, Syncer = {s}, IInv, RInv, Orphan(s)
  PROVE  RInv'
<1> DEFINE p == NewPrev(s)
           o == job[s]
<1>1. pc[s] = "orphan" /\ ChangeBlockHeight(o.from, -1) /\ Continue(s, "follow", o)
  BY DEF Orphan, Waits, SetBlockNotMain
<1>2. UNCHANGED <<prev, next, bti, cachedTip>> BY <1>1 DEF ChangeBlockHeight
<1>3. PointerInv' BY <1>1, <1>2, PointerKept DEF RInv
<1>4. /\ Connected = Line(p) \cup BestFrom(o.from)
      /\ Linked(Line(p)) /\ Linked({b \in Best \ Line(p) : Parent[b] \notin Line(p)})
      /\ bti # NoEntry => next[bti.hash] = NoHash
  BY <1>1 DEF RInv, TurnInv, ConnectedInv, LinkedInv
<1>5. Stored(p) /\ p # Genesis /\ bti # NoEntry /\ o.from \in Best \ Line(p)
  BY <1>1 DEF RInv, TurnInv, LocalsInv, Reorganising
<1>6. o.from \in Block BY <1>5, BestFacts
<1>7. Connected' = Connected \ {o.from}
  BY <1>1, <1>2, <1>6, KeyFacts DEF ChangeBlockHeight, Connected, Has, IInv, TypeOK, DbTypeOK
<1>8. Best' = Best /\ (\A k : BestFrom(k)' = BestFrom(k) /\ Stored(k)' = Stored(k))
  BY <1>2 DEF Best, BestFrom, Stored, Has
<1>9. pc'[s] = "follow" /\ job'[s] = o =>
        ConnectedInv(s)' /\ LinkedInv(s)' /\ LocalsInv(s)'
  <2> SUFFICES ASSUME pc'[s] = "follow", job'[s] = o
               PROVE  ConnectedInv(s)' /\ LinkedInv(s)' /\ LocalsInv(s)'
    OBVIOUS
  <2>1. NewPrev(s)' = p BY DEF NewPrev
  <2>2. BestFrom(job[s].from)' = BestFrom(o.from) BY <1>8 DEF BestFrom
  <2> HIDE DEF p, o
  <2>3. ConnectedInv(s)' BY <1>4, <1>5, <1>7, <2>1, <2>2 DEF ConnectedInv, Reading, Line
  <2>4. LinkedInv(s)'
    BY <1>2, <1>4, <1>8, <2>1 DEF LinkedInv, Linked, Reading, Walking, Line
  <2>5. LocalsInv(s)'
    BY <1>2, <1>5, <1>8, <2>1 DEF LocalsInv, Reorganising, Walking, Line
  <2> QED BY <2>3, <2>4, <2>5
<1> QED BY <1>1, <1>2, <1>3, <1>9, ContinueTurn

LEMMA FollowTurn ==
  ASSUME NEW s \in Syncer, Syncer = {s}, IInv, RInv, Follow(s)
  PROVE  RInv'
<1> DEFINE p == NewPrev(s)
           o == job[s]
           k == o.from
           j == [o EXCEPT !.from = GetNext(k)]
<1>1. pc[s] = "follow" /\ UNCHANGED dbVars BY DEF Follow, Waits
<1>2. PointerInv' BY <1>1, PointerKept DEF RInv, dbVars
<1>3. Connected' = Connected /\ Best' = Best /\ (\A S : Linked(S)' <=> Linked(S))
      /\ \A x : Stored(x)' = Stored(x) /\ BestFrom(x)' = BestFrom(x)
  BY <1>1, ReadKeeps DEF dbVars
<1>4. /\ Connected = Line(p) \cup (BestFrom(k) \ {k})
      /\ Linked(Line(p)) /\ Linked({b \in Best \ Line(p) : Parent[b] \notin Line(p)})
      /\ bti # NoEntry => next[bti.hash] = NoHash
  BY <1>1 DEF RInv, TurnInv, ConnectedInv, LinkedInv
<1>5. Stored(p) /\ p # Genesis /\ bti # NoEntry /\ k \in Best \ Line(p)
  BY <1>1 DEF RInv, TurnInv, LocalsInv, Reorganising
<1>6. /\ bti.hash \in Block /\ Best = Chain[bti.hash] /\ Line(p) = Chain[p] /\ p \in Block
      /\ k \in Block /\ Zeros \notin Block /\ NoHash \notin Block
  BY <1>5, BestFacts, KeyFacts DEF Stored, Line
<1>7. j.blk = o.blk /\ j.from = next[k] BY JobFacts DEF Job, GetNext
<1>8. CASE k = bti.hash
  <2>1. StartAdd(s, o) BY <1>4, <1>5, <1>8 DEF Follow, GetNext
  <2>2. ASSUME NEW b \in BestFrom(k) PROVE b = k
    <3>1. b \in Chain[k] /\ k \in Chain[b] /\ b \in Block
      BY <1>6, <1>8, <2>2, BestFacts DEF BestFrom
    <3>2. (b = k \/ Depth[b] < Depth[k]) /\ (b = k \/ Depth[k] < Depth[b])
      BY <1>6, <3>1, ChainOrder
    <3> QED BY <1>6, <3>1, <3>2, KeyFacts
  <2>3. Connected' = Line(p) BY <1>3, <1>4, <2>2
  <2>4. next'[o.blk] = NoHash BY <1>1, NewBlockEnds DEF dbVars
  <2>5. \A b \in Line(p) : next'[Parent[b]] = b BY <1>1, <1>4 DEF Linked, dbVars
  <2> QED BY <1>1, <1>2, <2>1, <2>3, <2>4, <2>5, StartAddTurn DEF dbVars
<1>9. CASE k # bti.hash
  <2>1. PICK c \in Best : Parent[c] = k BY <1>5, <1>6, <1>9, ChainFacts
  <2>2. c \in Block /\ c # Genesis BY <1>6, <2>1, ChainFacts, KeyFacts
  <2>3. c \notin Line(p) BY <1>5, <1>6, <2>1, <2>2, ChainOrder
  <2>4. next[k] = c BY <1>4, <1>5, <2>1, <2>3 DEF Linked
  <2>5. BestFrom(c) = BestFrom(k) \ {k} BY <1>6, <2>1, <2>2, ChainSplits DEF BestFrom
  <2>6. Continue(s, "orphan", j) BY <1>6, <2>2, <2>4 DEF Follow, GetNext
  <2>7. pc'[s] = "orphan" /\ job'[s] = j =>
          ConnectedInv(s)' /\ LinkedInv(s)' /\ LocalsInv(s)'
    <3> SUFFICES ASSUME pc'[s] = "orphan", job'[s] = j
                 PROVE  ConnectedInv(s)' /\ LinkedInv(s)' /\ LocalsInv(s)'
      OBVIOUS
    <3>1. NewPrev(s)' = p /\ job'[s].from = c BY <1>7, <2>4 DEF NewPrev
    <3>2. BestFrom(job[s].from)' = BestFrom(c) BY <1>3, <3>1 DEF BestFrom
    <3> HIDE DEF p, o, j, k
    <3>3. ConnectedInv(s)' BY <1>3, <1>4, <2>5, <3>1, <3>2 DEF ConnectedInv, Reading, Line
    <3>4. LinkedInv(s)'
      BY <1>1, <1>3, <1>4, <3>1 DEF LinkedInv, Linked, Reading, Walking, dbVars, Line
    <3>5. LocalsInv(s)'
      BY <1>1, <1>3, <1>5, <2>1, <2>3, <3>1
         DEF LocalsInv, Reorganising, Walking, dbVars, Line
    <3> QED BY <3>3, <3>4, <3>5
  <2> QED BY <1>1, <1>2, <1>7, <2>6, <2>7, ContinueTurn DEF dbVars
<1> QED BY <1>8, <1>9

----------------------------------------------------------------------------
(* The end of storeTipBlock. *)

LEMMA AddTxsTurn ==
  ASSUME NEW s \in Syncer, Syncer = {s}, IInv, RInv, AddTxs(s)
  PROVE  RInv'
<1>1. pc[s] = "addTxs" /\ UNCHANGED dbVars /\ Continue(s, "add", job[s])
  BY DEF AddTxs, Waits
<1>2. /\ pc'[s] = "add" /\ job'[s] = job[s] /\ waiting' = waiting /\ crashed' = crashed
      /\ cachedLastHash' = cachedLastHash
  BY <1>1 DEF Continue, GoTo, IInv, TypeOK
<1>3. PointerInv' BY <1>1, PointerKept DEF RInv, dbVars
<1>4. Connected' = Connected BY <1>1, ReadKeeps DEF dbVars
<1>5. QueueInv(s)' BY <1>1, <1>2 DEF RInv, TurnInv, QueueInv, Stored, Has, dbVars
<1>6. ConnectedInv(s)'
  BY <1>1, <1>2, <1>4 DEF RInv, TurnInv, ConnectedInv, NewPrev, Reading
<1>7. LinkedInv(s)'
  BY <1>1, <1>2 DEF RInv, TurnInv, LinkedInv, NewPrev, Linked, Reading, Walking, dbVars
<1>8. LocalsInv(s)' BY <1>2 DEF LocalsInv, Reorganising, Walking
<1>9. TurnInv(s)' BY <1>5, <1>6, <1>7, <1>8 DEF TurnInv
<1> QED BY <1>2, <1>3, <1>9 DEF RInv

LEMMA AddBlockTurn ==
  ASSUME NEW s \in Syncer, Syncer = {s}, IInv, RInv, AddBlock(s)
  PROVE  RInv'
<1> DEFINE p == NewPrev(s)
           b == job[s].blk
<1>1. /\ pc[s] = "add" /\ Add(b, Depth[b]) /\ Continue(s, "setTip", job[s])
  BY DEF AddBlock, Waits, IInv, JobInv, PhaseInv, CallsInv, CallInv, Placed
<1>2. /\ pc'[s] = "setTip" /\ job'[s] = job[s] /\ waiting' = waiting /\ crashed' = crashed
      /\ cachedLastHash' = cachedLastHash
  BY <1>1 DEF Continue, GoTo, IInv, TypeOK
<1>3. /\ UNCHANGED <<next, bti, cachedTip>>
      /\ \A k \in Key : prev'[k] = (IF k = b THEN Parent[b] ELSE prev[k])
      /\ \A k \in Key : main'[k] = (IF k = b THEN Depth[b] ELSE main[k])
  BY <1>1 DEF Add, IInv, TypeOK, DbTypeOK
<1>4. b \in Block /\ b \in Key /\ Parent[b] # NoHash /\ Depth[b] \in Nat /\ Block \subseteq Key
  BY JobFacts, KeyFacts
<1>5. \A k \in Key : Has(k)' <=> Has(k) \/ k = b BY <1>3, <1>4 DEF Has
<1>6. /\ Connected = Line(p) /\ Linked(Line(p)) /\ next[b] = NoHash
  BY <1>1 DEF RInv, TurnInv, ConnectedInv, LinkedInv
<1>7. Connected' = Connected \cup {b} BY <1>3, <1>4, <1>5 DEF Connected
<1>8. Connected' = Chain[b] BY <1>6, <1>7, LineFacts
<1>9. PointerInv'
  <2>1. \A x \in Block : x = b => Unlinked(x)' BY <1>2 DEF Unlinked
  <2>2. \A x \in Block : Has(x) => next[Parent[x]] # NoHash
    BY <1>1 DEF RInv, PointerInv, Unlinked
  <2> HIDE DEF b
  <2> QED BY <1>3, <1>4, <1>5, <2>1, <2>2 DEF RInv, PointerInv
<1>10. QueueInv(s)'
  <2>1. \A call \in waiting[s] : call.blk \in Block BY DEF IInv, TypeOK, Call
  <2>2. cachedLastHash[s] \in Key BY DEF IInv, TypeOK
  <2> HIDE DEF b
  <2>3. \A call \in waiting[s] : ~Has(call.blk) /\ call.blk # job[s].blk
    BY <1>1 DEF RInv, TurnInv, QueueInv
  <2>4. cachedLastHash[s] = NoHash \/ Stored(cachedLastHash[s]) \/ cachedLastHash[s] = b
    BY DEF RInv, TurnInv, QueueInv, b
  <2>5. cachedLastHash[s] = NoHash \/ Stored(cachedLastHash[s])'
    BY <1>2, <1>4, <1>5, <2>2, <2>4 DEF Stored
  <2>6. \A call \in waiting'[s] : ~Has(call.blk)' /\ call.blk # job'[s].blk
    BY <1>2, <1>4, <1>5, <2>1, <2>3 DEF b
  <2> QED BY <1>2, <2>5, <2>6 DEF QueueInv, Stored
<1>11. ConnectedInv(s)' BY <1>2, <1>8 DEF ConnectedInv, Reading
<1>12. LinkedInv(s)'
  BY <1>2, <1>3, <1>6 DEF LinkedInv, NewPrev, Linked, Reading, Walking
<1>13. LocalsInv(s)' BY <1>2 DEF LocalsInv, Reorganising, Walking
<1>14. TurnInv(s)' BY <1>10, <1>11, <1>12, <1>13 DEF TurnInv
<1> QED BY <1>2, <1>9, <1>14 DEF RInv

LEMMA MoveTipTurn ==
  ASSUME NEW s \in Syncer, Syncer = {s}, IInv, RInv, MoveTip(s)
  PROVE  RInv'
<1> DEFINE b == job[s].blk
<1>1. pc[s] = "setTip" /\ SetTip(b, job[s].height) /\ Continue(s, "setNext", job[s])
  BY DEF MoveTip, Waits
<1>2. /\ pc'[s] = "setNext" /\ job'[s] = job[s] /\ waiting' = waiting /\ crashed' = crashed
      /\ cachedLastHash' = cachedLastHash
  BY <1>1 DEF Continue, GoTo, IInv, TypeOK
<1>3. UNCHANGED <<prev, next, main>> /\ bti'.hash = b /\ cachedTip' = bti'
  BY <1>1 DEF SetTip, At
<1>4. PointerInv'
  <2>1. \A x \in Block : Unlinked(x) => Unlinked(x)' BY <1>1, <1>2 DEF Unlinked
  <2> QED BY <1>3, <2>1 DEF RInv, PointerInv, Has
<1>5. Connected' = Connected BY <1>3 DEF Connected, Has
<1>6. QueueInv(s)' BY <1>1, <1>2, <1>3 DEF RInv, TurnInv, QueueInv, Stored, Has
<1>7. ConnectedInv(s)'
  BY <1>1, <1>2, <1>5 DEF RInv, TurnInv, ConnectedInv, NewPrev, Reading
<1>8. LinkedInv(s)'
  BY <1>1, <1>2, <1>3 DEF RInv, TurnInv, LinkedInv, NewPrev, Linked, Reading, Walking
<1>9. LocalsInv(s)' BY <1>2, <1>3 DEF LocalsInv, Reorganising, Walking
<1>10. TurnInv(s)' BY <1>6, <1>7, <1>8, <1>9 DEF TurnInv
<1> QED BY <1>2, <1>4, <1>10 DEF RInv

(* The last write completes the chain of pointers up to the new tip. *)
LEMMA LinkPrevTurn ==
  ASSUME NEW s \in Syncer, Syncer = {s}, IInv, RInv, LinkPrev(s)
  PROVE  RInv'
<1> DEFINE b == job[s].blk
           p == NewPrev(s)
<1>1. pc[s] = "setNext" /\ SetNext(p, b) /\ Answer(s, "ok")
  BY DEF LinkPrev, Waits, NewPrev
<1>2. /\ pc'[s] = "idle" /\ waiting' = waiting /\ crashed' = crashed
      /\ cachedLastHash' = cachedLastHash
  BY <1>1 DEF Answer, GoTo, IInv, TypeOK
<1>3. /\ b \in Block /\ p = Parent[b] /\ p \in Hash /\ p \in Key /\ b # NoHash
      /\ (b = Genesis \/ Stored(p)) /\ (p = Zeros <=> b = Genesis)
  BY <1>1, JobFacts, KeyFacts DEF IInv, JobInv, PhaseInv, Placed, Key
<1>4. /\ UNCHANGED <<prev, main, bti, cachedTip>>
      /\ \A k \in Key : next'[k] = (IF k = p THEN b ELSE next[k])
  BY <1>1, <1>3 DEF SetNext, IInv, TypeOK, DbTypeOK
<1>5. /\ Connected = Chain[b] /\ Linked(Line(p)) /\ next[b] = NoHash /\ bti.hash = b
  BY <1>1 DEF RInv, TurnInv, ConnectedInv, LinkedInv, LocalsInv
<1>6. Best = Chain[b] BY <1>3, <1>5, BestFacts
<1>7. Connected' = Connected /\ Best' = Best BY <1>4 DEF Connected, Has, Best
<1>8. b # p
  <2>1. b # Genesis => Depth[b] = Depth[p] + 1 /\ Depth[p] \in Nat BY <1>3, KeyFacts
  <2> QED BY <1>3, <2>1, KeyFacts
<1>9. PointerInv'
  <2>1. \A x \in Block : Has(x) => next[Parent[x]] # NoHash \/ x = b
    BY <1>1 DEF RInv, PointerInv, Unlinked
  <2>2. \A x \in Block : Parent[x] \in Key /\ x \in Key BY KeyFacts
  <2>3. Hash \subseteq Key BY DEF Key
  <2>4. \A x \in Block : Has(x)' = Has(x) BY <1>4 DEF Has
  <2> HIDE DEF b, p
  <2>5. \A k \in Hash : next'[k] # NoHash => Parent[next'[k]] = k
    BY <1>3, <1>4, <2>3 DEF RInv, PointerInv
  <2>6. \A x \in Block : ~Has(x) => next'[x] = NoHash
    BY <1>3, <1>4, <2>2, KeyFacts DEF RInv, PointerInv, Stored
  <2>7. \A x \in Block : Has(x) => next'[Parent[x]] # NoHash
    BY <1>3, <1>4, <2>1, <2>2
  <2>8. cachedTip' # NoEntry => cachedTip' = bti' BY <1>4 DEF RInv, PointerInv
  <2> QED BY <2>4, <2>5, <2>6, <2>7, <2>8 DEF PointerInv
<1>10. \A x \in Best : next'[Parent[x]] = x
  <2>1. Best = Line(p) \cup {b} BY <1>6, LineFacts
  <2>2. ASSUME NEW x \in Line(p) PROVE next'[Parent[x]] = x
    <3>1. x \in Block /\ Parent[x] \in Key /\ Parent[x] # p BY LineFacts, KeyFacts
    <3> QED BY <1>4, <1>5, <3>1 DEF Linked
  <2> QED BY <1>3, <1>4, <2>1, <2>2
<1>11. next'[bti'.hash] = NoHash BY <1>3, <1>4, <1>5, <1>8, KeyFacts
<1>12. QueueInv(s)' BY <1>1, <1>2, <1>4 DEF RInv, TurnInv, QueueInv, Stored, Has
<1>13. ConnectedInv(s)' BY <1>2, <1>5, <1>6, <1>7 DEF ConnectedInv, Reading
<1>14. LinkedInv(s)'
  BY <1>2, <1>7, <1>10, <1>11 DEF LinkedInv, Linked, Reading, Walking
<1>15. LocalsInv(s)' BY <1>2 DEF LocalsInv, Reorganising, Walking
<1>16. TurnInv(s)' BY <1>12, <1>13, <1>14, <1>15 DEF TurnInv
<1> QED BY <1>2, <1>9, <1>16 DEF RInv

(* The job of one Sync object takes a step. *)
LEMMA StepTurn ==
  ASSUME OneFirstBlock, NEW s \in Syncer, Syncer = {s}, IInv, RInv, Straight(s), Step(s)
  PROVE  RInv'
<1>1. ~RetryReorg(s) BY DEF RetryReorg, Waits, RInv, TurnInv, LocalsInv
<1> QED
  BY <1>1, CheckPrevTurn, ReadTipTurn, ReadNextTurn, ReorgHeightTurn, WalkBackTurn,
     WalkTestTurn, ConnectTurn, ReadForkTurn, RelinkTurn, OrphanTurn, FollowTurn,
     AddTxsTurn, AddBlockTurn, MoveTipTurn, LinkPrevTurn DEF Step

----------------------------------------------------------------------------
(* The calls. *)

(* A call about a block that is new to the database and to the Sync object, *)
(* or one that repeats the tip, above block 1, to an object without calls.  *)
FreshCall(s, call) ==
  \/ ~Has(call.blk) /\ \A other \in waiting[s] : other.blk # call.blk
  \/ call.blk = bti.hash /\ Depth[call.blk] >= 2 /\ waiting[s] = {}

LEMMA BeginTurn ==
  ASSUME NEW s \in Syncer, Syncer = {s}, IInv, RInv, pc[s] = "idle", NEW call \in Call,
         call.allow, Begin(s, call), UNCHANGED <<dbVars, crashed>>,
         ~Has(call.blk) \/ (call.blk = bti.hash /\ Depth[call.blk] >= 2),
         waiting'[s] \subseteq waiting[s],
         \A other \in waiting'[s] : other.blk # call.blk
  PROVE  RInv'
<1> DEFINE p == Parent[call.blk]
<1>1. /\ job'[s] = NewJob(call) /\ pc'[s] \in {"tip", "check"}
      /\ pc'[s] = "tip" => p = cachedLastHash[s]
      /\ cachedLastHash'[s] = cachedLastHash[s]
  BY DEF Begin, GoTo, IInv, TypeOK
<1>2. job'[s].blk = call.blk BY <1>1 DEF NewJob
<1>3. PointerInv' BY PointerKept DEF RInv, dbVars
<1>4. Connected' = Connected /\ Best' = Best /\ (\A S : Linked(S)' <=> Linked(S))
      /\ \A k : Stored(k)' = Stored(k) /\ Has(k)' = Has(k)
  BY ReadKeeps DEF dbVars
<1>5. /\ Connected = Best /\ Linked(Best) /\ (bti # NoEntry => next[bti.hash] = NoHash)
      /\ QueueInv(s)
  BY DEF RInv, TurnInv, ConnectedInv, LinkedInv, Reading
<1>6. cachedLastHash[s] = NoHash \/ Stored(cachedLastHash[s]) BY <1>5 DEF QueueInv
<1>7. p \in Hash /\ NoHash \notin Hash BY BlockTreeAssumption DEF Call
<1>8. QueueInv(s)'
  <2>1. \A other \in waiting'[s] : ~Has(other.blk)' /\ other.blk # job'[s].blk
    BY <1>2, <1>4, <1>5 DEF QueueInv
  <2>2. cachedLastHash'[s] = NoHash \/ Stored(cachedLastHash[s])' BY <1>1, <1>4, <1>6
  <2>3. Stored(cachedLastHash[s])' = Stored(cachedLastHash[s]) BY <1>1 DEF Stored, Has, dbVars
  <2> QED BY <1>1, <1>2, <1>4, <2>1, <2>2 DEF QueueInv, dbVars
<1>9. ConnectedInv(s)' BY <1>1, <1>4, <1>5 DEF ConnectedInv, Reading
<1>10. LinkedInv(s)'
  BY <1>1, <1>4, <1>5 DEF LinkedInv, Linked, Reading, Walking, dbVars
<1>11. LocalsInv(s)'
  <2>1. pc'[s] = "tip" => Stored(p) BY <1>1, <1>6, <1>7
  <2> QED BY <1>1, <1>2, <1>4, <2>1 DEF LocalsInv, Reorganising, Walking, NewPrev
<1>12. TurnInv(s)' BY <1>8, <1>9, <1>10, <1>11 DEF TurnInv
<1> QED BY <1>3, <1>12 DEF RInv

(* A call finds the lock free, or waits. *)
LEMMA StoreTipBlockTurn ==
  ASSUME NEW s \in Syncer, Syncer = {s}, IInv, RInv, NEW call \in Call, call.allow,
         StoreTipBlock(s, call), FreshCall(s, call),
         pc[s] # "idle" => ~Has(call.blk) /\ call.blk # job[s].blk
  PROVE  RInv'
<1>1. CASE Begin(s, call) /\ UNCHANGED waiting /\ ~storingBlock(s)
  <2>1. pc[s] = "idle" /\ UNCHANGED <<dbVars, crashed>>
    BY <1>1 DEF storingBlock, StoreTipBlock
  <2> QED BY <1>1, <2>1, BeginTurn DEF FreshCall
<1>2. CASE /\ storingBlock(s)
           /\ waiting' = [waiting EXCEPT ![s] = @ \cup {call}]
           /\ UNCHANGED <<pc, job, cachedLastHash, reply>>
  <2>1. /\ pc[s] # "idle" /\ UNCHANGED <<dbVars, crashed>>
        /\ waiting'[s] = waiting[s] \cup {call}
    BY <1>2 DEF storingBlock, StoreTipBlock, IInv, TypeOK
  <2>2. Connected' = Connected /\ Best' = Best /\ (\A S : Linked(S)' <=> Linked(S))
        /\ \A k : Stored(k)' = Stored(k) /\ Has(k)' = Has(k) /\ BestFrom(k)' = BestFrom(k)
    BY <2>1, ReadKeeps DEF dbVars
  <2>3. PointerInv' BY <1>2, <2>1 DEF RInv, PointerInv, Unlinked, Has, dbVars
  <2>4. QueueInv(s)'
    <3>1. QueueInv(s) BY DEF RInv, TurnInv
    <3> QED BY <1>2, <2>1, <2>2, <3>1 DEF QueueInv, dbVars, Stored, Has
  <2>5. ConnectedInv(s)'
    <3>1. ConnectedInv(s) BY DEF RInv, TurnInv
    <3>2. UNCHANGED <<pc, job, main, prev, bti>> BY <1>2, <2>1 DEF dbVars
    <3> QED BY <3>1, <3>2 DEF ConnectedInv, NewPrev, Connected, Best, BestFrom, Has
  <2>6. LinkedInv(s)'
    <3>1. LinkedInv(s) BY DEF RInv, TurnInv
    <3>2. UNCHANGED <<pc, job, next, bti>> BY <1>2, <2>1 DEF dbVars
    <3> QED BY <3>1, <3>2 DEF LinkedInv, NewPrev, Linked, Best
  <2>7. LocalsInv(s)'
    <3>1. LocalsInv(s) BY DEF RInv, TurnInv
    <3>2. UNCHANGED <<pc, job, next, prev, bti>> BY <1>2, <2>1 DEF dbVars
    <3> QED BY <3>1, <3>2 DEF LocalsInv, NewPrev, Best, Stored, Has
  <2>8. TurnInv(s)' BY <2>4, <2>5, <2>6, <2>7 DEF TurnInv
  <2> QED BY <2>1, <2>3, <2>8 DEF RInv
<1> QED BY <1>1, <1>2 DEF StoreTipBlock

(* A waiting call starts: two calls about one block are the same call.  *)
LEMMA PollsTurn ==
  ASSUME NEW s \in Syncer, Syncer = {s}, IInv, RInv, Polls(s)
  PROVE  RInv'
<1>1. PICK call \in waiting[s] : Poll(s, call) BY DEF Polls
<1>2. /\ pc[s] = "idle" /\ Begin(s, call) /\ UNCHANGED <<dbVars, crashed>>
      /\ waiting'[s] = waiting[s] \ {call}
  BY <1>1 DEF Poll, storingBlock, IInv, TypeOK
<1>3. \A other \in waiting[s] : other \in Call /\ other.allow /\ ~Has(other.blk)
  BY DEF IInv, TypeOK, JobInv, CallsInv, CallInv, RInv, TurnInv, QueueInv
<1>4. \A other \in waiting[s] : other.blk = call.blk => other = call
  BY <1>3 DEF Call
<1> QED BY <1>1, <1>2, <1>3, <1>4, BeginTurn

LEMMA ReorgStutters ==
  ASSUME RInv, UNCHANGED vars
  PROVE  RInv'
<1>1. PointerInv' BY DEF RInv, PointerInv, Unlinked, Has, vars, dbVars, syncVars
<1>2. ASSUME NEW s \in Syncer PROVE TurnInv(s)'
  <2>1. QueueInv(s)' BY DEF RInv, TurnInv, QueueInv, Stored, Has, vars, dbVars, syncVars
  <2>2. ConnectedInv(s)'
    BY DEF RInv, TurnInv, ConnectedInv, NewPrev, Connected, Best, BestFrom, Has, vars, dbVars,
           syncVars
  <2>3. LinkedInv(s)'
    BY DEF RInv, TurnInv, LinkedInv, NewPrev, Linked, Best, vars, dbVars, syncVars
  <2>4. LocalsInv(s)'
    BY DEF RInv, TurnInv, LocalsInv, NewPrev, Best, Stored, Has, vars, dbVars, syncVars
  <2> QED BY <2>1, <2>2, <2>3, <2>4 DEF TurnInv
<1> QED BY <1>1, <1>2 DEF RInv, vars, syncVars

LEMMA ReorgInit == Init => RInv
<1> SUFFICES ASSUME Init PROVE RInv
  OBVIOUS
<1>1. next = [h \in Key |-> NoHash] /\ prev = [h \in Key |-> NoHash] /\ bti = NoEntry
      /\ cachedTip = NoEntry /\ crashed = FALSE
  BY DEF Init, DbInit, SyncInit
<1>2. Best = {} /\ Connected = {} BY <1>1, KeyFacts DEF Best, Connected, Has
<1>3. PointerInv BY <1>1, KeyFacts DEF PointerInv, Has, Key
<1>4. ASSUME NEW s \in Syncer PROVE TurnInv(s)
  <2>1. pc[s] = "idle" /\ waiting[s] = {} /\ cachedLastHash[s] = NoHash
    BY DEF Init, SyncInit
  <2>2. QueueInv(s) BY <2>1 DEF QueueInv
  <2>3. ConnectedInv(s) BY <1>2, <2>1 DEF ConnectedInv, Reading
  <2>4. LinkedInv(s) BY <1>1, <1>2, <2>1 DEF LinkedInv, Linked, Reading, Walking
  <2>5. LocalsInv(s) BY <2>1 DEF LocalsInv, Reorganising, Walking
  <2> QED BY <2>2, <2>3, <2>4, <2>5 DEF TurnInv
<1> QED BY <1>1, <1>3, <1>4 DEF RInv

----------------------------------------------------------------------------
(* The transactions. *)

(* No two blocks hold the same transaction. *)
OwnTxs == \A b, c \in Block : TxsOf[b] \cap TxsOf[c] # {} => b = c

LEMMA OwnIndexSame ==
  ASSUME OwnIndexInv, prev' = prev, main' = main, btx' = btx
  PROVE  OwnIndexInv'
BY DEF OwnIndexInv, Connected, Has

(* Putting or deleting the transactions of a block leaves those of every   *)
(* other block indexed.                                                    *)
LEMMA OwnIndexHeight ==
  ASSUME OwnTxs, IInv, OwnIndexInv, NEW h \in Block, NEW height \in Int,
         ChangeBlockHeight(h, height)
  PROVE  OwnIndexInv'
<1> SUFFICES ASSUME NEW b \in Block, Has(b)', main'[b] >= 0, NEW t \in TxsOf[b]
             PROVE  btx'[t].hash = b
  BY DEF OwnIndexInv, Connected
<1>1. main' = [main EXCEPT ![h] = height] /\ prev' = prev
      /\ btx' = (IF height >= 0 THEN PutTxs(h, At(h, height)) ELSE DelTxs(h))
  BY DEF ChangeBlockHeight
<1>2. t \in Tx /\ b \in Key /\ main \in [Key -> Int] BY KeyFacts DEF IInv, TypeOK, DbTypeOK
<1>3. CASE b = h
  <2>1. height >= 0 BY <1>1, <1>2, <1>3
  <2> QED BY <1>1, <1>2, <1>3, <2>1 DEF PutTxs, At
<1>4. CASE b # h
  <2>1. t \notin TxsOf[h] BY <1>4 DEF OwnTxs
  <2>2. btx'[t] = btx[t] BY <1>1, <1>2, <2>1 DEF PutTxs, DelTxs
  <2>3. b \in Connected BY <1>1, <1>2, <1>4 DEF Connected, Has
  <2> QED BY <2>2, <2>3 DEF OwnIndexInv
<1> QED BY <1>3, <1>4

LEMMA OwnIndexAdd ==
  ASSUME OwnTxs, IInv, OwnIndexInv, NEW n \in Block, NEW height, Add(n, height)
  PROVE  OwnIndexInv'
<1> SUFFICES ASSUME NEW b \in Block, Has(b)', main'[b] >= 0, NEW t \in TxsOf[b]
             PROVE  btx'[t].hash = b
  BY DEF OwnIndexInv, Connected
<1>1. /\ main' = [main EXCEPT ![n] = height] /\ prev' = [prev EXCEPT ![n] = Parent[n]]
      /\ btx' = PutTxs(n, At(n, height))
  BY DEF Add
<1>2. /\ t \in Tx /\ b \in Key /\ main \in [Key -> Int] /\ prev \in [Key -> Key]
  BY KeyFacts DEF IInv, TypeOK, DbTypeOK
<1>3. CASE b = n BY <1>1, <1>2, <1>3 DEF PutTxs, At
<1>4. CASE b # n
  <2>1. t \notin TxsOf[n] BY <1>4 DEF OwnTxs
  <2>2. btx'[t] = btx[t] BY <1>1, <1>2, <2>1 DEF PutTxs
  <2>3. b \in Connected BY <1>1, <1>2, <1>4 DEF Connected, Has
  <2> QED BY <2>2, <2>3 DEF OwnIndexInv
<1> QED BY <1>3, <1>4

LEMMA OwnIndexStep ==
  ASSUME OwnTxs, IInv, OwnIndexInv, NEW s \in Syncer, Step(s)
  PROVE  OwnIndexInv'
<1>1. CASE Connect(s)
  <2>1. CASE Head(job[s].branch) \in Block
    <3>1. SetBlockMain(Head(job[s].branch), job[s].height)
      BY <1>1, <2>1 DEF Connect
    <3>2. job[s].height \in Int BY JobFacts DEF Job
    <3> QED BY <2>1, <3>1, <3>2, OwnIndexHeight DEF SetBlockMain
  <2>2. CASE Head(job[s].branch) \notin Block
    BY <1>1, <2>2, OwnIndexSame DEF Connect, dbVars
  <2> QED BY <2>1, <2>2
<1>2. CASE Orphan(s)
  <2>1. job[s].from \in Block
    BY <1>2 DEF Orphan, Waits, IInv, JobInv, PhaseInv, Stored
  <2> QED BY <1>2, <2>1, OwnIndexHeight DEF Orphan, SetBlockNotMain
<1>3. CASE AddBlock(s)
  BY <1>3, JobFacts, OwnIndexAdd DEF AddBlock
<1>4. CASE Relink(s) \/ LinkPrev(s)
  BY <1>4, OwnIndexSame DEF Relink, LinkPrev, SetNext
<1>5. CASE MoveTip(s) \/ ReadTip(s)
  BY <1>5, OwnIndexSame DEF MoveTip, SetTip, ReadTip, CacheTip
<1>6. CASE \/ CheckPrev(s) \/ ReadNext(s) \/ ReorgHeight(s) \/ RetryReorg(s) \/ WalkBack(s)
           \/ WalkTest(s) \/ ReadFork(s) \/ Follow(s) \/ AddTxs(s)
  BY <1>6, OwnIndexSame DEF CheckPrev, ReadNext, ReorgHeight, RetryReorg, WalkBack, WalkTest,
     ReadFork, Follow, AddTxs, dbVars
<1> QED BY <1>1, <1>2, <1>3, <1>4, <1>5, <1>6 DEF Step
=============================================================================
