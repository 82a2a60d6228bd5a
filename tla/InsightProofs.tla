--------------------------- MODULE InsightProofs ----------------------------
(***************************************************************************)
(* Proofs about the process of insight.js, for any block tree, any moves   *)
(* of bitcoind, any kills and any failing calls: the types of its          *)
(* variables in every configuration; what the database keeps wherever      *)
(* blocks may reorganise, be it that a HistoricSync reads the block files  *)
(* or RPC, or that a peer announces the blocks and asks for the sync; and  *)
(* the best chain where a HistoricSync over RPC works alone.               *)
(***************************************************************************)
EXTENDS HistoricInvariant, ReorgLemmas

----------------------------------------------------------------------------
(* The chain of a block, and lists of blocks. *)

(* A chain is as long as it is high. *)
LEMMA ChainFinite ==
  ASSUME NEW n \in Block
  PROVE  IsFiniteSet(Chain[n])
<1> DEFINE Bad == {b \in Block : ~IsFiniteSet(Chain[b])}
           Depths == {Depth[b] : b \in Bad}
<1> SUFFICES ASSUME Bad # {} PROVE FALSE OBVIOUS
<1>1. Depths \in SUBSET Nat /\ Depths # {} BY BlockTreeAssumption
<1>2. PICK d \in Depths : \A x \in Depths : d <= x BY <1>1, Least
<1>3. PICK b \in Bad : d = Depth[b] BY <1>2
<1>4. b \in Block /\ Chain[b] = {b} \cup (IF b = Genesis THEN {} ELSE Chain[Parent[b]])
  BY ChainEquation
<1>5. IsFiniteSet({b}) BY FS_Singleton
<1>6. b # Genesis BY <1>3, <1>4, <1>5
<1>7. Parent[b] \in Block /\ Depth[b] = Depth[Parent[b]] + 1 BY <1>6, KeyFacts
<1>8. Parent[b] \notin Bad
  <2>1. Parent[b] \in Bad => Depth[Parent[b]] \in Depths BY <1>7
  <2>2. Depth[b] \in Nat /\ Depth[Parent[b]] \in Nat BY <1>4, <1>7, KeyFacts
  <2>3. ~(Depth[b] <= Depth[Parent[b]]) BY <1>7, <2>2
  <2> QED BY <1>2, <1>3, <2>1, <2>3
<1>9. IsFiniteSet(Chain[Parent[b]] \cup {b}) BY <1>7, <1>8, FS_AddElement
<1>10. Chain[b] = Chain[Parent[b]] \cup {b} BY <1>4, <1>6
<1> QED BY <1>3, <1>9, <1>10

LEMMA DeepestIs ==
  ASSUME NEW B \in SUBSET Block, IsFiniteSet(B), B # {}
  PROVE  Deepest(B) \in B /\ \A x \in B : Depth[x] <= Depth[Deepest(B)]
<1> DEFINE Good == {s \in SUBSET B : s = {} \/ \E b \in s : \A x \in s : Depth[x] <= Depth[b]}
<1>1. \A x \in B : Depth[x] \in Nat BY BlockTreeAssumption
<1>2. ASSUME NEW s \in SUBSET B, \A x \in s : s \ {x} \in Good PROVE s \in Good
  <2> SUFFICES ASSUME s # {} PROVE \E b \in s : \A x \in s : Depth[x] <= Depth[b] OBVIOUS
  <2>1. PICK y \in s : TRUE OBVIOUS
  <2>2. CASE s \ {y} = {}
    <3>1. \A x \in s : x = y BY <2>2
    <3> QED BY <1>1, <3>1
  <2>3. CASE s \ {y} # {}
    <3>1. PICK b \in s \ {y} : \A x \in s \ {y} : Depth[x] <= Depth[b] BY <1>2, <2>3
    <3>2. CASE Depth[y] <= Depth[b] BY <3>1, <3>2
    <3>3. CASE ~(Depth[y] <= Depth[b])
      <4>1. \A x \in s \ {y} : Depth[x] <= Depth[y] BY <1>1, <3>1, <3>3
      <4> QED BY <1>1, <4>1
    <3> QED BY <3>2, <3>3
  <2> QED BY <2>2, <2>3
<1> HIDE DEF Good
<1>3. B \in Good BY <1>2, SmallerSets
<1>4. \E b \in B : \A x \in B : Depth[x] <= Depth[b] BY <1>3 DEF Good
<1> QED BY <1>4 DEF Deepest

Queues(f, D) == f = [s \in D |-> IF s = {} THEN << >> ELSE Append(f[s \ {Deepest(s)}], Deepest(s))]

LEMMA ByDepthFold ==
  ASSUME NEW B \in SUBSET Block, IsFiniteSet(B)
  PROVE  \E f : Queues(f, SUBSET B) /\ ByDepth(B) = f[B]
<1> DEFINE f == CHOOSE f : Queues(f, SUBSET B)
           pick == [s \in SUBSET B |-> Deepest(s)]
           G == [p \in B \X Seq(B) |-> Append(p[2], p[1])]
<1>1. ByDepth(B) = f[B] BY DEF ByDepth, MapThenFoldSet, Queues
<1>2. \A s \in (SUBSET B) \ {{}} : pick[s] \in s /\ pick[s] = Deepest(s)
  BY DeepestIs, FS_Subset
<1>3. \A b \in B : \A seq \in Seq(B) : Append(seq, b) \in Seq(B) /\ G[<<b, seq>>] = Append(seq, b)
  OBVIOUS
<1>4. G \in [B \X Seq(B) -> Seq(B)] BY <1>3
<1>5. << >> \in Seq(B) OBVIOUS
<1> HIDE DEF G, pick
<1>6. PICK h \in [SUBSET B -> Seq(B)] : FoldsBy(h, SUBSET B, << >>, pick, G)
  BY <1>2, <1>4, <1>5, FoldExists
<1>7. \A s \in (SUBSET B) \ {{}} :
        G[<<pick[s], h[s \ {pick[s]}]>>] = Append(h[s \ {Deepest(s)}], Deepest(s))
  BY <1>2, <1>3
<1>8. Queues(h, SUBSET B) BY <1>6, <1>7 DEF FoldsBy, Queues
<1>9. Queues(f, SUBSET B) BY <1>8
<1> QED BY <1>1, <1>9

(* seq lists the blocks of B, each once, a lowest one first. *)
Lists(seq, B) ==
  /\ seq \in Seq(B) /\ IsInjective(seq) /\ ToSet(seq) = B
  /\ B # {} => \A x \in B : Depth[seq[1]] <= Depth[x]

LEMMA ByDepthLists ==
  ASSUME NEW B \in SUBSET Block, IsFiniteSet(B)
  PROVE  Lists(ByDepth(B), B)
<1>1. PICK f : Queues(f, SUBSET B) /\ ByDepth(B) = f[B] BY ByDepthFold
<1> DEFINE Good == {s \in SUBSET B : Lists(f[s], s)}
<1>2. ASSUME NEW s \in SUBSET B, \A x \in s : s \ {x} \in Good PROVE s \in Good
  <2>1. f[s] = IF s = {} THEN << >> ELSE Append(f[s \ {Deepest(s)}], Deepest(s))
    BY <1>1 DEF Queues
  <2>2. CASE s = {}
    <3>1. << >> \in Seq(s) /\ DOMAIN << >> = {} OBVIOUS
    <3>2. Lists(<< >>, s) BY <2>2, <3>1 DEF Lists, IsInjective, ToSet
    <3> QED BY <2>1, <2>2, <3>2
  <2>3. CASE s # {}
    <3> DEFINE d == Deepest(s)
               low == s \ {d}
               seq == f[low]
    <3>1. d \in s /\ \A x \in s : Depth[x] <= Depth[d] BY <2>3, DeepestIs, FS_Subset
    <3>2. Lists(seq, low) /\ f[s] = Append(seq, d) BY <1>2, <2>1, <2>3, <3>1
    <3> HIDE DEF d, seq
    <3>3. seq \in Seq(low) /\ s = low \cup {d} BY <3>1, <3>2 DEF Lists
    <3>4. seq \in Seq(s) BY <3>3
    <3> DEFINE all == Append(seq, d)
               n == Len(seq)
    <3>5. /\ n \in Nat /\ all \in Seq(s) /\ Len(all) = n + 1 /\ all[n + 1] = d
          /\ \A i \in 1 .. n : all[i] = seq[i] /\ seq[i] \in low
      BY <3>1, <3>3, <3>4
    <3>6. DOMAIN all = 1 .. n + 1 /\ DOMAIN seq = 1 .. n BY <3>4, <3>5
    <3> HIDE DEF all, n
    <3>7. IsInjective(all)
      <4>1. \A i, j \in 1 .. n : seq[i] = seq[j] => i = j
        BY <3>2, <3>6 DEF Lists, IsInjective
      <4>2. \A i \in 1 .. n + 1 : i \in 1 .. n \/ i = n + 1 BY <3>5
      <4>3. \A i \in 1 .. n : all[i] # d BY <3>5
      <4> QED BY <3>5, <3>6, <4>1, <4>2, <4>3 DEF IsInjective
    <3>8. ToSet(all) = s
      <4>1. ToSet(seq) = low BY <3>2 DEF Lists
      <4>2. \A i \in 1 .. n + 1 : all[i] \in s
        <5>1. \A i \in 1 .. n + 1 : i \in 1 .. n \/ i = n + 1 BY <3>5
        <5> QED BY <3>1, <3>5, <5>1
      <4>3. \A x \in low : \E i \in 1 .. n + 1 : all[i] = x
        <5>1. \A x \in low : \E i \in 1 .. n : seq[i] = x BY <3>6, <4>1 DEF ToSet
        <5>2. \A i \in 1 .. n : i \in 1 .. n + 1 BY <3>5
        <5> QED BY <3>5, <5>1, <5>2
      <4>4. n + 1 \in 1 .. n + 1 BY <3>5
      <4>5. \A x \in s : \E i \in 1 .. n + 1 : all[i] = x BY <3>3, <3>5, <4>3, <4>4
      <4> QED BY <3>6, <4>2, <4>5 DEF ToSet
    <3>9. \A x \in s : Depth[all[1]] <= Depth[x]
      <4>1. CASE n = 0
        <5>1. low = {} BY <3>2, <3>6, <4>1 DEF Lists, ToSet
        <5>2. all[1] = d /\ \A x \in s : x = d BY <3>3, <3>5, <4>1, <5>1
        <5> QED BY <3>1, <5>2
      <4>2. CASE n # 0
        <5>1. 1 \in 1 .. n BY <3>5, <4>2
        <5>2. all[1] = seq[1] /\ seq[1] \in low BY <3>5, <5>1
        <5>3. \A x \in low : Depth[seq[1]] <= Depth[x] BY <3>2, <5>2 DEF Lists
        <5> QED BY <3>1, <3>3, <5>2, <5>3
      <4> QED BY <4>1, <4>2
    <3>10. Lists(all, s) BY <3>5, <3>7, <3>8, <3>9 DEF Lists
    <3> QED BY <3>2, <3>10 DEF all
  <2> QED BY <2>2, <2>3
<1> HIDE DEF Good
<1>3. B \in Good BY <1>2, SmallerSets
<1> QED BY <1>1, <1>3 DEF Good

----------------------------------------------------------------------------
(* The files. *)

(* An extractor past its last file is empty. *)
FileType(x) == x \in Extractor /\ (x.file < 0 => x.buffer = << >>)

LEMMA BlockFileType ==
  ASSUME disk \in Seq(Block), NEW i \in Nat
  PROVE  BlockFile(i) \in Seq(Block)
<1> DEFINE n == Len(disk)
           m == i * PerFile + 1
           k == Min({(i + 1) * PerFile, n})
<1>1. m \in Nat /\ m >= 1 /\ (i + 1) * PerFile \in Nat
  <2>1. PerFile \in Nat BY FileAssumption
  <2>2. i * PerFile \in Nat /\ (i + 1) * PerFile \in Nat BY <2>1
  <2> QED BY <2>2
<1>2. n \in Nat BY DEF n
<1>3. k \in Int /\ k <= n
  <2> DEFINE S == {(i + 1) * PerFile, n}
  <2>1. S \in SUBSET Nat /\ S # {} /\ n \in S BY <1>1, <1>2
  <2>2. \E x \in S : \A y \in S : x <= y BY <2>1, Least
  <2>3. k \in S /\ \A y \in S : k <= y BY <2>2 DEF Min
  <2> QED BY <2>1, <2>3
<1> HIDE DEF m, n, k
<1>4. \A j \in m .. k : j \in 1 .. n BY <1>1, <1>2, <1>3
<1>5. \A j \in m .. k : disk[j] \in Block BY <1>4 DEF n
<1>6. SubSeq(disk, m, k) \in Seq(Block) BY <1>1, <1>2, <1>3, <1>5
<1> QED BY <1>6 DEF BlockFile, m, n, k

LEMMA ReadFileType ==
  ASSUME disk \in Seq(Block), NEW x, FileType(x)
  PROVE  FileType(ReadFile(x))
<1>1. CASE x.file < 0 \/ x.read BY <1>1 DEF ReadFile
<1>2. CASE ~(x.file < 0 \/ x.read)
  <2> DEFINE buffer == BlockFile(x.file)
  <2>1. x.file \in Nat BY <1>2 DEF FileType, Extractor
  <2>2. buffer \in Seq(Block) BY <2>1, BlockFileType
  <2>3. ReadFile(x) = [x EXCEPT !.read = TRUE, !.buffer = buffer] BY <1>2 DEF ReadFile
  <2> HIDE DEF buffer
  <2> QED BY <1>2, <2>2, <2>3 DEF FileType, Extractor
<1> QED BY <1>1, <1>2

LEMMA NextFileType ==
  ASSUME NEW x, FileType(x)
  PROVE  FileType(NextFile(x))
<1>1. CASE x.file < 0 BY <1>1 DEF NextFile
<1>2. CASE ~(x.file < 0)
  <2> DEFINE file == IF x.file < x.nfiles - 1 THEN x.file + 1 ELSE -1
  <2>1. file \in Int BY DEF FileType, Extractor
  <2>2. NextFile(x) = [x EXCEPT !.file = file, !.read = FALSE, !.buffer = << >>]
    BY <1>2 DEF NextFile
  <2> HIDE DEF file
  <2>3. << >> \in Seq(Block) OBVIOUS
  <2>4. NextFile(x) = [nfiles |-> x.nfiles, file |-> file, read |-> FALSE, buffer |-> << >>]
    BY <2>2 DEF FileType, Extractor
  <2>5. NextFile(x) \in Extractor BY <2>1, <2>3, <2>4 DEF FileType, Extractor
  <2>6. NextFile(x).buffer = << >> BY <2>4
  <2> QED BY <2>5, <2>6 DEF FileType
<1> QED BY <1>1, <1>2

LEMMA AheadType ==
  ASSUME disk \in Seq(Block), NEW x, FileType(x)
  PROVE  FileType(Ahead(x))
<1>1. FileType(ReadFile(x)) BY ReadFileType
<1>2. FileType(ReadFile(NextFile(ReadFile(x)))) BY <1>1, NextFileType, ReadFileType
<1> QED BY <1>1, <1>2 DEF Ahead

(* A block is taken out of a file that there is. *)
LEMMA TakenType ==
  ASSUME NEW x, FileType(x), ~NoBlock(x)
  PROVE  /\ FileType([x EXCEPT !.buffer = Tail(@)])
         /\ Head(x.buffer) \in Block /\ x.file \in Nat
<1>1. x.buffer \in Seq(Block) /\ x.buffer # << >> /\ x.file \in Nat
  BY DEF FileType, NoBlock, Extractor
<1>2. Tail(x.buffer) \in Seq(Block) /\ Head(x.buffer) \in Block BY <1>1
<1>3. [x EXCEPT !.buffer = Tail(@)] \in Extractor BY <1>2 DEF FileType, Extractor
<1>4. [x EXCEPT !.buffer = Tail(@)].file = x.file BY DEF FileType, Extractor
<1> QED BY <1>1, <1>2, <1>3, <1>4 DEF FileType

(* bitcoind appends the blocks that are new. *)
LEMMA ReceivedFacts ==
  ASSUME disk \in Seq(Block), IsInjective(disk), NEW n \in Block
  PROVE  /\ Received(n) \in Seq(Block) /\ IsInjective(Received(n))
         /\ disk # << >> => Received(n)[1] = disk[1] /\ Received(n) # << >>
<1> DEFINE new == Chain[n] \ ToSet(disk)
           seq == ByDepth(new)
           all == disk \o seq
           k == Len(disk)
           m == Len(seq)
<1>1. new \in SUBSET Block /\ IsFiniteSet(new) BY ChainFacts, ChainFinite, FS_Subset
<1>2. Lists(seq, new) BY <1>1, ByDepthLists
<1>3. seq \in Seq(new) /\ IsInjective(seq) BY <1>2 DEF Lists
<1>4. seq \in Seq(Block) BY <1>1, <1>3
<1>5. new \cap ToSet(disk) = {} OBVIOUS
<1> HIDE DEF seq, new
<1>6. /\ all \in Seq(Block) /\ Len(all) = k + m /\ k \in Nat /\ m \in Nat
      /\ DOMAIN all = 1 .. k + m /\ DOMAIN disk = 1 .. k /\ DOMAIN seq = 1 .. m
      /\ \A i \in 1 .. k + m : all[i] = IF i <= k THEN disk[i] ELSE seq[i - k]
  BY <1>4
<1>7. \A i \in 1 .. k : disk[i] \in ToSet(disk) BY <1>6 DEF ToSet
<1>8. \A i \in 1 .. m : seq[i] \in new BY <1>3, <1>6
<1> HIDE DEF all, k, m
<1>9. ASSUME NEW i \in 1 .. k + m, NEW j \in 1 .. k + m, all[i] = all[j] PROVE i = j
  <2>1. i \in Int /\ j \in Int /\ k \in Int BY <1>6
  <2>2. i <= k => i \in 1 .. k /\ all[i] = disk[i] BY <1>6
  <2>3. j <= k => j \in 1 .. k /\ all[j] = disk[j] BY <1>6
  <2>4. ~(i <= k) => i - k \in 1 .. m /\ all[i] = seq[i - k] BY <1>6
  <2>5. ~(j <= k) => j - k \in 1 .. m /\ all[j] = seq[j - k] BY <1>6
  <2>6. CASE i <= k /\ j <= k BY <1>6, <1>9, <2>2, <2>3, <2>6 DEF IsInjective
  <2>7. CASE ~(i <= k) /\ ~(j <= k)
    <3>1. i - k = j - k BY <1>3, <1>6, <1>9, <2>4, <2>5, <2>7 DEF IsInjective
    <3> QED BY <2>1, <3>1
  <2>8. CASE i <= k /\ ~(j <= k)
    <3>1. all[i] \in ToSet(disk) /\ all[j] \in new BY <1>7, <1>8, <2>2, <2>5, <2>8
    <3> QED BY <1>5, <1>9, <3>1
  <2>9. CASE ~(i <= k) /\ j <= k
    <3>1. all[j] \in ToSet(disk) /\ all[i] \in new BY <1>7, <1>8, <2>3, <2>4, <2>9
    <3> QED BY <1>5, <1>9, <3>1
  <2> QED BY <2>6, <2>7, <2>8, <2>9
<1>10. IsInjective(all) BY <1>6, <1>9 DEF IsInjective
<1>11. disk # << >> => k >= 1 BY <1>6 DEF k
<1>12. disk # << >> => all[1] = disk[1] /\ all # << >>
  <2> SUFFICES ASSUME disk # << >> PROVE all[1] = disk[1] /\ all # << >> OBVIOUS
  <2>1. 1 \in 1 .. k + m /\ 1 <= k BY <1>6, <1>11
  <2>2. DOMAIN all # {} BY <1>6, <2>1
  <2> QED BY <1>6, <2>1, <2>2
<1> QED BY <1>6, <1>10, <1>12 DEF Received, all, seq, new

(* Peers are told of blocks of the new chain that are not on the old one. *)
LEMMA AnnouncedFacts ==
  ASSUME node \in Block, NEW n \in Block, Depth[n] > Depth[node], NEW seq \in Announced(n)
  PROVE  seq \in Seq(Chain[n] \ Active) /\ seq \in Seq(Block)
<1>1. Chain[n] \ Active \in SUBSET Block /\ IsFiniteSet(Chain[n] \ Active)
  BY ChainFacts, ChainFinite, FS_Subset
<1>2. n \in Chain[n] BY ChainFacts
<1>3. n \notin Active BY ChainOrder, KeyFacts DEF Active
<1>4. CASE seq = ByDepth(Chain[n] \ Active)
  <2>1. Lists(seq, Chain[n] \ Active) BY <1>1, <1>4, ByDepthLists
  <2> QED BY <1>1, <2>1 DEF Lists
<1>5. CASE seq = <<n>> BY <1>2, <1>3, <1>5
<1> QED BY <1>4, <1>5 DEF Announced

----------------------------------------------------------------------------
(* Types, in every configuration.  They need that a search knows of        *)
(* Genesis that it is on bitcoind's chain, and so does not go on to the    *)
(* all-zeros hash, and that an extractor past its last file is empty.      *)

(* A block, or none. *)
Spot == Block \cup {NoHash}

(* What is known of the block the search looks at, once bitcoind has said  *)
(* whether it is on its chain: Genesis always is.                          *)
Judged == hist.tip # NoHash /\ (hist.tip = Genesis => hist.confirmed)

HistType ==
  /\ hist \in Hist /\ hist.tip \in Spot /\ hist.cursor \in Spot
  /\ hist.step = "height" => Judged
  /\ hist.step = "demote" => (hist.own # Unread => Judged)
  /\ FileType(hist.extractor)

TipType == bti.hash \in Spot /\ cachedTip.hash \in Spot

TypesInv == InsightTypeOK /\ HistType /\ TipType

LEMMA SpotsAreKeys ==
  Spot \subseteq Key /\ Block \subseteq Spot /\ NoHash \in Spot /\ Zeros \notin Spot
BY BlockTreeAssumption DEF Spot, Key, Hash

LEMMA HistTypeKept ==
  ASSUME HistType, hist' = hist
  PROVE  HistType'
BY DEF HistType, Judged, FileType

LEMMA EndsType ==
  ASSUME HistType, NEW status \in Statuses, Ends(status)
  PROVE  HistType'
<1>1. hist' \in Hist BY DEF HistType, Ends, Hist, Steps
<1>2. /\ hist'.step = "none" /\ hist'.tip = hist.tip /\ hist'.cursor = hist.cursor
      /\ hist'.extractor = hist.extractor
  BY DEF HistType, Ends, Hist
<1> QED BY <1>1, <1>2 DEF HistType, FileType

LEMMA NoExtractorType == FileType(NoExtractor)
BY DEF FileType, NoExtractor, Extractor

(* A new object, and a start of it. *)
LEMMA BootedFacts ==
  /\ Booted \in Hist /\ Booted.step \in {"none", "count"} /\ Booted.extractor = NoExtractor
  /\ Booted.tip = NoHash /\ Booted.oldtip = NoHash /\ Booted.cursor = NoHash
  /\ config.disableHistoric => Booted.step = "none"
<1>1. NewHist \in Hist /\ NewHist.extractor = NoExtractor /\ NewHist.step = "none"
      /\ NewHist.tip = NoHash /\ NewHist.oldtip = NoHash /\ NewHist.cursor = NoHash
      /\ NewHist.status = "none"
  BY NoExtractorType DEF NewHist, Hist, FileType, Statuses, Steps, Key
<1> DEFINE h == [NewHist EXCEPT !.status = "starting", !.step = "count", !.force = FALSE]
<1>2. h \in Hist /\ h.step = "count" BY <1>1 DEF Hist, Statuses, Steps
<1>3. h.tip = NoHash /\ h.oldtip = NoHash /\ h.cursor = NoHash /\ h.extractor = NoExtractor
  BY <1>1 DEF Hist
<1>4. Booted = IF config.disableHistoric THEN NewHist ELSE h BY <1>1 DEF Booted, Started
<1> HIDE DEF h
<1> QED BY <1>1, <1>2, <1>3, <1>4

LEMMA StartedType ==
  ASSUME HistType, NEW force \in BOOLEAN, hist' = Started(hist, force)
  PROVE  HistType'
<1>1. CASE hist' = hist BY <1>1, HistTypeKept
<1>2. CASE hist' = [hist EXCEPT !.status = "starting", !.step = "count", !.force = force]
  <2>1. hist' \in Hist BY <1>2 DEF HistType, Hist, Statuses, Steps
  <2>2. /\ hist'.step = "count" /\ hist'.tip = hist.tip /\ hist'.cursor = hist.cursor
        /\ hist'.extractor = hist.extractor
    BY <1>2 DEF HistType, Hist
  <2> QED BY <2>1, <2>2 DEF HistType, FileType
<1> QED BY <1>1, <1>2 DEF Started

LEMMA NewExtractorType ==
  ASSUME InsightTypeOK
  PROVE  FileType(NewExtractor(lastFile))
<1>1. FileCount \in Nat
  <2> DEFINE k == Len(disk) + PerFile - 1
  <2>1. k \in Nat /\ PerFile \in Nat \ {0} BY FileAssumption DEF InsightTypeOK
  <2> HIDE DEF k
  <2>2. k \div PerFile \in Nat BY <2>1
  <2> QED BY <2>2 DEF FileCount, k
<1> QED BY <1>1 DEF FileType, NewExtractor, Extractor, InsightTypeOK

LEMMA StartFromType ==
  ASSUME InsightTypeOK, HistType, NEW b \in Block, StartFrom(b)
  PROVE  HistType'
<1> b \in Spot /\ b \in Key BY SpotsAreKeys
<1>1. CASE StartFiles(b)
  <2> DEFINE x == NewExtractor(lastFile)
  <2>1. FileType(x) BY NewExtractorType
  <2> HIDE DEF x
  <2>2. \/ hist' = [hist EXCEPT !.extractor = x, !.cursor = b,
                              !.status = "syncing", !.step = "fetch"]
        \/ hist' = [hist EXCEPT !.extractor = x, !.cursor = b, !.step = "seek"]
    BY <1>1 DEF StartFiles, HistType, Hist, x
  <2>3. hist' \in Hist BY <2>1, <2>2 DEF HistType, Hist, Statuses, Steps, FileType
  <2>4. /\ hist'.step \in {"fetch", "seek"} /\ hist'.tip = hist.tip /\ hist'.cursor = b
        /\ hist'.extractor = x
    BY <2>2 DEF HistType, Hist
  <2> QED BY <2>1, <2>3, <2>4 DEF HistType
<1>2. CASE StartRpc(b)
  <2> DEFINE c == IF hist.extractor = NoExtractor THEN b ELSE hist.cursor
  <2>1. c \in Spot BY DEF HistType
  <2>2. hist' = [hist EXCEPT !.status = "syncing", !.step = "fetch", !.cursor = c]
    BY <1>2 DEF StartRpc
  <2> HIDE DEF c
  <2>3. hist' \in Hist BY <2>1, <2>2, SpotsAreKeys DEF HistType, Hist, Statuses, Steps
  <2>4. /\ hist'.step = "fetch" /\ hist'.tip = hist.tip /\ hist'.cursor = c
        /\ hist'.extractor = hist.extractor
    BY <2>2 DEF HistType, Hist
  <2> QED BY <2>1, <2>3, <2>4 DEF HistType, FileType
<1> QED BY <1>1, <1>2 DEF StartFrom

LEMMA JudgeType ==
  ASSUME InsightTypeOK, HistType, NEW own, own # Unread => Judged, Judge(own)
  PROVE  HistType' /\ (UNCHANGED syncVars \/ ProcessEnds)
<1>1. CASE ProcessEnds /\ UNCHANGED hist BY <1>1, HistTypeKept
<1>2. CASE own # Unread /\ StartFrom(hist.tip) /\ UNCHANGED syncVars
  <2>1. hist.tip \in Block BY <1>2 DEF HistType, Judged, Spot
  <2> QED BY <1>2, <2>1, StartFromType
<1>3. CASE /\ hist.tip # NoHash /\ UNCHANGED syncVars
           /\ own # Unread => ~hist.confirmed
           /\ hist' = [hist EXCEPT !.step = "info", !.oldtip = hist.tip,
                         !.tip = IF own = Unread THEN NoHash ELSE Parent[hist.tip]]
  <2> DEFINE back == IF own = Unread THEN NoHash ELSE Parent[hist.tip]
  <2>1. back \in Spot
    <3>1. CASE own = Unread BY <3>1, SpotsAreKeys
    <3>2. CASE own # Unread
      <4>1. hist.tip \in Block \ {Genesis} BY <1>3, <3>2 DEF Judged, HistType, Spot
      <4> QED BY <3>2, <4>1, ParentIsBlock DEF Spot
    <3> QED BY <3>1, <3>2
  <2>2. hist' = [hist EXCEPT !.step = "info", !.oldtip = hist.tip, !.tip = back]
    BY <1>3
  <2> HIDE DEF back
  <2>3. hist' \in Hist BY <2>1, <2>2, SpotsAreKeys DEF HistType, Hist, Steps
  <2>4. /\ hist'.step = "info" /\ hist'.tip = back /\ hist'.cursor = hist.cursor
        /\ hist'.extractor = hist.extractor
    BY <2>2 DEF HistType, Hist
  <2> QED BY <1>3, <2>1, <2>3, <2>4 DEF HistType, FileType
<1>4. CASE Ends("error") /\ UNCHANGED syncVars BY <1>4, EndsType DEF Statuses
<1> QED BY <1>1, <1>2, <1>3, <1>4 DEF Judge

LEMMA TipTypeKept ==
  ASSUME TipType, UNCHANGED <<bti, cachedTip>>
  PROVE  TipType'
BY DEF TipType

LEMMA HaltType ==
  ASSUME TypeOK, TipType, UNCHANGED dbVars, UNCHANGED syncVars \/ ProcessEnds
  PROVE  TypeOK' /\ TipType'
<1>1. TipType' BY TipTypeKept DEF dbVars
<1>2. CASE UNCHANGED syncVars BY <1>1, <1>2, StutterType DEF vars
<1>3. CASE ProcessEnds BY <1>1, <1>3, DbUnchangedType, ProcessEndsType
<1> QED BY <1>2, <1>3

LEMMA StepTipType ==
  ASSUME TypeOK, TipType, NEW s \in Syncer, Step(s)
  PROVE  TipType'
<1>1. CASE MoveTip(s)
  <2>1. job[s].blk \in Block BY DEF TypeOK, Job
  <2>2. bti' = At(job[s].blk, job[s].height) /\ cachedTip' = bti'
    BY <1>1 DEF MoveTip, SetTip
  <2> QED BY <2>1, <2>2 DEF TipType, Spot, At
<1>2. CASE ReadTip(s) BY <1>2 DEF ReadTip, CacheTip, GetTip, TipType
<1>3. CASE ~MoveTip(s) /\ ~ReadTip(s)
  <2>1. UNCHANGED <<bti, cachedTip>>
    BY <1>3 DEF Step, CheckPrev, ReadNext, ReorgHeight, RetryReorg, WalkBack,
       WalkTest, Connect, SetBlockMain, ReadFork, Relink, SetNext, Orphan, SetBlockNotMain,
       ChangeBlockHeight, Follow, AddTxs, AddBlock, Add, LinkPrev, dbVars
  <2> QED BY <2>1, TipTypeKept
<1> QED BY <1>1, <1>2, <1>3

LEMMA ReadStartType ==
  ASSUME TypesInv, ReadStart
  PROVE  TypeOK' /\ TipType' /\ HistType'
<1> USE DEF TypesInv
<1>1. TypeOK'
  BY DEF ReadStart, InsightTypeOK, TypeOK, DbTypeOK, CacheTip, GetTip, syncVars
<1>2. TipType' BY DEF ReadStart, CacheTip, GetTip, TipType
<1>3. CASE StartFrom(Genesis) BY <1>1, <1>2, <1>3, StartFromType, BlockTreeAssumption
<1>4. CASE hist' = [hist EXCEPT !.step = "info", !.tip = GetTip.hash, !.oldtip = NoHash,
                                !.height = GetTip.height]
  <2>1. GetTip.hash \in Spot /\ GetTip.height \in Int
    BY DEF TipType, GetTip, InsightTypeOK, TypeOK, DbTypeOK, Entry
  <2>2. hist' \in Hist BY <1>4, <2>1, SpotsAreKeys DEF HistType, Hist, Steps
  <2>3. /\ hist'.step = "info" /\ hist'.tip = GetTip.hash /\ hist'.cursor = hist.cursor
        /\ hist'.extractor = hist.extractor
    BY <1>4 DEF HistType, Hist
  <2> QED BY <1>1, <1>2, <2>1, <2>2, <2>3 DEF HistType, FileType
<1> QED BY <1>3, <1>4 DEF ReadStart

LEMMA SearchType ==
  ASSUME TypesInv, ReadInfo \/ ReadInfoFails \/ ReadHeight
  PROVE  HistType' /\ (UNCHANGED syncVars \/ ProcessEnds)
<1> USE DEF TypesInv
<1>0. node \in Block BY DEF InsightTypeOK
<1>1. CASE ReadInfo
  <2> DEFINE c == hist.tip \in Active
  <2>1. c \in BOOLEAN /\ (hist.tip = Genesis => c) BY <1>0, ChainFacts DEF Active
  <2>2. hist' = [hist EXCEPT !.step = "height", !.confirmed = c] /\ hist.tip # NoHash
        /\ UNCHANGED syncVars
    BY <1>1 DEF ReadInfo
  <2> HIDE DEF c
  <2>3. hist' \in Hist BY <2>1, <2>2 DEF HistType, Hist, Steps
  <2>4. /\ hist'.step = "height" /\ hist'.tip = hist.tip /\ hist'.cursor = hist.cursor
        /\ hist'.extractor = hist.extractor /\ hist'.confirmed = c
    BY <2>2 DEF HistType, Hist
  <2> QED BY <2>1, <2>2, <2>3, <2>4 DEF HistType, FileType, Judged
<1>2. ASSUME NEW own \in Int, own # Unread => Judged, UNCHANGED syncVars,
             \/ hist' = [hist EXCEPT !.step = "demote", !.own = own]
             \/ own = Unread /\ hist' = [hist EXCEPT !.step = "demote", !.own = Unread,
                                                    !.confirmed = FALSE]
      PROVE  HistType'
  <2>1. hist' \in Hist
    <3>1. /\ [hist EXCEPT !.step = "demote", !.own = own] \in Hist
          /\ [hist EXCEPT !.step = "demote", !.own = own, !.confirmed = FALSE] \in Hist
      BY DEF HistType, Hist, Steps
    <3> QED BY <1>2, <3>1
  <2>2. /\ hist'.step = "demote" /\ hist'.tip = hist.tip /\ hist'.cursor = hist.cursor
        /\ hist'.own = own /\ (own # Unread => hist'.confirmed = hist.confirmed)
        /\ hist'.extractor = hist.extractor
    BY <1>2 DEF HistType, Hist
  <2> QED BY <1>2, <2>1, <2>2 DEF HistType, FileType, Judged
<1>3. CASE ReadInfoFails
  <2>1. Unread \in Int BY DEF Unread
  <2>2. CASE hist.oldtip # NoHash BY <1>2, <1>3, <2>1, <2>2 DEF ReadInfoFails
  <2>3. CASE hist.oldtip = NoHash BY <1>3, <2>3, JudgeType DEF ReadInfoFails
  <2> QED BY <2>2, <2>3
<1>4. CASE ReadHeight
  <2>1. Judged BY <1>4 DEF ReadHeight, Ready, HistType
  <2>2. GetHeight(hist.tip) \in Int
    BY SpotsAreKeys DEF HistType, InsightTypeOK, TypeOK, DbTypeOK, GetHeight
  <2>3. CASE hist.oldtip # NoHash BY <1>2, <1>4, <2>1, <2>2, <2>3 DEF ReadHeight
  <2>4. CASE hist.oldtip = NoHash BY <1>4, <2>1, <2>4, JudgeType DEF ReadHeight
  <2> QED BY <2>3, <2>4
<1> QED BY <1>1, <1>3, <1>4

LEMMA DemoteType ==
  ASSUME TypesInv, DemoteOldTip
  PROVE  TypeOK' /\ TipType' /\ HistType'
<1> USE DEF TypesInv
<1>1. ChangeBlockHeight(hist.oldtip, -1) /\ Judge(hist.own) /\ hist.step = "demote"
  BY DEF DemoteOldTip, Ready, SetBlockNotMain
<1>2. HistType' /\ (UNCHANGED syncVars \/ ProcessEnds)
  BY <1>1, JudgeType DEF HistType
<1>3. hist.oldtip \in Key /\ TypeOK BY DEF HistType, Hist, InsightTypeOK
<1>4. DbTypeOK' BY <1>1, <1>3, HeightChangeType
<1>5. TipType' BY <1>1, TipTypeKept DEF ChangeBlockHeight
<1>6. TypeOK'
  <2>1. CASE UNCHANGED syncVars BY <1>3, <1>4, <2>1 DEF TypeOK, syncVars
  <2>2. CASE ProcessEnds BY <1>3, <1>4, <2>2, ProcessEndsType
  <2> QED BY <1>2, <2>1, <2>2
<1> QED BY <1>2, <1>5, <1>6

(* A block off a file is handed on. *)
LEMMA TakeBlockType ==
  ASSUME HistType, NEW x, FileType(x), ~NoBlock(x), NEW step \in {"seek", "fetch", "store"},
         NEW status \in {hist.status, "syncing"},
         hist' = [hist EXCEPT !.status = status, !.step = step,
                              !.extractor = [x EXCEPT !.buffer = Tail(@)]]
  PROVE  HistType'
<1> DEFINE y == [x EXCEPT !.buffer = Tail(@)]
<1>1. FileType(y) BY TakenType
<1>2. hist' = [hist EXCEPT !.status = status, !.step = step, !.extractor = y] OBVIOUS
<1> HIDE DEF y
<1>3. hist' \in Hist BY <1>1, <1>2 DEF HistType, Hist, Statuses, Steps, FileType
<1>4. /\ hist'.step = step /\ hist'.tip = hist.tip /\ hist'.cursor = hist.cursor
      /\ hist'.extractor = y
  BY <1>2 DEF HistType, Hist
<1> QED BY <1>1, <1>3, <1>4 DEF HistType

(* The last file is read. *)
LEMMA LastFileType ==
  ASSUME HistType, NEW x, FileType(x), NEW status \in Statuses,
         hist' = [hist EXCEPT !.status = status, !.step = "none", !.extractor = x]
  PROVE  HistType'
<1>1. hist' \in Hist BY DEF HistType, Hist, Steps, FileType
<1>2. /\ hist'.step = "none" /\ hist'.tip = hist.tip /\ hist'.cursor = hist.cursor
      /\ hist'.extractor = x
  BY DEF HistType, Hist
<1> QED BY <1>1, <1>2 DEF HistType

LEMMA FileStepType ==
  ASSUME TypesInv, FileStep
  PROVE  TypeOK' /\ TipType' /\ HistType' /\ lastFile' \in Nat
<1> USE DEF TypesInv
<1> DEFINE x == Ahead(hist.extractor)
<1>1. FileType(x) BY AheadType DEF InsightTypeOK, HistType
<1>2. ~NoBlock(x) => Head(x.buffer) \in Block /\ x.file \in Nat BY <1>1, TakenType
<1>3. TypeOK /\ lastFile \in Nat BY DEF InsightTypeOK
<1>4. hist.status \in Statuses /\ "error" \in Statuses /\ "finished" \in Statuses
  BY DEF HistType, Hist, Statuses
<1>5. CASE Seek
  <2>1. TypeOK' /\ TipType' BY <1>3, <1>5, HaltType DEF Seek
  <2>2. CASE /\ NoBlock(x) /\ UNCHANGED lastFile
             /\ hist' = [hist EXCEPT !.status = "error", !.step = "none", !.extractor = x]
    BY <1>1, <1>3, <1>4, <2>1, <2>2, LastFileType
  <2>3. CASE ~NoBlock(x) /\ TakeBlock(x, "seek")
    <3>1. hist' = [hist EXCEPT !.status = hist.status, !.step = "seek",
                               !.extractor = [x EXCEPT !.buffer = Tail(@)]]
      BY <2>3 DEF TakeBlock, HistType, Hist
    <3> HIDE DEF x
    <3>2. HistType' BY <1>1, <2>3, <3>1, TakeBlockType
    <3> QED BY <1>2, <2>1, <2>3, <3>2 DEF TakeBlock
  <2>4. CASE /\ ~NoBlock(x) /\ lastFile' = x.file
             /\ hist' = [hist EXCEPT !.status = "syncing", !.step = "fetch",
                                     !.extractor = [x EXCEPT !.buffer = Tail(@)]]
    <3> HIDE DEF x
    <3>1. HistType' BY <1>1, <2>4, TakeBlockType
    <3> QED BY <1>2, <2>1, <2>4, <3>1
  <2> QED BY <1>5, <2>2, <2>3, <2>4 DEF Seek
<1>6. CASE FetchFile
  <2>1. CASE /\ NoBlock(x) /\ UNCHANGED <<dbVars, syncVars, lastFile>>
             /\ hist' = [hist EXCEPT !.status = "finished", !.step = "none", !.extractor = x]
    BY <1>1, <1>3, <1>4, <2>1, LastFileType, HaltType
  <2>2. CASE /\ ~NoBlock(x) /\ TakeBlock(x, "store")
             /\ StoreTipBlock("historic", [blk |-> Head(x.buffer), allow |-> TRUE])
    <3>1. hist' = [hist EXCEPT !.status = hist.status, !.step = "store",
                               !.extractor = [x EXCEPT !.buffer = Tail(@)]]
      BY <2>2 DEF TakeBlock, HistType, Hist
    <3>2. [blk |-> Head(x.buffer), allow |-> TRUE] \in Call BY <1>2, <2>2 DEF Call
    <3>3. TypeOK' BY <1>3, <2>2, <3>2, StoreTipBlockType, HistoricAssumption
    <3>4. TipType' BY <2>2, TipTypeKept DEF StoreTipBlock, dbVars
    <3> HIDE DEF x
    <3>5. HistType' BY <1>1, <2>2, <3>1, TakeBlockType
    <3> QED BY <1>2, <2>2, <3>3, <3>4, <3>5 DEF TakeBlock
  <2> QED BY <1>6, <2>1, <2>2 DEF FetchFile
<1> QED BY <1>5, <1>6 DEF FileStep

LEMMA FetchType ==
  ASSUME TypesInv, Fetch
  PROVE  TypeOK' /\ TipType' /\ HistType'
<1> USE DEF TypesInv
<1>0. TypeOK /\ node \in Block BY DEF InsightTypeOK
<1>1. CASE Ends("finished") /\ UNCHANGED <<dbVars, syncVars>>
  BY <1>0, <1>1, EndsType, HaltType DEF Statuses
<1>2. CASE /\ hist.cursor # NoHash
           /\ StoreTipBlock("historic", [blk |-> hist.cursor, allow |-> TRUE])
           /\ hist' = [hist EXCEPT !.step = "store", !.cursor = NextBlockHash(@)]
  <2>1. hist.cursor \in Block BY <1>2 DEF HistType, Spot
  <2>2. [blk |-> hist.cursor, allow |-> TRUE] \in Call BY <2>1 DEF Call
  <2>3. TypeOK' BY <1>0, <1>2, <2>2, StoreTipBlockType, HistoricAssumption
  <2>4. TipType' BY <1>2, TipTypeKept DEF StoreTipBlock, dbVars
  <2> DEFINE n == NextBlockHash(hist.cursor)
  <2>5. n \in Spot BY <1>0, ChainFacts DEF NextBlockHash, Active, Spot
  <2> HIDE DEF n
  <2>6. hist' = [hist EXCEPT !.step = "store", !.cursor = n] BY <1>2 DEF n
  <2>7. hist' \in Hist BY <2>5, <2>6, SpotsAreKeys DEF HistType, Hist, Steps
  <2>8. /\ hist'.step = "store" /\ hist'.tip = hist.tip /\ hist'.cursor = n
        /\ hist'.extractor = hist.extractor
    BY <2>6 DEF HistType, Hist
  <2> QED BY <2>3, <2>4, <2>5, <2>7, <2>8 DEF HistType, FileType
<1> QED BY <1>1, <1>2 DEF Fetch

LEMMA JobType ==
  ASSUME TypeOK, TipType, NEW s \in Syncer, Step(s) \/ Polls(s)
  PROVE  TypeOK' /\ TipType'
<1>1. CASE Step(s) BY <1>1, StepType, StepTipType
<1>2. CASE Polls(s) BY <1>2, PollsType, TipTypeKept DEF Polls, Poll, dbVars
<1> QED BY <1>1, <1>2

LEMMA StoreType ==
  ASSUME TypesInv, Store
  PROVE  TypeOK' /\ TipType' /\ HistType'
<1> USE DEF TypesInv
<1>1. TypeOK' /\ TipType' BY JobType, HistoricAssumption DEF Store, InsightTypeOK
<1>2. CASE UNCHANGED hist BY <1>1, <1>2, HistTypeKept
<1>3. CASE hist' = [hist EXCEPT !.step = "fetch"]
  <2>1. hist' \in Hist BY <1>3 DEF HistType, Hist, Steps
  <2>2. /\ hist'.step = "fetch" /\ hist'.tip = hist.tip /\ hist'.cursor = hist.cursor
        /\ hist'.extractor = hist.extractor
    BY <1>3 DEF HistType, Hist
  <2> QED BY <1>1, <2>1, <2>2 DEF HistType, FileType
<1>4. CASE Ends("error") BY <1>1, <1>4, EndsType DEF Statuses
<1> QED BY <1>2, <1>3, <1>4 DEF Store

LEMMA FaultTipType ==
  ASSUME TypeOK, TipType, Fault
  PROVE  TypeOK' /\ TipType'
<1>1. TypeOK' BY FaultType
<1>2. CASE Restart
  <2>1. bti' = bti /\ cachedTip' = NoEntry BY <1>2 DEF Restart
  <2> QED BY <1>1, <2>1 DEF TipType, NoEntry, Spot
<1>3. CASE Kill BY <1>1, <1>3, TipTypeKept DEF Kill, dbVars
<1>4. ASSUME NEW s \in Syncer, AddTxsFails(s) \/ HeightChangeThrows(s) PROVE TipType'
  BY <1>4, TipTypeKept DEF AddTxsFails, HeightChangeThrows, dbVars
<1> QED BY <1>1, <1>2, <1>3, <1>4 DEF Fault

LEMMA CountType ==
  ASSUME TypesInv, CountBlocks
  PROVE  HistType'
<1> USE DEF TypesInv
<1>1. Depth[node] \in Int BY BlockTreeAssumption DEF InsightTypeOK
<1>2. hist' \in Hist BY <1>1 DEF CountBlocks, HistType, Hist, Steps
<1>3. /\ hist'.step = "tip" /\ hist'.tip = hist.tip /\ hist'.cursor = hist.cursor
      /\ hist'.extractor = hist.extractor
  BY DEF CountBlocks, HistType, Hist
<1> QED BY <1>2, <1>3 DEF HistType, FileType

LEMMA SyncFailsType ==
  ASSUME TypesInv, SyncFails
  PROVE  TypeOK' /\ TipType' /\ HistType'
<1> USE DEF TypesInv
<1>0. TypeOK BY DEF InsightTypeOK
<1>1. CASE CountThrows \/ DemoteThrows
  BY <1>0, <1>1, HaltType, HistTypeKept DEF CountThrows, DemoteThrows
<1>2. CASE CheckFails \/ FetchFails
  BY <1>0, <1>2, HaltType, EndsType DEF CheckFails, FetchFails, Statuses
<1>3. CASE ReadInfoFails BY <1>0, <1>3, SearchType, HaltType DEF ReadInfoFails
<1>4. CASE StoreFails
  BY <1>0, <1>4, FaultTipType, EndsType, HistoricAssumption DEF StoreFails, Fault, Statuses
<1>5. CASE HeightChangeThrows("historic") /\ UNCHANGED hist
  BY <1>0, <1>5, FaultTipType, HistTypeKept, HistoricAssumption DEF Fault
<1> QED BY <1>1, <1>2, <1>3, <1>4, <1>5 DEF SyncFails

LEMMA HistoricType ==
  ASSUME TypesInv, Historic
  PROVE  TypesInv'
<1> USE DEF TypesInv
<1>0. TypeOK /\ lastFile \in Nat /\ allowReorgs \in BOOLEAN BY DEF InsightTypeOK
<1>1. CASE FileStep
  BY <1>1, FileStepType DEF Historic, InsightTypeOK, HistType
<1>2. ASSUME TypeOK', TipType', HistType', UNCHANGED lastFile PROVE TypesInv'
  BY <1>0, <1>2 DEF Historic, InsightTypeOK, HistType
<1>3. CASE (SyncStep \/ SyncFails) /\ UNCHANGED lastFile
  <2>1. CASE CountBlocks BY <1>0, <1>2, <1>3, <2>1, CountType, HaltType DEF CountBlocks
  <2>2. CASE ReadInfo \/ ReadHeight
    BY <1>0, <1>2, <1>3, <2>2, SearchType, HaltType DEF ReadInfo, ReadHeight
  <2> QED
    BY <1>2, <1>3, <2>1, <2>2, ReadStartType, DemoteType, FetchType, StoreType, SyncFailsType
    DEF SyncStep
<1> QED BY <1>1, <1>3 DEF Historic

LEMMA PeerType ==
  ASSUME TypesInv, Peer
  PROVE  TypesInv'
<1> USE DEF TypesInv
<1> USE PeerAssumption
<1>0. TypeOK /\ inbox \in Seq(Block) /\ allowReorgs \in BOOLEAN BY DEF InsightTypeOK
<1>1. ASSUME TypeOK', TipType', HistType', inbox' \in Seq(Block), UNCHANGED allowReorgs
      PROVE  TypesInv'
  BY <1>1 DEF Peer, InsightTypeOK, HistType
<1>2. CASE HandleBlock
  <2>1. Head(inbox) \in Block /\ Tail(inbox) \in Seq(Block) BY <1>0, <1>2 DEF HandleBlock
  <2>2. [blk |-> Head(inbox), allow |-> allowReorgs] \in Call BY <1>0, <2>1 DEF Call
  <2>3. TypeOK' BY <1>0, <1>2, <2>2, StoreTipBlockType DEF HandleBlock
  <2>4. TipType' BY <1>2, TipTypeKept DEF HandleBlock, StoreTipBlock, dbVars
  <2> QED BY <1>1, <1>2, <2>1, <2>3, <2>4, HistTypeKept DEF HandleBlock
<1>3. CASE StorePeer
  <2>1. TypeOK' /\ TipType' BY <1>0, <1>3, JobType DEF StorePeer
  <2>2. HistType' BY <1>3, HistTypeKept, StartedType DEF StorePeer
  <2> QED BY <1>0, <1>1, <1>3, <2>1, <2>2 DEF StorePeer
<1>4. CASE PeerFails
  BY <1>0, <1>1, <1>4, FaultTipType, HistTypeKept DEF PeerFails, Fault
<1> QED BY <1>2, <1>3, <1>4 DEF Peer

LEMMA MoveType ==
  ASSUME TypesInv, Move
  PROVE  TypesInv'
<1> USE DEF TypesInv
<1>0. TypeOK /\ disk \in Seq(Block) /\ IsInjective(disk) /\ inbox \in Seq(Block) /\ node \in Block
  BY DEF InsightTypeOK
<1>1. PICK n \in Block :
        /\ NodeMoves(n) /\ disk' = Written(n)
        /\ inbox' = inbox \/ \E seq \in Announced(n) : inbox' = inbox \o seq
  BY DEF Move
<1>2. node' \in Block BY <1>1 DEF NodeMoves
<1>3. disk' \in Seq(Block) /\ IsInjective(disk')
  <2>1. disk' = Received(n) \/ disk' = disk BY <1>1 DEF Written
  <2> QED BY <1>0, <2>1, ReceivedFacts DEF IsInjective
<1>4. inbox' \in Seq(Block)
  <2>1. Depth[n] > Depth[node] BY <1>1 DEF NodeMoves
  <2>2. ASSUME NEW seq \in Announced(n) PROVE inbox \o seq \in Seq(Block)
    <3>1. seq \in Seq(Block) BY <1>0, <2>1, AnnouncedFacts
    <3> QED BY <1>0, <3>1
  <2> QED BY <1>0, <1>1, <2>2
<1>5. TypeOK' /\ TipType' BY <1>0, HaltType DEF Move, vars
<1>6. HistType' BY HistTypeKept DEF Move
<1> QED BY <1>2, <1>3, <1>4, <1>5, <1>6 DEF Move, InsightTypeOK

LEMMA TypesInit == InsightInit => TypesInv
<1> SUFFICES ASSUME InsightInit PROVE TypesInv OBVIOUS
<1>1. TypeOK BY TypeInit DEF InsightInit
<1>2. TipType BY DEF InsightInit, Init, DbInit, TipType, NoEntry, Spot
<1>3. node \in Block /\ config \in Config BY InsightAssumption DEF InsightInit
<1>4. disk \in Seq(Block) /\ IsInjective(disk)
  <2>1. Chain[node] \in SUBSET Block /\ IsFiniteSet(Chain[node])
    BY <1>3, ChainFacts, ChainFinite
  <2>2. Lists(ByDepth(Chain[node]), Chain[node]) BY <2>1, ByDepthLists
  <2>3. ByDepth(Chain[node]) \in Seq(Block) /\ IsInjective(ByDepth(Chain[node]))
    BY <2>1, <2>2 DEF Lists
  <2>4. << >> \in Seq(Block) /\ DOMAIN << >> = {} OBVIOUS
  <2>5. IsInjective(<< >>) BY <2>4 DEF IsInjective
  <2> QED BY <2>3, <2>4, <2>5 DEF InsightInit
<1>5. HistType BY BootedFacts, NoExtractorType, SpotsAreKeys DEF InsightInit, HistType
<1>6. << >> \in Seq(Block) /\ 0 \in Nat OBVIOUS
<1> QED BY <1>1, <1>2, <1>3, <1>4, <1>5, <1>6 
    DEF InsightInit, TypesInv, InsightTypeOK, HistType, Config

LEMMA TypesStep == TypesInv /\ [InsightNext]_insightVars => TypesInv'
<1> SUFFICES ASSUME TypesInv, [InsightNext]_insightVars PROVE TypesInv' OBVIOUS
<1> USE DEF TypesInv
<1>0. TypeOK /\ InsightTypeOK BY DEF InsightTypeOK
<1>1. CASE Stop
  <2>1. TypeOK' /\ TipType' BY <1>0, <1>1, FaultTipType DEF Stop, Fault
  <2> QED BY <1>1, <2>1, HistTypeKept DEF Stop, InsightTypeOK
<1>2. CASE Reboot
  <2>1. TypeOK' /\ TipType' BY <1>0, <1>2, FaultTipType DEF Reboot, Fault
  <2>2. HistType'
    <3>1. hist' = Booted BY <1>2 DEF Reboot
    <3> QED BY <3>1, BootedFacts, NoExtractorType, SpotsAreKeys DEF HistType
  <2>3. << >> \in Seq(Block) OBVIOUS
  <2> QED BY <1>0, <1>2, <2>1, <2>2, <2>3 DEF Reboot, InsightTypeOK, HistType, Config
<1>3. CASE UNCHANGED insightVars
  <2>1. TypeOK' /\ TipType' BY <1>0, <1>3, HaltType DEF insightVars, vars
  <2> QED BY <1>0, <1>3, <2>1, HistTypeKept DEF insightVars, InsightTypeOK
<1> QED BY <1>1, <1>2, <1>3, MoveType, HistoricType, PeerType DEF InsightNext

----------------------------------------------------------------------------
(* Where all blocks come with leave to reorganise: from the HistoricSync,  *)
(* or from a peer that does not wait for it.  The peer announces blocks    *)
(* above block 1: stored under Genesis alone, before there is a tip, a     *)
(* block would get the height of Genesis.                                  *)

PastStart == OneFirstBlock /\ \A n \in FirstTips : Depth[n] >= 1
Allowed == \A c \in Configs : c.disableP2p \/ (c.disableHistoric /\ PastStart)

Preparing == {"count", "tip", "info", "height", "demote"}

(* The next block is the first of the first file, or Genesis.              *)
AtStart ==
  IF hist.extractor = NoExtractor THEN hist.cursor \in {Genesis, NoHash}
  ELSE hist.extractor.file = 0 /\ ~hist.extractor.read

(* The search only goes to stored blocks, below a tip that there is, and   *)
(* the first block of an empty database is Genesis.  Files are only read   *)
(* without a peer: the sync a peer asks for forces RPC.                    *)
HistInv ==
  /\ hist.step \in {"info", "height", "demote"} =>
       bti # NoEntry /\ Follows(hist.tip) /\ Follows(hist.oldtip)
  /\ hist.step = "demote" => hist.oldtip # NoHash
  /\ hist.step \in Preparing =>
       hist.extractor = NoExtractor /\ (config.disableP2p \/ hist.force)
  /\ hist.extractor # NoExtractor => config.disableP2p /\ config.dataDir
  /\ hist.step = "seek" => bti # NoEntry /\ hist.extractor # NoExtractor
  /\ hist.step = "fetch" => bti # NoEntry \/ AtStart

(* What the files and the peer have.                                       *)
SourceInv ==
  /\ config.dataDir => disk # << >> /\ disk[1] = Genesis
  /\ bti = NoEntry => lastFile = 0
  /\ \A i \in DOMAIN inbox : Parent[inbox[i]] # Genesis
  /\ config.disableP2p => inbox = << >> /\ pc["peer"] = "idle" /\ waiting["peer"] = {}
  /\ ~config.disableP2p => allowReorgs /\ Depth[node] >= 1

(* The last call of a job comes after setTip. *)
LastCallInv == \A s \in Syncer : pc[s] = "setNext" => bti # NoEntry

InsightInv ==
  TypesInv /\ IInv /\ HistInv /\ SourceInv /\ LastCallInv /\ config \in Configs

----------------------------------------------------------------------------
(* The HistoricSync object. *)

LEMMA NoExtractorFacts ==
  /\ NoExtractor.file = -1
  /\ \A x : x.file \in Nat => x # NoExtractor
BY DEF NoExtractor

LEMMA FrameHist ==
  ASSUME HistInv, Grows, TypeOK, UNCHANGED <<hist, config>>
  PROVE  HistInv'
BY DEF HistInv, Grows, Follows, Stored, Key, Hash, AtStart

(* A sync that has ended, or stores a block, keeps what it says of files.  *)
LEMMA PauseHist ==
  ASSUME HistInv, hist'.step \in {"none", "store"}, UNCHANGED config,
         hist'.extractor = hist.extractor \/ hist.extractor # NoExtractor
  PROVE  HistInv'
BY DEF HistInv, Preparing

LEMMA EndsHist ==
  ASSUME TypesInv, HistInv, NEW status \in Statuses, Ends(status), UNCHANGED config
  PROVE  HistInv'
<1>1. hist'.step = "none" /\ hist'.extractor = hist.extractor
  BY DEF Ends, TypesInv, HistType, Hist
<1> QED BY <1>1, PauseHist

(* The search ends where the sync starts. *)
LEMMA StartFromInv ==
  ASSUME InsightInv, hist.step \in Preparing, NEW b \in Block, StartFrom(b), UNCHANGED config,
         bti' # NoEntry \/ (b = Genesis /\ bti = NoEntry)
  PROVE  HistInv'
<1>0. /\ hist \in Hist /\ hist.extractor = NoExtractor /\ lastFile \in Nat
      /\ config.disableP2p \/ hist.force
  BY DEF InsightInv, TypesInv, InsightTypeOK, HistInv
<1>1. CASE SyncsFiles /\ StartFiles(b)
  <2> DEFINE x == NewExtractor(lastFile)
  <2>1. x.file = lastFile /\ ~x.read BY DEF NewExtractor
  <2>2. x # NoExtractor BY <1>0, <2>1, NoExtractorFacts
  <2>3. config.disableP2p /\ config.dataDir BY <1>0, <1>1 DEF SyncsFiles
  <2> HIDE DEF x
  <2>4. \/ b = Genesis
           /\ hist' = [hist EXCEPT !.extractor = x, !.cursor = b,
                                     !.status = "syncing", !.step = "fetch"]
        \/ b # Genesis /\ hist' = [hist EXCEPT !.extractor = x, !.cursor = b, !.step = "seek"]
    BY <1>0, <1>1 DEF StartFiles, Hist, x
  <2>5. /\ hist'.extractor = x /\ hist'.step = IF b = Genesis THEN "fetch" ELSE "seek"
    BY <1>0, <2>4 DEF Hist
  <2>6. bti = NoEntry => x.file = 0 BY <2>1 DEF InsightInv, SourceInv
  <2> QED BY <2>1, <2>2, <2>3, <2>5, <2>6 DEF HistInv, AtStart, Preparing
<1>2. CASE StartRpc(b)
  <2>1. hist' = [hist EXCEPT !.status = "syncing", !.step = "fetch", !.cursor = b]
    BY <1>0, <1>2 DEF StartRpc
  <2>2. hist'.step = "fetch" /\ hist'.cursor = b /\ hist'.extractor = NoExtractor
    BY <1>0, <2>1 DEF Hist
  <2> QED BY <2>2 DEF HistInv, AtStart, Preparing
<1> QED BY <1>1, <1>2 DEF StartFrom

LEMMA StartedHist ==
  ASSUME InsightInv, Grows, ~config.disableP2p, hist' = Started(hist, TRUE), UNCHANGED config
  PROVE  HistInv'
<1>1. CASE hist' = hist BY <1>1, FrameHist DEF InsightInv, IInv
<1>2. CASE hist' = [hist EXCEPT !.status = "starting", !.step = "count", !.force = TRUE]
  <2> DEFINE yes == TRUE
  <2>1. yes OBVIOUS
  <2>2. hist' = [hist EXCEPT !.status = "starting", !.step = "count", !.force = yes] BY <1>2
  <2> HIDE DEF yes
  <2>3. hist'.step = "count" /\ hist'.force = yes /\ hist'.extractor = hist.extractor
    BY <2>2 DEF InsightInv, TypesInv, HistType, Hist
  <2>4. hist.extractor = NoExtractor BY DEF InsightInv, HistInv
  <2> QED BY <2>1, <2>3, <2>4 DEF HistInv, Preparing
<1> QED BY <1>1, <1>2 DEF Started

LEMMA BootedHist ==
  ASSUME Allowed, config \in Configs, hist' = Booted, UNCHANGED config
  PROVE  HistInv'
<1>1. /\ hist'.step \in {"none", "count"} /\ hist'.extractor = NoExtractor
      /\ config.disableHistoric => hist'.step = "none"
  BY BootedFacts
<1>2. config.disableP2p \/ config.disableHistoric BY DEF Allowed
<1> QED BY <1>1, <1>2 DEF HistInv, Preparing

(* A judgement goes on at a stored block, or below Genesis nowhere. *)
LEMMA JudgeInv ==
  ASSUME InsightInv, Grows, hist.step \in {"info", "height", "demote"}, UNCHANGED config,
         NEW own, own # Unread => Judged, Judge(own)
  PROVE  HistInv' /\ (UNCHANGED syncVars \/ ProcessEnds)
<1>0. /\ TypesInv /\ HistInv /\ TypeOK /\ hist \in Hist
      /\ bti # NoEntry /\ Follows(hist.tip) /\ Follows(hist.oldtip)
      /\ hist.extractor = NoExtractor /\ (config.disableP2p \/ hist.force)
  BY DEF InsightInv, IInv, TypesInv, HistType, HistInv, Preparing
<1>1. CASE ProcessEnds /\ UNCHANGED hist BY <1>0, <1>1, FrameHist
<1>2. CASE own # Unread /\ StartFrom(hist.tip) /\ UNCHANGED syncVars
  <2>1. hist.tip \in Block /\ bti' # NoEntry
    BY <1>0, <1>2 DEF Judged, Follows, Stored, Grows
  <2> QED BY <1>2, <2>1, StartFromInv DEF Preparing
<1>3. CASE /\ hist.tip # NoHash /\ UNCHANGED syncVars
           /\ own # Unread => ~hist.confirmed
           /\ hist' = [hist EXCEPT !.step = "info", !.oldtip = hist.tip,
                         !.tip = IF own = Unread THEN NoHash ELSE Parent[hist.tip]]
  <2> DEFINE back == IF own = Unread THEN NoHash ELSE Parent[hist.tip]
  <2>1. Stored(hist.tip) BY <1>0, <1>3 DEF Follows
  <2>2. Follows(back)
    <3>1. CASE own = Unread BY <3>1 DEF Follows
    <3>2. CASE own # Unread
      <4>1. hist.tip # Genesis BY <1>3, <3>2 DEF Judged
      <4> QED BY <2>1, <3>2, <4>1 DEF Follows, Stored, InsightInv, IInv, DbInv, LinkInv
    <3> QED BY <3>1, <3>2
  <2> HIDE DEF back
  <2>3. hist' = [hist EXCEPT !.step = "info", !.oldtip = hist.tip, !.tip = back]
    BY <1>3 DEF back
  <2>4. /\ hist'.step = "info" /\ hist'.tip = back /\ hist'.oldtip = hist.tip
        /\ hist'.extractor = NoExtractor /\ hist'.force = hist.force
    BY <1>0, <2>3 DEF Hist
  <2>5. Follows(hist.tip)' /\ Follows(hist.oldtip)'
    BY <2>1, <2>2, <2>4 DEF Follows, Stored, Grows, Key, Hash
  <2> QED BY <1>0, <1>3, <2>4, <2>5 DEF HistInv, Grows
<1>4. CASE Ends("error") /\ UNCHANGED syncVars BY <1>0, <1>4, EndsHist DEF Statuses
<1> QED BY <1>1, <1>2, <1>3, <1>4 DEF Judge

----------------------------------------------------------------------------
(* The Sync objects. *)

(* A job or a timer goes on. *)
LEMMA JobInvs ==
  ASSUME IInv, LastCallInv, NEW s \in Syncer, Step(s) \/ Polls(s)
  PROVE  /\ IInv' /\ LastCallInv' /\ Grows
         /\ ~crashed' /\ pc'[s] = "idle" /\ reply'[s] = "ok" => bti # NoEntry
<1>1. CASE Step(s)
  <2>1. IInv' BY <1>1, StepType, StepInv DEF IInv
  <2>2. Grows BY <1>1, StepGrows
  <2>3. LastCallInv' BY <1>1, <2>2, MovesOne, StepTip DEF LastCallInv, Grows
  <2> QED BY <1>1, <2>1, <2>2, <2>3, MovesOne DEF LastCallInv
<1>2. CASE Polls(s)
  <2>1. IInv' BY <1>2, PollsType, PollsInv DEF IInv
  <2>2. PICK call \in waiting[s] : Poll(s, call) BY <1>2 DEF Polls
  <2>3. call.allow BY <2>2 DEF IInv, JobInv, CallsInv, CallInv
  <2>4. /\ pc'[s] \in {"tip", "check"} /\ \A r \in Syncer \ {s} : pc'[r] = pc[r]
        /\ UNCHANGED dbVars
    BY <2>2, <2>3 DEF Poll, Begin, GoTo, IInv, TypeOK
  <2>5. Grows BY <2>4, SameDb DEF IInv
  <2> QED BY <2>1, <2>4, <2>5 DEF LastCallInv, dbVars
<1> QED BY <1>1, <1>2

(* Nothing is written, and the jobs stay or end. *)
LEMMA HaltInvs ==
  ASSUME IInv, LastCallInv, UNCHANGED dbVars,
         \/ UNCHANGED syncVars \/ ProcessEnds
         \/ \E s \in Syncer : AddTxsFails(s) \/ HeightChangeThrows(s)
  PROVE  IInv' /\ LastCallInv' /\ Grows
<1>1. Grows BY SameDb DEF IInv
<1>2. CASE UNCHANGED syncVars \/ ProcessEnds
  <2>1. IInv' BY <1>2, HaltInv
  <2>2. LastCallInv' BY <1>2 DEF LastCallInv, syncVars, dbVars, ProcessEnds
  <2> QED BY <1>1, <2>1, <2>2
<1>3. ASSUME NEW s \in Syncer, AddTxsFails(s) \/ HeightChangeThrows(s)
      PROVE  IInv' /\ LastCallInv'
  <2>1. IInv' BY <1>3, FaultType, FaultInv DEF Fault, IInv
  <2>2. LastCallInv'
    BY <1>3 DEF LastCallInv, AddTxsFails, HeightChangeThrows, Answer, GoTo, ProcessEnds, dbVars,
       IInv, TypeOK
  <2> QED BY <2>1, <2>2
<1> QED BY <1>1, <1>2, <1>3

(* A call with a block that may be stored. *)
LEMMA CallInvs ==
  ASSUME IInv, LastCallInv, NEW s \in Syncer, NEW b \in Block,
         bti # NoEntry \/ Parent[b] # Genesis, StoreTipBlock(s, [blk |-> b, allow |-> TRUE])
  PROVE  IInv' /\ LastCallInv' /\ Grows
<1> DEFINE call == [blk |-> b, allow |-> TRUE]
<1>1. call \in Call /\ call.allow /\ CallInv(call) BY DEF Call, CallInv
<1> HIDE DEF call
<1>2. StoreTipBlock(s, call) BY DEF call
<1>3. IInv' BY <1>1, <1>2, StoreTipBlockType, StoreTipBlockInv DEF IInv
<1>4. Grows BY <1>2, SameDb DEF IInv, StoreTipBlock
<1>5. LastCallInv'
  BY <1>1, <1>2 DEF LastCallInv, StoreTipBlock, Begin, GoTo, IInv, TypeOK, dbVars
<1> QED BY <1>3, <1>4, <1>5

----------------------------------------------------------------------------
(* The steps of HistoricSync. *)

LEMMA ReadStartInv ==
  ASSUME InsightInv, ReadStart, UNCHANGED config
  PROVE  IInv' /\ HistInv' /\ LastCallInv' /\ Grows
<1>0. /\ hist \in Hist /\ hist.extractor = NoExtractor /\ hist.step = "tip"
      /\ config.disableP2p \/ hist.force
  BY DEF InsightInv, TypesInv, HistType, HistInv, Preparing, ReadStart, Ready
<1>1. IInv' BY ReaderInv DEF ReadStart, InsightInv
<1>2. Grows BY CacheDb DEF ReadStart, InsightInv, IInv
<1>3. LastCallInv' BY DEF ReadStart, InsightInv, LastCallInv, CacheTip, syncVars
<1>4. CASE GetTip = NoEntry /\ StartFrom(Genesis)
  <2>1. bti = NoEntry BY <1>4 DEF GetTip
  <2> QED BY <1>0, <1>1, <1>2, <1>3, <1>4, <2>1, StartFromInv, KeyFacts DEF Preparing
<1>5. CASE /\ GetTip # NoEntry
           /\ hist' = [hist EXCEPT !.step = "info", !.tip = GetTip.hash, !.oldtip = NoHash,
                                   !.height = GetTip.height]
  <2>1. bti # NoEntry /\ Stored(GetTip.hash)
    BY <1>5 DEF InsightInv, IInv, DbInv, TipInv, TruthfulTip, GetTip
  <2>2. /\ hist'.step = "info" /\ hist'.tip = GetTip.hash /\ hist'.oldtip = NoHash
        /\ hist'.extractor = hist.extractor /\ hist'.force = hist.force
    BY <1>0, <1>5 DEF Hist
  <2>3. Follows(hist.tip)' /\ Follows(hist.oldtip)'
    BY <1>2, <2>1, <2>2 DEF Follows, Stored, Grows, Key, Hash
  <2> QED BY <1>0, <1>1, <1>2, <1>3, <2>1, <2>2, <2>3 DEF HistInv, Grows
<1> QED BY <1>4, <1>5 DEF ReadStart

LEMMA SearchInv ==
  ASSUME InsightInv, ReadInfo \/ ReadInfoFails \/ ReadHeight, UNCHANGED config
  PROVE  IInv' /\ HistInv' /\ LastCallInv' /\ Grows
<1>0. /\ UNCHANGED dbVars /\ Grows
  BY SameDb DEF ReadInfo, ReadInfoFails, ReadHeight, InsightInv, IInv
<1>1. /\ hist \in Hist /\ hist.step \in {"info", "height"}
      /\ bti # NoEntry /\ Follows(hist.tip) /\ Follows(hist.oldtip)
      /\ hist.extractor = NoExtractor /\ (config.disableP2p \/ hist.force)
  BY DEF ReadInfo, ReadInfoFails, ReadHeight, Ready, InsightInv, TypesInv, HistType, HistInv,
     Preparing
<1>2. ASSUME hist'.step \in {"height", "demote"}, hist'.tip = hist.tip,
             hist'.oldtip = hist.oldtip, hist'.force = hist.force,
             hist'.extractor = hist.extractor,
             hist'.step = "demote" => hist.oldtip # NoHash
      PROVE  HistInv'
  BY <1>0, <1>1, <1>2 DEF HistInv, Follows, Stored, Has, dbVars
<1>3. ASSUME HistInv', UNCHANGED syncVars \/ ProcessEnds PROVE IInv' /\ LastCallInv'
  BY <1>0, <1>3, HaltInvs DEF InsightInv
<1>4. CASE ReadInfo
  <2> DEFINE c == hist.tip \in Active
  <2>1. hist' = [hist EXCEPT !.step = "height", !.confirmed = c] /\ UNCHANGED syncVars
    BY <1>4 DEF ReadInfo
  <2> HIDE DEF c
  <2>2. /\ hist'.step = "height" /\ hist'.tip = hist.tip /\ hist'.oldtip = hist.oldtip
        /\ hist'.force = hist.force /\ hist'.extractor = hist.extractor
    BY <1>1, <2>1 DEF Hist
  <2> QED BY <1>0, <1>2, <1>3, <2>1, <2>2
<1>5. ASSUME NEW own, NEW c, hist.oldtip # NoHash, UNCHANGED syncVars,
             hist' = [hist EXCEPT !.step = "demote", !.own = own, !.confirmed = c]
      PROVE  IInv' /\ HistInv' /\ LastCallInv'
  <2>1. /\ hist'.step = "demote" /\ hist'.tip = hist.tip /\ hist'.oldtip = hist.oldtip
        /\ hist'.force = hist.force /\ hist'.extractor = hist.extractor
    BY <1>1, <1>5 DEF Hist
  <2> QED BY <1>2, <1>3, <1>5, <2>1
<1>6. CASE ReadInfoFails
  <2>1. CASE hist.oldtip # NoHash BY <1>0, <1>5, <1>6, <2>1 DEF ReadInfoFails
  <2>2. CASE hist.oldtip = NoHash
    <3>1. HistInv' /\ (UNCHANGED syncVars \/ ProcessEnds)
      BY <1>0, <1>1, <1>6, <2>2, JudgeInv DEF ReadInfoFails
    <3> QED BY <1>0, <1>3, <3>1
  <2> QED BY <2>1, <2>2
<1>7. CASE ReadHeight
  <2>0. Judged BY <1>7 DEF ReadHeight, Ready, InsightInv, TypesInv, HistType
  <2>1. CASE hist.oldtip # NoHash
    <3> DEFINE own == GetHeight(hist.tip)
    <3>1. hist' = [hist EXCEPT !.step = "demote", !.own = own] /\ UNCHANGED syncVars
      BY <1>7, <2>1 DEF ReadHeight
    <3> HIDE DEF own
    <3>2. [hist EXCEPT !.step = "demote", !.own = own]
          = [hist EXCEPT !.step = "demote", !.own = own, !.confirmed = hist.confirmed]
      BY <1>1 DEF Hist
    <3> QED BY <1>0, <1>5, <2>1, <3>1, <3>2
  <2>2. CASE hist.oldtip = NoHash
    <3>1. HistInv' /\ (UNCHANGED syncVars \/ ProcessEnds)
      BY <1>0, <1>1, <1>7, <2>0, <2>2, JudgeInv DEF ReadHeight
    <3> QED BY <1>0, <1>3, <3>1
  <2> QED BY <2>1, <2>2
<1> QED BY <1>4, <1>6, <1>7

(* The block the search came from goes off the main chain. *)
LEMMA DemoteInv ==
  ASSUME InsightInv, TypesInv', DemoteOldTip, UNCHANGED config
  PROVE  IInv' /\ HistInv' /\ LastCallInv' /\ Grows
<1>0. IInv /\ TypeOK' BY DEF InsightInv, TypesInv, InsightTypeOK
<1>1. Stored(hist.oldtip) /\ ChangeBlockHeight(hist.oldtip, -1) /\ hist.step = "demote"
  BY DEF DemoteOldTip, Ready, SetBlockNotMain, InsightInv, HistInv, Follows
<1>2. DbInv' /\ Grows BY <1>0, <1>1, HeightDb DEF IInv
<1>3. HistInv' /\ (UNCHANGED syncVars \/ ProcessEnds)
  BY <1>1, <1>2, JudgeInv DEF DemoteOldTip, InsightInv, TypesInv, HistType
<1>4. CASE UNCHANGED syncVars
  <2>1. ASSUME NEW s \in Syncer PROVE JobInv(s)'
    BY <1>0, <1>2, <1>4, FrameJob DEF IInv, syncVars
  <2> QED BY <1>0, <1>1, <1>2, <1>3, <1>4, <2>1
      DEF IInv, InsightInv, LastCallInv, syncVars, ChangeBlockHeight
<1>5. CASE ProcessEnds
  <2>1. IInv' BY <1>0, <1>2, <1>5, EndsInv
  <2> QED BY <1>2, <1>3, <1>5, <2>1 DEF LastCallInv, ProcessEnds
<1> QED BY <1>3, <1>4, <1>5

(* The next block of bitcoind's chain is fetched and stored. *)
LEMMA FetchInv ==
  ASSUME InsightInv, Fetch, UNCHANGED config
  PROVE  IInv' /\ HistInv' /\ LastCallInv' /\ Grows
<1>1. CASE Ends("finished") /\ UNCHANGED <<dbVars, syncVars>>
  <2>1. HistInv' BY <1>1, EndsHist DEF Statuses, InsightInv
  <2> QED BY <1>1, <2>1, HaltInvs DEF InsightInv
<1>2. CASE /\ hist.cursor # NoHash
           /\ StoreTipBlock("historic", [blk |-> hist.cursor, allow |-> TRUE])
           /\ hist' = [hist EXCEPT !.step = "store", !.cursor = NextBlockHash(@)]
  <2>1. /\ hist.cursor \in Block /\ (hist.cursor = Genesis \/ bti # NoEntry)
    BY <1>2 DEF Fetch, Ready, InsightInv, TypesInv, HistType, Spot, HistInv, AtStart
  <2>2. hist.cursor = Genesis => Parent[hist.cursor] # Genesis BY KeyFacts, BlockTreeAssumption
  <2>3. IInv' /\ LastCallInv' /\ Grows
    BY <1>2, <2>1, <2>2, CallInvs, HistoricAssumption DEF InsightInv
  <2> DEFINE n == NextBlockHash(hist.cursor)
  <2>4. hist' = [hist EXCEPT !.step = "store", !.cursor = n] BY <1>2
  <2> HIDE DEF n
  <2>5. hist'.step = "store" /\ hist'.extractor = hist.extractor
    BY <2>4 DEF InsightInv, TypesInv, HistType, Hist
  <2> QED BY <2>3, <2>5, PauseHist DEF InsightInv
<1> QED BY <1>1, <1>2 DEF Fetch

LEMMA StoreInv ==
  ASSUME InsightInv, Store, UNCHANGED config
  PROVE  IInv' /\ HistInv' /\ LastCallInv' /\ Grows
<1>1. /\ IInv' /\ LastCallInv' /\ Grows
      /\ ~crashed' /\ pc'["historic"] = "idle" /\ reply'["historic"] = "ok" => bti # NoEntry
  BY JobInvs, HistoricAssumption DEF Store, InsightInv
<1>2. CASE UNCHANGED hist BY <1>1, <1>2, FrameHist DEF InsightInv, IInv
<1>3. CASE bti # NoEntry /\ hist' = [hist EXCEPT !.step = "fetch"]
  <2>1. hist'.step = "fetch" /\ hist'.extractor = hist.extractor
    BY <1>3 DEF InsightInv, TypesInv, HistType, Hist
  <2> QED BY <1>1, <1>3, <2>1 DEF InsightInv, HistInv, Preparing, Grows
<1>4. CASE Ends("error") BY <1>1, <1>4, EndsHist DEF InsightInv, Statuses
<1> QED BY <1>1, <1>2, <1>3, <1>4 DEF Store

(* The steps that leave the database alone. *)
LEMMA IdleInv ==
  ASSUME InsightInv, UNCHANGED config,
         CountBlocks \/ CountThrows \/ CheckFails \/ DemoteThrows \/ FetchFails
         \/ StoreFails \/ (HeightChangeThrows("historic") /\ UNCHANGED hist)
  PROVE  IInv' /\ HistInv' /\ LastCallInv' /\ Grows
<1> USE HistoricAssumption
<1>1. UNCHANGED dbVars
  BY DEF CountBlocks, CountThrows, CheckFails, DemoteThrows, FetchFails, StoreFails,
     HeightChangeThrows, AddTxsFails
<1>2. IInv' /\ LastCallInv' /\ Grows
  BY <1>1, HaltInvs DEF InsightInv, CountBlocks, CountThrows, CheckFails, DemoteThrows, FetchFails,
     StoreFails
<1>3. CASE CountBlocks
  <2>1. /\ hist'.step = "tip" /\ hist'.extractor = hist.extractor /\ hist'.force = hist.force
        /\ hist.step = "count"
    BY <1>3 DEF CountBlocks, Ready, InsightInv, TypesInv, HistType, Hist
  <2> QED BY <1>2, <2>1 DEF InsightInv, HistInv, Preparing
<1>4. CASE UNCHANGED hist BY <1>2, <1>4, FrameHist DEF InsightInv, IInv
<1>5. CASE Ends("error") BY <1>2, <1>5, EndsHist DEF InsightInv, Statuses
<1> QED BY <1>3, <1>4, <1>5 DEF CountThrows, CheckFails, DemoteThrows, FetchFails, StoreFails

(* The first block of the first file. *)
LEMMA FirstInFile ==
  ASSUME disk \in Seq(Block), disk # << >>
  PROVE  BlockFile(0) # << >> /\ Head(BlockFile(0)) = disk[1]
<1> DEFINE S == {(0 + 1) * PerFile, Len(disk)}
           m == 0 * PerFile + 1
           k == Min(S)
<1>1. PerFile \in Nat /\ PerFile >= 1 BY FileAssumption
<1>2. Len(disk) \in Nat /\ Len(disk) >= 1 OBVIOUS
<1>3. m = 1 /\ (0 + 1) * PerFile = PerFile BY <1>1
<1>4. S \in SUBSET Nat /\ S # {} /\ \A x \in S : x >= 1 BY <1>1, <1>2, <1>3
<1>5. Len(disk) \in S OBVIOUS
<1> HIDE DEF S
<1>6. \E x \in S : \A y \in S : x <= y BY <1>4, Least
<1>7. k \in S /\ \A y \in S : k <= y BY <1>6 DEF Min
<1>8. k \in Nat /\ k >= 1 /\ k <= Len(disk) BY <1>4, <1>5, <1>7
<1> HIDE DEF k, m
<1>9. SubSeq(disk, 1, k) # << >> /\ Head(SubSeq(disk, 1, k)) = disk[1] BY <1>8
<1> QED BY <1>3, <1>9 DEF BlockFile, m, k, S

LEMMA FetchFileInv ==
  ASSUME InsightInv, FetchFile, UNCHANGED config
  PROVE  /\ IInv' /\ HistInv' /\ LastCallInv' /\ Grows
         /\ bti = NoEntry => lastFile' = 0
<1> DEFINE x == Ahead(hist.extractor)
<1>0. /\ hist.step = "fetch" /\ hist.extractor # NoExtractor /\ hist \in Hist
      /\ FileType(hist.extractor) /\ disk \in Seq(Block) /\ disk # << >> /\ disk[1] = Genesis
      /\ bti = NoEntry => lastFile = 0
  BY DEF FetchFile, Ready, InsightInv, TypesInv, InsightTypeOK, HistType, HistInv, SourceInv
<1>1. FileType(x) BY <1>0, AheadType
<1>2. bti = NoEntry => x.file = 0 /\ ~NoBlock(x) /\ Head(x.buffer) = Genesis
  <2> SUFFICES ASSUME bti = NoEntry
               PROVE  x.file = 0 /\ ~NoBlock(x) /\ Head(x.buffer) = Genesis
    OBVIOUS
  <2> DEFINE e == hist.extractor
             buffer == BlockFile(0)
  <2>1. e.file = 0 /\ ~e.read BY <1>0 DEF InsightInv, HistInv, AtStart
  <2>2. ReadFile(e) = [e EXCEPT !.read = TRUE, !.buffer = buffer] BY <2>1 DEF ReadFile
  <2>3. buffer # << >> /\ Head(buffer) = Genesis BY <1>0, FirstInFile
  <2> HIDE DEF buffer
  <2>4. ReadFile(e).buffer = buffer /\ ReadFile(e).file = 0
    BY <1>0, <2>1, <2>2 DEF FileType, Extractor
  <2>5. x = ReadFile(e) BY <2>3, <2>4 DEF Ahead
  <2> HIDE DEF x, e
  <2> QED BY <2>3, <2>4, <2>5 DEF NoBlock
<1> HIDE DEF x
<1>3. CASE /\ NoBlock(x) /\ UNCHANGED <<dbVars, syncVars, lastFile>>
           /\ hist' = [hist EXCEPT !.status = "finished", !.step = "none", !.extractor = x]
  <2>1. hist'.step = "none" BY <1>0, <1>3 DEF Hist
  <2>2. HistInv' BY <1>0, <2>1, PauseHist DEF InsightInv
  <2> QED BY <1>2, <1>3, <2>2, HaltInvs DEF InsightInv
<1>4. CASE /\ ~NoBlock(x) /\ TakeBlock(x, "store")
           /\ StoreTipBlock("historic", [blk |-> Head(x.buffer), allow |-> TRUE])
  <2> DEFINE b == Head(x.buffer)
  <2>1. b \in Block BY <1>1, <1>4, TakenType
  <2>2. bti # NoEntry \/ Parent[b] # Genesis BY <1>2, KeyFacts, BlockTreeAssumption
  <2>3. IInv' /\ LastCallInv' /\ Grows
    BY <1>4, <2>1, <2>2, CallInvs, HistoricAssumption DEF InsightInv
  <2> DEFINE y == [x EXCEPT !.buffer = Tail(@)]
  <2>4. hist' = [hist EXCEPT !.step = "store", !.extractor = y] /\ lastFile' = x.file
    BY <1>4 DEF TakeBlock
  <2> HIDE DEF y, b
  <2>5. hist'.step = "store" BY <1>0, <2>4 DEF Hist
  <2>6. HistInv' BY <1>0, <2>5, PauseHist DEF InsightInv
  <2> QED BY <1>2, <2>3, <2>4, <2>6
<1> QED BY <1>3, <1>4 DEF FetchFile, x

LEMMA SeekInv ==
  ASSUME InsightInv, Seek, UNCHANGED config
  PROVE  IInv' /\ HistInv' /\ LastCallInv' /\ Grows /\ bti # NoEntry
<1> DEFINE x == Ahead(hist.extractor)
           y == [x EXCEPT !.buffer = Tail(@)]
<1>0. /\ hist.step = "seek" /\ hist.extractor # NoExtractor /\ hist \in Hist
      /\ FileType(hist.extractor) /\ disk \in Seq(Block) /\ bti # NoEntry
      /\ config.disableP2p /\ config.dataDir
      /\ UNCHANGED <<dbVars, syncVars>>
  BY DEF Seek, Ready, InsightInv, TypesInv, InsightTypeOK, HistType, HistInv
<1>1. FileType(x) BY <1>0, AheadType
<1>2. ~NoBlock(x) => y.file \in Nat
  <2>1. ~NoBlock(x) => x.file \in Nat BY <1>1, TakenType
  <2>2. y.file = x.file BY <1>1 DEF FileType, Extractor
  <2> QED BY <2>1, <2>2
<1>3. ~NoBlock(x) => y # NoExtractor BY <1>2, NoExtractorFacts
<1>4. IInv' /\ LastCallInv' /\ Grows BY <1>0, HaltInvs DEF InsightInv
<1>5. CASE /\ NoBlock(x)
           /\ hist' = [hist EXCEPT !.status = "error", !.step = "none", !.extractor = x]
  <2> HIDE DEF x
  <2>1. hist'.step = "none" BY <1>0, <1>5 DEF Hist
  <2> QED BY <1>0, <1>4, <2>1, PauseHist DEF InsightInv
<1>6. CASE /\ ~NoBlock(x)
           /\ \/ hist' = [hist EXCEPT !.step = "seek", !.extractor = y]
              \/ hist' = [hist EXCEPT !.status = "syncing", !.step = "fetch", !.extractor = y]
  <2> HIDE DEF y
  <2>1. hist'.step \in {"seek", "fetch"} /\ hist'.extractor = y BY <1>0, <1>6 DEF Hist
  <2> QED BY <1>0, <1>3, <1>4, <1>6, <2>1 DEF HistInv, Preparing, Grows
<1>7. \/ NoBlock(x) /\ hist' = [hist EXCEPT !.status = "error", !.step = "none", !.extractor = x]
      \/ ~NoBlock(x) /\ hist' = [hist EXCEPT !.step = "seek", !.extractor = y]
      \/ ~NoBlock(x)
          /\ hist' = [hist EXCEPT !.status = "syncing", !.step = "fetch", !.extractor = y]
  BY DEF Seek, TakeBlock
<1> HIDE DEF x, y
<1> QED BY <1>0, <1>5, <1>6, <1>7

----------------------------------------------------------------------------
(* The process. *)

(* The HistoricSync leaves the other Sync objects alone, or ends them. *)
LEMMA OthersWait ==
  ASSUME InsightInv, Historic, NEW r \in Syncer, r # "historic", pc[r] = "idle", waiting[r] = {}
  PROVE  pc'[r] = "idle" /\ waiting'[r] = {}
<1> USE HistoricAssumption DEF InsightInv, IInv, TypeOK
<1>0. UNCHANGED syncVars => UNCHANGED <<pc, waiting>> BY DEF syncVars
<1>1. ProcessEnds => pc'[r] = "idle" /\ waiting'[r] = {} BY DEF ProcessEnds
<1>2. ASSUME Step("historic") PROVE pc'[r] = "idle" /\ waiting'[r] = {}
  <2>1. pc'[r] = "idle" BY <1>2, MovesOne
  <2>2. waiting' = waiting \/ waiting' = [s \in Syncer |-> {}]
    BY <1>2 DEF Step, CheckPrev, ReadTip, ReadNext, ReorgHeight, RetryReorg, WalkBack, WalkTest,
       Connect, ReadFork, Relink, Orphan, Follow, AddTxs, AddBlock, MoveTip, LinkPrev,
       Continue, StartAdd, Answer, ProcessEnds
  <2> QED BY <2>1, <2>2
<1>3. ASSUME Polls("historic") PROVE pc'[r] = "idle" /\ waiting'[r] = {}
  BY <1>3 DEF Polls, Poll, Begin, GoTo
<1>4. ASSUME NEW call, StoreTipBlock("historic", call) PROVE pc'[r] = "idle" /\ waiting'[r] = {}
  BY <1>4 DEF StoreTipBlock, Begin, GoTo
<1>5. ASSUME AddTxsFails("historic") PROVE pc'[r] = "idle" /\ waiting'[r] = {}
  BY <1>5 DEF AddTxsFails, Answer, GoTo
<1>6. CASE FileStep
  BY <1>0, <1>4, <1>6 DEF FileStep, Seek, FetchFile
<1>7. CASE SyncStep
  <2>1. CASE ReadInfo \/ ReadHeight \/ DemoteOldTip
    BY <1>0, <1>1, <2>1 DEF ReadInfo, ReadHeight, DemoteOldTip, Judge
  <2> QED
    BY <1>0, <1>2, <1>3, <1>4, <1>7, <2>1 DEF SyncStep, CountBlocks, ReadStart, Fetch, Store
<1>8. CASE SyncFails
  <2>1. CASE ReadInfoFails BY <1>0, <1>1, <2>1 DEF ReadInfoFails, Judge
  <2> QED
    BY <1>0, <1>1, <1>5, <1>8, <2>1 DEF SyncFails, CountThrows, CheckFails, DemoteThrows,
       FetchFails, StoreFails, HeightChangeThrows
<1> QED BY <1>6, <1>7, <1>8 DEF Historic

LEMMA HistoricInv ==
  ASSUME InsightInv, TypesInv', Historic
  PROVE  InsightInv'
<1>1. UNCHANGED <<node, disk, config, inbox>> /\ allowReorgs' = (allowReorgs \/ LoopEnds)
  BY DEF Historic
<1>2. /\ IInv' /\ HistInv' /\ LastCallInv' /\ Grows
      /\ bti = NoEntry /\ lastFile = 0 => lastFile' = 0
  <2>1. CASE FileStep BY <1>1, <2>1, SeekInv, FetchFileInv DEF FileStep
  <2>2. CASE (SyncStep \/ SyncFails) /\ UNCHANGED lastFile
    BY <1>1, <2>2, IdleInv, ReadStartInv, SearchInv, DemoteInv, FetchInv, StoreInv
    DEF SyncStep, SyncFails
  <2> QED BY <2>1, <2>2 DEF Historic
<1>3. pc["peer"] = "idle" /\ waiting["peer"] = {} => pc'["peer"] = "idle" /\ waiting'["peer"] = {}
  BY OthersWait, PeerAssumption
<1>4. SourceInv' BY <1>1, <1>2, <1>3 DEF InsightInv, SourceInv, Grows
<1> QED BY <1>1, <1>2, <1>4 DEF InsightInv

LEMMA PeerInv ==
  ASSUME InsightInv, TypesInv', Peer
  PROVE  InsightInv'
<1> USE PeerAssumption
<1>0. IInv /\ LastCallInv /\ UNCHANGED <<node, disk, lastFile, config>>
  BY DEF Peer, InsightInv
<1>1. ~config.disableP2p
  <2>1. pc["peer"] = "idle" /\ waiting["peer"] = {} => ~Step("peer") /\ ~Polls("peer")
    BY DEF Polls, Step, CheckPrev, ReadTip, ReadNext, ReorgHeight, RetryReorg, WalkBack, WalkTest,
       Connect, ReadFork, Relink, Orphan, Follow, AddTxs, AddBlock, MoveTip, LinkPrev, Waits
  <2>2. pc["peer"] = "idle" => ~PeerFails
    BY DEF PeerFails, AddTxsFails, HeightChangeThrows, Waits
  <2> QED BY <2>1, <2>2 DEF Peer, HandleBlock, StorePeer, InsightInv, SourceInv
<1>2. allowReorgs = TRUE /\ allowReorgs' = allowReorgs
  BY <1>1 DEF Peer, HandleBlock, StorePeer, PeerFails, InsightInv, SourceInv, TypesInv,
     InsightTypeOK
<1>3. inbox \in Seq(Block) /\ inbox' \in Seq(Block) BY DEF InsightInv, TypesInv, InsightTypeOK
<1>4. \A i \in DOMAIN inbox' : Parent[inbox'[i]] # Genesis
  <2>0. \A i \in DOMAIN inbox : Parent[inbox[i]] # Genesis BY DEF InsightInv, SourceInv
  <2>1. CASE inbox # << >> /\ inbox' = Tail(inbox)
    <3>1. \A i \in DOMAIN Tail(inbox) : i + 1 \in DOMAIN inbox /\ Tail(inbox)[i] = inbox[i + 1]
      BY <1>3, <2>1
    <3> QED BY <2>0, <2>1, <3>1
  <2>2. CASE inbox' = inbox BY <2>0, <2>2
  <2> QED BY <2>1, <2>2 DEF Peer, HandleBlock, StorePeer, PeerFails
<1>5. IInv' /\ LastCallInv' /\ Grows /\ HistInv'
  <2>1. CASE HandleBlock
    <3> DEFINE b == Head(inbox)
    <3>1. b \in Block /\ Parent[b] # Genesis
      <4>1. 1 \in DOMAIN inbox /\ b = inbox[1] /\ b \in Block BY <1>3, <2>1 DEF HandleBlock
      <4> QED BY <4>1 DEF InsightInv, SourceInv
    <3>2. StoreTipBlock("peer", [blk |-> b, allow |-> TRUE]) BY <1>2, <2>1 DEF HandleBlock
    <3> HIDE DEF b
    <3>3. IInv' /\ LastCallInv' /\ Grows BY <1>0, <3>1, <3>2, CallInvs
    <3> QED BY <1>0, <2>1, <3>3, FrameHist DEF HandleBlock, InsightInv, IInv
  <2>2. CASE StorePeer
    <3>1. IInv' /\ LastCallInv' /\ Grows BY <1>0, <2>2, JobInvs DEF StorePeer
    <3> QED BY <1>0, <1>1, <2>2, <3>1, FrameHist, StartedHist DEF StorePeer, InsightInv, IInv
  <2>3. CASE PeerFails
    <3>1. UNCHANGED dbVars BY <2>3 DEF PeerFails, AddTxsFails, HeightChangeThrows
    <3>2. IInv' /\ LastCallInv' /\ Grows BY <1>0, <2>3, <3>1, HaltInvs DEF PeerFails
    <3> QED BY <1>0, <2>3, <3>2, FrameHist DEF PeerFails, InsightInv, IInv
  <2> QED BY <2>1, <2>2, <2>3 DEF Peer
<1>6. SourceInv' BY <1>0, <1>1, <1>2, <1>4, <1>5 DEF InsightInv, SourceInv, Grows
<1> QED BY <1>0, <1>5, <1>6 DEF InsightInv

(* A chain has a block of every height up to its own. *)
LEMMA ChainReaches ==
  ASSUME NEW n \in Block, NEW d \in Nat, Depth[n] >= d
  PROVE  \E b \in Chain[n] : Depth[b] = d
<1> DEFINE High == {Depth[x] : x \in {y \in Chain[n] : Depth[y] >= d}}
<1>1. High \in SUBSET Nat /\ High # {} BY ChainFacts, KeyFacts
<1>2. PICK m \in High : \A k \in High : m <= k BY <1>1, Least
<1>3. PICK x \in Chain[n] : Depth[x] = m /\ Depth[x] >= d BY <1>2
<1>4. x \in Block /\ Depth[x] \in Nat BY <1>3, ChainFacts, KeyFacts
<1>5. Depth[x] = d
  <2> SUFFICES ASSUME Depth[x] # d PROVE FALSE OBVIOUS
  <2>1. x # Genesis BY <1>3, <1>4, KeyFacts
  <2>2. Parent[x] \in Chain[n] /\ Depth[x] = Depth[Parent[x]] + 1 /\ Depth[Parent[x]] \in Nat
    BY <1>3, <1>4, <2>1, ChainOrder, KeyFacts
  <2>3. Depth[Parent[x]] >= d BY <1>3, <1>4, <2>2
  <2>4. Depth[Parent[x]] \in High BY <2>2, <2>3
  <2>5. Depth[x] <= Depth[Parent[x]] BY <1>2, <1>3, <2>4
  <2> QED BY <2>2, <2>5
<1> QED BY <1>3, <1>5

(* What is new above block 1 is above block 2. *)
LEMMA NewIsHigh ==
  ASSUME OneFirstBlock, node \in Block, Depth[node] >= 1, NEW b \in Block \ Active
  PROVE  Parent[b] # Genesis
<1> SUFFICES ASSUME Parent[b] = Genesis PROVE FALSE OBVIOUS
<1>1. PICK x \in Chain[node] : Depth[x] = 1 BY ChainReaches
<1>2. x \in Block /\ x # Genesis BY <1>1, ChainFacts, KeyFacts
<1>3. Parent[x] \in Block /\ Depth[Parent[x]] = 0 BY <1>1, <1>2, KeyFacts
<1>4. Parent[x] = Genesis
  <2> SUFFICES ASSUME Parent[x] # Genesis PROVE FALSE OBVIOUS
  <2>1. Depth[Parent[x]] = Depth[Parent[Parent[x]]] + 1 /\ Depth[Parent[Parent[x]]] \in Nat
    BY <1>3, KeyFacts
  <2> QED BY <1>3, <2>1
<1>5. x = b BY <1>2, <1>4 DEF OneFirstBlock
<1> QED BY <1>1, <1>5 DEF Active

LEMMA MoveInv ==
  ASSUME Allowed, InsightInv, TypesInv', Move
  PROVE  InsightInv'
<1>0. /\ UNCHANGED <<dbVars, syncVars, lastFile, hist, config, allowReorgs>>
      /\ node \in Block /\ disk \in Seq(Block) /\ IsInjective(disk) /\ inbox \in Seq(Block)
  BY DEF Move, vars, InsightInv, TypesInv, InsightTypeOK
<1>1. PICK n \in Block :
        /\ NodeMoves(n) /\ disk' = Written(n)
        /\ \/ inbox' = inbox
           \/ ~config.disableP2p /\ \E seq \in Announced(n) : inbox' = inbox \o seq
  BY DEF Move
<1>2. IInv' /\ LastCallInv' /\ Grows BY <1>0, HaltInvs DEF InsightInv
<1>3. HistInv' BY <1>0, <1>2, FrameHist DEF InsightInv, IInv
<1>4. Depth[n] > Depth[node] /\ node' = n /\ Depth[n] \in Nat /\ Depth[node] \in Nat
  BY <1>0, <1>1, KeyFacts DEF NodeMoves
<1>5. config.dataDir => disk' # << >> /\ disk'[1] = Genesis
  BY <1>0, <1>1, ReceivedFacts DEF Written, InsightInv, SourceInv
<1>6. \A i \in DOMAIN inbox' : Parent[inbox'[i]] # Genesis
  <2>0. \A i \in DOMAIN inbox : Parent[inbox[i]] # Genesis BY DEF InsightInv, SourceInv
  <2>1. ASSUME NEW seq \in Announced(n), inbox' = inbox \o seq, ~config.disableP2p,
               NEW i \in DOMAIN inbox'
        PROVE  Parent[inbox'[i]] # Genesis
    <3>1. seq \in Seq(Chain[n] \ Active) /\ seq \in Seq(Block)
      BY <1>0, <1>4, <2>1, AnnouncedFacts
    <3>2. OneFirstBlock /\ Depth[node] >= 1
      BY <2>1 DEF Allowed, PastStart, InsightInv, SourceInv
    <3>3. \/ i \in DOMAIN inbox /\ inbox'[i] = inbox[i]
          \/ i - Len(inbox) \in DOMAIN seq /\ inbox'[i] = seq[i - Len(inbox)]
      BY <1>0, <2>1, <3>1
    <3>4. \A j \in DOMAIN seq : seq[j] \in Block \ Active BY <3>1
    <3> QED BY <1>0, <2>0, <3>2, <3>3, <3>4, NewIsHigh
  <2> QED BY <1>1, <2>0, <2>1
<1>7. config.disableP2p => inbox' = inbox BY <1>1
<1>8. SourceInv' BY <1>0, <1>4, <1>5, <1>6, <1>7 DEF InsightInv, SourceInv, dbVars, syncVars
<1> QED BY <1>0, <1>2, <1>3, <1>8 DEF InsightInv

LEMMA RebootInv ==
  ASSUME Allowed, InsightInv, TypesInv', Reboot
  PROVE  InsightInv'
<1>0. UNCHANGED <<node, disk, lastFile, config, bti, pc, waiting>>
      /\ inbox' = << >> /\ allowReorgs' = config.disableHistoric
  BY DEF Reboot, Restart
<1>1. Fault BY DEF Reboot, Restart, Fault
<1>2. IInv' BY <1>1, FaultType, FaultInv DEF InsightInv, IInv
<1>3. HistInv' BY <1>0, BootedHist DEF Reboot, InsightInv
<1>4. LastCallInv' BY <1>0 DEF InsightInv, LastCallInv
<1>5. config.disableP2p \/ config.disableHistoric BY DEF InsightInv, Allowed
<1>6. DOMAIN << >> = {} OBVIOUS
<1>7. SourceInv' BY <1>0, <1>5, <1>6 DEF InsightInv, SourceInv
<1> QED BY <1>0, <1>2, <1>3, <1>4, <1>7 DEF InsightInv

LEMMA InsightInitInv ==
  ASSUME Allowed, InsightInit
  PROVE  InsightInv
<1>0. TypesInv /\ config \in Configs /\ node \in FirstTips /\ node \in Block
  BY TypesInit, InsightAssumption DEF InsightInit
<1>1. IInv BY InitInv DEF InsightInit
<1>2. config.disableP2p \/ config.disableHistoric BY <1>0 DEF Allowed
<1>3. HistInv
  <2>1. hist = Booted BY DEF InsightInit
  <2> QED BY <1>2, <2>1, BootedFacts DEF HistInv, Preparing
<1>4. LastCallInv BY DEF InsightInit, Init, SyncInit, LastCallInv
<1>5. ASSUME config.dataDir PROVE disk # << >> /\ disk[1] = Genesis
  <2>1. Genesis \in Chain[node] /\ Chain[node] \in SUBSET Block /\ IsFiniteSet(Chain[node])
    BY <1>0, ChainFacts, ChainFinite
  <2>2. disk = ByDepth(Chain[node]) BY <1>5 DEF InsightInit
  <2>3. Lists(disk, Chain[node]) BY <2>1, <2>2, ByDepthLists
  <2>4. disk \in Seq(Chain[node]) /\ ToSet(disk) = Chain[node] /\ Depth[disk[1]] <= Depth[Genesis]
    BY <2>1, <2>3 DEF Lists
  <2>5. DOMAIN disk # {} BY <2>1, <2>4 DEF ToSet
  <2>6. disk # << >> /\ disk[1] \in Chain[node] BY <2>4, <2>5
  <2>7. disk[1] \in Block /\ Depth[disk[1]] <= 0 /\ Depth[disk[1]] \in Nat
    BY <2>1, <2>4, <2>6, KeyFacts, BlockTreeAssumption
  <2>8. disk[1] = Genesis
    <3> SUFFICES ASSUME disk[1] # Genesis PROVE FALSE OBVIOUS
    <3>1. Depth[disk[1]] = Depth[Parent[disk[1]]] + 1 /\ Depth[Parent[disk[1]]] \in Nat
      BY <2>7, KeyFacts
    <3> QED BY <2>7, <3>1
  <2> QED BY <2>6, <2>8
<1>6. DOMAIN << >> = {} OBVIOUS
<1>7. SourceInv
  <2>1. inbox = << >> /\ lastFile = 0 /\ allowReorgs = config.disableHistoric
        /\ pc["peer"] = "idle" /\ waiting["peer"] = {}
    BY PeerAssumption DEF InsightInit, Init, SyncInit
  <2>2. ~config.disableP2p => config.disableHistoric /\ Depth[node] >= 1
    BY <1>0 DEF Allowed, PastStart
  <2> QED BY <1>5, <1>6, <2>1, <2>2 DEF SourceInv
<1> QED BY <1>0, <1>1, <1>3, <1>4, <1>7 DEF InsightInv

LEMMA InsightStep ==
  ASSUME Allowed, InsightInv, [InsightNext]_insightVars
  PROVE  InsightInv'
<1>0. TypesInv' /\ TypeOK BY TypesStep DEF InsightInv, IInv
<1>1. ASSUME UNCHANGED dbVars, UNCHANGED syncVars \/ ProcessEnds,
             UNCHANGED <<node, disk, lastFile, hist, config, inbox, allowReorgs>>
      PROVE  InsightInv'
  <2>1. IInv' /\ LastCallInv' /\ Grows BY <1>1, HaltInvs DEF InsightInv
  <2>2. HistInv' BY <1>0, <1>1, <2>1, FrameHist DEF InsightInv
  <2>3. pc["peer"] = "idle" /\ waiting["peer"] = {} => pc'["peer"] = "idle" /\ waiting'["peer"] = {}
    BY <1>1, PeerAssumption DEF syncVars, ProcessEnds
  <2>4. SourceInv' BY <1>1, <2>3 DEF InsightInv, SourceInv, dbVars
  <2> QED BY <1>0, <1>1, <2>1, <2>2, <2>4 DEF InsightInv
<1>2. CASE Stop BY <1>1, <1>2 DEF Stop, Kill
<1>3. CASE UNCHANGED insightVars BY <1>1, <1>3 DEF insightVars, vars
<1> QED BY <1>0, <1>2, <1>3, MoveInv, HistoricInv, PeerInv, RebootInv DEF InsightNext

LEMMA InsightInvariant ==
  ASSUME Allowed
  PROVE  InsightSpec => []InsightInv
<1>1. InsightInv /\ [InsightNext]_insightVars => InsightInv' BY InsightStep
<1>2. InsightInit => InsightInv BY InsightInitInv
<1> QED BY <1>1, <1>2, PTL DEF InsightSpec

----------------------------------------------------------------------------
(* The chain of a HistoricSync that works alone. *)

(* It follows bitcoind over RPC, no call fails, its loops run, and the     *)
(* process is stopped while it has nothing to do.                          *)
Alone ==
  /\ ~Async3
  /\ \A c \in Configs : c.disableP2p /\ ~c.disableHistoric /\ ~c.dataDir
  /\ ~KillAnytime /\ "rpc" \notin Faults
  /\ SharedBase

LEMMA AloneFacts ==
  ASSUME Alone, InsightInv
  PROVE  hist.extractor = NoExtractor /\ hist.step # "seek" /\ inbox = << >>
BY DEF Alone, InsightInv, HistInv, SourceInv

(* Whoever is at height 2 or above has the block 2 all branches share. *)
LEMMA ReachesBase ==
  ASSUME SharedBase, NEW n \in Block, Depth[n] >= 2, NEW b \in Block, Depth[b] = 2
  PROVE  b \in Chain[n]
<1>1. PICK x \in Chain[n] : Depth[x] = 2 BY ChainReaches
<1>2. x \in Block BY <1>1, ChainFacts
<1> QED BY <1>1, <1>2 DEF SharedBase

LEMMA HistoricPhase ==
  ASSUME TypeOK, NEW phase, GoTo("historic", phase)
  PROVE  /\ pc'["historic"] = phase
         /\ \A s \in Syncer : s # "historic" => pc'[s] = pc[s]
BY HistoricAssumption DEF TypeOK, GoTo

(* The job goes on to the next call. *)
LEMMA JobGoesOn ==
  ASSUME InsightInv, LineInv, NEW phase, NEW j, pc["historic"] # "idle", ~crashed,
         Continue("historic", phase, j) \/ (phase = "addTxs" /\ StartAdd("historic", j)),
         phase # "idle", j.blk = job["historic"].blk, UNCHANGED <<hist, node>>,
         cachedTip' # NoEntry => cachedTip' = bti', bti'.height <= Depth[node], PointsInv',
         pc'["historic"] = phase /\ job'["historic"] = j => PhasesInv'
  PROVE  LineInv'
<1>1. GoTo("historic", phase) /\ job' = [job EXCEPT !["historic"] = j]
      /\ UNCHANGED <<waiting, crashed>>
  BY DEF Continue, StartAdd
<1>2. /\ pc'["historic"] = phase /\ job'["historic"] = j
      /\ \A s \in Syncer : s # "historic" => pc'[s] = pc[s]
  BY <1>1, HistoricPhase, HistoricAssumption DEF InsightInv, IInv, TypeOK
<1>3. hist.step = "store" /\ ~crashed' BY <1>1 DEF LineInv, TurnsInv
<1>4. TurnsInv' BY <1>1, <1>2, <1>3 DEF LineInv, TurnsInv
<1>5. ReachInv' BY <1>2 DEF LineInv, ReachInv
<1>6. WayBackInv' BY <1>3 DEF WayBackInv, Searching, Resuming
<1>7. LoopInv' BY <1>2, <1>3 DEF LineInv, LoopInv
<1> QED BY <1>2, <1>4, <1>5, <1>6, <1>7 DEF LineInv

(* The block of the job and the chain under it. *)
LEMMA HistoricJob ==
  ASSUME InsightInv
  PROVE  LET b == job["historic"].blk
             p == Parent[b]
         IN  /\ job["historic"] \in Job /\ b \in Block
             /\ p \in Hash /\ (p = Zeros <=> b = Genesis) /\ (p # Zeros => p \in Block)
             /\ Line(p) \subseteq Block /\ b \notin Line(p) /\ Chain[b] = Line(p) \cup {b}
BY JobFacts, LineFacts, HistoricAssumption DEF InsightInv, NewPrev

(* A repeated block is not on the tip. *)
LEMMA RepeatFacts ==
  ASSUME InsightInv, NEW b \in Block, Repeats(b)
  PROVE  /\ bti # NoEntry /\ Parent[b] # bti.hash /\ b # Genesis
         /\ Parent[b] \in Chain[b] /\ Depth[Parent[b]] >= 1
         /\ main[Parent[b]] = Depth[Parent[b]] /\ Stored(Parent[b]) /\ Stored(b)
<1>0. IInv BY DEF InsightInv
<1>1. bti # NoEntry /\ bti.hash \in Block /\ b \in Chain[bti.hash]
  BY <1>0, BestFacts DEF Repeats
<1>2. b # Genesis BY KeyFacts DEF Repeats
<1>3. /\ Parent[b] \in Block /\ Depth[b] = Depth[Parent[b]] + 1 /\ Depth[Parent[b]] \in Nat
      /\ Depth[b] \in Nat /\ Depth[bti.hash] \in Nat
  BY <1>1, <1>2, KeyFacts
<1>4. Depth[b] <= Depth[bti.hash] BY <1>1, <1>3, ChainOrder
<1>5. Parent[b] \in Chain[b] /\ b \in Chain[b] BY <1>2, ChainFacts, ChainOrder
<1>6. Parent[b] \in Connected /\ b \in Connected BY <1>5 DEF Repeats
<1>7. main[Parent[b]] = Depth[Parent[b]] /\ Has(Parent[b]) /\ Has(b)
  BY <1>0, <1>3, <1>6, ConnectedFacts
<1> QED BY <1>1, <1>2, <1>3, <1>4, <1>5, <1>7 DEF Repeats, Stored

(* The calls of a job that read. *)

(* The previous block is there. *)
LEMMA PrevThere ==
  ASSUME InsightInv, LineInv, CheckPrev("historic")
  PROVE  Continue("historic", "tip", job["historic"])
<1> DEFINE b == job["historic"].blk
<1>0. IInv /\ b \in Block /\ pc["historic"] = "check"
  BY HistoricJob DEF InsightInv, CheckPrev, Waits
<1>1. CASE Comes(b)
  <2>1. Has(Parent[b]) \/ Parent[b] = Zeros
    BY <1>0, <1>1, BestFacts, KeyFacts DEF Comes, Extends
  <2> QED BY <2>1 DEF CheckPrev
<1>2. CASE Repeats(b)
  <2>1. Has(Parent[b]) BY <1>0, <1>2, RepeatFacts DEF Stored
  <2> QED BY <2>1 DEF CheckPrev
<1> QED BY <1>0, <1>1, <1>2 DEF LineInv, PhasesInv

LEMMA CheckPrevLine ==
  ASSUME InsightInv, LineInv, CheckPrev("historic"), UNCHANGED <<hist, node>>
  PROVE  LineInv'
<1> DEFINE b == job["historic"].blk
<1>0. /\ b \in Block /\ pc["historic"] = "check" /\ ~crashed /\ UNCHANGED dbVars
      /\ Continue("historic", "tip", job["historic"])
  BY HistoricJob, PrevThere DEF CheckPrev, Waits
<1>1. Comes(b) \/ Repeats(b) BY <1>0 DEF LineInv, PhasesInv
<1>2. PointsInv' BY <1>0, ReadKeeps DEF LineInv, PointsInv, dbVars
<1>3. pc'["historic"] = "tip" /\ job'["historic"] = job["historic"] => PhasesInv'
  BY <1>0, <1>1 DEF PhasesInv, Comes, Repeats, Extends, Connected, Best, Has, dbVars, Walking
<1>4. (cachedTip' # NoEntry => cachedTip' = bti') /\ bti'.height <= Depth[node]
  BY <1>0 DEF dbVars, LineInv, TurnsInv, ReachInv
<1> QED BY <1>0, <1>2, <1>3, <1>4, JobGoesOn

LEMMA ReadTipLine ==
  ASSUME InsightInv, LineInv, ReadTip("historic"), UNCHANGED <<hist, node>>
  PROVE  LineInv'
<1> DEFINE o == job["historic"]
           p == Parent[o.blk]
           placed == [o EXCEPT !.height = GetTip.height + 1]
<1>0. /\ IInv /\ o.blk \in Block /\ o \in Job /\ pc["historic"] = "tip" /\ ~crashed
      /\ GetTip = bti
  BY HistoricJob DEF InsightInv, ReadTip, Waits, LineInv, TurnsInv, GetTip
<1>1. UNCHANGED <<prev, next, main, bti>> /\ cachedTip' = bti
  BY <1>0 DEF ReadTip, CacheTip
<1>2. Connected' = Connected /\ Best' = Best BY <1>1, ReadKeeps
<1>3. Comes(o.blk) \/ Repeats(o.blk) BY <1>0 DEF LineInv, PhasesInv
<1>4. PointsInv' BY <1>0, <1>1, <1>2 DEF LineInv, PointsInv
<1>5. (cachedTip' # NoEntry => cachedTip' = bti') /\ bti'.height <= Depth[node]
  BY <1>1 DEF LineInv, ReachInv
<1>6. CASE Comes(o.blk)
  <2>1. bti = NoEntry \/ bti.hash = p BY <1>6 DEF Comes, Extends
  <2>2. Connected = Line(p)
    <3>1. CASE bti = NoEntry
      BY <1>0, <1>6, <3>1, BestFacts, KeyFacts DEF Comes, Extends, Line
    <3>2. CASE bti # NoEntry
      BY <1>0, <1>6, <2>1, <3>2, BestFacts DEF Comes, Line
    <3> QED BY <3>1, <3>2
  <2>3. StartAdd("historic", placed) BY <1>0, <2>1 DEF ReadTip
  <2>4. placed.blk = o.blk BY <1>0 DEF Job
  <2>5. pc'["historic"] = "addTxs" /\ job'["historic"] = placed => PhasesInv'
    BY <1>2, <2>2, <2>4 DEF PhasesInv, Walking
  <2> HIDE DEF placed
  <2> QED BY <1>0, <1>4, <1>5, <2>3, <2>4, <2>5, JobGoesOn
<1>7. CASE Repeats(o.blk)
  <2>1. Continue("historic", "next", o) BY <1>0, <1>7, RepeatFacts DEF ReadTip
  <2>2. pc'["historic"] = "next" /\ job'["historic"] = o => PhasesInv'
    BY <1>2, <1>7 DEF PhasesInv, Walking, Repeats
  <2> QED BY <1>0, <1>4, <1>5, <2>1, <2>2, JobGoesOn
<1> QED BY <1>3, <1>6, <1>7

LEMMA ReadNextLine ==
  ASSUME InsightInv, LineInv, ReadNext("historic"), UNCHANGED <<hist, node>>
  PROVE  LineInv'
<1> DEFINE o == job["historic"]
           j == [o EXCEPT !.oldNext = GetNext(Parent[o.blk])]
<1>0. /\ IInv /\ o.blk \in Block /\ o \in Job /\ pc["historic"] = "next" /\ ~crashed
      /\ UNCHANGED dbVars
  BY HistoricJob DEF InsightInv, ReadNext, Waits
<1>1. Repeats(o.blk) BY <1>0 DEF LineInv, PhasesInv
<1>2. next[Parent[o.blk]] = o.blk
  BY <1>0, <1>1, ChainFacts DEF LineInv, PointsInv, Repeats
<1>3. j.blk = o.blk /\ j.oldNext = o.blk BY <1>0, <1>2 DEF Job, GetNext
<1>4. Continue("historic", "reorg", j) BY <1>0 DEF ReadNext, NewPrev
<1> HIDE DEF j
<1>5. Connected' = Connected /\ Best' = Best BY <1>0, ReadKeeps DEF dbVars
<1>6. PointsInv' BY <1>0, <1>5 DEF LineInv, PointsInv, dbVars
<1>7. pc'["historic"] = "reorg" /\ job'["historic"] = j => PhasesInv'
  BY <1>1, <1>3, <1>5 DEF PhasesInv, Walking, Repeats
<1>8. (cachedTip' # NoEntry => cachedTip' = bti') /\ bti'.height <= Depth[node]
  BY <1>0 DEF dbVars, LineInv, TurnsInv, ReachInv
<1> QED BY <1>0, <1>3, <1>4, <1>6, <1>7, <1>8, JobGoesOn

LEMMA ReorgHeightLine ==
  ASSUME InsightInv, LineInv, ReorgHeight("historic"), UNCHANGED <<hist, node>>
  PROVE  LineInv'
<1> DEFINE o == job["historic"]
           h == GetHeight(Parent[o.blk])
           j == [o EXCEPT !.height = h + 1, !.from = o.oldNext]
<1>0. /\ IInv /\ o.blk \in Block /\ o \in Job /\ pc["historic"] = "reorg" /\ ~crashed
      /\ UNCHANGED dbVars
  BY HistoricJob DEF InsightInv, ReorgHeight, Waits
<1>1. Repeats(o.blk) /\ o.oldNext = o.blk BY <1>0 DEF LineInv, PhasesInv
<1>2. h >= 1 /\ h \in Nat
  <2>1. h = Depth[Parent[o.blk]] /\ Depth[Parent[o.blk]] >= 1 /\ Parent[o.blk] \in Block
    BY <1>0, <1>1, RepeatFacts DEF GetHeight, Stored
  <2> QED BY <2>1, KeyFacts
<1>3. j.blk = o.blk /\ j.from = o.blk BY <1>0, <1>1 DEF Job
<1>4. o.oldNext # NoHash BY <1>0, <1>1, KeyFacts
<1>5. ~(h = 0) /\ ~(h < 0) /\ h > 0 BY <1>2
<1>6. Continue("historic", "orphan", j) BY <1>4, <1>5 DEF ReorgHeight
<1> HIDE DEF j
<1>7. Connected' = Connected /\ Best' = Best BY <1>0, ReadKeeps DEF dbVars
<1>8. PointsInv' BY <1>0, <1>7 DEF LineInv, PointsInv, dbVars
<1>9. pc'["historic"] = "orphan" /\ job'["historic"] = j => PhasesInv'
  BY <1>0, <1>1, <1>3, <1>7, ChainFacts DEF PhasesInv, Walking, Repeats
<1>10. (cachedTip' # NoEntry => cachedTip' = bti') /\ bti'.height <= Depth[node]
  BY <1>0 DEF dbVars, LineInv, TurnsInv, ReachInv
<1> QED BY <1>0, <1>3, <1>6, <1>8, <1>9, <1>10, JobGoesOn

LEMMA AddTxsLine ==
  ASSUME InsightInv, LineInv, AddTxs("historic"), UNCHANGED <<hist, node>>
  PROVE  LineInv'
<1> DEFINE o == job["historic"]
<1>0. /\ pc["historic"] = "addTxs" /\ ~crashed /\ UNCHANGED dbVars
      /\ Continue("historic", "add", o)
  BY DEF AddTxs, Waits
<1>1. Connected' = Connected /\ Best' = Best BY <1>0, ReadKeeps DEF dbVars
<1>2. PointsInv' BY <1>0, <1>1 DEF LineInv, PointsInv, dbVars
<1>3. pc'["historic"] = "add" /\ job'["historic"] = o => PhasesInv'
  BY <1>0, <1>1 DEF LineInv, PhasesInv, Walking
<1>4. (cachedTip' # NoEntry => cachedTip' = bti') /\ bti'.height <= Depth[node]
  BY <1>0 DEF dbVars, LineInv, TurnsInv, ReachInv
<1> QED BY <1>0, <1>2, <1>3, <1>4, JobGoesOn

(* The calls of a job that write. *)

(* A block goes off the main chain. *)
LEMMA DemotedLine ==
  ASSUME InsightInv, NEW h \in Block, SetBlockNotMain(h)
  PROVE  /\ Connected' = Connected \ {h} /\ Best' = Best
         /\ UNCHANGED <<prev, next, bti, cachedTip>>
<1>1. /\ main' = [main EXCEPT ![h] = -1] /\ UNCHANGED <<prev, next, bti, cachedTip>>
  BY DEF SetBlockNotMain, ChangeBlockHeight
<1>2. main \in [Key -> Int] /\ Block \subseteq Key
  BY KeyFacts DEF InsightInv, IInv, TypeOK, DbTypeOK
<1>3. \A k \in Block : main'[k] = IF k = h THEN -1 ELSE main[k] BY <1>1, <1>2
<1>4. Connected' = Connected \ {h} BY <1>1, <1>2, <1>3 DEF Connected, Has
<1> QED BY <1>1, <1>4 DEF Best

LEMMA OrphanLine ==
  ASSUME InsightInv, LineInv, Orphan("historic"), UNCHANGED <<hist, node>>
  PROVE  LineInv'
<1> DEFINE o == job["historic"]
           p == Parent[o.blk]
<1>0. /\ IInv /\ o.blk \in Block /\ pc["historic"] = "orphan" /\ ~crashed
      /\ Continue("historic", "follow", o) /\ SetBlockNotMain(o.from)
  BY HistoricJob DEF InsightInv, Orphan, Waits
<1>1. o.from \in Block
  BY <1>0, HistoricAssumption DEF IInv, JobInv, PhaseInv, Stored
<1>2. o.blk \in Chain[o.from]
      /\ Connected = IF o.from = o.blk THEN Chain[o.blk] ELSE Line(p)
  BY <1>0 DEF LineInv, PhasesInv
<1>3. /\ Connected' = Connected \ {o.from} /\ Best' = Best
      /\ UNCHANGED <<prev, next, bti, cachedTip>>
  BY <1>0, <1>1, DemotedLine
<1>4. o.blk \notin Line(p) /\ Chain[o.blk] = Line(p) \cup {o.blk} BY HistoricJob
<1>5. Connected' = Line(p)
  <2>1. CASE o.from = o.blk BY <1>2, <1>3, <1>4, <2>1
  <2>2. CASE o.from # o.blk
    <3>1. o.from \notin Line(p)
      <4> SUFFICES ASSUME o.from \in Line(p) PROVE FALSE OBVIOUS
      <4>1. p \in Block /\ o.from \in Chain[p] BY DEF Line
      <4>2. o.blk \in Chain[p] BY <1>2, <4>1, ChainOrder
      <4> QED BY <1>4, <4>1, <4>2 DEF Line
    <3> QED BY <1>2, <1>3, <2>2, <3>1
  <2> QED BY <2>1, <2>2
<1>6. PointsInv' BY <1>0, <1>3 DEF LineInv, PointsInv
<1>7. pc'["historic"] = "follow" /\ job'["historic"] = o => PhasesInv'
  BY <1>2, <1>5 DEF PhasesInv, Walking
<1>8. (cachedTip' # NoEntry => cachedTip' = bti') /\ bti'.height <= Depth[node]
  BY <1>3 DEF LineInv, TurnsInv, ReachInv
<1> QED BY <1>0, <1>6, <1>7, <1>8, JobGoesOn

LEMMA FollowLine ==
  ASSUME InsightInv, LineInv, Follow("historic"), UNCHANGED <<hist, node>>
  PROVE  LineInv'
<1> DEFINE o == job["historic"]
           p == Parent[o.blk]
           n == GetNext(o.from)
           j == [o EXCEPT !.from = n]
<1>0. /\ IInv /\ o.blk \in Block /\ o \in Job /\ pc["historic"] = "follow" /\ ~crashed
      /\ UNCHANGED dbVars
  BY HistoricJob DEF InsightInv, Follow, Waits
<1>1. o.from \in Block /\ o.from \in Key
  BY <1>0, HistoricAssumption, KeyFacts DEF IInv, JobInv, PhaseInv, Stored
<1>2. o.blk \in Chain[o.from] /\ Connected = Line(p) BY <1>0 DEF LineInv, PhasesInv
<1>3. Connected' = Connected /\ Best' = Best BY <1>0, ReadKeeps DEF dbVars
<1>4. PointsInv' BY <1>0, <1>3 DEF LineInv, PointsInv, dbVars
<1>5. (cachedTip' # NoEntry => cachedTip' = bti') /\ bti'.height <= Depth[node]
  BY <1>0 DEF dbVars, LineInv, TurnsInv, ReachInv
<1>6. CASE n = NoHash
  <2>1. StartAdd("historic", o) BY <1>6 DEF Follow
  <2>2. pc'["historic"] = "addTxs" /\ job'["historic"] = o => PhasesInv'
    BY <1>2, <1>3 DEF PhasesInv, Walking
  <2> QED BY <1>0, <1>4, <1>5, <2>1, <2>2, JobGoesOn
<1>7. CASE n # NoHash
  <2>1. Continue("historic", "orphan", j) BY <1>7 DEF Follow
  <2>2. n \in Block
    BY <1>0, <1>1, <1>7 DEF IInv, DbInv, LinkInv, Follows, Stored, GetNext
  <2>3. Parent[n] = o.from
    BY <1>1, <1>7 DEF LineInv, PointsInv, GetNext, Hash
  <2>4. n # Genesis BY <1>1, <2>2, <2>3, KeyFacts
  <2>5. o.blk \in Chain[n] BY <1>2, <2>2, <2>3, <2>4, ChainEquation
  <2>6. o.blk # n
    <3> SUFFICES ASSUME o.blk = n PROVE FALSE OBVIOUS
    <3>1. o.blk \in Line(p) BY <1>1, <1>2, <2>3 DEF Line
    <3> QED BY <3>1, HistoricJob
  <2>7. j.blk = o.blk /\ j.from = n BY <1>0 DEF Job
  <2> HIDE DEF j, n
  <2>8. pc'["historic"] = "orphan" /\ job'["historic"] = j => PhasesInv'
    BY <1>2, <1>3, <2>5, <2>6, <2>7 DEF PhasesInv, Walking
  <2> QED BY <1>0, <1>4, <1>5, <2>1, <2>7, <2>8, JobGoesOn
<1> QED BY <1>6, <1>7

LEMMA AddBlockLine ==
  ASSUME InsightInv, LineInv, AddBlock("historic"), UNCHANGED <<hist, node>>
  PROVE  LineInv'
<1> DEFINE o == job["historic"]
           p == Parent[o.blk]
<1>0. /\ IInv /\ o.blk \in Block /\ pc["historic"] = "add" /\ ~crashed
      /\ Add(o.blk, o.height)
  BY HistoricJob DEF InsightInv, AddBlock, Waits
<1>1. o.allow /\ o.height = Depth[o.blk]
  BY <1>0, HistoricAssumption DEF IInv, JobInv, CallsInv, CallInv, PhaseInv, Placed
<1>2. Continue("historic", "setTip", o) BY <1>1 DEF AddBlock
<1>3. Connected = Line(p) BY <1>0 DEF LineInv, PhasesInv
<1>4. /\ prev' = [prev EXCEPT ![o.blk] = p] /\ main' = [main EXCEPT ![o.blk] = Depth[o.blk]]
      /\ UNCHANGED <<next, bti, cachedTip>>
  BY <1>0, <1>1 DEF Add
<1>5. /\ prev \in [Key -> Key] /\ main \in [Key -> Int] /\ Block \subseteq Key
      /\ p # NoHash /\ Depth[o.blk] \in Nat
  BY <1>0, KeyFacts, HistoricJob, BlockTreeAssumption DEF IInv, TypeOK, DbTypeOK
<1>6. Connected' = Connected \cup {o.blk}
  <2>1. \A k \in Block :
          /\ prev'[k] = IF k = o.blk THEN p ELSE prev[k]
          /\ main'[k] = IF k = o.blk THEN Depth[o.blk] ELSE main[k]
    BY <1>4, <1>5
  <2>2. \A k \in Block : k \in Connected' <=> prev'[k] # NoHash /\ main'[k] >= 0
    BY DEF Connected, Has
  <2>3. \A k \in Block : k \in Connected <=> prev[k] # NoHash /\ main[k] >= 0
    BY DEF Connected, Has
  <2>4. Connected \subseteq Block /\ Connected' \subseteq Block BY DEF Connected
  <2>5. \A k \in Block : k \in Connected' <=> k \in Connected \/ k = o.blk
    BY <1>5, <2>1, <2>2, <2>3
  <2> QED BY <1>0, <2>4, <2>5
<1>7. Connected' = Chain[o.blk] BY <1>3, <1>6, HistoricJob
<1>8. pc'["historic"] = "setTip" /\ job'["historic"] = o
  BY <1>2, HistoricPhase, HistoricAssumption DEF Continue, InsightInv, IInv, TypeOK
<1>9. PointsInv' BY <1>0, <1>4, <1>6, <1>8 DEF LineInv, PointsInv
<1>10. PhasesInv' BY <1>7, <1>8 DEF PhasesInv, Walking
<1>11. (cachedTip' # NoEntry => cachedTip' = bti') /\ bti'.height <= Depth[node]
  BY <1>4 DEF LineInv, TurnsInv, ReachInv
<1> QED BY <1>0, <1>2, <1>9, <1>10, <1>11, JobGoesOn

LEMMA MoveTipLine ==
  ASSUME InsightInv, LineInv, MoveTip("historic"), UNCHANGED <<hist, node>>
  PROVE  LineInv'
<1> DEFINE o == job["historic"]
<1>0. /\ IInv /\ o.blk \in Block /\ pc["historic"] = "setTip" /\ ~crashed
      /\ SetTip(o.blk, o.height) /\ Continue("historic", "setNext", o)
  BY HistoricJob DEF InsightInv, MoveTip, Waits
<1>1. o.height = Depth[o.blk]
  BY <1>0, HistoricAssumption DEF IInv, JobInv, PhaseInv, Placed
<1>2. /\ UNCHANGED <<prev, next, main>> /\ cachedTip' = bti'
      /\ bti'.hash = o.blk /\ bti'.height = Depth[o.blk]
  BY <1>0, <1>1 DEF SetTip, At
<1>3. Connected' = Connected BY <1>2 DEF Connected, Has
<1>4. pc'["historic"] = "setNext" /\ job'["historic"] = o
  BY <1>0, HistoricPhase, HistoricAssumption DEF Continue, InsightInv, IInv, TypeOK
<1>5. PointsInv' BY <1>0, <1>2, <1>3, <1>4 DEF LineInv, PointsInv
<1>6. PhasesInv' BY <1>0, <1>2, <1>3, <1>4 DEF LineInv, PhasesInv, Walking
<1>7. bti'.height <= Depth[node] BY <1>0, <1>2 DEF LineInv, ReachInv
<1> QED BY <1>0, <1>2, <1>5, <1>6, <1>7, JobGoesOn

LEMMA LinkPrevLine ==
  ASSUME InsightInv, LineInv, LinkPrev("historic"),
         hist' = [hist EXCEPT !.step = "fetch"], UNCHANGED node
  PROVE  LineInv'
<1> DEFINE b == job["historic"].blk
<1>0. /\ IInv /\ b \in Block /\ pc["historic"] = "setNext" /\ ~crashed
      /\ SetNext(Parent[b], b) /\ Answer("historic", "ok") /\ GoTo("historic", "idle")
  BY HistoricJob DEF InsightInv, LinkPrev, Waits, NewPrev, Answer
<1>1. hist.step = "store" /\ Connected = Chain[b] /\ bti.hash = b /\ bti # NoEntry
  BY <1>0, HistoricAssumption
  DEF LineInv, TurnsInv, PhasesInv, InsightInv, LastCallInv
<1>2. next' = [next EXCEPT ![Parent[b]] = b] /\ UNCHANGED <<prev, main, btx, bti, cachedTip>>
  BY <1>0 DEF SetNext
<1>3. Connected' = Chain[b] /\ Best' = Chain[b]
  BY <1>1, <1>2 DEF Connected, Has, Best
<1>4. /\ hist'.step = "fetch" /\ hist'.status = hist.status /\ hist'.cursor = hist.cursor
      /\ hist.cursor \in Block \cup {NoHash}
  BY DEF InsightInv, TypesInv, HistType, Hist, Spot
<1>5. /\ pc'["historic"] = "idle" /\ \A s \in Syncer : s # "historic" => pc'[s] = pc[s]
      /\ UNCHANGED <<waiting, crashed>>
  BY <1>0, HistoricPhase DEF Answer, IInv
<1>6. next \in [Key -> Key] /\ Parent[b] \in Hash /\ Hash \subseteq Key
  BY HistoricJob DEF InsightInv, IInv, TypeOK, DbTypeOK, Key
<1>7. TurnsInv' BY <1>0, <1>1, <1>2, <1>4, <1>5 DEF LineInv, TurnsInv
<1>8. ReachInv' BY <1>1, <1>2, <1>4, <1>5 DEF LineInv, ReachInv
<1>9. PointsInv'
  <2>1. ASSUME NEW k \in Hash, next'[k] # NoHash PROVE Parent[next'[k]] = k
    BY <1>2, <1>6, <2>1 DEF LineInv, PointsInv
  <2>2. ASSUME NEW x \in Chain[b] PROVE next'[Parent[x]] = x
    <3>1. CASE x = b BY <1>2, <1>6, <3>1
    <3>2. CASE x # b
      <4>1. x \in Block /\ Parent[x] \in Key BY <1>0, ChainFacts, KeyFacts
      <4>2. Parent[x] # Parent[b]
        BY <1>0, <3>2, <4>1, ChainLine, ChainFacts, BlockTreeAssumption
      <4>3. next[Parent[x]] = x BY <1>1, <3>2 DEF LineInv, PointsInv
      <4> QED BY <1>2, <1>6, <4>1, <4>2, <4>3
    <3> QED BY <3>1, <3>2
  <2> QED BY <1>3, <2>1, <2>2 DEF PointsInv
<1>10. WayBackInv' BY <1>0, <1>4, <1>5 DEF WayBackInv, Searching, Resuming
<1>11. LoopInv'
  <2>1. hist'.cursor # NoHash => Comes(hist.cursor)'
    BY <1>1, <1>2, <1>3, <1>4 DEF LineInv, LoopInv, Comes, Extends
  <2> QED BY <1>3, <1>4, <2>1 DEF LoopInv
<1>12. PhasesInv' BY <1>5 DEF PhasesInv, Walking
<1> QED BY <1>7, <1>8, <1>9, <1>10, <1>11, <1>12 DEF LineInv

(* storeTipBlock works for the loop. *)
LEMMA StoreLine ==
  ASSUME InsightInv, LineInv, Store, UNCHANGED node
  PROVE  LineInv'
<1> DEFINE phase == pc["historic"]
<1>0. waiting["historic"] = {} /\ phase \notin Walking \cup {"timer"}
  BY HistoricAssumption DEF LineInv, TurnsInv, PhasesInv
<1>1. Step("historic") BY <1>0 DEF Store, Polls
<1>2. CASE LinkPrev("historic")
  <2>1. pc'["historic"] = "idle" /\ reply'["historic"] = "ok" /\ ~crashed'
    BY <1>2, HistoricAssumption
    DEF LinkPrev, Answer, GoTo, Waits, InsightInv, IInv, TypeOK
  <2>2. hist' = [hist EXCEPT !.step = "fetch"] BY <2>1 DEF Store
  <2> QED BY <1>2, <2>2, LinkPrevLine
<1>3. CASE ~LinkPrev("historic")
  <2>1. \/ CheckPrev("historic") \/ ReadTip("historic") \/ ReadNext("historic")
        \/ ReorgHeight("historic") \/ Orphan("historic") \/ Follow("historic")
        \/ AddTxs("historic") \/ AddBlock("historic") \/ MoveTip("historic")
    BY <1>0, <1>1, <1>3
    DEF Step, RetryReorg, WalkBack, WalkTest, Connect, ReadFork, Relink, Waits, Walking
  <2>2. UNCHANGED hist => LineInv'
    BY <2>1, CheckPrevLine, ReadTipLine, ReadNextLine, ReorgHeightLine, OrphanLine, FollowLine,
       AddTxsLine, AddBlockLine, MoveTipLine
  <2>3. UNCHANGED hist
    <3>1. /\ pc \in [Syncer -> Phases] /\ "historic" \in Syncer
          /\ CheckPrev("historic") => Continue("historic", "tip", job["historic"])
      BY PrevThere, HistoricAssumption DEF InsightInv, IInv, TypeOK
    <3>2. pc'["historic"] # "idle" \/ crashed'
      BY <2>1, <3>1
      DEF ReadTip, ReadNext, ReorgHeight, Orphan, Follow, AddTxs, AddBlock, MoveTip, Continue,
         StartAdd, GoTo, ProcessEnds
    <3> QED BY <3>2 DEF Store
  <2> QED BY <2>2, <2>3
<1> QED BY <1>2, <1>3

(* The search. *)

(* bitcoind is at least as high as the tip, and so above the shared blocks. *)
LEMMA TipFacts ==
  ASSUME InsightInv, bti # NoEntry
  PROVE  /\ bti.hash \in Block /\ bti.height = Depth[bti.hash] /\ bti.height \in Nat
         /\ Has(bti.hash) /\ Best = Chain[bti.hash]
         /\ \A b \in Best : b \in Block /\ Depth[b] \in Nat /\ Depth[b] <= bti.height
<1>0. IInv BY DEF InsightInv
<1>1. bti.hash \in Block /\ Has(bti.hash) /\ Best = Chain[bti.hash] BY <1>0, BestFacts
<1>2. bti.height = Depth[bti.hash] BY <1>0 DEF IInv, DbInv, TipInv, TruthfulTip
<1>3. Depth[bti.hash] \in Nat BY <1>1, KeyFacts
<1>4. ASSUME NEW b \in Best PROVE b \in Block /\ Depth[b] \in Nat /\ Depth[b] <= bti.height
  <2>1. b \in Block /\ Depth[b] \in Nat BY <1>1, <1>4, ChainFacts, KeyFacts
  <2> QED BY <1>1, <1>2, <1>3, <1>4, <2>1, ChainOrder
<1> QED BY <1>1, <1>2, <1>3, <1>4

LEMMA StepIsNotBusy ==
  ASSUME LineInv, hist.step # "store"
  PROVE  \A s \in Syncer : pc[s] = "idle"
BY DEF LineInv, TurnsInv

(* The loop starts with a block. *)
LEMMA StartLine ==
  ASSUME Alone, InsightInv, LineInv, ~crashed, hist.step \in {"tip", "height", "demote"},
         NEW b \in Block, StartFrom(b), UNCHANGED <<syncVars, node>>, PointsInv',
         cachedTip' # NoEntry => cachedTip' = bti', bti' = bti,
         Depth[b] <= Depth[node], (Comes(b) \/ Repeats(b))'
  PROVE  LineInv'
<1>1. hist \in Hist /\ hist.extractor = NoExtractor /\ config \in Configs
  BY AloneFacts DEF InsightInv, TypesInv, HistType
<1>2. StartRpc(b) BY <1>1 DEF StartFrom, SyncsFiles, Alone
<1>3. hist'.status = "syncing" /\ hist'.step = "fetch" /\ hist'.cursor = b
  BY <1>1, <1>2 DEF StartRpc, Hist
<1>4. UNCHANGED <<pc, job, waiting, crashed>> BY DEF syncVars
<1>5. \A s \in Syncer : pc[s] = "idle" BY StepIsNotBusy
<1>6. pc["historic"] = "idle" BY <1>5, HistoricAssumption
<1>7. TurnsInv' BY <1>3, <1>4, <1>5, <1>6 DEF LineInv, TurnsInv
<1>8. ReachInv' BY <1>3, <1>4, <1>6 DEF LineInv, ReachInv
<1>9. WayBackInv' BY <1>3, <1>4 DEF WayBackInv, Searching, Resuming
<1>10. b # NoHash BY KeyFacts
<1>11. LoopInv' BY <1>3, <1>10 DEF LoopInv
<1>12. PhasesInv' BY <1>4, <1>6 DEF PhasesInv, Walking
<1> QED BY <1>7, <1>8, <1>9, <1>11, <1>12 DEF LineInv

(* The search goes on by a call, or ends the process. *)
LEMMA SearchGoesOn ==
  ASSUME InsightInv, LineInv, hist.step # "store", UNCHANGED node,
         (UNCHANGED syncVars \/ ProcessEnds), PointsInv', bti' = bti,
         cachedTip' # NoEntry => cachedTip' = bti', WayBackInv',
         hist'.status = "starting", hist'.step \in {"count", "tip", "info", "height", "demote"}
  PROVE  LineInv'
<1>1. \A s \in Syncer : pc[s] = "idle" BY StepIsNotBusy
<1>2. /\ \A s \in Syncer : pc'[s] = "idle" /\ waiting'[s] = {}
      /\ pc'["historic"] = "idle"
  BY <1>1, HistoricAssumption DEF syncVars, ProcessEnds, LineInv, TurnsInv
<1>3. TurnsInv' BY <1>2 DEF TurnsInv
<1>4. ReachInv' BY <1>2 DEF LineInv, ReachInv
<1>5. LoopInv' BY DEF LoopInv
<1>6. PhasesInv' BY <1>2 DEF PhasesInv, Walking
<1> QED BY <1>3, <1>4, <1>5, <1>6 DEF LineInv

(* A judgement of a block at its height: the loop starts with it, or the   *)
(* search goes below it, or the way back was too long.                     *)
LEMMA JudgeLine ==
  ASSUME Alone, InsightInv, LineInv, ~crashed, hist.step \in {"height", "demote"},
         UNCHANGED <<node, bti, cachedTip>>, PointsInv',
         bti # NoEntry, hist.height = bti.height, hist.tip \in Best, Depth[hist.tip] >= 2,
         Depth[hist.tip] = 2 => hist.confirmed,
         Connected' = Chain[hist.tip],
         hist.tip = bti.hash \/ main'[bti.hash] = -1,
         Judge(Depth[hist.tip])
  PROVE  LineInv'
<1> DEFINE own == Depth[hist.tip]
           gap == IF own = Unread THEN 0
                  ELSE IF hist.height > own THEN hist.height - own ELSE own - hist.height
<1>1. /\ hist.tip \in Block /\ own \in Nat /\ own <= bti.height /\ bti.height \in Nat
      /\ hist.tip = bti.hash => own = bti.height
  BY TipFacts
<1>2. own # Unread /\ hist.tip # NoHash /\ hist.tip # Genesis
  BY <1>1, KeyFacts DEF Unread
<1>3. (cachedTip' # NoEntry => cachedTip' = bti') /\ hist.step # "store" /\ Best' = Best
      /\ hist.status = "starting"
  BY DEF LineInv, TurnsInv, Best
<1>4. RollbackLimit \in Nat BY HistoricAssumption
<1>5. CASE hist.height - own > RollbackLimit /\ ProcessEnds /\ UNCHANGED hist
  <2>1. hist.tip # bti.hash BY <1>1, <1>4, <1>5
  <2>2. bti.height >= RollbackLimit /\ bti.height >= 2 BY <1>1, <1>4, <1>5
  <2>3. Lost' BY <2>1, <2>2 DEF Lost
  <2>4. WayBackInv' BY <1>5, <2>2, <2>3 DEF WayBackInv, ProcessEnds
  <2> QED BY <1>3, <1>5, <2>4, SearchGoesOn
<1>6. CASE StartFrom(hist.tip) /\ UNCHANGED syncVars
  <2>1. \A x : x = hist.tip => Repeats(x)' BY <1>3 DEF Repeats
  <2>2. PICK b \in Block : b = hist.tip BY <1>1
  <2>3. own <= Depth[node]
    <3>1. bti.height <= Depth[node] /\ Depth[node] \in Nat
      BY KeyFacts DEF LineInv, ReachInv, InsightInv, TypesInv, InsightTypeOK
    <3> QED BY <1>1, <3>1
  <2>4. StartFrom(b) /\ Depth[b] <= Depth[node] /\ Repeats(b)' BY <1>6, <2>1, <2>2, <2>3
  <2>5. hist.step \in {"tip", "height", "demote"} /\ bti' = bti OBVIOUS
  <2> QED BY <1>3, <1>6, <2>4, <2>5, StartLine
<1>7. CASE /\ ~(hist.chain = own \/ hist.confirmed) /\ UNCHANGED syncVars
           /\ hist' = [hist EXCEPT !.step = "info", !.oldtip = hist.tip,
                         !.tip = Parent[hist.tip]]
  <2>1. /\ hist'.step = "info" /\ hist'.oldtip = hist.tip /\ hist'.tip = Parent[hist.tip]
        /\ hist'.height = hist.height /\ hist'.status = hist.status
    BY <1>7 DEF InsightInv, TypesInv, HistType, Hist
  <2>2. /\ Parent[hist.tip] \in Block /\ own = Depth[Parent[hist.tip]] + 1
        /\ Depth[Parent[hist.tip]] \in Nat
    BY <1>1, <1>2, KeyFacts
  <2>3. Depth[Parent[hist.tip]] >= 2 BY <1>7, <2>2
  <2>4. crashed' = crashed BY <1>7 DEF syncVars
  <2>5. WayBackInv'
    BY <1>2, <1>3, <2>1, <2>2, <2>3, <2>4 DEF WayBackInv, Searching, Resuming
  <2> QED BY <1>3, <1>7, <2>1, <2>5, SearchGoesOn
<1>8. gap = hist.height - own BY <1>1, <1>2
<1>9. Judge(own) OBVIOUS
<1>10. \/ gap > RollbackLimit /\ ProcessEnds /\ UNCHANGED hist
       \/ StartFrom(hist.tip) /\ UNCHANGED syncVars
       \/ /\ ~(hist.chain = own \/ hist.confirmed) /\ UNCHANGED syncVars
          /\ hist' = [hist EXCEPT !.step = "info", !.oldtip = hist.tip,
                        !.tip = Parent[hist.tip]]
  <2> HIDE DEF own
  <2> QED BY <1>2, <1>9 DEF Judge, Alone
<1> QED BY <1>5, <1>6, <1>7, <1>8, <1>10

LEMMA CountLine ==
  ASSUME InsightInv, LineInv, CountBlocks, UNCHANGED node
  PROVE  LineInv'
<1>1. /\ hist.step = "count" /\ ~crashed /\ UNCHANGED <<dbVars, syncVars>>
      /\ hist'.step = "tip" /\ hist'.status = hist.status
  BY DEF CountBlocks, Ready, InsightInv, TypesInv, HistType, Hist
<1>2. Connected' = Connected /\ Best' = Best BY <1>1, ReadKeeps DEF dbVars
<1>3. PointsInv' BY <1>1, <1>2 DEF LineInv, PointsInv, dbVars, syncVars
<1>4. WayBackInv' BY <1>1, <1>2 DEF LineInv, WayBackInv, Searching, Resuming, Lost, dbVars, syncVars
<1>5. (cachedTip' # NoEntry => cachedTip' = bti') /\ bti' = bti /\ hist.status = "starting"
  BY <1>1 DEF dbVars, LineInv, TurnsInv
<1> QED BY <1>1, <1>3, <1>4, <1>5, SearchGoesOn

LEMMA ReadStartLine ==
  ASSUME Alone, InsightInv, LineInv, ReadStart, UNCHANGED node
  PROVE  LineInv'
<1>1. /\ hist.step = "tip" /\ ~crashed /\ UNCHANGED syncVars /\ GetTip = bti
      /\ hist.status = "starting"
  BY DEF ReadStart, Ready, LineInv, TurnsInv, GetTip
<1>2. UNCHANGED <<prev, next, main, bti>> /\ cachedTip' = bti BY <1>1 DEF ReadStart, CacheTip
<1>3. Connected' = Connected /\ Best' = Best BY <1>2, ReadKeeps
<1>4. PointsInv' BY <1>1, <1>2, <1>3 DEF LineInv, PointsInv, syncVars
<1>5. (bti = NoEntry \/ bti.height >= 2) /\ (Connected = Best \/ Lost)
  BY <1>1 DEF LineInv, WayBackInv
<1>6. CASE bti = NoEntry /\ StartFrom(Genesis)
  <2>1. Connected = Best BY <1>5, <1>6 DEF Lost
  <2>2. \A x : x = Genesis => Comes(x)' BY <1>2, <1>3, <1>6, <2>1 DEF Comes, Extends
  <2>3. Genesis \in Block /\ Depth[Genesis] <= Depth[node]
    <3>1. Depth[node] \in Nat /\ Genesis \in Block /\ Depth[Genesis] = 0
      BY KeyFacts DEF InsightInv, TypesInv, InsightTypeOK
    <3> QED BY <3>1
  <2>4. PICK b \in Block : b = Genesis BY <2>3
  <2>5. StartFrom(b) /\ Depth[b] <= Depth[node] /\ Comes(b)' BY <1>6, <2>2, <2>3, <2>4
  <2>6. cachedTip' # NoEntry => cachedTip' = bti' BY <1>2
  <2>7. hist.step \in {"tip", "height", "demote"} /\ bti' = bti BY <1>1, <1>2
  <2> QED BY <1>1, <1>4, <2>5, <2>6, <2>7, StartLine
<1>7. CASE /\ bti # NoEntry
           /\ hist' = [hist EXCEPT !.step = "info", !.tip = bti.hash, !.oldtip = NoHash,
                                   !.height = bti.height]
  <2>1. /\ hist'.step = "info" /\ hist'.oldtip = NoHash /\ hist'.tip = bti.hash
        /\ hist'.height = bti.height /\ hist'.status = hist.status
    BY <1>7 DEF InsightInv, TypesInv, HistType, Hist
  <2>2. bti.hash \in Block /\ Depth[bti.hash] >= 2 BY <1>5, <1>7, TipFacts
  <2>3. crashed' = crashed BY <1>1 DEF syncVars
  <2>4. WayBackInv'
    BY <1>1, <1>2, <1>3, <1>5, <1>7, <2>1, <2>2, <2>3
    DEF WayBackInv, Searching, Resuming, Lost
  <2> QED BY <1>1, <1>2, <1>4, <2>1, <2>4, SearchGoesOn
<1> QED BY <1>1, <1>6, <1>7 DEF ReadStart

LEMMA ReadInfoLine ==
  ASSUME Alone, InsightInv, LineInv, ReadInfo \/ ReadInfoFails, UNCHANGED node
  PROVE  LineInv'
<1>1. /\ hist.step = "info" /\ ~crashed /\ hist.status = "starting"
      /\ hist.tip \in Block /\ Depth[hist.tip] >= 2 /\ bti # NoEntry
  BY DEF ReadInfo, ReadInfoFails, Ready, LineInv, TurnsInv, WayBackInv, Searching
<1>2. ReadInfo BY <1>1, KeyFacts DEF ReadInfoFails, Alone
<1>3. /\ UNCHANGED <<dbVars, syncVars>>
      /\ hist' = [hist EXCEPT !.step = "height", !.confirmed = hist.tip \in Active]
  BY <1>2 DEF ReadInfo
<1>4. /\ hist'.step = "height" /\ hist'.confirmed = (hist.tip \in Active)
      /\ hist'.tip = hist.tip /\ hist'.oldtip = hist.oldtip
      /\ hist'.height = hist.height /\ hist'.status = hist.status
  BY <1>3 DEF InsightInv, TypesInv, HistType, Hist
<1>5. Depth[hist.tip] = 2 => hist.tip \in Active
  <2>1. bti.height >= 2
    <3>1. CASE hist.oldtip = NoHash
      BY <1>1, <3>1 DEF LineInv, WayBackInv, Searching, Resuming
    <3>2. CASE hist.oldtip # NoHash
      <4>1. hist.oldtip \in Best /\ hist.tip = Parent[hist.oldtip]
        BY <1>1, <3>2 DEF LineInv, WayBackInv, Searching, Resuming
      <4>2. /\ hist.oldtip \in Block /\ Depth[hist.oldtip] \in Nat
            /\ Depth[hist.oldtip] <= bti.height /\ bti.height \in Nat
        BY <1>1, <4>1, TipFacts
      <4>3. hist.oldtip # Genesis BY <1>1, <4>1, KeyFacts
      <4>4. Depth[hist.oldtip] = Depth[hist.tip] + 1 /\ Depth[hist.tip] \in Nat
        BY <1>1, <4>1, <4>2, <4>3, KeyFacts
      <4> QED BY <1>1, <4>2, <4>4
    <3> QED BY <3>1, <3>2
  <2>2. node \in Block /\ Depth[node] \in Nat /\ bti.height \in Nat
    BY <1>1, TipFacts, KeyFacts DEF InsightInv, TypesInv, InsightTypeOK
  <2>3. Depth[node] >= 2 BY <2>1, <2>2 DEF LineInv, ReachInv
  <2> QED BY <1>1, <2>2, <2>3, ReachesBase DEF Active, Alone
<1>6. Connected' = Connected /\ Best' = Best BY <1>3, ReadKeeps DEF dbVars
<1>7. PointsInv' BY <1>3, <1>6 DEF LineInv, PointsInv, dbVars, syncVars
<1>8. crashed' = crashed /\ bti' = bti /\ main' = main /\ cachedTip' = cachedTip
  BY <1>3 DEF syncVars, dbVars
<1>9. WayBackInv'
  BY <1>1, <1>4, <1>5, <1>6, <1>8 DEF LineInv, WayBackInv, Searching, Resuming, Lost
<1>10. cachedTip' # NoEntry => cachedTip' = bti' BY <1>8 DEF LineInv, TurnsInv
<1> QED BY <1>1, <1>3, <1>4, <1>7, <1>8, <1>9, <1>10, SearchGoesOn

(* The height of the block the search looks at. *)
LEMMA HeightsOnWay ==
  ASSUME InsightInv, LineInv, NEW x \in Block, Connected = Chain[x]
  PROVE  \A b \in Chain[x] : main[b] = Depth[b]
<1> TAKE b \in Chain[x]
<1>1. IInv BY DEF InsightInv
<1>2. b \in Block /\ b \in Connected BY ChainFacts
<1> QED BY <1>1, <1>2, ConnectedFacts

LEMMA ReadHeightLine ==
  ASSUME Alone, InsightInv, LineInv, ReadHeight, UNCHANGED node
  PROVE  LineInv'
<1>1. /\ hist.step = "height" /\ ~crashed /\ hist.status = "starting" /\ UNCHANGED dbVars
      /\ hist.tip \in Block /\ Depth[hist.tip] >= 2 /\ bti # NoEntry
      /\ Depth[hist.tip] = 2 => hist.confirmed
      /\ hist.height = bti.height
  BY DEF ReadHeight, Ready, LineInv, TurnsInv, WayBackInv, Searching
<1>2. Connected' = Connected /\ Best' = Best BY <1>1, ReadKeeps DEF dbVars
<1>3. UNCHANGED syncVars \/ ProcessEnds BY DEF ReadHeight, Judge
<1>4. pc["historic"] = "idle" BY <1>1, StepIsNotBusy, HistoricAssumption
<1>5. PointsInv'
  BY <1>1, <1>2, <1>4 DEF LineInv, PointsInv, dbVars
<1>6. (cachedTip' # NoEntry => cachedTip' = bti') /\ bti' = bti /\ main' = main
      /\ cachedTip' = cachedTip
  BY <1>1 DEF dbVars, LineInv, TurnsInv
<1>7. CASE hist.oldtip # NoHash
  <2>1. /\ hist.oldtip \in Best /\ Connected = Chain[hist.oldtip]
        /\ hist.tip = Parent[hist.oldtip]
    BY <1>1, <1>7 DEF LineInv, WayBackInv, Searching, Resuming
  <2>2. hist.oldtip \in Block /\ hist.oldtip # Genesis
    BY <1>1, <2>1, TipFacts, KeyFacts
  <2>3. hist.tip \in Chain[hist.oldtip] BY <2>1, <2>2, ChainFacts, ChainOrder
  <2>4. GetHeight(hist.tip) = Depth[hist.tip] BY <2>1, <2>2, <2>3, HeightsOnWay DEF GetHeight
  <2>5. /\ UNCHANGED syncVars
        /\ hist' = [hist EXCEPT !.step = "demote", !.own = GetHeight(hist.tip)]
    BY <1>7 DEF ReadHeight
  <2>6. /\ hist'.step = "demote" /\ hist'.own = Depth[hist.tip]
        /\ hist'.confirmed = hist.confirmed
        /\ hist'.tip = hist.tip /\ hist'.oldtip = hist.oldtip
        /\ hist'.height = hist.height /\ hist'.status = hist.status
    BY <2>4, <2>5 DEF InsightInv, TypesInv, HistType, Hist
  <2>7. crashed' = crashed BY <2>5 DEF syncVars
  <2>8. WayBackInv'
    BY <1>1, <1>2, <1>6, <1>7, <2>1, <2>6, <2>7 DEF WayBackInv, Searching, Resuming
  <2> QED BY <1>1, <1>5, <1>6, <2>5, <2>6, <2>8, SearchGoesOn
<1>8. CASE hist.oldtip = NoHash
  <2>1. hist.tip = bti.hash /\ bti.height >= 2 /\ (Connected = Best \/ Lost)
    BY <1>1, <1>8 DEF LineInv, WayBackInv, Searching, Resuming
  <2>2. Judge(GetHeight(hist.tip)) BY <1>8 DEF ReadHeight
  <2>3. CASE Connected = Best
    <3>1. hist.tip \in Best /\ Best = Chain[hist.tip] BY <1>1, <2>1, TipFacts, ChainFacts
    <3>2. GetHeight(hist.tip) = Depth[hist.tip]
      BY <1>1, <2>3, <3>1, HeightsOnWay DEF GetHeight
    <3>3. Judge(Depth[hist.tip]) BY <2>2, <3>2
    <3>4. Connected' = Chain[hist.tip] BY <1>2, <2>3, <3>1
    <3> QED BY <1>1, <1>5, <1>6, <2>1, <3>1, <3>3, <3>4, JudgeLine
  <2>4. CASE Lost
    <3>1. GetHeight(hist.tip) = -1 BY <2>1, <2>4 DEF Lost, GetHeight
    <3>2. bti.height \in Nat /\ RollbackLimit \in Nat /\ bti.height >= RollbackLimit
      BY <1>1, <2>4, TipFacts, HistoricAssumption DEF Lost
    <3>3. ProcessEnds /\ UNCHANGED hist
      <4>1. Judge(-1) BY <2>2, <3>1
      <4> QED BY <1>1, <3>2, <4>1 DEF Judge, Unread, Alone
    <3>4. Lost' BY <1>6, <2>4 DEF Lost
    <3>5. WayBackInv' BY <1>6, <2>1, <3>3, <3>4 DEF WayBackInv, ProcessEnds
    <3> QED BY <1>1, <1>5, <1>6, <3>3, <3>5, SearchGoesOn
  <2> QED BY <2>1, <2>3, <2>4
<1> QED BY <1>7, <1>8

LEMMA DemoteLine ==
  ASSUME Alone, InsightInv, LineInv, IInv', DemoteOldTip, UNCHANGED node
  PROVE  LineInv'
<1>1. /\ hist.step = "demote" /\ ~crashed /\ hist.status = "starting"
      /\ hist.tip \in Block /\ Depth[hist.tip] >= 2 /\ bti # NoEntry
      /\ Depth[hist.tip] = 2 => hist.confirmed
      /\ hist.height = bti.height /\ hist.oldtip # NoHash
  BY DEF DemoteOldTip, Ready, LineInv, TurnsInv, WayBackInv, Searching, Resuming
<1>2. /\ hist.oldtip \in Best /\ Connected = Chain[hist.oldtip]
      /\ hist.tip = Parent[hist.oldtip] /\ hist.own = Depth[hist.tip]
  BY <1>1 DEF LineInv, WayBackInv, Searching, Resuming
<1>3. /\ hist.oldtip \in Block /\ hist.oldtip # Genesis
      /\ hist.oldtip \in Chain[bti.hash] /\ bti.hash \in Block /\ Has(bti.hash)
      /\ bti.height = Depth[bti.hash] /\ Depth[hist.oldtip] <= bti.height
  BY <1>1, <1>2, TipFacts, KeyFacts
<1>4. SetBlockNotMain(hist.oldtip) /\ Judge(hist.own) BY DEF DemoteOldTip
<1>5. /\ Connected' = Connected \ {hist.oldtip} /\ Best' = Best
      /\ UNCHANGED <<prev, next, bti, cachedTip>>
  BY <1>3, <1>4, DemotedLine
<1>6. Depth[hist.oldtip] = Depth[hist.tip] + 1 /\ Depth[hist.tip] \in Nat
  BY <1>1, <1>2, <1>3, KeyFacts
<1>7. Connected' = Chain[hist.tip]
  <2>1. Chain[hist.oldtip] = {hist.oldtip} \cup Chain[hist.tip]
    BY <1>2, <1>3, ChainEquation
  <2>2. hist.oldtip \notin Chain[hist.tip]
    BY <1>1, <1>2, <1>3, <1>6, ChainOrder
  <2> QED BY <1>2, <1>5, <2>1, <2>2
<1>8. hist.tip \in Best BY <1>1, <1>2, <1>3, ChainOrder, TipFacts
<1>9. main'[bti.hash] = -1
  <2>1. bti.hash \notin Chain[hist.tip]
    <3> SUFFICES ASSUME bti.hash \in Chain[hist.tip] PROVE FALSE OBVIOUS
    <3>1. Depth[bti.hash] <= Depth[hist.tip] /\ Depth[bti.hash] \in Nat
      BY <1>1, <1>3, <1>6, ChainOrder, KeyFacts
    <3> QED BY <1>3, <1>6, <3>1
  <2>2. prev'[bti.hash] # NoHash BY <1>3, <1>5 DEF Has
  <2>3. HeightsTruthful' BY DEF IInv, DbInv
  <2>4. main'[bti.hash] \in {-1, Depth[bti.hash]}
    BY <1>3, <2>2, <2>3 DEF HeightsTruthful, Has
  <2>5. ~(main'[bti.hash] >= 0) BY <1>3, <1>7, <2>1, <2>2 DEF Connected, Has
  <2>6. Depth[bti.hash] \in Nat BY <1>3, KeyFacts
  <2> QED BY <2>4, <2>5, <2>6
<1>10. pc["historic"] = "idle" BY <1>1, StepIsNotBusy, HistoricAssumption
<1>11. PointsInv' BY <1>5, <1>10 DEF LineInv, PointsInv
<1>12. Judge(Depth[hist.tip]) BY <1>2, <1>4
<1> QED BY <1>1, <1>5, <1>7, <1>8, <1>9, <1>11, <1>12, JudgeLine

(* The loop fetches a block, or ends. *)
LEMMA FetchLine ==
  ASSUME InsightInv, LineInv, Fetch, UNCHANGED node
  PROVE  LineInv'
<1>1. /\ hist.step = "fetch" /\ ~crashed /\ UNCHANGED dbVars /\ pc["historic"] = "idle"
      /\ node \in Block /\ hist.cursor \in Block \cup {NoHash} /\ hist \in Hist
  BY StepIsNotBusy, HistoricAssumption
  DEF Fetch, Ready, StoreTipBlock, InsightInv, TypesInv, InsightTypeOK, HistType, Spot
<1>2. Connected' = Connected /\ Best' = Best BY <1>1, ReadKeeps DEF dbVars
<1>3. /\ UNCHANGED <<next, bti, cachedTip>> /\ (cachedTip' # NoEntry => cachedTip' = bti')
  BY <1>1 DEF dbVars, LineInv, TurnsInv
<1>4. PointsInv' BY <1>1, <1>2, <1>3 DEF LineInv, PointsInv
<1>5. CASE hist.cursor = NoHash /\ Ends("finished") /\ UNCHANGED syncVars
  <2>1. hist'.step = "none" /\ hist'.status = "finished" BY <1>1, <1>5 DEF Ends, Hist
  <2>2. UNCHANGED <<pc, job, waiting, crashed>> BY <1>5 DEF syncVars
  <2>3. TurnsInv' BY <1>1, <1>3, <2>1, <2>2 DEF LineInv, TurnsInv
  <2>4. ReachInv' BY <1>1, <1>3, <2>1, <2>2 DEF LineInv, ReachInv
  <2>5. WayBackInv' BY <1>1, <2>1, <2>2 DEF WayBackInv, Searching, Resuming
  <2>6. LoopInv' BY <1>1, <1>2, <1>5, <2>1 DEF LineInv, LoopInv
  <2>7. PhasesInv' BY <1>1, <2>2 DEF PhasesInv, Walking
  <2> QED BY <1>4, <2>3, <2>4, <2>5, <2>6, <2>7 DEF LineInv
<1>6. CASE /\ hist.cursor # NoHash
           /\ StoreTipBlock("historic", [blk |-> hist.cursor, allow |-> TRUE])
           /\ hist' = [hist EXCEPT !.step = "store", !.cursor = NextBlockHash(@)]
  <2> DEFINE call == [blk |-> hist.cursor, allow |-> TRUE]
             n == NextBlockHash(hist.cursor)
  <2>1. hist.cursor \in Block /\ call.blk = hist.cursor /\ call.allow BY <1>1, <1>6
  <2>2. n = NoHash \/ (n \in Active /\ Parent[n] = hist.cursor)
    BY <1>1, <2>1, ChainFacts DEF NextBlockHash, Active
  <2>3. n # NoHash => Depth[n] <= Depth[node]
    BY <1>1, <2>2, ChainFacts, ChainOrder, KeyFacts DEF Active
  <2> HIDE DEF call, n
  <2>4. hist'.step = "store" /\ hist'.cursor = n /\ hist'.status = hist.status
    BY <1>1, <1>6 DEF Hist, n
  <2>5. StoreTipBlock("historic", call) BY <1>6 DEF call
  <2>6. /\ pc' = [pc EXCEPT !["historic"] = pc'["historic"]]
        /\ pc'["historic"] \in {"tip", "check"}
        /\ job' = [job EXCEPT !["historic"] = NewJob(call)]
        /\ UNCHANGED <<waiting, crashed>>
    BY <1>1, <2>1, <2>5, HistoricAssumption
    DEF StoreTipBlock, storingBlock, Begin, GoTo, InsightInv, IInv, TypeOK
  <2>7. job'["historic"].blk = hist.cursor
    BY <2>1, <2>6, HistoricAssumption DEF NewJob, InsightInv, IInv, TypeOK
  <2>8. \A s \in Syncer : pc'[s] = pc[s] \/ s = "historic"
    BY <2>6 DEF InsightInv, IInv, TypeOK
  <2>9. TurnsInv' BY <1>1, <1>3, <2>4, <2>6, <2>8 DEF LineInv, TurnsInv
  <2>10. ReachInv' BY <1>1, <1>3, <1>6, <2>1, <2>3, <2>4, <2>7 DEF LineInv, ReachInv
  <2>11. WayBackInv' BY <1>1, <2>4, <2>6 DEF WayBackInv, Searching, Resuming
  <2>12. LoopInv' BY <2>2, <2>4, <2>7 DEF LoopInv
  <2>13. PhasesInv'
    <3>1. Comes(hist.cursor) \/ Repeats(hist.cursor) BY <1>1, <1>6 DEF LineInv, LoopInv
    <3>2. \A x : x = hist.cursor => (Comes(x) \/ Repeats(x))'
      BY <1>2, <1>3, <3>1 DEF Comes, Repeats, Extends
    <3> QED BY <2>6, <2>7, <3>2 DEF PhasesInv, Walking
  <2> QED BY <1>4, <2>9, <2>10, <2>11, <2>12, <2>13 DEF LineInv
<1> QED BY <1>5, <1>6 DEF Fetch

(* The process. *)

LEMMA MoveLine ==
  ASSUME InsightInv, LineInv, Move
  PROVE  LineInv'
<1>1. UNCHANGED <<dbVars, syncVars, hist>> /\ node \in Block /\ node' \in Block
      /\ Depth[node'] > Depth[node]
  BY DEF Move, NodeMoves, vars, InsightInv, TypesInv, InsightTypeOK
<1>2. Connected' = Connected /\ Best' = Best BY <1>1, ReadKeeps DEF dbVars
<1>3. /\ UNCHANGED <<prev, next, main, bti, cachedTip, pc, job, waiting, crashed>>
  BY <1>1 DEF dbVars, syncVars
<1>4. TurnsInv' /\ PointsInv' BY <1>1, <1>2, <1>3 DEF LineInv, TurnsInv, PointsInv
<1>5. ReachInv'
  <2>1. Depth[node] \in Nat /\ Depth[node'] \in Nat BY <1>1, KeyFacts
  <2>2. bti.height \in Int BY DEF InsightInv, IInv, TypeOK, DbTypeOK, Entry
  <2>3. job["historic"].blk \in Block BY HistoricJob
  <2>4. hist.cursor \in Block \cup {NoHash} BY DEF InsightInv, TypesInv, HistType, Spot
  <2> QED BY <1>1, <1>3, <2>1, <2>2, <2>3, <2>4, KeyFacts DEF LineInv, ReachInv
<1>6. WayBackInv'
  BY <1>1, <1>2, <1>3 DEF LineInv, WayBackInv, Searching, Resuming, Lost
<1>7. LoopInv' /\ PhasesInv'
  <2>1. \A x : x = hist.cursor \/ x = job["historic"].blk =>
          (Comes(x)' <=> Comes(x)) /\ (Repeats(x)' <=> Repeats(x))
    BY <1>2, <1>3 DEF Comes, Repeats, Extends
  <2>2. LoopInv' BY <1>1, <1>2, <1>3, <2>1 DEF LineInv, LoopInv
  <2>3. PhasesInv' BY <1>1, <1>2, <1>3, <2>1 DEF LineInv, PhasesInv
  <2> QED BY <2>2, <2>3
<1> QED BY <1>4, <1>5, <1>6, <1>7 DEF LineInv

(* The process is at rest when the loop has ended. *)
LEMMA RestFacts ==
  ASSUME Alone, InsightInv, LineInv, AtRest
  PROVE  hist.step = "none" /\ ~crashed /\ Connected = Best
<1>1. hist.step \in Steps /\ hist.step # "seek"
  BY AloneFacts DEF InsightInv, TypesInv, HistType, Hist
<1>2. ~crashed /\ hist.step = "none" BY <1>1 DEF AtRest, Quiet, LineInv, TurnsInv, Steps
<1> QED BY <1>2 DEF LineInv, LoopInv

LEMMA StopLine ==
  ASSUME Alone, InsightInv, LineInv, Stop
  PROVE  LineInv'
<1>1. AtRest /\ bti.height >= 2 /\ ProcessEnds /\ UNCHANGED <<dbVars, hist, node>>
  BY DEF Stop, Kill, Alone
<1>2. hist.step = "none" /\ Connected = Best BY <1>1, RestFacts
<1>3. Connected' = Connected /\ Best' = Best BY <1>1, ReadKeeps DEF dbVars
<1>4. /\ \A s \in Syncer : pc'[s] = "idle" /\ waiting'[s] = {}
      /\ pc'["historic"] = "idle" /\ crashed'
      /\ \A s \in Syncer : pc[s] = "idle"
  BY <1>1, <1>2, StepIsNotBusy, HistoricAssumption DEF ProcessEnds
<1>5. UNCHANGED <<prev, next, main, bti, cachedTip>> BY <1>1 DEF dbVars
<1>6. pc["historic"] = "idle" BY <1>4, HistoricAssumption
<1>7. TurnsInv' BY <1>1, <1>2, <1>4, <1>5 DEF LineInv, TurnsInv
<1>8. ReachInv' BY <1>1, <1>2, <1>4, <1>5 DEF LineInv, ReachInv
<1>9. PointsInv' BY <1>3, <1>5, <1>6 DEF LineInv, PointsInv
<1>10. WayBackInv' BY <1>1, <1>2, <1>3, <1>4, <1>5 DEF WayBackInv
<1>11. LoopInv' BY <1>1, <1>2, <1>4 DEF LoopInv
<1>12. PhasesInv' BY <1>4 DEF PhasesInv, Walking
<1> QED BY <1>7, <1>8, <1>9, <1>10, <1>11, <1>12 DEF LineInv

LEMMA FreshHist ==
  /\ Started(NewHist, FALSE).step = "count"
  /\ Started(NewHist, FALSE).status = "starting"
<1>1. NewHist \in Hist /\ NewHist.status = "none"
  BY NoExtractorType DEF NewHist, Hist, FileType, Statuses, Steps, Key
<1> QED BY <1>1 DEF Started, Hist

LEMMA RebootLine ==
  ASSUME Alone, InsightInv, LineInv, Reboot
  PROVE  LineInv'
<1>1. /\ crashed /\ ~crashed' /\ cachedTip' = NoEntry
      /\ UNCHANGED <<prev, next, main, bti, pc, job, waiting, node>>
      /\ hist' = Started(NewHist, FALSE)
  BY DEF Reboot, Restart, Booted, Alone, InsightInv
<1>2. hist'.step = "count" /\ hist'.status = "starting" BY <1>1, FreshHist
<1>3. Connected' = Connected /\ Best' = Best BY <1>1, ReadKeeps
<1>4. hist.step # "store" BY <1>1 DEF LineInv, TurnsInv
<1>5. (\A s \in Syncer : pc[s] = "idle") /\ pc["historic"] = "idle"
  BY <1>4, StepIsNotBusy, HistoricAssumption
<1>6. TurnsInv' BY <1>1, <1>2, <1>5 DEF LineInv, TurnsInv
<1>7. ReachInv' BY <1>1, <1>2, <1>5 DEF LineInv, ReachInv
<1>8. PointsInv' BY <1>1, <1>3, <1>5 DEF LineInv, PointsInv
<1>9. WayBackInv' BY <1>1, <1>2, <1>3 DEF LineInv, WayBackInv, Lost, Searching, Resuming
<1>10. LoopInv' BY <1>2 DEF LoopInv
<1>11. PhasesInv' BY <1>1, <1>5 DEF PhasesInv, Walking
<1> QED BY <1>6, <1>7, <1>8, <1>9, <1>10, <1>11 DEF LineInv

LEMMA InsightInitLine ==
  ASSUME Alone, InsightInit
  PROVE  LineInv
<1>1. /\ \A s \in Syncer : pc[s] = "idle" /\ waiting[s] = {}
      /\ pc["historic"] = "idle" /\ ~crashed /\ bti = NoEntry /\ cachedTip = NoEntry
      /\ \A k \in Key : prev[k] = NoHash /\ next[k] = NoHash
      /\ node \in Block
      /\ hist = Started(NewHist, FALSE)
  BY HistoricAssumption, InsightAssumption
  DEF InsightInit, Init, DbInit, SyncInit, Booted, Alone
<1>2. hist.step = "count" /\ hist.status = "starting" BY <1>1, FreshHist
<1>3. Connected = {} /\ Best = {} BY <1>1, KeyFacts DEF Connected, Has, Best
<1>4. bti.height = -1 /\ Depth[node] \in Nat BY <1>1, KeyFacts DEF NoEntry
<1>5. TurnsInv BY <1>1, <1>2 DEF TurnsInv
<1>6. ReachInv
  <2>1. bti.height <= Depth[node] BY <1>1, <1>4
  <2> QED BY <1>1, <1>2, <2>1 DEF ReachInv
<1>7. PointsInv BY <1>1, <1>3 DEF PointsInv, Key
<1>8. WayBackInv BY <1>1, <1>2, <1>3 DEF WayBackInv, Searching, Resuming
<1>9. LoopInv BY <1>2 DEF LoopInv
<1>10. PhasesInv BY <1>1 DEF PhasesInv, Walking
<1> QED BY <1>5, <1>6, <1>7, <1>8, <1>9, <1>10 DEF LineInv

LEMMA HistoricLine ==
  ASSUME Alone, InsightInv, LineInv, IInv', Historic
  PROVE  LineInv'
<1>1. UNCHANGED node BY DEF Historic
<1>2. ~FileStep
  BY AloneFacts DEF FileStep, Seek, FetchFile, Ready
<1>3. CASE SyncStep
  BY <1>1, <1>3, CountLine, ReadStartLine, ReadInfoLine, ReadHeightLine, DemoteLine, FetchLine,
     StoreLine
  DEF SyncStep
<1>4. CASE SyncFails
  BY <1>1, <1>4, ReadInfoLine
  DEF SyncFails, Alone, CountThrows, CheckFails, DemoteThrows, FetchFails, StoreFails,
      AddTxsFails, HeightChangeThrows
<1> QED BY <1>2, <1>3, <1>4 DEF Historic

(* No peer is connected: its Sync object has nothing to do. *)
LEMMA NoPeer ==
  ASSUME Alone, InsightInv, LineInv
  PROVE  ~Peer
<1>1. "rpc" \notin Faults /\ inbox = << >> BY AloneFacts DEF Alone
<1>2. "peer" # "historic" OBVIOUS
<1>3. pc["peer"] = "idle" /\ waiting["peer"] = {}
  BY <1>2, PeerAssumption DEF LineInv, TurnsInv
<1>4. ~Step("peer")
  BY <1>3
  DEF Step, CheckPrev, ReadTip, ReadNext, ReorgHeight, RetryReorg, WalkBack, WalkTest, Connect,
      ReadFork, Relink, Orphan, Follow, AddTxs, AddBlock, MoveTip, LinkPrev, Waits
<1> QED
  BY <1>1, <1>3, <1>4
  DEF Peer, HandleBlock, StorePeer, PeerFails, Polls, AddTxsFails, HeightChangeThrows

LEMMA LineStutters ==
  ASSUME InsightInv, LineInv, UNCHANGED insightVars
  PROVE  LineInv'
<1>1. UNCHANGED <<dbVars, syncVars, hist, node>> BY DEF insightVars, vars
<1>2. Connected' = Connected /\ Best' = Best BY <1>1, ReadKeeps DEF dbVars
<1>3. /\ UNCHANGED <<prev, next, main, bti, cachedTip, pc, job, waiting, crashed>>
  BY <1>1 DEF dbVars, syncVars
<1>4. TurnsInv' /\ PointsInv' /\ ReachInv'
  BY <1>1, <1>2, <1>3 DEF LineInv, TurnsInv, PointsInv, ReachInv
<1>5. WayBackInv'
  BY <1>1, <1>2, <1>3 DEF LineInv, WayBackInv, Searching, Resuming, Lost
<1>6. \A x : x = hist.cursor \/ x = job["historic"].blk =>
          (Comes(x)' <=> Comes(x)) /\ (Repeats(x)' <=> Repeats(x))
  BY <1>2, <1>3 DEF Comes, Repeats, Extends
<1>7. LoopInv' BY <1>1, <1>2, <1>3, <1>6 DEF LineInv, LoopInv
<1>8. PhasesInv' BY <1>1, <1>2, <1>3, <1>6 DEF LineInv, PhasesInv
<1> QED BY <1>4, <1>5, <1>7, <1>8 DEF LineInv

LEMMA LineStep ==
  ASSUME Alone, InsightInv, LineInv, InsightInv', [InsightNext]_insightVars
  PROVE  LineInv'
BY MoveLine, HistoricLine, NoPeer, StopLine, RebootLine, LineStutters
DEF InsightNext, InsightInv

LEMMA LineInvariant ==
  ASSUME Alone
  PROVE  InsightSpec => [](InsightInv /\ LineInv)
<1>1. Allowed BY DEF Alone, Allowed
<1>2. InsightSpec => []InsightInv BY <1>1, InsightInvariant
<1>3. InsightInv /\ LineInv /\ InsightInv' /\ [InsightNext]_insightVars => LineInv'
  BY LineStep
<1>4. InsightInit => LineInv BY InsightInitLine
<1> QED BY <1>2, <1>3, <1>4, PTL DEF InsightSpec

(* The transactions. *)

LEMMA OwnIndexInsight ==
  ASSUME OwnTxs, InsightInv, OwnIndexInv, [InsightNext]_insightVars
  PROVE  OwnIndexInv'
<1>0. IInv BY DEF InsightInv
<1>1. CASE \E s \in Syncer : Step(s) BY <1>0, <1>1, OwnIndexStep
<1>2. CASE DemoteOldTip /\ hist.oldtip \in Block
  <2>1. ChangeBlockHeight(hist.oldtip, -1) BY <1>2 DEF DemoteOldTip, SetBlockNotMain
  <2> QED BY <1>0, <1>2, <2>1, OwnIndexHeight
<1>3. DemoteOldTip => hist.oldtip \in Block
  BY DEF DemoteOldTip, Ready, InsightInv, HistInv, Follows, Stored
<1>4. CASE ~(\E s \in Syncer : Step(s)) /\ ~DemoteOldTip
  <2>1. ~Step("historic") /\ ~Step("peer") BY <1>4, HistoricAssumption, PeerAssumption
  <2>2. prev' = prev /\ main' = main /\ btx' = btx
    <3>1. CASE Move \/ Stop \/ Reboot \/ UNCHANGED insightVars
      BY <3>1 DEF Move, Stop, Kill, Reboot, Restart, insightVars, vars, dbVars
    <3>2. CASE Peer
      BY <2>1, <3>2 DEF Peer, HandleBlock, StorePeer, PeerFails, StoreTipBlock, Polls, Poll,
         AddTxsFails, HeightChangeThrows, dbVars
    <3>3. CASE Historic /\ FileStep
      BY <3>3 DEF FileStep, Seek, FetchFile, StoreTipBlock, dbVars
    <3>4. CASE Historic /\ SyncStep
      BY <1>4, <2>1, <3>4 DEF SyncStep, CountBlocks, ReadStart, CacheTip, ReadInfo, ReadHeight,
         Fetch, StoreTipBlock, Store, Polls, Poll, dbVars
    <3>5. CASE Historic /\ SyncFails
      BY <3>5 DEF SyncFails, CountThrows, CheckFails, ReadInfoFails, DemoteThrows, FetchFails,
         StoreFails, AddTxsFails, HeightChangeThrows, dbVars
    <3> QED BY <3>1, <3>2, <3>3, <3>4, <3>5 DEF InsightNext, Historic
  <2> QED BY <2>2, OwnIndexSame
<1> QED BY <1>1, <1>2, <1>3, <1>4

LEMMA OwnIndexStart ==
  ASSUME InsightInit
  PROVE  OwnIndexInv
<1>1. \A k \in Key : prev[k] = NoHash BY DEF InsightInit, Init, DbInit
<1>2. Connected = {} BY <1>1, KeyFacts DEF Connected, Has
<1> QED BY <1>2 DEF OwnIndexInv

----------------------------------------------------------------------------
(* The results. *)

(* Every variable has its type, in any configuration and with any failures: *)
(* no search goes below Genesis, and no reader past the files it listed.   *)
THEOREM InsightTypes ==
  InsightSpec => []InsightTypeOK
<1>1. TypesInv => InsightTypeOK BY DEF TypesInv
<1> QED BY <1>1, TypesInit, TypesStep, PTL DEF InsightSpec

(* Also while updateStartBlock takes blocks off the main chain one by one  *)
(* and while two Sync objects write, wherever they are interrupted, a      *)
(* stored block has -1 or its true height.                                 *)
THEOREM InsightHeights ==
  ASSUME Allowed
  PROVE  InsightSpec => []HeightsTruthful
<1>1. InsightInv => HeightsTruthful BY DEF InsightInv, IInv, DbInv
<1> QED BY InsightInvariant, <1>1, PTL

(* ... and no transaction is indexed under a block that is off it.         *)
THEOREM InsightTxIndex ==
  ASSUME Allowed
  PROVE  InsightSpec => []TxIndexTruthful
<1>1. InsightInv => TxIndexTruthful BY DEF InsightInv, IInv, DbInv
<1> QED BY InsightInvariant, <1>1, PTL

LEMMA InsightNextRefines ==
  ASSUME InsightInv, [InsightNext]_insightVars
  PROVE  [Abstract!Next]_Shown
<1>1. CASE \E s \in Syncer : Step(s) BY <1>1, StepRefines DEF InsightInv
<1>2. CASE ~\E s \in Syncer : Step(s)
  <2>1. ~Step("historic") /\ ~Step("peer") BY <1>2, HistoricAssumption, PeerAssumption
  <2>2. prev' = prev /\ bti' = bti
    <3>1. CASE Move \/ Stop \/ Reboot \/ UNCHANGED insightVars
      BY <3>1 DEF Move, Stop, Kill, Reboot, Restart, insightVars, vars, dbVars
    <3>2. CASE Peer
      BY <2>1, <3>2 DEF Peer, HandleBlock, StorePeer, PeerFails, StoreTipBlock, Polls, Poll,
         AddTxsFails, HeightChangeThrows, dbVars
    <3>3. CASE Historic /\ FileStep
      BY <3>3 DEF FileStep, Seek, FetchFile, StoreTipBlock, dbVars
    <3>4. CASE Historic /\ SyncStep
      BY <2>1, <3>4 DEF SyncStep, CountBlocks, ReadStart, CacheTip, ReadInfo, ReadHeight,
         DemoteOldTip, SetBlockNotMain, ChangeBlockHeight, Fetch, StoreTipBlock, Store, Polls,
         Poll, dbVars
    <3>5. CASE Historic /\ SyncFails
      BY <3>5 DEF SyncFails, CountThrows, CheckFails, ReadInfoFails, DemoteThrows, FetchFails,
         StoreFails, AddTxsFails, HeightChangeThrows, dbVars
    <3> QED BY <3>1, <3>2, <3>3, <3>4, <3>5 DEF InsightNext, Historic
  <2> QED BY <2>2, StutterRefines DEF Shown
<1> QED BY <1>1, <1>2

(* The whole process implements the abstract block store: a demotion takes *)
(* no block away, a file gives no block before its parent is stored or     *)
(* refused, and a restart finds the tip it left.                           *)
THEOREM InsightRefines ==
  ASSUME Allowed
  PROVE  InsightSpec => BlocksOnStoredParents
<1>1. InsightInv /\ [InsightNext]_insightVars => [Abstract!Next]_Shown
  BY InsightNextRefines
<1>2. InsightInit => Abstract!Init BY InitRefines DEF InsightInit
<1> QED BY InsightInvariant, <1>1, <1>2, PTL
    DEF InsightSpec, Shown, BlocksOnStoredParents, Abstract!Spec

(* HistoricSync keeps, step by step, what the next start of it relies on: a *)
(* search leaves the blocks it has passed off the main chain and the next   *)
(* pointers in place, so that the repetition of the block it stops at       *)
(* neither throws nor walks into the chain below it.                        *)
THEOREM HistoricLineKept ==
  ASSUME Alone
  PROVE  InsightSpec => []LineKept
<1>1. LineInv => LineKept BY DEF LineKept
<1> QED BY LineInvariant, <1>1, PTL

(* Whatever bitcoind does while the sync runs and while the process is     *)
(* down, when nothing is left to do exactly the chain of the tip is on the *)
(* main chain.                                                             *)
THEOREM HistoricChainAtRest ==
  ASSUME Alone
  PROVE  InsightSpec => []ChainAtRest
<1>1. InsightInv /\ LineInv => ChainAtRest
  <2> SUFFICES ASSUME InsightInv, LineInv, AtRest
               PROVE  BestChainConnected /\ BranchesOrphaned
    BY DEF ChainAtRest
  <2>1. IInv /\ Connected = Best BY RestFacts DEF InsightInv
  <2>2. Best \subseteq Block BY <2>1, BestFacts
  <2> QED BY <2>1, <2>2, ConnectedFacts DEF BestChainConnected, BranchesOrphaned
<1> QED BY LineInvariant, <1>1, PTL

(* ... and its next pointers lead up to the tip, as the next reorganisation *)
(* relies on.                                                               *)
THEOREM HistoricLinksAtRest ==
  ASSUME Alone
  PROVE  InsightSpec => []LinksAtRest
<1>1. InsightInv /\ LineInv => LinksAtRest
  <2> SUFFICES ASSUME InsightInv, LineInv, AtRest PROVE ForwardLinks BY DEF LinksAtRest
  <2>1. hist.step = "none" /\ Connected = Best BY RestFacts
  <2>2. pc["historic"] = "idle" BY <2>1, StepIsNotBusy, HistoricAssumption
  <2> QED BY <2>1, <2>2 DEF LineInv, PointsInv, ForwardLinks
<1> QED BY LineInvariant, <1>1, PTL

(* ... and its transactions are indexed under its own blocks.              *)
THEOREM HistoricIndexAtRest ==
  ASSUME Alone, OwnTxs
  PROVE  InsightSpec => []IndexAtRest
<1>1. InsightInv /\ OwnIndexInv /\ [InsightNext]_insightVars => OwnIndexInv'
  BY OwnIndexInsight
<1>2. InsightInit => OwnIndexInv BY OwnIndexStart
<1>3. InsightInv /\ LineInv /\ OwnIndexInv => IndexAtRest
  <2> SUFFICES ASSUME InsightInv, LineInv, OwnIndexInv, AtRest PROVE TxIndexComplete
    BY DEF IndexAtRest
  <2>1. Connected = Best BY RestFacts
  <2> QED BY <2>1 DEF OwnIndexInv, TxIndexComplete
<1> QED BY LineInvariant, <1>1, <1>2, <1>3, PTL DEF InsightSpec
=============================================================================
