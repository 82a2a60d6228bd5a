----------------------------- MODULE BestChain -----------------------------
(***************************************************************************)
(* What the block store promises its readers, whatever interleaves, fails  *)
(* or restarts: a block is stored for good and only on top of a stored     *)
(* parent, and the tip is a stored block with its true height.  So every   *)
(* ancestor of the tip can be read, at any moment.                         *)
(***************************************************************************)
EXTENDS Integers

CONSTANTS Block, Genesis, Parent, Depth, NoHash

VARIABLES
  known,   \* the blocks stored
  best     \* <<block, height>> of the tip, or <<NoHash, -1>>

Init == known = {} /\ best = <<NoHash, -1>>

Store(b) ==
  /\ b = Genesis \/ Parent[b] \in known
  /\ known' = known \cup {b}
  /\ UNCHANGED best

Adopt(b) ==
  /\ b \in known
  /\ best' = <<b, Depth[b]>>
  /\ UNCHANGED known

Next == \E b \in Block : Store(b) \/ Adopt(b)

Spec == Init /\ [][Next]_<<known, best>>
============================================================================
