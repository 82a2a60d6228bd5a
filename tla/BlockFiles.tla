----------------------------- MODULE BlockFiles -----------------------------
(***************************************************************************)
(* The blk*.dat files bitcoind appends its blocks to, and the reader of    *)
(* them in lib/BlockExtractor.js, which lists the files when it is made    *)
(* and reads each of them once, whole.  The bytes are left out: a file is  *)
(* the sequence of its blocks, in the order bitcoind received them.        *)
(***************************************************************************)
EXTENDS Bitcoind

CONSTANT PerFile   \* bound: blocks in one file

ASSUME FileAssumption == PerFile \in Nat \ {0}

VARIABLES
  disk,      \* the blocks in the files, one file after the other
  lastFile   \* lastFileIndex (lib/BlockDb.js): the file the last block came from

FileCount == (Len(disk) + PerFile - 1) \div PerFile
BlockFile(i) == SubSeq(disk, i * PerFile + 1, Min({(i + 1) * PerFile, Len(disk)}))

(* bitcoind writes the blocks of a chain that it does not have yet. *)
Received(n) == disk \o ByDepth(Chain[n] \ ToSet(disk))

(* file: currentFileIndex.  read: isCurrentRead.  buffer: what is left of   *)
(* currentBuffer.  Without files the constructor throws.                    *)
Extractor == [nfiles : Nat, file : Int, read : BOOLEAN, buffer : Seq(Block)]
NoExtractor == [nfiles |-> 0, file |-> -1, read |-> FALSE, buffer |-> << >>]
NewExtractor(i) == [nfiles |-> FileCount, file |-> i, read |-> FALSE, buffer |-> << >>]

(* readCurrentFileSync *)
ReadFile(x) ==
  IF x.file < 0 \/ x.read THEN x
  ELSE [x EXCEPT !.read = TRUE, !.buffer = BlockFile(x.file)]

(* Mutant: the next file counts as read. *)
NextFileRead(x) ==
  [x EXCEPT !.file = IF x.file < 0 \/ x.file = x.nfiles - 1 THEN -1 ELSE x.file + 1,
            !.buffer = << >>]

NextFile(x) ==
  IF x.file < 0 THEN x
  ELSE [x EXCEPT !.file = IF x.file < x.nfiles - 1 THEN x.file + 1 ELSE -1,
                 !.read = FALSE, !.buffer = << >>]

(* getNextBlock up to the block: at the end of a file on to the next one,  *)
(* and with an empty buffer after the last.  Every file has a block.       *)
Ahead(x) ==
  LET now == ReadFile(x) IN
    IF now.buffer # << >> THEN now ELSE ReadFile(NextFile(now))
============================================================================
