--------------------------- MODULE SlidingBitmap ---------------------------
(***************************************************************************)
(* The sliding bitmap of internal/replay/replay.go.  A window remembers    *)
(* which counters it has seen in a ring of NumBlocks blocks of BlockBits   *)
(* bits; block number b lives in ring slot b % NumBlocks, and a slot is    *)
(* cleared when the highest counter moves into a new block.  The reorder   *)
(* buffer's duplicate filter (buffer.go, markSeen) is the same algorithm.  *)
(*                                                                         *)
(* A block is modelled as the set of its bits that are 1.                  *)
(***************************************************************************)
EXTENDS Integers

CONSTANTS
  BlockBits,   \* bits in one block (64 in the code)
  NumBlocks    \* blocks in the ring (32 for replay, 128 for reorder)

ASSUME BitmapAssumption ==
  /\ BlockBits \in Nat \ {0}
  /\ NumBlocks \in Nat \ {0}

WindowSize == BlockBits * NumBlocks

Slots == 0 .. NumBlocks - 1
Bits  == 0 .. BlockBits - 1

Block(c) == c \div BlockBits
Bit(c)   == c % BlockBits
Slot(b)  == b % NumBlocks

Windows == [blocks : [Slots -> SUBSET Bits], highest : Nat, started : BOOLEAN]

NewWindow == [blocks  |-> [s \in Slots |-> {}],
              highest |-> 0,
              started |-> FALSE]

Marked(blocks, c) == Bit(c) \in blocks[Slot(Block(c))]

Mark(blocks, c) == [blocks EXCEPT ![Slot(Block(c))] = @ \cup {Bit(c)}]

(* Mutant of Skipped: the block moved into is not cleared.                 *)
SkippedShort(cur, new) ==
  LET diff == IF new - cur > NumBlocks THEN NumBlocks ELSE new - cur
  IN  {Slot(cur + i) : i \in 1 .. diff - 1}

(* Mutant of Skipped: one block too many is cleared.                       *)
SkippedLong(cur, new) ==
  LET diff == IF new - cur > NumBlocks THEN NumBlocks ELSE new - cur
  IN  {Slot(cur + i) : i \in 1 .. diff + 1}

(* The slots cleared when the highest counter moves from block cur to      *)
(* block new: one per block entered, at most the whole ring.               *)
Skipped(cur, new) ==
  LET diff == IF new - cur > NumBlocks THEN NumBlocks ELSE new - cur
  IN  {Slot(cur + i) : i \in 1 .. diff}

Advance(blocks, cur, new) ==
  [s \in Slots |-> IF s \in Skipped(cur, new) THEN {} ELSE blocks[s]]

TooOld(w, c) == w.started /\ c <= w.highest /\ w.highest - c >= WindowSize

(* The ring after the window has moved up to c, before c is looked up.     *)
Moved(w, c) ==
  IF w.started /\ c > w.highest
  THEN Advance(w.blocks, Block(w.highest), Block(c))
  ELSE w.blocks

(* Whether Check(c) reports c as fresh: the first counter always is, a     *)
(* counter WindowSize or more behind never is.                             *)
Fresh(w, c) ==
  \/ ~w.started
  \/ ~TooOld(w, c) /\ ~Marked(Moved(w, c), c)

(* The window after Check(c).                                              *)
Checked(w, c) ==
  IF TooOld(w, c)
  THEN w
  ELSE [blocks  |-> Mark(Moved(w, c), c),
        highest |-> IF w.started /\ c <= w.highest THEN w.highest ELSE c,
        started |-> TRUE]

-----------------------------------------------------------------------------
(* The counters whose block is one of the NumBlocks most recent ones.      *)
Recent(w, c) ==
  Block(c) <= Block(w.highest) /\ Block(w.highest) - Block(c) < NumBlocks

(* How w relates to the set of counters it has reported fresh.  In the     *)
(* NumBlocks most recent blocks none of them is forgotten, and a bit is    *)
(* set only for one of them: the counter itself or, when an old counter    *)
(* came in through the block that shares its slot with the newest one, the *)
(* counter WindowSize below.                                               *)
Remembers(w, accepted) ==
  /\ ~w.started => w = NewWindow /\ accepted = {}
  /\ w.started => accepted # {}
  /\ \A c \in accepted : c <= w.highest
  /\ \A c \in 0 .. w.highest + BlockBits : Recent(w, c) =>
       /\ c \in accepted => Marked(w.blocks, c)
       /\ Marked(w.blocks, c) => c \in accepted \/ c - WindowSize \in accepted
=============================================================================
