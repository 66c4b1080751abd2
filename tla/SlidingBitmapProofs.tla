------------------------ MODULE SlidingBitmapProofs ------------------------
(***************************************************************************)
(* Lemmas about the sliding bitmap, for every block size and every number  *)
(* of blocks: the arithmetic of blocks and slots, and what one Check does  *)
(* to the relation between a window and the counters it has accepted.      *)
(***************************************************************************)
EXTENDS SlidingBitmap, TLAPS

-----------------------------------------------------------------------------
(* Arithmetic of division with remainder.                                  *)

(* A number is its quotient times the divisor plus its remainder.          *)
LEMMA DivMod ==
  ASSUME NEW n \in Nat \ {0}, NEW a \in Nat
  PROVE  /\ a = n * (a \div n) + (a % n)
         /\ a % n \in 0 .. n - 1
         /\ a \div n \in Nat
  OBVIOUS

(* The quotient of n * q + r is q and its remainder is r.                  *)
LEMMA ModOfSum ==
  ASSUME NEW n \in Nat \ {0}, NEW q \in Nat, NEW r \in 0 .. n - 1
  PROVE  (n * q + r) % n = r /\ (n * q + r) \div n = q
  OBVIOUS

(* Two numbers with the same remainder are at least n apart.               *)
LEMMA SameModApart ==
  ASSUME NEW n \in Nat \ {0}, NEW a \in Nat, NEW b \in Nat,
         a % n = b % n, a < b
  PROVE  /\ b - a >= n
         /\ b - a <= n => b = a + n
<1> DEFINE qa == a \div n
           qb == b \div n
<1>1. /\ a = n * qa + (a % n) /\ b = n * qb + (b % n)
      /\ qa \in Nat /\ qb \in Nat
  BY DivMod, Zenon
<1>2. b - a = n * (qb - qa)
  BY <1>1
<1>3. qb - qa >= 1
  BY <1>1, <1>2
<1>4. QED
  BY <1>1, <1>2, <1>3

(* Some i in 1..n brings cur to any given remainder.                       *)
LEMMA ModCovers ==
  ASSUME NEW n \in Nat \ {0}, NEW cur \in Nat, NEW s \in 0 .. n - 1
  PROVE  \E i \in 1 .. n : (cur + i) % n = s
<1> DEFINE q == cur \div n
           r == cur % n
<1>1. cur = n * q + r /\ q \in Nat /\ r \in 0 .. n - 1
  BY DivMod, Zenon
<1>2. CASE s > r
  <2>1. s - r \in 1 .. n /\ cur + (s - r) = n * q + s
    BY <1>1, <1>2
  <2>2. (n * q + s) % n = s
    BY <1>1, ModOfSum, Zenon
  <2>3. QED
    BY <2>1, <2>2, Zenon
<1>3. CASE s <= r
  <2>1. s - r + n \in 1 .. n /\ cur + (s - r + n) = n * (q + 1) + s
    BY <1>1, <1>3
  <2>2. \A k \in Nat : (n * k + s) % n = s
    BY ModOfSum
  <2>3. (n * (q + 1) + s) % n = s
    <3> HIDE DEF q
    <3>1. q + 1 \in Nat
      BY <1>1
    <3>2. QED
      BY <3>1, <2>2
  <2>4. QED
    BY <2>1, <2>3
<1>4. QED
  BY <1>1, <1>2, <1>3

-----------------------------------------------------------------------------
(* Blocks, bits and slots.                                                 *)

(* Block and Bit take a counter apart, and together determine it.          *)
LEMMA BlockBit ==
  ASSUME NEW c \in Nat
  PROVE  /\ c = BlockBits * Block(c) + Bit(c)
         /\ Block(c) \in Nat
         /\ Bit(c) \in Bits
         /\ Slot(Block(c)) \in Slots
  BY BitmapAssumption, DivMod, Zenon DEF Block, Bit, Bits, Slot, Slots

(* A higher counter is in the same or in a later block.                    *)
LEMMA BlockMonotone ==
  ASSUME NEW c \in Nat, NEW d \in Nat, c <= d
  PROVE  Block(c) <= Block(d)
<1>1. SUFFICES ASSUME Block(d) + 1 <= Block(c) PROVE FALSE
  BY BlockBit
<1>2. BlockBits * (Block(d) + 1) <= BlockBits * Block(c)
  BY <1>1, BlockBit, BitmapAssumption
<1>3. QED
  BY <1>2, BlockBit, BitmapAssumption DEF Bits

(* A counter less than WindowSize below another is at most NumBlocks       *)
(* blocks below it, and one at most WindowSize - BlockBits below it is     *)
(* fewer.                                                                  *)
LEMMA BlockDistance ==
  ASSUME NEW c \in Nat, NEW h \in Nat, c <= h
  PROVE  /\ h - c < WindowSize => Block(h) - Block(c) <= NumBlocks
         /\ h - c <= WindowSize - BlockBits => Block(h) - Block(c) < NumBlocks
<1> DEFINE dist == Block(h) - Block(c)
<1>1. dist \in Nat /\ h - c = BlockBits * dist + Bit(h) - Bit(c)
  <2>1. /\ h = BlockBits * Block(h) + Bit(h)
        /\ c = BlockBits * Block(c) + Bit(c)
        /\ Block(h) \in Nat /\ Block(c) \in Nat
        /\ Bit(h) \in Int /\ Bit(c) \in Int
    BY BlockBit, BitmapAssumption DEF Bits
  <2>2. dist \in Nat
    BY <2>1, BlockMonotone
  <2>3. h - c = BlockBits * Block(h) - BlockBits * Block(c) + Bit(h) - Bit(c)
    BY <2>1, BitmapAssumption
  <2>4. BlockBits * Block(h) - BlockBits * Block(c) = BlockBits * dist
    BY <2>1, BitmapAssumption
  <2>5. QED
    BY <2>2, <2>3, <2>4
<1>2. Bit(h) \in 0 .. BlockBits - 1 /\ Bit(c) \in 0 .. BlockBits - 1
  BY BlockBit DEF Bits
<1>3. BlockBits * dist < h - c + BlockBits
  BY <1>1, <1>2, BitmapAssumption
<1>4. ASSUME h - c < WindowSize, dist >= NumBlocks + 1 PROVE FALSE
  <2>1. BlockBits * dist >= BlockBits * (NumBlocks + 1)
    BY <1>1, <1>4, BitmapAssumption
  <2>2. QED
    BY <2>1, <1>1, <1>3, <1>4, BitmapAssumption DEF WindowSize
<1>5. ASSUME h - c <= WindowSize - BlockBits, dist >= NumBlocks PROVE FALSE
  <2>1. BlockBits * dist >= BlockBits * NumBlocks
    BY <1>1, <1>5, BitmapAssumption
  <2>2. QED
    BY <2>1, <1>1, <1>3, <1>5, BitmapAssumption DEF WindowSize
<1>6. QED
  BY <1>1, <1>4, <1>5, BitmapAssumption

(* Counters that share slot and bit, with blocks at most NumBlocks apart,  *)
(* are equal or exactly WindowSize apart.                                  *)
LEMMA Alias ==
  ASSUME NEW c \in Nat, NEW d \in Nat,
         Slot(Block(c)) = Slot(Block(d)), Bit(c) = Bit(d)
  PROVE  /\ Block(c) = Block(d) => c = d
         /\ Block(c) < Block(d) => Block(d) - Block(c) >= NumBlocks
         /\ Block(c) < Block(d) /\ Block(d) - Block(c) <= NumBlocks
              => c = d - WindowSize
<1>1. Block(c) = Block(d) => c = d
  BY BlockBit, BitmapAssumption
<1>2. ASSUME Block(c) < Block(d)
      PROVE  /\ Block(d) - Block(c) >= NumBlocks
             /\ Block(d) - Block(c) <= NumBlocks => Block(d) = Block(c) + NumBlocks
  BY <1>2, BlockBit, SameModApart, BitmapAssumption, Zenon DEF Slot
<1>3. ASSUME Block(d) = Block(c) + NumBlocks PROVE c = d - WindowSize
  BY <1>3, BlockBit, BitmapAssumption DEF WindowSize, Bits
<1>4. QED
  BY <1>1, <1>2, <1>3

(* The counter WindowSize above c has the same slot and bit, NumBlocks     *)
(* blocks later.                                                           *)
LEMMA OneTurn ==
  ASSUME NEW c \in Nat
  PROVE  /\ Block(c + WindowSize) = Block(c) + NumBlocks
         /\ Bit(c + WindowSize) = Bit(c)
         /\ Slot(Block(c) + NumBlocks) = Slot(Block(c))
<1>1. \A n \in Nat \ {0}, q \in Nat : \A r \in 0 .. n - 1 :
        (n * q + r) % n = r /\ (n * q + r) \div n = q
  BY ModOfSum
<1>2. /\ c = BlockBits * Block(c) + Bit(c) /\ Block(c) \in Nat
      /\ Bit(c) \in 0 .. BlockBits - 1
  BY BlockBit DEF Bits
<1>3. Block(c) + NumBlocks \in Nat
  BY <1>2, BitmapAssumption
<1>4. c + WindowSize = BlockBits * (Block(c) + NumBlocks) + Bit(c)
  BY <1>2, BitmapAssumption DEF WindowSize
<1>5. /\ Block(c + WindowSize) = Block(c) + NumBlocks
      /\ Bit(c + WindowSize) = Bit(c)
  <2>1. /\ (BlockBits * (Block(c) + NumBlocks) + Bit(c)) % BlockBits = Bit(c)
        /\ (BlockBits * (Block(c) + NumBlocks) + Bit(c)) \div BlockBits
             = Block(c) + NumBlocks
    BY <1>1, <1>2, <1>3, BitmapAssumption, Zenon
  <2>2. \A x : Block(x) = x \div BlockBits /\ Bit(x) = x % BlockBits
    BY DEF Block, Bit
  <2>3. QED
    BY <1>4, <2>1, <2>2
<1>6. Slot(Block(c) + NumBlocks) = Slot(Block(c))
  <2> DEFINE q == Block(c) \div NumBlocks
             r == Block(c) % NumBlocks
  <2>1. Block(c) = NumBlocks * q + r /\ q \in Nat /\ r \in 0 .. NumBlocks - 1
    BY <1>2, DivMod, BitmapAssumption, Zenon
  <2> HIDE DEF q, r
  <2>2. Block(c) + NumBlocks = NumBlocks * (q + 1) + r /\ q + 1 \in Nat
    BY <1>2, <2>1, BitmapAssumption
  <2>3. (NumBlocks * (q + 1) + r) % NumBlocks = r
    BY <1>1, <2>1, <2>2, BitmapAssumption, Zenon
  <2>4. QED
    BY <2>2, <2>3 DEF Slot, r
<1>7. QED
  BY <1>5, <1>6

(* Moving from block cur to block new clears the slot of every recent      *)
(* block it enters and of no recent block it already held.                 *)
LEMMA SkippedSlots ==
  ASSUME NEW cur \in Nat, NEW new \in Nat, cur <= new,
         NEW b \in Nat, b <= new, new - b < NumBlocks
  PROVE  /\ b > cur => Slot(b) \in Skipped(cur, new)
         /\ b <= cur => Slot(b) \notin Skipped(cur, new)
<1>1. ASSUME b > cur, new - cur <= NumBlocks
      PROVE  Slot(b) \in Skipped(cur, new)
  <2>1. b - cur \in 1 .. new - cur /\ cur + (b - cur) = b
    BY <1>1
  <2>2. QED
    BY <2>1, <1>1, BitmapAssumption DEF Skipped
<1>2. ASSUME b > cur, new - cur > NumBlocks
      PROVE  Slot(b) \in Skipped(cur, new)
  <2>1. Slot(b) \in 0 .. NumBlocks - 1
    BY DivMod, BitmapAssumption DEF Slot
  <2>2. PICK i \in 1 .. NumBlocks : (cur + i) % NumBlocks = Slot(b)
    BY <2>1, ModCovers, BitmapAssumption, Zenon
  <2>3. QED
    BY <2>2, <1>2, BitmapAssumption DEF Skipped, Slot
<1>3. ASSUME b <= cur, Slot(b) \in Skipped(cur, new)
      PROVE  FALSE
  <2>1. PICK i \in 1 .. new - cur : i <= NumBlocks /\ Slot(b) = Slot(cur + i)
    BY <1>3, BitmapAssumption DEF Skipped
  <2>2. cur + i \in Nat /\ b < cur + i /\ cur + i <= new
    BY <2>1, <1>3
  <2>3. \A d \in Nat : b % NumBlocks = d % NumBlocks /\ b < d
                         => d - b >= NumBlocks
    BY SameModApart, BitmapAssumption, Zenon
  <2>4. cur + i - b >= NumBlocks
    BY <2>1, <2>2, <2>3 DEF Slot
  <2>5. QED
    BY <2>2, <2>4, BitmapAssumption
<1>4. QED
  BY <1>1, <1>2, <1>3, BitmapAssumption

-----------------------------------------------------------------------------
(* One Check.                                                              *)

(* Checked keeps a window a window.                                        *)
LEMMA CheckedType ==
  ASSUME NEW w \in Windows, NEW c \in Nat
  PROVE  Checked(w, c) \in Windows /\ Moved(w, c) \in [Slots -> SUBSET Bits]
<1>1. Moved(w, c) \in [Slots -> SUBSET Bits]
  BY DEF Windows, Moved, Advance
<1>2. Mark(Moved(w, c), c) \in [Slots -> SUBSET Bits]
  BY <1>1, BlockBit DEF Mark
<1>3. QED
  BY <1>1, <1>2 DEF Windows, Checked

(* After Mark(blocks, d), a counter is marked when it was before or when   *)
(* it shares slot and bit with d.                                          *)
LEMMA MarkedAfterMark ==
  ASSUME NEW blocks \in [Slots -> SUBSET Bits], NEW c \in Nat, NEW d \in Nat
  PROVE  Marked(Mark(blocks, d), c) <=>
           \/ Marked(blocks, c)
           \/ Slot(Block(c)) = Slot(Block(d)) /\ Bit(c) = Bit(d)
  BY BlockBit DEF Marked, Mark

(* Within the recent blocks, moving the window up to c keeps the marks of  *)
(* the blocks it held and starts the others empty.                         *)
LEMMA MovedMarks ==
  ASSUME NEW w \in Windows, w.started, NEW c \in Nat, c > w.highest,
         NEW d \in Nat, Block(d) <= Block(c), Block(c) - Block(d) < NumBlocks
  PROVE  /\ Block(d) > Block(w.highest) => ~Marked(Moved(w, c), d)
         /\ Block(d) <= Block(w.highest) =>
              (Marked(Moved(w, c), d) <=> Marked(w.blocks, d))
<1>1. w.highest \in Nat
  BY DEF Windows
<1>2. /\ Block(d) \in Nat /\ Block(c) \in Nat /\ Block(w.highest) \in Nat
      /\ Block(w.highest) <= Block(c)
      /\ Slot(Block(d)) \in Slots
  BY <1>1, BlockBit, BlockMonotone
<1>3. /\ Block(d) > Block(w.highest) =>
           Slot(Block(d)) \in Skipped(Block(w.highest), Block(c))
      /\ Block(d) <= Block(w.highest) =>
           Slot(Block(d)) \notin Skipped(Block(w.highest), Block(c))
  BY <1>2, SkippedSlots
<1>4. Moved(w, c)[Slot(Block(d))] =
        IF Slot(Block(d)) \in Skipped(Block(w.highest), Block(c))
        THEN {} ELSE w.blocks[Slot(Block(d))]
  BY <1>2 DEF Moved, Advance
<1>5. QED
  BY <1>2, <1>3, <1>4 DEF Marked

(* What Remembers says of a window holds for all recent counters.          *)
LEMMA RemembersRecent ==
  ASSUME NEW w \in Windows, NEW accepted, Remembers(w, accepted),
         NEW c \in Nat, Recent(w, c)
  PROVE  /\ c \in accepted => Marked(w.blocks, c)
         /\ Marked(w.blocks, c) => c \in accepted \/ c - WindowSize \in accepted
<1>1. w.highest \in Nat
  BY DEF Windows
<1>2. Block(c) \in Nat /\ Block(w.highest) \in Nat /\ Block(c) <= Block(w.highest)
  BY <1>1, BlockBit DEF Recent
<1>3. BlockBits * Block(c) <= BlockBits * Block(w.highest)
  BY <1>2, BitmapAssumption
<1>4. c <= w.highest + BlockBits
  <2>1. /\ c = BlockBits * Block(c) + Bit(c) /\ Bit(c) \in 0 .. BlockBits - 1
        /\ w.highest = BlockBits * Block(w.highest) + Bit(w.highest)
        /\ Bit(w.highest) \in 0 .. BlockBits - 1
    BY <1>1, BlockBit DEF Bits
  <2>2. BlockBits * Block(c) \in Int /\ BlockBits * Block(w.highest) \in Int
    BY <1>2, BitmapAssumption
  <2>3. QED
    BY <1>1, <1>3, <2>1, <2>2, BitmapAssumption
<1>5. QED
  BY <1>1, <1>4, BitmapAssumption DEF Remembers

(* Check keeps the window and its history in step: Remembers is preserved  *)
(* when the counter reported fresh joins the accepted ones.                *)
LEMMA CheckRemembers ==
  ASSUME NEW w \in Windows, NEW accepted \in SUBSET Nat,
         Remembers(w, accepted), NEW c \in Nat
  PROVE  Remembers(Checked(w, c),
                   IF Fresh(w, c) THEN accepted \cup {c} ELSE accepted)
<1> DEFINE v   == Checked(w, c)
           acc == IF Fresh(w, c) THEN accepted \cup {c} ELSE accepted
<1>a. /\ w.highest \in Nat /\ w.blocks \in [Slots -> SUBSET Bits]
      /\ w.started \in BOOLEAN
  BY DEF Windows
<1>b. v \in Windows /\ Moved(w, c) \in [Slots -> SUBSET Bits]
  BY CheckedType
<1>1. CASE TooOld(w, c)
  BY <1>1 DEF Checked, Fresh, TooOld
<1>2. CASE ~TooOld(w, c)
  <2>1. /\ v.blocks = Mark(Moved(w, c), c)
        /\ v.highest = IF w.started /\ c <= w.highest THEN w.highest ELSE c
        /\ v.started = TRUE
    BY <1>2 DEF Checked
  <2>2. v.highest \in Nat /\ c <= v.highest /\ (w.started => w.highest <= v.highest)
    BY <1>a, <2>1
  <2>3. \A d \in acc : d <= v.highest
    BY <1>a, <2>1, <2>2 DEF Remembers
  <2>4. acc # {}
    BY <1>a DEF Remembers, Fresh
  <2>5. ASSUME NEW d \in Nat, Recent(v, d)
        PROVE  /\ d \in acc => Marked(v.blocks, d)
               /\ Marked(v.blocks, d) => d \in acc \/ d - WindowSize \in acc
    <3>1. Marked(v.blocks, d) <=>
            \/ Marked(Moved(w, c), d)
            \/ Slot(Block(d)) = Slot(Block(c)) /\ Bit(d) = Bit(c)
      BY <1>b, <2>1, MarkedAfterMark
    <3>2. /\ Block(d) \in Nat /\ Block(c) \in Nat /\ Block(w.highest) \in Nat
          /\ Block(d) <= Block(v.highest)
          /\ Block(v.highest) - Block(d) < NumBlocks
      BY <1>a, <2>5, BlockBit DEF Recent
    <3>3. CASE ~w.started
      <4>1. acc = {c} /\ v.highest = c /\ ~Marked(Moved(w, c), d)
        <5>1. w = NewWindow /\ accepted = {}
          BY <3>3 DEF Remembers
        <5>2. Moved(w, c) = w.blocks /\ w.blocks = [x \in Slots |-> {}]
          BY <3>3, <5>1 DEF Moved, NewWindow
        <5>3. Slot(Block(d)) \in Slots
          BY BlockBit
        <5>4. ~Marked(Moved(w, c), d)
          BY <5>2, <5>3 DEF Marked
        <5>5. Fresh(w, c)
          BY <3>3 DEF Fresh
        <5>6. QED
          BY <2>1, <3>3, <5>1, <5>4, <5>5
      <4>2. Slot(Block(d)) = Slot(Block(c)) /\ Bit(d) = Bit(c) => d = c
        BY <3>2, <4>1, Alias, BitmapAssumption
      <4>3. QED
        BY <3>1, <4>1, <4>2
    <3>4. CASE w.started /\ c <= w.highest
      <4>1. /\ v.highest = w.highest /\ Moved(w, c) = w.blocks
            /\ Fresh(w, c) <=> ~Marked(w.blocks, c)
            /\ Recent(w, d)
        BY <1>a, <1>2, <2>1, <2>5, <3>4 DEF Moved, Fresh, Recent
      <4>2. /\ d \in accepted => Marked(w.blocks, d)
            /\ Marked(w.blocks, d) => d \in accepted \/ d - WindowSize \in accepted
        BY <4>1, RemembersRecent
      <4>3. ASSUME Slot(Block(d)) = Slot(Block(c)), Bit(d) = Bit(c)
            PROVE  d = c \/ c = d - WindowSize
        <5>1. Block(w.highest) - Block(c) <= NumBlocks
          BY <1>a, <1>2, <3>4, BlockDistance, BitmapAssumption
            DEF TooOld, WindowSize
        <5>2. Block(d) - Block(c) <= NumBlocks /\ Block(c) - Block(d) < NumBlocks
          BY <1>a, <3>2, <3>4, <4>1, <5>1, BlockMonotone, BitmapAssumption
        <5>3. QED
          BY <3>2, <4>3, <5>2, Alias, BitmapAssumption
      <4>4. ASSUME Slot(Block(d)) = Slot(Block(c)), Bit(d) = Bit(c), ~Fresh(w, c)
            PROVE  Marked(w.blocks, d)
        BY <4>1, <4>4 DEF Marked
      <4>5. QED
        BY <3>1, <4>1, <4>2, <4>3, <4>4
    <3>5. CASE w.started /\ c > w.highest
      <4>1. /\ v.highest = c /\ Block(d) <= Block(c) /\ Block(c) - Block(d) < NumBlocks
            /\ Block(w.highest) <= Block(c)
            /\ Fresh(w, c) <=> ~Marked(Moved(w, c), c)
        BY <1>a, <1>2, <2>1, <3>2, <3>5, BlockMonotone DEF Fresh
      <4>2. Slot(Block(d)) = Slot(Block(c)) /\ Bit(d) = Bit(c) => d = c
        BY <3>2, <4>1, Alias, BitmapAssumption
      <4>3. CASE Block(d) > Block(w.highest)
        <5>1. d \notin accepted
          BY <1>a, <3>2, <4>3, BlockMonotone DEF Remembers
        <5>2. ~Marked(Moved(w, c), d)
          BY <3>5, <4>1, <4>3, MovedMarks
        <5>3. QED
          BY <3>1, <4>1, <4>2, <5>1, <5>2
      <4>4. CASE Block(d) <= Block(w.highest)
        <5>1. Marked(Moved(w, c), d) <=> Marked(w.blocks, d)
          BY <3>5, <4>1, <4>4, MovedMarks
        <5>2. Recent(w, d)
          BY <3>2, <4>1, <4>4, BitmapAssumption DEF Recent
        <5>3. /\ d \in accepted => Marked(w.blocks, d)
              /\ Marked(w.blocks, d) => d \in accepted \/ d - WindowSize \in accepted
          BY <5>2, RemembersRecent
        <5>4. QED
          BY <3>1, <4>1, <4>2, <5>1, <5>3
      <4>5. QED
        BY <3>2, <4>3, <4>4
    <3>6. QED
      BY <1>a, <3>3, <3>4, <3>5
  <2>6. QED
    BY <2>1, <2>2, <2>3, <2>4, <2>5, BitmapAssumption DEF Remembers
<1>3. QED
  BY <1>1, <1>2

(* What Check answers, given what the window remembers: too old a counter  *)
(* is refused, an accepted one is refused while it is at most WindowSize - *)
(* BlockBits behind, and any other is refused only as an alias.            *)
LEMMA CheckAnswers ==
  ASSUME NEW w \in Windows, NEW accepted \in SUBSET Nat,
         Remembers(w, accepted), NEW c \in Nat
  PROVE  /\ TooOld(w, c) => ~Fresh(w, c)
         /\ accepted = {} \/ c - w.highest >= BlockBits => Fresh(w, c)
         /\ c \in accepted /\ w.highest - c <= WindowSize - BlockBits
              => ~Fresh(w, c)
         /\ ~Fresh(w, c) => \/ TooOld(w, c)
                            \/ c \in accepted
                            \/ c - WindowSize \in accepted
<1>1. w.highest \in Nat /\ w.started \in BOOLEAN /\ WindowSize \in Nat
  BY BitmapAssumption DEF Windows, WindowSize
<1>2. TooOld(w, c) => ~Fresh(w, c)
  BY DEF TooOld, Fresh
<1>3. ASSUME accepted = {} \/ c - w.highest >= BlockBits
      PROVE  Fresh(w, c)
  <2>1. CASE ~w.started
    BY <2>1 DEF Fresh
  <2>2. CASE w.started
    <3>1. c - w.highest >= BlockBits
      BY <1>3, <2>2, Zenon DEF Remembers
    <3>2. c > w.highest /\ c - w.highest >= BlockBits
      BY <1>1, <3>1, BitmapAssumption
    <3>3. Block(w.highest) < Block(c)
      <4>1. SUFFICES ASSUME Block(c) <= Block(w.highest) PROVE FALSE
        BY <1>1, BlockBit
      <4>2. Block(c) = Block(w.highest)
        BY <1>1, <3>2, <4>1, BlockBit, BlockMonotone
      <4>3. c - w.highest = Bit(c) - Bit(w.highest)
        <5> DEFINE start == BlockBits * Block(c)
        <5>1. c = start + Bit(c) /\ Bit(c) \in Nat
          BY BlockBit DEF Bits
        <5>2. w.highest = start + Bit(w.highest) /\ Bit(w.highest) \in Nat
          BY <1>1, <4>2, BlockBit DEF Bits
        <5>3. start \in Nat
          BY BlockBit, BitmapAssumption
        <5> HIDE DEF start
        <5>4. QED
          BY <5>1, <5>2, <5>3
      <4>4. Bit(c) \in 0 .. BlockBits - 1 /\ Bit(w.highest) \in 0 .. BlockBits - 1
        BY <1>1, BlockBit DEF Bits
      <4>5. QED
        BY <3>2, <4>3, <4>4, BitmapAssumption
    <3>4. Block(c) \in Nat /\ Block(w.highest) \in Nat
      BY <1>1, BlockBit
    <3>5. ~Marked(Moved(w, c), c)
      BY <1>1, <2>2, <3>2, <3>3, <3>4, MovedMarks, BitmapAssumption
    <3>6. QED
      BY <1>1, <3>2, <3>5 DEF Fresh, TooOld
  <2>3. QED
    BY <1>1, <2>1, <2>2
<1>4. ASSUME c \in accepted, w.highest - c <= WindowSize - BlockBits
      PROVE  ~Fresh(w, c)
  <2>1. w.started /\ c <= w.highest
    BY <1>4 DEF Remembers
  <2>2. Recent(w, c)
    BY <1>1, <1>4, <2>1, BlockDistance, BlockMonotone DEF Recent
  <2>3. Marked(w.blocks, c) /\ Moved(w, c) = w.blocks
    BY <1>1, <1>4, <2>1, <2>2, RemembersRecent DEF Moved
  <2>4. QED
    BY <2>1, <2>3 DEF Fresh
<1>5. ASSUME ~Fresh(w, c), ~TooOld(w, c)
      PROVE  c \in accepted \/ c - WindowSize \in accepted
  <2>1. w.started /\ Marked(Moved(w, c), c)
    BY <1>1, <1>5 DEF Fresh
  <2>2. CASE c > w.highest
    <3>1. /\ Block(c) \in Nat /\ Block(w.highest) \in Nat
          /\ Block(w.highest) <= Block(c)
      BY <1>1, <2>2, BlockBit, BlockMonotone
    <3>2. Block(c) <= Block(w.highest) /\ Marked(w.blocks, c)
      BY <2>1, <2>2, <3>1, MovedMarks, BitmapAssumption
    <3>3. Recent(w, c)
      BY <3>1, <3>2, BitmapAssumption DEF Recent
    <3>4. QED
      BY <3>2, <3>3, RemembersRecent
  <2>3. CASE c <= w.highest
    <3>1. Marked(w.blocks, c)
      BY <1>1, <2>1, <2>3 DEF Moved
    <3>2. /\ Block(c) \in Nat /\ Block(w.highest) \in Nat
          /\ Block(c) <= Block(w.highest)
          /\ Block(w.highest) - Block(c) <= NumBlocks
      BY <1>1, <1>5, <2>1, <2>3, BlockBit, BlockMonotone, BlockDistance DEF TooOld
    <3>3. CASE Recent(w, c)
      BY <3>1, <3>3, RemembersRecent
    <3>4. CASE ~Recent(w, c)
      <4> DEFINE d == c + WindowSize
      <4>1. Block(w.highest) = Block(c) + NumBlocks
        BY <3>2, <3>4, BitmapAssumption DEF Recent
      <4>2. d \in Nat /\ d > w.highest
        BY <1>1, <1>5, <2>1, <2>3 DEF TooOld
      <4>3. Block(d) = Block(w.highest) /\ Bit(d) = Bit(c)
        BY <4>1, OneTurn
      <4>4. Slot(Block(d)) = Slot(Block(c))
        BY OneTurn
      <4>5. Recent(w, d) /\ Marked(w.blocks, d)
        BY <3>1, <3>2, <4>3, <4>4, BitmapAssumption DEF Recent, Marked
      <4>6. d \notin accepted
        BY <1>1, <4>2 DEF Remembers
      <4>7. d - WindowSize \in accepted
        BY <4>2, <4>5, <4>6, RemembersRecent
      <4>8. QED
        BY <1>1, <4>7
    <3>5. QED
      BY <3>3, <3>4
  <2>4. QED
    BY <1>1, <2>2, <2>3
<1>6. QED
  BY <1>2, <1>3, <1>4, <1>5
=============================================================================
