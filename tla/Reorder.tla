------------------------------ MODULE Reorder ------------------------------
(***************************************************************************)
(* The receive-side resequencing buffer (internal/reorder/buffer.go).      *)
(* Push and FlushExpired run under the buffer's mutex: each is one step.   *)
(* Packets are named by their global sequence number; several copies of    *)
(* one may arrive (redundant mode, FEC recovery, path duplication).        *)
(*                                                                         *)
(* The helpers drainLocked, skipGapLocked and advanceTo are operators on   *)
(* the record buf; out and freed list what one call emits and releases.    *)
(* Time is relative: deadline is the time left before the pending gap is   *)
(* given up.  Statistics are left out.                                     *)
(***************************************************************************)
EXTENDS SlidingBitmap, Sequences, FiniteSets

CONSTANTS
  RingSize,    \* slots of the ring (8192)
  MaxHold,     \* packets held before a flush is forced (4096)
  Seqs,        \* the sequence numbers that arrive
  Timeouts,    \* what the dynamic gap timeout may return
  MaxCopies    \* bound: arrivals of one sequence number

ASSUME ReorderAssumption ==
  /\ RingSize \in Nat \ {0}
  /\ MaxHold \in Nat
  /\ Seqs \subseteq Nat
  /\ Timeouts \subseteq Nat \ {0}
  /\ MaxCopies \in Nat

VARIABLES
  buf,        \* started, nextSeq, ring, held, deadline; out and freed
  seen,       \* the duplicate filter: seen, seenHigh, seenInit
  pushed,     \* history: copies handed to Push, per sequence number
  emitted,    \* history: copies passed to emit
  released    \* history: copies passed to release

vars == <<buf, seen, pushed, emitted, released>>

Free       == -1   \* an unused ring slot
NoDeadline == -1   \* the zero time

Index(s)    == s % RingSize
Indices     == 0 .. RingSize - 1
Holds(b, s) == b.ring[Index(s)] = s
HeldSeqs(b) == {b.ring[i] : i \in Indices} \ {Free}
Least(S)    == CHOOSE x \in S : \A y \in S : x <= y

-----------------------------------------------------------------------------
Removed(ring, S) == [i \in Indices |-> IF ring[i] \in S THEN Free ELSE ring[i]]

(* The packets of S in the order in which they are emitted.                *)
InOrder(S) ==
  CHOOSE f \in [1 .. Cardinality(S) -> S] :
    \A i, j \in 1 .. Cardinality(S) : i < j => f[i] < f[j]

(* The end of the consecutive run of held packets at nextSeq.              *)
RunEnd(b) ==
  CHOOSE n \in b.nextSeq .. b.nextSeq + b.held :
    /\ \A m \in b.nextSeq .. n - 1 : Holds(b, m)
    /\ n = b.nextSeq + b.held \/ ~Holds(b, n)

(* Mutant of drainLocked: the deadline of the next gap is not armed.       *)
drainUnarmed(b, t) ==
  LET run  == b.nextSeq .. RunEnd(b) - 1
      left == b.held - (RunEnd(b) - b.nextSeq)
  IN  [b EXCEPT
        !.nextSeq  = RunEnd(b),
        !.ring     = Removed(@, run),
        !.held     = left,
        !.deadline = IF left = 0 THEN NoDeadline ELSE @,
        !.out      = @ \o InOrder(run)]

drainLocked(b, t) ==
  LET run  == b.nextSeq .. RunEnd(b) - 1
      left == b.held - (RunEnd(b) - b.nextSeq)
  IN  [b EXCEPT
        !.nextSeq  = RunEnd(b),
        !.ring     = Removed(@, run),
        !.held     = left,
        !.deadline = IF left = 0 THEN NoDeadline
                     ELSE IF @ = NoDeadline THEN t ELSE @,
        !.out      = @ \o InOrder(run)]

(* Mutant of skipGapLocked: it goes on from the newest held packet.        *)
skipToNewest(b, t) ==
  IF HeldSeqs(b) = {}
  THEN [b EXCEPT !.held = 0, !.deadline = NoDeadline]
  ELSE drainLocked([b EXCEPT !.nextSeq  = CHOOSE s \in HeldSeqs(b) :
                                            \A x \in HeldSeqs(b) : s >= x,
                             !.deadline = NoDeadline], t)

(* Give up on the pending gap: go on from the oldest held packet.          *)
skipGapLocked(b, t) ==
  IF HeldSeqs(b) = {}
  THEN [b EXCEPT !.held = 0, !.deadline = NoDeadline]
  ELSE drainLocked([b EXCEPT !.nextSeq  = Least(HeldSeqs(b)),
                             !.deadline = NoDeadline], t)

(* What advanceTo(target) emits: on a huge jump everything held below      *)
(* target, otherwise what a walk from nextSeq to target meets.             *)
Below(b, target) ==
  IF target - b.nextSeq > RingSize
  THEN {s \in HeldSeqs(b) : s < target}
  ELSE {s \in b.nextSeq .. target - 1 : Holds(b, s)}

advanceTo(b, target) ==
  LET gone == Below(b, target)
      left == b.held - Cardinality(gone)
  IN  [b EXCEPT
        !.nextSeq  = target,
        !.ring     = Removed(@, gone),
        !.held     = left,
        !.deadline = IF left = 0 THEN NoDeadline ELSE @,
        !.out      = @ \o InOrder(gone)]

(* Mutant of hold: an occupant is not released.                            *)
holdLeaking(b, s, t) ==
  LET old == b.ring[Index(s)]
      b1  == [b EXCEPT
               !.ring[Index(s)] = s,
               !.held     = IF old = Free THEN @ + 1 ELSE @,
               !.deadline = IF @ = NoDeadline THEN t ELSE @]
  IN  IF b1.held > MaxHold THEN skipGapLocked(b1, t) ELSE b1

(* Mutant of hold: every arrival arms the deadline anew.                   *)
holdRearming(b, s, t) ==
  LET old == b.ring[Index(s)]
      b1  == [b EXCEPT
               !.ring[Index(s)] = s,
               !.held     = IF old = Free THEN @ + 1 ELSE @,
               !.deadline = t,
               !.freed    = IF old = Free THEN @ ELSE Append(@, old)]
  IN  IF b1.held > MaxHold THEN skipGapLocked(b1, t) ELSE b1

(* Mutant of hold: the deadline is not armed.                              *)
holdUnarmed(b, s, t) ==
  LET old == b.ring[Index(s)]
      b1  == [b EXCEPT
               !.ring[Index(s)] = s,
               !.held     = IF old = Free THEN @ + 1 ELSE @,
               !.freed    = IF old = Free THEN @ ELSE Append(@, old)]
  IN  IF b1.held > MaxHold THEN skipGapLocked(b1, t) ELSE b1

(* Keep s for later.  An occupant of its slot is released.                 *)
hold(b, s, t) ==
  LET old == b.ring[Index(s)]
      b1  == [b EXCEPT
               !.ring[Index(s)] = s,
               !.held     = IF old = Free THEN @ + 1 ELSE @,
               !.deadline = IF @ = NoDeadline THEN t ELSE @,
               !.freed    = IF old = Free THEN @ ELSE Append(@, old)]
  IN  IF b1.held > MaxHold THEN skipGapLocked(b1, t) ELSE b1

(* Push of a packet that the duplicate filter lets through.                *)
accept(b, s, t) ==
  LET b0 == [b EXCEPT !.started = TRUE,
                      !.nextSeq = IF b.started THEN @ ELSE s]
      b1 == IF s > b0.nextSeq /\ s - b0.nextSeq >= RingSize
            THEN advanceTo(b0, s) ELSE b0
  IN  CASE s = b1.nextSeq ->
             drainLocked([b1 EXCEPT !.nextSeq = s + 1, !.out = Append(@, s)], t)
        [] s < b1.nextSeq -> [b1 EXCEPT !.out = Append(@, s)]
        [] s > b1.nextSeq -> hold(b1, s, t)

-----------------------------------------------------------------------------
Count(seq, s) == Cardinality({i \in DOMAIN seq : seq[i] = s})

(* The histories follow from what the call emitted and released.           *)
Account ==
  /\ emitted' = [s \in Seqs |-> emitted[s] + Count(buf'.out, s)]
  /\ released' = [s \in Seqs |-> released[s] + Count(buf'.freed, s)]

Idle(b) == [b EXCEPT !.out = <<>>, !.freed = <<>>]

Init ==
  /\ buf = [started |-> FALSE, nextSeq |-> 0,
            ring |-> [i \in Indices |-> Free], held |-> 0,
            deadline |-> NoDeadline, out |-> <<>>, freed |-> <<>>]
  /\ seen = NewWindow
  /\ pushed = [s \in Seqs |-> 0]
  /\ emitted = [s \in Seqs |-> 0]
  /\ released = [s \in Seqs |-> 0]

(* Mutant of markSeen: only a new highest packet is recorded.              *)
markSeenNewest(s, duplicate) ==
  /\ duplicate = ~Fresh(seen, s)
  /\ seen' = IF s > seen.highest THEN Checked(seen, s) ELSE seen

(* markSeen records s and reports whether it is a duplicate.               *)
markSeen(s, duplicate) ==
  /\ duplicate = ~Fresh(seen, s)
  /\ seen' = Checked(seen, s)

Push(s, t) ==
  /\ pushed[s] < MaxCopies
  /\ pushed' = [pushed EXCEPT ![s] = @ + 1]
  /\ \E duplicate \in BOOLEAN :
       /\ markSeen(s, duplicate)
       /\ buf' = IF duplicate THEN [Idle(buf) EXCEPT !.freed = <<s>>]
                              ELSE accept(Idle(buf), s, t)
  /\ Account

FlushExpired(t) ==
  /\ buf.deadline = 0
  /\ buf' = skipGapLocked(Idle(buf), t)
  /\ Account
  /\ UNCHANGED <<seen, pushed>>

(* Time passes; the flusher may run late, so it does not stop at 0.        *)
Tick ==
  /\ buf.deadline > 0
  /\ buf' = [Idle(buf) EXCEPT !.deadline = @ - 1]
  /\ UNCHANGED <<seen, pushed, emitted, released>>

Next ==
  \/ \E s \in Seqs, t \in Timeouts : Push(s, t)
  \/ \E t \in Timeouts : FlushExpired(t)
  \/ Tick

Spec == Init /\ [][Next]_vars

-----------------------------------------------------------------------------
(* The buffer, the duplicate filter and the histories have their types.    *)
TypeOK ==
  /\ buf.started \in BOOLEAN /\ buf.nextSeq \in Nat /\ buf.held \in Nat
  /\ buf.ring \in [Indices -> Nat \cup {Free}]
  /\ buf.deadline \in Nat \cup {NoDeadline}
  /\ buf.out \in Seq(Nat) /\ buf.freed \in Seq(Nat)
  /\ seen \in Windows
  /\ pushed \in [Seqs -> Nat]
  /\ emitted \in [Seqs -> Nat]
  /\ released \in [Seqs -> Nat]

(* The types hold, and between calls every used slot holds the one         *)
(* sequence number that belongs there and that is still awaited (above     *)
(* nextSeq, within the ring's span), held counts the used slots, and a gap *)
(* deadline is armed exactly while something is held.  So no packet can be *)
(* stuck in the ring with nobody waiting for it, and none can hide behind  *)
(* nextSeq.                                                                *)
RingShape ==
  /\ TypeOK
  /\ \A i \in Indices : buf.ring[i] # Free =>
       /\ Index(buf.ring[i]) = i
       /\ buf.nextSeq < buf.ring[i]
       /\ buf.ring[i] < buf.nextSeq + RingSize
  /\ buf.held = Cardinality({i \in Indices : buf.ring[i] # Free})
  /\ buf.deadline # NoDeadline <=> buf.held > 0
  /\ buf.held > 0 => buf.started
  /\ buf.held <= MaxHold

(* "it will be passed to either emit or release exactly once"              *)
(* (buffer.go:138): every copy handed to Push was emitted, was released or *)
(* is still held, and never two of these.                                  *)
EachCopyOnce ==
  \A s \in Seqs :
    pushed[s] = emitted[s] + released[s] + (IF Holds(buf, s) THEN 1 ELSE 0)

(* What a call emits is in order: either one late packet from below        *)
(* nextSeq, or a rising run that starts at or above nextSeq and ends below *)
(* the new nextSeq.  So packets leave out of order only as late passes.    *)
Resequenced ==
  [][LET out == buf'.out IN
     \/ out = <<>>
     \/ Len(out) = 1 /\ out[1] < buf.nextSeq /\ buf'.nextSeq = buf.nextSeq
     \/ /\ \A i \in 1 .. Len(out) - 1 : out[i] < out[i + 1]
        /\ buf.started => buf.nextSeq <= out[1]
        /\ out[Len(out)] < buf'.nextSeq]_vars

(* New arrivals never postpone the moment the pending gap is given up:     *)
(* while the buffer waits for the same nextSeq, its deadline only nears.   *)
GapNotPostponed ==
  [][buf'.nextSeq = buf.nextSeq /\ buf.deadline # NoDeadline
       => buf'.deadline # NoDeadline /\ buf'.deadline <= buf.deadline]_vars

(* The sequence numbers that got past the duplicate filter.                *)
Accepted == {s \in Seqs : emitted[s] > 0 \/ Holds(buf, s)}

(* The duplicate filter is sound while a packet is at most WindowSize -    *)
(* BlockBits behind the highest one: no second copy gets through.  And it  *)
(* refuses a packet only as too old, as a duplicate or as the alias of one *)
(* WindowSize below it.                                                    *)
RecentDuplicatesDropped ==
  [][\A s \in Seqs : pushed'[s] > pushed[s] =>
       /\ s \in Accepted /\ seen.highest - s <= WindowSize - BlockBits
            => buf'.freed = <<s>> /\ buf'.out = <<>>
       /\ buf'.freed = <<s>> =>
            TooOld(seen, s) \/ s \in Accepted \/ s - WindowSize \in Accepted]_vars

-----------------------------------------------------------------------------
(* "markSeen ... reports true if it was already seen (duplicate)"          *)
(* (buffer.go:102): the same packet is never emitted twice.                *)
NeverEmittedTwice == \A s \in Seqs : emitted[s] <= 1

(* "only true duplicates are discarded" (buffer.go:6), but for sequences   *)
(* older than seenSpan: the first copy of a packet is not dropped.         *)
OnlyDuplicatesDiscarded ==
  [][\A s \in Seqs : pushed[s] = 0 /\ released'[s] > 0 => TooOld(seen, s)]_vars

(* "Stale occupant should be impossible (dedup + span checks)"             *)
(* (buffer.go:177): a packet that passes the duplicate filter never finds  *)
(* its ring slot taken, so its Push releases nothing.                      *)
NoStaleOccupant ==
  [][\A s \in Seqs : pushed'[s] > pushed[s] /\ Fresh(seen, s)
       => buf'.freed = <<>>]_vars
=============================================================================
