---------------------------- MODULE ReorderProofs ----------------------------
(***************************************************************************)
(* The resequencing buffer, for every ring size, hold limit, duplicate     *)
(* filter and arrival order: the properties that MCReorder checks on a     *)
(* small instance.                                                         *)
(*                                                                         *)
(* Within a call the buffer is Slotted, between calls it is Settled.       *)
(* Passed says what drainLocked, skipGapLocked and advanceTo have in       *)
(* common: they emit, in order, exactly the held packets that fall behind  *)
(* the new nextSeq.  Took is the same for accept.  The invariant adds the  *)
(* balance of the copies and, for the duplicate filter, that it Remembers  *)
(* what got past it (SlidingBitmapProofs).                                 *)
(***************************************************************************)
EXTENDS Reorder, SlidingBitmapProofs, FiniteSetTheorems, WellFoundedInduction

-----------------------------------------------------------------------------
(* Sequences.                                                              *)

(* The parts of a sequence.                                                *)
LEMMA SeqParts ==
  ASSUME NEW S, NEW a \in Seq(S)
  PROVE  /\ Len(a) \in Nat /\ DOMAIN a = 1 .. Len(a)
         /\ \A i \in 1 .. Len(a) : a[i] \in S
OBVIOUS

(* Two sequences joined.                                                   *)
LEMMA SeqJoined ==
  ASSUME NEW S, NEW a \in Seq(S), NEW b \in Seq(S)
  PROVE  /\ a \o b \in Seq(S) /\ Len(a \o b) = Len(a) + Len(b)
         /\ \A i \in 1 .. Len(a) + Len(b) :
              (a \o b)[i] = IF i <= Len(a) THEN a[i] ELSE b[i - Len(a)]
OBVIOUS

(* A sequence and one more.                                                *)
LEMMA SeqAppended ==
  ASSUME NEW S, NEW a \in Seq(S), NEW x \in S
  PROVE  Append(a, x) \in Seq(S) /\ Append(a, x) = a \o <<x>>
OBVIOUS

(* Only the empty sequence has no part.                                    *)
LEMMA SeqEmpty ==
  ASSUME NEW S, NEW a \in Seq(S), a # <<>>
  PROVE  Len(a) \in Nat \ {0}
OBVIOUS

(* A sequence over a set is one over every larger set.                     *)
LEMMA SeqWider == ASSUME NEW S, NEW T, S \subseteq T, NEW a \in Seq(S) PROVE a \in Seq(T)
OBVIOUS

-----------------------------------------------------------------------------
(* Least elements, and sets listed in order.                               *)

Less == {ss \in Nat \X Nat : ss[1] < ss[2]}

(* The library's theorem, for a relation the provers can expand.           *)
LEMMA LessWellFounded == IsWellFoundedOn(Less, Nat)
  BY NatLessThanWellFounded DEF Less, OpToRel

(* Every set of naturals has a least element (skipGapLocked's search for   *)
(* the oldest held packet).                                                *)
LEMMA LeastOfNats ==
  ASSUME NEW T \in SUBSET Nat, T # {}
  PROVE  Least(T) \in T /\ \A y \in T : Least(T) <= y
<1>1. \E x \in T : \A y \in T : ~(<<y, x>> \in Less)
  BY WFMin, LessWellFounded, Zenon
<1>2. PICK x \in T : \A y \in T : <<y, x>> \notin Less
  BY <1>1
<1>3. ASSUME NEW y \in T PROVE x <= y
  <2>1. x \in Nat /\ y \in Nat
    OBVIOUS
  <2>2. <<y, x>> \in Nat \X Nat /\ <<y, x>>[1] = y /\ <<y, x>>[2] = x
    BY <2>1
  <2>3. y < x => <<y, x>> \in Less
    BY <2>2, Zenon DEF Less
  <2> QED BY <1>2, <2>1, <2>3
<1> QED BY <1>3, Zenon DEF Least

(* f lists the n members of S in rising order.                             *)
Lists(f, n, S) ==
  /\ f \in [1 .. n -> S]
  /\ \A i, j \in 1 .. n : i < j => f[i] < f[j]

(* Every finite set of naturals can be listed in rising order: the least   *)
(* element comes first, and a smaller set is left.                         *)
LEMMA ListExists ==
  ASSUME NEW S \in SUBSET Nat, IsFiniteSet(S)
  PROVE  \E f : Lists(f, Cardinality(S), S)
<1> DEFINE Listed(T) == \E f : Lists(f, Cardinality(T), T)
           Bad == {n \in Nat : \E T \in SUBSET Nat :
                     IsFiniteSet(T) /\ Cardinality(T) = n /\ ~Listed(T)}
<1>1. SUFFICES Bad = {}
  <2>1. Cardinality(S) \in Nat
    BY FS_CardinalityType
  <2> QED BY <1>1, <2>1
<1>2. SUFFICES ASSUME Bad # {} PROVE FALSE
  OBVIOUS
<1> DEFINE n == Least(Bad)
<1>3. n \in Bad /\ \A m \in Bad : n <= m
  <2>1. Bad \in SUBSET Nat
    OBVIOUS
  <2> QED BY <1>2, <2>1, LeastOfNats, Zenon
<1>4. PICK T \in SUBSET Nat : IsFiniteSet(T) /\ Cardinality(T) = n /\ ~Listed(T)
  BY <1>3, Zenon
<1> HIDE DEF n
<1>5. CASE n = 0
  <2>1. Lists([i \in 1 .. 0 |-> 0], 0, T)
    BY DEF Lists
  <2> QED BY <1>4, <1>5, <2>1
<1>6. CASE n # 0
  <2>1. n \in Nat /\ n - 1 \in Nat
    BY <1>3, <1>6
  <2>2. T # {}
    BY <1>4, <1>6, FS_EmptySet
  <2> DEFINE m == Least(T)
             U == T \ {m}
  <2>3. m \in T /\ \A y \in T : m <= y
    BY <2>2, LeastOfNats
  <2> HIDE DEF m
  <2>4. IsFiniteSet(U) /\ Cardinality(U) = n - 1
    BY <1>4, <2>3, FS_RemoveElement
  <2>5. Listed(U)
    <3>1. n - 1 \notin Bad
      BY <1>3, <2>1
    <3> QED BY <2>1, <2>4, <3>1
  <2>6. PICK g : Lists(g, n - 1, U)
    BY <2>4, <2>5
  <2> DEFINE f == [i \in 1 .. n |-> IF i = 1 THEN m ELSE g[i - 1]]
  <2>7. ASSUME NEW i \in 2 .. n PROVE g[i - 1] \in U /\ m < g[i - 1]
    <3>1. i - 1 \in 1 .. n - 1
      BY <2>1
    <3>2. g[i - 1] \in U
      BY <3>1, <2>6 DEF Lists
    <3>3. g[i - 1] \in T /\ g[i - 1] # m /\ m \in Nat /\ g[i - 1] \in Nat
      BY <3>2, <2>3, Zenon
    <3> QED BY <3>2, <3>3, <2>3
  <2>8. f \in [1 .. n -> T]
    BY <2>3, <2>7, <2>1
  <2>9. ASSUME NEW i \in 1 .. n, NEW j \in 1 .. n, i < j PROVE f[i] < f[j]
    <3>1. CASE i = 1
      BY <3>1, <2>7, <2>9, <2>1
    <3>2. CASE i # 1
      <4>1. i - 1 \in 1 .. n - 1 /\ j - 1 \in 1 .. n - 1 /\ i - 1 < j - 1
        BY <3>2, <2>1, <2>9
      <4>2. g[i - 1] < g[j - 1]
        BY <4>1, <2>6 DEF Lists
      <4>3. f[i] = g[i - 1] /\ f[j] = g[j - 1]
        BY <3>2, <2>9, <2>1
      <4> QED BY <4>2, <4>3
    <3> QED BY <3>1, <3>2
  <2>10. Lists(f, n, T)
    BY <2>8, <2>9 DEF Lists
  <2> QED BY <1>4, <2>10
<1> QED BY <1>5, <1>6

Members(out) == {out[i] : i \in 1 .. Len(out)}

(* What is emitted in order is the whole set, each member once.            *)
LEMMA InOrderLists ==
  ASSUME NEW S \in SUBSET Nat, IsFiniteSet(S)
  PROVE  /\ Lists(InOrder(S), Cardinality(S), S)
         /\ InOrder(S) \in Seq(S) /\ Len(InOrder(S)) = Cardinality(S)
         /\ Members(InOrder(S)) = S
<1> DEFINE n == Cardinality(S)
           f == InOrder(S)
<1>1. n \in Nat
  BY FS_CardinalityType
<1>2. Lists(f, n, S)
  <2>1. \E g \in [1 .. n -> S] : \A i, j \in 1 .. n : i < j => g[i] < g[j]
    BY ListExists DEF Lists
  <2> QED BY <2>1, Zenon DEF InOrder, Lists
<1>3. f \in Seq(S) /\ Len(f) = n
  BY <1>1, <1>2 DEF Lists
<1>4. f \in Injection(1 .. n, S)
  <2>1. ASSUME NEW i \in 1 .. n, NEW j \in 1 .. n, f[i] = f[j] PROVE i = j
    <3>1. f[i] \in Nat /\ f[j] \in Nat
      BY <1>2, Zenon DEF Lists
    <3>2. ~(i < j) /\ ~(j < i)
      BY <1>2, <2>1, <3>1 DEF Lists
    <3> QED BY <3>2
  <2> QED BY <1>2, <2>1 DEF Injection, IsInjective, Lists
<1>5. f \in Surjection(1 .. n, S)
  <2>1. Cardinality(1 .. n) = n
    BY <1>1, FS_Interval
  <2> QED BY <1>4, <2>1, FS_Injection
<1>6. Members(f) = S
  BY <1>2, <1>3, <1>5, Zenon DEF Members, Surjection, Lists
<1> QED BY <1>2, <1>3, <1>6

(* out rises, from lo on and below hi.                                     *)
Rising(out, lo, hi) ==
  /\ \A i \in 1 .. Len(out) : lo <= out[i] /\ out[i] < hi
  /\ \A i, j \in 1 .. Len(out) : i < j => out[i] < out[j]

(* What a concatenation has at each place, and in all.                     *)
LEMMA ConcatAt ==
  ASSUME NEW a \in Seq(Nat), NEW b \in Seq(Nat)
  PROVE  LET la == Len(a) lb == Len(b) c == a \o b IN
         /\ la \in Nat /\ lb \in Nat /\ Len(c) = la + lb
         /\ \A i \in 1 .. la : c[i] = a[i] /\ a[i] \in Nat
         /\ \A i \in 1 .. la + lb : i > la => i - la \in 1 .. lb /\ c[i] = b[i - la]
         /\ \A i \in 1 .. lb : i + la \in 1 .. la + lb /\ c[i + la] = b[i] /\ b[i] \in Nat
<1> DEFINE la == Len(a)
           lb == Len(b)
           c == a \o b
<1>1. /\ la \in Nat /\ lb \in Nat /\ Len(c) = la + lb
      /\ \A i \in 1 .. la + lb : c[i] = IF i <= la THEN a[i] ELSE b[i - la]
      /\ \A i \in 1 .. la : a[i] \in Nat
      /\ \A i \in 1 .. lb : b[i] \in Nat
  BY SeqJoined, SeqParts
<1> HIDE DEF la, lb, c
<1>2. \A i \in 1 .. la : c[i] = a[i] /\ a[i] \in Nat
  BY <1>1
<1>3. \A i \in 1 .. la + lb : i > la => i - la \in 1 .. lb /\ c[i] = b[i - la]
  BY <1>1
<1>4. \A i \in 1 .. lb : i + la \in 1 .. la + lb /\ c[i + la] = b[i] /\ b[i] \in Nat
  BY <1>1
<1> QED BY <1>1, <1>2, <1>3, <1>4 DEF la, lb, c

(* A concatenation has the members of both sequences.                      *)
LEMMA MembersConcat ==
  ASSUME NEW a \in Seq(Nat), NEW b \in Seq(Nat)
  PROVE  Members(a \o b) = Members(a) \cup Members(b)
<1> DEFINE la == Len(a)
           lb == Len(b)
           c == a \o b
<1>1. /\ la \in Nat /\ lb \in Nat /\ Len(c) = la + lb
      /\ \A i \in 1 .. la : c[i] = a[i]
      /\ \A i \in 1 .. la + lb : i > la => i - la \in 1 .. lb /\ c[i] = b[i - la]
      /\ \A i \in 1 .. lb : i + la \in 1 .. la + lb /\ c[i + la] = b[i]
  BY ConcatAt
<1> HIDE DEF la, lb, c
<1>2. ASSUME NEW i \in 1 .. la PROVE a[i] \in Members(c)
  <2>1. i \in 1 .. la + lb /\ c[i] = a[i]
    BY <1>1
  <2> QED BY <2>1, <1>1 DEF Members
<1>3. ASSUME NEW i \in 1 .. lb PROVE b[i] \in Members(c)
  BY <1>1 DEF Members
<1>4. ASSUME NEW i \in 1 .. la + lb PROVE c[i] \in Members(a) \cup Members(b)
  <2>1. CASE i <= la
    <3>1. i \in 1 .. la
      BY <2>1, <1>1
    <3> QED BY <3>1, <1>1, Zenon DEF Members, la
  <2>2. CASE i > la
    BY <2>2, <1>1 DEF Members, lb
  <2> QED BY <2>1, <2>2, <1>1
<1>5. ASSUME NEW x \in Members(c) PROVE x \in Members(a) \cup Members(b)
  <2>1. PICK i \in 1 .. la + lb : x = c[i]
    BY <1>1, <1>5 DEF Members
  <2> QED BY <1>4, <2>1
<1>6. Members(a) \subseteq Members(c)
  BY <1>2 DEF Members, la
<1>7. Members(b) \subseteq Members(c)
  BY <1>3 DEF Members, lb
<1> QED BY <1>5, <1>6, <1>7 DEF c

(* Rising sequences of packets, one after the other.                       *)
LEMMA RisingConcat ==
  ASSUME NEW a \in Seq(Nat), NEW b \in Seq(Nat),
         NEW lo \in Nat, NEW mid \in Nat, NEW hi \in Nat, mid <= hi,
         Rising(a, lo, mid), Rising(b, mid, hi), lo <= mid
  PROVE  Rising(a \o b, lo, hi)
<1> DEFINE la == Len(a)
           lb == Len(b)
           c == a \o b
<1>1. /\ la \in Nat /\ lb \in Nat /\ Len(c) = la + lb
      /\ \A i \in 1 .. la : c[i] = a[i] /\ a[i] \in Nat
      /\ \A i \in 1 .. la + lb : i > la => i - la \in 1 .. lb /\ c[i] = b[i - la]
      /\ \A i \in 1 .. lb : b[i] \in Nat
  BY ConcatAt
<1>2. /\ \A i \in 1 .. la : lo <= a[i] /\ a[i] < mid
      /\ \A i, j \in 1 .. la : i < j => a[i] < a[j]
      /\ \A i \in 1 .. lb : mid <= b[i] /\ b[i] < hi
      /\ \A i, j \in 1 .. lb : i < j => b[i] < b[j]
  BY DEF Rising
<1> HIDE DEF la, lb, c
<1>3. ASSUME NEW i \in 1 .. la PROVE c[i] \in Nat /\ lo <= c[i] /\ c[i] < mid
  BY <1>1, <1>2, Zenon
<1>4. ASSUME NEW i \in 1 .. la + lb, i > la PROVE c[i] \in Nat /\ mid <= c[i] /\ c[i] < hi
  BY <1>1, <1>2, <1>4, Zenon
<1>5. ASSUME NEW i \in 1 .. la + lb PROVE lo <= c[i] /\ c[i] < hi
  <2>1. CASE i \in 1 .. la
    BY <1>3, <2>1
  <2>2. CASE i > la
    BY <1>4, <2>2
  <2> QED BY <2>1, <2>2, <1>1
<1>6. ASSUME NEW i \in 1 .. la + lb, NEW j \in 1 .. la + lb, i < j
      PROVE  c[i] < c[j]
  <2>1. CASE i \in 1 .. la /\ j \in 1 .. la
    BY <2>1, <1>1, <1>2, <1>6
  <2>2. CASE i \in 1 .. la /\ j > la
    BY <2>2, <1>3, <1>4
  <2>3. CASE i > la /\ j > la
    <3>1. i - la < j - la
      BY <1>1, <1>6
    <3> QED BY <2>3, <3>1, <1>1, <1>2, Zenon
  <2> QED BY <2>1, <2>2, <2>3, <1>1, <1>6
<1>7. Rising(c, lo, hi)
  BY <1>1, <1>5, <1>6 DEF Rising
<1> QED BY <1>7 DEF c

(* A rising sequence has every packet at most once.                        *)
LEMMA CountRising ==
  ASSUME NEW out \in Seq(Nat), NEW lo, NEW hi, Rising(out, lo, hi), NEW s
  PROVE  Count(out, s) = IF s \in Members(out) THEN 1 ELSE 0
<1> DEFINE at == {i \in DOMAIN out : out[i] = s}
<1>1. Len(out) \in Nat /\ DOMAIN out = 1 .. Len(out)
      /\ \A i \in 1 .. Len(out) : out[i] \in Nat
  BY SeqParts
<1>2. CASE s \in Members(out)
  <2>1. PICK i \in 1 .. Len(out) : out[i] = s
    BY <1>2 DEF Members
  <2>2. ASSUME NEW j \in at PROVE j = i
    <3>1. j \in 1 .. Len(out) /\ out[j] = out[i] /\ out[i] \in Nat
      BY <1>1, <2>1
    <3>2. ~(i < j) /\ ~(j < i)
      BY <3>1, <2>1 DEF Rising
    <3> QED BY <3>1, <3>2
  <2>3. at = {i}
    BY <1>1, <2>1, <2>2
  <2>4. Cardinality(at) = 1
    BY <2>3, FS_Singleton, Zenon
  <2> QED BY <1>2, <2>4 DEF Count
<1>3. CASE s \notin Members(out)
  <2>1. at = {}
    BY <1>1, <1>3 DEF Members
  <2>2. Cardinality(at) = 0
    BY <2>1, FS_EmptySet, Zenon
  <2> QED BY <1>3, <2>2 DEF Count
<1> QED BY <1>2, <1>3

-----------------------------------------------------------------------------
(* Buffers.                                                                *)

Used(ring) == {i \in Indices : ring[i] # Free}

Bufs ==
  [started : BOOLEAN, nextSeq : Nat, ring : [Indices -> Seqs \cup {Free}],
   held : Nat, deadline : Nat \cup {NoDeadline}, out : Seq(Nat), freed : Seq(Nat)]

(* A buffer within a call: every packet held is in its slot and within the *)
(* ring's span, and held counts them.                                      *)
Slotted(b) ==
  /\ b \in Bufs
  /\ \A i \in Indices : b.ring[i] # Free =>
       /\ Index(b.ring[i]) = i
       /\ b.nextSeq <= b.ring[i]
       /\ b.ring[i] < b.nextSeq + RingSize
  /\ b.held = Cardinality(Used(b.ring))

(* A buffer between calls: it waits for nextSeq, against a deadline while  *)
(* it holds packets.                                                       *)
Settled(b) ==
  /\ Slotted(b)
  /\ ~Holds(b, b.nextSeq)
  /\ b.deadline # NoDeadline <=> b.held > 0

(* A sequence number has its own slot.                                     *)
LEMMA IndexType == ASSUME NEW s \in Nat PROVE Index(s) \in Indices
  BY ReorderAssumption, DivMod DEF Index, Indices

(* Two sequence numbers within the span of the ring share no slot.         *)
LEMMA OneSlotEach ==
  ASSUME NEW a \in Nat, NEW b \in Nat, NEW n \in Nat, Index(a) = Index(b),
         n <= a, n <= b, a < n + RingSize, b < n + RingSize
  PROVE  a = b
<1>1. RingSize \in Nat \ {0}
  BY ReorderAssumption
<1>2. ASSUME a < b PROVE b - a >= RingSize
  BY <1>1, <1>2, SameModApart, Zenon DEF Index
<1>3. ASSUME b < a PROVE a - b >= RingSize
  BY <1>1, <1>3, SameModApart, Zenon DEF Index
<1> QED BY <1>1, <1>2, <1>3

(* The slots in use are finitely many.                                     *)
LEMMA UsedFinite ==
  ASSUME NEW ring
  PROVE  /\ IsFiniteSet(Used(ring)) /\ Cardinality(Used(ring)) \in Nat
<1>1. IsFiniteSet(Indices)
  BY ReorderAssumption, FS_Interval DEF Indices
<1>2. Used(ring) \in SUBSET Indices
  BY DEF Used
<1> QED BY <1>1, <1>2, FS_Subset, FS_CardinalityType

(* Taking held packets out of the ring frees as many slots and leaves the  *)
(* other packets where they are.                                           *)
LEMMA RemovedSlots ==
  ASSUME NEW b, Slotted(b), NEW S \in SUBSET Nat, IsFiniteSet(S),
         \A s \in S : Holds(b, s)
  PROVE  LET r == Removed(b.ring, S) IN
         /\ r \in [Indices -> Seqs \cup {Free}]
         /\ \A i \in Indices : r[i] = IF b.ring[i] \in S THEN Free ELSE b.ring[i]
         /\ Cardinality(Used(r)) = b.held - Cardinality(S)
         /\ \A x \in Nat : r[Index(x)] = x <=> Holds(b, x) /\ x \notin S
<1> DEFINE r == Removed(b.ring, S)
           I == {i \in Indices : b.ring[i] \in S}
           f == [s \in S |-> Index(s)]
<1>1. /\ b.ring \in [Indices -> Seqs \cup {Free}] /\ b.nextSeq \in Nat
      /\ b.held = Cardinality(Used(b.ring))
      /\ \A i \in Indices : b.ring[i] # Free => Index(b.ring[i]) = i
  BY DEF Slotted, Bufs
<1>2. Free \notin Nat
  BY DEF Free
<1>3. r \in [Indices -> Seqs \cup {Free}]
      /\ \A i \in Indices : r[i] = IF b.ring[i] \in S THEN Free ELSE b.ring[i]
  BY <1>1 DEF Removed
<1>4. \A x \in Nat : r[Index(x)] = x <=> Holds(b, x) /\ x \notin S
  BY <1>2, <1>3, IndexType DEF Holds
<1>5. Used(r) = Used(b.ring) \ I
  BY <1>2, <1>3 DEF Used
<1>6. f \in Bijection(S, I)
  <2>1. \A s \in S : f[s] \in I /\ b.ring[f[s]] = s
    BY IndexType DEF Holds
  <2>2. f \in [S -> I]
    BY <2>1
  <2>3. \A s, t \in S : f[s] = f[t] => s = t
    BY <2>1
  <2>4. ASSUME NEW i \in I PROVE \E s \in S : f[s] = i
    <3>1. b.ring[i] \in S /\ b.ring[i] # Free /\ i \in Indices
      BY <1>2, Zenon
    <3>2. f[b.ring[i]] = i
      BY <1>1, <3>1
    <3> QED BY <3>1, <3>2, Zenon
  <2> HIDE DEF f, I
  <2> QED BY <2>2, <2>3, <2>4 DEF Bijection, Injection, Surjection, IsInjective
<1>7. IsFiniteSet(I) /\ Cardinality(I) = Cardinality(S)
  BY <1>6, FS_Bijection DEF ExistsBijection
<1>8. Used(b.ring) \cap I = I
  BY <1>2 DEF Used
<1>9. Cardinality(Used(r)) = b.held - Cardinality(S)
  <2>1. /\ IsFiniteSet(Used(b.ring))
        /\ Cardinality(Used(b.ring) \ I)
             = Cardinality(Used(b.ring)) - Cardinality(Used(b.ring) \cap I)
    BY UsedFinite, FS_Difference, Zenon
  <2> HIDE DEF I, r
  <2> QED BY <1>1, <1>5, <1>7, <1>8, <2>1, Zenon
<1> QED BY <1>3, <1>4, <1>9

-----------------------------------------------------------------------------
(* The helpers of a call.                                                  *)

(* The run that drainLocked emits: every packet from nextSeq on is held,   *)
(* and the one after the run is not, or there would be more packets than   *)
(* held counts.                                                            *)
LEMMA RunEndFound ==
  ASSUME NEW b, Slotted(b)
  PROVE  /\ RunEnd(b) \in b.nextSeq .. b.nextSeq + b.held
         /\ \A m \in b.nextSeq .. RunEnd(b) - 1 : Holds(b, m)
         /\ ~Holds(b, RunEnd(b))
<1> DEFINE lo == b.nextSeq
           hi == b.nextSeq + b.held
           T  == {n \in lo .. hi : n = hi \/ ~Holds(b, n)}
           n  == RunEnd(b)
<1>1. /\ lo \in Nat /\ hi \in Nat /\ lo <= hi /\ b.held \in Nat
      /\ b.ring \in [Indices -> Seqs \cup {Free}]
      /\ b.held = Cardinality(Used(b.ring))
  BY DEF Slotted, Bufs
<1>2. n \in lo .. hi /\ (\A m \in lo .. n - 1 : Holds(b, m)) /\ (n = hi \/ ~Holds(b, n))
  <2>1. T \in SUBSET Nat /\ T # {}
    BY <1>1
  <2> DEFINE l == Least(T)
  <2>2. l \in T /\ \A y \in T : l <= y
    BY <2>1, LeastOfNats
  <2> HIDE DEF l
  <2>3. ASSUME NEW m \in lo .. l - 1 PROVE Holds(b, m)
    <3>1. m \in lo .. hi /\ ~(l <= m)
      BY <1>1, <2>2
    <3> QED BY <2>2, <3>1
  <2>4. \E k \in lo .. hi : (\A m \in lo .. k - 1 : Holds(b, m)) /\ (k = hi \/ ~Holds(b, k))
    BY <2>2, <2>3
  <2> QED BY <2>4 DEF RunEnd
<1> HIDE DEF n
<1>3. ASSUME Holds(b, n) PROVE FALSE
  <2>1. n = hi /\ \A m \in lo .. hi : Holds(b, m)
    BY <1>1, <1>2, <1>3
  <2> DEFINE f == [m \in lo .. hi |-> Index(m)]
             U == Used(b.ring)
  <2>2. ASSUME NEW m \in lo .. hi PROVE f[m] \in U /\ b.ring[f[m]] = m
    <3>1. m \in Nat /\ f[m] = Index(m) /\ Index(m) \in Indices
      BY <1>1, IndexType
    <3>2. b.ring[Index(m)] = m
      BY <2>1 DEF Holds
    <3> QED BY <3>1, <3>2 DEF Used, Free
  <2>3. f \in [lo .. hi -> U]
    BY <2>2, Zenon
  <2>4. \A x, y \in lo .. hi : f[x] = f[y] => x = y
    BY <2>2, Zenon
  <2>5. f \in Injection(lo .. hi, U)
    <3> HIDE DEF f, U
    <3> QED BY <2>3, <2>4 DEF Injection, IsInjective
  <2>6. Cardinality(lo .. hi) <= Cardinality(U)
    BY <2>5, UsedFinite, FS_Injection
  <2>7. Cardinality(lo .. hi) = b.held + 1
    <3>1. \A x, y \in Int : Cardinality(x .. y) = IF x > y THEN 0 ELSE y - x + 1
      BY FS_Interval
    <3>2. lo \in Int /\ hi \in Int /\ ~(lo > hi) /\ hi - lo + 1 = b.held + 1
      BY <1>1
    <3> QED BY <3>1, <3>2
  <2> QED BY <1>1, <2>6, <2>7
<1> QED BY <1>2, <1>3 DEF n

(* What the steps from b to c within a call did: they emitted, in order,   *)
(* exactly the packets of b that are now behind nextSeq.                   *)
Passed(b, c) ==
  /\ b.nextSeq <= c.nextSeq
  /\ c.started = b.started /\ c.freed = b.freed
  /\ c.held <= b.held
  /\ \A x \in Nat : Holds(c, x) <=> Holds(b, x) /\ c.nextSeq <= x
  /\ Members(c.out) = Members(b.out) \cup {x \in Nat : Holds(b, x) /\ x < c.nextSeq}
  /\ \A lo \in Nat : lo <= b.nextSeq /\ Rising(b.out, lo, b.nextSeq)
                       => Rising(c.out, lo, c.nextSeq)

(* A set of packets emitted in order rises.                                *)
LEMMA InOrderRising ==
  ASSUME NEW S \in SUBSET Nat, IsFiniteSet(S), NEW lo \in Nat, NEW hi \in Nat,
         \A x \in S : lo <= x /\ x < hi
  PROVE  /\ Rising(InOrder(S), lo, hi) /\ Members(InOrder(S)) = S
         /\ InOrder(S) \in Seq(Nat)
<1>1. /\ Lists(InOrder(S), Cardinality(S), S)
      /\ InOrder(S) \in Seq(S) /\ Len(InOrder(S)) = Cardinality(S)
      /\ Members(InOrder(S)) = S
  BY InOrderLists
<1>2. Rising(InOrder(S), lo, hi)
  <2> DEFINE f == InOrder(S)
             n == Cardinality(S)
  <2> HIDE DEF f, n
  <2>1. f \in [1 .. n -> S] /\ (\A i, j \in 1 .. n : i < j => f[i] < f[j]) /\ Len(f) = n
    BY <1>1 DEF Lists, f, n
  <2>2. Rising(f, lo, hi)
    BY <2>1, Zenon DEF Rising
  <2> QED BY <2>2 DEF f
<1>3. InOrder(S) \in Seq(Nat)
  BY <1>1, SeqWider, Zenon
<1> QED BY <1>1, <1>2, <1>3

(* The sequence of what b emitted and then a set of packets between its    *)
(* nextSeq and hi.                                                         *)
LEMMA EmitMore ==
  ASSUME NEW out \in Seq(Nat), NEW S \in SUBSET Nat, IsFiniteSet(S),
         NEW mid \in Nat, NEW hi \in Nat, mid <= hi,
         \A x \in S : mid <= x /\ x < hi
  PROVE  /\ out \o InOrder(S) \in Seq(Nat)
         /\ \A lo \in Nat : lo <= mid /\ Rising(out, lo, mid)
              => Rising(out \o InOrder(S), lo, hi)
         /\ Members(out \o InOrder(S)) = Members(out) \cup S
<1> DEFINE f == InOrder(S)
<1>1. Rising(f, mid, hi) /\ Members(f) = S /\ f \in Seq(Nat)
  BY InOrderRising, Zenon
<1> HIDE DEF f
<1>2. out \o f \in Seq(Nat)
  BY <1>1, SeqJoined
<1>3. ASSUME NEW lo \in Nat, lo <= mid, Rising(out, lo, mid)
      PROVE  Rising(out \o f, lo, hi)
  BY <1>1, <1>3, RisingConcat
<1>4. Members(out \o f) = Members(out) \cup Members(f)
  BY <1>1, MembersConcat
<1> QED BY <1>1, <1>2, <1>3, <1>4 DEF f

(* drainLocked settles a buffer and passes what it emits.                  *)
LEMMA DrainPasses ==
  ASSUME NEW b, Slotted(b), NEW t \in Timeouts
  PROVE  LET c == drainLocked(b, t) IN
         /\ Settled(c) /\ Passed(b, c)
         /\ Holds(b, b.nextSeq) => b.nextSeq < c.nextSeq /\ c.held < b.held
<1> DEFINE c    == drainLocked(b, t)
           n    == RunEnd(b)
           run  == b.nextSeq .. n - 1
           r    == Removed(b.ring, run)
           left == b.held - (n - b.nextSeq)
<1>1. /\ b \in Bufs /\ b.nextSeq \in Nat /\ b.held \in Nat
      /\ b.ring \in [Indices -> Seqs \cup {Free}] /\ b.out \in Seq(Nat)
      /\ b.deadline \in Nat \cup {NoDeadline}
      /\ \A i \in Indices : b.ring[i] # Free =>
           Index(b.ring[i]) = i /\ b.nextSeq <= b.ring[i] /\ b.ring[i] < b.nextSeq + RingSize
  BY DEF Slotted, Bufs
<1>2. /\ n \in b.nextSeq .. b.nextSeq + b.held /\ n \in Nat /\ b.nextSeq <= n
      /\ \A m \in run : Holds(b, m)
      /\ ~Holds(b, n)
  BY <1>1, RunEndFound
<1>3. c = [b EXCEPT !.nextSeq = n, !.ring = r, !.held = left,
                    !.deadline = IF left = 0 THEN NoDeadline
                                 ELSE IF @ = NoDeadline THEN t ELSE @,
                    !.out = @ \o InOrder(run)]
  BY DEF drainLocked
<1> HIDE DEF c, n
<1>4. run \in SUBSET Nat /\ IsFiniteSet(run) /\ Cardinality(run) = n - b.nextSeq
  <2>1. run \in SUBSET Nat
    BY <1>1
  <2>2. \A x, y \in Int : /\ IsFiniteSet(x .. y)
                          /\ Cardinality(x .. y) = IF x > y THEN 0 ELSE y - x + 1
    BY FS_Interval
  <2>3. b.nextSeq \in Int /\ n - 1 \in Int
    BY <1>1, <1>2
  <2>4. IF b.nextSeq > n - 1 THEN n - b.nextSeq = 0 ELSE n - b.nextSeq = (n - 1) - b.nextSeq + 1
    BY <1>1, <1>2
  <2> QED BY <2>1, <2>2, <2>3, <2>4
<1> HIDE DEF run
<1>5. /\ r \in [Indices -> Seqs \cup {Free}]
      /\ \A i \in Indices : r[i] = IF b.ring[i] \in run THEN Free ELSE b.ring[i]
      /\ Cardinality(Used(r)) = b.held - Cardinality(run)
      /\ \A x \in Nat : r[Index(x)] = x <=> Holds(b, x) /\ x \notin run
  BY <1>2, <1>4, RemovedSlots
<1> HIDE DEF r
<1>6. left = Cardinality(Used(r)) /\ left \in Nat /\ left <= b.held
  BY <1>1, <1>2, <1>4, <1>5, UsedFinite
<1>7. /\ b.out \o InOrder(run) \in Seq(Nat)
      /\ \A lo \in Nat : lo <= b.nextSeq /\ Rising(b.out, lo, b.nextSeq)
           => Rising(b.out \o InOrder(run), lo, n)
      /\ Members(b.out \o InOrder(run)) = Members(b.out) \cup run
  <2>1. \A x \in run : b.nextSeq <= x /\ x < n
    BY <1>1, <1>2 DEF run
  <2> QED BY <1>1, <1>2, <1>4, <2>1, EmitMore, Zenon
<1> HIDE DEF left
<1>8. /\ c \in Bufs /\ c.nextSeq = n /\ c.ring = r /\ c.held = left
      /\ c.out = b.out \o InOrder(run)
      /\ c.started = b.started /\ c.freed = b.freed
      /\ c.deadline # NoDeadline <=> left > 0
  <2> DEFINE o  == b.out \o InOrder(run)
             dl == IF left = 0 THEN NoDeadline
                   ELSE IF b.deadline = NoDeadline THEN t ELSE b.deadline
  <2>1. t \in Nat /\ t # NoDeadline
    BY ReorderAssumption DEF NoDeadline
  <2>2. dl \in Nat \cup {NoDeadline} /\ (dl # NoDeadline <=> left > 0)
    BY <1>1, <1>6, <2>1
  <2>3. c = [b EXCEPT !.nextSeq = n, !.ring = r, !.held = left, !.deadline = dl, !.out = o]
    BY <1>3
  <2>4. o \in Seq(Nat)
    BY <1>7
  <2> HIDE DEF dl, o
  <2>5. c.deadline = dl /\ c.out = o
    BY <1>1, <2>3 DEF Bufs
  <2>6. /\ c \in Bufs /\ c.nextSeq = n /\ c.ring = r /\ c.held = left
        /\ c.started = b.started /\ c.freed = b.freed
    BY <1>1, <1>2, <1>5, <1>6, <2>2, <2>3, <2>4, Zenon DEF Bufs
  <2> QED BY <2>2, <2>5, <2>6 DEF o
<1>9. \A x \in Nat : Holds(b, x) => b.nextSeq <= x
  <2>1. ASSUME NEW x \in Nat, Holds(b, x) PROVE b.nextSeq <= x
    <3>1. Index(x) \in Indices /\ b.ring[Index(x)] = x /\ x # Free
      BY <2>1, IndexType DEF Holds, Free
    <3> QED BY <3>1, <1>1
  <2> QED BY <2>1
<1>10. \A x \in Nat : Holds(c, x) <=> Holds(b, x) /\ n <= x
  <2>1. ASSUME NEW x \in Nat, Holds(b, x) PROVE x \notin run <=> n <= x
    BY <1>1, <1>2, <1>9, <2>1 DEF run
  <2> QED BY <1>5, <1>8, <2>1 DEF Holds
<1>11. Settled(c)
  <2>1. ASSUME NEW i \in Indices, r[i] # Free
        PROVE  Index(r[i]) = i /\ n <= r[i] /\ r[i] < n + RingSize
    <3>1. r[i] = b.ring[i] /\ b.ring[i] \notin run /\ b.ring[i] # Free /\ b.ring[i] \in Nat
      BY <1>5, <2>1, ReorderAssumption, <1>1, Zenon DEF Free
    <3>2. /\ Index(b.ring[i]) = i /\ b.nextSeq <= b.ring[i]
          /\ b.ring[i] < b.nextSeq + RingSize
      BY <1>1, <3>1
    <3>3. n <= b.ring[i]
      BY <3>1, <3>2, <1>1, <1>2 DEF run
    <3>4. b.ring[i] < n + RingSize
      BY <3>1, <3>2, <1>1, <1>2, ReorderAssumption
    <3> QED BY <3>1, <3>2, <3>3, <3>4
  <2>2. Slotted(c)
    BY <1>6, <1>8, <2>1 DEF Slotted
  <2>3. ~Holds(c, n)
    BY <1>2, <1>10
  <2> QED BY <1>8, <2>2, <2>3 DEF Settled
<1>12. Passed(b, c)
  <2>1. run = {x \in Nat : Holds(b, x) /\ x < n}
    BY <1>1, <1>2, <1>9 DEF run
  <2> QED BY <1>2, <1>6, <1>7, <1>8, <1>10, <2>1 DEF Passed
<1>13. ASSUME Holds(b, b.nextSeq) PROVE b.nextSeq < n /\ left < b.held
  <2>1. n # b.nextSeq
    BY <1>2, <1>13
  <2>2. b.nextSeq < n
    BY <1>1, <1>2, <2>1
  <2> QED BY <1>1, <1>2, <2>2 DEF left
<1> QED BY <1>8, <1>11, <1>12, <1>13 DEF c

(* The packets held, as sequence numbers and as slots.                     *)
LEMMA HeldSlots ==
  ASSUME NEW b, Slotted(b)
  PROVE  /\ HeldSeqs(b) \in SUBSET Nat
         /\ \A x \in Nat : x \in HeldSeqs(b) <=> Holds(b, x)
         /\ \A x \in Nat : Holds(b, x) => b.nextSeq <= x /\ x < b.nextSeq + RingSize
         /\ b.held > 0 => HeldSeqs(b) # {}
<1>1. /\ b.ring \in [Indices -> Seqs \cup {Free}] /\ b.nextSeq \in Nat
      /\ \A i \in Indices : b.ring[i] # Free =>
           Index(b.ring[i]) = i /\ b.nextSeq <= b.ring[i] /\ b.ring[i] < b.nextSeq + RingSize
      /\ b.held = Cardinality(Used(b.ring))
  BY DEF Slotted, Bufs
<1>2. HeldSeqs(b) \in SUBSET Nat
  BY <1>1, ReorderAssumption, Zenon DEF HeldSeqs
<1>3. ASSUME NEW x \in Nat
      PROVE  x \in HeldSeqs(b) <=> Holds(b, x)
  <2>1. Index(x) \in Indices /\ x # Free
    BY IndexType DEF Free
  <2> QED BY <1>1, <2>1 DEF HeldSeqs, Holds
<1>4. ASSUME NEW x \in Nat, Holds(b, x)
      PROVE  b.nextSeq <= x /\ x < b.nextSeq + RingSize
  <2>1. Index(x) \in Indices /\ b.ring[Index(x)] = x /\ x # Free
    BY <1>4, IndexType DEF Holds, Free
  <2> QED BY <1>1, <2>1
<1>5. ASSUME b.held > 0 PROVE HeldSeqs(b) # {}
  <2>1. Used(b.ring) # {}
    BY <1>1, <1>5, FS_EmptySet
  <2> QED BY <2>1 DEF Used, HeldSeqs
<1> QED BY <1>2, <1>3, <1>4, <1>5

(* skipGapLocked gives up the gap: it goes on behind it, with fewer        *)
(* packets held.                                                           *)
LEMMA SkipPasses ==
  ASSUME NEW b, Slotted(b), ~Holds(b, b.nextSeq), b.held > 0, NEW t \in Timeouts
  PROVE  LET c == skipGapLocked(b, t) IN
         Settled(c) /\ Passed(b, c) /\ b.nextSeq < c.nextSeq /\ c.held < b.held
<1> DEFINE l == Least(HeldSeqs(b))
           a == [b EXCEPT !.nextSeq = l, !.deadline = NoDeadline]
           c == drainLocked(a, t)
<1>1. /\ HeldSeqs(b) \in SUBSET Nat /\ HeldSeqs(b) # {}
      /\ \A x \in Nat : x \in HeldSeqs(b) <=> Holds(b, x)
      /\ \A x \in Nat : Holds(b, x) => b.nextSeq <= x /\ x < b.nextSeq + RingSize
  BY HeldSlots
<1>2. l \in HeldSeqs(b) /\ l \in Nat /\ \A y \in HeldSeqs(b) : l <= y
  BY <1>1, LeastOfNats
<1>3. skipGapLocked(b, t) = c
  BY <1>1 DEF skipGapLocked
<1> HIDE DEF l, c
<1>4. b \in Bufs /\ b.nextSeq \in Nat /\ b.out \in Seq(Nat)
      /\ b.ring \in [Indices -> Seqs \cup {Free}] /\ b.held \in Nat
  BY DEF Slotted, Bufs
<1>5. Holds(b, l) /\ b.nextSeq < l
  <2>1. Holds(b, l) /\ b.nextSeq <= l
    BY <1>1, <1>2
  <2> QED BY <1>2, <1>4, <2>1
<1>6. /\ a \in Bufs /\ a.nextSeq = l /\ a.ring = b.ring /\ a.held = b.held
      /\ a.out = b.out /\ a.freed = b.freed /\ a.started = b.started
  BY <1>2, <1>4, Zenon DEF Bufs
<1> HIDE DEF a
<1>7. \A x : Holds(a, x) <=> Holds(b, x)
  BY <1>6 DEF Holds
<1>8. Slotted(a)
  <2>1. ASSUME NEW i \in Indices, b.ring[i] # Free
        PROVE  Index(b.ring[i]) = i /\ l <= b.ring[i] /\ b.ring[i] < l + RingSize
    <3>1. b.ring[i] \in HeldSeqs(b) /\ b.ring[i] \in Nat
      BY <2>1, <1>1 DEF HeldSeqs
    <3>2. Index(b.ring[i]) = i /\ b.ring[i] < b.nextSeq + RingSize
      BY <2>1 DEF Slotted
    <3>3. b.ring[i] < l + RingSize
      BY <3>1, <3>2, <1>2, <1>4, <1>5, ReorderAssumption
    <3> QED BY <3>1, <3>2, <3>3, <1>2
  <2>2. b.held = Cardinality(Used(b.ring))
    BY DEF Slotted
  <2> QED BY <1>6, <2>1, <2>2 DEF Slotted
<1>9. Settled(c) /\ Passed(a, c) /\ a.nextSeq < c.nextSeq /\ c.held < a.held
  <2>1. Holds(a, a.nextSeq)
    BY <1>5, <1>6, <1>7
  <2> QED BY <1>8, <2>1, DrainPasses DEF c
<1>10. c.nextSeq \in Nat /\ c.held \in Nat
  BY <1>9 DEF Settled, Slotted, Bufs
<1>11. Passed(b, c)
  <2>1. ASSUME NEW lo \in Nat, lo <= b.nextSeq, Rising(b.out, lo, b.nextSeq)
        PROVE  Rising(c.out, lo, c.nextSeq)
    <3>1. Rising(a.out, lo, a.nextSeq)
      <4>1. \A i \in 1 .. Len(b.out) : b.out[i] \in Nat
        BY <1>4, SeqParts
      <4>2. \A i \in 1 .. Len(b.out) : lo <= b.out[i] /\ b.out[i] < b.nextSeq
        BY <2>1 DEF Rising
      <4>3. \A i \in 1 .. Len(b.out) : b.out[i] < l
        BY <1>2, <1>4, <1>5, <4>1, <4>2
      <4> QED BY <1>6, <2>1, <4>2, <4>3 DEF Rising
    <3>2. lo <= a.nextSeq
      BY <1>2, <1>4, <1>5, <1>6, <2>1
    <3> QED BY <1>9, <3>1, <3>2 DEF Passed
  <2>2. b.nextSeq <= c.nextSeq /\ c.held <= b.held
    BY <1>2, <1>4, <1>5, <1>6, <1>9, <1>10
  <2>3. /\ c.started = b.started /\ c.freed = b.freed
        /\ \A x \in Nat : Holds(c, x) <=> Holds(b, x) /\ c.nextSeq <= x
        /\ Members(c.out) = Members(b.out) \cup {x \in Nat : Holds(b, x) /\ x < c.nextSeq}
    BY <1>6, <1>7, <1>9 DEF Passed
  <2> QED BY <2>1, <2>2, <2>3 DEF Passed
<1>12. b.nextSeq < c.nextSeq /\ c.held < b.held
  BY <1>2, <1>4, <1>5, <1>6, <1>9, <1>10
<1> QED BY <1>3, <1>9, <1>11, <1>12

(* advanceTo a packet beyond the span of the ring empties it.              *)
LEMMA AdvancePasses ==
  ASSUME NEW b, Slotted(b), NEW s \in Nat, s - b.nextSeq >= RingSize
  PROVE  LET c == advanceTo(b, s) IN
         /\ Slotted(c) /\ Passed(b, c) /\ c.nextSeq = s
         /\ c.held = 0 /\ \A x \in Nat : ~Holds(c, x)
<1> DEFINE gone == Below(b, s)
           r    == Removed(b.ring, gone)
           left == b.held - Cardinality(gone)
           c    == advanceTo(b, s)
           out  == b.out \o InOrder(gone)
<1>1. /\ b \in Bufs /\ b.nextSeq \in Nat /\ b.held \in Nat /\ b.out \in Seq(Nat)
      /\ b.ring \in [Indices -> Seqs \cup {Free}] /\ RingSize \in Nat \ {0}
      /\ b.deadline \in Nat \cup {NoDeadline}
  BY ReorderAssumption DEF Slotted, Bufs
<1>2. b.nextSeq <= s /\ b.nextSeq + RingSize <= s
  BY <1>1
<1>3. gone = {x \in Nat : Holds(b, x)}
  <2>1. /\ \A x \in Nat : x \in HeldSeqs(b) <=> Holds(b, x)
        /\ \A x \in Nat : Holds(b, x) => b.nextSeq <= x /\ x < b.nextSeq + RingSize
        /\ HeldSeqs(b) \in SUBSET Nat
    BY HeldSlots
  <2>2. \A x \in Nat : Holds(b, x) => b.nextSeq <= x /\ x < s
    BY <1>1, <1>2, <2>1
  <2>3. CASE s - b.nextSeq > RingSize
    BY <2>1, <2>2, <2>3 DEF Below
  <2>4. CASE ~(s - b.nextSeq > RingSize)
    <3>1. gone = {x \in b.nextSeq .. s - 1 : Holds(b, x)}
      BY <2>4 DEF Below
    <3> QED BY <1>1, <2>2, <3>1
  <2> QED BY <2>3, <2>4
<1>4. \A x \in gone : b.nextSeq <= x /\ x < s /\ x \in Nat /\ Holds(b, x)
  BY <1>1, <1>2, <1>3, HeldSlots
<1>5. gone \in SUBSET Nat /\ IsFiniteSet(gone) /\ Cardinality(gone) \in Nat
  <2>1. gone \in SUBSET (0 .. s)
    BY <1>4
  <2>2. IsFiniteSet(0 .. s)
    BY FS_Interval
  <2> QED BY <2>1, <2>2, <1>4, FS_Subset, FS_CardinalityType
<1>6. c = [b EXCEPT !.nextSeq = s, !.ring = r, !.held = left,
                    !.deadline = IF left = 0 THEN NoDeadline ELSE @,
                    !.out = out]
  BY DEF advanceTo
<1> HIDE DEF gone, c
<1>7. /\ r \in [Indices -> Seqs \cup {Free}]
      /\ \A i \in Indices : r[i] = IF b.ring[i] \in gone THEN Free ELSE b.ring[i]
      /\ Cardinality(Used(r)) = b.held - Cardinality(gone)
      /\ \A x \in Nat : r[Index(x)] = x <=> Holds(b, x) /\ x \notin gone
  BY <1>4, <1>5, RemovedSlots
<1> HIDE DEF r
<1>8. \A i \in Indices : r[i] = Free
  <2>1. ASSUME NEW i \in Indices, b.ring[i] # Free PROVE b.ring[i] \in gone
    <3>1. b.ring[i] \in Nat /\ Index(b.ring[i]) = i
      BY <1>1, <2>1, ReorderAssumption, Zenon DEF Slotted
    <3> QED BY <1>3, <3>1 DEF Holds
  <2> QED BY <1>7, <2>1
<1>9. left = 0 /\ left = Cardinality(Used(r))
  <2>1. Used(r) = {}
    BY <1>8 DEF Used
  <2> QED BY <1>7, <2>1, FS_EmptySet
<1>10. /\ out \in Seq(Nat)
       /\ \A lo \in Nat : lo <= b.nextSeq /\ Rising(b.out, lo, b.nextSeq)
            => Rising(out, lo, s)
       /\ Members(out) = Members(b.out) \cup gone
  BY <1>1, <1>2, <1>4, <1>5, EmitMore, Zenon
<1> HIDE DEF out, left
<1>11. /\ c \in Bufs /\ c.nextSeq = s /\ c.ring = r /\ c.held = 0 /\ c.out = out
       /\ c.started = b.started /\ c.freed = b.freed
  <2>1. c = [b EXCEPT !.nextSeq = s, !.ring = r, !.held = 0,
                      !.deadline = NoDeadline, !.out = out]
    BY <1>6, <1>9
  <2> QED BY <1>1, <1>7, <1>10, <2>1, Zenon DEF Bufs
<1>12. Slotted(c)
  BY <1>8, <1>9, <1>11 DEF Slotted
<1>13. \A x \in Nat : ~Holds(c, x)
  BY <1>8, <1>11, IndexType DEF Holds, Free
<1>14. Passed(b, c)
  <2>1. \A x \in Nat : Holds(b, x) => ~(s <= x)
    BY <1>3, <1>4
  <2>2. gone = {x \in Nat : Holds(b, x) /\ x < s}
    BY <1>3, <1>4
  <2> QED BY <1>1, <1>2, <1>10, <1>11, <1>13, <2>1, <2>2 DEF Passed
<1> QED BY <1>11, <1>12, <1>13, <1>14 DEF c

(* hold before it looks at MaxHold: s is in its slot.                      *)
Put(b, s, t) ==
  LET old == b.ring[Index(s)] IN
  [b EXCEPT !.ring[Index(s)] = s,
            !.held     = IF old = Free THEN @ + 1 ELSE @,
            !.deadline = IF @ = NoDeadline THEN t ELSE @,
            !.freed    = IF old = Free THEN @ ELSE Append(@, old)]

(* A packet ahead of the gap goes into a free slot, or into the one where  *)
(* its own first copy is.                                                  *)
LEMMA PutSlotted ==
  ASSUME NEW b, Settled(b), NEW s \in Seqs, b.nextSeq < s, s < b.nextSeq + RingSize,
         NEW t \in Timeouts
  PROVE  LET a == Put(b, s, t) IN
         /\ Slotted(a) /\ ~Holds(a, a.nextSeq)
         /\ a.nextSeq = b.nextSeq /\ a.started = b.started /\ a.out = b.out
         /\ a.held > 0 /\ a.held <= b.held + 1
         /\ a.deadline # NoDeadline
         /\ b.deadline # NoDeadline => a.deadline = b.deadline
         /\ a.freed = IF Holds(b, s) THEN Append(b.freed, s) ELSE b.freed
         /\ \A x \in Nat : Holds(a, x) <=> Holds(b, x) \/ x = s
<1> DEFINE k    == Index(s)
           old  == b.ring[k]
           ring == [b.ring EXCEPT ![k] = s]
           held == IF old = Free THEN b.held + 1 ELSE b.held
           dl   == IF b.deadline = NoDeadline THEN t ELSE b.deadline
           fr   == IF old = Free THEN b.freed ELSE Append(b.freed, old)
           a    == Put(b, s, t)
<1>1. /\ b \in Bufs /\ b.nextSeq \in Nat /\ b.held \in Nat
      /\ b.ring \in [Indices -> Seqs \cup {Free}] /\ RingSize \in Nat \ {0}
      /\ b.deadline \in Nat \cup {NoDeadline} /\ b.freed \in Seq(Nat)
      /\ b.held = Cardinality(Used(b.ring)) /\ Slotted(b) /\ ~Holds(b, b.nextSeq)
      /\ \A i \in Indices : b.ring[i] # Free =>
           Index(b.ring[i]) = i /\ b.nextSeq <= b.ring[i] /\ b.ring[i] < b.nextSeq + RingSize
  BY ReorderAssumption, Zenon DEF Settled, Slotted, Bufs
<1>2. s \in Nat /\ s # Free /\ k \in Indices /\ Free \notin Nat
  BY ReorderAssumption, IndexType DEF Free
<1>3. t \in Nat /\ t # NoDeadline
  BY ReorderAssumption DEF NoDeadline
<1>4. old # Free => old = s
  <2>1. ASSUME old # Free PROVE old = s
    <3>1. /\ old \in Nat /\ Index(old) = Index(s)
          /\ b.nextSeq <= old /\ old < b.nextSeq + RingSize
      BY <1>1, <1>2, <2>1, ReorderAssumption, Zenon
    <3>2. b.nextSeq <= s
      BY <1>1, <1>2
    <3> QED BY <3>1, <3>2, <1>1, <1>2, OneSlotEach, Zenon
  <2> QED BY <2>1
<1>5. Holds(b, s) <=> old # Free
  BY <1>2, <1>4 DEF Holds
<1>6. a = [b EXCEPT !.ring = ring, !.held = held, !.deadline = dl, !.freed = fr]
  <2>1. a = [b EXCEPT !.ring[k] = s, !.held = held, !.deadline = dl, !.freed = fr]
    BY DEF Put
  <2>2. [b EXCEPT !.ring[k] = s] = [b EXCEPT !.ring = ring]
    BY <1>1 DEF Bufs
  <2> QED BY <2>1, <2>2
<1>7. ring \in [Indices -> Seqs \cup {Free}]
      /\ \A i \in Indices : ring[i] = IF i = k THEN s ELSE b.ring[i]
  BY <1>1, <1>2
<1>8. held \in Nat /\ held > 0 /\ held <= b.held + 1 /\ held = Cardinality(Used(ring))
  <2>1. Used(ring) = Used(b.ring) \cup {k}
    BY <1>2, <1>7 DEF Used
  <2>2. /\ IsFiniteSet(Used(b.ring))
        /\ Cardinality(Used(b.ring) \cup {k}) =
             IF k \in Used(b.ring) THEN Cardinality(Used(b.ring))
                                   ELSE Cardinality(Used(b.ring)) + 1
    BY UsedFinite, FS_AddElement
  <2>3. k \in Used(b.ring) <=> old # Free
    BY <1>2 DEF Used
  <2>4. held = Cardinality(Used(ring))
    BY <1>1, <2>1, <2>2, <2>3, Zenon
  <2>5. old # Free => b.held > 0
    <3>1. old # Free => Used(b.ring) # {}
      BY <2>3
    <3> QED BY <1>1, <2>2, <3>1, FS_EmptySet
  <2> QED BY <1>1, <2>4, <2>5
<1>9. dl \in Nat \cup {NoDeadline} /\ dl # NoDeadline
  BY <1>1, <1>3
<1>10. fr \in Seq(Nat) /\ fr = IF Holds(b, s) THEN Append(b.freed, s) ELSE b.freed
  BY <1>1, <1>2, <1>4, <1>5, SeqAppended
<1> HIDE DEF a, ring, held, dl, fr, old
<1>11. /\ a \in Bufs /\ a.ring = ring /\ a.held = held /\ a.deadline = dl /\ a.freed = fr
       /\ a.nextSeq = b.nextSeq /\ a.started = b.started /\ a.out = b.out
  BY <1>1, <1>6, <1>7, <1>8, <1>9, <1>10, Zenon DEF Bufs
<1>12. \A x \in Nat : Holds(a, x) <=> Holds(b, x) \/ x = s
  <2>1. ASSUME NEW x \in Nat PROVE Holds(a, x) <=> Holds(b, x) \/ x = s
    <3>1. Index(x) \in Indices /\ x # Free
      BY IndexType DEF Free
    <3>2. CASE Index(x) = k
      BY <1>4, <1>7, <1>11, <3>1, <3>2 DEF Holds, old
    <3>3. CASE Index(x) # k
      BY <1>7, <1>11, <3>1, <3>3 DEF Holds
    <3> QED BY <3>2, <3>3
  <2> QED BY <2>1
<1>13. Slotted(a)
  <2>1. ASSUME NEW i \in Indices, ring[i] # Free
        PROVE  Index(ring[i]) = i /\ b.nextSeq <= ring[i] /\ ring[i] < b.nextSeq + RingSize
    <3>1. CASE i = k
      BY <1>1, <1>2, <1>7, <3>1
    <3>2. CASE i # k
      BY <1>1, <1>7, <2>1, <3>2
    <3> QED BY <3>1, <3>2
  <2> QED BY <1>8, <1>11, <2>1 DEF Slotted
<1>14. ~Holds(a, a.nextSeq)
  BY <1>1, <1>2, <1>11, <1>12
<1> QED BY <1>8, <1>9, <1>10, <1>11, <1>12, <1>13, <1>14 DEF a, dl

(* hold settles a buffer; when it is full it also gives up the gap.        *)
LEMMA HoldPasses ==
  ASSUME NEW b, Settled(b), NEW s \in Seqs, b.nextSeq < s, s < b.nextSeq + RingSize,
         NEW t \in Timeouts, b.held <= MaxHold
  PROVE  LET a == Put(b, s, t)
             c == hold(b, s, t)
         IN  /\ Settled(c) /\ Passed(a, c) /\ c.held <= MaxHold
             /\ c.nextSeq = b.nextSeq /\ b.deadline # NoDeadline
                  => c.deadline = b.deadline
<1> DEFINE a == Put(b, s, t)
           c == hold(b, s, t)
<1>1. /\ Slotted(a) /\ ~Holds(a, a.nextSeq) /\ a.nextSeq = b.nextSeq
      /\ a.held > 0 /\ a.held <= b.held + 1 /\ a.deadline # NoDeadline
      /\ b.deadline # NoDeadline => a.deadline = b.deadline
  BY PutSlotted
<1>2. c = IF a.held > MaxHold THEN skipGapLocked(a, t) ELSE a
  BY DEF hold, Put
<1> HIDE DEF a, c
<1>3. a.held \in Nat /\ b.held \in Nat /\ a.nextSeq \in Nat /\ MaxHold \in Nat
  BY <1>1, ReorderAssumption DEF Settled, Slotted, Bufs
<1>4. CASE a.held > MaxHold
  <2>1. c = skipGapLocked(a, t)
    BY <1>2, <1>4
  <2>2. Settled(c) /\ Passed(a, c) /\ a.nextSeq < c.nextSeq /\ c.held < a.held
    BY <1>1, <2>1, SkipPasses
  <2>3. c.held \in Nat /\ c.nextSeq \in Nat
    BY <2>2 DEF Settled, Slotted, Bufs
  <2>4. c.held <= MaxHold /\ c.nextSeq # b.nextSeq
    BY <1>1, <1>3, <2>2, <2>3
  <2> QED BY <2>2, <2>4 DEF a, c
<1>5. CASE ~(a.held > MaxHold)
  <2>1. c = a
    BY <1>2, <1>5
  <2>2. Settled(a)
    BY <1>1, <1>3 DEF Settled
  <2>3. Passed(a, a)
    BY <1>1, <1>3, HeldSlots DEF Passed
  <2> QED BY <1>1, <1>3, <1>5, <2>1, <2>2, <2>3 DEF a, c
<1> QED BY <1>4, <1>5

(* A sequence of one packet.                                               *)
LEMMA OnePacket ==
  ASSUME NEW s \in Nat, NEW lo \in Nat, NEW hi \in Nat, lo <= s, s < hi
  PROVE  /\ <<s>> \in Seq(Nat) /\ Len(<<s>>) = 1 /\ Members(<<s>>) = {s}
         /\ Rising(<<s>>, lo, hi)
<1>1. <<s>> \in Seq(Nat) /\ Len(<<s>>) = 1 /\ <<s>>[1] = s
  OBVIOUS
<1>2. 1 .. 1 = {1}
  OBVIOUS
<1> QED BY <1>1, <1>2 DEF Members, Rising

(* The sequence of nothing.                                                *)
LEMMA NoPacket ==
  /\ <<>> \in Seq(Nat) /\ Len(<<>>) = 0 /\ Members(<<>>) = {}
  /\ \A lo, hi : Rising(<<>>, lo, hi)
<1>1. <<>> \in Seq(Nat) /\ Len(<<>>) = 0 /\ 1 .. 0 = {}
  OBVIOUS
<1> QED BY <1>1 DEF Members, Rising

(* accept of the packet that the buffer waits for.                         *)
Emit(b, s, t) == drainLocked([b EXCEPT !.nextSeq = s + 1, !.out = Append(@, s)], t)

(* What it makes of b: s is emitted, and the run behind it.                *)
Emitted(b, s, c) ==
  /\ Settled(c) /\ s < c.nextSeq
  /\ c.started = b.started /\ c.freed = b.freed /\ c.held <= b.held
  /\ \A x \in Nat : Holds(c, x) <=> Holds(b, x) /\ c.nextSeq <= x
  /\ Members(c.out) = Members(b.out) \cup
       {x \in Nat : (Holds(b, x) \/ x = s) /\ x < c.nextSeq}
  /\ \A lo \in Nat : lo <= s /\ Rising(b.out, lo, s) => Rising(c.out, lo, c.nextSeq)

(* The packet that the buffer waits for is emitted, and the run behind it. *)
LEMMA EmitNow ==
  ASSUME NEW b, Slotted(b), NEW s, s = b.nextSeq, ~Holds(b, s), NEW t \in Timeouts
  PROVE  Emitted(b, s, Emit(b, s, t))
<1> DEFINE out == b.out \o <<s>>
           a   == [b EXCEPT !.nextSeq = s + 1, !.out = Append(@, s)]
           c   == Emit(b, s, t)
<1>1. /\ b \in Bufs /\ s \in Nat /\ b.out \in Seq(Nat)
      /\ b.ring \in [Indices -> Seqs \cup {Free}] /\ b.held \in Nat
      /\ RingSize \in Nat \ {0}
  BY ReorderAssumption DEF Slotted, Bufs
<1>2. /\ <<s>> \in Seq(Nat) /\ Members(<<s>>) = {s} /\ Rising(<<s>>, s, s + 1)
  BY <1>1, OnePacket
<1>3. Append(b.out, s) = out /\ out \in Seq(Nat)
  <2>1. Append(b.out, s) = b.out \o <<s>>
    BY <1>1, SeqAppended
  <2> QED BY <1>1, <1>2, <2>1, SeqJoined
<1>4. Members(out) = Members(b.out) \cup {s}
  <2>1. Members(b.out \o <<s>>) = Members(b.out) \cup Members(<<s>>)
    BY <1>1, <1>2, MembersConcat, Zenon
  <2> QED BY <1>2, <2>1
<1>5. ASSUME NEW lo \in Nat, lo <= s, Rising(b.out, lo, s)
      PROVE  Rising(out, lo, s + 1)
  <2>1. s + 1 \in Nat /\ s <= s + 1
    BY <1>1
  <2> QED BY <1>1, <1>2, <1>5, <2>1, RisingConcat, Zenon
<1> HIDE DEF out
<1>6. /\ a \in Bufs /\ a.nextSeq = s + 1 /\ a.ring = b.ring /\ a.held = b.held
      /\ a.out = out /\ a.freed = b.freed /\ a.started = b.started
  <2>1. a = [b EXCEPT !.nextSeq = s + 1, !.out = out] /\ s + 1 \in Nat
    BY <1>1, <1>3
  <2> QED BY <1>1, <1>3, <2>1, Zenon DEF Bufs
<1> HIDE DEF a, c
<1>7. \A x : Holds(a, x) <=> Holds(b, x)
  BY <1>6 DEF Holds
<1>8. Slotted(a)
  <2>1. ASSUME NEW i \in Indices, b.ring[i] # Free
        PROVE  Index(b.ring[i]) = i /\ s + 1 <= b.ring[i] /\ b.ring[i] < s + 1 + RingSize
    <3>1. /\ Index(b.ring[i]) = i /\ s <= b.ring[i] /\ b.ring[i] < s + RingSize
          /\ b.ring[i] \in Nat
      BY <1>1, <2>1, ReorderAssumption, Zenon DEF Slotted
    <3>2. b.ring[i] # s
      BY <2>1, <3>1 DEF Holds
    <3> QED BY <1>1, <3>1, <3>2
  <2>2. b.held = Cardinality(Used(b.ring))
    BY DEF Slotted
  <2> QED BY <1>6, <2>1, <2>2 DEF Slotted
<1>9. Settled(c) /\ Passed(a, c)
  BY <1>8, DrainPasses DEF a, c, Emit
<1>10. c.nextSeq \in Nat /\ c.held \in Nat
  BY <1>9 DEF Settled, Slotted, Bufs
<1>11. s < c.nextSeq
  BY <1>1, <1>6, <1>9, <1>10 DEF Passed
<1>12. ASSUME NEW lo \in Nat, lo <= s, Rising(b.out, lo, s)
       PROVE  Rising(c.out, lo, c.nextSeq)
  <2>1. lo <= a.nextSeq /\ Rising(a.out, lo, a.nextSeq)
    BY <1>1, <1>5, <1>6, <1>12
  <2> QED BY <1>9, <2>1 DEF Passed
<1>13. Members(c.out) = Members(b.out) \cup
                          {x \in Nat : (Holds(b, x) \/ x = s) /\ x < c.nextSeq}
  <2>1. Members(c.out) = Members(out) \cup {x \in Nat : Holds(b, x) /\ x < c.nextSeq}
    BY <1>6, <1>7, <1>9 DEF Passed
  <2> QED BY <1>1, <1>4, <1>11, <2>1
<1>14. /\ c.started = b.started /\ c.freed = b.freed /\ c.held <= b.held
       /\ \A x \in Nat : Holds(c, x) <=> Holds(b, x) /\ c.nextSeq <= x
  BY <1>6, <1>7, <1>9 DEF Passed
<1>15. Emitted(b, s, c)
  BY <1>9, <1>11, <1>12, <1>13, <1>14 DEF Emitted
<1> QED BY <1>15 DEF c

(* A buffer that counts nothing holds nothing.                             *)
LEMMA EmptyRing ==
  ASSUME NEW b, Slotted(b), b.held = 0
  PROVE  /\ \A i \in Indices : b.ring[i] = Free
         /\ \A x \in Nat : ~Holds(b, x)
<1>1. Used(b.ring) = {}
  <2>1. Cardinality(Used(b.ring)) = 0 /\ IsFiniteSet(Used(b.ring))
    BY UsedFinite DEF Slotted
  <2> QED BY <2>1, FS_EmptySet
<1>2. \A i \in Indices : b.ring[i] = Free
  BY <1>1 DEF Used
<1>3. \A x \in Nat : x # Free
  BY DEF Free
<1> QED BY <1>2, <1>3, IndexType DEF Holds

(* What accept makes of a settled buffer b when packet s arrives: every    *)
(* packet held and s itself are emitted if they are behind the new         *)
(* nextSeq, and held otherwise; the first copy of s is released if it is   *)
(* still there.  What is emitted is in order, and a late s alone.          *)
Took(b, s, c) ==
  /\ Settled(c) /\ c.started /\ c.held <= MaxHold
  /\ \A x \in Nat : Holds(c, x) <=> (Holds(b, x) \/ x = s) /\ c.nextSeq <= x
  /\ Members(c.out) = {x \in Nat : (Holds(b, x) \/ x = s) /\ x < c.nextSeq}
  /\ c.freed = IF Holds(b, s) THEN <<s>> ELSE <<>>
  /\ Rising(c.out, 0, c.nextSeq)
  /\ b.started /\ b.nextSeq <= s => Rising(c.out, b.nextSeq, c.nextSeq)
  /\ b.started /\ s < b.nextSeq => c.nextSeq = b.nextSeq /\ c.out = <<s>>
  /\ c.nextSeq = b.nextSeq /\ b.deadline # NoDeadline => c.deadline = b.deadline

(* The first packet starts the buffer.                                     *)
LEMMA AcceptFirst ==
  ASSUME NEW b, Settled(b), ~b.started, b.held = 0, b.out = <<>>, b.freed = <<>>,
         NEW s \in Seqs, NEW t \in Timeouts
  PROVE  Took(b, s, accept(b, s, t))
<1> DEFINE b0 == [b EXCEPT !.started = TRUE, !.nextSeq = s]
           c  == Emit(b0, s, t)
<1>1. /\ s \in Nat /\ RingSize \in Nat \ {0} /\ MaxHold \in Nat
      /\ b \in Bufs /\ Slotted(b) /\ b.deadline = NoDeadline
  BY ReorderAssumption DEF Settled, Slotted
<1>2. /\ b0 \in Bufs /\ b0.started /\ b0.nextSeq = s /\ b0.ring = b.ring
      /\ b0.held = 0 /\ b0.out = <<>> /\ b0.freed = <<>>
  BY <1>1, Zenon DEF Bufs
<1>3. accept(b, s, t) = c
  <2>1. b0 = [b EXCEPT !.started = TRUE, !.nextSeq = IF b.started THEN @ ELSE s]
    OBVIOUS
  <2> HIDE DEF b0
  <2>2. ~(s > b0.nextSeq)
    BY <1>1, <1>2
  <2> QED BY <1>2, <2>1, <2>2, Zenon DEF accept, Emit
<1> HIDE DEF b0, c
<1>4. \A x \in Nat : ~Holds(b, x) /\ ~Holds(b0, x)
  BY <1>1, <1>2, EmptyRing DEF Holds
<1>5. Slotted(b0)
  <2>1. \A i \in Indices : b.ring[i] = Free
    BY <1>1, EmptyRing
  <2> QED BY <1>1, <1>2, <2>1 DEF Slotted
<1>6. Emitted(b0, s, c)
  <2>1. ~Holds(b0, s) /\ s = b0.nextSeq
    BY <1>1, <1>2, <1>4
  <2> QED BY <1>5, <2>1, EmitNow DEF c
<1>7. c.nextSeq \in Nat /\ c.held \in Nat
  BY <1>6 DEF Settled, Slotted, Bufs, Emitted
<1>8. Members(c.out) = {x \in Nat : (Holds(b, x) \/ x = s) /\ x < c.nextSeq}
  BY <1>2, <1>4, <1>6, NoPacket DEF Emitted
<1>9. Rising(c.out, 0, c.nextSeq)
  BY <1>1, <1>2, <1>6, NoPacket DEF Emitted
<1>10. \A x \in Nat : Holds(c, x) <=> (Holds(b, x) \/ x = s) /\ c.nextSeq <= x
  BY <1>1, <1>4, <1>6, <1>7 DEF Emitted
<1>11. c.held <= MaxHold
  BY <1>1, <1>2, <1>6, <1>7 DEF Emitted
<1>12. c.freed = IF Holds(b, s) THEN <<s>> ELSE <<>>
  BY <1>1, <1>2, <1>4, <1>6 DEF Emitted
<1>13. c.started
  BY <1>2, <1>6 DEF Emitted
<1>14. Took(b, s, c)
  BY <1>1, <1>6, <1>8, <1>9, <1>10, <1>11, <1>12, <1>13 DEF Took, Emitted
<1> QED BY <1>3, <1>14

(* A packet far ahead of a started buffer: everything held is emitted      *)
(* first.                                                                  *)
LEMMA AcceptFar ==
  ASSUME NEW b, Settled(b), b.started, b.held <= MaxHold, b.out = <<>>, b.freed = <<>>,
         NEW s \in Seqs, s - b.nextSeq >= RingSize, NEW t \in Timeouts
  PROVE  LET b1 == advanceTo(b, s) IN
         b1.nextSeq = s /\ Took(b, s, Emit(b1, s, t))
<1> DEFINE b1 == advanceTo(b, s)
           c  == Emit(b1, s, t)
<1>1. /\ s \in Nat /\ RingSize \in Nat \ {0} /\ MaxHold \in Nat
      /\ b \in Bufs /\ Slotted(b) /\ b.nextSeq \in Nat /\ b.held \in Nat
  BY ReorderAssumption DEF Settled, Slotted, Bufs
<1>2. /\ Slotted(b1) /\ Passed(b, b1) /\ b1.nextSeq = s
      /\ b1.held = 0 /\ \A x \in Nat : ~Holds(b1, x)
  BY <1>1, AdvancePasses
<1> HIDE DEF b1
<1>3. Emitted(b1, s, c)
  BY <1>1, <1>2, EmitNow
<1> HIDE DEF c
<1>4. c.nextSeq \in Nat /\ c.held \in Nat
  BY <1>3 DEF Settled, Slotted, Bufs, Emitted
<1>5. \A x \in Nat : Holds(b, x) => x < s
  BY <1>1, HeldSlots
<1>6. Members(b1.out) = {x \in Nat : Holds(b, x)}
  <2>1. Members(b1.out) = Members(b.out) \cup {x \in Nat : Holds(b, x) /\ x < s}
    BY <1>2 DEF Passed
  <2> QED BY <1>5, <2>1, NoPacket
<1>7. Members(c.out) = {x \in Nat : (Holds(b, x) \/ x = s) /\ x < c.nextSeq}
  <2>1. \A x \in Nat : Holds(b, x) => x < c.nextSeq
    BY <1>1, <1>3, <1>4, <1>5 DEF Emitted
  <2> QED BY <1>2, <1>3, <1>6, <2>1 DEF Emitted
<1>8. \A x \in Nat : Holds(c, x) <=> (Holds(b, x) \/ x = s) /\ c.nextSeq <= x
  BY <1>1, <1>2, <1>3, <1>4, <1>5 DEF Emitted
<1>9. ASSUME NEW lo \in Nat, lo <= b.nextSeq PROVE Rising(c.out, lo, c.nextSeq)
  <2>1. Rising(b1.out, lo, s)
    BY <1>2, <1>9, NoPacket DEF Passed
  <2>2. lo <= s
    BY <1>1, <1>9
  <2> QED BY <1>3, <2>1, <2>2 DEF Emitted
<1>10. c.freed = IF Holds(b, s) THEN <<s>> ELSE <<>>
  <2>1. c.freed = b1.freed
    BY <1>3 DEF Emitted
  <2>2. b1.freed = <<>>
    BY <1>2 DEF Passed
  <2>3. ~Holds(b, s)
    BY <1>1, <1>5
  <2> QED BY <2>1, <2>2, <2>3
<1>11. c.started /\ c.held <= MaxHold
  BY <1>1, <1>2, <1>3, <1>4 DEF Passed, Emitted
<1>12. ~(s < b.nextSeq) /\ c.nextSeq # b.nextSeq
  BY <1>1, <1>3, <1>4 DEF Emitted
<1>13. Rising(c.out, 0, c.nextSeq) /\ Rising(c.out, b.nextSeq, c.nextSeq)
  BY <1>1, <1>9
<1>14. Took(b, s, c)
  BY <1>3, <1>7, <1>8, <1>10, <1>11, <1>12, <1>13 DEF Took, Emitted
<1> QED BY <1>2, <1>14 DEF b1, c

(* The packet that a started buffer waits for.                             *)
LEMMA AcceptNext ==
  ASSUME NEW b, Settled(b), b.started, b.held <= MaxHold, b.out = <<>>, b.freed = <<>>,
         NEW s \in Seqs, s = b.nextSeq, NEW t \in Timeouts
  PROVE  Took(b, s, Emit(b, s, t))
<1> DEFINE c == Emit(b, s, t)
<1>1. s \in Nat /\ MaxHold \in Nat /\ Slotted(b) /\ b.held \in Nat /\ ~Holds(b, s)
  BY ReorderAssumption DEF Settled, Slotted, Bufs
<1>2. Emitted(b, s, c)
  BY <1>1, EmitNow, Zenon
<1> HIDE DEF c
<1>3. c.nextSeq \in Nat /\ c.held \in Nat
  BY <1>2 DEF Settled, Slotted, Bufs, Emitted
<1>4. Rising(c.out, 0, c.nextSeq) /\ Rising(c.out, s, c.nextSeq)
  <2>1. \A lo \in Nat : lo <= s /\ Rising(b.out, lo, s) => Rising(c.out, lo, c.nextSeq)
    BY <1>2 DEF Emitted
  <2>2. \A lo \in Nat : Rising(b.out, lo, s)
    BY NoPacket
  <2> QED BY <1>1, <2>1, <2>2
<1>5. Members(c.out) = {x \in Nat : (Holds(b, x) \/ x = s) /\ x < c.nextSeq}
  BY <1>2, NoPacket DEF Emitted
<1>6. \A x \in Nat : Holds(c, x) <=> (Holds(b, x) \/ x = s) /\ c.nextSeq <= x
  BY <1>1, <1>2, <1>3 DEF Emitted
<1>7. c.held <= MaxHold /\ c.started
  BY <1>1, <1>2, <1>3 DEF Emitted
<1>8. ~(s < b.nextSeq) /\ c.nextSeq # b.nextSeq
  BY <1>1, <1>2, <1>3 DEF Emitted
<1>9. c.freed = IF Holds(b, s) THEN <<s>> ELSE <<>>
  BY <1>1, <1>2 DEF Emitted
<1>10. Took(b, s, c)
  BY <1>2, <1>4, <1>5, <1>6, <1>7, <1>8, <1>9, Zenon DEF Took, Emitted
<1> QED BY <1>10 DEF c

(* accept of a late packet.                                                *)
Late(b, s) == [b EXCEPT !.out = Append(@, s)]

(* A late packet is emitted at once.                                       *)
LEMMA AcceptLate ==
  ASSUME NEW b, Settled(b), b.started, b.held <= MaxHold, b.out = <<>>, b.freed = <<>>,
         NEW s \in Seqs, s < b.nextSeq
  PROVE  Took(b, s, Late(b, s))
<1> DEFINE c == Late(b, s)
<1>1. /\ s \in Nat /\ b \in Bufs /\ Slotted(b) /\ b.nextSeq \in Nat
      /\ ~Holds(b, b.nextSeq) /\ b.deadline # NoDeadline <=> b.held > 0
  BY ReorderAssumption DEF Settled, Slotted, Bufs
<1>2. Append(b.out, s) = <<s>>
  OBVIOUS
<1>3. /\ <<s>> \in Seq(Nat) /\ Members(<<s>>) = {s} /\ Rising(<<s>>, 0, b.nextSeq)
  BY <1>1, OnePacket
<1>4. /\ c \in Bufs /\ c.ring = b.ring /\ c.nextSeq = b.nextSeq /\ c.held = b.held
      /\ c.deadline = b.deadline /\ c.started = b.started /\ c.freed = b.freed
      /\ c.out = <<s>>
  <2>1. c = [b EXCEPT !.out = <<s>>]
    BY <1>2 DEF Late
  <2> QED BY <1>1, <1>3, <2>1, Zenon DEF Bufs
<1> HIDE DEF c
<1>5. \A x : Holds(c, x) <=> Holds(b, x)
  BY <1>4 DEF Holds
<1>6. Settled(c)
  BY <1>1, <1>4, <1>5 DEF Settled, Slotted
<1>7. \A x \in Nat : Holds(b, x) => b.nextSeq <= x
  BY <1>1, HeldSlots
<1>8. \A x \in Nat : Holds(c, x) <=> (Holds(b, x) \/ x = s) /\ c.nextSeq <= x
  BY <1>1, <1>4, <1>5, <1>7
<1>9. Members(c.out) = {x \in Nat : (Holds(b, x) \/ x = s) /\ x < c.nextSeq}
  BY <1>1, <1>3, <1>4, <1>7
<1>10. c.freed = IF Holds(b, s) THEN <<s>> ELSE <<>>
  BY <1>1, <1>4, <1>7
<1>11. ~(b.nextSeq <= s) /\ Rising(c.out, 0, c.nextSeq)
  BY <1>1, <1>3, <1>4
<1>12. Took(b, s, c)
  BY <1>4, <1>6, <1>8, <1>9, <1>10, <1>11, Zenon DEF Took
<1> QED BY <1>12 DEF c

(* A packet ahead of the gap is held.                                      *)
LEMMA AcceptAhead ==
  ASSUME NEW b, Settled(b), b.started, b.held <= MaxHold, b.out = <<>>, b.freed = <<>>,
         NEW s \in Seqs, b.nextSeq < s, s < b.nextSeq + RingSize, NEW t \in Timeouts
  PROVE  Took(b, s, hold(b, s, t))
<1> DEFINE a == Put(b, s, t)
           c == hold(b, s, t)
<1>1. s \in Nat /\ b.nextSeq \in Nat
  BY ReorderAssumption DEF Settled, Slotted, Bufs
<1>2. /\ a.nextSeq = b.nextSeq /\ a.started = b.started /\ a.out = b.out
      /\ a.freed = IF Holds(b, s) THEN Append(b.freed, s) ELSE b.freed
      /\ \A x \in Nat : Holds(a, x) <=> Holds(b, x) \/ x = s
  <2>1. a.nextSeq = b.nextSeq
    BY PutSlotted
  <2>2. a.started = b.started
    BY PutSlotted, Zenon
  <2>3. a.out = b.out
    BY PutSlotted, Zenon
  <2>4. a.freed = IF Holds(b, s) THEN Append(b.freed, s) ELSE b.freed
    BY PutSlotted, Zenon
  <2>5. \A x \in Nat : Holds(a, x) <=> Holds(b, x) \/ x = s
    BY PutSlotted
  <2> QED BY <2>1, <2>2, <2>3, <2>4, <2>5
<1>3. /\ Settled(c) /\ Passed(a, c) /\ c.held <= MaxHold
      /\ c.nextSeq = b.nextSeq /\ b.deadline # NoDeadline => c.deadline = b.deadline
  <2>1. Settled(c)
    BY HoldPasses
  <2>2. Passed(a, c)
    BY HoldPasses
  <2>3. c.held <= MaxHold
    BY HoldPasses
  <2>4. c.nextSeq = b.nextSeq /\ b.deadline # NoDeadline => c.deadline = b.deadline
    BY HoldPasses
  <2> QED BY <2>1, <2>2, <2>3, <2>4
<1> HIDE DEF a, c
<1>4. /\ c.started
      /\ \A x \in Nat : Holds(c, x) <=> (Holds(b, x) \/ x = s) /\ c.nextSeq <= x
  BY <1>2, <1>3 DEF Passed
<1>5. Members(c.out) = {x \in Nat : (Holds(b, x) \/ x = s) /\ x < c.nextSeq}
  <2>1. Members(c.out) = Members(a.out) \cup {x \in Nat : Holds(a, x) /\ x < c.nextSeq}
    BY <1>3 DEF Passed
  <2> QED BY <1>2, <2>1, NoPacket, Zenon
<1>6. c.freed = IF Holds(b, s) THEN <<s>> ELSE <<>>
  <2>1. Append(<<>>, s) = <<s>>
    OBVIOUS
  <2> QED BY <1>2, <1>3, <2>1 DEF Passed
<1>7. ASSUME NEW lo \in Nat, lo <= b.nextSeq PROVE Rising(c.out, lo, c.nextSeq)
  BY <1>2, <1>3, <1>7, NoPacket DEF Passed
<1>8. Rising(c.out, 0, c.nextSeq) /\ Rising(c.out, b.nextSeq, c.nextSeq)
  BY <1>1, <1>7
<1>9. ~(s < b.nextSeq)
  BY <1>1
<1>10. Took(b, s, c)
  BY <1>3, <1>4, <1>5, <1>6, <1>8, <1>9, Zenon DEF Took
<1> QED BY <1>10 DEF c

(* accept once its first two statements have turned the buffer into b1.    *)
Placed(b1, s, t) ==
  CASE s = b1.nextSeq -> Emit(b1, s, t)
    [] s < b1.nextSeq -> Late(b1, s)
    [] s > b1.nextSeq -> hold(b1, s, t)

(* accept, for every packet.                                               *)
LEMMA AcceptTakes ==
  ASSUME NEW b, Settled(b), b.held <= MaxHold, b.held > 0 => b.started,
         b.out = <<>>, b.freed = <<>>, NEW s \in Seqs, NEW t \in Timeouts
  PROVE  Took(b, s, accept(b, s, t))
<1>1. /\ s \in Nat /\ b \in Bufs /\ b.nextSeq \in Nat /\ b.held \in Nat
      /\ b.started \in BOOLEAN /\ RingSize \in Nat \ {0}
  BY ReorderAssumption DEF Settled, Slotted, Bufs
<1>2. CASE ~b.started
  BY <1>1, <1>2, AcceptFirst
<1>3. CASE b.started
  <2> DEFINE b0 == [b EXCEPT !.started = TRUE, !.nextSeq = IF b.started THEN @ ELSE s]
  <2>1. b0 = b
    BY <1>1, <1>3, Zenon DEF Bufs
  <2>2. accept(b, s, t) = Placed(IF s > b0.nextSeq /\ s - b0.nextSeq >= RingSize
                                 THEN advanceTo(b0, s) ELSE b0, s, t)
    BY DEF accept, Placed, Emit, Late
  <2> HIDE DEF b0
  <2>3. accept(b, s, t) = Placed(IF s > b.nextSeq /\ s - b.nextSeq >= RingSize
                                 THEN advanceTo(b, s) ELSE b, s, t)
    BY <2>1, <2>2
  <2>4. CASE s - b.nextSeq >= RingSize
    <3>1. s > b.nextSeq
      BY <1>1, <2>4
    <3>2. /\ advanceTo(b, s).nextSeq = s
          /\ Took(b, s, Emit(advanceTo(b, s), s, t))
      BY <1>3, <2>4, AcceptFar
    <3>3. accept(b, s, t) = Placed(advanceTo(b, s), s, t)
      BY <2>3, <2>4, <3>1
    <3>4. Placed(advanceTo(b, s), s, t) = Emit(advanceTo(b, s), s, t)
      BY <1>1, <3>2 DEF Placed
    <3> QED BY <3>2, <3>3, <3>4
  <2>5. CASE ~(s - b.nextSeq >= RingSize)
    <3>1. accept(b, s, t) = Placed(b, s, t)
      BY <2>3, <2>5
    <3>2. CASE s = b.nextSeq
      <4>1. Placed(b, s, t) = Emit(b, s, t)
        BY <1>1, <3>2 DEF Placed
      <4> QED BY <1>3, <3>1, <3>2, <4>1, AcceptNext
    <3>3. CASE s < b.nextSeq
      <4>1. ~(s > b.nextSeq) /\ s # b.nextSeq
        BY <1>1, <3>3
      <4>2. Placed(b, s, t) = Late(b, s)
        BY <3>3, <4>1 DEF Placed
      <4> QED BY <1>3, <3>1, <3>3, <4>2, AcceptLate
    <3>4. CASE s > b.nextSeq
      <4>1. ~(s < b.nextSeq) /\ s # b.nextSeq /\ b.nextSeq < s /\ s < b.nextSeq + RingSize
        BY <1>1, <2>5, <3>4
      <4>2. Placed(b, s, t) = hold(b, s, t)
        BY <3>4, <4>1 DEF Placed
      <4> QED BY <1>3, <3>1, <4>1, <4>2, AcceptAhead
    <3> QED BY <1>1, <3>2, <3>3, <3>4
  <2> QED BY <2>4, <2>5
<1> QED BY <1>1, <1>2, <1>3

-----------------------------------------------------------------------------
(* The invariant.                                                          *)

(* Between calls the buffer is settled and within its limit, every copy is *)
(* accounted for, and the duplicate filter remembers what got past it.     *)
IInv ==
  /\ Settled(buf) /\ buf.held <= MaxHold /\ (buf.held > 0 => buf.started)
  /\ seen \in Windows
  /\ pushed \in [Seqs -> Nat]
  /\ emitted \in [Seqs -> Nat]
  /\ released \in [Seqs -> Nat]
  /\ EachCopyOnce
  /\ Remembers(seen, Accepted)

(* A call starts with nothing emitted and nothing released.                *)
LEMMA IdleKeeps ==
  ASSUME NEW b, Settled(b)
  PROVE  LET a == Idle(b) IN
         /\ Settled(a) /\ a.out = <<>> /\ a.freed = <<>>
         /\ a.nextSeq = b.nextSeq /\ a.held = b.held /\ a.ring = b.ring
         /\ a.deadline = b.deadline /\ a.started = b.started
         /\ \A x : Holds(a, x) <=> Holds(b, x)
<1> DEFINE a == Idle(b)
<1>1. b \in Bufs /\ <<>> \in Seq(Nat)
  BY NoPacket DEF Settled, Slotted
<1>2. /\ a \in Bufs /\ a.out = <<>> /\ a.freed = <<>>
      /\ a.nextSeq = b.nextSeq /\ a.held = b.held /\ a.ring = b.ring
      /\ a.deadline = b.deadline /\ a.started = b.started
  BY <1>1, Zenon DEF Bufs, Idle
<1> HIDE DEF a
<1>3. \A x : Holds(a, x) <=> Holds(b, x)
  BY <1>2 DEF Holds
<1>4. Settled(a)
  BY <1>2, <1>3 DEF Settled, Slotted
<1> QED BY <1>2, <1>3, <1>4 DEF a

One(p) == IF p THEN 1 ELSE 0

(* The histories after a call whose emitted and released packets rise.     *)
LEMMA Counted ==
  ASSUME emitted \in [Seqs -> Nat], released \in [Seqs -> Nat], Account,
         buf'.out \in Seq(Nat), buf'.freed \in Seq(Nat),
         NEW lo, NEW hi, Rising(buf'.out, lo, hi),
         NEW l, NEW h, Rising(buf'.freed, l, h)
  PROVE  /\ emitted' \in [Seqs -> Nat] /\ released' \in [Seqs -> Nat]
         /\ \A x \in Seqs :
              /\ emitted'[x] = emitted[x] + One(x \in Members(buf'.out))
              /\ released'[x] = released[x] + One(x \in Members(buf'.freed))
<1>1. \A x : Count(buf'.out, x) = One(x \in Members(buf'.out))
  BY CountRising DEF One
<1>2. \A x : Count(buf'.freed, x) = One(x \in Members(buf'.freed))
  BY CountRising DEF One
<1>3. \A x \in Seqs :
        /\ emitted'[x] = emitted[x] + One(x \in Members(buf'.out))
        /\ released'[x] = released[x] + One(x \in Members(buf'.freed))
  BY <1>1, <1>2, Zenon DEF Account
<1>4. \A x \in Seqs : emitted[x] + One(x \in Members(buf'.out)) \in Nat
  BY DEF One
<1>5. \A x \in Seqs : released[x] + One(x \in Members(buf'.freed)) \in Nat
  BY DEF One
<1> QED BY <1>1, <1>2, <1>3, <1>4, <1>5 DEF Account

(* A duplicate is released and changes nothing else.                       *)
LEMMA DuplicateStep ==
  ASSUME IInv, NEW s \in Seqs, ~Fresh(seen, s),
         pushed' = [pushed EXCEPT ![s] = @ + 1], seen' = Checked(seen, s),
         buf' = [Idle(buf) EXCEPT !.freed = <<s>>], Account
  PROVE  IInv'
<1> DEFINE a == Idle(buf)
           c == [a EXCEPT !.freed = <<s>>]
<1>1. s \in Nat /\ Seqs \in SUBSET Nat
  BY ReorderAssumption
<1>2. /\ Settled(a) /\ a.out = <<>>
      /\ a.nextSeq = buf.nextSeq /\ a.held = buf.held /\ a.ring = buf.ring
      /\ a.deadline = buf.deadline /\ a.started = buf.started
  BY IdleKeeps DEF IInv
<1> HIDE DEF a
<1>3. <<s>> \in Seq(Nat) /\ Members(<<s>>) = {s} /\ Rising(<<s>>, s, s + 1)
  BY <1>1, OnePacket
<1>4. /\ c \in Bufs /\ c.out = <<>> /\ c.freed = <<s>>
      /\ c.nextSeq = buf.nextSeq /\ c.held = buf.held /\ c.ring = buf.ring
      /\ c.deadline = buf.deadline /\ c.started = buf.started
  <2>1. a \in Bufs
    BY <1>2 DEF Settled, Slotted
  <2> QED BY <1>2, <1>3, <2>1, Zenon DEF Bufs
<1>5. buf' = c
  BY DEF a
<1> HIDE DEF c
<1>6. \A x : Holds(c, x) <=> Holds(buf, x)
  BY <1>4 DEF Holds
<1>7. Settled(c) /\ c.held <= MaxHold /\ (c.held > 0 => c.started)
  BY <1>4, <1>6 DEF Settled, Slotted, IInv
<1>8. /\ emitted' \in [Seqs -> Nat] /\ released' \in [Seqs -> Nat]
      /\ \A x \in Seqs :
           /\ emitted'[x] = emitted[x]
           /\ released'[x] = released[x] + One(x = s)
  <2>1. /\ buf'.out \in Seq(Nat) /\ buf'.freed \in Seq(Nat)
        /\ Rising(buf'.out, 0, 0) /\ Rising(buf'.freed, s, s + 1)
        /\ Members(buf'.out) = {} /\ Members(buf'.freed) = {s}
    BY <1>3, <1>4, <1>5, NoPacket, Zenon
  <2>2. /\ emitted' \in [Seqs -> Nat] /\ released' \in [Seqs -> Nat]
        /\ \A x \in Seqs :
             /\ emitted'[x] = emitted[x] + One(x \in Members(buf'.out))
             /\ released'[x] = released[x] + One(x \in Members(buf'.freed))
    BY <2>1, Counted, Zenon DEF IInv
  <2>3. \A x \in Seqs : /\ One(x \in Members(buf'.out)) = 0
                        /\ One(x \in Members(buf'.freed)) = One(x = s)
    BY <2>1, Zenon DEF One
  <2>4. \A x \in Seqs : emitted[x] \in Nat
    BY DEF IInv
  <2> QED BY <2>2, <2>3, <2>4
<1>9. pushed' \in [Seqs -> Nat] /\ \A x \in Seqs : pushed'[x] = pushed[x] + One(x = s)
  BY DEF IInv, One
<1>10. EachCopyOnce'
  <2>1. ASSUME NEW x \in Seqs
        PROVE  pushed'[x] = emitted'[x] + released'[x] + (IF Holds(c, x) THEN 1 ELSE 0)
    <3>1. pushed[x] = emitted[x] + released[x] + (IF Holds(buf, x) THEN 1 ELSE 0)
      BY DEF IInv, EachCopyOnce
    <3>2. emitted[x] \in Nat /\ released[x] \in Nat /\ One(x = s) \in Nat
      BY DEF IInv, One
    <3> QED BY <1>6, <1>8, <1>9, <3>1, <3>2
  <2> QED BY <1>5, <2>1 DEF EachCopyOnce
<1>11. Accepted' = Accepted
  BY <1>5, <1>6, <1>8 DEF Accepted
<1>12. seen' \in Windows /\ Remembers(seen', Accepted')
  <2>1. Accepted \in SUBSET Nat /\ seen \in Windows /\ Remembers(seen, Accepted)
    BY <1>1 DEF Accepted, IInv
  <2>2. Checked(seen, s) \in Windows
    BY <1>1, <2>1, CheckedType
  <2>3. Remembers(Checked(seen, s), IF Fresh(seen, s) THEN Accepted \cup {s} ELSE Accepted)
    BY <1>1, <2>1, CheckRemembers, Zenon
  <2> QED BY <1>11, <2>2, <2>3
<1> QED BY <1>5, <1>7, <1>8, <1>9, <1>10, <1>12, Zenon DEF IInv

(* What Push of a packet that passes the filter makes of the buffer.       *)
LEMMA FreshTakes ==
  ASSUME IInv, NEW s \in Seqs, NEW t \in Timeouts, buf' = accept(Idle(buf), s, t)
  PROVE  Took(buf, s, buf')
<1> DEFINE a == Idle(buf)
<1>1. /\ Settled(a) /\ a.out = <<>> /\ a.freed = <<>>
      /\ a.nextSeq = buf.nextSeq /\ a.held = buf.held
      /\ a.deadline = buf.deadline /\ a.started = buf.started
      /\ \A x : Holds(a, x) <=> Holds(buf, x)
  BY IdleKeeps, Zenon DEF IInv
<1>2. buf' = accept(a, s, t)
  OBVIOUS
<1> HIDE DEF a
<1>3. a.held <= MaxHold /\ (a.held > 0 => a.started)
  BY <1>1, Zenon DEF IInv
<1>4. Took(a, s, buf')
  BY <1>1, <1>2, <1>3, AcceptTakes
<1> QED BY <1>1, <1>4, Zenon DEF Took

(* A packet that passes the filter is emitted or held.                     *)
LEMMA FreshStep ==
  ASSUME IInv, NEW s \in Seqs, Fresh(seen, s), Took(buf, s, buf'),
         pushed' = [pushed EXCEPT ![s] = @ + 1], seen' = Checked(seen, s), Account
  PROVE  IInv'
<1>1. s \in Nat /\ Seqs \in SUBSET Nat
  BY ReorderAssumption
<1>2. /\ Settled(buf') /\ buf'.started /\ buf'.held <= MaxHold
      /\ buf' \in Bufs /\ buf'.nextSeq \in Nat
      /\ \A x \in Nat : Holds(buf', x) <=> (Holds(buf, x) \/ x = s) /\ buf'.nextSeq <= x
      /\ Rising(buf'.out, 0, buf'.nextSeq)
      /\ buf'.freed = IF Holds(buf, s) THEN <<s>> ELSE <<>>
  BY Zenon DEF Took, Settled, Slotted, Bufs
<1>3. \A x \in Nat : x \in Members(buf'.out)
                       <=> (Holds(buf, x) \/ x = s) /\ x < buf'.nextSeq
  BY Zenon DEF Took
<1>4. /\ buf'.freed \in Seq(Nat) /\ Rising(buf'.freed, s, s + 1)
      /\ \A x \in Nat : x \in Members(buf'.freed) <=> x = s /\ Holds(buf, s)
  <2>1. <<s>> \in Seq(Nat) /\ Members(<<s>>) = {s} /\ Rising(<<s>>, s, s + 1)
    BY <1>1, OnePacket
  <2>2. CASE Holds(buf, s)
    <3>1. buf'.freed = <<s>>
      BY <1>2, <2>2
    <3>2. \A x \in Nat : x \in Members(<<s>>) <=> x = s /\ Holds(buf, s)
      BY <2>1, <2>2
    <3> QED BY <2>1, <3>1, <3>2, Zenon
  <2>3. CASE ~Holds(buf, s)
    BY <1>2, <2>3, NoPacket, Zenon
  <2> QED BY <2>2, <2>3
<1>5. buf'.out \in Seq(Nat)
  BY <1>2 DEF Bufs
<1>6. /\ emitted' \in [Seqs -> Nat] /\ released' \in [Seqs -> Nat]
      /\ \A x \in Seqs :
           /\ emitted'[x] = emitted[x] + One(x \in Members(buf'.out))
           /\ released'[x] = released[x] + One(x \in Members(buf'.freed))
  BY <1>2, <1>4, <1>5, Counted, Zenon DEF IInv
<1>7. pushed' \in [Seqs -> Nat] /\ \A x \in Seqs : pushed'[x] = pushed[x] + One(x = s)
  BY DEF IInv, One
<1>8. EachCopyOnce'
  <2>1. ASSUME NEW x \in Seqs
        PROVE  pushed'[x] = emitted'[x] + released'[x] + One(Holds(buf', x))
    <3>1. x \in Nat
      BY <1>1
    <3>2. pushed[x] = emitted[x] + released[x] + One(Holds(buf, x))
      BY DEF IInv, EachCopyOnce, One
    <3>3. emitted[x] \in Nat /\ released[x] \in Nat
      BY DEF IInv
    <3>4. One(x \in Members(buf'.out)) + One(x \in Members(buf'.freed))
            + One(Holds(buf', x)) = One(Holds(buf, x)) + One(x = s)
      <4>1. Holds(buf', x) <=> (Holds(buf, x) \/ x = s) /\ ~(x < buf'.nextSeq)
        BY <1>2, <3>1
      <4>2. x \in Members(buf'.out) <=> (Holds(buf, x) \/ x = s) /\ x < buf'.nextSeq
        BY <1>3, <3>1
      <4>3. x \in Members(buf'.freed) <=> x = s /\ Holds(buf, x)
        BY <1>4, <3>1
      <4> QED BY <4>1, <4>2, <4>3 DEF One
    <3>5. /\ One(x \in Members(buf'.out)) \in Nat /\ One(x \in Members(buf'.freed)) \in Nat
          /\ One(Holds(buf', x)) \in Nat /\ One(Holds(buf, x)) \in Nat /\ One(x = s) \in Nat
      BY DEF One
    <3>6. /\ emitted'[x] = emitted[x] + One(x \in Members(buf'.out))
          /\ released'[x] = released[x] + One(x \in Members(buf'.freed))
          /\ pushed'[x] = pushed[x] + One(x = s)
      BY <1>6, <1>7
    <3> DEFINE o == One(x \in Members(buf'.out))
               f == One(x \in Members(buf'.freed))
               g == One(Holds(buf', x))
               h == One(Holds(buf, x))
               e == One(x = s)
    <3> HIDE DEF o, f, g, h, e
    <3>7. /\ o \in Nat /\ f \in Nat /\ g \in Nat /\ h \in Nat /\ e \in Nat
          /\ o + f + g = h + e /\ pushed[x] = emitted[x] + released[x] + h
          /\ emitted'[x] = emitted[x] + o /\ released'[x] = released[x] + f
          /\ pushed'[x] = pushed[x] + e
      BY <3>2, <3>4, <3>5, <3>6, Zenon DEF o, f, g, h, e
    <3>8. pushed'[x] = emitted'[x] + released'[x] + g
      BY <3>3, <3>7
    <3> QED BY <3>8 DEF g
  <2> QED BY <2>1, Zenon DEF EachCopyOnce, One
<1>9. Accepted' = Accepted \cup {s}
  <2>1. ASSUME NEW x \in Seqs
        PROVE  emitted'[x] > 0 \/ Holds(buf', x)
                 <=> (emitted[x] > 0 \/ Holds(buf, x)) \/ x = s
    <3>1. x \in Nat /\ emitted[x] \in Nat
      BY <1>1 DEF IInv
    <3>2. emitted'[x] > 0 <=> emitted[x] > 0 \/ x \in Members(buf'.out)
      <4>1. emitted'[x] = emitted[x] + One(x \in Members(buf'.out))
        BY <1>6
      <4>2. CASE x \in Members(buf'.out)
        <5>1. One(x \in Members(buf'.out)) = 1
          BY <4>2 DEF One
        <5> QED BY <3>1, <4>1, <4>2, <5>1
      <4>3. CASE x \notin Members(buf'.out)
        <5>1. One(x \in Members(buf'.out)) = 0
          BY <4>3 DEF One
        <5> QED BY <3>1, <4>1, <4>3, <5>1
      <4> QED BY <4>2, <4>3
    <3>3. x \in Members(buf'.out) \/ Holds(buf', x) <=> Holds(buf, x) \/ x = s
      BY <1>2, <1>3, <3>1
    <3> QED BY <3>2, <3>3
  <2> QED BY <2>1 DEF Accepted
<1>10. seen' \in Windows /\ Remembers(seen', Accepted')
  <2>1. Accepted \in SUBSET Nat /\ seen \in Windows /\ Remembers(seen, Accepted)
    BY <1>1, Zenon DEF Accepted, IInv
  <2>2. Checked(seen, s) \in Windows
    BY <1>1, <2>1, CheckedType
  <2>3. Remembers(Checked(seen, s), IF Fresh(seen, s) THEN Accepted \cup {s} ELSE Accepted)
    BY <1>1, <2>1, CheckRemembers, Zenon
  <2> QED BY <1>9, <2>2, <2>3
<1> QED BY <1>2, <1>6, <1>7, <1>8, <1>10, Zenon DEF IInv

(* What FlushExpired makes of the buffer: it is past the gap.              *)
LEMMA FlushPasses ==
  ASSUME IInv, NEW t \in Timeouts, FlushExpired(t)
  PROVE  /\ Settled(buf') /\ buf.nextSeq < buf'.nextSeq
         /\ buf'.held <= MaxHold /\ buf.started /\ buf'.started
         /\ buf'.freed = <<>>
         /\ \A x \in Nat : Holds(buf', x) <=> Holds(buf, x) /\ buf'.nextSeq <= x
         /\ \A x \in Nat : x \in Members(buf'.out) <=> Holds(buf, x) /\ x < buf'.nextSeq
         /\ Rising(buf'.out, buf.nextSeq, buf'.nextSeq)
<1> DEFINE a == Idle(buf)
<1>1. /\ Settled(a) /\ a.out = <<>> /\ a.freed = <<>>
      /\ a.nextSeq = buf.nextSeq /\ a.held = buf.held
      /\ a.deadline = buf.deadline /\ a.started = buf.started
      /\ \A x : Holds(a, x) <=> Holds(buf, x)
  BY IdleKeeps DEF IInv
<1>2. buf.deadline = 0 /\ buf' = skipGapLocked(a, t)
  BY DEF FlushExpired
<1> HIDE DEF a
<1>3. /\ Slotted(a) /\ ~Holds(a, a.nextSeq) /\ a.held > 0 /\ a.held \in Nat
      /\ a.nextSeq \in Nat /\ MaxHold \in Nat
  <2>1. Slotted(a) /\ ~Holds(a, a.nextSeq) /\ (a.deadline # NoDeadline <=> a.held > 0)
    BY <1>1 DEF Settled
  <2>2. a.deadline # NoDeadline
    BY <1>1, <1>2 DEF NoDeadline
  <2>3. a.held \in Nat /\ a.nextSeq \in Nat
    BY <2>1 DEF Slotted, Bufs
  <2> QED BY <2>1, <2>2, <2>3, ReorderAssumption
<1>4. Settled(buf') /\ Passed(a, buf') /\ a.nextSeq < buf'.nextSeq /\ buf'.held < a.held
  BY <1>2, <1>3, SkipPasses
<1>5. buf'.held \in Nat
  BY <1>4 DEF Settled, Slotted, Bufs
<1>6. buf.held <= MaxHold /\ buf.started
  BY <1>1, <1>3 DEF IInv
<1>7. buf'.held <= MaxHold
  BY <1>1, <1>3, <1>4, <1>5, <1>6
<1>8. buf'.started /\ buf'.freed = <<>>
  BY <1>1, <1>4, <1>6 DEF Passed
<1>9. \A x \in Nat : Holds(buf', x) <=> Holds(buf, x) /\ buf'.nextSeq <= x
  BY <1>1, <1>4 DEF Passed
<1>10. \A x \in Nat : x \in Members(buf'.out) <=> Holds(buf, x) /\ x < buf'.nextSeq
  <2>1. Members(buf'.out) = {} \cup {x \in Nat : Holds(a, x) /\ x < buf'.nextSeq}
    BY <1>1, <1>4, NoPacket DEF Passed
  <2> QED BY <1>1, <2>1
<1>11. Rising(buf'.out, a.nextSeq, buf'.nextSeq)
  <2>1. Rising(a.out, a.nextSeq, a.nextSeq)
    BY <1>1, NoPacket
  <2> QED BY <1>3, <1>4, <2>1 DEF Passed
<1> QED BY <1>1, <1>4, <1>6, <1>7, <1>8, <1>9, <1>10, <1>11, Zenon

(* FlushExpired only moves packets from the ring to the output.            *)
LEMMA FlushStep ==
  ASSUME IInv, NEW t \in Timeouts, FlushExpired(t)
  PROVE  IInv'
<1>1. Seqs \in SUBSET Nat
  BY ReorderAssumption
<1>2. /\ Settled(buf') /\ buf'.held <= MaxHold /\ buf'.started
      /\ buf' \in Bufs /\ buf'.nextSeq \in Nat /\ buf'.freed = <<>>
      /\ \A x \in Nat : Holds(buf', x) <=> Holds(buf, x) /\ buf'.nextSeq <= x
      /\ \A x \in Nat : x \in Members(buf'.out) <=> Holds(buf, x) /\ x < buf'.nextSeq
      /\ Rising(buf'.out, buf.nextSeq, buf'.nextSeq)
  BY FlushPasses, Zenon DEF Settled, Slotted, Bufs
<1>3. /\ emitted' \in [Seqs -> Nat] /\ released' \in [Seqs -> Nat]
      /\ \A x \in Seqs :
           /\ emitted'[x] = emitted[x] + One(x \in Members(buf'.out))
           /\ released'[x] = released[x]
  <2>1. /\ buf'.out \in Seq(Nat) /\ buf'.freed \in Seq(Nat)
        /\ Rising(buf'.freed, 0, 0) /\ Members(buf'.freed) = {}
    BY <1>2, NoPacket DEF Bufs
  <2>2. Account
    BY DEF FlushExpired
  <2>3. /\ emitted' \in [Seqs -> Nat] /\ released' \in [Seqs -> Nat]
        /\ \A x \in Seqs :
             /\ emitted'[x] = emitted[x] + One(x \in Members(buf'.out))
             /\ released'[x] = released[x] + One(x \in Members(buf'.freed))
    BY <1>2, <2>1, <2>2, Counted, Zenon DEF IInv
  <2>4. \A x \in Seqs : One(x \in Members(buf'.freed)) = 0 /\ released[x] \in Nat
    BY <2>1 DEF One, IInv
  <2>5. ASSUME NEW x \in Seqs PROVE released'[x] = released[x]
    <3>1. released'[x] = released[x] + One(x \in Members(buf'.freed))
      BY <2>3, Zenon
    <3>2. One(x \in Members(buf'.freed)) = 0 /\ released[x] \in Nat
      BY <2>4, Zenon
    <3> QED BY <3>1, <3>2
  <2> QED BY <2>3, <2>5, Zenon
<1>4. UNCHANGED <<seen, pushed>>
  BY DEF FlushExpired
<1>5. ASSUME NEW x \in Seqs
      PROVE  /\ emitted'[x] + One(Holds(buf', x)) = emitted[x] + One(Holds(buf, x))
             /\ emitted'[x] > 0 \/ Holds(buf', x) <=> emitted[x] > 0 \/ Holds(buf, x)
  <2>1. x \in Nat /\ emitted[x] \in Nat /\ emitted'[x] = emitted[x] + One(x \in Members(buf'.out))
    BY <1>1, <1>3 DEF IInv
  <2>2. CASE x \in Members(buf'.out)
    <3>1. Holds(buf, x) /\ ~Holds(buf', x)
      BY <1>2, <2>1, <2>2
    <3>2. emitted'[x] = emitted[x] + 1 /\ One(Holds(buf', x)) = 0 /\ One(Holds(buf, x)) = 1
      BY <2>1, <2>2, <3>1 DEF One
    <3>3. emitted'[x] > 0
      BY <2>1, <3>2
    <3>4. emitted'[x] + One(Holds(buf', x)) = emitted[x] + One(Holds(buf, x))
      BY <2>1, <3>2
    <3> QED BY <3>1, <3>3, <3>4, Zenon
  <2>3. CASE x \notin Members(buf'.out)
    <3>1. Holds(buf, x) <=> Holds(buf', x)
      BY <1>2, <2>1, <2>3
    <3>2. emitted'[x] = emitted[x] + 0 /\ One(Holds(buf', x)) = One(Holds(buf, x))
      BY <2>1, <2>3, <3>1 DEF One
    <3> QED BY <2>1, <3>1, <3>2
  <2> QED BY <2>2, <2>3, Zenon
<1>6. EachCopyOnce'
  <2>1. ASSUME NEW x \in Seqs
        PROVE  pushed'[x] = emitted'[x] + released'[x] + One(Holds(buf', x))
    <3>1. pushed[x] = emitted[x] + released[x] + One(Holds(buf, x))
      BY DEF IInv, EachCopyOnce, One
    <3>2. /\ emitted[x] \in Nat /\ released[x] \in Nat /\ emitted'[x] \in Nat
          /\ One(Holds(buf, x)) \in Nat /\ One(Holds(buf', x)) \in Nat
      BY <1>3 DEF IInv, One
    <3>3. /\ pushed'[x] = pushed[x] /\ released'[x] = released[x]
          /\ emitted'[x] + One(Holds(buf', x)) = emitted[x] + One(Holds(buf, x))
      BY <1>3, <1>4, <1>5
    <3> QED BY <3>1, <3>2, <3>3
  <2> QED BY <2>1 DEF EachCopyOnce, One
<1>7. Accepted' = Accepted
  BY <1>5 DEF Accepted
<1>8. /\ seen' \in Windows /\ Remembers(seen', Accepted') /\ pushed' \in [Seqs -> Nat]
  BY <1>4, <1>7 DEF IInv
<1> QED BY <1>2, <1>3, <1>6, <1>8 DEF IInv

(* Time passes for the deadline alone.                                     *)
LEMMA TickStep ==
  ASSUME IInv, Tick
  PROVE  /\ IInv' /\ buf'.out = <<>> /\ buf'.nextSeq = buf.nextSeq
         /\ buf'.deadline \in Nat /\ buf'.deadline = buf.deadline - 1
<1> DEFINE a == Idle(buf)
           c == [a EXCEPT !.deadline = @ - 1]
<1>1. /\ Settled(a) /\ a.out = <<>> /\ a.ring = buf.ring
      /\ a.nextSeq = buf.nextSeq /\ a.held = buf.held
      /\ a.deadline = buf.deadline /\ a.started = buf.started
  BY IdleKeeps DEF IInv
<1>2. buf.deadline > 0 /\ buf' = c /\ UNCHANGED <<seen, pushed, emitted, released>>
  BY DEF Tick
<1> HIDE DEF a
<1>3. a \in Bufs /\ a.deadline \in Nat \ {0} /\ a.deadline - 1 \in Nat
  <2>1. a \in Bufs /\ a.deadline \in Nat \cup {NoDeadline} /\ a.deadline > 0
    BY <1>1, <1>2 DEF Settled, Slotted, Bufs
  <2> QED BY <2>1 DEF NoDeadline
<1>4. /\ c \in Bufs /\ c.deadline = a.deadline - 1 /\ c.out = <<>> /\ c.ring = a.ring
      /\ c.nextSeq = a.nextSeq /\ c.held = a.held /\ c.started = a.started
  BY <1>1, <1>3 DEF Bufs
<1> HIDE DEF c
<1>5. \A x : Holds(c, x) <=> Holds(buf, x)
  BY <1>1, <1>4 DEF Holds
<1>6. Settled(c)
  <2>1. c.deadline # NoDeadline /\ a.deadline # NoDeadline
    BY <1>3, <1>4 DEF NoDeadline
  <2>2. c.held > 0
    BY <1>1, <1>4, <2>1 DEF Settled
  <2>3. ~Holds(c, c.nextSeq)
    BY <1>1, <1>4, <1>5 DEF Settled, Holds
  <2> QED BY <1>1, <1>4, <2>1, <2>2, <2>3 DEF Settled, Slotted
<1>7. c.held <= MaxHold /\ (c.held > 0 => c.started)
  BY <1>1, <1>4 DEF IInv
<1>8. EachCopyOnce' /\ Accepted' = Accepted
  BY <1>2, <1>5 DEF IInv, EachCopyOnce, Accepted
<1>9. IInv'
  BY <1>2, <1>6, <1>7, <1>8 DEF IInv
<1> QED BY <1>1, <1>2, <1>3, <1>4, <1>9

(* The invariant holds of a new buffer.                                    *)
LEMMA InitInv == Init => IInv
<1> SUFFICES ASSUME Init PROVE IInv
  OBVIOUS
<1>1. /\ buf.started = FALSE /\ buf.nextSeq = 0 /\ buf.held = 0 /\ buf.deadline = NoDeadline
      /\ buf.ring = [i \in Indices |-> Free] /\ buf \in Bufs
  <2>1. <<>> \in Seq(Nat)
    BY NoPacket
  <2> QED BY <2>1 DEF Init, Bufs
<1>2. Used(buf.ring) = {}
  BY <1>1 DEF Used
<1>3. \A x \in Nat : ~Holds(buf, x)
  BY <1>1, IndexType DEF Holds, Free
<1>4. Slotted(buf)
  BY <1>1, <1>2, FS_EmptySet DEF Slotted
<1>5. Settled(buf) /\ buf.held <= MaxHold /\ (buf.held > 0 => buf.started)
  BY <1>1, <1>3, <1>4, ReorderAssumption DEF Settled
<1>6. pushed \in [Seqs -> Nat] /\ emitted \in [Seqs -> Nat] /\ released \in [Seqs -> Nat]
      /\ \A s \in Seqs : pushed[s] = 0 /\ emitted[s] = 0 /\ released[s] = 0 /\ s \in Nat
  BY ReorderAssumption DEF Init
<1>7. EachCopyOnce
  BY <1>3, <1>6 DEF EachCopyOnce
<1>8. Accepted = {}
  BY <1>3, <1>6 DEF Accepted
<1>9. seen \in Windows /\ seen = NewWindow /\ seen.started = FALSE /\ seen.highest = 0
  BY DEF Init, NewWindow, Windows
<1>10. \A c \in Nat : ~Marked(seen.blocks, c)
  BY <1>9, BlockBit DEF NewWindow, Marked
<1>11. Remembers(seen, {})
  BY <1>9, <1>10, BitmapAssumption DEF Remembers
<1> QED BY <1>5, <1>6, <1>7, <1>8, <1>9, <1>11 DEF IInv

(* The two outcomes of Push.                                               *)
LEMMA PushCases ==
  ASSUME IInv, NEW s \in Seqs, NEW t \in Timeouts, Push(s, t)
  PROVE  /\ pushed' = [pushed EXCEPT ![s] = @ + 1] /\ seen' = Checked(seen, s) /\ Account
         /\ \/ ~Fresh(seen, s) /\ buf' = [Idle(buf) EXCEPT !.freed = <<s>>]
            \/ Fresh(seen, s) /\ Took(buf, s, buf')
<1>1. /\ pushed' = [pushed EXCEPT ![s] = @ + 1] /\ Account
      /\ \E duplicate \in BOOLEAN :
           /\ markSeen(s, duplicate)
           /\ buf' = IF duplicate THEN [Idle(buf) EXCEPT !.freed = <<s>>]
                                  ELSE accept(Idle(buf), s, t)
  BY DEF Push
<1>2. PICK duplicate \in BOOLEAN :
        /\ markSeen(s, duplicate)
        /\ buf' = IF duplicate THEN [Idle(buf) EXCEPT !.freed = <<s>>]
                               ELSE accept(Idle(buf), s, t)
  BY <1>1
<1>3. seen' = Checked(seen, s) /\ (duplicate <=> ~Fresh(seen, s))
  BY <1>2, Zenon DEF markSeen, Fresh
<1>4. CASE duplicate
  BY <1>1, <1>2, <1>3, <1>4
<1>5. CASE ~duplicate
  <2>1. buf' = accept(Idle(buf), s, t)
    BY <1>2, <1>5
  <2>2. Took(buf, s, buf')
    BY <2>1, FreshTakes
  <2> QED BY <1>1, <1>3, <1>5, <2>2
<1> QED BY <1>4, <1>5

(* Every step keeps the invariant.                                         *)
LEMMA NextIInv == IInv /\ [Next]_vars => IInv'
<1> SUFFICES ASSUME IInv, [Next]_vars PROVE IInv'
  OBVIOUS
<1>1. ASSUME NEW s \in Seqs, NEW t \in Timeouts, Push(s, t) PROVE IInv'
  BY <1>1, PushCases, DuplicateStep, FreshStep
<1>2. ASSUME NEW t \in Timeouts, FlushExpired(t) PROVE IInv'
  BY <1>2, FlushStep
<1>3. CASE Tick
  BY <1>3, TickStep
<1>4. CASE UNCHANGED vars
  BY <1>4 DEF vars, IInv, EachCopyOnce, Accepted
<1> QED BY <1>1, <1>2, <1>3, <1>4 DEF Next

(* The invariant holds throughout.                                         *)
LEMMA InvariantHolds == Spec => []IInv
  BY InitInv, NextIInv, PTL DEF Spec

-----------------------------------------------------------------------------
(* For every ring, limit and arrival order: between calls every held       *)
(* packet is in its slot and awaited, held counts them, and a deadline is  *)
(* armed exactly while something is held.                                  *)
THEOREM BufferShape == Spec => []RingShape
<1>1. IInv => RingShape
  <2> SUFFICES ASSUME IInv PROVE RingShape
    OBVIOUS
  <2>1. /\ buf \in Bufs /\ buf.held = Cardinality(Used(buf.ring)) /\ ~Holds(buf, buf.nextSeq)
        /\ buf.deadline # NoDeadline <=> buf.held > 0
        /\ \A i \in Indices : buf.ring[i] # Free =>
             /\ Index(buf.ring[i]) = i
             /\ buf.nextSeq <= buf.ring[i] /\ buf.ring[i] < buf.nextSeq + RingSize
    BY DEF IInv, Settled, Slotted
  <2>2. TypeOK
    BY <2>1, ReorderAssumption, Zenon DEF IInv, TypeOK, Bufs
  <2>3. ASSUME NEW i \in Indices, buf.ring[i] # Free
        PROVE  buf.nextSeq < buf.ring[i]
    <3>1. buf.ring[i] \in Nat /\ buf.nextSeq \in Nat /\ buf.nextSeq <= buf.ring[i]
      BY <2>1, <2>3, <2>2 DEF TypeOK
    <3>2. buf.nextSeq # buf.ring[i]
      BY <2>1, <2>3 DEF Holds
    <3> QED BY <3>1, <3>2
  <2>4. buf.held = Cardinality({i \in Indices : buf.ring[i] # Free})
    BY <2>1 DEF Used
  <2>5. buf.held <= MaxHold /\ (buf.held > 0 => buf.started)
    BY DEF IInv
  <2> QED BY <2>1, <2>2, <2>3, <2>4, <2>5 DEF RingShape
<1> QED BY <1>1, InvariantHolds, PTL

(* For every arrival order: every copy given to Push is emitted, released  *)
(* or held, exactly once.                                                  *)
THEOREM CopiesAccounted == Spec => []EachCopyOnce
<1>1. IInv => EachCopyOnce
  BY DEF IInv
<1> QED BY <1>1, InvariantHolds, PTL

(* For every arrival order: what one call emits is one late packet, or     *)
(* rises from nextSeq to the new nextSeq.                                  *)
THEOREM BufferResequences == Spec => Resequenced
<1> DEFINE Ordered ==
      \/ buf'.out = <<>>
      \/ Len(buf'.out) = 1 /\ buf'.out[1] < buf.nextSeq /\ buf'.nextSeq = buf.nextSeq
      \/ /\ \A i \in 1 .. Len(buf'.out) - 1 : buf'.out[i] < buf'.out[i + 1]
         /\ buf.started => buf.nextSeq <= buf'.out[1]
         /\ buf'.out[Len(buf'.out)] < buf'.nextSeq
<1>1. ASSUME buf'.out \in Seq(Nat), NEW lo, Rising(buf'.out, lo, buf'.nextSeq),
             buf.started => lo = buf.nextSeq
      PROVE  Ordered
  <2>1. Len(buf'.out) \in Nat /\ (Len(buf'.out) = 0 => buf'.out = <<>>)
    BY <1>1, SeqEmpty
  <2>2. CASE Len(buf'.out) = 0
    BY <2>1, <2>2
  <2>3. CASE Len(buf'.out) # 0
    <3> DEFINE n == Len(buf'.out)
    <3>1. 1 \in 1 .. n /\ n \in 1 .. n /\ \A i \in 1 .. n - 1 : i \in 1 .. n /\ i + 1 \in 1 .. n
      BY <2>1, <2>3
    <3>2. \A i \in 1 .. n - 1 : buf'.out[i] < buf'.out[i + 1]
      BY <1>1, <3>1 DEF Rising
    <3>3. lo <= buf'.out[1] /\ buf'.out[n] < buf'.nextSeq
      BY <1>1, <3>1, Zenon DEF Rising
    <3> QED BY <1>1, <3>2, <3>3
  <2> QED BY <2>2, <2>3
<1>2. IInv /\ [Next]_vars => [Ordered]_vars
  <2> SUFFICES ASSUME IInv, Next PROVE Ordered
    OBVIOUS
  <2>1. IInv' /\ buf'.out \in Seq(Nat)
    BY NextIInv, Zenon DEF IInv, Settled, Slotted, Bufs
  <2> HIDE DEF Ordered
  <2>2. ASSUME NEW s \in Seqs, NEW t \in Timeouts, Push(s, t) PROVE Ordered
    <3>1. CASE buf' = [Idle(buf) EXCEPT !.freed = <<s>>]
      <4>1. buf'.out = <<>>
        BY <3>1, IdleKeeps, Zenon DEF IInv, Settled, Slotted, Bufs, Idle
      <4> QED BY <4>1 DEF Ordered
    <3>2. CASE Took(buf, s, buf')
      <4>1. /\ s \in Nat /\ buf.nextSeq \in Nat /\ buf.started \in BOOLEAN
        BY ReorderAssumption DEF IInv, Settled, Slotted, Bufs
      <4>2. CASE buf.started /\ s < buf.nextSeq
        <5>1. buf'.nextSeq = buf.nextSeq /\ buf'.out = <<s>>
          BY <3>2, <4>2, Zenon DEF Took
        <5>2. Len(<<s>>) = 1 /\ <<s>>[1] = s
          OBVIOUS
        <5> QED BY <4>2, <5>1, <5>2 DEF Ordered
      <4>3. CASE buf.started /\ buf.nextSeq <= s
        BY <1>1, <2>1, <3>2, <4>3, Zenon DEF Took
      <4>4. CASE ~buf.started
        BY <1>1, <2>1, <3>2, <4>4 DEF Took
      <4> QED BY <4>1, <4>2, <4>3, <4>4
    <3> QED BY <2>2, <3>1, <3>2, PushCases
  <2>3. ASSUME NEW t \in Timeouts, FlushExpired(t) PROVE Ordered
    BY <1>1, <2>1, <2>3, FlushPasses, Zenon
  <2>4. CASE Tick
    BY <2>4, TickStep DEF Ordered
  <2> QED BY <2>2, <2>3, <2>4 DEF Next
<1> QED BY <1>2, InvariantHolds, PTL DEF Spec, Resequenced

(* What Push of a duplicate does to the buffer.                            *)
LEMMA DuplicateReleased ==
  ASSUME IInv, NEW s, buf' = [Idle(buf) EXCEPT !.freed = <<s>>]
  PROVE  buf'.out = <<>> /\ buf'.freed = <<s>> /\ buf'.deadline = buf.deadline
<1>1. buf \in Bufs
  BY DEF IInv, Settled, Slotted
<1> QED BY <1>1 DEF Bufs, Idle

(* For every arrival order: no arrival postpones the moment at which a     *)
(* pending gap is given up.                                                *)
THEOREM GapKept == Spec => GapNotPostponed
<1> DEFINE Kept == buf'.nextSeq = buf.nextSeq /\ buf.deadline # NoDeadline
                     => buf'.deadline # NoDeadline /\ buf'.deadline <= buf.deadline
<1>1. IInv /\ [Next]_vars => [Kept]_vars
  <2> SUFFICES ASSUME IInv, Next PROVE Kept
    OBVIOUS
  <2>1. buf.nextSeq \in Nat /\ buf.deadline \in Nat \cup {NoDeadline}
    BY DEF IInv, Settled, Slotted, Bufs
  <2>2. buf.deadline <= buf.deadline
    BY <2>1 DEF NoDeadline
  <2>3. ASSUME NEW s \in Seqs, NEW t \in Timeouts, Push(s, t) PROVE Kept
    <3>1. CASE buf' = [Idle(buf) EXCEPT !.freed = <<s>>]
      BY <2>2, <3>1, DuplicateReleased
    <3>2. CASE Took(buf, s, buf')
      BY <2>2, <3>2 DEF Took
    <3> QED BY <2>3, <3>1, <3>2, PushCases
  <2>4. ASSUME NEW t \in Timeouts, FlushExpired(t) PROVE Kept
    <3>1. buf.nextSeq < buf'.nextSeq
      BY <2>4, FlushPasses
    <3> QED BY <2>1, <3>1
  <2>5. CASE Tick
    <3>1. buf'.deadline \in Nat /\ buf'.deadline = buf.deadline - 1
      BY <2>5, TickStep
    <3> QED BY <2>1, <3>1 DEF NoDeadline
  <2> QED BY <2>3, <2>4, <2>5 DEF Next
<1> QED BY <1>1, InvariantHolds, PTL DEF Spec, GapNotPostponed

(* For every arrival order: a second copy of a recent packet is dropped,   *)
(* and a packet is dropped only as too old, as a duplicate or as the alias *)
(* of one WindowSize below it.                                             *)
THEOREM DuplicatesFiltered == Spec => RecentDuplicatesDropped
<1> DEFINE Filtered(s) ==
             /\ s \in Accepted /\ seen.highest - s <= WindowSize - BlockBits
                  => buf'.freed = <<s>> /\ buf'.out = <<>>
             /\ buf'.freed = <<s>> =>
                  TooOld(seen, s) \/ s \in Accepted \/ s - WindowSize \in Accepted
           Dropped == \A s \in Seqs : pushed'[s] > pushed[s] => Filtered(s)
<1>1. IInv /\ [Next]_vars => [Dropped]_vars
  <2> SUFFICES ASSUME IInv, Next PROVE Dropped
    OBVIOUS
  <2>1. /\ seen \in Windows /\ Accepted \in SUBSET Nat /\ Remembers(seen, Accepted)
        /\ \A s \in Seqs : s \in Nat /\ pushed[s] \in Nat
    BY ReorderAssumption, Zenon DEF IInv, Accepted
  <2>2. ASSUME NEW s \in Seqs, NEW t \in Timeouts, Push(s, t) PROVE Dropped
    <3>1. ASSUME NEW x \in Seqs, pushed'[x] > pushed[x] PROVE x = s
      <4>1. pushed' = [pushed EXCEPT ![s] = @ + 1]
        BY <2>2, PushCases
      <4>2. x # s => pushed'[x] = pushed[x]
        BY <4>1 DEF IInv
      <4> QED BY <2>1, <3>1, <4>2
    <3>2. /\ s \in Accepted /\ seen.highest - s <= WindowSize - BlockBits => ~Fresh(seen, s)
          /\ ~Fresh(seen, s) => TooOld(seen, s) \/ s \in Accepted \/ s - WindowSize \in Accepted
      BY <2>1, CheckAnswers
    <3>3. Filtered(s)
      <4>1. CASE ~Fresh(seen, s) /\ buf' = [Idle(buf) EXCEPT !.freed = <<s>>]
        BY <3>2, <4>1, DuplicateReleased
      <4>2. CASE Fresh(seen, s) /\ Took(buf, s, buf')
        <5>1. buf'.freed = <<s>> => Holds(buf, s)
          <6>1. <<s>> # <<>>
            OBVIOUS
          <6>2. buf'.freed = IF Holds(buf, s) THEN <<s>> ELSE <<>>
            BY <4>2, Zenon DEF Took
          <6> QED BY <6>1, <6>2
        <5>2. buf'.freed = <<s>> => s \in Accepted
          BY <5>1 DEF Accepted
        <5> QED BY <3>2, <4>2, <5>2
      <4> QED BY <2>2, <4>1, <4>2, PushCases
    <3> HIDE DEF Filtered
    <3> QED BY <3>1, <3>3
  <2>3. ASSUME pushed' = pushed PROVE Dropped
    BY <2>1, <2>3
  <2>4. ASSUME NEW t \in Timeouts, FlushExpired(t) PROVE pushed' = pushed
    BY <2>4 DEF FlushExpired
  <2>5. CASE Tick
    BY <2>3, <2>5 DEF Tick
  <2> HIDE DEF Dropped
  <2> QED BY <2>2, <2>3, <2>4, <2>5 DEF Next
<1> QED BY <1>1, InvariantHolds, PTL DEF Spec, RecentDuplicatesDropped

-----------------------------------------------------------------------------
(* Every packet arrives while the duplicate filter still remembers it: at  *)
(* most WindowSize - BlockBits behind the highest one.                     *)
Timely ==
  \A s \in Seqs : pushed'[s] > pushed[s] => seen.highest - s <= WindowSize - BlockBits

(* A packet is emitted once, or held and not yet emitted.                  *)
Once == \A x \in Seqs : emitted[x] + One(Holds(buf, x)) <= 1

(* Copies that were neither released nor refused are emitted or held, so a *)
(* step that takes in no copy, or releases the one it takes, keeps Once.   *)
LEMMA OnceKept ==
  ASSUME IInv, IInv', Once, NEW x \in Seqs,
         pushed'[x] - released'[x] = pushed[x] - released[x]
  PROVE  emitted'[x] + One(Holds(buf', x)) <= 1
<1>1. /\ emitted[x] \in Nat /\ released[x] \in Nat /\ pushed[x] \in Nat
      /\ emitted'[x] \in Nat /\ released'[x] \in Nat /\ pushed'[x] \in Nat
  BY DEF IInv
<1>2. One(Holds(buf, x)) \in Nat /\ One(Holds(buf', x)) \in Nat
  BY DEF One
<1>3. /\ pushed[x] = emitted[x] + released[x] + One(Holds(buf, x))
      /\ pushed'[x] = emitted'[x] + released'[x] + One(Holds(buf', x))
  BY DEF IInv, EachCopyOnce, One
<1>4. emitted[x] + One(Holds(buf, x)) <= 1
  BY DEF Once
<1> DEFINE h == One(Holds(buf, x))
           g == One(Holds(buf', x))
<1> HIDE DEF h, g
<1>5. /\ h \in Nat /\ g \in Nat /\ emitted[x] + h <= 1
      /\ pushed[x] = emitted[x] + released[x] + h
      /\ pushed'[x] = emitted'[x] + released'[x] + g
  BY <1>2, <1>3, <1>4, Zenon DEF h, g
<1>6. emitted'[x] + g <= 1
  BY <1>1, <1>5
<1> QED BY <1>6 DEF g

(* What a step adds to the released copies.                                *)
LEMMA ReleasedAfter ==
  ASSUME IInv, Account, NEW x \in Seqs
  PROVE  /\ buf'.freed = <<>> => released'[x] = released[x]
         /\ \A s \in Nat : buf'.freed = <<s>> =>
              released'[x] = released[x] + One(x = s)
<1>1. released'[x] = released[x] + Count(buf'.freed, x) /\ released[x] \in Nat
  BY DEF Account, IInv
<1>2. ASSUME buf'.freed = <<>> PROVE Count(buf'.freed, x) = 0
  <2>1. Count(<<>>, x) = IF x \in Members(<<>>) THEN 1 ELSE 0
    BY NoPacket, CountRising, Zenon
  <2> QED BY <1>2, <2>1, NoPacket
<1>3. ASSUME NEW s \in Nat, buf'.freed = <<s>> PROVE Count(buf'.freed, x) = One(x = s)
  <2>1. <<s>> \in Seq(Nat) /\ Members(<<s>>) = {s} /\ Rising(<<s>>, s, s + 1)
    BY OnePacket
  <2>2. Count(<<s>>, x) = IF x \in Members(<<s>>) THEN 1 ELSE 0
    BY <2>1, CountRising, Zenon
  <2> QED BY <1>3, <2>1, <2>2 DEF One
<1> QED BY <1>1, <1>2, <1>3

(* An arrival within the filter's span keeps Once: a second copy is found  *)
(* to be one, and a first copy is the only one.                            *)
LEMMA PushOnce ==
  ASSUME IInv, IInv', Once, NEW s \in Seqs, NEW t \in Timeouts, Push(s, t),
         seen.highest - s <= WindowSize - BlockBits
  PROVE  Once'
<1>1. s \in Nat /\ Accepted \in SUBSET Nat /\ seen \in Windows /\ Remembers(seen, Accepted)
  BY ReorderAssumption, Zenon DEF IInv, Accepted
<1>2. /\ pushed' = [pushed EXCEPT ![s] = @ + 1] /\ Account
      /\ \/ ~Fresh(seen, s) /\ buf' = [Idle(buf) EXCEPT !.freed = <<s>>]
         \/ Fresh(seen, s) /\ Took(buf, s, buf')
  BY PushCases
<1>3. \A x \in Seqs : /\ pushed[x] \in Nat /\ released[x] \in Nat /\ emitted[x] \in Nat
                      /\ pushed'[x] = pushed[x] + One(x = s)
  BY <1>2 DEF IInv, One
<1>4. CASE ~Fresh(seen, s) /\ buf' = [Idle(buf) EXCEPT !.freed = <<s>>]
  <2>1. buf'.freed = <<s>>
    BY <1>4, DuplicateReleased
  <2>2. ASSUME NEW x \in Seqs PROVE emitted'[x] + One(Holds(buf', x)) <= 1
    <3>1. released'[x] = released[x] + One(x = s)
      BY <1>1, <1>2, <2>1, ReleasedAfter
    <3>2. pushed'[x] - released'[x] = pushed[x] - released[x]
      BY <1>3, <3>1 DEF One
    <3> QED BY <3>2, OnceKept
  <2> QED BY <2>2 DEF Once
<1>5. CASE Fresh(seen, s) /\ Took(buf, s, buf')
  <2>1. s \notin Accepted
    BY <1>1, <1>5, CheckAnswers
  <2>2. emitted[s] = 0 /\ ~Holds(buf, s)
    BY <1>3, <2>1 DEF Accepted
  <2>3. buf'.freed = <<>>
    BY <1>5, <2>2 DEF Took
  <2>4. ASSUME NEW x \in Seqs PROVE emitted'[x] + One(Holds(buf', x)) <= 1
    <3>1. released'[x] = released[x]
      BY <1>2, <2>3, ReleasedAfter
    <3>2. CASE x # s
      <4>1. pushed'[x] - released'[x] = pushed[x] - released[x]
        BY <1>3, <3>1, <3>2 DEF One
      <4> QED BY <4>1, OnceKept
    <3>3. CASE x = s
      <4>1. /\ pushed[s] = emitted[s] + released[s] + One(Holds(buf, s))
            /\ pushed'[s] = emitted'[s] + released'[s] + One(Holds(buf', s))
        BY DEF IInv, EachCopyOnce, One
      <4>2. One(Holds(buf, s)) = 0 /\ One(Holds(buf', s)) \in Nat /\ emitted'[s] \in Nat
        BY <2>2 DEF One, IInv
      <4>3. pushed'[s] = pushed[s] + 1
        BY <1>3 DEF One
      <4> DEFINE g == One(Holds(buf', s))
      <4> HIDE DEF g
      <4>4. /\ g \in Nat /\ pushed[s] = emitted[s] + released[s] + 0
            /\ pushed'[s] = emitted'[s] + released'[s] + g
        BY <4>1, <4>2, Zenon DEF g
      <4>5. emitted'[s] + g <= 1
        BY <1>3, <2>2, <3>1, <3>3, <4>2, <4>3, <4>4
      <4> QED BY <3>3, <4>5 DEF g
    <3> QED BY <3>2, <3>3
  <2> QED BY <2>4 DEF Once
<1> QED BY <1>2, <1>4, <1>5

(* Every step keeps Once, if the packets it takes in are in time.          *)
LEMMA NextOnce == IInv /\ Once /\ [Next]_vars /\ [Timely]_vars => Once'
<1> SUFFICES ASSUME IInv, Once, [Next]_vars, [Timely]_vars PROVE Once'
  OBVIOUS
<1>1. IInv'
  BY NextIInv
<1>2. \A x \in Seqs : pushed[x] \in Nat /\ released[x] \in Nat /\ emitted[x] \in Nat
  BY DEF IInv
<1>3. CASE UNCHANGED vars
  BY <1>3 DEF vars, Once
<1>4. ASSUME NEW s \in Seqs, NEW t \in Timeouts, Push(s, t), ~UNCHANGED vars PROVE Once'
  <2>1. pushed' = [pushed EXCEPT ![s] = @ + 1]
    BY <1>4, PushCases
  <2>2. pushed'[s] > pushed[s]
    BY <1>2, <2>1 DEF IInv
  <2>3. seen.highest - s <= WindowSize - BlockBits
    BY <1>4, <2>2 DEF Timely
  <2> QED BY <1>1, <1>4, <2>3, PushOnce
<1>5. ASSUME NEW t \in Timeouts, FlushExpired(t) PROVE Once'
  <2>1. buf'.freed = <<>> /\ Account /\ pushed' = pushed
    BY <1>5, FlushPasses, Zenon DEF FlushExpired
  <2>2. ASSUME NEW x \in Seqs PROVE emitted'[x] + One(Holds(buf', x)) <= 1
    <3>1. released'[x] = released[x]
      BY <2>1, ReleasedAfter
    <3> QED BY <1>1, <1>2, <2>1, <3>1, OnceKept
  <2> QED BY <2>2 DEF Once
<1>6. CASE Tick
  <2>1. ASSUME NEW x \in Seqs PROVE emitted'[x] + One(Holds(buf', x)) <= 1
    <3>1. pushed'[x] = pushed[x] /\ released'[x] = released[x]
      BY <1>6 DEF Tick
    <3> QED BY <1>1, <1>2, <3>1, OnceKept
  <2> QED BY <2>1 DEF Once
<1> QED BY <1>3, <1>4, <1>5, <1>6 DEF Next

(* It holds of a new buffer.                                               *)
LEMMA InitOnce == Init => Once
<1> SUFFICES ASSUME Init PROVE Once
  OBVIOUS
<1>1. \A x \in Seqs : emitted[x] = 0
  BY DEF Init
<1>2. \A p : One(p) <= 1 /\ 0 + One(p) = One(p)
  BY DEF One
<1> QED BY <1>1, <1>2 DEF Once

(* It means that a packet is emitted at most once, after it was pushed.    *)
LEMMA OnceEmits ==
  ASSUME IInv, Once
  PROVE  \A s \in Seqs : emitted[s] <= 1 /\ (emitted[s] > 0 => pushed[s] > 0)
<1> SUFFICES ASSUME NEW s \in Seqs PROVE emitted[s] <= 1 /\ (emitted[s] > 0 => pushed[s] > 0)
  OBVIOUS
<1>1. emitted[s] \in Nat /\ released[s] \in Nat
  BY DEF IInv
<1>2. One(Holds(buf, s)) \in Nat
  BY DEF One
<1>3. emitted[s] + One(Holds(buf, s)) <= 1
  BY Zenon DEF Once
<1>4. pushed[s] = emitted[s] + released[s] + One(Holds(buf, s))
  BY Zenon DEF IInv, EachCopyOnce, One
<1> QED BY <1>1, <1>2, <1>3, <1>4

(* For every buffer, duplicate filter and arrival order: as long as every  *)
(* copy arrives while the filter remembers the packet, no packet is        *)
(* emitted twice.  A copy that comes later may be emitted again: the older *)
(* a packet, the sooner the filter's ring of blocks has forgotten it.      *)
THEOREM TimelyEmittedOnce == Spec /\ [][Timely]_vars => []NeverEmittedTwice
<1>1. IInv /\ Once => NeverEmittedTwice
  BY OnceEmits, Zenon DEF NeverEmittedTwice
<1> QED BY <1>1, InitOnce, InvariantHolds, NextOnce, PTL DEF Spec
=============================================================================
