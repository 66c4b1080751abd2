------------------------------ MODULE FecProofs -----------------------------
(***************************************************************************)
(* Forward error correction, for every group size, ring, table of groups   *)
(* and number of packets: while one process sends, what the decoder        *)
(* rebuilds was sent, no group that could be solved waits, and any k of a  *)
(* group's packets and shards rebuild it.  The argument follows a group    *)
(* from the encoder, whose groups are disjoint and hold only packets that  *)
(* were sent (Encoder), to the decoder, which keeps of a group the shards  *)
(* it got or has all of its packets (Decoder).                             *)
(***************************************************************************)
EXTENDS Fec, FiniteSetTheorems, WellFoundedInduction, TLAPS

Shards ==
  {h \in [run : 1 .. MaxRuns, base : 1 .. MaxSeq, k : 1 .. K, r : 1 .. MaxParity,
          index : Nat] :
     h.index < h.r /\ h.base + h.k - 1 <= MaxSeq}

(* A group of the decoder's table, under its base.                         *)
GroupOK(g, b) ==
  /\ g = [base |-> b, k |-> g.k, r |-> g.r, parity |-> g.parity]
  /\ g.k \in 1 .. K /\ b + g.k - 1 <= MaxSeq /\ g.r \in 1 .. MaxParity
  /\ DOMAIN g.parity \subseteq 0 .. g.r - 1

Table(gs) ==
  /\ DOMAIN gs \subseteq 1 .. MaxSeq
  /\ \A b \in DOMAIN gs : GroupOK(gs[b], b)

Types ==
  /\ TypeOK
  /\ enc.n > 0 => enc.base >= 1 /\ enc.base + enc.n - 1 <= seq
  /\ \A p \in sent : p.run \in 1 .. run /\ p.seq >= 1
  /\ \A h \in shards : h \in Shards /\ h.run <= run
  /\ Table(groups)

(* Two shards of one process belong to one group or to disjoint ones.      *)
Apart(H) ==
  \A h, x \in H :
    /\ h.base = x.base => h.k = x.k /\ h.r = x.r
    /\ h.base < x.base => h.base + h.k <= x.base

(* The groups in H are closed: their packets are in S and end by top.      *)
Closed(H, S, top) ==
  \A h \in H : /\ \A s \in Members(h) : Packet(1, s) \in S
               /\ h.base + h.k - 1 <= top

(* What one process has sent: shards of disjoint groups of packets that    *)
(* were sent, and an open group above all of them.                         *)
Encoder ==
  /\ \A p \in sent : p.seq <= seq
  /\ \A s \in enc.base .. enc.base + enc.n - 1 : Packet(1, s) \in sent
  /\ Apart(shards)
  /\ Closed(shards, sent, seq)
  /\ enc.n > 0 => Closed(shards, sent, enc.base - 1)

(* The groups in gs are groups of the shards in G, and hold shards of the  *)
(* one process.                                                            *)
Covered(gs, G) ==
  \A b \in DOMAIN gs :
    /\ \E h \in G : h.base = b /\ h.k = gs[b].k /\ h.r = gs[b].r
    /\ \A i \in DOMAIN gs[b].parity : gs[b].parity[i] = 1

RingIn(rg, A) == \A i \in 0 .. Ring - 1 : rg[i] = NoPacket \/ rg[i] \in A

Unsolvable(rg, g) ==
  Cardinality(DOMAIN g.parity) < Cardinality(Missing(rg, g))

(* Shard x is with its group in the table gs.                              *)
Waits(x, gs) == x.base \in DOMAIN gs /\ x.index \in DOMAIN gs[x.base].parity

(* All packets of the group of x are in A.                                 *)
Whole(x, A) == \A s \in Members(x) : Packet(1, s) \in A

(* What the decoder knows while one process sends: packets that arrived,   *)
(* groups of shards it got, none of them solvable; and until it gives up a *)
(* group, every shard it got waits in the table or has its group complete. *)
Decoder ==
  /\ RingIn(ring, arrived)
  /\ Covered(groups, got)
  /\ \A b \in DOMAIN groups : Unsolvable(ring, groups[b])
  /\ recovered \subseteq sent
  /\ failed = 0 => \A x \in got : Waits(x, groups) \/ Whole(x, arrived \cup recovered)

IInv == Types /\ (run = 1 => Encoder /\ Decoder)

-----------------------------------------------------------------------------
(* The sizes are naturals, and a group fits in the ring.                   *)
LEMMA Sizes ==
  /\ K \in Nat /\ K >= 2 /\ K < Ring /\ Ring \in Nat /\ MaxSeq \in Nat /\ MaxShards \in Nat
  /\ MaxParity \in Nat /\ MaxGroups \in Nat /\ MaxGroups > 0 /\ MaxRuns \in Nat /\ MaxRuns > 0
  BY FecAssumption

(* k consecutive numbers are k.                                            *)
LEMMA Consecutive ==
  ASSUME NEW a \in Nat, NEW k \in Nat \ {0}
  PROVE  IsFiniteSet(a .. a + k - 1) /\ Cardinality(a .. a + k - 1) = k
<1> DEFINE z == a + k - 1
<1>1. a \in Int /\ z \in Int /\ ~(a > z) /\ z - a + 1 = k
  OBVIOUS
<1> HIDE DEF z
<1>2. IsFiniteSet(a .. z) /\ Cardinality(a .. z) = IF a > z THEN 0 ELSE z - a + 1
  BY <1>1, FS_Interval
<1>3. QED
  BY <1>1, <1>2 DEF z

(* The packets of a group are as many as its k.                            *)
LEMMA MembersCount ==
  ASSUME NEW g, g.base \in Nat, g.k \in Nat \ {0}
  PROVE  IsFiniteSet(Members(g)) /\ Cardinality(Members(g)) = g.k
  BY Consecutive, Zenon DEF Members

(* What is missing of a group is finite, and counts with what is held.     *)
LEMMA MissingCount ==
  ASSUME NEW rg, NEW g, g.base \in Nat, g.k \in Nat \ {0}
  PROVE  /\ IsFiniteSet(Missing(rg, g)) /\ Cardinality(Missing(rg, g)) \in Nat
         /\ Missing(rg, g) \subseteq Members(g)
<1>1. Missing(rg, g) \subseteq Members(g)
  BY DEF Missing
<1>2. IsFiniteSet(Members(g))
  BY MembersCount
<1>3. QED
  BY <1>1, <1>2, FS_Subset, FS_CardinalityType

(* Slot numbers.                                                           *)
LEMMA Slot == \A s \in Nat : s % Ring \in 0 .. Ring - 1
  BY FecAssumption

(* A packet that takes over a slot is missing from no group; one outside   *)
(* the group makes the group miss no less.                                 *)
LEMMA MissingGrows ==
  ASSUME NEW rg \in [0 .. Ring - 1 -> Packets], NEW d \in Packets,
         NEW g, g.base \in Nat, g.k \in Nat \ {0}, d.seq \notin Members(g)
  PROVE  Cardinality(Missing(rg, g)) <= Cardinality(Missing([rg EXCEPT ![d.seq % Ring] = d], g))
<1> DEFINE new == [rg EXCEPT ![d.seq % Ring] = d]
<1>1. d.seq \in Nat
  BY FecAssumption DEF Packets
<1>2. ASSUME NEW s \in Missing(rg, g) PROVE s \in Missing(new, g)
  <2>1. s \in Members(g) /\ rg[s % Ring].seq # s /\ s # d.seq
    BY DEF Missing, Holds
  <2>2. s \in Nat
    BY <2>1 DEF Members
  <2>3. s % Ring \in 0 .. Ring - 1 /\ d.seq % Ring \in 0 .. Ring - 1
    BY <1>1, <2>2, Slot, Zenon
  <2>4. new[s % Ring] = IF s % Ring = d.seq % Ring THEN d ELSE rg[s % Ring]
    BY <2>3
  <2>5. new[s % Ring].seq # s
    BY <2>1, <2>4
  <2>6. QED
    BY <2>1, <2>5 DEF Missing, Holds
<1>3. Missing(rg, g) \subseteq Missing(new, g)
  BY <1>2, Zenon
<1>4. IsFiniteSet(Missing(new, g))
  BY MissingCount
<1>5. QED
  BY <1>3, <1>4, FS_Subset, Zenon

-----------------------------------------------------------------------------
Less == {p \in Nat \X Nat : p[1] < p[2]}

(* The order of the naturals has no infinite descent.                      *)
LEMMA LessWellFounded == IsWellFoundedOn(Less, Nat)
  BY NatLessThanWellFounded DEF Less, OpToRel

(* The oldest group of a table that is not empty is one of its groups.     *)
LEMMA LeastIn ==
  ASSUME NEW T \in SUBSET Nat, T # {}
  PROVE  Least(T) \in T
<1>1. PICK x \in T : \A y \in T : ~(<<y, x>> \in Less)
  BY WFMin, LessWellFounded, Zenon
<1>2. ASSUME NEW y \in T PROVE x <= y
  <2>1. x \in Nat /\ y \in Nat
    OBVIOUS
  <2>2. <<y, x>> \in Nat \X Nat /\ <<y, x>>[1] = y /\ <<y, x>>[2] = x
    BY <2>1
  <2>3. y < x => <<y, x>> \in Less
    BY <2>2, Zenon DEF Less
  <2>4. QED
    BY <1>1, <2>1, <2>3
<1>3. QED
  BY <1>2, Zenon DEF Least

(* What is left of a table without some of its groups.                     *)
LEMMA WithoutFacts ==
  ASSUME NEW gs, NEW B
  PROVE  /\ DOMAIN Without(gs, B) = DOMAIN gs \ B
         /\ \A b \in DOMAIN gs \ B : Without(gs, B)[b] = gs[b]
  BY DEF Without, Restrict

(* What a function is after a value was added.                             *)
LEMMA AddingFacts ==
  ASSUME NEW f, NEW x, NEW v
  PROVE  /\ DOMAIN Adding(f, x, v) = DOMAIN f \cup {x}
         /\ \A y \in DOMAIN f : Adding(f, x, v)[y] = f[y]
         /\ x \notin DOMAIN f => Adding(f, x, v)[x] = v
  BY DEF Adding

(* A table has finitely many groups, and part of it has no more.           *)
LEMMA TableCount ==
  ASSUME NEW gs, Table(gs)
  PROVE  /\ IsFiniteSet(DOMAIN gs) /\ Cardinality(DOMAIN gs) \in Nat
         /\ \A S \in SUBSET DOMAIN gs :
              /\ IsFiniteSet(S) /\ Cardinality(S) \in Nat
              /\ Cardinality(S) <= Cardinality(DOMAIN gs)
<1>1. 1 \in Int /\ MaxSeq \in Int
  BY FecAssumption
<1>2. IsFiniteSet(1 .. MaxSeq)
  BY <1>1, FS_Interval
<1>3. DOMAIN gs \in SUBSET (1 .. MaxSeq)
  BY DEF Table
<1>4. IsFiniteSet(DOMAIN gs)
  BY <1>2, <1>3, FS_Subset, Zenon
<1>5. QED
  BY <1>4, FS_Subset, FS_CardinalityType

(* A table without some of its groups is a table.                          *)
LEMMA WithoutTable ==
  ASSUME NEW gs, NEW B, Table(gs)
  PROVE  Table(Without(gs, B))
<1>1. /\ DOMAIN Without(gs, B) = DOMAIN gs \ B
      /\ \A b \in DOMAIN gs \ B : Without(gs, B)[b] = gs[b]
  BY WithoutFacts, Zenon
<1>2. ASSUME NEW b \in DOMAIN Without(gs, B) PROVE GroupOK(Without(gs, B)[b], b)
  BY <1>1 DEF Table
<1>3. QED
  BY <1>1, <1>2 DEF Table

(* A group of a table has a base and a length.                             *)
LEMMA GroupFacts ==
  ASSUME NEW gs, Table(gs), NEW b \in DOMAIN gs
  PROVE  /\ gs[b].base = b /\ b \in 1 .. MaxSeq /\ b \in Nat
         /\ gs[b].k \in 1 .. K /\ gs[b].k \in Nat \ {0}
         /\ Members(gs[b]) = b .. b + gs[b].k - 1
         /\ Members(gs[b]) \subseteq 1 .. MaxSeq
<1>1. GroupOK(gs[b], b) /\ b \in 1 .. MaxSeq
  BY DEF Table
<1>2. gs[b].base = b /\ gs[b].k \in 1 .. K /\ b + gs[b].k - 1 <= MaxSeq
  BY <1>1 DEF GroupOK
<1>3. Members(gs[b]) = b .. b + gs[b].k - 1
  BY <1>2 DEF Members
<1>4. b \in Nat /\ gs[b].k \in Nat \ {0}
  BY <1>1, <1>2, Sizes
<1>5. b .. b + gs[b].k - 1 \subseteq 1 .. MaxSeq
  BY <1>1, <1>2, <1>4, Sizes
<1>6. QED
  BY <1>1, <1>2, <1>3, <1>4, <1>5

(* tryReconstruct leaves the table or removes the group it tried.          *)
LEMMA Tried ==
  ASSUME NEW rg, NEW gs, Table(gs), NEW b \in DOMAIN gs, tryReconstruct(rg, gs, b)
  PROVE  /\ groups' = gs \/ groups' = Without(gs, {b})
         /\ DOMAIN groups' \subseteq DOMAIN gs
         /\ \A c \in DOMAIN groups' : groups'[c] = gs[c]
         /\ recovered \subseteq recovered'
<1>1. groups' = gs \/ groups' = Without(gs, {b})
  BY DEF tryReconstruct
<1>2. /\ DOMAIN groups' \subseteq DOMAIN gs
      /\ \A c \in DOMAIN groups' : groups'[c] = gs[c]
  <2>1. /\ DOMAIN Without(gs, {b}) = DOMAIN gs \ {b}
        /\ \A c \in DOMAIN gs \ {b} : Without(gs, {b})[c] = gs[c]
    BY WithoutFacts, Zenon
  <2>2. QED
    BY <1>1, <2>1
<1>3. recovered \subseteq recovered'
  BY DEF tryReconstruct
<1>4. QED
  BY <1>1, <1>2, <1>3

(* What tryReconstruct returns are packets of the group.                   *)
LEMMA Returned ==
  ASSUME NEW rg, NEW gs, NEW b, tryReconstruct(rg, gs, b), NEW p \in recovered' \ recovered
  PROVE  \E s \in Members(gs[b]) : p = Packet(Rebuilt(rg, gs[b]), s)
<1>1. \A ok \in InnerIPLen(Rebuilt(rg, gs[b]), Missing(rg, gs[b])) : ok \subseteq Members(gs[b])
  BY DEF InnerIPLen, Missing
<1>2. \/ recovered' = recovered
      \/ \E ok \in InnerIPLen(Rebuilt(rg, gs[b]), Missing(rg, gs[b])) :
           recovered' = recovered \cup {Packet(Rebuilt(rg, gs[b]), s) : s \in ok}
  BY DEF tryReconstruct
<1>3. QED
  BY <1>1, <1>2

(* Reconstruction yields the packets of a run, or garbage.                 *)
LEMMA RebuiltType ==
  ASSUME NEW rg, NEW g
  PROVE  Rebuilt(rg, g) \in 0 .. MaxRuns
<1> DEFINE made == {r \in 1 .. MaxRuns :
                 /\ \A i \in DOMAIN g.parity : g.parity[i] = r
                 /\ \A s \in Members(g) \ Missing(rg, g) : rg[s % Ring] = Packet(r, s)}
<1>1. Rebuilt(rg, g) = IF made = {} THEN 0 ELSE CHOOSE r \in made : TRUE
  BY DEF Rebuilt, Garbage
<1>2. made \subseteq 1 .. MaxRuns /\ MaxRuns \in Nat
  BY FecAssumption
<1> HIDE DEF made
<1>3. CASE made = {}
  BY <1>1, <1>2, <1>3
<1>4. CASE made # {}
  <2>1. (CHOOSE r \in made : TRUE) \in made
    BY <1>4
  <2>2. Rebuilt(rg, g) \in 1 .. MaxRuns
    BY <1>1, <1>2, <1>4, <2>1, Zenon
  <2>3. QED
    BY <2>2
<1>5. QED
  BY <1>3, <1>4

(* A reconstruction keeps the types of the decoder's results.              *)
LEMMA TriedTypes ==
  ASSUME NEW rg, NEW gs, Table(gs), NEW b \in DOMAIN gs, tryReconstruct(rg, gs, b),
         recovered \subseteq Packets
  PROVE  Table(groups') /\ recovered' \subseteq Packets
<1>1. Table(groups')
  BY Tried, Zenon DEF Table
<1>2. \A s \in Members(gs[b]) : s \in 0 .. MaxSeq
  BY GroupFacts, FecAssumption
<1>3. \A s \in Members(gs[b]) : Packet(Rebuilt(rg, gs[b]), s) \in Packets
  BY <1>2, RebuiltType DEF Packet, Packets
<1>4. \A p \in recovered' \ recovered :
        \E s \in Members(gs[b]) : p = Packet(Rebuilt(rg, gs[b]), s)
  BY Returned
<1>5. QED
  BY <1>1, <1>3, <1>4

-----------------------------------------------------------------------------
(* What closing one group, or none, does to the shards sent.               *)
LEMMA FlushOne ==
  ASSUME NEW g, flushLocked({g})
  PROVE  \E r \in 1 .. MaxParity : shards' = shards \cup Parities(g, r)
<1>1. PICK count \in [{g} -> 1 .. MaxParity] :
        shards' = shards \cup UNION {Parities(x, count[x]) : x \in {g}}
  BY DEF flushLocked
<1>2. UNION {Parities(x, count[x]) : x \in {g}} = Parities(g, count[g])
  OBVIOUS
<1>3. count[g] \in 1 .. MaxParity
  BY <1>1
<1>4. QED
  BY <1>1, <1>2, <1>3

(* Closing no group sends no shard.                                        *)
LEMMA FlushNone ==
  ASSUME flushLocked({})
  PROVE  shards' = shards
  BY DEF flushLocked

(* The shards of a group carry its base, its length and their number.      *)
LEMMA ParityFacts ==
  ASSUME NEW g, NEW r, NEW h \in Parities(g, r)
  PROVE  /\ h.run = run /\ h.base = g.base /\ h.k = g.n /\ h.r = r
         /\ h.index \in 0 .. r - 1
         /\ h = [run |-> run, base |-> g.base, k |-> g.n, r |-> r, index |-> h.index]
  BY DEF Parities

(* They are shards.                                                        *)
LEMMA ParityTypes ==
  ASSUME run \in 1 .. MaxRuns, NEW g, NEW r \in 1 .. MaxParity,
         g.base \in 1 .. MaxSeq, g.n \in 1 .. K, g.base + g.n - 1 <= MaxSeq,
         NEW h \in Parities(g, r)
  PROVE  h \in Shards
<1>1. /\ h.run = run /\ h.base = g.base /\ h.k = g.n /\ h.r = r /\ h.index \in 0 .. r - 1
      /\ h = [run |-> run, base |-> g.base, k |-> g.n, r |-> r, index |-> h.index]
  BY ParityFacts
<1>2. r \in Nat /\ h.index \in Nat /\ h.index < r
  BY <1>1, Sizes
<1>3. QED
  BY <1>1, <1>2 DEF Shards

(* The four ways in which a packet joins a group: it opens one, it joins   *)
(* the open one, a gap before it closes the open one, or it completes it.  *)
LEMMA Added ==
  ASSUME enc \in [base : 0 .. MaxSeq, n : 0 .. K - 1], NEW t, Add(t)
  PROVE  \/ enc.n = 0 /\ shards' = shards /\ enc' = [base |-> t, n |-> 1]
         \/ /\ enc.n > 0 /\ t = enc.base + enc.n /\ shards' = shards
            /\ enc.n + 1 <= K - 1 /\ enc' = [base |-> enc.base, n |-> enc.n + 1]
         \/ /\ enc.n > 0 /\ enc' = [base |-> t, n |-> 1]
            /\ \E r \in 1 .. MaxParity : shards' = shards \cup Parities(enc, r)
         \/ /\ enc.n > 0 /\ t = enc.base + enc.n /\ enc.n + 1 = K
            /\ enc' = [base |-> enc.base, n |-> 0]
            /\ \E r \in 1 .. MaxParity :
                 shards' = shards \cup Parities([base |-> enc.base, n |-> K], r)
<1> DEFINE gap  == enc.n > 0 /\ t # enc.base + enc.n
           open == IF gap \/ enc.n = 0 THEN [base |-> t, n |-> 1]
                                       ELSE [enc EXCEPT !.n = @ + 1]
           full == open.n = K
<1>1. /\ flushLocked((IF gap THEN {enc} ELSE {}) \cup (IF full THEN {open} ELSE {}))
      /\ enc' = IF full THEN [open EXCEPT !.n = 0] ELSE open
  BY DEF Add
<1>2. enc.n \in 0 .. K - 1 /\ K \in Nat /\ K >= 2
  BY Sizes
<1>3. [enc EXCEPT !.n = enc.n + 1] = [base |-> enc.base, n |-> enc.n + 1]
  OBVIOUS
<1>4. CASE enc.n = 0
  <2>1. ~gap /\ open = [base |-> t, n |-> 1] /\ ~full
    BY <1>2, <1>4
  <2>2. flushLocked({}) /\ enc' = [base |-> t, n |-> 1]
    BY <1>1, <2>1
  <2>3. QED
    BY <1>4, <2>2, FlushNone
<1>5. CASE gap
  <2>1. open = [base |-> t, n |-> 1] /\ ~full
    BY <1>2, <1>5
  <2>2. flushLocked({enc}) /\ enc' = [base |-> t, n |-> 1]
    <3>1. (IF gap THEN {enc} ELSE {}) \cup (IF full THEN {open} ELSE {}) = {enc}
      BY <1>5, <2>1
    <3>2. QED
      BY <1>1, <2>1, <3>1
  <2>3. QED
    BY <1>5, <2>2, FlushOne, Zenon
<1>6. CASE ~gap /\ enc.n # 0
  <2>1. t = enc.base + enc.n /\ enc.n > 0 /\ open = [base |-> enc.base, n |-> enc.n + 1]
    BY <1>2, <1>3, <1>6
  <2>2. CASE enc.n + 1 = K
    <3>1. full /\ open = [base |-> enc.base, n |-> K]
      BY <2>1, <2>2
    <3>2. (IF gap THEN {enc} ELSE {}) \cup (IF full THEN {open} ELSE {})
            = {[base |-> enc.base, n |-> K]}
      BY <1>6, <3>1
    <3>3. enc' = [base |-> enc.base, n |-> 0]
      BY <1>1, <3>1
    <3>4. flushLocked({[base |-> enc.base, n |-> K]})
      BY <1>1, <3>2
    <3>5. QED
      BY <2>1, <2>2, <3>3, <3>4, FlushOne, Zenon
  <2>3. CASE enc.n + 1 # K
    <3>1. ~full /\ enc.n + 1 <= K - 1
      BY <1>2, <2>1, <2>3
    <3>2. (IF gap THEN {enc} ELSE {}) \cup (IF full THEN {open} ELSE {}) = {}
      BY <1>6, <3>1
    <3>3. flushLocked({}) /\ enc' = open
      BY <1>1, <3>1, <3>2, Zenon
    <3>4. QED
      BY <2>1, <3>1, <3>3, FlushNone
  <2>4. QED
    BY <2>2, <2>3
<1>7. QED
  BY <1>4, <1>5, <1>6

-----------------------------------------------------------------------------
(* Closing the group g adds shards to those sent.                          *)
LEMMA CloseTypes ==
  ASSUME Types, run' = run, NEW g,
         g.base \in 1 .. MaxSeq, g.n \in 1 .. K, g.base + g.n - 1 <= MaxSeq,
         NEW r \in 1 .. MaxParity, shards' = shards \cup Parities(g, r)
  PROVE  \A h \in shards' : h \in Shards /\ h.run <= run'
<1>1. run \in 1 .. MaxRuns /\ \A h \in shards : h \in Shards /\ h.run <= run
  BY DEF Types, TypeOK
<1>2. ASSUME NEW h \in Parities(g, r) PROVE h \in Shards /\ h.run <= run
  <2>1. h \in Shards
    BY <1>1, ParityTypes
  <2>2. h.run = run
    BY ParityFacts
  <2>3. QED
    BY <1>1, <2>1, <2>2
<1>3. QED
  BY <1>1, <1>2

(* The open group lies within what was sent.                               *)
LEMMA OpenGroup ==
  ASSUME Types
  PROVE  /\ enc \in [base : 0 .. MaxSeq, n : 0 .. K - 1] /\ seq \in 0 .. MaxSeq
         /\ enc.base \in 0 .. MaxSeq /\ enc.n \in 0 .. K - 1
         /\ enc = [base |-> enc.base, n |-> enc.n]
         /\ enc.n > 0 => /\ enc.base \in 1 .. MaxSeq /\ enc.n \in 1 .. K
                         /\ enc.base + enc.n - 1 <= seq
                         /\ enc.base + enc.n - 1 <= MaxSeq
<1>1. /\ enc \in [base : 0 .. MaxSeq, n : 0 .. K - 1] /\ seq \in 0 .. MaxSeq
      /\ enc.n > 0 => enc.base >= 1 /\ enc.base + enc.n - 1 <= seq
  BY DEF Types, TypeOK
<1>2. /\ enc.base \in 0 .. MaxSeq /\ enc.n \in 0 .. K - 1
      /\ enc = [base |-> enc.base, n |-> enc.n]
  BY <1>1
<1>3. QED
  BY <1>1, <1>2, Sizes

(* A packet under FEC keeps the types of encoder and shards.               *)
LEMMA AddTypes ==
  ASSUME Types, run' = run, seq < MaxSeq, seq' = seq + 1, Add(seq')
  PROVE  /\ enc' \in [base : 0 .. MaxSeq, n : 0 .. K - 1]
         /\ enc'.n > 0 => enc'.base >= 1 /\ enc'.base + enc'.n - 1 <= seq'
         /\ \A h \in shards' : h \in Shards /\ h.run <= run'
<1>1. /\ enc \in [base : 0 .. MaxSeq, n : 0 .. K - 1] /\ seq \in 0 .. MaxSeq
      /\ enc.base \in 0 .. MaxSeq /\ enc.n \in 0 .. K - 1
      /\ enc.n > 0 => /\ enc.base \in 1 .. MaxSeq /\ enc.n \in 1 .. K
                      /\ enc.base + enc.n - 1 <= seq
                      /\ enc.base + enc.n - 1 <= MaxSeq
  BY OpenGroup
<1>2. \A h \in shards : h \in Shards /\ h.run <= run
  BY DEF Types
<1>3. seq' \in 1 .. MaxSeq /\ 1 \in 0 .. K - 1 /\ MaxSeq \in Nat /\ K \in Nat /\ K >= 2
  BY <1>1, Sizes
<1>4. ASSUME enc' = [base |-> seq', n |-> 1]
      PROVE  /\ enc' \in [base : 0 .. MaxSeq, n : 0 .. K - 1]
             /\ enc'.n > 0 => enc'.base >= 1 /\ enc'.base + enc'.n - 1 <= seq'
  BY <1>3, <1>4
<1>5. CASE enc.n = 0 /\ shards' = shards /\ enc' = [base |-> seq', n |-> 1]
  BY <1>2, <1>4, <1>5
<1>6. CASE /\ enc.n > 0 /\ seq' = enc.base + enc.n /\ shards' = shards
           /\ enc.n + 1 <= K - 1 /\ enc' = [base |-> enc.base, n |-> enc.n + 1]
  <2>1. enc'.base = enc.base /\ enc'.n = enc.n + 1
    BY <1>6
  <2>2. enc.n + 1 \in 0 .. K - 1 /\ enc.base >= 1 /\ enc.base + (enc.n + 1) - 1 <= seq'
    BY <1>1, <1>3, <1>6
  <2>3. QED
    BY <1>1, <1>2, <1>6, <2>1, <2>2
<1>7. CASE /\ enc.n > 0 /\ enc' = [base |-> seq', n |-> 1]
           /\ \E r \in 1 .. MaxParity : shards' = shards \cup Parities(enc, r)
  <2>1. PICK r \in 1 .. MaxParity : shards' = shards \cup Parities(enc, r)
    BY <1>7
  <2>2. \A h \in shards' : h \in Shards /\ h.run <= run'
    BY <1>1, <1>7, <2>1, CloseTypes
  <2>3. QED
    BY <1>4, <1>7, <2>2
<1>8. CASE /\ enc.n > 0 /\ seq' = enc.base + enc.n /\ enc.n + 1 = K
           /\ enc' = [base |-> enc.base, n |-> 0]
           /\ \E r \in 1 .. MaxParity :
                shards' = shards \cup Parities([base |-> enc.base, n |-> K], r)
  <2> DEFINE g == [base |-> enc.base, n |-> K]
  <2>1. PICK r \in 1 .. MaxParity : shards' = shards \cup Parities(g, r)
    BY <1>8
  <2>2. g.base = enc.base /\ g.n = K
    OBVIOUS
  <2> HIDE DEF g
  <2>3. g.base \in 1 .. MaxSeq /\ g.n \in 1 .. K /\ g.base + g.n - 1 <= MaxSeq
    BY <1>1, <1>3, <1>8, <2>2
  <2>4. \A h \in shards' : h \in Shards /\ h.run <= run'
    BY <2>1, <2>3, CloseTypes
  <2>5. enc' \in [base : 0 .. MaxSeq, n : 0 .. K - 1] /\ enc'.n = 0
    BY <1>1, <1>3, <1>8
  <2>6. QED
    BY <2>4, <2>5
<1>9. QED
  BY <1>1, <1>5, <1>6, <1>7, <1>8, Added

(* The decoder's variables.                                                *)
decoder == <<arrived, got, ring, highest, groups, recovered, failed>>

(* Sending a packet keeps the types.                                       *)
LEMMA SendTypes ==
  ASSUME Types, sendData
  PROVE  Types'
<1>1. /\ seq < MaxSeq /\ seq' = seq + 1 /\ run' = run /\ mode' = mode /\ switches' = switches
      /\ UNCHANGED decoder
  BY DEF sendData, decoder
<1>2. /\ run \in 1 .. MaxRuns /\ seq \in 0 .. MaxSeq /\ sent \subseteq Packets
      /\ \A p \in sent : p.run \in 1 .. run /\ p.seq >= 1
  BY DEF Types, TypeOK
<1>3. seq' \in 0 .. MaxSeq /\ seq' >= 1 /\ seq <= seq'
  BY <1>1, <1>2, Sizes
<1>4. /\ enc' \in [base : 0 .. MaxSeq, n : 0 .. K - 1]
      /\ enc'.n > 0 => enc'.base >= 1 /\ enc'.base + enc'.n - 1 <= seq'
      /\ \A h \in shards' : h \in Shards /\ h.run <= run'
      /\ sent \subseteq sent' /\ sent' \subseteq Packets /\ shards \subseteq shards'
      /\ \A p \in sent' : p.run \in 1 .. run' /\ p.seq >= 1
  <2>1. CASE mode = "fec"
    <3>1. sent' = sent \cup {Packet(run, seq')} /\ Add(seq')
      BY <2>1 DEF sendData
    <3>2. Packet(run, seq') \in Packets
      BY <1>2, <1>3 DEF Packet, Packets
    <3>3. Packet(run, seq').run = run /\ Packet(run, seq').seq = seq'
      BY DEF Packet
    <3>4. run \in 1 .. run
      BY <1>2
    <3>5. shards \subseteq shards'
      BY <3>1 DEF Add, flushLocked
    <3>6. \A p \in sent' : p.run \in 1 .. run' /\ p.seq >= 1
      BY <1>1, <1>2, <1>3, <3>1, <3>3, <3>4
    <3>7. QED
      BY <1>1, <1>2, <3>1, <3>2, <3>5, <3>6, AddTypes
  <2>2. CASE mode # "fec"
    <3>1. UNCHANGED <<sent, shards, enc>>
      BY <2>2 DEF sendData
    <3>2. /\ enc \in [base : 0 .. MaxSeq, n : 0 .. K - 1]
          /\ enc.n > 0 => enc.base >= 1 /\ enc.base + enc.n - 1 <= seq
          /\ \A h \in shards : h \in Shards /\ h.run <= run
      BY DEF Types, TypeOK
    <3>3. enc.base \in Nat /\ enc.n \in Nat
      BY <3>2, Sizes
    <3>4. enc.n > 0 => enc.base >= 1 /\ enc.base + enc.n - 1 <= seq'
      BY <1>1, <1>2, <3>2, <3>3
    <3>5. QED
      BY <1>1, <1>2, <3>1, <3>2, <3>4
  <2>3. QED
    BY <2>1, <2>2
<1>5. QED
  BY <1>1, <1>2, <1>3, <1>4 DEF Types, TypeOK, decoder, Table, GroupOK

(* Closing the open group on the flusher's tick keeps the types.           *)
LEMMA FlushTypes ==
  ASSUME Types, FlushExpired
  PROVE  Types'
<1>1. /\ enc.n > 0 /\ flushLocked({enc}) /\ enc' = [enc EXCEPT !.n = 0] /\ run' = run
      /\ UNCHANGED <<seq, mode, switches, sent>> /\ UNCHANGED decoder
  BY DEF FlushExpired, decoder
<1>2. /\ enc \in [base : 0 .. MaxSeq, n : 0 .. K - 1]
      /\ enc.base \in 1 .. MaxSeq /\ enc.n \in 1 .. K /\ enc.base + enc.n - 1 <= MaxSeq
  BY <1>1, OpenGroup
<1>3. PICK r \in 1 .. MaxParity : shards' = shards \cup Parities(enc, r)
  BY <1>1, FlushOne, Zenon
<1>4. \A h \in shards' : h \in Shards /\ h.run <= run'
  BY <1>1, <1>2, <1>3, CloseTypes
<1>5. enc' \in [base : 0 .. MaxSeq, n : 0 .. K - 1] /\ enc'.n = 0
  BY <1>1, <1>2, Sizes
<1>6. got \subseteq shards'
  BY <1>3 DEF Types, TypeOK
<1>7. QED
  BY <1>1, <1>4, <1>5, <1>6 DEF Types, TypeOK, decoder, Table, GroupOK

(* A mode switch keeps the types.                                          *)
LEMMA ModeTypes ==
  ASSUME Types, SetMode
  PROVE  Types'
<1>1. /\ run' = run /\ seq' = seq /\ enc' = enc /\ sent' = sent /\ shards' = shards
      /\ ring' = ring /\ highest' = highest /\ groups' = groups /\ failed' = failed
      /\ recovered' = recovered /\ arrived' = arrived /\ got' = got
      /\ mode' \in Modes
  BY DEF SetMode
<1>2. switches' \in 0 .. MaxSwitches
  <2>1. switches < MaxSwitches /\ switches' = switches + 1
    BY DEF SetMode
  <2>2. switches \in 0 .. MaxSwitches
    BY DEF Types, TypeOK
  <2>3. MaxSwitches \in Nat
    BY FecAssumption
  <2>4. QED
    BY <2>1, <2>2, <2>3
<1>3. TypeOK'
  BY <1>1, <1>2 DEF Types, TypeOK
<1>4. QED
  BY <1>1, <1>3 DEF Types, Table, GroupOK

(* A restart of the sender keeps the types.                                *)
LEMMA RestartTypes ==
  ASSUME Types, Restart
  PROVE  Types' /\ run' # 1
<1>1. /\ run < MaxRuns /\ run' = run + 1 /\ seq' = 0 /\ enc' = [base |-> 0, n |-> 0]
      /\ UNCHANGED <<mode, switches, sent, shards>> /\ UNCHANGED decoder
  BY DEF Restart, decoder
<1>2. /\ run \in 1 .. MaxRuns /\ sent \subseteq Packets
      /\ \A p \in sent : p.run \in 1 .. run /\ p.seq >= 1
      /\ \A h \in shards : h \in Shards /\ h.run <= run
  BY DEF Types, TypeOK
<1>3. run' \in 1 .. MaxRuns /\ run' # 1
  BY <1>1, <1>2, Sizes
<1>4. seq' \in 0 .. MaxSeq /\ enc' \in [base : 0 .. MaxSeq, n : 0 .. K - 1] /\ enc'.n = 0
  BY <1>1, Sizes
<1>5. \A p \in sent : p.run \in 1 .. run'
  BY <1>1, <1>2
<1>6. \A h \in shards : h.run <= run'
  <2>1. \A h \in shards : h.run \in Int /\ h.run <= run
    BY <1>2 DEF Shards
  <2>2. QED
    BY <1>1, <1>2, <2>1
<1>7. /\ mode' = mode /\ switches' = switches /\ sent' = sent /\ shards' = shards
      /\ ring' = ring /\ highest' = highest /\ groups' = groups /\ failed' = failed
      /\ recovered' = recovered /\ arrived' = arrived /\ got' = got
  BY <1>1, Zenon DEF decoder
<1>8. TypeOK'
  BY <1>3, <1>4, <1>7 DEF Types, TypeOK
<1>9. QED
  BY <1>2, <1>3, <1>4, <1>5, <1>6, <1>7, <1>8 DEF Types, Table, GroupOK

-----------------------------------------------------------------------------
(* A group's shards are as TypeOK says.                                    *)
LEMMA TableGroups ==
  ASSUME NEW gs, Table(gs)
  PROVE  \A b \in DOMAIN gs :
           /\ gs[b].base = b /\ gs[b].k \in 1 .. K
           /\ DOMAIN gs[b].parity \subseteq 0 .. gs[b].r - 1
  BY GroupFacts DEF Table, GroupOK

(* The decoder's part of the types, after a step that left the sender      *)
(* alone.                                                                  *)
LEMMA DecoderTypes ==
  ASSUME Types, UNCHANGED sender, arrived' \subseteq sent, got' \subseteq shards,
         ring' \in [0 .. Ring - 1 -> Packets], highest' \in 0 .. MaxSeq,
         Table(groups'), Cardinality(DOMAIN groups') <= MaxGroups,
         recovered' \subseteq Packets, failed' \in Nat
  PROVE  Types'
<1>1. \A b \in DOMAIN groups' :
        /\ groups'[b].base = b /\ groups'[b].k \in 1 .. K
        /\ DOMAIN groups'[b].parity \subseteq 0 .. groups'[b].r - 1
  BY TableGroups
<1>2. Table(groups)'
  BY DEF Table, GroupOK
<1>3. QED
  BY <1>1, <1>2 DEF Types, TypeOK, sender

(* The groups that an arriving packet makes too old.                       *)
LEMMA ExpiredFacts ==
  ASSUME Types, NEW top
  PROVE  /\ Expired(top) \subseteq DOMAIN groups /\ IsFiniteSet(Expired(top))
         /\ Cardinality(Expired(top)) \in Nat
         /\ Cardinality(Expired(top)) = 0 => Expired(top) = {}
<1>1. Expired(top) \in SUBSET DOMAIN groups
  BY DEF Expired
<1>2. IsFiniteSet(Expired(top)) /\ Cardinality(Expired(top)) \in Nat
  BY <1>1, TableCount DEF Types
<1>3. QED
  BY <1>1, <1>2, FS_EmptySet

(* A packet keeps the types of the decoder.                                *)
LEMMA DataTypes ==
  ASSUME Types, NEW d \in sent, AddData(d)
  PROVE  /\ ring' \in [0 .. Ring - 1 -> Packets] /\ highest' \in 0 .. MaxSeq
         /\ Table(groups') /\ Cardinality(DOMAIN groups') <= MaxGroups
         /\ recovered' \subseteq Packets /\ failed' \in Nat
<1> DEFINE rg   == [ring EXCEPT ![d.seq % Ring] = d]
           top  == IF d.seq > highest THEN d.seq ELSE highest
           gs   == Without(groups, Expired(top))
           mine == {b \in DOMAIN gs : d.seq \in Members(gs[b])}
<1>1. /\ ring' = rg /\ highest' = top /\ failed' = failed + Cardinality(Expired(top))
      /\ \/ groups' = gs /\ recovered' = recovered
         \/ \E b \in mine : tryReconstruct(rg, gs, b)
  BY Zenon DEF AddData
<1>2. /\ ring \in [0 .. Ring - 1 -> Packets] /\ highest \in 0 .. MaxSeq /\ d \in Packets
      /\ recovered \subseteq Packets /\ failed \in Nat /\ Table(groups)
      /\ Cardinality(DOMAIN groups) <= MaxGroups
  BY DEF Types, TypeOK
<1>3. d.seq \in 0 .. MaxSeq
  BY <1>2 DEF Packets
<1>4. rg \in [0 .. Ring - 1 -> Packets] /\ top \in 0 .. MaxSeq
  BY <1>2, <1>3, Zenon
<1>5. failed' \in Nat
  BY <1>1, <1>2, ExpiredFacts
<1>6. Table(gs)
  BY <1>2, WithoutTable
<1> HIDE DEF gs, rg, top
<1>7. Table(groups') /\ recovered' \subseteq Packets /\ DOMAIN groups' \subseteq DOMAIN gs
  <2>1. CASE groups' = gs /\ recovered' = recovered
    BY <1>2, <1>6, <2>1
  <2>2. ASSUME NEW b \in mine, tryReconstruct(rg, gs, b)
        PROVE  Table(groups') /\ recovered' \subseteq Packets /\ DOMAIN groups' \subseteq DOMAIN gs
    <3>1. b \in DOMAIN gs
      OBVIOUS
    <3>2. Table(groups') /\ recovered' \subseteq Packets
      BY <1>2, <1>6, <2>2, <3>1, TriedTypes
    <3>3. DOMAIN groups' \subseteq DOMAIN gs
      BY <1>6, <2>2, <3>1, Tried, Zenon
    <3>4. QED
      BY <3>2, <3>3
  <2>3. QED
    BY <1>1, <2>1, <2>2
<1>8. DOMAIN gs \subseteq DOMAIN groups
  <2>1. DOMAIN gs = DOMAIN groups \ Expired(top)
    BY WithoutFacts, Zenon DEF gs
  <2>2. QED
    BY <2>1
<1>9. Cardinality(DOMAIN groups') <= MaxGroups
  <2>1. Cardinality(DOMAIN groups') <= Cardinality(DOMAIN groups)
    BY <1>2, <1>7, <1>8, TableCount
  <2>2. Cardinality(DOMAIN groups') \in Nat /\ Cardinality(DOMAIN groups) \in Nat
    BY <1>2, <1>7, TableCount
  <2>3. QED
    BY <1>2, <2>1, <2>2, Sizes
<1>10. QED
  BY <1>1, <1>4, <1>5, <1>7, <1>9

-----------------------------------------------------------------------------
(* The table once shard h has its group in it, and once h is filed there.  *)
Fresh(h) == [base |-> h.base, k |-> h.k, r |-> h.r, parity |-> <<>>]

Entered(h) == Adding(Without(groups, Evicted(h.base)), h.base, Fresh(h))

Filed(h) ==
  [Entered(h) EXCEPT ![h.base] =
     [Entered(h)[h.base] EXCEPT !.parity = Adding(@, h.index, h.run)]]

(* AddParity in these terms.                                               *)
LEMMA ParityStep ==
  ASSUME NEW h, AddParity(h)
  PROVE  /\ failed' = failed + Cardinality(Evicted(h.base))
         /\ ring' = ring /\ highest' = highest
         /\ \/ /\ h.k # Entered(h)[h.base].k \/ h.r # Entered(h)[h.base].r
               /\ groups' = Entered(h) /\ recovered' = recovered
            \/ /\ h.k = Entered(h)[h.base].k /\ h.r = Entered(h)[h.base].r
               /\ tryReconstruct(ring, Filed(h), h.base)
  BY DEF AddParity, Entered, Filed, Fresh

(* A full table makes room for a new group by giving up its oldest.        *)
LEMMA EvictedFacts ==
  ASSUME Types, NEW b
  PROVE  /\ Evicted(b) \subseteq DOMAIN groups
         /\ b \in DOMAIN groups => Evicted(b) = {}
         /\ IsFiniteSet(Evicted(b)) /\ Cardinality(Evicted(b)) \in Nat
         /\ Cardinality(Evicted(b)) = 0 => Evicted(b) = {}
         /\ b \notin DOMAIN groups =>
              Cardinality(DOMAIN groups \ Evicted(b)) + 1 <= MaxGroups
<1>1. Table(groups) /\ Cardinality(DOMAIN groups) <= MaxGroups
  BY DEF Types, TypeOK
<1>2. IsFiniteSet(DOMAIN groups) /\ Cardinality(DOMAIN groups) \in Nat
  BY <1>1, TableCount
<1>3. DOMAIN groups \in SUBSET Nat
  BY <1>1 DEF Table
<1>4. CASE b \in DOMAIN groups \/ Cardinality(DOMAIN groups) < MaxGroups
  <2>1. Evicted(b) = {}
    BY <1>4 DEF Evicted
  <2>2. b \notin DOMAIN groups => Cardinality(DOMAIN groups) + 1 <= MaxGroups
    BY <1>2, <1>4, Sizes
  <2>3. DOMAIN groups \ {} = DOMAIN groups
    OBVIOUS
  <2>4. QED
    BY <2>1, <2>2, <2>3, FS_EmptySet
<1>5. CASE ~(b \in DOMAIN groups \/ Cardinality(DOMAIN groups) < MaxGroups)
  <2>1. Evicted(b) = {Least(DOMAIN groups)}
    BY <1>5 DEF Evicted
  <2>2. Cardinality(DOMAIN groups) = MaxGroups /\ Cardinality(DOMAIN groups) # 0
    BY <1>1, <1>2, <1>5, Sizes
  <2>3. DOMAIN groups # {}
    BY <2>2, FS_EmptySet
  <2>4. Least(DOMAIN groups) \in DOMAIN groups
    BY <1>3, <2>3, LeastIn
  <2>5. Cardinality(DOMAIN groups \ {Least(DOMAIN groups)}) = Cardinality(DOMAIN groups) - 1
    BY <1>2, <2>4, FS_RemoveElement
  <2>6. Cardinality(DOMAIN groups \ Evicted(b)) + 1 <= MaxGroups
    BY <1>2, <2>1, <2>2, <2>5
  <2>7. IsFiniteSet({Least(DOMAIN groups)}) /\ Cardinality({Least(DOMAIN groups)}) = 1
    BY FS_Singleton
  <2>8. QED
    BY <1>5, <2>1, <2>4, <2>6, <2>7
<1>6. QED
  BY <1>4, <1>5

(* The table with the group of h.                                          *)
LEMMA EnteredFacts ==
  ASSUME Types, NEW h
  PROVE  /\ DOMAIN Entered(h) = (DOMAIN groups \ Evicted(h.base)) \cup {h.base}
         /\ \A b \in DOMAIN groups \ Evicted(h.base) : Entered(h)[b] = groups[b]
         /\ h.base \notin DOMAIN groups => Entered(h)[h.base] = Fresh(h)
         /\ h.base \in DOMAIN groups => Entered(h)[h.base] = groups[h.base]
<1> DEFINE rest == Without(groups, Evicted(h.base))
<1>1. /\ DOMAIN rest = DOMAIN groups \ Evicted(h.base)
      /\ \A b \in DOMAIN groups \ Evicted(h.base) : rest[b] = groups[b]
  BY WithoutFacts, Zenon
<1>2. h.base \in DOMAIN groups => Evicted(h.base) = {}
  BY EvictedFacts, Zenon
<1>3. Entered(h) = Adding(rest, h.base, Fresh(h))
  BY DEF Entered
<1> HIDE DEF rest
<1>4. /\ DOMAIN Entered(h) = DOMAIN rest \cup {h.base}
      /\ \A y \in DOMAIN rest : Entered(h)[y] = rest[y]
      /\ h.base \notin DOMAIN rest => Entered(h)[h.base] = Fresh(h)
  BY <1>3 DEF Adding
<1>5. QED
  BY <1>1, <1>2, <1>4

(* The table with h filed.                                                 *)
LEMMA FiledFacts ==
  ASSUME NEW h
  PROVE  LET g == Entered(h)[h.base] IN
         /\ DOMAIN Filed(h) = DOMAIN Entered(h)
         /\ \A b \in DOMAIN Entered(h) : b # h.base => Filed(h)[b] = Entered(h)[b]
         /\ h.base \in DOMAIN Entered(h) =>
              Filed(h)[h.base] = [g EXCEPT !.parity = Adding(g.parity, h.index, h.run)]
  BY DEF Filed

(* With its shard's group the table is a table.                            *)
LEMMA EnteredTable ==
  ASSUME Types, NEW h \in shards
  PROVE  Table(Entered(h)) /\ h.base \in DOMAIN Entered(h)
<1>1. Table(groups) /\ h \in Shards
  BY DEF Types
<1>2. /\ h.base \in 1 .. MaxSeq /\ h.k \in 1 .. K /\ h.r \in 1 .. MaxParity
      /\ h.base + h.k - 1 <= MaxSeq
  BY <1>1 DEF Shards
<1>3. GroupOK(Fresh(h), h.base)
  <2>1. Fresh(h).k = h.k /\ Fresh(h).r = h.r /\ Fresh(h).parity = <<>>
    BY DEF Fresh
  <2>2. Fresh(h) = [base |-> h.base, k |-> h.k, r |-> h.r, parity |-> <<>>]
    BY DEF Fresh
  <2>3. DOMAIN <<>> \subseteq 0 .. h.r - 1
    BY <1>2, Sizes
  <2>4. QED
    BY <1>2, <2>1, <2>2, <2>3 DEF GroupOK
<1>4. \A b \in DOMAIN groups : b \in 1 .. MaxSeq /\ GroupOK(groups[b], b)
  BY <1>1 DEF Table
<1>5. /\ DOMAIN Entered(h) = (DOMAIN groups \ Evicted(h.base)) \cup {h.base}
      /\ \A b \in DOMAIN groups \ Evicted(h.base) : Entered(h)[b] = groups[b]
      /\ h.base \notin DOMAIN groups => Entered(h)[h.base] = Fresh(h)
      /\ h.base \in DOMAIN groups => Entered(h)[h.base] = groups[h.base]
  BY EnteredFacts, Zenon
<1>6. \A b \in DOMAIN Entered(h) : b \in 1 .. MaxSeq /\ GroupOK(Entered(h)[b], b)
  BY <1>2, <1>3, <1>4, <1>5
<1>7. QED
  BY <1>5, <1>6 DEF Table

(* With its shard filed the table is a table.                              *)
LEMMA FiledTable ==
  ASSUME Types, NEW h \in shards,
         h.k = Entered(h)[h.base].k, h.r = Entered(h)[h.base].r
  PROVE  /\ Table(Filed(h)) /\ h.base \in DOMAIN Filed(h)
         /\ DOMAIN Filed(h) = DOMAIN Entered(h)
         /\ \A b \in DOMAIN Entered(h) : b # h.base => Filed(h)[b] = Entered(h)[b]
         /\ Filed(h)[h.base].k = h.k /\ Filed(h)[h.base].r = h.r
         /\ Filed(h)[h.base].parity = Adding(Entered(h)[h.base].parity, h.index, h.run)
<1> DEFINE g == Entered(h)[h.base]
           f == Filed(h)[h.base]
<1>1. Table(Entered(h)) /\ h.base \in DOMAIN Entered(h)
  BY EnteredTable
<1>2. /\ DOMAIN Filed(h) = DOMAIN Entered(h)
      /\ \A b \in DOMAIN Entered(h) : b # h.base => Filed(h)[b] = Entered(h)[b]
      /\ f = [g EXCEPT !.parity = Adding(g.parity, h.index, h.run)]
  BY <1>1, FiledFacts
<1>3. GroupOK(g, h.base) /\ \A b \in DOMAIN Entered(h) : b \in 1 .. MaxSeq /\ GroupOK(Entered(h)[b], b)
  BY <1>1 DEF Table
<1>4. g = [base |-> h.base, k |-> h.k, r |-> h.r, parity |-> g.parity]
  BY <1>3 DEF GroupOK
<1>5. f = [base |-> h.base, k |-> h.k, r |-> h.r, parity |-> Adding(g.parity, h.index, h.run)]
  BY <1>2, <1>4
<1>6. f.k = h.k /\ f.r = h.r /\ f.parity = Adding(g.parity, h.index, h.run)
  BY <1>5
<1>7. h.index \in 0 .. h.r - 1
  BY DEF Types, Shards
<1>8. DOMAIN f.parity \subseteq 0 .. h.r - 1
  <2>1. DOMAIN g.parity \subseteq 0 .. h.r - 1
    BY <1>3 DEF GroupOK
  <2>2. QED
    BY <1>6, <1>7, <2>1 DEF Adding
<1>9. GroupOK(f, h.base)
  <2>1. h.k \in 1 .. K /\ h.base + h.k - 1 <= MaxSeq /\ h.r \in 1 .. MaxParity
    BY <1>3, Zenon DEF GroupOK
  <2>2. QED
    BY <1>5, <1>6, <1>8, <2>1, Zenon DEF GroupOK
<1> HIDE DEF f
<1>10. \A b \in DOMAIN Filed(h) : b \in 1 .. MaxSeq /\ GroupOK(Filed(h)[b], b)
  BY <1>1, <1>2, <1>3, <1>9 DEF f
<1>11. QED
  BY <1>1, <1>2, <1>6, <1>10 DEF Table, f

(* A shard keeps the types of the decoder.                                 *)
LEMMA ShardTypes ==
  ASSUME Types, NEW h \in shards, AddParity(h)
  PROVE  /\ ring' \in [0 .. Ring - 1 -> Packets] /\ highest' \in 0 .. MaxSeq
         /\ Table(groups') /\ Cardinality(DOMAIN groups') <= MaxGroups
         /\ recovered' \subseteq Packets /\ failed' \in Nat
<1>1. /\ ring \in [0 .. Ring - 1 -> Packets] /\ highest \in 0 .. MaxSeq
      /\ recovered \subseteq Packets /\ failed \in Nat /\ Table(groups)
      /\ Cardinality(DOMAIN groups) <= MaxGroups
  BY DEF Types, TypeOK
<1>2. /\ failed' = failed + Cardinality(Evicted(h.base)) /\ ring' = ring /\ highest' = highest
      /\ \/ groups' = Entered(h) /\ recovered' = recovered
         \/ /\ h.k = Entered(h)[h.base].k /\ h.r = Entered(h)[h.base].r
            /\ tryReconstruct(ring, Filed(h), h.base)
  BY ParityStep, Zenon
<1>3. Cardinality(Evicted(h.base)) \in Nat
  BY EvictedFacts, Zenon
<1>4. Table(Entered(h))
  BY EnteredTable
<1>5. Table(groups') /\ recovered' \subseteq Packets /\ DOMAIN groups' \subseteq DOMAIN Entered(h)
  <2>1. CASE groups' = Entered(h) /\ recovered' = recovered
    BY <1>1, <1>4, <2>1
  <2>2. CASE /\ h.k = Entered(h)[h.base].k /\ h.r = Entered(h)[h.base].r
             /\ tryReconstruct(ring, Filed(h), h.base)
    <3>1. /\ Table(Filed(h)) /\ h.base \in DOMAIN Filed(h)
          /\ DOMAIN Filed(h) = DOMAIN Entered(h)
      BY <2>2, FiledTable
    <3>2. Table(groups') /\ recovered' \subseteq Packets
      BY <1>1, <2>2, <3>1, TriedTypes, Zenon
    <3>3. DOMAIN groups' \subseteq DOMAIN Filed(h)
      BY <2>2, <3>1, Tried, Zenon
    <3>4. QED
      BY <3>1, <3>2, <3>3
  <2>3. QED
    BY <1>2, <2>1, <2>2, Zenon
<1>6. Cardinality(DOMAIN Entered(h)) <= MaxGroups /\ Cardinality(DOMAIN Entered(h)) \in Nat
  <2> DEFINE rest == DOMAIN groups \ Evicted(h.base)
  <2>1. DOMAIN Entered(h) = rest \cup {h.base}
    BY EnteredFacts, Zenon
  <2>2. CASE h.base \in DOMAIN groups
    <3>1. Evicted(h.base) = {}
      BY <2>2, EvictedFacts, Zenon
    <3>2. rest \cup {h.base} = DOMAIN groups
      BY <2>2, <3>1
    <3>3. QED
      BY <1>1, <2>1, <3>2, TableCount
  <2>3. CASE h.base \notin DOMAIN groups
    <3>1. Cardinality(rest) + 1 <= MaxGroups
      BY <2>3, EvictedFacts
    <3>2. IsFiniteSet(rest)
      BY <1>1, TableCount
    <3>3. h.base \notin rest
      BY <2>3
    <3> HIDE DEF rest
    <3>4. Cardinality(rest \cup {h.base}) = Cardinality(rest) + 1
      BY <3>2, <3>3, FS_AddElement
    <3>5. Cardinality(DOMAIN Entered(h)) \in Nat
      BY <1>4, TableCount
    <3>6. QED
      BY <2>1, <3>1, <3>4, <3>5
  <2>4. QED
    BY <2>2, <2>3
<1>7. Cardinality(DOMAIN groups') <= MaxGroups
  <2>1. Cardinality(DOMAIN groups') <= Cardinality(DOMAIN Entered(h))
    BY <1>4, <1>5, TableCount
  <2>2. Cardinality(DOMAIN groups') \in Nat
    BY <1>5, TableCount
  <2>3. QED
    BY <1>6, <2>1, <2>2, Sizes
<1>8. QED
  BY <1>1, <1>2, <1>3, <1>5, <1>7

(* An arriving packet keeps the types.                                     *)
LEMMA RecvDataTypes ==
  ASSUME Types, RecvData
  PROVE  Types'
<1>1. PICK d \in sent :
        arrived' = arrived \cup {d} /\ AddData(d) /\ UNCHANGED <<sender, got>>
  BY DEF RecvData
<1>2. arrived \subseteq sent /\ got \subseteq shards
  BY DEF Types, TypeOK
<1>3. arrived' \subseteq sent /\ got' \subseteq shards /\ UNCHANGED sender
  BY <1>1, <1>2
<1>4. QED
  BY <1>1, <1>3, DataTypes, DecoderTypes

(* An arriving shard keeps the types.                                      *)
LEMMA RecvParityTypes ==
  ASSUME Types, RecvParity
  PROVE  Types'
<1>1. PICK h \in shards \ got :
        got' = got \cup {h} /\ AddParity(h) /\ UNCHANGED <<sender, arrived>>
  BY DEF RecvParity
<1>2. arrived \subseteq sent /\ got \subseteq shards
  BY DEF Types, TypeOK
<1>3. arrived' \subseteq sent /\ got' \subseteq shards /\ UNCHANGED sender
  BY <1>1, <1>2
<1>4. QED
  BY <1>1, <1>3, ShardTypes, DecoderTypes

-----------------------------------------------------------------------------
(* Shards have integer bounds.                                             *)
LEMMA ShardBounds ==
  ASSUME Types, NEW h \in shards
  PROVE  h.base \in Nat \ {0} /\ h.k \in Nat \ {0} /\ h.base + h.k - 1 <= MaxSeq
<1>1. h \in Shards
  BY DEF Types
<1>2. QED
  BY <1>1, Sizes DEF Shards

(* Groups that end early enough end early enough later.                    *)
LEMMA ClosedLater ==
  ASSUME Types, NEW S, NEW a \in Int, Closed(shards, S, a), NEW T, S \subseteq T,
         NEW z \in Int, a <= z
  PROVE  Closed(shards, T, z)
<1>1. ASSUME NEW h \in shards PROVE h.base + h.k - 1 <= z
  <2>1. h.base + h.k - 1 <= a
    BY DEF Closed
  <2>2. h.base \in Nat /\ h.k \in Nat
    BY ShardBounds
  <2>3. QED
    BY <2>1, <2>2
<1>2. QED
  BY <1>1 DEF Closed

(* The encoder's group g has packets, all of them in S.                    *)
Filled(g, S) ==
  /\ g.base \in Nat /\ g.n \in Nat \ {0}
  /\ \A s \in g.base .. g.base + g.n - 1 : Packet(1, s) \in S

(* Closing a group above all others leaves the groups disjoint and closed. *)
LEMMA CloseGroup ==
  ASSUME Types, Apart(shards), NEW g, NEW r, NEW S, NEW z, z \in Int,
         Filled(g, S), Closed(shards, S, g.base - 1), g.base + g.n - 1 <= z,
         shards' = shards \cup Parities(g, r)
  PROVE  Apart(shards') /\ Closed(shards', S, z)
<1>0. /\ g.base \in Nat /\ g.n \in Nat \ {0}
      /\ \A s \in g.base .. g.base + g.n - 1 : Packet(1, s) \in S
  BY DEF Filled
<1>1. \A h \in Parities(g, r) : h.base = g.base /\ h.k = g.n /\ h.r = r
  BY ParityFacts
<1>2. ASSUME NEW h \in shards
      PROVE  /\ h.base \in Nat /\ h.k \in Nat \ {0} /\ h.base + h.k <= g.base
             /\ h.base < g.base
  <2>1. h.base \in Nat /\ h.k \in Nat \ {0}
    BY ShardBounds
  <2>2. h.base + h.k - 1 <= g.base - 1
    BY DEF Closed
  <2>3. QED
    BY <1>0, <2>1, <2>2
<1>3. Apart(shards')
  <2>1. SUFFICES ASSUME NEW h \in shards', NEW x \in shards'
                 PROVE  /\ h.base = x.base => h.k = x.k /\ h.r = x.r
                        /\ h.base < x.base => h.base + h.k <= x.base
    BY DEF Apart
  <2>2. CASE h \in shards /\ x \in shards
    BY <2>2 DEF Apart
  <2>3. CASE h \in shards /\ x \in Parities(g, r)
    BY <1>0, <1>1, <1>2, <2>3
  <2>4. CASE h \in Parities(g, r) /\ x \in shards
    <3>1. x.base < g.base /\ x.base \in Nat /\ h.base = g.base
      BY <1>1, <1>2, <2>4
    <3>2. h.base # x.base /\ ~(h.base < x.base)
      BY <1>0, <3>1
    <3>3. QED
      BY <3>2
  <2>5. CASE h \in Parities(g, r) /\ x \in Parities(g, r)
    <3>1. h.base = g.base /\ x.base = g.base /\ h.k = x.k /\ h.r = x.r
      BY <1>1, <2>5
    <3>2. QED
      BY <1>0, <3>1
  <2>6. QED
    BY <2>2, <2>3, <2>4, <2>5
<1>4. Closed(shards', S, z)
  <2>1. SUFFICES ASSUME NEW h \in shards'
                 PROVE  /\ \A s \in Members(h) : Packet(1, s) \in S
                        /\ h.base + h.k - 1 <= z
    BY DEF Closed
  <2>2. CASE h \in shards
    <3>1. h.base + h.k - 1 <= z
      BY <1>0, <1>2, <2>2
    <3>2. QED
      BY <2>2, <3>1 DEF Closed
  <2>3. CASE h \in Parities(g, r)
    <3>1. h.base = g.base /\ h.k = g.n
      BY <1>1, <2>3
    <3>2. Members(h) = g.base .. g.base + g.n - 1
      BY <3>1 DEF Members
    <3>3. QED
      BY <1>0, <3>1, <3>2
  <2>4. QED
    BY <2>2, <2>3
<1>5. QED
  BY <1>3, <1>4

(* A packet under FEC leaves the encoder's groups disjoint.                *)
LEMMA AddEncoder ==
  ASSUME Types, Encoder, seq < MaxSeq, seq' = seq + 1, Add(seq'),
         sent' = sent \cup {Packet(1, seq')}
  PROVE  Encoder'
<1>1. /\ enc \in [base : 0 .. MaxSeq, n : 0 .. K - 1] /\ seq \in Nat
      /\ enc.base \in Nat /\ enc.n \in Nat
      /\ enc.n > 0 => enc.base + enc.n - 1 <= seq
  BY OpenGroup, Sizes
<1>2. /\ \A p \in sent : p.seq <= seq
      /\ \A s \in enc.base .. enc.base + enc.n - 1 : Packet(1, s) \in sent
      /\ Apart(shards) /\ Closed(shards, sent, seq)
      /\ enc.n > 0 => Closed(shards, sent, enc.base - 1)
  BY DEF Encoder
<1>3. \A p \in sent' : p.seq <= seq'
  <2>1. \A p \in sent : p.seq \in Nat
    BY Sizes DEF Types, TypeOK, Packets
  <2>2. Packet(1, seq').seq = seq'
    BY DEF Packet
  <2>3. QED
    BY <1>1, <1>2, <2>1, <2>2
<1>4. /\ Packet(1, seq') \in sent' /\ sent \subseteq sent' /\ seq' \in Nat
      /\ seq <= seq' /\ seq' - 1 = seq
  BY <1>1
<1>5. Closed(shards, sent', seq) /\ Closed(shards, sent', seq')
  BY <1>1, <1>2, <1>4, ClosedLater
<1>6. enc.n > 0 => Closed(shards, sent', enc.base - 1)
  BY <1>1, <1>2, <1>4, ClosedLater
<1>7. ASSUME enc' = [base |-> seq', n |-> 1], Apart(shards'), Closed(shards', sent', seq),
             Closed(shards', sent', seq')
      PROVE  Encoder'
  <2>1. enc'.base = seq' /\ enc'.n = 1
    BY <1>7
  <2>2. \A s \in enc'.base .. enc'.base + enc'.n - 1 : Packet(1, s) \in sent'
    <3>1. \A s \in seq' .. seq' + 1 - 1 : s = seq'
      BY <1>4
    <3>2. QED
      BY <1>4, <2>1, <3>1
  <2>3. Closed(shards', sent', enc'.base - 1)
    BY <1>4, <1>7, <2>1
  <2>4. QED
    BY <1>3, <1>7, <2>2, <2>3 DEF Encoder, Apart, Closed
<1>8. CASE enc.n = 0 /\ shards' = shards /\ enc' = [base |-> seq', n |-> 1]
  BY <1>2, <1>5, <1>7, <1>8
<1>9. CASE /\ enc.n > 0 /\ seq' = enc.base + enc.n /\ shards' = shards
           /\ enc.n + 1 <= K - 1 /\ enc' = [base |-> enc.base, n |-> enc.n + 1]
  <2>1. enc'.base = enc.base /\ enc'.n = enc.n + 1
    BY <1>9
  <2>2. \A s \in enc.base .. enc.base + (enc.n + 1) - 1 : Packet(1, s) \in sent'
    <3>1. \A s \in enc.base .. enc.base + (enc.n + 1) - 1 :
            s = seq' \/ s \in enc.base .. enc.base + enc.n - 1
      BY <1>1, <1>9
    <3>2. QED
      BY <1>2, <1>4, <3>1
  <2>3. QED
    BY <1>2, <1>3, <1>5, <1>6, <1>9, <2>1, <2>2 DEF Encoder, Apart, Closed
<1>10. CASE /\ enc.n > 0 /\ enc' = [base |-> seq', n |-> 1]
            /\ \E r \in 1 .. MaxParity : shards' = shards \cup Parities(enc, r)
  <2>1. PICK r \in 1 .. MaxParity : shards' = shards \cup Parities(enc, r)
    BY <1>10
  <2>2. Filled(enc, sent')
    BY <1>1, <1>2, <1>4, <1>10 DEF Filled
  <2>3. /\ seq \in Int /\ enc.base + enc.n - 1 <= seq
        /\ seq' \in Int /\ enc.base + enc.n - 1 <= seq'
    BY <1>1, <1>4, <1>10
  <2>4. Apart(shards) /\ Closed(shards, sent', enc.base - 1)
    BY <1>2, <1>6, <1>10
  <2>5. Apart(shards') /\ Closed(shards', sent', seq) /\ Closed(shards', sent', seq')
    BY <2>1, <2>2, <2>3, <2>4, CloseGroup, Zenon
  <2>6. QED
    BY <1>7, <1>10, <2>5
<1>11. CASE /\ enc.n > 0 /\ seq' = enc.base + enc.n /\ enc.n + 1 = K
            /\ enc' = [base |-> enc.base, n |-> 0]
            /\ \E r \in 1 .. MaxParity :
                 shards' = shards \cup Parities([base |-> enc.base, n |-> K], r)
  <2> DEFINE g == [base |-> enc.base, n |-> K]
  <2>1. PICK r \in 1 .. MaxParity : shards' = shards \cup Parities(g, r)
    BY <1>11
  <2>2. g.base = enc.base /\ g.n = K
    OBVIOUS
  <2> HIDE DEF g
  <2>3. \A s \in g.base .. g.base + g.n - 1 : Packet(1, s) \in sent'
    <3>1. \A s \in g.base .. g.base + g.n - 1 :
            s = seq' \/ s \in enc.base .. enc.base + enc.n - 1
      BY <1>1, <1>11, <2>2
    <3>2. QED
      BY <1>2, <1>4, <3>1
  <2>4. /\ Filled(g, sent') /\ seq' \in Int /\ g.base + g.n - 1 <= seq'
        /\ Apart(shards) /\ Closed(shards, sent', g.base - 1)
    BY <1>1, <1>2, <1>4, <1>6, <1>11, <2>2, <2>3, Sizes DEF Filled
  <2>5. Apart(shards') /\ Closed(shards', sent', seq')
    BY <2>1, <2>4, CloseGroup, Zenon
  <2>6. enc'.n = 0 /\ enc'.base = enc.base
    BY <1>11
  <2>7. \A s \in enc'.base .. enc'.base + enc'.n - 1 : FALSE
    BY <1>1, <2>6
  <2>8. QED
    BY <1>3, <2>5, <2>6, <2>7 DEF Encoder, Apart, Closed
<1>12. QED
  BY <1>1, <1>8, <1>9, <1>10, <1>11, Added

(* Sending a packet keeps the encoder's invariant.                         *)
LEMMA SendEncoder ==
  ASSUME Types, run = 1, Encoder, sendData
  PROVE  Encoder'
<1>1. seq < MaxSeq /\ seq' = seq + 1
  BY DEF sendData
<1>2. CASE mode = "fec"
  <2>1. sent' = sent \cup {Packet(1, seq')} /\ Add(seq')
    BY <1>2 DEF sendData
  <2>2. QED
    BY <1>1, <2>1, AddEncoder
<1>3. CASE mode # "fec"
  <2>1. UNCHANGED <<sent, shards, enc>>
    BY <1>3 DEF sendData
  <2>2. seq \in Int /\ seq' \in Int /\ seq <= seq'
    BY <1>1, OpenGroup
  <2>3. \A p \in sent : p.seq \in Nat /\ p.seq <= seq
    BY Sizes DEF Types, TypeOK, Packets, Encoder
  <2>4. \A p \in sent : p.seq <= seq'
    BY <2>2, <2>3
  <2>5. Closed(shards, sent, seq')
    BY <2>2, ClosedLater DEF Encoder
  <2>6. QED
    BY <2>1, <2>4, <2>5 DEF Encoder, Closed, Apart
<1>4. QED
  BY <1>2, <1>3

(* So does the flusher's tick.                                             *)
LEMMA FlushEncoder ==
  ASSUME Types, Encoder, FlushExpired
  PROVE  Encoder'
<1>1. /\ enc.n > 0 /\ flushLocked({enc}) /\ enc' = [enc EXCEPT !.n = 0]
      /\ seq' = seq /\ sent' = sent
  BY DEF FlushExpired
<1>2. /\ enc \in [base : 0 .. MaxSeq, n : 0 .. K - 1] /\ seq \in Int
      /\ enc.base \in Nat /\ enc.n \in Nat /\ enc.base + enc.n - 1 <= seq
  BY <1>1, OpenGroup, Sizes
<1>3. PICK r \in 1 .. MaxParity : shards' = shards \cup Parities(enc, r)
  BY <1>1, FlushOne, Zenon
<1>4. Filled(enc, sent) /\ Apart(shards) /\ Closed(shards, sent, enc.base - 1)
  BY <1>1, <1>2 DEF Encoder, Filled
<1>5. Apart(shards') /\ Closed(shards', sent, seq)
  BY <1>2, <1>3, <1>4, CloseGroup, Zenon
<1>6. enc'.n = 0 /\ enc'.base = enc.base
  BY <1>1, <1>2
<1>7. \A s \in enc'.base .. enc'.base + enc'.n - 1 : FALSE
  BY <1>2, <1>6
<1>8. QED
  BY <1>1, <1>5, <1>6, <1>7 DEF Encoder, Apart, Closed

-----------------------------------------------------------------------------
(* Packets of the first process.                                           *)
Own(A) == \A p \in A : p = Packet(1, p.seq)

(* While one process sends, a group that can be rebuilt is rebuilt from    *)
(* that process's packets.                                                 *)
LEMMA RebuiltOwn ==
  ASSUME NEW rg, NEW A, RingIn(rg, A), Own(A),
         NEW g, g.base \in Nat \ {0}, g.k \in Nat,
         \A i \in DOMAIN g.parity : g.parity[i] = 1, DOMAIN g.parity # {}
  PROVE  Rebuilt(rg, g) = 1
<1> DEFINE made == {r \in 1 .. MaxRuns :
                 /\ \A i \in DOMAIN g.parity : g.parity[i] = r
                 /\ \A s \in Members(g) \ Missing(rg, g) : rg[s % Ring] = Packet(r, s)}
<1>1. Rebuilt(rg, g) = IF made = {} THEN 0 ELSE CHOOSE r \in made : TRUE
  BY DEF Rebuilt, Garbage
<1>2. ASSUME NEW s \in Members(g) \ Missing(rg, g) PROVE rg[s % Ring] = Packet(1, s)
  <2>1. s \in Nat \ {0} /\ rg[s % Ring].seq = s
    BY DEF Members, Missing, Holds
  <2>2. rg[s % Ring] = NoPacket \/ rg[s % Ring] \in A
    BY <2>1, Slot DEF RingIn
  <2>3. NoPacket.seq = 0
    BY DEF NoPacket, Packet
  <2>4. QED
    BY <2>1, <2>2, <2>3 DEF Own
<1>3. 1 \in 1 .. MaxRuns
  BY Sizes
<1>4. 1 \in made
  BY <1>2, <1>3
<1>5. \A r \in made : r = 1
  OBVIOUS
<1> HIDE DEF made
<1>6. QED
  BY <1>1, <1>4, <1>5

(* What the ring holds of a group is in A.                                 *)
LEMMA HeldIn ==
  ASSUME NEW rg, NEW A, RingIn(rg, A), Own(A),
         NEW g, g.base \in Nat \ {0}, g.k \in Nat, NEW s \in Members(g), s \notin Missing(rg, g)
  PROVE  Packet(1, s) \in A
<1>1. s \in Nat \ {0} /\ rg[s % Ring].seq = s
  BY DEF Members, Missing, Holds
<1>2. rg[s % Ring] = NoPacket \/ rg[s % Ring] \in A
  BY <1>1, Slot DEF RingIn
<1>3. NoPacket.seq = 0
  BY DEF NoPacket, Packet
<1>4. QED
  BY <1>1, <1>2, <1>3 DEF Own

(* A try that removes its group leaves all of the group's packets in A or  *)
(* recovered, and what it recovers are packets of the group.               *)
LEMMA TriedOwn ==
  ASSUME NEW rg, NEW A, RingIn(rg, A), Own(A),
         NEW gs, Table(gs), NEW b \in DOMAIN gs,
         \A i \in DOMAIN gs[b].parity : gs[b].parity[i] = 1,
         tryReconstruct(rg, gs, b)
  PROVE  /\ \A p \in recovered' \ recovered : \E s \in Members(gs[b]) : p = Packet(1, s)
         /\ \/ groups' = gs /\ Unsolvable(rg, gs[b])
            \/ /\ groups' = Without(gs, {b})
               /\ \A s \in Members(gs[b]) : Packet(1, s) \in A \cup recovered'
<1> DEFINE g == gs[b]
           miss == Missing(rg, g)
<1>1. g.base \in Nat \ {0} /\ g.k \in Nat \ {0} /\ g.k \in Nat
  <2>1. \A n : n \in 1 .. MaxSeq => n \in Nat \ {0}
    BY Sizes
  <2>2. \A n : n \in Nat \ {0} => n \in Nat
    OBVIOUS
  <2>3. QED
    BY <2>1, <2>2, GroupFacts, Zenon
<1>2. \A s \in Members(g) : s \notin miss => Packet(1, s) \in A
  BY <1>1, HeldIn, Zenon
<1>3. CASE /\ miss = {} /\ groups' = Without(gs, {b}) /\ UNCHANGED recovered
  BY <1>2, <1>3, Zenon
<1>4. CASE /\ Cardinality(DOMAIN g.parity) < Cardinality(miss)
           /\ groups' = gs /\ UNCHANGED recovered
  BY <1>4, Zenon DEF Unsolvable
<1>5. CASE /\ miss # {} /\ Cardinality(DOMAIN g.parity) >= Cardinality(miss)
           /\ groups' = Without(gs, {b})
           /\ \E ok \in InnerIPLen(Rebuilt(rg, g), miss) :
                recovered' = recovered \cup {Packet(Rebuilt(rg, g), s) : s \in ok}
  <2>1. IsFiniteSet(miss) /\ Cardinality(miss) \in Nat /\ miss \subseteq Members(g)
    BY <1>1, MissingCount, Zenon
  <2>2. Cardinality(miss) # 0
    BY <1>5, <2>1, FS_EmptySet, Zenon
  <2>3. DOMAIN g.parity # {}
    <3>1. Cardinality({}) = 0
      BY FS_EmptySet
    <3>2. \A c, m : m \in Nat /\ m # 0 /\ c >= m => c # 0
      OBVIOUS
    <3>3. Cardinality(DOMAIN g.parity) # 0
      BY <1>5, <2>1, <2>2, <3>2, Zenon
    <3>4. QED
      BY <3>1, <3>3, Zenon
  <2>4. Rebuilt(rg, g) = 1
    BY <1>1, <2>3, RebuiltOwn, Zenon
  <2>5. InnerIPLen(1, miss) = {miss}
    BY DEF InnerIPLen, Garbage
  <2>6. recovered' = recovered \cup {Packet(1, s) : s \in miss}
    <3>1. PICK ok \in InnerIPLen(Rebuilt(rg, g), miss) :
            recovered' = recovered \cup {Packet(Rebuilt(rg, g), s) : s \in ok}
      BY <1>5, Zenon
    <3>2. ok = miss
      BY <2>4, <2>5, Zenon
    <3>3. QED
      BY <2>4, <3>1, <3>2, Zenon
  <2>7. QED
    BY <1>2, <1>5, <2>1, <2>6, Zenon
<1>6. QED
  BY <1>3, <1>4, <1>5, Zenon DEF tryReconstruct

(* A group of the table is the group of every shard with its base, so its  *)
(* packets were sent and no other group of the table has any of them.      *)
LEMMA GroupOfShard ==
  ASSUME Types, Encoder, NEW gs, Table(gs), Covered(gs, shards), NEW b \in DOMAIN gs
  PROVE  /\ \A x \in shards : x.base = b => Members(x) = Members(gs[b]) /\ x.k = gs[b].k /\ x.r = gs[b].r
         /\ \A s \in Members(gs[b]) : Packet(1, s) \in sent
         /\ \A c \in DOMAIN gs : c # b => Members(gs[b]) \cap Members(gs[c]) = {}
<1>1. PICK h \in shards : h.base = b /\ h.k = gs[b].k /\ h.r = gs[b].r
  BY DEF Covered
<1>2. gs[b].base = b /\ Members(gs[b]) = b .. b + gs[b].k - 1 /\ b \in Nat /\ gs[b].k \in Nat
  BY GroupFacts, Zenon
<1>3. Apart(shards) /\ Closed(shards, sent, seq)
  BY DEF Encoder
<1>4. \A x \in shards : x.base = b => Members(x) = Members(gs[b]) /\ x.k = gs[b].k /\ x.r = gs[b].r
  BY <1>1, <1>2, <1>3, Zenon DEF Apart, Members
<1>5. \A s \in Members(gs[b]) : Packet(1, s) \in sent
  BY <1>1, <1>3, <1>4, Zenon DEF Closed
<1>6. ASSUME NEW c \in DOMAIN gs, c # b
      PROVE  Members(gs[b]) \cap Members(gs[c]) = {}
  <2>1. PICK x \in shards : x.base = c /\ x.k = gs[c].k
    BY Zenon DEF Covered
  <2>2. Members(gs[c]) = c .. c + gs[c].k - 1 /\ c \in Nat /\ gs[c].k \in Nat
    BY GroupFacts, Zenon
  <2>3. /\ b < c => b + gs[b].k <= c
        /\ c < b => c + gs[c].k <= b
    BY <1>1, <1>3, <2>1, Zenon DEF Apart
  <2>4. \A s \in Members(gs[b]) : s \notin Members(gs[c])
    BY <1>2, <1>6, <2>2, <2>3
  <2>5. QED
    BY <2>4
<1>7. QED
  BY <1>4, <1>5, <1>6, Zenon

(* While one process sends: the numbers are in their ranges, and shards    *)
(* and groups consist of packets that were sent.                           *)
LEMMA OneProcess ==
  ASSUME IInv, run = 1
  PROVE  /\ seq \in 0 .. MaxSeq /\ highest \in 0 .. MaxSeq /\ mode \in Modes
         /\ DOMAIN ring = 0 .. Ring - 1
         /\ \A h \in shards : /\ h.base \in Nat \ {0} /\ h.k \in 1 .. K
                              /\ Members(h) \subseteq 1 .. seq
         /\ \A b \in DOMAIN groups :
              /\ groups[b].base \in Nat /\ groups[b].k \in 1 .. K
              /\ Members(groups[b]) \subseteq 1 .. seq
              /\ \A c \in DOMAIN groups :
                   c # b => Members(groups[b]) \cap Members(groups[c]) = {}
<1>1. Types /\ Encoder /\ Decoder
  BY DEF IInv
<1>2. /\ seq \in 0 .. MaxSeq /\ highest \in 0 .. MaxSeq /\ mode \in Modes
      /\ sent \subseteq Packets /\ DOMAIN ring = 0 .. Ring - 1
      /\ \A h \in shards : h \in Shards
      /\ Table(groups) /\ got \subseteq shards
  BY <1>1 DEF Types, TypeOK
<1>3. \A s : Packet(1, s) \in sent => s \in 1 .. seq
  <2>1. \A s : Packet(1, s).seq = s
    BY DEF Packet
  <2>2. \A p \in sent : p.seq >= 1 /\ p.seq <= seq /\ p.seq \in Nat
    BY <1>1, <1>2 DEF Types, Encoder, Packets
  <2>3. QED
    BY <1>2, <2>1, <2>2
<1>4. \A h \in shards : h.base \in Nat \ {0} /\ h.k \in 1 .. K
  BY <1>2, Sizes DEF Shards
<1>5. \A h \in shards : Members(h) \subseteq 1 .. seq
  BY <1>1, <1>3, Zenon DEF Encoder, Closed
<1>6. Covered(groups, shards)
  BY <1>1, <1>2, Zenon DEF Decoder, Covered
<1>7. ASSUME NEW b \in DOMAIN groups
      PROVE  /\ groups[b].base \in Nat /\ groups[b].k \in 1 .. K
             /\ Members(groups[b]) \subseteq 1 .. seq
             /\ \A c \in DOMAIN groups :
                  c # b => Members(groups[b]) \cap Members(groups[c]) = {}
  <2>1. groups[b].base \in Nat /\ groups[b].k \in 1 .. K
    BY <1>2, GroupFacts, Zenon
  <2>2. /\ \A s \in Members(groups[b]) : Packet(1, s) \in sent
        /\ \A c \in DOMAIN groups :
             c # b => Members(groups[b]) \cap Members(groups[c]) = {}
    BY <1>1, <1>2, <1>6, GroupOfShard, Zenon
  <2>3. QED
    BY <1>3, <2>1, <2>2, Zenon
<1>8. QED
  BY <1>2, <1>4, <1>5, <1>7, Zenon

(* A part of the groups, and more shards: still groups of the shards.      *)
LEMMA CoveredPart ==
  ASSUME NEW gs, NEW G, Covered(gs, G), NEW hs, NEW H, G \subseteq H,
         DOMAIN hs \subseteq DOMAIN gs, \A c \in DOMAIN hs : hs[c] = gs[c]
  PROVE  Covered(hs, H)
  BY DEF Covered

(* A shard of the one process joins shards of that process.                *)
LEMMA AddingOwn ==
  ASSUME NEW f, \A i \in DOMAIN f : f[i] = 1, NEW x
  PROVE  \A i \in DOMAIN Adding(f, x, 1) : Adding(f, x, 1)[i] = 1
  BY DEF Adding

(* One try of a group, on a table whose other groups are unsolvable.       *)
LEMMA TryDecoder ==
  ASSUME Types, Encoder, NEW rg, NEW A, RingIn(rg, A), Own(A),
         NEW G, G \subseteq shards, NEW gs, Table(gs), Covered(gs, G), NEW b \in DOMAIN gs,
         \A c \in DOMAIN gs : c # b => Unsolvable(rg, gs[c]),
         tryReconstruct(rg, gs, b), recovered \subseteq sent
  PROVE  /\ Covered(groups', G) /\ \A c \in DOMAIN groups' : Unsolvable(rg, groups'[c])
         /\ recovered \subseteq recovered' /\ recovered' \subseteq sent
         /\ \A x \in G : Waits(x, gs) => Waits(x, groups') \/ Whole(x, A \cup recovered')
<1>1. /\ DOMAIN groups' \subseteq DOMAIN gs /\ \A c \in DOMAIN groups' : groups'[c] = gs[c]
      /\ recovered \subseteq recovered'
  BY Tried, Zenon
<1>2. \A i \in DOMAIN gs[b].parity : gs[b].parity[i] = 1
  BY Zenon DEF Covered
<1>3. /\ \A p \in recovered' \ recovered : \E s \in Members(gs[b]) : p = Packet(1, s)
      /\ \/ groups' = gs /\ Unsolvable(rg, gs[b])
         \/ /\ groups' = Without(gs, {b})
            /\ \A s \in Members(gs[b]) : Packet(1, s) \in A \cup recovered'
  BY <1>2, TriedOwn, Zenon
<1>4. Covered(gs, shards)
  BY CoveredPart, Zenon
<1>5. /\ \A x \in shards : x.base = b => Members(x) = Members(gs[b])
                                         /\ x.k = gs[b].k /\ x.r = gs[b].r
      /\ \A s \in Members(gs[b]) : Packet(1, s) \in sent
  BY <1>4, GroupOfShard, Zenon
<1>6. Covered(groups', G)
  BY <1>1, CoveredPart, Zenon
<1>7. recovered' \subseteq sent
  BY <1>3, <1>5, Zenon
<1>8. DOMAIN Without(gs, {b}) = DOMAIN gs \ {b}
  BY WithoutFacts, Zenon
<1>9. \A c \in DOMAIN groups' : Unsolvable(rg, groups'[c])
  BY <1>1, <1>3, <1>8
<1>10. ASSUME NEW x \in G, Waits(x, gs)
       PROVE  Waits(x, groups') \/ Whole(x, A \cup recovered')
  <2>1. CASE groups' = gs
    BY <1>10, <2>1
  <2>2. CASE /\ groups' = Without(gs, {b})
             /\ \A s \in Members(gs[b]) : Packet(1, s) \in A \cup recovered'
    <3>1. CASE x.base = b
      BY <1>5, <2>2, <3>1, Zenon DEF Whole
    <3>2. CASE x.base # b
      <4>1. x.base \in DOMAIN groups'
        BY <1>8, <1>10, <2>2, <3>2, Zenon DEF Waits
      <4>2. QED
        BY <1>1, <1>10, <4>1, Zenon DEF Waits
    <3>3. QED
      BY <3>1, <3>2, Zenon
  <2>3. QED
    BY <1>3, <2>1, <2>2
<1>11. QED
  BY <1>1, <1>6, <1>7, <1>9, <1>10

(* While one process sends, packets are its own.                           *)
LEMMA SentOwn ==
  ASSUME Types, run = 1
  PROVE  Own(sent) /\ \A h \in shards : h.run = 1
<1>1. \A p \in sent : p \in Packets /\ p.run = 1
  BY DEF Types, TypeOK
<1>2. \A p \in sent : p = Packet(1, p.seq)
  BY <1>1 DEF Packets, Packet
<1>3. \A h \in shards : h.run \in 1 .. MaxRuns /\ h.run <= 1
  BY DEF Types, Shards
<1>4. QED
  BY <1>2, <1>3, Sizes DEF Own

(* An arriving packet keeps the decoder's invariant: it can make only its  *)
(* own group solvable, and that one is tried.                              *)
LEMMA DataDecoder ==
  ASSUME Types, run = 1, Encoder, Decoder, NEW d \in sent,
         arrived' = arrived \cup {d}, AddData(d), UNCHANGED <<sender, got>>
  PROVE  Decoder'
<1> DEFINE rg   == [ring EXCEPT ![d.seq % Ring] = d]
           top  == IF d.seq > highest THEN d.seq ELSE highest
           gs   == Without(groups, Expired(top))
           mine == {b \in DOMAIN gs : d.seq \in Members(gs[b])}
<1>1. /\ ring' = rg /\ failed' = failed + Cardinality(Expired(top))
      /\ \/ mine = {} /\ groups' = gs /\ recovered' = recovered
         \/ \E b \in mine : tryReconstruct(rg, gs, b)
  BY Zenon DEF AddData
<1>2. /\ ring \in [0 .. Ring - 1 -> Packets] /\ d \in Packets /\ failed \in Nat
      /\ Table(groups) /\ arrived \subseteq sent /\ got \subseteq shards
  BY Zenon DEF Types, TypeOK
<1>3. /\ RingIn(ring, arrived) /\ Covered(groups, got)
      /\ \A b \in DOMAIN groups : Unsolvable(ring, groups[b])
      /\ recovered \subseteq sent
      /\ failed = 0 => \A x \in got : Waits(x, groups) \/ Whole(x, arrived \cup recovered)
  BY DEF Decoder
<1>4. RingIn(rg, arrived')
  BY <1>2, <1>3 DEF RingIn
<1>5. Own(arrived')
  BY <1>2, SentOwn DEF Own
<1>6. /\ DOMAIN gs = DOMAIN groups \ Expired(top)
      /\ \A b \in DOMAIN gs : gs[b] = groups[b]
  <2>1. /\ DOMAIN gs = DOMAIN groups \ Expired(top)
        /\ \A b \in DOMAIN groups \ Expired(top) : gs[b] = groups[b]
    BY WithoutFacts, Zenon
  <2> HIDE DEF gs, top
  <2>2. QED
    BY <2>1, Zenon
<1>7. Table(gs) /\ Covered(gs, got) /\ Covered(gs, shards)
  <2>1. Table(gs)
    BY <1>2, WithoutTable
  <2> HIDE DEF gs
  <2>2. QED
    BY <1>2, <1>3, <1>6, <2>1, CoveredPart, Zenon
<1>8. ASSUME NEW b \in DOMAIN gs, d.seq \notin Members(gs[b])
      PROVE  Unsolvable(rg, gs[b])
  <2>1. gs[b].base \in Nat /\ gs[b].k \in Nat \ {0}
    BY <1>7, GroupFacts, Zenon
  <2>2. Cardinality(Missing(ring, gs[b])) <= Cardinality(Missing(rg, gs[b]))
    BY <1>2, <1>8, <2>1, MissingGrows, Zenon
  <2>3. Cardinality(DOMAIN gs[b].parity) < Cardinality(Missing(ring, gs[b]))
    BY <1>3, <1>6, Zenon DEF Unsolvable
  <2>4. /\ Cardinality(Missing(ring, gs[b])) \in Nat
        /\ Cardinality(Missing(rg, gs[b])) \in Nat
    BY <2>1, MissingCount, Zenon
  <2>5. Cardinality(DOMAIN gs[b].parity) \in Nat
    <3>1. DOMAIN gs[b].parity \subseteq 0 .. gs[b].r - 1 /\ gs[b].r \in 1 .. MaxParity
      BY <1>7, Zenon DEF Table, GroupOK
    <3>2. \A n \in 1 .. MaxParity : n - 1 \in Int /\ 0 \in Int
      BY Sizes
    <3>3. IsFiniteSet(0 .. gs[b].r - 1)
      BY <3>1, <3>2, FS_Interval, Zenon
    <3>4. QED
      BY <3>1, <3>3, FS_Subset, FS_CardinalityType, Zenon
  <2>6. QED
    BY <2>2, <2>3, <2>4, <2>5 DEF Unsolvable
<1>9. ASSUME failed' = 0, NEW x \in got
      PROVE  Waits(x, gs) \/ Whole(x, arrived' \cup recovered)
  <2>1. Cardinality(Expired(top)) \in Nat
    BY ExpiredFacts
  <2>2. failed = 0 /\ Cardinality(Expired(top)) = 0
    BY <1>1, <1>2, <1>9, <2>1
  <2>3. Expired(top) = {}
    BY <2>2, ExpiredFacts
  <2>4. Waits(x, groups) => Waits(x, gs)
    BY <1>6, <2>3, Zenon DEF Waits
  <2>5. Whole(x, arrived \cup recovered) => Whole(x, arrived' \cup recovered)
    BY DEF Whole
  <2>6. QED
    BY <1>3, <2>2, <2>4, <2>5
<1> HIDE DEF rg, top, gs
<1>10. /\ Covered(groups', got) /\ \A b \in DOMAIN groups' : Unsolvable(rg, groups'[b])
       /\ recovered \subseteq recovered' /\ recovered' \subseteq sent
       /\ \A x \in got : Waits(x, gs) => Waits(x, groups') \/ Whole(x, arrived' \cup recovered')
  <2>1. CASE mine = {} /\ groups' = gs /\ recovered' = recovered
    <3>1. \A b \in DOMAIN gs : Unsolvable(rg, gs[b])
      BY <1>8, <2>1
    <3>2. QED
      BY <1>3, <1>7, <2>1, <3>1
  <2>2. ASSUME NEW b \in mine, tryReconstruct(rg, gs, b)
        PROVE  /\ Covered(groups', got) /\ \A c \in DOMAIN groups' : Unsolvable(rg, groups'[c])
               /\ recovered \subseteq recovered' /\ recovered' \subseteq sent
               /\ \A x \in got : Waits(x, gs) =>
                    Waits(x, groups') \/ Whole(x, arrived' \cup recovered')
    <3>1. b \in DOMAIN gs /\ d.seq \in Members(gs[b])
      OBVIOUS
    <3>2. \A c \in DOMAIN gs : c # b => Members(gs[b]) \cap Members(gs[c]) = {}
      BY <1>7, <3>1, GroupOfShard, Zenon
    <3>3. \A c \in DOMAIN gs : c # b => Unsolvable(rg, gs[c])
      BY <1>8, <3>1, <3>2
    <3>4. QED
      BY <1>2, <1>3, <1>4, <1>5, <1>7, <2>2, <3>1, <3>3, TryDecoder, Zenon
  <2>3. QED
    BY <1>1, <2>1, <2>2, Zenon
<1>11. failed' = 0 => \A x \in got : Waits(x, groups') \/ Whole(x, arrived' \cup recovered')
  <2>1. \A x \in got : Whole(x, arrived' \cup recovered) => Whole(x, arrived' \cup recovered')
    BY <1>10 DEF Whole
  <2>2. QED
    BY <1>9, <1>10, <2>1
<1>12. got' = got /\ sent' = sent
  BY DEF sender
<1>13. QED
  BY <1>1, <1>4, <1>10, <1>11, <1>12, Zenon
    DEF Decoder, RingIn, Covered, Unsolvable, Missing, Holds, Waits, Whole

(* An arriving shard keeps the decoder's invariant: it joins its group, or *)
(* opens it, and the group is tried.                                       *)
LEMMA ShardDecoder ==
  ASSUME Types, run = 1, Encoder, Decoder, NEW h \in shards \ got,
         got' = got \cup {h}, AddParity(h), UNCHANGED <<sender, arrived>>
  PROVE  Decoder'
<1>1. /\ failed \in Nat /\ Table(groups) /\ arrived \subseteq sent /\ got \subseteq shards
      /\ h.run = 1 /\ got' \subseteq shards
  BY SentOwn, Zenon DEF Types, TypeOK
<1>2. /\ RingIn(ring, arrived) /\ Covered(groups, got)
      /\ \A b \in DOMAIN groups : Unsolvable(ring, groups[b])
      /\ recovered \subseteq sent
      /\ failed = 0 => \A x \in got : Waits(x, groups) \/ Whole(x, arrived \cup recovered)
  BY DEF Decoder
<1>3. Own(arrived)
  BY <1>1, SentOwn DEF Own
<1>4. /\ DOMAIN Entered(h) = (DOMAIN groups \ Evicted(h.base)) \cup {h.base}
      /\ \A b \in DOMAIN groups \ Evicted(h.base) : Entered(h)[b] = groups[b]
      /\ h.base \notin DOMAIN groups => Entered(h)[h.base] = Fresh(h)
      /\ h.base \in DOMAIN groups => Entered(h)[h.base] = groups[h.base]
  BY EnteredFacts, Zenon
<1>5. /\ h.k = Entered(h)[h.base].k /\ h.r = Entered(h)[h.base].r
      /\ \A i \in DOMAIN Entered(h)[h.base].parity : Entered(h)[h.base].parity[i] = 1
  <2>1. CASE h.base \in DOMAIN groups
    <3>1. Covered(groups, shards)
      BY <1>1, <1>2, Zenon DEF Covered
    <3>2. h.k = groups[h.base].k /\ h.r = groups[h.base].r
      <4>1. \A x \in shards : x.base = h.base => Members(x) = Members(groups[h.base])
                 /\ x.k = groups[h.base].k /\ x.r = groups[h.base].r
        BY <1>1, <2>1, <3>1, GroupOfShard, Zenon
      <4>2. QED
        BY <4>1, Zenon
    <3>3. \A i \in DOMAIN groups[h.base].parity : groups[h.base].parity[i] = 1
      BY <1>2, <2>1, Zenon DEF Covered
    <3>4. QED
      BY <1>4, <2>1, <3>2, <3>3, Zenon
  <2>2. CASE h.base \notin DOMAIN groups
    <3>1. Fresh(h).k = h.k /\ Fresh(h).r = h.r /\ DOMAIN Fresh(h).parity = {}
      BY DEF Fresh
    <3>2. QED
      BY <1>4, <2>2, <3>1, Zenon
  <2>3. QED
    BY <2>1, <2>2, Zenon
<1>6. /\ failed' = failed + Cardinality(Evicted(h.base)) /\ ring' = ring
      /\ tryReconstruct(ring, Filed(h), h.base)
  BY <1>5, ParityStep, Zenon
<1>7. /\ Table(Filed(h)) /\ h.base \in DOMAIN Filed(h)
      /\ DOMAIN Filed(h) = DOMAIN Entered(h)
      /\ \A b \in DOMAIN Entered(h) : b # h.base => Filed(h)[b] = Entered(h)[b]
      /\ Filed(h)[h.base].k = h.k /\ Filed(h)[h.base].r = h.r
      /\ Filed(h)[h.base].parity = Adding(Entered(h)[h.base].parity, h.index, h.run)
  BY <1>5, FiledTable, Zenon
<1>8. \A b \in DOMAIN Filed(h) : b # h.base => b \in DOMAIN groups /\ Filed(h)[b] = groups[b]
  BY <1>4, <1>7, Zenon
<1>9. Covered(Filed(h), got')
  <2>1. ASSUME NEW b \in DOMAIN Filed(h)
        PROVE  /\ \E x \in got' : x.base = b /\ x.k = Filed(h)[b].k /\ x.r = Filed(h)[b].r
               /\ \A i \in DOMAIN Filed(h)[b].parity : Filed(h)[b].parity[i] = 1
    <3>1. CASE b # h.base
      <4>1. b \in DOMAIN groups /\ Filed(h)[b] = groups[b]
        BY <1>8, <3>1
      <4>2. QED
        <5>1. /\ \E x \in got : x.base = b /\ x.k = groups[b].k /\ x.r = groups[b].r
              /\ \A i \in DOMAIN groups[b].parity : groups[b].parity[i] = 1
          BY <1>2, <4>1, Zenon DEF Covered
        <5>2. \A x \in got : x \in got'
          OBVIOUS
        <5>3. QED
          BY <4>1, <5>1, <5>2, Zenon
    <3>2. CASE b = h.base
      <4>1. \A i \in DOMAIN Filed(h)[h.base].parity : Filed(h)[h.base].parity[i] = 1
        <5> DEFINE held == Entered(h)[h.base].parity
        <5>1. \A i \in DOMAIN held : held[i] = 1
          BY <1>5, Zenon
        <5>2. Filed(h)[h.base].parity = Adding(held, h.index, 1)
          BY <1>1, <1>7, Zenon
        <5> HIDE DEF held
        <5>3. \A i \in DOMAIN Adding(held, h.index, 1) : Adding(held, h.index, 1)[i] = 1
          BY <5>1, AddingOwn
        <5>4. QED
          BY <5>2, <5>3, Zenon
      <4>2. h \in got'
        OBVIOUS
      <4>3. QED
        BY <1>7, <3>2, <4>1, <4>2, Zenon
    <3>3. QED
      BY <3>1, <3>2, Zenon
  <2>2. QED
    BY <2>1, Zenon DEF Covered
<1>10. \A c \in DOMAIN Filed(h) : c # h.base => Unsolvable(ring, Filed(h)[c])
  BY <1>2, <1>8, Zenon
<1>11. /\ Covered(groups', got') /\ \A c \in DOMAIN groups' : Unsolvable(ring, groups'[c])
       /\ recovered \subseteq recovered' /\ recovered' \subseteq sent
       /\ \A x \in got' : Waits(x, Filed(h)) =>
            Waits(x, groups') \/ Whole(x, arrived \cup recovered')
  BY <1>1, <1>2, <1>3, <1>6, <1>7, <1>9, <1>10, TryDecoder, Zenon
<1>12. ASSUME failed' = 0, NEW x \in got'
       PROVE  Waits(x, groups') \/ Whole(x, arrived \cup recovered')
  <2>1. Cardinality(Evicted(h.base)) \in Nat
    BY EvictedFacts, Zenon
  <2>2. failed = 0 /\ Cardinality(Evicted(h.base)) = 0
    BY <1>1, <1>6, <1>12, <2>1
  <2>3. Evicted(h.base) = {}
    BY <2>2, EvictedFacts, Zenon
  <2>4. DOMAIN Filed(h) = DOMAIN groups \cup {h.base}
    BY <1>4, <1>7, <2>3, Zenon
  <2>5. /\ h.index \in DOMAIN Filed(h)[h.base].parity
        /\ DOMAIN Entered(h)[h.base].parity \subseteq DOMAIN Filed(h)[h.base].parity
    BY <1>7, Zenon DEF Adding
  <2>6. CASE x = h
    <3>1. Waits(x, Filed(h))
      BY <1>7, <2>5, <2>6, Zenon DEF Waits
    <3>2. QED
      BY <1>11, <3>1
  <2>7. CASE x \in got /\ Waits(x, groups)
    <3>1. x.base \in DOMAIN Filed(h) /\ x.index \in DOMAIN Filed(h)[x.base].parity
      <4>1. x.base \in DOMAIN groups /\ x.index \in DOMAIN groups[x.base].parity
        BY <2>7, Zenon DEF Waits
      <4>2. CASE x.base = h.base
        BY <1>4, <2>4, <2>5, <4>1, <4>2, Zenon
      <4>3. CASE x.base # h.base
        BY <1>8, <2>4, <4>1, <4>3
      <4>4. QED
        BY <4>2, <4>3
    <3>2. QED
      BY <1>11, <3>1, Zenon DEF Waits
  <2>8. CASE x \in got /\ Whole(x, arrived \cup recovered)
    BY <1>11, <2>8 DEF Whole
  <2>9. QED
    BY <1>2, <2>2, <2>6, <2>7, <2>8
<1>13. arrived' = arrived /\ sent' = sent
  BY DEF sender
<1>14. QED
  BY <1>2, <1>6, <1>11, <1>12, <1>13, Zenon
    DEF Decoder, RingIn, Covered, Unsolvable, Missing, Holds, Waits, Whole

-----------------------------------------------------------------------------
(* The invariant holds initially.                                          *)
LEMMA InitIInv == Init => IInv
<1> SUFFICES ASSUME Init PROVE IInv
  OBVIOUS
<1>1. /\ run = 1 /\ seq = 0 /\ switches = 0 /\ mode \in Modes /\ enc = [base |-> 0, n |-> 0]
      /\ sent = {} /\ shards = {} /\ arrived = {} /\ got = {} /\ highest = 0
      /\ ring = [i \in 0 .. Ring - 1 |-> NoPacket] /\ DOMAIN groups = {}
      /\ recovered = {} /\ failed = 0
  BY DEF Init, New
<1>2. NoPacket \in Packets
  BY Sizes DEF NoPacket, Packet, Packets
<1>3. Cardinality(DOMAIN groups) <= MaxGroups
  BY <1>1, Sizes, FS_EmptySet
<1>4. Types
  <2>1. /\ run \in 1 .. MaxRuns /\ seq \in 0 .. MaxSeq /\ switches \in 0 .. MaxSwitches
        /\ enc \in [base : 0 .. MaxSeq, n : 0 .. K - 1] /\ highest \in 0 .. MaxSeq
        /\ failed \in Nat /\ ~(enc.n > 0)
    BY <1>1, Sizes, FecAssumption
  <2>2. ring \in [0 .. Ring - 1 -> Packets]
    BY <1>1, <1>2
  <2>3. TypeOK
    BY <1>1, <1>3, <2>1, <2>2 DEF TypeOK
  <2>4. QED
    BY <1>1, <2>1, <2>3 DEF Types, Table
<1>5. Encoder
  BY <1>1 DEF Encoder, Apart, Closed
<1>6. Decoder
  BY <1>1, Zenon DEF Decoder, RingIn, Covered
<1>7. QED
  BY <1>4, <1>5, <1>6 DEF IInv

(* The sender's steps keep what the decoder knows.                         *)
LEMMA DecoderKept ==
  ASSUME Decoder, UNCHANGED decoder, sent \subseteq sent'
  PROVE  Decoder'
  BY Zenon DEF Decoder, decoder, RingIn, Covered, Unsolvable, Missing, Holds, Waits, Whole

(* The decoder's steps, and a mode switch, keep what the encoder did.      *)
LEMMA EncoderKept ==
  ASSUME Encoder, UNCHANGED <<seq, enc, sent, shards>>
  PROVE  Encoder'
  BY DEF Encoder, Apart, Closed

(* Every step keeps the invariant.                                         *)
LEMMA NextIInv == IInv /\ [Next]_vars => IInv'
<1> SUFFICES ASSUME IInv, [Next]_vars PROVE IInv'
  OBVIOUS
<1>1. Types /\ (run = 1 => Encoder /\ Decoder)
  BY DEF IInv
<1>2. CASE sendData
  <2>1. Types' /\ run' = run /\ UNCHANGED decoder /\ sent \subseteq sent'
    BY <1>1, <1>2, SendTypes DEF sendData, decoder
  <2>2. QED
    BY <1>1, <1>2, <2>1, SendEncoder, DecoderKept DEF IInv
<1>3. CASE FlushExpired
  <2>1. Types' /\ run' = run /\ UNCHANGED decoder /\ sent \subseteq sent'
    BY <1>1, <1>3, FlushTypes DEF FlushExpired, decoder
  <2>2. QED
    BY <1>1, <1>3, <2>1, FlushEncoder, DecoderKept DEF IInv
<1>4. CASE SetMode
  <2>1. /\ Types' /\ run' = run /\ UNCHANGED decoder /\ sent \subseteq sent'
        /\ UNCHANGED <<seq, enc, sent, shards>>
    BY <1>1, <1>4, ModeTypes DEF SetMode, decoder
  <2>2. QED
    BY <1>1, <2>1, EncoderKept, DecoderKept DEF IInv
<1>5. CASE Restart
  BY <1>1, <1>5, RestartTypes DEF IInv
<1>6. CASE RecvData
  <2>1. Types'
    BY <1>1, <1>6, RecvDataTypes
  <2>2. PICK d \in sent :
          arrived' = arrived \cup {d} /\ AddData(d) /\ UNCHANGED <<sender, got>>
    BY <1>6 DEF RecvData
  <2>3. run' = run /\ UNCHANGED <<seq, enc, sent, shards>>
    BY <2>2 DEF sender
  <2>4. run = 1 => Encoder' /\ Decoder'
    BY <1>1, <2>2, <2>3, EncoderKept, DataDecoder
  <2>5. QED
    BY <2>1, <2>3, <2>4 DEF IInv
<1>7. CASE RecvParity
  <2>1. Types'
    BY <1>1, <1>7, RecvParityTypes
  <2>2. PICK h \in shards \ got :
          got' = got \cup {h} /\ AddParity(h) /\ UNCHANGED <<sender, arrived>>
    BY <1>7 DEF RecvParity
  <2>3. run' = run /\ UNCHANGED <<seq, enc, sent, shards>>
    BY <2>2 DEF sender
  <2>4. run = 1 => Encoder' /\ Decoder'
    BY <1>1, <2>2, <2>3, EncoderKept, ShardDecoder
  <2>5. QED
    BY <2>1, <2>3, <2>4 DEF IInv
<1>8. CASE UNCHANGED vars
  <2>1. UNCHANGED decoder /\ UNCHANGED sender /\ UNCHANGED <<seq, enc, sent, shards>> /\ run' = run
    BY <1>8 DEF vars, sender, decoder
  <2>2. Types'
    BY <1>1, <2>1, Zenon DEF Types, TypeOK, Table, GroupOK, decoder, sender
  <2>3. run = 1 => Encoder' /\ Decoder'
    BY <1>1, <2>1, EncoderKept, DecoderKept
  <2>4. QED
    BY <2>1, <2>2, <2>3 DEF IInv
<1>9. QED
  BY <1>2, <1>3, <1>4, <1>5, <1>6, <1>7, <1>8 DEF Next

(* The invariant holds throughout.                                         *)
LEMMA IInvHolds == Spec => []IInv
  BY InitIInv, NextIInv, PTL DEF Spec

(* Shards of one group that the decoder keeps are as many as their         *)
(* numbers.                                                                *)
LEMMA KeptShards ==
  ASSUME Types, Apart(shards), NEW b, NEW F \in SUBSET shards, NEW P, IsFiniteSet(P),
         \A x \in F : x.run = 1 /\ x.base = b /\ x.index \in P
  PROVE  IsFiniteSet(F) /\ Cardinality(F) <= Cardinality(P)
<1> DEFINE f == [x \in F |-> x.index]
<1>1. ASSUME NEW x \in F, NEW y \in F, f[x] = f[y] PROVE x = y
  <2>1. x.run = y.run /\ x.base = y.base /\ x.k = y.k /\ x.r = y.r /\ x.index = y.index
    BY <1>1 DEF Apart
  <2>2. x \in Shards /\ y \in Shards
    BY DEF Types
  <2>3. QED
    BY <2>1, <2>2 DEF Shards
<1>2. f \in Injection(F, P)
  BY <1>1 DEF Injection, IsInjective
<1>3. QED
  BY <1>2, FS_Injection

(* What arrived of a group and is still held, and what is missing of it,   *)
(* are together no more than the group.                                    *)
LEMMA HeldAndMissing ==
  ASSUME NEW g, g.base \in Nat, g.k \in Nat \ {0}, NEW rg, NEW D \in SUBSET Members(g),
         \A s \in D : Holds(rg, s)
  PROVE  /\ IsFiniteSet(D) /\ Cardinality(D) \in Nat
         /\ Cardinality(D) + Cardinality(Missing(rg, g)) <= g.k
<1> DEFINE M == Missing(rg, g)
<1>1. IsFiniteSet(Members(g)) /\ Cardinality(Members(g)) = g.k
  BY MembersCount
<1>2. IsFiniteSet(M) /\ Cardinality(M) \in Nat /\ M \subseteq Members(g)
  BY MissingCount
<1>3. IsFiniteSet(D) /\ Cardinality(D) \in Nat
  BY <1>1, FS_Subset, FS_CardinalityType
<1>4. D \cap M = {}
  BY DEF Missing
<1> HIDE DEF M
<1>5. Cardinality(D \cup M) = Cardinality(D) + Cardinality(M) - Cardinality(D \cap M)
  BY <1>2, <1>3, FS_Union
<1>6. Cardinality(D \cap M) = 0
  BY <1>4, FS_EmptySet
<1>7. Cardinality(D \cup M) <= g.k
  BY <1>1, <1>2, FS_Subset
<1>8. QED
  BY <1>2, <1>3, <1>5, <1>6, <1>7 DEF M

(* The counting argument: with k packets and shards of a group at hand,    *)
(* the group is whole, since in the table it would be solvable.            *)
LEMMA EnoughIsWhole ==
  ASSUME Types, run = 1, Encoder, Decoder, failed = 0, NEW h \in shards,
         NEW data, data = {s \in Members(h) : Packet(1, s) \in arrived},
         NEW fec, fec = {x \in got : x.run = 1 /\ x.base = h.base},
         \A s \in data : Holds(ring, s),
         Cardinality(data) + Cardinality(fec) >= h.k
  PROVE  \A s \in Members(h) : Packet(1, s) \in arrived \cup recovered
<1>1. h.base \in Nat /\ h.k \in Nat \ {0} /\ got \subseteq shards /\ Table(groups)
  BY ShardBounds, Zenon DEF Types, TypeOK
<1>2. Apart(shards)
  BY Zenon DEF Encoder
<1>3. \A x \in fec : Members(x) = Members(h)
  BY <1>1, <1>2 DEF Apart, Members
<1>4. data \in SUBSET Members(h)
  OBVIOUS
<1>5. /\ IsFiniteSet(data) /\ Cardinality(data) \in Nat
      /\ Cardinality(data) + Cardinality(Missing(ring, h)) <= h.k
  BY <1>1, <1>4, HeldAndMissing
<1>6. CASE \E x \in fec : Whole(x, arrived \cup recovered)
  BY <1>3, <1>6 DEF Whole
<1>7. CASE fec = {}
  <2>1. Cardinality(fec) = 0
    BY <1>7, FS_EmptySet, Zenon
  <2>2. IsFiniteSet(Members(h)) /\ Cardinality(Members(h)) = h.k
    BY <1>1, MembersCount
  <2>3. Cardinality(data) <= h.k
    BY <1>4, <2>2, FS_Subset, Zenon
  <2>4. Cardinality(Members(h)) = Cardinality(data)
    BY <1>1, <1>5, <2>1, <2>2, <2>3
  <2>5. Members(h) = data
    BY <1>4, <2>2, <2>4, FS_Subset, Zenon
  <2>6. QED
    BY <2>5
<1>8. CASE fec # {} /\ \A x \in fec : ~Whole(x, arrived \cup recovered)
  <2>1. \A x \in fec : Waits(x, groups)
    BY <1>8, Zenon DEF Decoder
  <2>2. h.base \in DOMAIN groups /\ \A x \in fec : x.index \in DOMAIN groups[h.base].parity
    BY <1>8, <2>1, Zenon DEF Waits
  <2> DEFINE g == groups[h.base]
             P == DOMAIN g.parity
  <2>3. Covered(groups, shards)
    BY <1>1, Zenon DEF Decoder, Covered
  <2>4. Members(g) = Members(h)
    <3>1. \A x \in shards : x.base = h.base => Members(x) = Members(g)
                                               /\ x.k = g.k /\ x.r = g.r
      BY <1>1, <2>2, <2>3, GroupOfShard, Zenon
    <3>2. QED
      BY <1>1, <3>1, Zenon
  <2>5. Missing(ring, g) = Missing(ring, h)
    BY <2>4, Zenon DEF Missing
  <2>6. Cardinality(P) < Cardinality(Missing(ring, h))
    BY <2>2, <2>5, Zenon DEF Decoder, Unsolvable
  <2>7. IsFiniteSet(P) /\ Cardinality(P) \in Nat
    <3>1. P \subseteq 0 .. g.r - 1 /\ g.r \in 1 .. MaxParity
      BY <1>1, <2>2, Zenon DEF Table, GroupOK
    <3>2. \A n \in 1 .. MaxParity : n - 1 \in Int /\ 0 \in Int
      BY Sizes
    <3>3. IsFiniteSet(0 .. g.r - 1)
      BY <3>1, <3>2, FS_Interval, Zenon
    <3>4. QED
      BY <3>1, <3>3, FS_Subset, FS_CardinalityType, Zenon
  <2>8. fec \in SUBSET shards /\ \A x \in fec : x.run = 1 /\ x.base = h.base /\ x.index \in P
    BY <1>1, <2>2, Zenon
  <2> HIDE DEF P
  <2>9. IsFiniteSet(fec) /\ Cardinality(fec) <= Cardinality(P)
    BY <1>2, <2>7, <2>8, KeptShards, Zenon
  <2>10. Cardinality(fec) \in Nat /\ Cardinality(Missing(ring, h)) \in Nat
    BY <1>1, <2>9, FS_CardinalityType, MissingCount
  <2>11. FALSE
    BY <1>1, <1>5, <2>6, <2>7, <2>9, <2>10
  <2>12. QED
    BY <2>11
<1>9. QED
  BY <1>6, <1>7, <1>8, Zenon

-----------------------------------------------------------------------------
(* For every group size, ring and number of packets: the state has its     *)
(* type, so no more groups are tracked than the table holds, also when     *)
(* groups of several processes meet in it.                                 *)
THEOREM FecTyped == Spec => []TypeOK
<1>1. IInv => TypeOK
  BY DEF IInv, Types
<1>2. QED
  BY <1>1, IInvHolds, PTL

(* For every group size, ring and number of packets: while one process     *)
(* sends, everything the decoder injects was sent.                         *)
THEOREM OnlySentIsRecovered == Spec => []RecoveredWasSent
<1>1. IInv => RecoveredWasSent
  BY DEF IInv, Decoder, RecoveredWasSent
<1>2. QED
  BY <1>1, IInvHolds, PTL

(* For every group size, ring and table: no group that could be solved is  *)
(* left waiting while one process sends.                                   *)
THEOREM SolvableIsSolved == Spec => []NoSolvableGroupWaits
<1>1. IInv => NoSolvableGroupWaits
  BY DEF IInv, Types, Decoder, Unsolvable, NoSolvableGroupWaits
<1>2. QED
  BY <1>1, IInvHolds, PTL

(* For every group size, ring and table: any k of a group's packets and    *)
(* shards rebuild the group, as long as no group was given up and the ring *)
(* holds the packets.                                                      *)
THEOREM AnyKRebuild == Spec => []AnyKSuffice
<1>1. IInv => AnyKSuffice
  <2> SUFFICES ASSUME IInv, NEW h \in shards
               PROVE  LET data == {s \in Members(h) : Packet(h.run, s) \in arrived}
                          fec  == {x \in got : x.run = h.run /\ x.base = h.base}
                      IN  /\ run = 1 /\ failed = 0
                          /\ \A s \in data : Holds(ring, s)
                          /\ Cardinality(data) + Cardinality(fec) >= h.k
                          => \A s \in Members(h) : Packet(h.run, s) \in arrived \cup recovered
    BY Zenon DEF AnyKSuffice
  <2> DEFINE data == {s \in Members(h) : Packet(h.run, s) \in arrived}
             fec  == {x \in got : x.run = h.run /\ x.base = h.base}
  <2>1. SUFFICES ASSUME run = 1, failed = 0, \A s \in data : Holds(ring, s),
                        Cardinality(data) + Cardinality(fec) >= h.k
                 PROVE  \A s \in Members(h) : Packet(h.run, s) \in arrived \cup recovered
    BY Zenon
  <2>2. Types /\ Encoder /\ Decoder
    BY <2>1, Zenon DEF IInv
  <2>3. h.run = 1
    BY <2>1, <2>2, SentOwn
  <2>4. /\ data = {s \in Members(h) : Packet(1, s) \in arrived}
        /\ fec = {x \in got : x.run = 1 /\ x.base = h.base}
    BY <2>3
  <2> HIDE DEF data, fec
  <2>5. \A s \in Members(h) : Packet(1, s) \in arrived \cup recovered
    BY <2>1, <2>2, <2>4, EnoughIsWhole, Zenon
  <2>6. QED
    BY <2>3, <2>5
<1>2. QED
  BY <1>1, IInvHolds, PTL
=============================================================================
