---------------------------- MODULE SessionProofs ----------------------------
(***************************************************************************)
(* One direction of a session, for every number of packets, paths and      *)
(* modes, every FEC group size and every reorder buffer.  Every step of    *)
(* the session is a step, or no step, of its FEC encoder and decoder (Fec) *)
(* and of its reorder buffer (Reorder), so what FecProofs and              *)
(* ReorderProofs prove of them holds within the session; and the packets   *)
(* that pass between them are numbers of packets that were sent.           *)
(***************************************************************************)
EXTENDS Session, FiniteSetTheorems, TLAPS

(* What is between the two components: numbers of packets that were sent,  *)
(* packets under FEC among them, and flags of modes the client was in.     *)
Wired(m) ==
  /\ m = [seq |-> m.seq, copies |-> m.copies, dup |-> m.dup, fec |-> m.fec]
  /\ m.seq \in 1 .. seq /\ m.copies \in 1 .. MaxTargets
  /\ m.dup \in BOOLEAN /\ m.fec \in BOOLEAN
  /\ m.dup => "redundant" \in Modes
  /\ m.fec => "fec" \in Modes /\ F!Packet(1, m.seq) \in sent

Between ==
  /\ targets \in 0 .. MaxTargets /\ (targets > 1 => "redundant" \in Modes)
  /\ \A m \in wire : Wired(m)
  /\ todo \in Seq(1 .. seq) /\ Len(todo) <= K
  /\ \A s \in Seqs : pushed[s] > 0 => s <= seq
  /\ seen.highest \in 0 .. MaxSeq

Mirror ==
  /\ smode \in Modes \cup {"bonding"}
  /\ dupSeen \in BOOLEAN /\ fecSeen \in BOOLEAN /\ revert \in BOOLEAN

(* What the components' own invariants say of the state they share.        *)
Shared ==
  /\ run = 1 /\ seq \in 0 .. MaxSeq /\ mode \in Modes
  /\ pushed \in [Seqs -> Nat] /\ seen \in R!Windows

(* The reader gets at most n rebuilt packets, all of them sent.            *)
Injects(gs, n) ==
  injectRecovered(gs) \in Seq(1 .. seq) /\ Len(injectRecovered(gs)) <= n

-----------------------------------------------------------------------------
(* Each step keeps what is between the components.                         *)

(* The sizes.                                                              *)
LEMMA Sizes ==
  /\ K \in Nat /\ K >= 2 /\ Ring \in Nat \ {0} /\ MaxSeq \in Nat
  /\ MaxLag \in Nat /\ MaxSeq <= MaxLag /\ Seqs = 1 .. MaxSeq
  /\ MaxTargets \in Nat \ {0}
  BY SessionAssumption DEF F!FecAssumption

(* A sequence over a set is one over every larger set.                     *)
LEMMA SeqWider == ASSUME NEW S, NEW T, S \subseteq T, NEW a \in Seq(S) PROVE a \in Seq(T)
OBVIOUS

(* A sequence without its head.                                            *)
LEMMA SeqRest ==
  ASSUME NEW S, NEW a \in Seq(S), a # <<>>
  PROVE  /\ Head(a) \in S /\ Tail(a) \in Seq(S)
         /\ Len(Tail(a)) = Len(a) - 1 /\ Len(a) \in Nat
OBVIOUS

(* A datagram that was sent stays so.                                      *)
LEMMA WiredLater ==
  ASSUME NEW m, Wired(m), seq \in 0 .. MaxSeq, seq' = seq \/ seq' = seq + 1, sent \subseteq sent'
  PROVE  Wired(m)'
<1>1. \A x \in 1 .. seq : x \in 1 .. seq'
  BY Sizes
<1>2. QED
  BY <1>1 DEF Wired

(* A step of the FEC machinery alone keeps what is between.                *)
LEMMA BetweenKept ==
  ASSUME Between, Shared, seq' = seq, sent' = sent,
         UNCHANGED <<targets, wire, todo, pushed, seen>>
  PROVE  Between'
<1>1. \A m \in wire : Wired(m)'
  BY WiredLater DEF Between, Shared
<1>2. QED
  BY <1>1 DEF Between

(* Assign returns several paths in redundant mode only.                    *)
LEMMA AssignBetween == ASSUME Between, Shared, Assign PROVE Between'
<1>1. /\ targets' \in IF mode = "redundant" THEN 1 .. MaxTargets ELSE {1}
      /\ seq' = seq /\ sent' = sent /\ wire' = wire /\ todo' = todo /\ pushed' = pushed
      /\ seen' = seen
  BY DEF Assign, fecSide, buffer
<1>2. targets' \in 0 .. MaxTargets /\ (targets' > 1 => mode = "redundant")
  BY <1>1, Sizes
<1>3. \A m \in wire : Wired(m)'
  BY <1>1, WiredLater DEF Between, Shared
<1>4. QED
  BY <1>1, <1>2, <1>3 DEF Between, Shared

(* What sendData puts on the wire was sent.                                *)
LEMMA SendBetween == ASSUME Between, Shared, sendData, seq' \in 0 .. MaxSeq PROVE Between'
<1> DEFINE new == [seq |-> seq', copies |-> targets, dup |-> targets > 1, fec |-> mode = "fec"]
<1>1. /\ targets > 0 /\ targets' = 0 /\ wire' = wire \cup {new} /\ todo' = todo
      /\ pushed' = pushed /\ seen' = seen
  BY DEF sendData, buffer
<1>2. /\ seq' = seq + 1 /\ sent \subseteq sent'
      /\ mode = "fec" => F!Packet(1, seq') \in sent'
  BY DEF sendData, F!sendData, Shared
<1>3. seq' \in 1 .. seq' /\ targets \in 1 .. MaxTargets
  BY <1>1, <1>2, Sizes DEF Between, Shared
<1>4. ASSUME NEW m, m = new PROVE Wired(m)'
  <2>1. /\ m = [seq |-> m.seq, copies |-> m.copies, dup |-> m.dup, fec |-> m.fec]
        /\ m.seq = seq' /\ m.copies = targets
    BY <1>4
  <2>2. /\ m.dup \in BOOLEAN /\ m.fec \in BOOLEAN
    BY <1>4
  <2>3. (m.dup => targets > 1) /\ (m.fec => mode = "fec")
    BY <1>4, Zenon
  <2>4. (targets > 1 => "redundant" \in Modes) /\ (mode = "fec" => "fec" \in Modes)
    BY DEF Between, Shared
  <2>5. m.fec => F!Packet(1, m.seq) \in sent'
    BY <1>2, <2>1, <2>3, Zenon
  <2> HIDE DEF new
  <2>6. QED
    BY <1>3, <2>1, <2>2, <2>3, <2>4, <2>5 DEF Wired
<1>5. \A m \in wire : Wired(m)'
  BY <1>2, WiredLater DEF Between, Shared
<1>6. 1 .. seq \subseteq 1 .. seq' /\ \A s \in Seqs : s <= seq => s <= seq'
  BY <1>2, Sizes DEF Shared
<1>7. todo' \in Seq(1 .. seq')
  BY <1>1, <1>6, SeqWider, Zenon DEF Between
<1> HIDE DEF new
<1>8. \A m \in wire' : Wired(m)'
  BY <1>1, <1>4, <1>5, Zenon
<1>9. QED
  BY <1>1, <1>6, <1>7, <1>8, Sizes DEF Between

(* The reader of a datagram has its packet, and the rebuilt ones, to push. *)
LEMMA DataBetween ==
  ASSUME Between, Shared, NEW m \in wire, RecvData(m),
         Injects(IF m.fec THEN Closed(m.seq) ELSE {}, K - 1)
  PROVE  Between'
<1> DEFINE more == injectRecovered(IF m.fec THEN Closed(m.seq) ELSE {})
           left == [m EXCEPT !.copies = @ - 1]
<1>1. /\ seq' = seq /\ sent' = sent /\ targets' = targets /\ pushed' = pushed /\ seen' = seen
      /\ todo' = <<m.seq>> \o more
      /\ wire' = (wire \ {m}) \cup {c \in {left} : c.copies > 0}
  BY DEF RecvData, buffer
<1>2. more \in Seq(1 .. seq) /\ Len(more) <= K - 1
  BY DEF Injects
<1>3. Wired(m)
  BY DEF Between
<1>4. left.copies > 0 => Wired(left)
  BY <1>3, Sizes DEF Wired
<1>5. \A c \in wire' : Wired(c)
  BY <1>1, <1>4, Zenon DEF Between
<1>6. \A c \in wire' : Wired(c)'
  BY <1>1, <1>5, WiredLater DEF Shared
<1> HIDE DEF more
<1>7. <<m.seq>> \o more \in Seq(1 .. seq) /\ Len(<<m.seq>> \o more) <= K
  <2>1. <<m.seq>> \in Seq(1 .. seq) /\ Len(<<m.seq>>) = 1 /\ Len(more) \in Nat
    BY <1>2, <1>3 DEF Wired
  <2>2. Len(<<m.seq>> \o more) = 1 + Len(more)
    BY <1>2, <2>1
  <2>3. QED
    BY <1>2, <2>1, <2>2, Sizes
<1>8. QED
  BY <1>1, <1>6, <1>7 DEF Between

(* The reader of a shard has the rebuilt packets to push.                  *)
LEMMA ShardBetween ==
  ASSUME Between, Shared, NEW h, RecvParity(h),
         Injects(IF h.base \in DOMAIN groups' THEN {} ELSE {h}, K)
  PROVE  Between'
<1>1. /\ seq' = seq /\ sent' = sent /\ targets' = targets /\ pushed' = pushed /\ seen' = seen
      /\ wire' = wire
      /\ todo' = injectRecovered(IF h.base \in DOMAIN groups' THEN {} ELSE {h})
  BY DEF RecvParity, buffer
<1>2. \A m \in wire : Wired(m)'
  BY <1>1, WiredLater DEF Between, Shared
<1>3. todo' \in Seq(1 .. seq) /\ Len(todo') <= K
  BY <1>1 DEF Injects
<1>4. QED
  BY <1>1, <1>2, <1>3 DEF Between

(* A packet that is pushed was sent.                                       *)
LEMMA PushBetween == ASSUME Between, Shared, Push PROVE Between' /\ Head(todo) \in Seqs
<1> DEFINE s == Head(todo)
<1>1. /\ todo # <<>> /\ todo' = Tail(todo) /\ seq' = seq /\ sent' = sent
      /\ targets' = targets /\ wire' = wire
      /\ pushed' = [pushed EXCEPT ![s] = @ + 1] /\ seen' = R!Checked(seen, s)
  BY DEF Push, fecSide, R!Push, R!markSeen
<1>2. /\ s \in 1 .. seq /\ Tail(todo) \in Seq(1 .. seq)
      /\ Len(Tail(todo)) = Len(todo) - 1 /\ Len(todo) \in Nat
  BY <1>1, SeqRest, Zenon DEF Between
<1>3. s \in Seqs /\ s \in 0 .. MaxSeq
  BY <1>2, Sizes DEF Shared
<1>4. \A m \in wire : Wired(m)'
  BY <1>1, WiredLater DEF Between, Shared
<1> HIDE DEF s
<1>5. \A x \in Seqs : pushed'[x] > 0 => x <= seq
  <2>1. s <= seq
    BY <1>2 DEF Shared
  <2>2. QED
    BY <1>1, <1>3, <2>1 DEF Between, Shared
<1>6. seen'.highest \in 0 .. MaxSeq
  BY <1>1, <1>3 DEF Between, R!Checked
<1>7. Len(todo') <= K
  BY <1>1, <1>2, Sizes DEF Between
<1>8. Between'
  BY <1>1, <1>2, <1>4, <1>5, <1>6, <1>7 DEF Between
<1>9. QED
  BY <1>3, <1>8 DEF s

(* The mirrored mode is one that the client was in, or bonding.            *)
LEMMA DataMirror ==
  ASSUME Between, Mirror, NEW m \in wire, RecvData(m)
  PROVE  Mirror'
<1>1. Wired(m)
  BY DEF Between
<1>2. /\ dupSeen' = (m.dup \/ dupSeen) /\ fecSeen' = (m.fec \/ fecSeen) /\ revert' = revert
      /\ smode' = IF m.fec THEN "fec" ELSE IF m.dup THEN "redundant" ELSE smode
  BY DEF RecvData, Mirrored
<1>3. smode' \in Modes \cup {"bonding"}
  BY <1>1, <1>2 DEF Mirror, Wired
<1>4. dupSeen' \in BOOLEAN /\ fecSeen' \in BOOLEAN /\ revert' \in BOOLEAN
  BY <1>1, <1>2, Zenon DEF Mirror, Wired
<1>5. QED
  BY <1>3, <1>4 DEF Mirror

(* Every step keeps what is between the components, if what it rebuilds    *)
(* was sent.                                                               *)
LEMMA BetweenNext ==
  ASSUME Between, Mirror, Shared, seq' \in 0 .. MaxSeq, [Next]_vars,
         \A m \in wire : RecvData(m) => Injects(IF m.fec THEN Closed(m.seq) ELSE {}, K - 1),
         \A h \in shards \ got :
           RecvParity(h) => Injects(IF h.base \in DOMAIN groups' THEN {} ELSE {h}, K)
  PROVE  Between' /\ Mirror'
<1>1. ASSUME Assign PROVE Between' /\ Mirror'
  BY <1>1, AssignBetween DEF Assign, mirror, Mirror
<1>2. ASSUME sendData PROVE Between' /\ Mirror'
  BY <1>2, SendBetween DEF sendData, mirror, Mirror
<1>3. ASSUME NEW m \in wire, RecvData(m) PROVE Between' /\ Mirror'
  BY <1>3, DataBetween, DataMirror, Zenon
<1>4. ASSUME NEW h \in shards \ got, RecvParity(h) PROVE Between' /\ Mirror'
  <2>1. Between'
    BY <1>4, ShardBetween, Zenon
  <2>2. Mirror'
    BY <1>4 DEF RecvParity, mirror, Mirror
  <2>3. QED
    BY <2>1, <2>2
<1>5. ASSUME Push PROVE Between' /\ Mirror'
  BY <1>5, PushBetween DEF Push, mirror, Mirror
<1>6. ASSUME FlushGroup \/ SetMode PROVE Between' /\ Mirror'
  <2>1. /\ seq' = seq /\ sent' = sent /\ UNCHANGED <<targets, wire, todo, pushed, seen>>
        /\ UNCHANGED mirror
    BY <1>6 DEF FlushGroup, SetMode, F!FlushExpired, F!SetMode, buffer
  <2>2. QED
    BY <2>1, BetweenKept, Zenon DEF mirror, Mirror
<1>7. ASSUME FlushGap \/ Tick PROVE Between' /\ Mirror'
  <2>1. /\ seq' = seq /\ sent' = sent /\ UNCHANGED <<targets, wire, todo, pushed, seen>>
        /\ UNCHANGED mirror
    BY <1>7 DEF FlushGap, Tick, R!FlushExpired, R!Tick, fecSide
  <2>2. QED
    BY <2>1, BetweenKept DEF mirror, Mirror
<1>8. ASSUME Elapse \/ MirrorEnds \/ Revert \/ UNCHANGED vars PROVE Between' /\ Mirror'
  <2>1. seq' = seq /\ sent' = sent /\ UNCHANGED <<targets, wire, todo, pushed, seen>>
    BY <1>8, Zenon DEF Elapse, MirrorEnds, Revert, vars, fecSide, buffer
  <2>2. Mirror'
    BY <1>8, Zenon DEF Elapse, MirrorEnds, Revert, vars, mirror, Mirror
  <2>3. QED
    BY <2>1, <2>2, BetweenKept
<1>9. QED
  BY <1>1, <1>2, <1>3, <1>4, <1>5, <1>6, <1>7, <1>8, Zenon DEF Next

-----------------------------------------------------------------------------
(* The rebuilt packets that the reader gets.                               *)

(* T has at most n packets, all of them sent.                              *)
Few(T, n) == T \subseteq 1 .. seq /\ IsFiniteSet(T) /\ Cardinality(T) <= n

(* The decoder's groups are disjoint and consist of packets that were sent.*)
Grouped ==
  \A b \in DOMAIN groups :
    /\ groups[b].base \in Nat /\ groups[b].k \in 1 .. K
    /\ F!Members(groups[b]) \subseteq 1 .. seq
    /\ \A c \in DOMAIN groups :
         c # b => F!Members(groups[b]) \cap F!Members(groups[c]) = {}

(* The packets of a group are as many as its k.                            *)
LEMMA GroupSize ==
  ASSUME NEW g, g.base \in Nat, g.k \in 1 .. K
  PROVE  /\ IsFiniteSet(F!Members(g)) /\ Cardinality(F!Members(g)) \in Nat
         /\ Cardinality(F!Members(g)) <= K
<1> DEFINE a == g.base
           z == g.base + g.k - 1
<1>1. a \in Int /\ z \in Int /\ z - a + 1 = g.k /\ ~(a > z) /\ g.k \in Nat /\ g.k <= K
  BY Sizes
<1>2. IsFiniteSet(a .. z) /\ Cardinality(a .. z) = IF a > z THEN 0 ELSE z - a + 1
  BY <1>1, FS_Interval, Zenon
<1>3. F!Members(g) = a .. z
  BY DEF F!Members
<1> HIDE DEF a, z
<1>4. QED
  BY <1>1, <1>2, <1>3

(* A data packet completes one group, of which it is not missing.          *)
LEMMA ClosedSet ==
  ASSUME Grouped, NEW s, F!Holds(ring', s)
  PROVE  Few(UNION {F!Missing(ring', g) : g \in Closed(s)}, K - 1)
<1> DEFINE T == UNION {F!Missing(ring', g) : g \in Closed(s)}
<1>1. CASE Closed(s) = {}
  <2>1. T = {}
    BY <1>1
  <2>2. IsFiniteSet({}) /\ Cardinality({}) = 0
    BY FS_EmptySet
  <2> HIDE DEF T
  <2>3. T \subseteq 1 .. seq /\ IsFiniteSet(T) /\ Cardinality(T) <= K - 1
    BY <2>1, <2>2, Sizes
  <2>4. QED
    BY <2>3, Zenon DEF T, Few
<1>2. CASE Closed(s) # {}
  <2>1. PICK b \in DOMAIN groups : groups[b] \in Closed(s)
    BY <1>2 DEF Closed, Range
  <2> DEFINE M == F!Members(groups[b])
  <2>2. s \in M
    BY <2>1 DEF Closed
  <2>3. \A g \in Closed(s) : g = groups[b]
    <3>1. ASSUME NEW c \in DOMAIN groups, s \in F!Members(groups[c]) PROVE c = b
      BY <2>2, <3>1 DEF Grouped
    <3>2. QED
      BY <3>1 DEF Closed, Range
  <2>4. T \subseteq M \ {s}
    BY <2>3 DEF F!Missing
  <2>5. /\ IsFiniteSet(M) /\ Cardinality(M) \in Nat /\ Cardinality(M) <= K /\ M \subseteq 1 .. seq
    BY GroupSize DEF Grouped
  <2> HIDE DEF M, T
  <2>6. IsFiniteSet(M \ {s}) /\ Cardinality(M \ {s}) = Cardinality(M) - 1
    BY <2>2, <2>5, FS_RemoveElement
  <2>7. IsFiniteSet(T) /\ Cardinality(T) <= Cardinality(M \ {s}) /\ Cardinality(T) \in Nat
    BY <2>4, <2>6, FS_Subset, FS_CardinalityType
  <2>8. T \subseteq 1 .. seq /\ IsFiniteSet(T) /\ Cardinality(T) <= K - 1
    BY <2>4, <2>5, <2>6, <2>7, Sizes
  <2>9. QED
    BY <2>8, Zenon DEF T, Few
<1>3. QED
  BY <1>1, <1>2

(* A shard completes its own group.                                        *)
LEMMA ShardSet ==
  ASSUME NEW h, h.base \in Nat, h.k \in 1 .. K, F!Members(h) \subseteq 1 .. seq,
         NEW gs \in {{}, {h}}
  PROVE  Few(UNION {F!Missing(ring', g) : g \in gs}, K)
<1> DEFINE T == UNION {F!Missing(ring', g) : g \in gs}
<1>1. T \subseteq F!Members(h)
  BY DEF F!Missing
<1>2. /\ IsFiniteSet(F!Members(h)) /\ Cardinality(F!Members(h)) \in Nat
      /\ Cardinality(F!Members(h)) <= K
  BY GroupSize
<1> HIDE DEF T
<1>3. IsFiniteSet(T) /\ Cardinality(T) <= Cardinality(F!Members(h)) /\ Cardinality(T) \in Nat
  BY <1>1, <1>2, FS_Subset, FS_CardinalityType
<1>4. T \subseteq 1 .. seq /\ IsFiniteSet(T) /\ Cardinality(T) <= K
  BY <1>1, <1>2, <1>3, Sizes
<1>5. QED
  BY <1>4, Zenon DEF T, Few

(* A step of the session is taken by one process.                          *)
LEMMA RunKept == ASSUME [Next]_vars PROVE run' = run
<1>1. ASSUME sendData \/ FlushGroup \/ SetMode PROVE run' = run
  BY <1>1 DEF sendData, FlushGroup, SetMode, F!sendData, F!FlushExpired, F!SetMode
<1>2. ASSUME NEW m, RecvData(m) PROVE run' = run
  BY <1>2 DEF RecvData
<1>3. ASSUME NEW h, RecvParity(h) PROVE run' = run
  BY <1>3 DEF RecvParity
<1>4. ASSUME Assign \/ Push \/ FlushGap \/ Tick \/ Elapse \/ MirrorEnds \/ Revert \/ UNCHANGED vars
      PROVE  run' = run
  BY <1>4, Zenon DEF Assign, Push, FlushGap, Tick, Elapse, MirrorEnds, Revert, vars, fecSide
<1>5. QED
  BY <1>1, <1>2, <1>3, <1>4, Zenon DEF Next

(* A step of the session is a step, or no step, of the buffer.             *)
LEMMA BufferStep ==
  ASSUME Between, Shared, [Next]_vars
  PROVE  R!Next \/ UNCHANGED R!vars
<1>1. ASSUME UNCHANGED buffer PROVE UNCHANGED R!vars
  BY <1>1, Zenon DEF buffer, R!vars
<1>2. ASSUME Assign \/ sendData \/ FlushGroup \/ SetMode \/ Elapse \/ MirrorEnds \/ Revert
              \/ UNCHANGED vars
      PROVE  UNCHANGED buffer
  BY <1>2 DEF Assign, sendData, FlushGroup, SetMode, Elapse, MirrorEnds, Revert, vars
<1>3. ASSUME NEW m, RecvData(m) PROVE UNCHANGED buffer
  BY <1>3 DEF RecvData
<1>4. ASSUME NEW h, RecvParity(h) PROVE UNCHANGED buffer
  BY <1>4, Zenon DEF RecvParity
<1>5. ASSUME Push PROVE R!Next
  <2>1. Head(todo) \in Seqs
    BY <1>5, PushBetween, Zenon
  <2>2. QED
    BY <1>5, <2>1, Zenon DEF Push, R!Next
<1>6. ASSUME FlushGap \/ Tick PROVE R!Next
  BY <1>6, Zenon DEF FlushGap, Tick, R!Next
<1>7. QED
  BY <1>1, <1>2, <1>3, <1>4, <1>5, <1>6, Zenon DEF Next

-----------------------------------------------------------------------------
(* What the invariants of FEC and of the buffer say of a session.          *)

(* One process sends, and what the decoder knows was sent.                 *)
Fecwise ==
  /\ run = 1 /\ seq \in 0 .. MaxSeq /\ highest \in 0 .. MaxSeq /\ mode \in Modes
  /\ DOMAIN ring = 0 .. Ring - 1
  /\ \A h \in shards : /\ h.base \in Nat \ {0} /\ h.k \in 1 .. K
                       /\ F!Members(h) \subseteq 1 .. seq
  /\ Grouped

(* The accounts of the buffer have their types.                            *)
Buffered == pushed \in [Seqs -> Nat] /\ seen \in R!Windows

(* InOrder lists a finite set.                                             *)
Listing ==
  \A T \in SUBSET Nat :
    IsFiniteSet(T) => R!InOrder(T) \in Seq(T) /\ Len(R!InOrder(T)) = Cardinality(T)

(* A packet is emitted at most once, and only after it was pushed.         *)
EmittedOnce == \A s \in Seqs : emitted[s] <= 1 /\ (emitted[s] > 0 => pushed[s] > 0)

(* A new session is a new encoder, decoder and buffer, with nothing between*)
(* them.                                                                   *)
LEMMA InitParts == ASSUME Init PROVE F!Init /\ R!Init /\ run = 1 /\ Between /\ Mirror
<1>1. F!Init /\ R!Init
  BY Zenon DEF Init, F!Init
<1>2. run = 1 /\ seq = 0 /\ pushed = [s \in Seqs |-> 0] /\ seen.highest = 0
  BY <1>1 DEF F!Init, F!New, R!Init, R!NewWindow
<1>3. Between
  BY <1>2, Sizes DEF Init, Between
<1>4. Mirror
  BY Zenon DEF Init, Mirror
<1>5. QED
  BY <1>1, <1>2, <1>3, <1>4

(* The arrival of a packet is one at the decoder if the packet is under    *)
(* FEC.                                                                    *)
LEMMA DataStep ==
  ASSUME Fecwise, Between, NEW m \in wire, RecvData(m)
  PROVE  F!RecvData \/ UNCHANGED F!vars
<1>1. Wired(m)
  BY DEF Between
<1>2. CASE m.fec
  <2> DEFINE d == F!Packet(1, m.seq)
  <2>1. d \in sent /\ m.seq \in 1 .. seq
    BY <1>1, <1>2, Zenon DEF Wired
  <2>2. /\ arrived' = arrived \cup {d} /\ F!AddData(d)
        /\ UNCHANGED <<run, seq, mode, switches, enc, sent, shards, got>>
    BY <1>2, Zenon DEF RecvData, Fecwise
  <2>3. d.seq = m.seq
    BY DEF F!Packet
  <2>4. d.seq + MaxLag > highest
    BY <2>1, <2>3, Sizes DEF Fecwise
  <2> HIDE DEF d
  <2>5. UNCHANGED <<F!sender, got>>
    BY <2>2, Zenon DEF F!sender
  <2>6. QED
    BY <2>1, <2>2, <2>4, <2>5, Zenon DEF F!RecvData
<1>3. CASE ~m.fec
  BY <1>3 DEF RecvData, decoder, F!vars, F!sender
<1>4. QED
  BY <1>2, <1>3

(* The arrival of a shard is one at the decoder.                           *)
LEMMA ParityStep ==
  ASSUME Fecwise, NEW h \in shards \ got, RecvParity(h)
  PROVE  F!RecvParity
<1>1. /\ got' = got \cup {h} /\ F!AddParity(h)
      /\ UNCHANGED <<run, seq, mode, switches, enc, sent, shards, arrived>>
  BY Zenon DEF RecvParity
<1>2. h.base + MaxLag > highest
  BY Sizes DEF Fecwise
<1>3. UNCHANGED <<F!sender, arrived>>
  BY <1>1, Zenon DEF F!sender
<1>4. QED
  BY <1>1, <1>2, <1>3, Zenon DEF F!RecvParity

(* A step of the session is a step, or no step, of the encoder and decoder.*)
LEMMA FecStep ==
  ASSUME Fecwise, Between, [Next]_vars
  PROVE  F!Next \/ UNCHANGED F!vars
<1>1. ASSUME UNCHANGED fecSide PROVE UNCHANGED F!vars
  BY <1>1, Zenon DEF fecSide, F!vars, F!sender
<1>2. ASSUME sendData \/ FlushGroup \/ SetMode PROVE F!Next
  BY <1>2, Zenon DEF sendData, FlushGroup, SetMode, F!Next
<1>3. ASSUME NEW m \in wire, RecvData(m) PROVE F!Next \/ UNCHANGED F!vars
  BY <1>3, DataStep, Zenon DEF F!Next
<1>4. ASSUME NEW h \in shards \ got, RecvParity(h) PROVE F!Next
  BY <1>4, ParityStep, Zenon DEF F!Next
<1>5. ASSUME Assign \/ Push \/ FlushGap \/ Tick \/ Elapse \/ MirrorEnds \/ Revert \/ UNCHANGED vars
      PROVE  UNCHANGED fecSide
  BY <1>5 DEF Assign, Push, FlushGap, Tick, Elapse, MirrorEnds, Revert, vars
<1>6. QED
  BY <1>1, <1>2, <1>3, <1>4, <1>5, Zenon DEF Next

(* Every step of the session is one, or none, of each of the components.   *)
LEMMA ComponentSteps ==
  ASSUME Fecwise, Buffered, Between, [Next]_vars
  PROVE  [F!Next]_(F!vars) /\ [R!Next]_(R!vars) /\ run' = 1
<1>1. Shared
  BY Zenon DEF Fecwise, Buffered, Shared
<1>2. run' = 1
  BY RunKept DEF Fecwise
<1>3. QED
  BY <1>1, <1>2, FecStep, BufferStep, Zenon

(* A few packets, listed.                                                  *)
LEMMA FewListed ==
  ASSUME Listing, NEW T, NEW n \in Int, Few(T, n)
  PROVE  R!InOrder(T) \in Seq(1 .. seq) /\ Len(R!InOrder(T)) <= n
<1>1. T \subseteq 1 .. seq /\ IsFiniteSet(T) /\ Cardinality(T) <= n
  BY Zenon DEF Few
<1>2. T \in SUBSET Nat
  BY <1>1
<1>3. R!InOrder(T) \in Seq(T) /\ Len(R!InOrder(T)) <= n
  BY <1>1, <1>2, Zenon DEF Listing
<1>4. QED
  BY <1>1, <1>3, SeqWider, Zenon

(* What the reader of a datagram gets from the decoder.                    *)
LEMMA DataRebuilds ==
  ASSUME Listing, Fecwise, Between, NEW m \in wire, RecvData(m)
  PROVE  Injects(IF m.fec THEN Closed(m.seq) ELSE {}, K - 1)
<1>1. Wired(m)
  BY DEF Between
<1>2. Few(UNION {F!Missing(ring', g) : g \in IF m.fec THEN Closed(m.seq) ELSE {}}, K - 1)
  <2>1. CASE m.fec
    <3>1. ring' = [ring EXCEPT ![F!Packet(run, m.seq).seq % Ring] = F!Packet(run, m.seq)]
      BY <2>1, Zenon DEF RecvData, F!AddData
    <3>2. F!Packet(run, m.seq).seq = m.seq
      BY DEF F!Packet
    <3>3. m.seq % Ring \in DOMAIN ring
      BY <1>1, Sizes DEF Wired, Fecwise
    <3>4. ring'[m.seq % Ring] = F!Packet(run, m.seq)
      BY <3>1, <3>2, <3>3, Zenon
    <3>5. F!Holds(ring', m.seq)
      BY <3>2, <3>4, Zenon DEF F!Holds
    <3>6. Few(UNION {F!Missing(ring', g) : g \in Closed(m.seq)}, K - 1)
      BY <3>5, ClosedSet, Zenon DEF Fecwise
    <3>7. QED
      BY <2>1, <3>6, Zenon
  <2>2. CASE ~m.fec
    <3>1. UNION {F!Missing(ring', g) : g \in {}} = {}
      BY Zenon
    <3>2. IsFiniteSet({}) /\ Cardinality({}) = 0 /\ 0 <= K - 1
      BY FS_EmptySet, Sizes
    <3>3. Few({}, K - 1)
      BY <3>2, Zenon DEF Few
    <3>4. QED
      BY <2>2, <3>1, <3>3, Zenon
  <2>3. QED
    BY <2>1, <2>2, Zenon
<1>3. K - 1 \in Int
  BY Sizes
<1>4. QED
  BY <1>2, <1>3, FewListed, Zenon DEF Injects, injectRecovered

(* What the reader of a shard gets.                                        *)
LEMMA ShardRebuilds ==
  ASSUME Listing, Fecwise, NEW h \in shards
  PROVE  Injects(IF h.base \in DOMAIN groups' THEN {} ELSE {h}, K)
<1>1. h.base \in Nat /\ h.k \in 1 .. K /\ F!Members(h) \subseteq 1 .. seq
  BY DEF Fecwise
<1>2. (IF h.base \in DOMAIN groups' THEN {} ELSE {h}) \in {{}, {h}}
  BY Zenon
<1>3. Few(UNION {F!Missing(ring', g) : g \in IF h.base \in DOMAIN groups' THEN {} ELSE {h}}, K)
  BY <1>1, <1>2, ShardSet, Zenon
<1>4. K \in Int
  BY Sizes
<1>5. QED
  BY <1>3, <1>4, FewListed, Zenon DEF Injects, injectRecovered

(* Every step keeps what is between the components.                        *)
LEMMA BetweenSteps ==
  ASSUME Listing, Fecwise, Fecwise', Buffered, Between, Mirror, [Next]_vars
  PROVE  Between' /\ Mirror'
<1>1. Shared /\ seq' \in 0 .. MaxSeq
  BY Zenon DEF Fecwise, Buffered, Shared
<1>2. ASSUME NEW m \in wire, RecvData(m)
      PROVE  Injects(IF m.fec THEN Closed(m.seq) ELSE {}, K - 1)
  BY <1>2, DataRebuilds, Zenon
<1>3. ASSUME NEW h \in shards \ got
      PROVE  Injects(IF h.base \in DOMAIN groups' THEN {} ELSE {h}, K)
  BY ShardRebuilds, Zenon
<1>4. QED
  BY <1>1, <1>2, <1>3, BetweenNext, Zenon

(* What is between the components has its type, and what the buffer emits  *)
(* was sent.                                                               *)
LEMMA EmittedMeansDelivered ==
  ASSUME Fecwise, Between, Mirror, EmittedOnce
  PROVE  DeliveredOnce
<1>1. 1 .. seq \subseteq Seqs
  BY Sizes DEF Fecwise
<1>2. todo \in Seq(Seqs) /\ Len(todo) <= K
  BY <1>1, SeqWider, Zenon DEF Between
<1>3. wire \subseteq [seq : Seqs, copies : 1 .. MaxTargets, dup : BOOLEAN, fec : BOOLEAN]
  BY <1>1 DEF Between, Wired
<1>4. TypeOK
  BY <1>2, <1>3, Zenon DEF TypeOK, Between, Mirror, Fecwise
<1>5. QED
  BY <1>4, Zenon DEF DeliveredOnce, EmittedOnce, Between

(* Every copy comes to the buffer while its duplicate filter remembers the *)
(* packet: it is not further behind the newest one than the filter's span, *)
(* of which the newest block is not full.                                  *)
InTime ==
  \A s \in Seqs : pushed'[s] > pushed[s] => seen.highest - s <= R!WindowSize - BlockBits

(* In a session that is not longer than the span every copy does.          *)
LEMMA ShortIsInTime ==
  ASSUME MaxSeq <= R!WindowSize - BlockBits, Between
  PROVE  InTime
<1>1. BlockBits \in Nat /\ NumBlocks \in Nat
  BY SessionAssumption DEF R!BitmapAssumption
<1>2. R!WindowSize \in Nat
  BY <1>1 DEF R!WindowSize
<1>3. \A s \in Seqs : seen.highest - s <= R!WindowSize - BlockBits
  BY <1>1, <1>2, Sizes DEF Between
<1>4. QED
  BY <1>3, Zenon DEF InTime

-----------------------------------------------------------------------------
(* The reorder buffer within the session.  R and RP have the same          *)
(* definitions.                                                            *)
RP == INSTANCE ReorderProofs

(* The buffer's assumptions on its sizes.                                  *)
LEMMA BufferSizes == RP!BitmapAssumption /\ RP!ReorderAssumption
  BY SessionAssumption DEF R!BitmapAssumption, RP!BitmapAssumption,
     R!ReorderAssumption, RP!ReorderAssumption

(* The start and the steps of the buffer.                                  *)
LEMMA SameBuffer == (R!Init <=> RP!Init) /\ (R!Next <=> RP!Next) /\ R!vars = RP!vars
<1>1. ASSUME NEW b, NEW t
      PROVE  R!drainLocked(b, t) = RP!drainLocked(b, t)
  BY ZenonT(60) DEF R!drainLocked, RP!drainLocked, R!RunEnd, RP!RunEnd, R!Holds, RP!Holds,
     R!Index, RP!Index, R!Indices, RP!Indices, R!Removed, RP!Removed, R!Free, RP!Free,
     R!NoDeadline, RP!NoDeadline, R!InOrder, RP!InOrder, R!Cardinality, RP!Cardinality,
     R!IsFiniteSet, RP!IsFiniteSet
<1>2. ASSUME NEW b, NEW t
      PROVE  R!skipGapLocked(b, t) = RP!skipGapLocked(b, t)
  <2>1. /\ R!HeldSeqs(b) = RP!HeldSeqs(b) /\ R!Least(R!HeldSeqs(b)) = RP!Least(RP!HeldSeqs(b))
        /\ R!NoDeadline = RP!NoDeadline
    BY ZenonT(60) DEF R!HeldSeqs, RP!HeldSeqs, R!Indices, RP!Indices, R!Free, RP!Free,
       R!Least, RP!Least, R!NoDeadline, RP!NoDeadline
  <2>2. QED
    BY <1>1, <2>1, ZenonT(60) DEF R!skipGapLocked, RP!skipGapLocked
<1>3. ASSUME NEW b, NEW s
      PROVE  R!advanceTo(b, s) = RP!advanceTo(b, s)
  BY ZenonT(60) DEF R!advanceTo, RP!advanceTo, R!Below, RP!Below, R!HeldSeqs, RP!HeldSeqs,
     R!Holds, RP!Holds, R!Index, RP!Index, R!Indices, RP!Indices, R!Removed, RP!Removed,
     R!Free, RP!Free, R!NoDeadline, RP!NoDeadline, R!InOrder, RP!InOrder,
     R!Cardinality, RP!Cardinality, R!IsFiniteSet, RP!IsFiniteSet
<1>4. ASSUME NEW b, NEW s, NEW t
      PROVE  R!hold(b, s, t) = RP!hold(b, s, t)
  BY <1>2, ZenonT(60) DEF R!hold, RP!hold, R!Index, RP!Index, R!Free, RP!Free,
     R!NoDeadline, RP!NoDeadline
<1>5. ASSUME NEW b, NEW s, NEW t
      PROVE  R!accept(b, s, t) = RP!accept(b, s, t)
  BY <1>1, <1>3, <1>4, ZenonT(60) DEF R!accept, RP!accept
<1>6. ASSUME NEW w, NEW s
      PROVE  (R!Fresh(w, s) <=> RP!Fresh(w, s)) /\ R!Checked(w, s) = RP!Checked(w, s)
  BY ZenonT(60) DEF R!Fresh, RP!Fresh, R!Checked, RP!Checked, R!Marked, RP!Marked, R!Mark, RP!Mark,
     R!Moved, RP!Moved, R!Advance, RP!Advance, R!Skipped, RP!Skipped, R!TooOld, RP!TooOld,
     R!Slots, RP!Slots, R!WindowSize, RP!WindowSize, R!Slot, RP!Slot, R!Block, RP!Block,
     R!Bit, RP!Bit
<1>7. QED
  BY <1>2, <1>5, <1>6, ZenonT(60) DEF R!Init, RP!Init, R!Next, RP!Next, R!vars, RP!vars,
     R!Free, RP!Free, R!Indices, RP!Indices, R!NoDeadline, RP!NoDeadline, R!NewWindow, RP!NewWindow,
     R!Slots, RP!Slots, R!Push, RP!Push, R!markSeen, RP!markSeen,
     R!Account, RP!Account, R!Count, RP!Count, R!Idle, RP!Idle,
     R!FlushExpired, RP!FlushExpired, R!Tick, RP!Tick,
     R!Cardinality, RP!Cardinality, R!IsFiniteSet, RP!IsFiniteSet

(* The buffer's invariant holds at the start,                              *)
LEMMA BufferStart == ASSUME R!Init PROVE RP!IInv /\ RP!Once
  BY SameBuffer, BufferSizes, RP!InitInv, RP!InitOnce

(* is kept by its steps,                                                   *)
LEMMA BufferKept == ASSUME RP!IInv, [R!Next]_(R!vars) PROVE RP!IInv'
  BY SameBuffer, BufferSizes, RP!NextIInv DEF R!vars, RP!vars

(* and says this of a session.                                             *)
LEMMA BufferSays == RP!IInv => Buffered
  BY Zenon DEF RP!IInv, Buffered, RP!Windows, R!Windows, RP!Slots, R!Slots, RP!Bits, R!Bits

(* Copies that come in time are emitted once.                              *)
LEMMA OnceKept ==
  ASSUME RP!IInv, RP!Once, [R!Next]_(R!vars), [InTime]_vars
  PROVE  RP!Once'
<1>1. [RP!Timely]_(RP!vars)
  BY Zenon DEF InTime, vars, buffer, RP!Timely, RP!vars, R!WindowSize, RP!WindowSize
<1>2. QED
  BY <1>1, SameBuffer, BufferSizes, RP!NextOnce DEF R!vars, RP!vars

(* The buffer's helper lists a finite set.                                 *)
LEMMA ListingHolds == Listing
<1>1. ASSUME NEW T \in SUBSET Nat, IsFiniteSet(T)
      PROVE  R!InOrder(T) \in Seq(T) /\ Len(R!InOrder(T)) = Cardinality(T)
  <2>1. RP!IsFiniteSet(T) /\ RP!Cardinality(T) = Cardinality(T) /\ R!InOrder(T) = RP!InOrder(T)
    BY <1>1 DEF RP!IsFiniteSet, IsFiniteSet, RP!Cardinality, Cardinality,
       R!InOrder, RP!InOrder, R!Cardinality, R!IsFiniteSet
  <2>2. QED
    BY <2>1, BufferSizes, RP!InOrderLists
<1>2. QED
  BY <1>1 DEF Listing

-----------------------------------------------------------------------------
(* FEC within the session.  F and FP have the same definitions.            *)
FP == INSTANCE FecProofs

(* FEC's assumption on its sizes.                                          *)
LEMMA FecSizes == FP!FecAssumption
  BY SessionAssumption DEF F!FecAssumption, FP!FecAssumption

(* The start and the steps of FEC.                                         *)
LEMMA SameFec == (F!Init <=> FP!Init) /\ (F!Next <=> FP!Next) /\ F!vars = FP!vars
<1>1. ASSUME NEW rg, NEW gs, NEW b
      PROVE  F!tryReconstruct(rg, gs, b) <=> FP!tryReconstruct(rg, gs, b)
  BY ZenonT(60) DEF F!tryReconstruct, FP!tryReconstruct, F!Missing, FP!Missing,
     F!Holds, FP!Holds, F!Members, FP!Members, F!Rebuilt, FP!Rebuilt,
     F!InnerIPLen, FP!InnerIPLen, F!Garbage, FP!Garbage, F!Packet, FP!Packet,
     F!Without, FP!Without, F!Restrict, FP!Restrict,
     F!Cardinality, FP!Cardinality, F!IsFiniteSet, FP!IsFiniteSet
<1>2. ASSUME NEW b PROVE F!Evicted(b) = FP!Evicted(b)
  BY ZenonT(60) DEF F!Evicted, FP!Evicted, F!Least, FP!Least,
     F!Cardinality, FP!Cardinality, F!IsFiniteSet, FP!IsFiniteSet
<1>3. ASSUME NEW d PROVE F!AddData(d) <=> FP!AddData(d)
  BY <1>1, ZenonT(60) DEF F!AddData, FP!AddData, F!Without, FP!Without,
     F!Restrict, FP!Restrict, F!Expired, FP!Expired, F!Floor, FP!Floor,
     F!Members, FP!Members, F!Cardinality, FP!Cardinality, F!IsFiniteSet, FP!IsFiniteSet
<1>4. ASSUME NEW h PROVE F!AddParity(h) <=> FP!AddParity(h)
  BY <1>1, <1>2, ZenonT(60) DEF F!AddParity, FP!AddParity, F!Adding, FP!Adding,
     F!Without, FP!Without, F!Restrict, FP!Restrict,
     F!Cardinality, FP!Cardinality, F!IsFiniteSet, FP!IsFiniteSet
<1>5. (F!sendData <=> FP!sendData) /\ (F!FlushExpired <=> FP!FlushExpired)
  BY ZenonT(60) DEF F!sendData, FP!sendData, F!FlushExpired, FP!FlushExpired, F!Add, FP!Add,
     F!Packet, FP!Packet, F!flushLocked, FP!flushLocked, F!Parities, FP!Parities,
     F!parityCount, FP!parityCount, F!Least, FP!Least,
     F!Cardinality, FP!Cardinality, F!IsFiniteSet, FP!IsFiniteSet
<1>6. QED
  BY <1>3, <1>4, <1>5, ZenonT(60) DEF F!Init, FP!Init, F!New, FP!New, F!NoPacket, FP!NoPacket,
     F!Packet, FP!Packet, F!Next, FP!Next, F!vars, FP!vars, F!sender, FP!sender,
     F!SetMode, FP!SetMode, F!Restart, FP!Restart, F!RecvData, FP!RecvData,
     F!RecvParity, FP!RecvParity, F!Cardinality, FP!Cardinality, F!IsFiniteSet, FP!IsFiniteSet

(* FEC's invariant holds at the start,                                     *)
LEMMA FecStart == ASSUME F!Init PROVE FP!IInv
  BY SameFec, FecSizes, FP!InitIInv

(* is kept by its steps,                                                   *)
LEMMA FecKept == ASSUME FP!IInv, [F!Next]_(F!vars) PROVE FP!IInv'
  BY SameFec, FecSizes, FP!NextIInv DEF F!vars, FP!vars, F!sender, FP!sender

(* and says this of a session.                                             *)
LEMMA FecSays == FP!IInv /\ run = 1 => Fecwise
  BY FecSizes, FP!OneProcess, Zenon DEF Fecwise, Grouped, F!Members, FP!Members

-----------------------------------------------------------------------------
(* The invariant of the session: the components' invariants, one process,  *)
(* and what is between them.                                               *)
SInv == FP!IInv /\ RP!IInv /\ run = 1 /\ Between /\ Mirror

(* It holds of a new session.                                              *)
LEMMA InitSInv == Init => SInv /\ RP!Once
  BY InitParts, FecStart, BufferStart DEF SInv

(* What it says, and what it says of the steps.                            *)
LEMMA SInvSays == SInv => Fecwise /\ Buffered
  BY FecSays, BufferSays DEF SInv

LEMMA SInvSteps ==
  ASSUME SInv, [Next]_vars
  PROVE  [F!Next]_(F!vars) /\ [R!Next]_(R!vars) /\ run' = 1
  BY SInvSays, ComponentSteps DEF SInv

(* Every step keeps it.                                                    *)
LEMMA NextSInv == SInv /\ [Next]_vars => SInv'
<1> SUFFICES ASSUME SInv, [Next]_vars PROVE SInv'
  OBVIOUS
<1>1. FP!IInv' /\ RP!IInv' /\ run' = 1
  BY SInvSteps, FecKept, BufferKept DEF SInv
<1>2. (FP!IInv /\ run = 1 => Fecwise)'
  BY FecSays, PTL
<1>3. Between' /\ Mirror'
  BY <1>1, <1>2, SInvSays, ListingHolds, BetweenSteps DEF SInv
<1>4. QED
  BY <1>1, <1>3 DEF SInv

(* It holds throughout.                                                    *)
LEMMA SInvHolds == Spec => []SInv
  BY InitSInv, NextSInv, PTL DEF Spec

-----------------------------------------------------------------------------
(* For every session: seen from FEC, it is a run of the encoder and the    *)
(* decoder of Fec between which packets and shards are lost, delayed and   *)
(* reordered; seen from the buffer, it is a run of Reorder.  Whatever is   *)
(* proved of the two holds within a session.                               *)
THEOREM SessionComposes == Spec => F!Spec /\ R!Spec
<1>1. Init => F!Init /\ R!Init
  BY InitParts
<1>2. SInv /\ [Next]_vars => [F!Next]_(F!vars) /\ [R!Next]_(R!vars)
  BY SInvSteps
<1>3. QED
  BY <1>1, <1>2, SInvHolds, PTL DEF Spec, F!Spec, R!Spec

(* For every session, whatever is lost, delayed and rebuilt: as long as no *)
(* copy comes later than the duplicate filter remembers, an inner packet   *)
(* is delivered at most once.                                              *)
THEOREM TimelyDeliveredOnce == Spec /\ [][InTime]_vars => []DeliveredOnce
<1>1. SInv /\ RP!Once /\ [Next]_vars /\ [InTime]_vars => RP!Once'
  BY SInvSteps, OnceKept DEF SInv
<1>2. SInv /\ RP!Once => DeliveredOnce
  <2> SUFFICES ASSUME SInv, RP!Once PROVE DeliveredOnce
    OBVIOUS
  <2>1. EmittedOnce
    BY BufferSizes, RP!OnceEmits DEF SInv, EmittedOnce
  <2>2. QED
    BY <2>1, SInvSays, EmittedMeansDelivered DEF SInv
<1>3. QED
  BY <1>1, <1>2, InitSInv, SInvHolds, PTL DEF Spec

(* For every session that is not longer than the filter's span: an inner   *)
(* packet is delivered at most once, without a condition on its timing.    *)
THEOREM ShortSessionDeliversOnce ==
  ASSUME MaxSeq <= R!WindowSize - BlockBits
  PROVE  Spec => []DeliveredOnce
<1>1. SInv => InTime
  BY ShortIsInTime DEF SInv
<1>2. QED
  BY <1>1, SInvHolds, TimelyDeliveredOnce, PTL
=============================================================================
