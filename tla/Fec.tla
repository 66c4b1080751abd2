-------------------------------- MODULE Fec ---------------------------------
(***************************************************************************)
(* Forward error correction of one direction (internal/fec): the encoder   *)
(* that closes groups of consecutive packets with parity shards, a network *)
(* that loses and reorders both, and the decoder that rebuilds what is     *)
(* missing.  A shard arrives at most once, as the replay window admits     *)
(* every datagram once; a packet may arrive again, since sendData puts it  *)
(* on several paths when the mode changes between Assign and its send.     *)
(*                                                                         *)
(* A packet stands for its contents: the sender process (run) and the      *)
(* global sequence number.  All packets have one size.  A shard is a       *)
(* parity packet; Reed-Solomon rebuilds a group of k from any k of its     *)
(* packets and shards, and yields garbage from shards of different runs.   *)
(***************************************************************************)
EXTENDS Integers, FiniteSets, Functions

CONSTANTS
  K,            \* data packets per group
  RFixed,       \* parity count, 0 for adaptive
  MaxParity,    \* most shards per group (4)
  Ring,         \* packets the decoder retains (256)
  MaxShards,    \* MaxFECShards (15)
  MaxGroups,    \* groups the decoder tracks (64)
  MaxLag,       \* a packet or shard this far behind is lost
  Modes,        \* modes the session is set to
  MaxSeq,       \* bound: packets a sender process sends
  MaxSent,      \* bound: packets under FEC once a second process sends
  MaxRuns,      \* bound: sender processes
  MaxSwitches   \* bound: mode switches

ASSUME FecAssumption ==
  /\ K \in Nat /\ K >= 2 /\ K <= MaxShards /\ MaxShards < Ring
  /\ RFixed \in Nat /\ {MaxParity, MaxGroups, MaxLag, MaxRuns} \subseteq Nat \ {0}
  /\ {Ring, MaxShards, MaxSeq, MaxSent, MaxSwitches} \subseteq Nat

VARIABLES
  run, seq, mode, switches,   \* sender
  enc,                        \* encoder's open group: base and n
  sent, shards,               \* packets under FEC and shards sent so far
  arrived, got,               \* those received
  ring, highest, groups,      \* decoder
  recovered, failed           \* decoder's results and Failed counter

sender == <<run, seq, mode, switches, enc, sent, shards>>
vars   == <<sender, arrived, got, ring, highest, groups, recovered, failed>>

Packet(r, s) == [run |-> r, seq |-> s]
Garbage      == 0            \* the run of a packet nobody sent
NoPacket     == Packet(0, 0)

(* A new session: nothing was sent or received.                            *)
New ==
  /\ run = 1 /\ seq = 0 /\ switches = 0
  /\ enc = [base |-> 0, n |-> 0]
  /\ sent = {} /\ shards = {} /\ arrived = {} /\ got = {}
  /\ ring = [i \in 0 .. Ring - 1 |-> NoPacket] /\ highest = 0 /\ groups = <<>>
  /\ recovered = {} /\ failed = 0

Init == New /\ mode \in Modes

Least(S) == CHOOSE x \in S : \A y \in S : x <= y

-----------------------------------------------------------------------------
(* parityCount: fixed, or one and more as the measured loss rises.         *)
parityCount(k) ==
  LET most == Least({MaxParity, k})
  IN  IF RFixed = 0 THEN 1 .. most ELSE {Least({RFixed, most})}

(* flushLocked of the groups in gs: their parity shards.                   *)
Parities(g, r) ==
  {[run |-> run, base |-> g.base, k |-> g.n, r |-> r, index |-> i] : i \in 0 .. r - 1}

flushLocked(gs) ==
  \E count \in [gs -> 1 .. MaxParity] :
    /\ \A g \in gs : count[g] \in parityCount(g.n)
    /\ shards' = shards \cup UNION {Parities(g, count[g]) : g \in gs}

(* Add: a gap in the sequence closes the open group, the K-th packet its   *)
(* own.                                                                    *)
Add(s) ==
  LET gap  == enc.n > 0 /\ s # enc.base + enc.n
      open == IF gap \/ enc.n = 0 THEN [base |-> s, n |-> 1]
                                  ELSE [enc EXCEPT !.n = @ + 1]
      full == open.n = K
  IN  /\ flushLocked((IF gap THEN {enc} ELSE {}) \cup (IF full THEN {open} ELSE {}))
      /\ enc' = IF full THEN [open EXCEPT !.n = 0] ELSE open

(* sendData: only packets sent in FEC mode carry the flag and join a group.*)
sendData ==
  /\ seq < MaxSeq /\ (run = 1 \/ Cardinality(sent) < MaxSent)
  /\ seq' = seq + 1
  /\ IF mode = "fec"
     THEN sent' = sent \cup {Packet(run, seq')} /\ Add(seq')
     ELSE UNCHANGED <<sent, shards, enc>>
  /\ UNCHANGED <<run, mode, switches, arrived, got, ring, highest, groups,
                 recovered, failed>>

(* Mutant of FlushExpired: a group of one packet is not closed.            *)
FlushExpiredPairs ==
  /\ mode = "fec" /\ enc.n > 1
  /\ flushLocked({enc})
  /\ enc' = [enc EXCEPT !.n = 0]
  /\ UNCHANGED <<run, seq, mode, switches, sent, arrived, got, ring, highest,
                 groups, recovered, failed>>

(* The flusher's tick, in FEC mode, on an open group old enough.           *)
FlushExpired ==
  /\ mode = "fec" /\ enc.n > 0
  /\ flushLocked({enc})
  /\ enc' = [enc EXCEPT !.n = 0]
  /\ UNCHANGED <<run, seq, mode, switches, sent, arrived, got, ring, highest,
                 groups, recovered, failed>>

SetMode ==
  /\ switches < MaxSwitches
  /\ switches' = switches + 1
  /\ mode' \in Modes \ {mode}
  /\ UNCHANGED <<run, seq, enc, sent, shards, arrived, got, ring, highest, groups,
                 recovered, failed>>

(* The sending process restarts; the peer's decoder lives on.              *)
Restart ==
  /\ run < MaxRuns /\ Cardinality(sent) < MaxSent
  /\ run' = run + 1 /\ seq' = 0 /\ enc' = [base |-> 0, n |-> 0]
  /\ UNCHANGED <<mode, switches, sent, shards, arrived, got, ring, highest, groups,
                 recovered, failed>>

-----------------------------------------------------------------------------
(* Mutant of Holds: any packet in the slot counts.                         *)
HoldsAny(rg, s) == rg[s % Ring] # NoPacket

Holds(rg, s)   == rg[s % Ring].seq = s
Members(g)     == g.base .. g.base + g.k - 1
Missing(rg, g) == {s \in Members(g) : ~Holds(rg, s)}
Without(gs, B) == Restrict(gs, DOMAIN gs \ B)

(* f, and v at x if f has nothing there.                                   *)
Adding(f, x, v) ==
  [y \in DOMAIN f \cup {x} |-> IF y \in DOMAIN f THEN f[y] ELSE v]

(* What ReconstructData makes of the packets and shards at hand: the run   *)
(* of the group's packets, if they are what the shards were made from.     *)
Rebuilt(rg, g) ==
  LET made == {r \in 1 .. MaxRuns :
                 /\ \A i \in DOMAIN g.parity : g.parity[i] = r
                 /\ \A s \in Members(g) \ Missing(rg, g) : rg[s % Ring] = Packet(r, s)}
  IN  IF made = {} THEN Garbage ELSE CHOOSE r \in made : TRUE

(* Rebuilt packets whose length can be read from their IP header; garbage  *)
(* may or may not look like one.                                           *)
InnerIPLen(r, miss) == IF r = Garbage THEN SUBSET miss ELSE {miss}

(* Mutant of tryReconstruct: one shard more than needed is awaited.        *)
tryLate(rg, gs, b) ==
  LET g == gs[b]  miss == Missing(rg, g)  r == Rebuilt(rg, g) IN
  \/ /\ miss = {}
     /\ groups' = Without(gs, {b}) /\ UNCHANGED recovered
  \/ /\ miss # {} /\ Cardinality(DOMAIN g.parity) <= Cardinality(miss)
     /\ groups' = gs /\ UNCHANGED recovered
  \/ /\ miss # {} /\ Cardinality(DOMAIN g.parity) > Cardinality(miss)
     /\ groups' = Without(gs, {b})
     /\ \E ok \in InnerIPLen(r, miss) :
          recovered' = recovered \cup {Packet(r, s) : s \in ok}

tryReconstruct(rg, gs, b) ==
  LET g == gs[b]  miss == Missing(rg, g)  r == Rebuilt(rg, g) IN
  \/ /\ miss = {}
     /\ groups' = Without(gs, {b}) /\ UNCHANGED recovered
  \/ /\ Cardinality(DOMAIN g.parity) < Cardinality(miss)
     /\ groups' = gs /\ UNCHANGED recovered
  \/ /\ miss # {} /\ Cardinality(DOMAIN g.parity) >= Cardinality(miss)
     /\ groups' = Without(gs, {b})
     /\ \E ok \in InnerIPLen(r, miss) :
          recovered' = recovered \cup {Packet(r, s) : s \in ok}

(* pruneLocked: groups whose packets may have left the ring.               *)
Floor(top) == IF top < Ring THEN 0 ELSE top - Ring + MaxShards

Expired(top) == {b \in DOMAIN groups : b < Floor(top)}

(* Mutant of AddData: an arriving packet completes no group.               *)
AddDataOnly(d) ==
  LET rg   == [ring EXCEPT ![d.seq % Ring] = d]
      top  == IF d.seq > highest THEN d.seq ELSE highest
  IN  /\ ring' = rg /\ highest' = top
      /\ failed' = failed + Cardinality(Expired(top))
      /\ groups' = Without(groups, Expired(top)) /\ UNCHANGED recovered

AddData(d) ==
  LET rg   == [ring EXCEPT ![d.seq % Ring] = d]
      top  == IF d.seq > highest THEN d.seq ELSE highest
      gs   == Without(groups, Expired(top))
      mine == {b \in DOMAIN gs : d.seq \in Members(gs[b])}
  IN  /\ ring' = rg /\ highest' = top
      /\ failed' = failed + Cardinality(Expired(top))
      /\ IF mine = {} THEN groups' = gs /\ UNCHANGED recovered
                      ELSE \E b \in mine : tryReconstruct(rg, gs, b)

(* evictOldestLocked, to make room for a new group.                        *)
Evicted(b) ==
  IF b \in DOMAIN groups \/ Cardinality(DOMAIN groups) < MaxGroups
  THEN {} ELSE {Least(DOMAIN groups)}

AddParity(h) ==
  LET out  == Evicted(h.base)
      new  == [base |-> h.base, k |-> h.k, r |-> h.r, parity |-> <<>>]
      gs   == Adding(Without(groups, out), h.base, new)
      g    == gs[h.base]
      full == [g EXCEPT !.parity = Adding(@, h.index, h.run)]
  IN  /\ failed' = failed + Cardinality(out)
      /\ IF h.k # g.k \/ h.r # g.r
         THEN groups' = gs /\ UNCHANGED recovered
         ELSE tryReconstruct(ring, [gs EXCEPT ![h.base] = full], h.base)
      /\ UNCHANGED <<ring, highest>>

RecvData ==
  \E d \in sent :
    /\ d.seq + MaxLag > highest
    /\ arrived' = arrived \cup {d}
    /\ AddData(d)
    /\ UNCHANGED <<sender, got>>

RecvParity ==
  \E h \in shards \ got :
    /\ h.base + MaxLag > highest
    /\ got' = got \cup {h}
    /\ AddParity(h)
    /\ UNCHANGED <<sender, arrived>>

Next == sendData \/ FlushExpired \/ SetMode \/ Restart \/ RecvData \/ RecvParity

Spec     == Init /\ [][Next]_vars
FairSpec == Spec /\ WF_vars(FlushExpired)

-----------------------------------------------------------------------------
Packets == [run : 0 .. MaxRuns, seq : 0 .. MaxSeq]

(* Encoder and decoder state has its type, no more groups are tracked than *)
(* the table holds, and an open group is never full.                       *)
TypeOK ==
  /\ run \in 1 .. MaxRuns /\ seq \in 0 .. MaxSeq /\ mode \in Modes
  /\ switches \in 0 .. MaxSwitches
  /\ enc \in [base : 0 .. MaxSeq, n : 0 .. K - 1]
  /\ arrived \subseteq sent /\ sent \subseteq Packets /\ got \subseteq shards
  /\ ring \in [0 .. Ring - 1 -> Packets] /\ highest \in 0 .. MaxSeq
  /\ Cardinality(DOMAIN groups) <= MaxGroups
  /\ \A b \in DOMAIN groups :
       /\ groups[b].base = b /\ groups[b].k \in 1 .. K
       /\ DOMAIN groups[b].parity \subseteq 0 .. groups[b].r - 1
  /\ recovered \subseteq Packets /\ failed \in Nat

(* While one process sends, everything the decoder injects into the        *)
(* reorder buffer was sent: groups cover only packets that were sent under *)
(* FEC, and a ring slot taken over by another packet is not mistaken for   *)
(* the group's own (decoder.go:136).                                       *)
RecoveredWasSent == run = 1 => recovered \subseteq sent

(* The types hold, the limit of the group table among them, and while one  *)
(* process sends, no group that could be solved is left waiting: every     *)
(* arrival that makes one solvable solves it (decoder.go:89, 128).  Groups *)
(* of two processes may overlap, and AddData tries only one.               *)
NoSolvableGroupWaits ==
  /\ TypeOK
  /\ run = 1 =>
       \A b \in DOMAIN groups :
         Cardinality(DOMAIN groups[b].parity) < Cardinality(Missing(ring, groups[b]))

(* Any k of a group's packets and shards rebuild the group, in whatever    *)
(* order they arrive and also when shards come after its completion, while *)
(* one process sends, no group was given up and no straggler older than    *)
(* the ring took the slot of one of the group's packets (AddData writes it *)
(* unconditionally, decoder.go:81).                                        *)
AnyKSuffice ==
  \A h \in shards :
    LET data == {s \in Members(h) : Packet(h.run, s) \in arrived}
        fec  == {x \in got : x.run = h.run /\ x.base = h.base}
    IN  /\ run = 1 /\ failed = 0
        /\ \A s \in data : Holds(ring, s)
        /\ Cardinality(data) + Cardinality(fec) >= h.k
        => \A s \in Members(h) : Packet(h.run, s) \in arrived \cup recovered

(* "close a partial group after this long" (fec.go:74): in FEC mode no     *)
(* group stays open for ever.                                              *)
PartialGroupCloses == []<>(enc.n = 0 \/ mode # "fec")

-----------------------------------------------------------------------------
(* "both are trustworthy because every input shard was AEAD-authenticated" *)
(* (wire/fec.go:17): also across restarts of the sender, a rebuilt packet  *)
(* is one that was sent.                                                   *)
RebuiltIsTrustworthy == recovered \subseteq sent

(* "groups that expired unreconstructable" (decoder.go:30): a group that   *)
(* counts as failed lacks a packet.                                        *)
FailedLacksPacket ==
  [][failed' # failed =>
       \E b \in DOMAIN groups \ DOMAIN groups' : \E s \in Members(groups[b]) :
         \A p \in arrived' \cup recovered' : p.seq # s]_vars
=============================================================================
