------------------------------- MODULE Session -------------------------------
(***************************************************************************)
(* One direction of a session, end to end (session.go): the client's       *)
(* sendData in its three modes, the datagrams under way, the server's      *)
(* handleDatagram with its FEC decoder and reorder buffer, and the mode    *)
(* the server mirrors for its own traffic.  It composes Fec, whose encoder *)
(* and decoder it uses, and Reorder, and adds what is between them.        *)
(*                                                                         *)
(* sendData asks the scheduler for paths (Assign) and reads the mode again *)
(* afterwards.  The one reader of the server hands the packets of a        *)
(* datagram to the buffer one by one; the flusher and the prober run in    *)
(* between.  A datagram that is never received is lost.  For the mirrored  *)
(* mode time is whether 5 s have passed since the last flagged packet.     *)
(* Delivered means offered to the TUN writer, whose queue drops a packet   *)
(* when it is full.                                                        *)
(***************************************************************************)
EXTENDS Integers, FiniteSets, Sequences, Functions

CONSTANTS
  K, RFixed, MaxParity, Ring, MaxShards, MaxGroups, MaxLag, Modes, MaxSeq, MaxSent,
  MaxRuns, MaxSwitches,                                       \* as in Fec
  BlockBits, NumBlocks, RingSize, MaxHold, Seqs, Timeouts, MaxCopies, \* as in Reorder
  MaxTargets   \* usable paths in redundant mode

VARIABLES
  run, seq, mode, switches, enc, sent, shards,          \* Fec: the sender
  arrived, got, ring, highest, groups, recovered, failed, \* Fec: the decoder
  buf, seen, pushed, emitted, released,                 \* Reorder
  targets,          \* paths Assign returned for the packet being sent
  wire,             \* data packets under way, with the copies not received
  todo,             \* packets the server's reader has yet to push
  smode,            \* the server's mode
  dupSeen, fecSeen, \* a packet with the flag arrived in the last 5 s
  revert            \* the server's prober is about to fall back to bonding

F == INSTANCE Fec
R == INSTANCE Reorder

ASSUME SessionAssumption ==
  /\ F!FecAssumption /\ R!BitmapAssumption /\ R!ReorderAssumption
  /\ Modes \subseteq {"bonding", "redundant", "fec"}
  /\ MaxTargets \in Nat \ {0}
  /\ Seqs = 1 .. MaxSeq /\ MaxSeq <= MaxLag

fecSide  == <<run, seq, mode, switches, enc, sent, shards, arrived, got, ring,
              highest, groups, recovered, failed>>
decoder  == <<ring, highest, groups, recovered, failed>>
buffer   == <<buf, seen, pushed, emitted, released>>
mirror   == <<smode, dupSeen, fecSeen, revert>>
vars     == <<fecSide, buffer, targets, wire, todo, mirror>>

Init ==
  /\ F!New /\ R!Init /\ mode \in Modes
  /\ targets = 0 /\ wire = {} /\ todo = <<>>
  /\ smode = "bonding" /\ dupSeen = FALSE /\ fecSeen = FALSE /\ revert = FALSE

-----------------------------------------------------------------------------
(* The client.  Assign returns every usable path in redundant mode, else   *)
(* one.                                                                    *)
Assign ==
  /\ targets = 0 /\ seq < MaxSeq
  /\ targets' \in IF mode = "redundant" THEN 1 .. MaxTargets ELSE {1}
  /\ UNCHANGED <<fecSide, buffer, wire, todo, mirror>>

(* The rest of sendData: number, flags, FEC group, and a copy per path.    *)
sendData ==
  /\ targets > 0
  /\ F!sendData
  /\ wire' = wire \cup {[seq |-> seq', copies |-> targets, dup |-> targets > 1,
                         fec |-> mode = "fec"]}
  /\ targets' = 0
  /\ UNCHANGED <<buffer, todo, mirror>>

FlushGroup ==
  /\ F!FlushExpired
  /\ UNCHANGED <<buffer, targets, wire, todo, mirror>>

SetMode ==
  /\ F!SetMode
  /\ UNCHANGED <<buffer, targets, wire, todo, mirror>>

-----------------------------------------------------------------------------
(* The group that an arriving packet completed or made solvable.           *)
Closed(s) ==
  {g \in Range(groups) : /\ s \in F!Members(g)
                         /\ g.base \notin DOMAIN groups' \cup F!Expired(highest')}

(* Mutant of injectRecovered: only the first rebuilt packet is pushed.     *)
injectFirst(gs) ==
  LET new == UNION {F!Missing(ring', g) : g \in gs}
  IN  IF new = {} THEN <<>> ELSE <<F!Least(new)>>

(* The rebuilt packets of the groups gs, in order.                         *)
injectRecovered(gs) == R!InOrder(UNION {F!Missing(ring', g) : g \in gs})

(* What the flags of a packet do to the server's mode.                     *)
Mirrored(m) ==
  /\ dupSeen' = (m.dup \/ dupSeen)
  /\ fecSeen' = (m.fec \/ fecSeen)
  /\ smode' = IF m.fec THEN "fec" ELSE IF m.dup THEN "redundant" ELSE smode

(* handleDatagram of a data packet, up to its pushes.                      *)
RecvData(m) ==
  /\ todo = <<>>
  /\ wire' = (wire \ {m}) \cup {c \in {[m EXCEPT !.copies = @ - 1]} : c.copies > 0}
  /\ Mirrored(m)
  /\ IF m.fec
     THEN /\ F!AddData(F!Packet(run, m.seq))
          /\ arrived' = arrived \cup {F!Packet(run, m.seq)}
     ELSE UNCHANGED <<decoder, arrived>>
  /\ todo' = <<m.seq>> \o injectRecovered(IF m.fec THEN Closed(m.seq) ELSE {})
  /\ UNCHANGED <<run, seq, mode, switches, enc, sent, shards, got, buffer,
                 targets, revert>>

(* handleDatagram of a parity shard.                                       *)
RecvParity(h) ==
  /\ todo = <<>>
  /\ got' = got \cup {h}
  /\ F!AddParity(h)
  /\ todo' = injectRecovered(IF h.base \in DOMAIN groups' THEN {} ELSE {h})
  /\ UNCHANGED <<run, seq, mode, switches, enc, sent, shards, arrived, buffer,
                 targets, wire, mirror>>

Push ==
  /\ todo # <<>>
  /\ \E t \in Timeouts : R!Push(Head(todo), t)
  /\ todo' = Tail(todo)
  /\ UNCHANGED <<fecSide, targets, wire, mirror>>

(* The server's flusher, and time.                                         *)
FlushGap ==
  /\ \E t \in Timeouts : R!FlushExpired(t)
  /\ UNCHANGED <<fecSide, targets, wire, todo, mirror>>

Tick ==
  /\ R!Tick
  /\ UNCHANGED <<fecSide, targets, wire, todo, mirror>>

Elapse ==
  /\ \/ dupSeen /\ dupSeen' = FALSE /\ UNCHANGED fecSeen
     \/ fecSeen /\ fecSeen' = FALSE /\ UNCHANGED dupSeen
  /\ UNCHANGED <<fecSide, buffer, targets, wire, todo, smode, revert>>

(* Mutant of MirrorEnds: FEC mode is not looked at.                        *)
MirrorEndsDupOnly ==
  /\ ~revert
  /\ smode = "redundant" /\ ~dupSeen
  /\ revert' = TRUE
  /\ UNCHANGED <<fecSide, buffer, targets, wire, todo, smode, dupSeen, fecSeen>>

(* The server's prober finds that the client's mode stopped appearing ...  *)
MirrorEnds ==
  /\ ~revert
  /\ \/ smode = "redundant" /\ ~dupSeen
     \/ smode = "fec" /\ ~fecSeen
  /\ revert' = TRUE
  /\ UNCHANGED <<fecSide, buffer, targets, wire, todo, smode, dupSeen, fecSeen>>

(* ... and then goes back to bonding.                                      *)
Revert ==
  /\ revert
  /\ revert' = FALSE /\ smode' = "bonding"
  /\ UNCHANGED <<fecSide, buffer, targets, wire, todo, dupSeen, fecSeen>>

Next ==
  \/ Assign \/ sendData \/ FlushGroup \/ SetMode
  \/ \E m \in wire : RecvData(m)
  \/ \E h \in shards \ got : RecvParity(h)
  \/ Push \/ FlushGap \/ Tick
  \/ Elapse \/ MirrorEnds \/ Revert

Spec == Init /\ [][Next]_vars

(* The server's reader goes on (only Push shortens todo), its flusher and  *)
(* prober keep running and time passes; nothing obliges the client to send *)
(* or the network to deliver.                                              *)
FairSpec ==
  /\ Spec
  /\ WF_todo(todo # <<>> /\ todo' = Tail(todo)) /\ WF_vars(FlushGap \/ Tick)
  /\ WF_vars(Elapse) /\ WF_vars(MirrorEnds \/ Revert)

-----------------------------------------------------------------------------
(* The datagrams under way, the reader's packets and the mirrored mode     *)
(* have their types.                                                       *)
TypeOK ==
  /\ mode \in Modes /\ smode \in Modes \cup {"bonding"}
  /\ targets \in 0 .. MaxTargets
  /\ wire \subseteq [seq : Seqs, copies : 1 .. MaxTargets, dup : BOOLEAN, fec : BOOLEAN]
  /\ todo \in Seq(Seqs) /\ Len(todo) <= K
  /\ {dupSeen, fecSeen, revert} \subseteq BOOLEAN

(* However redundant copies, rebuilt packets and late originals meet, the  *)
(* inner packet reaches the TUN device at most once: "dedup drops any that *)
(* also arrive late on the wire" (session.go:371); the types hold.         *)
DeliveredOnce ==
  TypeOK /\ \A s \in Seqs : emitted[s] <= 1 /\ (emitted[s] > 0 => s <= seq)

Received == {s \in Seqs : pushed[s] > 0 \/ \E i \in DOMAIN todo : todo[i] = s}

(* A packet that was received or rebuilt is delivered in the end, whatever *)
(* is lost before it and however the reader and the flusher interleave     *)
(* (buffer.go:197): again and again nothing received is outstanding.       *)
ReceivedIsDelivered == []<>(\A s \in Received : emitted[s] > 0)

Enough(h) ==
  Cardinality({s \in F!Members(h) : F!Packet(run, s) \in arrived})
    + Cardinality({x \in got : x.base = h.base}) >= h.k

(* Losses that FEC can repair do not reach the inner traffic: when any k   *)
(* of the packets and shards of a group of k arrived, all of its packets   *)
(* are delivered in the end (session.go:529).                              *)
LossIsRepaired ==
  []<>(\A h \in shards : Enough(h) => \A s \in F!Members(h) : emitted[s] > 0)

(* The server falls back to bonding when the client's mode stops           *)
(* appearing, also after packets with both flags and late flagged ones     *)
(* (session.go:842).                                                       *)
MirrorFallsBack == <>[](smode = "bonding")
=============================================================================
