------------------------------- MODULE Sched --------------------------------
(***************************************************************************)
(* The packet scheduler (internal/sched) as the session uses it: paths     *)
(* join, leave and change state, PMTUD restricts the packets they carry,   *)
(* metrics move their weights, and sendData assigns the packets of a local *)
(* endpoint, which shrinks them when told to (sendPTB, internal/           *)
(* pmtunotify).  The scheduler's calls lock it one by one, so paths may    *)
(* change between the failed assignment and the reading of the MTU.        *)
(*                                                                         *)
(* Weights are whole numbers that divide Scale, and an adapted weight is   *)
(* any of them; a packet's stride is len * Scale / weight.                 *)
(***************************************************************************)
EXTENDS Integers, FiniteSets

CONSTANTS
  Paths,         \* path numbers
  Weights,       \* clamped weights
  Scale,         \* common multiple of the effective weights
  Degradation,   \* a degraded path's weight is divided by this
  Lens,          \* packet lengths, all above DeadMTU
  MinMTU,        \* smallest MTU an ICMP reply may advertise
  MaxInners,     \* PMTUD restrictions: 0 is none, 1 a dead path
  RTTs,          \* smoothed round-trip times, 0 before the first sample
  MaxRTTSpread,
  MaxSent,       \* bound: packets carried
  MaxChanges     \* bound: changes of paths, mode and metrics

DeadMTU   == 1
SpreadCap == 2   \* an RTT-capped path's weight is divided by this

ASSUME SchedAssumption ==
  /\ Paths \subseteq Nat
  /\ Weights \subseteq Nat \ {0} /\ Weights # {} /\ Scale \in Nat \ {0}
  /\ Degradation \in Nat \ {0} /\ {0, DeadMTU} \subseteq MaxInners
  /\ Lens \subseteq Nat \ 0 .. DeadMTU /\ \E m \in Lens : \A l \in Lens : l <= m
  /\ MaxInners \subseteq Nat /\ RTTs \subseteq Nat
  /\ {MinMTU, MaxRTTSpread, MaxSent, MaxChanges} \subseteq Nat
  /\ \A w \in Weights : Scale % w = 0

VARIABLES
  mode,
  path,      \* pathState by path number
  size,      \* length of the packets the local endpoint sends
  dropped,   \* sendData found no path for its packet
  sent, changes,
  skipped    \* history: paths that sat out a packet since they joined

vars == <<mode, path, size, dropped, sent, changes, skipped>>

Least(S)   == CHOOSE x \in S : \A y \in S : x <= y
Largest(S) == CHOOSE x \in S : \A y \in S : x >= y

Absent(mtu) == [present |-> FALSE, state |-> "Active", weight |-> 1, pass |-> 0,
                srtt |-> 0, capped |-> FALSE, maxInner |-> mtu]

Init ==
  /\ mode \in {"bonding", "redundant"}
  /\ path = [p \in Paths |-> Absent(0)]
  /\ size = Largest(Lens) /\ dropped = FALSE
  /\ sent = 0 /\ changes = 0 /\ skipped = {}

Present   == {p \in Paths : path[p].present}
Usable    == {p \in Present : path[p].state # "Down"}
Fits(p)   == path[p].maxInner = 0 \/ size <= path[p].maxInner

Changing == changes < MaxChanges /\ changes' = changes + 1

-----------------------------------------------------------------------------
(* Mutant of AddPath: a path joins with pass 0.                            *)
AddPathAtZero(p, w) ==
  /\ Changing
  /\ path' = [path EXCEPT ![p] =
       [Absent(path[p].maxInner) EXCEPT !.present = TRUE, !.weight = w]]
  /\ skipped' = skipped \ {p}
  /\ UNCHANGED <<mode, size, dropped, sent>>

(* A path joins, or joins again, at the largest pass of all.               *)
AddPath(p, w) ==
  /\ Changing
  /\ path' = [path EXCEPT ![p] =
       [Absent(path[p].maxInner) EXCEPT
          !.present = TRUE, !.weight = w,
          !.pass = Largest({0} \cup {path[q].pass : q \in Present})]]
  /\ skipped' = skipped \ {p}
  /\ UNCHANGED <<mode, size, dropped, sent>>

RemovePath(p) ==
  /\ Changing
  /\ path' = [path EXCEPT ![p] = Absent(0)]
  /\ UNCHANGED <<mode, size, dropped, sent, skipped>>

SetState(p, st) ==
  /\ Changing /\ p \in Present
  /\ path' = [path EXCEPT ![p].state = st]
  /\ UNCHANGED <<mode, size, dropped, sent, skipped>>

SetPathMTU(p, mtu) ==
  /\ Changing
  /\ path' = [path EXCEPT ![p].maxInner = mtu]
  /\ UNCHANGED <<mode, size, dropped, sent, skipped>>

(* OnMetrics: a new weight and round-trip time for p, and the cap on paths *)
(* much slower than the fastest active one, for all.                       *)
OnMetrics(p, w, rtt) ==
  /\ Changing /\ p \in Present
  /\ LET ps   == [path EXCEPT ![p].weight = w, ![p].srtt = rtt]
         rtts == {ps[q].srtt : q \in {x \in Present : ps[x].state = "Active"}} \ {0}
     IN  path' = [q \in Paths |->
           IF ~ps[q].present THEN ps[q] ELSE
           [ps[q] EXCEPT !.capped =
              rtts # {} /\ ps[q].srtt > Least(rtts) + MaxRTTSpread]]
  /\ UNCHANGED <<mode, size, dropped, sent, skipped>>

SetMode(m) ==
  /\ Changing
  /\ mode' = m
  /\ UNCHANGED <<path, size, dropped, sent, skipped>>

-----------------------------------------------------------------------------
(* The advance of a path's pass by a packet: its length over the path's    *)
(* effectiveWeight.                                                        *)
Stride(p) ==
  size * (Scale \div path[p].weight)
    * (IF path[p].capped THEN SpreadCap ELSE 1)
    * (IF path[p].state = "Degraded" THEN Degradation ELSE 1)

Candidates == {p \in Usable : Fits(p)}

(* The first of the candidates with the lowest pass.                       *)
Best == Least({p \in Candidates : \A q \in Candidates : path[p].pass <= path[q].pass})

(* Paths that are down or too narrow for the packet fall behind.           *)
Skip == skipped' = skipped \cup (Present \ Candidates)

(* sendData up to Assign: one path in bonding mode, all in redundant mode. *)
AssignOne ==
  /\ ~dropped /\ mode = "bonding" /\ Candidates # {} /\ sent < MaxSent
  /\ path' = [path EXCEPT ![Best].pass = @ + Stride(Best)]
  /\ sent' = sent + 1
  /\ Skip
  /\ UNCHANGED <<mode, size, dropped, changes>>

AssignAll ==
  /\ ~dropped /\ mode = "redundant" /\ Candidates # {} /\ sent < MaxSent
  /\ sent' = sent + 1
  /\ UNCHANGED <<mode, path, size, dropped, changes, skipped>>

AssignNone ==
  /\ ~dropped /\ Candidates = {}
  /\ dropped' = TRUE
  /\ Skip
  /\ UNCHANGED <<mode, path, size, sent, changes>>

(* MinUsableInner: 0 if no usable path has a restriction.                  *)
MinUsableInner ==
  LET inners == {path[p].maxInner : p \in Usable} \ 0 .. DeadMTU
  IN  IF inners = {} THEN 0 ELSE Least(inners)

(* Mutant of TooBig: off by one.                                           *)
TooBigLate == MinUsableInner > 0 /\ MinUsableInner + 1 < size

TooBig == MinUsableInner > 0 /\ MinUsableInner < size

(* BuildPTB raises the MTU it advertises to the family's minimum.          *)
Advertised == Largest({MinUsableInner, MinMTU})

(* The rest of sendData: the endpoint learns the MTU, unless the limiter   *)
(* or BuildPTB refuses the reply.                                          *)
SendPTB ==
  /\ dropped /\ TooBig
  /\ dropped' = FALSE
  /\ size' = Least({size, Advertised})
  /\ UNCHANGED <<mode, path, sent, changes, skipped>>

Suppressed ==
  /\ dropped
  /\ dropped' = FALSE
  /\ UNCHANGED <<mode, path, size, sent, changes, skipped>>

sendData == AssignOne \/ AssignAll \/ AssignNone

Next ==
  \/ sendData \/ SendPTB \/ Suppressed
  \/ \E p \in Paths :
       \/ \E w \in Weights : AddPath(p, w)
       \/ RemovePath(p)
       \/ \E st \in {"Active", "Degraded", "Down"} : SetState(p, st)
       \/ \E mtu \in MaxInners : SetPathMTU(p, mtu)
       \/ \E w \in Weights, rtt \in RTTs : OnMetrics(p, w, rtt)
  \/ \E m \in {"bonding", "redundant"} : SetMode(m)

Spec == Init /\ [][Next]_vars

(* The endpoint goes on sending, and the limiter's bucket refills.         *)
FairSpec == Spec /\ WF_vars(sendData) /\ SF_vars(SendPTB) /\ WF_vars(Suppressed)

-----------------------------------------------------------------------------
(* Modes, paths and counters have their types.                             *)
TypeOK ==
  /\ mode \in {"bonding", "redundant"}
  /\ path \in [Paths -> [present : BOOLEAN, state : {"Active", "Degraded", "Down"},
                         weight : Weights \cup {1}, pass : Nat, srtt : RTTs \cup {0},
                         capped : BOOLEAN, maxInner : MaxInners]]
  /\ size \in Nat /\ dropped \in BOOLEAN
  /\ sent \in 0 .. MaxSent /\ changes \in 0 .. MaxChanges /\ skipped \subseteq Paths

MaxStride == Largest(Lens) * (Scale \div Least(Weights)) * SpreadCap * Degradation

(* Weighted fairness: however paths join, leave, slow down and change      *)
(* weight, no path runs more than one packet's stride ahead of one that    *)
(* was up and fit every packet since it joined, so no path hogs the        *)
(* traffic or starves ("so a new path doesn't hog", sched.go:160).         *)
FairShare ==
  \A p \in Present, q \in Present \ skipped : path[p].pass <= path[q].pass + MaxStride

(* The endpoint's packets fit no path although some path carries packets.  *)
Blackholed == Candidates = {} /\ \E p \in Usable : path[p].maxInner > DeadMTU

(* "so the local inner-TCP endpoint can shrink its MSS instead of          *)
(* blackhole retransmitting" (pmtunotify.go:3): while some path can carry  *)
(* packets, the endpoint does not send for ever packets that fit no path.  *)
NoBlackhole == []<>~Blackholed
=============================================================================
