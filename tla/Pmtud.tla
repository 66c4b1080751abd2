------------------------------- MODULE Pmtud -------------------------------
(***************************************************************************)
(* Path MTU discovery: the tick-driven prober (internal/pmtud/pmtud.go),   *)
(* the engine's sending of the probes it asks for                          *)
(* (session.go sendMTUProbe) and the path that carries them.               *)
(*                                                                         *)
(* The prober's methods run under its mutex, one step each; Tick and the   *)
(* transmission that follows it are two steps of the prober goroutine,     *)
(* with acks and restarts in between.  Probe ids are kept relative to the  *)
(* prober's current id: a probe in flight has age 0 when it carries that   *)
(* id.  Time is counted in ticks.  A good path brings every probe that it  *)
(* carries back in time; a bad one loses some, brings others late and      *)
(* refuses some sends, and may be mended.                                  *)
(***************************************************************************)
EXTENDS Integers

CONSTANTS
  Floor, Base,         \* smallest probed size; lower bound tried first
  Granularity,         \* ends the binary search
  AckTimeoutTicks, MaxAttempts, RevalidateTicks, InitialDelayTicks,
  IfMTUs,              \* local interface MTUs, the argument of New
  Limits,              \* sizes the network beyond may carry
  GoodRtt, BadRtt,     \* ticks a round trip may take on a good and a bad path
  MaxChanges,          \* bound: changes of the network's limit
  MaxRestarts          \* bound: rebinds and roamings

ASSUME PmtudAssumption ==
  /\ Floor \in Nat \ {0} /\ Base \in Nat /\ Floor < Base
  /\ Granularity \in Nat \ {0}
  /\ AckTimeoutTicks \in Nat \ {0} /\ MaxAttempts \in Nat \ {0}
  /\ RevalidateTicks \in Nat /\ InitialDelayTicks \in Nat
  /\ IfMTUs \subseteq Nat /\ Limits \subseteq Nat
  /\ GoodRtt \in Nat /\ BadRtt \in Nat
  /\ MaxChanges \in Nat /\ MaxRestarts \in Nat

VARIABLES
  p,          \* the Prober
  sending,    \* size of the probe Tick returned, until it is transmitted
  net,        \* probes, or their acks, in flight
  ifMTU,      \* MTU of the local interface
  limit,      \* what the network beyond it carries
  quality,    \* of the path: "good", "bad" or "mended"
  proved,     \* history: sizes acked by probes sent since the last Restart
  changes, restarts

vars == <<p, sending, net, ifMTU, limit, quality, proved, changes, restarts>>

NoProbe == 0
Unknown == 0     \* Discovered() while nothing is known
Dead    == -1    \* Discovered() when even Floor fails

Phases == {"Idle", "Ceil", "Base", "Floor", "Search", "Done", "Dead"}

Clamped(mtu) == IF mtu < Floor THEN Floor ELSE mtu

New(mtu) ==
  [ceil |-> Clamped(mtu), phase |-> "Idle", wait |-> InitialDelayTicks,
   inflight |-> FALSE, size |-> 0, timeout |-> 0, attempt |-> 0,
   lo |-> 0, hi |-> 0, discovered |-> Unknown]

-----------------------------------------------------------------------------
finish(q, mtu) ==
  [q EXCEPT !.discovered = mtu, !.phase = "Done", !.wait = RevalidateTicks]

(* Mutant of Converged: off by one at the end of the search.               *)
ConvergedStrict(q) == q.hi - q.lo < Granularity

Converged(q) == q.hi - q.lo <= Granularity

step(q) ==
  IF q.phase = "Search" /\ Converged(q) THEN finish(q, q.lo) ELSE q

(* Mutant of fail: a failed size does not lower hi.                        *)
failKeepingHi(q) ==
  CASE q.phase = "Ceil"   ->
         [q EXCEPT !.phase = IF q.ceil <= Base THEN "Floor" ELSE "Base"]
    [] q.phase = "Base"   -> [q EXCEPT !.phase = "Floor"]
    [] q.phase = "Floor"  -> [q EXCEPT !.discovered = Dead, !.phase = "Dead",
                                       !.wait = RevalidateTicks]
    [] q.phase = "Search" -> step(q)
    [] OTHER              -> q

(* Mutant of fail: Floor is not tried after Base.                          *)
failSkippingFloor(q) ==
  CASE q.phase = "Ceil"   ->
         [q EXCEPT !.phase = IF q.ceil <= Base THEN "Floor" ELSE "Base"]
    [] q.phase \in {"Base", "Floor"} ->
         [q EXCEPT !.discovered = Dead, !.phase = "Dead", !.wait = RevalidateTicks]
    [] q.phase = "Search" -> step([q EXCEPT !.hi = q.size])
    [] OTHER              -> q

(* The size in flight is unreachable.                                      *)
fail(q) ==
  CASE q.phase = "Ceil"   ->
         [q EXCEPT !.phase = IF q.ceil <= Base THEN "Floor" ELSE "Base"]
    [] q.phase = "Base"   -> [q EXCEPT !.phase = "Floor"]
    [] q.phase = "Floor"  -> [q EXCEPT !.discovered = Dead, !.phase = "Dead",
                                       !.wait = RevalidateTicks]
    [] q.phase = "Search" -> step([q EXCEPT !.hi = q.size])
    [] OTHER              -> q

(* The size in flight came back.                                           *)
succeed(q) ==
  CASE q.phase = "Ceil"   -> finish(q, q.ceil)
    [] q.phase = "Base"   -> step([q EXCEPT !.lo = Base, !.hi = q.ceil,
                                            !.phase = "Search"])
    [] q.phase = "Floor"  -> step([q EXCEPT !.lo = Floor, !.hi = Base,
                                            !.phase = "Search"])
    [] q.phase = "Search" -> step([q EXCEPT !.lo = q.size])
    [] OTHER              -> q

(* Mutant of nextPhase: revalidation resumes the last search.              *)
nextPhaseResuming(q) ==
  CASE q.phase = "Idle" -> "Ceil"
    [] q.phase \in {"Done", "Dead"} -> IF q.lo > 0 THEN "Search" ELSE "Ceil"
    [] OTHER -> q.phase

(* nextSize: the size to probe next and the phase it is probed in.  Its    *)
(* own test for convergence never succeeds: step has ended such a search.  *)
nextPhase(q) == IF q.phase \in {"Idle", "Done", "Dead"} THEN "Ceil" ELSE q.phase

nextSize(q) ==
  CASE nextPhase(q) = "Ceil"   -> q.ceil
    [] nextPhase(q) = "Base"   -> Base
    [] nextPhase(q) = "Floor"  -> Floor
    [] nextPhase(q) = "Search" -> (q.lo + q.hi) \div 2

(* Mutant of OnAck: the id of the ack is not compared.                     *)
OnAnyAck(q, age) ==
  IF q.inflight THEN succeed([q EXCEPT !.inflight = FALSE]) ELSE q

(* OnAck and OnSendError for a probe of the given age.                     *)
OnAck(q, age) ==
  IF q.inflight /\ age = 0 THEN succeed([q EXCEPT !.inflight = FALSE]) ELSE q

OnSendError(q, age) ==
  IF q.inflight /\ age = 0 THEN fail([q EXCEPT !.inflight = FALSE]) ELSE q

(* Restart keeps lo, hi and the id.                                        *)
Restarted(q) ==
  [q EXCEPT !.phase = "Idle", !.wait = InitialDelayTicks,
            !.inflight = FALSE, !.discovered = Unknown]

-----------------------------------------------------------------------------
Init ==
  /\ ifMTU \in IfMTUs /\ limit \in Limits
  /\ p = New(ifMTU)
  /\ sending = NoProbe /\ net = {} /\ proved = {}
  /\ quality \in {"good", "bad"}
  /\ changes = 0 /\ restarts = 0

Rtt == IF quality = "bad" THEN BadRtt ELSE GoodRtt

(* A tick of the probe interval, for the prober and the probes in flight;  *)
(* a new id makes the probes in flight one older.                          *)
Aged(d) ==
  {[m EXCEPT !.flown = @ + 1, !.age = @ + d] : m \in net}

Ticking ==
  /\ sending = NoProbe
  /\ \A m \in net : m.flown < Rtt
  /\ UNCHANGED <<ifMTU, limit, quality, proved, changes, restarts>>

Silent == net' = Aged(0) /\ UNCHANGED sending
Send   == net' = Aged(1) /\ sending' = p'.size

(* Tick, waiting for the ack of the probe in flight.                       *)
TickAwait ==
  /\ Ticking
  /\ p.inflight /\ p.timeout > 1
  /\ p' = [p EXCEPT !.timeout = @ - 1]
  /\ Silent

(* Tick, repeating a probe whose ack is overdue, under a new id.           *)
TickRetry ==
  /\ Ticking
  /\ p.inflight /\ p.timeout <= 1 /\ p.attempt + 1 < MaxAttempts
  /\ p' = [p EXCEPT !.attempt = @ + 1, !.timeout = AckTimeoutTicks]
  /\ Send

(* The prober after the part of Tick that gives up on the size in flight.  *)
GivenUp ==
  IF p.inflight
  THEN fail([p EXCEPT !.inflight = FALSE, !.attempt = @ + 1, !.timeout = 0])
  ELSE p

(* Tick with no probe in flight, or none after giving up.                  *)
TickAdvance ==
  /\ Ticking
  /\ p.inflight => p.timeout <= 1 /\ p.attempt + 1 >= MaxAttempts
  /\ LET q == GivenUp IN
     \/ /\ q.wait > 0
        /\ p' = [q EXCEPT !.wait = @ - 1]
        /\ Silent
     \/ /\ q.wait = 0
        /\ p' = [q EXCEPT !.phase = nextPhase(q), !.inflight = TRUE,
                          !.size = nextSize(q), !.attempt = 0,
                          !.timeout = AckTimeoutTicks]
        /\ Send

Tick == TickAwait \/ TickRetry \/ TickAdvance

(* The probe leaves; it stays in flight only if the network carries it.    *)
Transmit ==
  /\ sending # NoProbe /\ sending <= ifMTU
  /\ sending' = NoProbe
  /\ net' = IF sending <= limit
            THEN net \cup {[age |-> 0, size |-> sending, flown |-> 0, stale |-> FALSE]}
            ELSE net
  /\ UNCHANGED <<p, ifMTU, limit, quality, proved, changes, restarts>>

(* The local interface refuses it (EMSGSIZE), or the send fails otherwise. *)
TransmitFails ==
  /\ sending # NoProbe /\ (sending > ifMTU \/ quality = "bad")
  /\ sending' = NoProbe
  /\ p' = OnSendError(p, 0)
  /\ UNCHANGED <<net, ifMTU, limit, quality, proved, changes, restarts>>

Ack(m) ==
  /\ net' = net \ {m}
  /\ p' = OnAck(p, m.age)
  /\ proved' = IF m.stale THEN proved ELSE proved \cup {m.size}
  /\ UNCHANGED <<sending, ifMTU, limit, quality, changes, restarts>>

Lose(m) ==
  /\ quality = "bad"
  /\ net' = net \ {m}
  /\ UNCHANGED <<p, sending, ifMTU, limit, quality, proved, changes, restarts>>

(* MTURestart after a rebind or a roaming; the network may be another one. *)
Restart ==
  /\ restarts < MaxRestarts
  /\ restarts' = restarts + 1
  /\ p' = Restarted(p)
  /\ limit' \in Limits
  /\ proved' = {}
  /\ net' = {[m EXCEPT !.stale = TRUE] : m \in net}
  /\ UNCHANGED <<sending, ifMTU, quality, changes>>

(* The network changes and nobody tells the prober.                        *)
Change ==
  /\ changes < MaxChanges
  /\ changes' = changes + 1
  /\ limit' \in Limits
  /\ UNCHANGED <<p, sending, net, ifMTU, proved, quality, restarts>>

Mend ==
  /\ quality = "bad" /\ quality' = "mended"
  /\ UNCHANGED <<p, sending, net, ifMTU, limit, proved, changes, restarts>>

Resolve == \E m \in net : Ack(m) \/ Lose(m)

Next == Tick \/ Transmit \/ TransmitFails \/ Resolve \/ Restart \/ Change \/ Mend

Spec == Init /\ [][Next]_vars

(* The prober goroutine keeps ticking and sending, and the network answers *)
(* or loses every probe.                                                   *)
FairSpec ==
  /\ Spec
  /\ WF_vars(Tick) /\ WF_vars(Transmit \/ TransmitFails) /\ WF_vars(Resolve)

-----------------------------------------------------------------------------
Probes == [age : Nat, size : Nat, flown : Nat, stale : BOOLEAN]

(* The prober, the probes in flight and the histories have their types.    *)
TypeOK ==
  /\ p \in [ceil : Nat, phase : Phases, wait : Nat, inflight : BOOLEAN,
            size : Nat, timeout : Nat, attempt : Nat, lo : Nat, hi : Nat,
            discovered : Nat \cup {Dead}]
  /\ sending \in Nat
  /\ net \subseteq Probes
  /\ ifMTU \in Nat /\ limit \in Nat /\ proved \subseteq Nat
  /\ quality \in {"good", "bad", "mended"}
  /\ changes \in Nat /\ restarts \in Nat

(* A discovered MTU is a size that made the round trip on the path as it   *)
(* is since the last rebind or roaming, and that the local interface       *)
(* sends: no late, duplicate or pre-Restart ack, and no overlap of a send  *)
(* error with a restart, makes the prober report another size.             *)
ResultProved ==
  p.discovered > 0 => p.discovered \in proved /\ p.discovered <= ifMTU

(* The binary search works on a bracket: its lower end is proved, its ends *)
(* differ by more than the granularity, and a probe in flight is strictly  *)
(* inside, so every answer narrows the bracket.                            *)
SearchBracketed ==
  p.phase = "Search" =>
    /\ p.lo \in proved
    /\ p.hi - p.lo > Granularity
    /\ p.inflight => p.lo < p.size /\ p.size < p.hi

Carried == IF ifMTU < limit THEN ifMTU ELSE limit

(* "Discovered may understate the true MTU by up to this many bytes        *)
(* (conservative side)" (pmtud.go:28), and a path is Dead only if it       *)
(* cannot carry Floor (pmtud.go:22).                                       *)
Truthful ==
  /\ p.discovered > 0 =>
       Carried - Granularity < p.discovered /\ p.discovered <= Carried
  /\ p.discovered = Dead => Carried < Floor

(* On a good path that has only changed with a restart, every result is as *)
(* close to the truth as pmtud.go:28 says.                                 *)
Accurate == quality = "good" /\ changes = 0 => Truthful

(* However probes are lost, a discovery always comes to an end.            *)
Settles == []<>(p.phase \in {"Done", "Dead"})

(* Once the path is good and stops changing, the periodic revalidation     *)
(* brings the result back to the truth, whatever losses and changes made   *)
(* of it and without any restart.                                          *)
Reconverges ==
  <>[](quality # "bad") => <>[](p.discovered # Unknown /\ Truthful)
=============================================================================
