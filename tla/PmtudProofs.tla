----------------------------- MODULE PmtudProofs -----------------------------
(***************************************************************************)
(* What path MTU discovery reports was measured, for all sizes, timeouts   *)
(* and networks.  The invariant says which probe an ack of age 0 belongs   *)
(* to: without it, nothing ties the ack to the size it is credited to.  On *)
(* a good path it is also accurate: the second invariant says what failed  *)
(* probes have shown.  Last, the replies that tell endpoints of an MTU are *)
(* bounded (Limiter).                                                      *)
(***************************************************************************)
EXTENDS Pmtud, Limiter, SequenceTheorems, TLAPS

Prober ==
  [ceil : Nat, phase : Phases, wait : Nat, inflight : BOOLEAN,
   size : Nat, timeout : Nat, attempt : Nat, lo : Nat, hi : Nat,
   discovered : Nat \cup {Dead}]

(* The size in flight is the one its phase probes for.                     *)
SizeOfPhase(q) ==
  /\ q.phase = "Ceil" => q.size = q.ceil
  /\ q.phase = "Base" => q.size = Base
  /\ q.phase = "Floor" => q.size = Floor
  /\ q.phase = "Search" => q.lo < q.size /\ q.size < q.hi
  /\ q.phase \in {"Ceil", "Base", "Floor", "Search"}

(* The result and the lower end of the search are sizes of S.              *)
Measured(q, S) ==
  /\ q.discovered > 0 => q.discovered \in S
  /\ q.phase = "Search" => q.lo \in S /\ q.hi - q.lo > Granularity

(* A probe of age 0 is the one the prober is waiting for.                  *)
AcksBelong ==
  p.inflight =>
    /\ sending # NoProbe => sending = p.size
    /\ \A m \in net : m.age = 0 => m.size = p.size /\ ~m.stale

SizesFit ==
  /\ \A s \in proved : s <= ifMTU
  /\ \A m \in net : m.size <= ifMTU

IInv ==
  /\ TypeOK
  /\ Measured(p, proved)
  /\ p.inflight => SizeOfPhase(p)
  /\ AcksBelong
  /\ SizesFit

-----------------------------------------------------------------------------
(* step (pmtud.go:197) ends a converged search with its proved lower end.  *)
LEMMA StepMeasured ==
  ASSUME NEW q \in Prober, NEW S \in SUBSET Nat,
         q.discovered > 0 => q.discovered \in S,
         q.phase = "Search" => q.lo \in S
  PROVE  /\ step(q) \in Prober
         /\ Measured(step(q), S)
         /\ step(q).inflight = q.inflight
<1>1. CASE q.phase = "Search" /\ Converged(q)
  <2>1. step(q) = finish(q, q.lo)
    BY <1>1 DEF step
  <2>2. finish(q, q.lo) \in Prober
    BY PmtudAssumption, Zenon DEF finish, Prober, Phases
  <2>3. finish(q, q.lo).discovered = q.lo /\ finish(q, q.lo).phase = "Done"
        /\ finish(q, q.lo).inflight = q.inflight
    BY DEF finish, Prober
  <2> QED BY <1>1, <2>1, <2>2, <2>3 DEF Measured
<1>2. CASE ~(q.phase = "Search" /\ Converged(q))
  <2>1. step(q) = q
    BY <1>2 DEF step
  <2>2. q.phase = "Search" => q.hi - q.lo > Granularity
    BY <1>2, PmtudAssumption DEF Converged, Prober
  <2> QED BY <2>1, <2>2 DEF Measured
<1> QED BY <1>1, <1>2

(* fail (pmtud.go:176) reports nothing but Dead and proved sizes.          *)
LEMMA FailMeasured ==
  ASSUME NEW q \in Prober, NEW S \in SUBSET Nat, Measured(q, S), ~q.inflight
  PROVE  fail(q) \in Prober /\ Measured(fail(q), S) /\ ~fail(q).inflight
<1>1. CASE q.phase = "Search"
  <2> DEFINE r == [q EXCEPT !.hi = q.size]
  <2>1. r \in Prober /\ r.phase = "Search" /\ r.lo = q.lo /\ ~r.inflight
        /\ r.discovered = q.discovered
    BY <1>1 DEF Prober
  <2>2. fail(q) = step(r)
    BY <1>1 DEF fail
  <2> QED BY <2>1, <2>2, <1>1, StepMeasured, Zenon DEF Measured
<1>2. CASE q.phase = "Floor"
  <2>1. fail(q) = [q EXCEPT !.discovered = Dead, !.phase = "Dead",
                            !.wait = RevalidateTicks]
    BY <1>2 DEF fail
  <2>2. /\ fail(q).discovered = Dead /\ fail(q).phase = "Dead" /\ ~fail(q).inflight
    BY <2>1 DEF Prober
  <2>3. RevalidateTicks \in Nat /\ "Dead" \in Phases
    BY PmtudAssumption DEF Phases
  <2>4. fail(q) \in Prober
    BY <2>1, <2>3, Zenon DEF Prober
  <2>5. ~(fail(q).discovered > 0) /\ fail(q).phase # "Search"
    BY <2>2 DEF Dead
  <2> QED BY <2>2, <2>4, <2>5 DEF Measured
<1>3. CASE q.phase \notin {"Search", "Floor"}
  <2>1. \E f \in {"Base", "Floor", q.phase} : fail(q) = [q EXCEPT !.phase = f]
    <3>1. CASE q.phase \in {"Ceil", "Base"}
      BY <3>1 DEF fail
    <3>2. CASE q.phase \notin {"Ceil", "Base"}
      BY <3>2, <1>3 DEF fail, Prober
    <3> QED BY <3>1, <3>2
  <2>2. PICK f \in {"Base", "Floor", q.phase} : fail(q) = [q EXCEPT !.phase = f]
    BY <2>1
  <2>3. f \in Phases /\ f # "Search"
    BY <1>3 DEF Phases, Prober
  <2>4. fail(q) \in Prober /\ fail(q).discovered = q.discovered
        /\ fail(q).phase = f /\ ~fail(q).inflight
    BY <2>2, <2>3 DEF Prober
  <2> QED BY <2>3, <2>4 DEF Measured
<1> QED BY <1>1, <1>2, <1>3

(* An ack (pmtud.go:138) makes a result, or a lower end, of the size it    *)
(* confirms.                                                               *)
LEMMA SucceedMeasured ==
  ASSUME NEW q \in Prober, NEW S \in SUBSET Nat, Measured(q, S),
         SizeOfPhase(q), q.size \in S, ~q.inflight
  PROVE  succeed(q) \in Prober /\ Measured(succeed(q), S) /\ ~succeed(q).inflight
<1>1. CASE q.phase = "Ceil"
  BY <1>1, PmtudAssumption, Zenon
  DEF succeed, finish, Measured, SizeOfPhase, Prober, Phases
<1>2. CASE q.phase = "Base"
  <2> DEFINE r == [q EXCEPT !.lo = Base, !.hi = q.ceil, !.phase = "Search"]
  <2>1. r \in Prober /\ r.lo \in S /\ ~r.inflight /\ r.discovered = q.discovered
    BY <1>2, PmtudAssumption, Zenon DEF Prober, SizeOfPhase, Phases
  <2>2. succeed(q) = step(r)
    BY <1>2 DEF succeed
  <2> HIDE DEF r
  <2> QED BY <2>1, <2>2, StepMeasured DEF Measured
<1>3. CASE q.phase = "Floor"
  <2> DEFINE r == [q EXCEPT !.lo = Floor, !.hi = Base, !.phase = "Search"]
  <2>1. r \in Prober /\ r.lo \in S /\ ~r.inflight /\ r.discovered = q.discovered
    BY <1>3, PmtudAssumption, Zenon DEF Prober, SizeOfPhase, Phases
  <2>2. succeed(q) = step(r)
    BY <1>3 DEF succeed
  <2> HIDE DEF r
  <2> QED BY <2>1, <2>2, StepMeasured DEF Measured
<1>4. CASE q.phase = "Search"
  <2> DEFINE r == [q EXCEPT !.lo = q.size]
  <2>1. r \in Prober /\ r.lo \in S /\ ~r.inflight /\ r.discovered = q.discovered
    BY <1>4 DEF Prober
  <2>2. succeed(q) = step(r)
    BY <1>4 DEF succeed
  <2> HIDE DEF r
  <2> QED BY <2>1, <2>2, StepMeasured DEF Measured
<1> QED BY <1>1, <1>2, <1>3, <1>4 DEF SizeOfPhase

(* nextSize (pmtud.go:115) returns a size of the phase it leaves the       *)
(* prober in, strictly inside the bracket during a search.                 *)
LEMMA NextSizeOfPhase ==
  ASSUME NEW q \in Prober, NEW S \in SUBSET Nat, Measured(q, S)
  PROVE  LET r == [q EXCEPT !.phase = nextPhase(q), !.inflight = TRUE,
                            !.size = nextSize(q), !.attempt = 0,
                            !.timeout = AckTimeoutTicks]
         IN  r \in Prober /\ Measured(r, S) /\ SizeOfPhase(r)
<1>1. CASE q.phase = "Search"
  <2>1. nextSize(q) \in Nat /\ q.lo < nextSize(q) /\ nextSize(q) < q.hi
    BY <1>1, PmtudAssumption DEF nextSize, nextPhase, Measured, Prober
  <2>2. nextPhase(q) = "Search"
    BY <1>1 DEF nextPhase
  <2> QED BY <1>1, <2>1, <2>2, PmtudAssumption, Zenon DEF Measured, SizeOfPhase, Prober, Phases
<1>2. CASE q.phase # "Search"
  <2>1. /\ nextPhase(q) \in {"Ceil", "Base", "Floor"}
        /\ nextPhase(q) = "Ceil" => nextSize(q) = q.ceil
        /\ nextPhase(q) = "Base" => nextSize(q) = Base
        /\ nextPhase(q) = "Floor" => nextSize(q) = Floor
    BY <1>2 DEF nextSize, nextPhase, Prober, Phases
  <2>2. nextSize(q) \in Nat
    BY <2>1, PmtudAssumption DEF Prober
  <2> QED BY <2>1, <2>2, PmtudAssumption, Zenon DEF Measured, SizeOfPhase, Prober, Phases
<1> QED BY <1>1, <1>2

-----------------------------------------------------------------------------
(* The prober that New returns satisfies the invariant (pmtud.go:71).      *)
LEMMA InitIInv == Init => IInv
<1> SUFFICES ASSUME Init PROVE IInv
  OBVIOUS
<1>1. Clamped(ifMTU) \in Nat
  BY PmtudAssumption DEF Init, Clamped
<1>2. New(ifMTU) \in Prober /\ New(ifMTU).phase = "Idle"
      /\ ~New(ifMTU).inflight /\ New(ifMTU).discovered = 0
  BY <1>1, PmtudAssumption DEF New, Prober, Phases, Unknown
<1>3. TypeOK
  BY <1>2, PmtudAssumption DEF Init, TypeOK, Prober, NoProbe
<1> QED BY <1>2, <1>3 DEF Init, IInv, Measured, AcksBelong, SizesFit

(* Ageing the probes in flight keeps their sizes and staleness; with a new *)
(* id none of them has age 0.                                              *)
LEMMA AgedProbes ==
  ASSUME NEW d \in {0, 1}, net \subseteq Probes
  PROVE  /\ Aged(d) \subseteq Probes
         /\ \A m \in Aged(d) : \E n \in net :
              /\ m.size = n.size /\ m.stale = n.stale /\ m.age = n.age + d
<1>1. SUFFICES ASSUME NEW m \in Aged(d)
               PROVE  /\ m \in Probes
                      /\ \E n \in net : /\ m.size = n.size /\ m.stale = n.stale
                                        /\ m.age = n.age + d
  OBVIOUS
<1>2. PICK n \in net : m = [n EXCEPT !.flown = @ + 1, !.age = @ + d]
  BY Zenon DEF Aged
<1>3. n \in Probes /\ n.flown + 1 \in Nat /\ n.age + d \in Nat
  BY DEF Probes
<1>4. m \in Probes /\ m.size = n.size /\ m.stale = n.stale /\ m.age = n.age + d
  BY <1>2, <1>3, Zenon DEF Probes
<1> QED BY <1>4

(* One step of the system keeps the invariant.                             *)
LEMMA NextIInv == IInv /\ [Next]_vars => IInv'
<1> SUFFICES ASSUME IInv, [Next]_vars PROVE IInv'
  OBVIOUS
<1> USE PmtudAssumption
<1>t. p \in Prober /\ net \subseteq Probes /\ proved \in SUBSET Nat /\ sending \in Nat
      /\ ifMTU \in Nat /\ limit \in Nat /\ changes \in Nat /\ restarts \in Nat
      /\ quality \in {"good", "bad", "mended"}
  BY DEF IInv, TypeOK, Prober
<1>1. CASE TickAwait
  <2>1. p' = [p EXCEPT !.timeout = p.timeout - 1] /\ p.timeout > 1 /\ p.inflight
    BY <1>1 DEF TickAwait
  <2>2. p' \in Prober
    BY <2>1, <1>t DEF Prober
  <2>3. Measured(p', proved) /\ SizeOfPhase(p')
    BY <2>1, <1>t DEF IInv, Measured, SizeOfPhase, Prober
  <2>4. net' = Aged(0) /\ UNCHANGED <<sending, ifMTU, limit, proved, quality, changes, restarts>>
        /\ sending = NoProbe
    BY <1>1 DEF TickAwait, Ticking, Silent
  <2>5. net' \subseteq Probes
        /\ \A m \in net' : \E n \in net :
              m.size = n.size /\ m.stale = n.stale /\ m.age = n.age
    BY <2>4, <1>t, AgedProbes DEF Probes
  <2>6. TypeOK'
    BY <2>2, <2>4, <2>5, <1>t DEF TypeOK, Prober
  <2>7. AcksBelong'
    BY <2>1, <2>4, <2>5, <1>t DEF IInv, AcksBelong, Prober
  <2>8. SizesFit'
    BY <2>4, <2>5 DEF IInv, SizesFit
  <2> QED BY <2>3, <2>4, <2>6, <2>7, <2>8 DEF IInv
<1>s. ASSUME p' \in Prober, Measured(p', proved), SizeOfPhase(p'), p'.size \in Nat,
             Ticking, Send
      PROVE  IInv'
  <2>1. net' = Aged(1) /\ sending' = p'.size
        /\ UNCHANGED <<ifMTU, limit, proved, quality, changes, restarts>>
    BY <1>s DEF Ticking, Send
  <2>2. net' \subseteq Probes
        /\ \A m \in net' : \E n \in net :
              m.size = n.size /\ m.stale = n.stale /\ m.age = n.age + 1
    BY <2>1, <1>t, AgedProbes
  <2>3. \A m \in net' : m.age # 0
    BY <2>2, <1>t DEF Probes
  <2>4. TypeOK'
    BY <2>1, <2>2, <1>s, <1>t DEF TypeOK, Prober
  <2>5. AcksBelong'
    BY <2>1, <2>3 DEF AcksBelong
  <2>6. SizesFit'
    BY <2>1, <2>2 DEF IInv, SizesFit
  <2> QED BY <2>1, <2>4, <2>5, <2>6, <1>s DEF IInv
<1>2. CASE TickRetry
  <2>1. p' = [p EXCEPT !.attempt = p.attempt + 1, !.timeout = AckTimeoutTicks]
        /\ p.inflight /\ Ticking /\ Send
    BY <1>2 DEF TickRetry
  <2>a. p.attempt + 1 \in Nat
    BY <1>t DEF Prober
  <2>2. p' \in Prober
    BY <2>1, <2>a, <1>t, Zenon DEF Prober
  <2>3. Measured(p', proved) /\ SizeOfPhase(p')
    BY <2>1, <1>t DEF IInv, Measured, SizeOfPhase, Prober
  <2> QED BY <2>1, <2>2, <2>3, <1>s, Zenon DEF Prober
<1>3. CASE TickAdvance
  <2>1. GivenUp \in Prober /\ Measured(GivenUp, proved) /\ ~GivenUp.inflight
    <3>1. CASE p.inflight
      <4> DEFINE r == [p EXCEPT !.inflight = FALSE, !.attempt = @ + 1, !.timeout = 0]
      <4>0. p.attempt + 1 \in Nat
        BY <1>t DEF Prober
      <4>1. r \in Prober /\ ~r.inflight
        BY <4>0, <1>t, Zenon DEF Prober
      <4>2. Measured(r, proved)
        BY <1>t DEF IInv, Measured, Prober
      <4> QED BY <3>1, <4>1, <4>2, <1>t, FailMeasured, Zenon DEF GivenUp
    <3>2. CASE ~p.inflight
      BY <3>2, <1>t DEF GivenUp, IInv
    <3> QED BY <3>1, <3>2
  <2> DEFINE q == GivenUp
  <2> HIDE DEF q
  <2>q. q \in Prober /\ Measured(q, proved) /\ ~q.inflight
    BY <2>1 DEF q
  <2>2. CASE q.wait > 0 /\ p' = [q EXCEPT !.wait = @ - 1] /\ Silent
    <3>1. p' \in Prober /\ ~p'.inflight
      BY <2>2, <2>q DEF Prober
    <3>2. Measured(p', proved)
      BY <2>2, <2>q DEF Measured, Prober
    <3>3. net' = Aged(0) /\ UNCHANGED <<sending, ifMTU, limit, proved, quality, changes, restarts>>
      BY <1>3, <2>2 DEF TickAdvance, Ticking, Silent
    <3>4. net' \subseteq Probes
          /\ \A m \in net' : \E n \in net : m.size = n.size
      BY <3>3, <1>t, AgedProbes
    <3>5. TypeOK'
      BY <3>1, <3>3, <3>4, <1>t DEF TypeOK, Prober
    <3>6. SizesFit'
      BY <3>3, <3>4 DEF IInv, SizesFit
    <3> QED BY <3>1, <3>2, <3>3, <3>5, <3>6 DEF IInv, AcksBelong
  <2>3. CASE p' = [q EXCEPT !.phase = nextPhase(q), !.inflight = TRUE,
                            !.size = nextSize(q), !.attempt = 0,
                            !.timeout = AckTimeoutTicks] /\ Send
    <3>1. p' \in Prober /\ Measured(p', proved) /\ SizeOfPhase(p')
      BY <2>3, <2>q, <1>t, NextSizeOfPhase, Zenon
    <3> QED BY <3>1, <2>3, <1>3, <1>s, Zenon DEF Prober, TickAdvance
  <2> QED BY <1>3, <2>2, <2>3 DEF TickAdvance, q
<1>4. CASE Transmit
  <2> DEFINE m0 == [age |-> 0, size |-> sending, flown |-> 0, stale |-> FALSE]
  <2>1. net' \subseteq net \cup {m0} /\ sending <= ifMTU /\ sending # NoProbe
        /\ sending' = NoProbe
        /\ UNCHANGED <<p, ifMTU, limit, proved, quality, changes, restarts>>
    BY <1>4 DEF Transmit
  <2>2. m0 \in Probes
    BY <1>t DEF Probes
  <2>3. TypeOK'
    BY <2>1, <2>2, <1>t, Zenon DEF IInv, TypeOK, NoProbe
  <2>4. AcksBelong'
    BY <2>1 DEF IInv, AcksBelong
  <2>5. SizesFit'
    BY <2>1 DEF IInv, SizesFit
  <2> QED BY <2>1, <2>3, <2>4, <2>5 DEF IInv
<1>5. CASE TransmitFails
  <2> DEFINE r == [p EXCEPT !.inflight = FALSE]
  <2>1. p' = (IF p.inflight THEN fail(r) ELSE p) /\ sending' = NoProbe
        /\ UNCHANGED <<net, ifMTU, limit, proved, quality, changes, restarts>>
    BY <1>5 DEF TransmitFails, OnSendError
  <2>2. r \in Prober /\ ~r.inflight
    BY <1>t, Zenon DEF Prober
  <2>3. Measured(r, proved)
    BY <1>t DEF IInv, Measured, Prober
  <2>4. p' \in Prober /\ Measured(p', proved) /\ ~p'.inflight
    <3>1. CASE p.inflight
      BY <3>1, <2>1, <2>2, <2>3, <1>t, FailMeasured, Zenon
    <3>2. CASE ~p.inflight
      BY <3>2, <2>1, <1>t DEF IInv
    <3> QED BY <3>1, <3>2
  <2>5. TypeOK'
    BY <2>1, <2>4, <1>t DEF TypeOK, Prober, NoProbe
  <2>6. SizesFit'
    BY <2>1 DEF IInv, SizesFit
  <2> QED BY <2>1, <2>4, <2>5, <2>6 DEF IInv, AcksBelong
<1>6. ASSUME NEW m \in net, Ack(m) PROVE IInv'
  <2> DEFINE r == [p EXCEPT !.inflight = FALSE]
  <2>1. net' \subseteq net /\ UNCHANGED <<sending, ifMTU, limit, quality, changes, restarts>>
        /\ p' = (IF p.inflight /\ m.age = 0 THEN succeed(r) ELSE p)
        /\ proved' = (IF m.stale THEN proved ELSE proved \cup {m.size})
    BY <1>6 DEF Ack, OnAck
  <2>2. m \in Probes /\ m.size \in Nat /\ m.age \in Nat
    BY <1>t, <1>6 DEF Probes
  <2>3. proved' \in SUBSET Nat /\ proved \subseteq proved'
    BY <2>1, <2>2, <1>t
  <2>4. r \in Prober /\ ~r.inflight /\ r.size = p.size /\ r.phase = p.phase
    BY <1>t, Zenon DEF Prober
  <2>5. Measured(r, proved') /\ Measured(p, proved')
    BY <2>3, <1>t DEF IInv, Measured, Prober
  <2>6. p' \in Prober /\ Measured(p', proved') /\ (p'.inflight => p' = p)
    <3>1. CASE p.inflight /\ m.age = 0
      <4>1. m.size = p.size /\ ~m.stale /\ SizeOfPhase(p)
        BY <3>1 DEF IInv, AcksBelong
      <4>2. r.size \in proved'
        BY <4>1, <2>1, <2>4
      <4>3. SizeOfPhase(r)
        BY <4>1, <1>t DEF SizeOfPhase, Prober
      <4> QED BY <3>1, <4>2, <4>3, <2>1, <2>3, <2>4, <2>5, SucceedMeasured, Zenon
    <3>2. CASE ~(p.inflight /\ m.age = 0)
      BY <3>2, <2>1, <2>5, <1>t
    <3> QED BY <3>1, <3>2
  <2>7. TypeOK'
    BY <2>1, <2>3, <2>6, <1>t DEF TypeOK, Prober
  <2>8. AcksBelong' /\ (p'.inflight => SizeOfPhase(p'))
    BY <2>1, <2>6, Zenon DEF IInv, AcksBelong
  <2>9. SizesFit'
    BY <2>1 DEF IInv, SizesFit
  <2> QED BY <2>6, <2>7, <2>8, <2>9 DEF IInv
<1>7. ASSUME NEW m \in net, Lose(m) PROVE IInv'
  BY <1>7, <1>t DEF Lose, IInv, TypeOK, AcksBelong, SizesFit
<1>8. CASE Restart
  <2>1. p' = Restarted(p) /\ proved' = {} /\ limit' \in Limits
        /\ restarts' = restarts + 1 /\ UNCHANGED <<sending, ifMTU, quality, changes>>
        /\ net' = {[m EXCEPT !.stale = TRUE] : m \in net}
    BY <1>8 DEF Restart
  <2>2. p' \in Prober /\ ~p'.inflight /\ p'.phase = "Idle" /\ p'.discovered = 0
    BY <2>1, <1>t, Zenon DEF Restarted, Prober, Phases, Unknown
  <2>3. net' \subseteq Probes /\ \A m \in net' : m.size <= ifMTU
    BY <2>1, <1>t, Zenon DEF Probes, IInv, SizesFit
  <2>4. TypeOK'
    BY <2>1, <2>2, <2>3, <1>t DEF TypeOK, Prober
  <2> QED BY <2>1, <2>2, <2>3, <2>4 DEF IInv, Measured, AcksBelong, SizesFit
<1>9. CASE Change
  <2>1. limit' \in Nat /\ changes' \in Nat
        /\ UNCHANGED <<p, sending, net, ifMTU, proved, quality, restarts>>
    BY <1>9, <1>t DEF Change
  <2> QED BY <2>1 DEF IInv, TypeOK, AcksBelong, SizesFit
<1>10. CASE Mend
  BY <1>10 DEF Mend, IInv, TypeOK, AcksBelong, SizesFit
<1>11. CASE UNCHANGED vars
  BY <1>11 DEF vars, IInv, TypeOK, AcksBelong, SizesFit
<1> QED BY <1>1, <1>2, <1>3, <1>4, <1>5, <1>6, <1>7, <1>8, <1>9, <1>10, <1>11
        DEF Next, Tick, Resolve

(* The invariant gives the three properties.                               *)
LEMMA IInvImplies == IInv => TypeOK /\ ResultProved /\ SearchBracketed
  BY DEF IInv, ResultProved, SearchBracketed, Measured, SizeOfPhase, SizesFit

(* The invariant holds throughout.                                         *)
LEMMA InvariantHolds == Spec => []IInv
  BY InitIInv, NextIInv, PTL DEF Spec

(* For all constants, the prober's state and the probes in flight have     *)
(* their types: no countdown of Tick passes zero (pmtud.go:80).            *)
THEOREM TypesCorrect == Spec => []TypeOK
  BY InvariantHolds, IInvImplies, PTL

(* For all constants, a discovered MTU is a size that made the round trip  *)
(* since the last restart and fits the local interface (Prober of          *)
(* pmtud.go, with sendMTUProbe).                                           *)
THEOREM DiscoveryProved == Spec => []ResultProved
  BY InvariantHolds, IInvImplies, PTL

(* For all constants, the search stays inside a bracket whose lower end is *)
(* proved and that every answer narrows (pmtud.go:114).                    *)
THEOREM BracketKept == Spec => []SearchBracketed
  BY InvariantHolds, IInvImplies, PTL

-----------------------------------------------------------------------------
(* What the failed probes of a discovery have shown about a path that      *)
(* carries c: each of them was larger, and so is every upper end.          *)
Exceeds(q, c) ==
  /\ q.phase \in {"Base", "Floor"} => c < q.ceil
  /\ q.phase = "Floor" => c < Base
  /\ q.phase = "Search" => c < q.hi
  /\ q.discovered > 0 => c - Granularity < q.discovered
  /\ q.discovered = Dead => c < Floor

(* A probe the path carries is still to be sent, or under way: it is not   *)
(* lost, and its round trip ends before the prober's timeout.              *)
Awaited ==
  p.inflight /\ p.size <= Carried =>
    \/ sending # NoProbe /\ p.timeout = AckTimeoutTicks
    \/ \E m \in net : m.age = 0 /\ m.flown + p.timeout >= AckTimeoutTicks

(* Since the last restart only sizes the network carries came back.        *)
Returned ==
  /\ \A s \in proved : s <= limit
  /\ \A m \in net : ~m.stale => m.size <= limit

Good == quality = "good" /\ changes = 0

TInv ==
  /\ Floor <= p.ceil /\ ifMTU <= p.ceil
  /\ Good => Exceeds(p, Carried) /\ Awaited /\ Returned

(* step (pmtud.go:197) ends a converged search close below its upper end.  *)
LEMMA StepExceeds ==
  ASSUME NEW q \in Prober, NEW c \in Nat, Exceeds(q, c)
  PROVE  /\ Exceeds(step(q), c)
         /\ step(q).ceil = q.ceil /\ step(q).inflight = q.inflight
<1>1. CASE q.phase = "Search" /\ Converged(q)
  <2> DEFINE r == finish(q, q.lo)
  <2>1. step(q) = r
    BY <1>1 DEF step
  <2>2. /\ r.discovered = q.lo /\ r.phase = "Done"
        /\ r.inflight = q.inflight /\ r.ceil = q.ceil
    BY DEF finish, Prober
  <2>3. c < q.hi /\ q.hi - q.lo <= Granularity /\ q.hi \in Nat /\ q.lo \in Nat
    BY <1>1 DEF Exceeds, Converged, Prober
  <2>4. c - Granularity < q.lo /\ q.lo # Dead
    BY <2>3, PmtudAssumption DEF Dead
  <2> HIDE DEF r
  <2> QED BY <2>1, <2>2, <2>4 DEF Exceeds
<1>2. CASE ~(q.phase = "Search" /\ Converged(q))
  BY <1>2 DEF step
<1> QED BY <1>1, <1>2

(* fail (pmtud.go:176) learns that the path carries less than the size.    *)
LEMMA FailExceeds ==
  ASSUME NEW q \in Prober, NEW c \in Nat, Exceeds(q, c), SizeOfPhase(q), c < q.size
  PROVE  Exceeds(fail(q), c) /\ fail(q).ceil = q.ceil
<1>1. CASE q.phase = "Ceil"
  <2> DEFINE f == IF q.ceil <= Base THEN "Floor" ELSE "Base"
  <2>1. fail(q) = [q EXCEPT !.phase = f]
    BY <1>1 DEF fail
  <2>2. c < q.ceil /\ (f = "Floor" => c < Base) /\ q.ceil \in Nat
    BY <1>1, PmtudAssumption DEF SizeOfPhase, Prober
  <2>3. f \in {"Base", "Floor"}
    OBVIOUS
  <2> HIDE DEF f
  <2>4. /\ fail(q).phase = f /\ fail(q).ceil = q.ceil
        /\ fail(q).discovered = q.discovered
    BY <2>1 DEF Prober
  <2> QED BY <2>2, <2>3, <2>4 DEF Exceeds
<1>2. CASE q.phase = "Base"
  <2>1. fail(q) = [q EXCEPT !.phase = "Floor"]
    BY <1>2 DEF fail
  <2>2. /\ fail(q).phase = "Floor" /\ fail(q).ceil = q.ceil
        /\ fail(q).discovered = q.discovered
    BY <2>1 DEF Prober
  <2> QED BY <1>2, <2>2 DEF Exceeds, SizeOfPhase
<1>3. CASE q.phase = "Floor"
  <2>1. fail(q) = [q EXCEPT !.discovered = Dead, !.phase = "Dead",
                            !.wait = RevalidateTicks]
    BY <1>3 DEF fail
  <2>2. fail(q).phase = "Dead" /\ fail(q).ceil = q.ceil /\ fail(q).discovered = -1
    BY <2>1 DEF Prober, Dead
  <2> QED BY <1>3, <2>2 DEF Exceeds, SizeOfPhase, Dead
<1>4. CASE q.phase = "Search"
  <2> DEFINE r == [q EXCEPT !.hi = q.size]
  <2>1. fail(q) = step(r)
    BY <1>4 DEF fail
  <2>2. /\ r \in Prober /\ r.phase = "Search" /\ r.ceil = q.ceil
        /\ r.discovered = q.discovered /\ r.hi = q.size
    BY <1>4 DEF Prober
  <2> HIDE DEF r
  <2>3. Exceeds(r, c)
    BY <1>4, <2>2 DEF Exceeds
  <2> QED BY <2>1, <2>2, <2>3, StepExceeds
<1> QED BY <1>1, <1>2, <1>3, <1>4 DEF SizeOfPhase

(* succeed (pmtud.go:138) leaves the upper ends where they failed.         *)
LEMMA SucceedExceeds ==
  ASSUME NEW q \in Prober, NEW c \in Nat, Exceeds(q, c), SizeOfPhase(q), c <= q.ceil
  PROVE  /\ Exceeds(succeed(q), c)
         /\ succeed(q).ceil = q.ceil /\ succeed(q).inflight = q.inflight
<1>1. CASE q.phase = "Ceil"
  <2>1. succeed(q) = finish(q, q.ceil)
    BY <1>1 DEF succeed
  <2>2. /\ succeed(q).discovered = q.ceil /\ succeed(q).phase = "Done"
        /\ succeed(q).inflight = q.inflight /\ succeed(q).ceil = q.ceil
    BY <2>1 DEF finish, Prober
  <2>3. c - Granularity < q.ceil /\ q.ceil # Dead
    BY PmtudAssumption DEF Prober, Dead
  <2> QED BY <2>2, <2>3 DEF Exceeds
<1>2. CASE q.phase = "Base"
  <2> DEFINE r == [q EXCEPT !.lo = Base, !.hi = q.ceil, !.phase = "Search"]
  <2>1. succeed(q) = step(r)
    BY <1>2 DEF succeed
  <2>2. /\ r \in Prober /\ r.phase = "Search" /\ r.hi = q.ceil /\ r.ceil = q.ceil
        /\ r.discovered = q.discovered /\ r.inflight = q.inflight
    BY <1>2, PmtudAssumption, Zenon DEF Prober, Phases
  <2> HIDE DEF r
  <2>3. Exceeds(r, c)
    BY <1>2, <2>2 DEF Exceeds
  <2> QED BY <2>1, <2>2, <2>3, StepExceeds
<1>3. CASE q.phase = "Floor"
  <2> DEFINE r == [q EXCEPT !.lo = Floor, !.hi = Base, !.phase = "Search"]
  <2>1. succeed(q) = step(r)
    BY <1>3 DEF succeed
  <2>2. /\ r \in Prober /\ r.phase = "Search" /\ r.hi = Base /\ r.ceil = q.ceil
        /\ r.discovered = q.discovered /\ r.inflight = q.inflight
    BY <1>3, PmtudAssumption, Zenon DEF Prober, Phases
  <2> HIDE DEF r
  <2>3. Exceeds(r, c)
    BY <1>3, <2>2 DEF Exceeds
  <2> QED BY <2>1, <2>2, <2>3, StepExceeds
<1>4. CASE q.phase = "Search"
  <2> DEFINE r == [q EXCEPT !.lo = q.size]
  <2>1. succeed(q) = step(r)
    BY <1>4 DEF succeed
  <2>2. /\ r \in Prober /\ r.phase = "Search" /\ r.hi = q.hi /\ r.ceil = q.ceil
        /\ r.discovered = q.discovered /\ r.inflight = q.inflight
    BY <1>4 DEF Prober
  <2> HIDE DEF r
  <2>3. Exceeds(r, c)
    BY <1>4, <2>2 DEF Exceeds
  <2> QED BY <2>1, <2>2, <2>3, StepExceeds
<1> QED BY <1>1, <1>2, <1>3, <1>4 DEF SizeOfPhase

(* The invariant holds of what New returns: no size has failed yet.        *)
LEMMA InitTInv == Init => TInv
<1> SUFFICES ASSUME Init PROVE TInv
  OBVIOUS
<1>1. ifMTU \in Nat /\ limit \in Nat
  BY PmtudAssumption DEF Init
<1>2. Floor <= Clamped(ifMTU) /\ ifMTU <= Clamped(ifMTU)
  BY <1>1, PmtudAssumption DEF Clamped
<1>3. /\ p.ceil = Clamped(ifMTU) /\ p.phase = "Idle" /\ ~p.inflight
      /\ p.discovered = 0 /\ net = {} /\ proved = {}
  BY DEF Init, New, Unknown
<1> QED BY <1>2, <1>3 DEF TInv, Exceeds, Awaited, Returned, Dead

(* Ageing keeps every probe in flight, one tick further on its way.        *)
LEMMA AgedFlown ==
  ASSUME NEW n \in net, net \subseteq Probes
  PROVE  \E m \in Aged(0) : m.age = n.age /\ m.flown = n.flown + 1
<1> DEFINE m == [n EXCEPT !.flown = @ + 1, !.age = @ + 0]
<1>1. m \in Aged(0)
  BY Zenon DEF Aged
<1>2. m.age = n.age /\ m.flown = n.flown + 1
  BY DEF Probes
<1> QED BY <1>1, <1>2, Zenon

(* A probe that the path carries is not given up while it is good: its ack *)
(* arrives first, as Tick (pmtud.go:80) waits AckTimeoutTicks.             *)
LEMMA OverdueExceeds ==
  ASSUME GoodRtt < AckTimeoutTicks, TypeOK, Awaited, quality = "good",
         Ticking, p.inflight, p.timeout <= 1
  PROVE  Carried < p.size
<1> SUFFICES ASSUME p.size <= Carried PROVE FALSE
  BY DEF TypeOK, Carried
<1>1. PICK m \in net : m.age = 0 /\ m.flown + p.timeout >= AckTimeoutTicks
  BY DEF Awaited, Ticking
<1>2. m.flown < GoodRtt
  BY DEF Ticking, Rtt
<1>3. m.flown \in Nat /\ p.timeout \in Nat
  BY DEF TypeOK, Probes
<1> QED BY <1>1, <1>2, <1>3, PmtudAssumption

(* One step keeps what is known of a good path.                            *)
LEMMA NextTInv ==
  ASSUME GoodRtt < AckTimeoutTicks, IInv, TInv, [Next]_vars
  PROVE  TInv'
<1> USE PmtudAssumption
<1>t. p \in Prober /\ net \subseteq Probes /\ proved \in SUBSET Nat /\ sending \in Nat
      /\ ifMTU \in Nat /\ limit \in Nat /\ changes \in Nat /\ TypeOK
  BY DEF IInv, TypeOK, Prober
<1>c. Carried \in Nat /\ Carried <= ifMTU /\ Carried <= limit /\ Carried <= p.ceil
  BY <1>t DEF Carried, TInv, Prober
<1>u. ASSUME UNCHANGED <<ifMTU, limit, quality, changes>>
      PROVE  Carried' = Carried /\ (Good' <=> Good)
  BY <1>u DEF Carried, Good
<1>1. CASE TickAwait
  <2>1. /\ p' = [p EXCEPT !.timeout = p.timeout - 1] /\ p.timeout > 1
        /\ net' = Aged(0) /\ sending = NoProbe
        /\ UNCHANGED <<sending, ifMTU, limit, quality, proved, changes>>
    BY <1>1 DEF TickAwait, Ticking, Silent
  <2>2. /\ p'.ceil = p.ceil /\ p'.phase = p.phase /\ p'.hi = p.hi /\ p'.size = p.size
        /\ p'.discovered = p.discovered /\ p'.inflight = p.inflight
        /\ p'.timeout = p.timeout - 1 /\ p.timeout \in Nat
    BY <2>1, <1>t DEF Prober
  <2>3. ASSUME Good PROVE Exceeds(p', Carried)
    BY <2>2, <2>3 DEF TInv, Exceeds
  <2>4. ASSUME Good, p.inflight, p.size <= Carried
        PROVE  \E m \in net' : m.age = 0 /\ m.flown + p'.timeout >= AckTimeoutTicks
    <3>1. PICK n \in net : n.age = 0 /\ n.flown + p.timeout >= AckTimeoutTicks
      BY <2>1, <2>4 DEF TInv, Awaited
    <3>2. PICK m \in net' : m.age = n.age /\ m.flown = n.flown + 1
      BY <2>1, <1>t, AgedFlown
    <3>3. n.flown \in Nat
      BY <1>t DEF Probes
    <3> QED BY <2>2, <3>1, <3>2, <3>3
  <2>5. ASSUME Good PROVE Awaited'
    BY <1>u, <2>1, <2>2, <2>4, <2>5 DEF Awaited
  <2>6. ASSUME Good PROVE Returned'
    <3>1. \A m \in net' : \E n \in net : m.size = n.size /\ m.stale = n.stale
      BY <2>1, <1>t, AgedProbes
    <3> QED BY <2>1, <2>6, <3>1 DEF TInv, Returned
  <2>7. Floor <= p'.ceil /\ ifMTU' <= p'.ceil
    BY <2>1, <2>2 DEF TInv
  <2> QED BY <1>u, <2>1, <2>3, <2>5, <2>6, <2>7 DEF TInv
<1>s. ASSUME Ticking, Send, p'.ceil = p.ceil, p'.timeout = AckTimeoutTicks, p'.size # 0,
             Good => Exceeds(p', Carried)
      PROVE  TInv'
  <2>1. /\ net' = Aged(1) /\ sending' = p'.size
        /\ UNCHANGED <<ifMTU, limit, proved, quality, changes>>
    BY <1>s DEF Ticking, Send
  <2>2. \A m \in net' : \E n \in net : m.size = n.size /\ m.stale = n.stale
    BY <2>1, <1>t, AgedProbes
  <2>3. ASSUME Good PROVE Returned'
    BY <2>1, <2>2, <2>3 DEF TInv, Returned
  <2>4. Awaited'
    BY <2>1, <1>s DEF Awaited, NoProbe
  <2>5. Floor <= p'.ceil /\ ifMTU' <= p'.ceil
    BY <2>1, <1>s DEF TInv
  <2> QED BY <1>s, <1>u, <2>1, <2>3, <2>4, <2>5 DEF TInv
<1>2. CASE TickRetry
  <2>1. /\ p' = [p EXCEPT !.attempt = p.attempt + 1, !.timeout = AckTimeoutTicks]
        /\ p.inflight /\ Ticking /\ Send
    BY <1>2 DEF TickRetry
  <2>2. /\ p'.ceil = p.ceil /\ p'.phase = p.phase /\ p'.hi = p.hi /\ p'.size = p.size
        /\ p'.discovered = p.discovered /\ p'.timeout = AckTimeoutTicks
    BY <2>1, <1>t DEF Prober
  <2>3. p.size # 0
    <3>1. SizeOfPhase(p) /\ Floor <= p.ceil
      BY <2>1 DEF IInv, TInv
    <3> QED BY <3>1, <1>t DEF SizeOfPhase, Prober
  <2>4. Good => Exceeds(p', Carried)
    BY <2>2 DEF TInv, Exceeds
  <2> QED BY <1>s, <2>1, <2>2, <2>3, <2>4
<1>3. CASE TickAdvance
  <2> DEFINE q == GivenUp
  <2>1. /\ q \in Prober /\ Measured(q, proved) /\ ~q.inflight /\ q.ceil = p.ceil
        /\ Good => Exceeds(q, Carried)
    <3>1. CASE p.inflight
      <4> DEFINE r == [p EXCEPT !.inflight = FALSE, !.attempt = @ + 1, !.timeout = 0]
      <4>0. p.attempt + 1 \in Nat
        BY <1>t DEF Prober
      <4>1. /\ r \in Prober /\ ~r.inflight
            /\ r.phase = p.phase /\ r.ceil = p.ceil /\ r.lo = p.lo /\ r.hi = p.hi
            /\ r.size = p.size /\ r.discovered = p.discovered
        BY <4>0, <1>t, Zenon DEF Prober
      <4>2. q = fail(r)
        BY <3>1 DEF GivenUp
      <4> HIDE DEF r, q
      <4>3. Measured(r, proved)
        BY <4>1 DEF IInv, Measured
      <4>4. SizeOfPhase(p)
        BY <3>1 DEF IInv
      <4>5. SizeOfPhase(r)
        BY <4>1, <4>4 DEF SizeOfPhase
      <4>6. q \in Prober /\ Measured(q, proved) /\ ~q.inflight
        BY <4>1, <4>2, <4>3, <1>t, FailMeasured
      <4>7. q.ceil = r.ceil
        BY <4>1, <4>2, <4>5 DEF fail, step, finish, SizeOfPhase, Prober
      <4>8. ASSUME Good PROVE Exceeds(q, Carried)
        <5>1. Carried < p.size
          <6>1. Ticking /\ p.timeout <= 1
            BY <1>3, <3>1 DEF TickAdvance
          <6> QED BY <1>t, <3>1, <4>8, <6>1, OverdueExceeds DEF TInv, Good
        <5>2. Exceeds(r, Carried)
          BY <4>1, <4>8 DEF TInv, Exceeds
        <5> QED BY <1>c, <4>1, <4>2, <4>5, <5>1, <5>2, FailExceeds
      <4> QED BY <4>1, <4>6, <4>7, <4>8
    <3>2. CASE ~p.inflight
      BY <3>2, <1>t DEF GivenUp, IInv, TInv
    <3> QED BY <3>1, <3>2
  <2>2. \/ q.wait > 0 /\ p' = [q EXCEPT !.wait = @ - 1] /\ Silent
        \/ /\ p' = [q EXCEPT !.phase = nextPhase(q), !.inflight = TRUE,
                             !.size = nextSize(q), !.attempt = 0,
                             !.timeout = AckTimeoutTicks]
           /\ Send
    BY <1>3 DEF TickAdvance
  <2>3. Ticking
    BY <1>3 DEF TickAdvance
  <2> HIDE DEF q
  <2>4. CASE q.wait > 0 /\ p' = [q EXCEPT !.wait = @ - 1] /\ Silent
    <3>1. /\ p'.ceil = p.ceil /\ p'.phase = q.phase /\ p'.hi = q.hi
          /\ p'.discovered = q.discovered /\ ~p'.inflight
      BY <2>1, <2>4 DEF Prober
    <3>2. /\ net' = Aged(0)
          /\ UNCHANGED <<ifMTU, limit, proved, quality, changes>>
      BY <2>3, <2>4 DEF Ticking, Silent
    <3>3. \A m \in net' : \E n \in net : m.size = n.size /\ m.stale = n.stale
      BY <3>2, <1>t, AgedProbes
    <3>4. ASSUME Good PROVE Returned'
      BY <3>2, <3>3, <3>4 DEF TInv, Returned
    <3>5. ASSUME Good PROVE Exceeds(p', Carried)
      BY <2>1, <3>1, <3>5 DEF Exceeds
    <3>6. Awaited'
      BY <3>1 DEF Awaited
    <3>7. Floor <= p'.ceil /\ ifMTU' <= p'.ceil
      BY <3>1, <3>2 DEF TInv
    <3> QED BY <1>u, <3>2, <3>4, <3>5, <3>6, <3>7 DEF TInv
  <2>5. CASE /\ p' = [q EXCEPT !.phase = nextPhase(q), !.inflight = TRUE,
                               !.size = nextSize(q), !.attempt = 0,
                               !.timeout = AckTimeoutTicks]
             /\ Send
    <3>1. /\ p'.ceil = p.ceil /\ p'.phase = nextPhase(q) /\ p'.hi = q.hi
          /\ p'.discovered = q.discovered /\ p'.timeout = AckTimeoutTicks
      BY <2>1, <2>5 DEF Prober
    <3>2. nextPhase(q) \in {"Ceil", q.phase}
      BY DEF nextPhase
    <3>3. ASSUME Good PROVE Exceeds(p', Carried)
      BY <2>1, <3>1, <3>2, <3>3 DEF Exceeds
    <3>4. p' \in Prober /\ SizeOfPhase(p')
      BY <2>1, <2>5, <1>t, NextSizeOfPhase, Zenon
    <3>5. p'.size # 0
      <4>1. Floor <= p'.ceil
        BY <3>1 DEF TInv
      <4> QED BY <3>4, <4>1 DEF SizeOfPhase, Prober
    <3> QED BY <1>s, <2>3, <2>5, <3>1, <3>3, <3>5
  <2> QED BY <2>2, <2>4, <2>5
<1>4. CASE Transmit
  <2> DEFINE m0 == [age |-> 0, size |-> sending, flown |-> 0, stale |-> FALSE]
  <2>1. /\ net' = IF sending <= limit THEN net \cup {m0} ELSE net
        /\ sending' = NoProbe /\ sending # NoProbe /\ sending <= ifMTU
        /\ UNCHANGED <<p, ifMTU, limit, proved, quality, changes>>
    BY <1>4 DEF Transmit
  <2>2. m0.age = 0 /\ m0.size = sending /\ m0.flown = 0
    OBVIOUS
  <2> HIDE DEF m0
  <2>3. ASSUME Good PROVE Returned'
    BY <2>1, <2>2, <2>3 DEF TInv, Returned
  <2>4. ASSUME Good, p.inflight, p.size <= Carried
        PROVE  \E m \in net' : m.age = 0 /\ m.flown + p.timeout >= AckTimeoutTicks
    <3>1. sending = p.size
      BY <2>1, <2>4 DEF IInv, AcksBelong
    <3>2. net' = net \cup {m0}
      BY <1>c, <1>t, <2>1, <2>4, <3>1
    <3>3. CASE p.timeout = AckTimeoutTicks
      BY <2>2, <3>2, <3>3
    <3>4. CASE \E m \in net : m.age = 0 /\ m.flown + p.timeout >= AckTimeoutTicks
      BY <3>2, <3>4
    <3> QED BY <2>4, <3>3, <3>4 DEF TInv, Awaited
  <2>5. ASSUME Good PROVE Awaited'
    BY <1>u, <2>1, <2>4, <2>5 DEF Awaited
  <2> QED BY <1>u, <2>1, <2>3, <2>5 DEF TInv
<1>5. CASE TransmitFails
  <2> DEFINE r == [p EXCEPT !.inflight = FALSE]
  <2>1. /\ p' = (IF p.inflight THEN fail(r) ELSE p)
        /\ sending # NoProbe /\ (sending > ifMTU \/ quality = "bad")
        /\ UNCHANGED <<net, ifMTU, limit, proved, quality, changes>>
    BY <1>5 DEF TransmitFails, OnSendError
  <2>2. /\ r \in Prober /\ ~r.inflight
        /\ r.phase = p.phase /\ r.ceil = p.ceil /\ r.lo = p.lo /\ r.hi = p.hi
        /\ r.size = p.size /\ r.discovered = p.discovered
    BY <1>t, Zenon DEF Prober
  <2> HIDE DEF r
  <2>3. Measured(r, proved)
    BY <2>2 DEF IInv, Measured
  <2>4. CASE p.inflight
    <3>1. SizeOfPhase(r)
      BY <2>2, <2>4 DEF IInv, SizeOfPhase
    <3>2. ~p'.inflight
      BY <1>t, <2>1, <2>2, <2>3, <2>4, FailMeasured
    <3>3. p'.ceil = p.ceil
      BY <2>1, <2>2, <2>4, <3>1 DEF fail, step, finish, SizeOfPhase, Prober
    <3>4. ASSUME Good PROVE Exceeds(p', Carried)
      <4>1. sending = p.size /\ sending > ifMTU
        BY <2>1, <2>4, <3>4 DEF IInv, AcksBelong, Good
      <4>2. Carried < r.size
        BY <1>c, <1>t, <2>2, <4>1
      <4>3. Exceeds(r, Carried)
        BY <2>2, <3>4 DEF TInv, Exceeds
      <4> QED BY <1>c, <2>1, <2>2, <2>4, <3>1, <4>2, <4>3, FailExceeds
    <3>5. ASSUME Good PROVE Returned'
      BY <2>1, <3>5 DEF TInv, Returned
    <3>6. Awaited'
      BY <3>2 DEF Awaited
    <3>7. Floor <= p'.ceil /\ ifMTU' <= p'.ceil
      BY <2>1, <3>3 DEF TInv
    <3> QED BY <1>u, <2>1, <3>4, <3>5, <3>6, <3>7 DEF TInv
  <2>5. CASE ~p.inflight
    <3>1. UNCHANGED <<p, net, ifMTU, limit, proved, quality, changes>>
      BY <2>1, <2>5
    <3>2. Awaited'
      BY <2>5, <3>1 DEF Awaited
    <3> QED BY <1>u, <3>1, <3>2 DEF TInv, Returned
  <2> QED BY <2>4, <2>5
<1>6. ASSUME NEW m \in net, Ack(m) PROVE TInv'
  <2> DEFINE r == [p EXCEPT !.inflight = FALSE]
  <2>1. /\ net' = net \ {m}
        /\ UNCHANGED <<sending, ifMTU, limit, quality, changes>>
        /\ p' = (IF p.inflight /\ m.age = 0 THEN succeed(r) ELSE p)
        /\ proved' = (IF m.stale THEN proved ELSE proved \cup {m.size})
    BY <1>6 DEF Ack, OnAck
  <2>2. /\ r \in Prober /\ ~r.inflight
        /\ r.phase = p.phase /\ r.ceil = p.ceil /\ r.lo = p.lo /\ r.hi = p.hi
        /\ r.size = p.size /\ r.discovered = p.discovered
    BY <1>t, Zenon DEF Prober
  <2> HIDE DEF r
  <2>3. ASSUME Good PROVE Returned'
    BY <2>1, <2>3 DEF TInv, Returned
  <2>4. CASE p.inflight /\ m.age = 0
    <3>1. SizeOfPhase(r)
      BY <2>2, <2>4 DEF IInv, SizeOfPhase
    <3>2. p' = succeed(r)
      BY <2>1, <2>4
    <3>3. p'.ceil = p.ceil /\ ~p'.inflight
      BY <2>2, <3>1, <3>2 DEF succeed, step, finish, SizeOfPhase, Prober
    <3>4. ASSUME Good PROVE Exceeds(p', Carried)
      <4>1. Exceeds(r, Carried)
        BY <2>2, <3>4 DEF TInv, Exceeds
      <4> QED BY <1>c, <2>2, <3>1, <3>2, <4>1, SucceedExceeds
    <3>5. Awaited'
      BY <3>3 DEF Awaited
    <3>6. Floor <= p'.ceil /\ ifMTU' <= p'.ceil
      BY <2>1, <3>3 DEF TInv
    <3> QED BY <1>u, <2>1, <2>3, <3>4, <3>5, <3>6 DEF TInv
  <2>5. CASE ~(p.inflight /\ m.age = 0)
    <3>1. p' = p
      BY <2>1, <2>5
    <3>2. ASSUME Good PROVE Awaited'
      BY <1>u, <2>1, <2>5, <3>1, <3>2 DEF TInv, Awaited
    <3> QED BY <1>u, <2>1, <2>3, <3>1, <3>2 DEF TInv
  <2> QED BY <2>4, <2>5
<1>7. ASSUME NEW m \in net, Lose(m) PROVE TInv'
  <2>1. quality = "bad" /\ UNCHANGED <<p, ifMTU, quality>>
    BY <1>7 DEF Lose
  <2> QED BY <2>1 DEF TInv, Good
<1>8. CASE Restart
  <2>1. /\ p' = Restarted(p) /\ proved' = {} /\ limit' \in Nat /\ UNCHANGED ifMTU
        /\ net' = {[m EXCEPT !.stale = TRUE] : m \in net}
    BY <1>8 DEF Restart
  <2>2. /\ ~p'.inflight /\ p'.phase = "Idle" /\ p'.discovered = 0 /\ p'.ceil = p.ceil
    BY <2>1, <1>t DEF Restarted, Prober, Unknown
  <2>3. \A m \in net' : m.stale
    BY <2>1, <1>t DEF Probes
  <2>4. Exceeds(p', Carried') /\ Awaited' /\ Returned'
    BY <2>1, <2>2, <2>3 DEF Exceeds, Awaited, Returned, Dead
  <2> QED BY <2>1, <2>2, <2>4 DEF TInv
<1>9. CASE Change
  <2>1. changes' # 0 /\ UNCHANGED <<p, ifMTU>>
    BY <1>9, <1>t DEF Change
  <2> QED BY <2>1 DEF TInv, Good
<1>10. CASE Mend
  <2>1. quality' = "mended" /\ UNCHANGED <<p, ifMTU>>
    BY <1>10 DEF Mend
  <2> QED BY <2>1 DEF TInv, Good
<1>11. CASE UNCHANGED vars
  BY <1>11 DEF vars, TInv, Good, Carried, Awaited, Returned
<1> QED BY <1>1, <1>2, <1>3, <1>4, <1>5, <1>6, <1>7, <1>8, <1>9, <1>10, <1>11
        DEF Next, Tick, Resolve

(* The two invariants bound the result from above and from below.          *)
LEMMA TInvImplies == IInv /\ TInv => Accurate
<1> SUFFICES ASSUME IInv, TInv, Good PROVE Truthful
  BY DEF Accurate, Good
<1>1. ASSUME p.discovered > 0 PROVE p.discovered <= Carried
  <2>1. p.discovered \in proved
    BY <1>1 DEF IInv, Measured
  <2> QED BY <2>1 DEF IInv, SizesFit, TInv, Returned, Carried
<1> QED BY <1>1 DEF TInv, Exceeds, Truthful

(* "Discovered may understate the true MTU by up to this many bytes"       *)
(* (pmtud.go:28): on a path that loses no probe, brings each back before   *)
(* the ack timeout and only changes with a restart, the discovered MTU is  *)
(* never more than the path carries and less than Granularity below it,    *)
(* and a path is called Dead only if it cannot carry Floor.                *)
THEOREM DiscoveryAccurate ==
  ASSUME GoodRtt < AckTimeoutTicks
  PROVE  Spec => []Accurate
<1>1. IInv /\ TInv /\ [Next]_vars => TInv'
  BY NextTInv
<1>2. Spec => []IInv
  BY InvariantHolds
<1> QED BY <1>1, <1>2, InitTInv, TInvImplies, PTL DEF Spec

-----------------------------------------------------------------------------
(* The limiter of the ICMP replies (pmtunotify.go) that tell a sender the  *)
(* MTU, for all rates, caps and sweeps.                                    *)
(*                                                                         *)
(* RateBounded is about the past alone and is not inductive: that the next *)
(* reply fits depends on what is in the bucket.  Budget relates the two:   *)
(* since any earlier reply, the replies allowed and the tokens a source    *)
(* may still spend come to no more than a full bucket and what the rate    *)
(* added.  A reaped bucket is full, so forgetting it leaves the budget.    *)

(* The units of a full bucket.                                             *)
Burstful == Burst * Unit

(* What a source may still spend now covers what it spent since any of its *)
(* replies: the n replies since time t and the tokens left are at most a   *)
(* full bucket and what the rate added since t.                            *)
Budget ==
  \A s \in Sources : \A i \in DOMAIN log[s] :
    (Len(log[s]) - i + 1) * Unit + Refilled(s) <= Burstful + (now - log[s][i]) * Rate

(* The inductive invariant.                                                *)
LInv == LimiterTypeOK /\ RateBounded /\ Budget

(* The constants are naturals, and a full bucket holds a token.            *)
LEMMA LimiterConstants ==
  /\ Unit \in Nat \ {0} /\ Rate \in Nat \ {0} /\ Burst \in Nat \ {0}
  /\ SweepStride \in Nat \ {0} /\ CapIdle \in Nat /\ SweepIdle \in Nat
  /\ MaxTime \in Nat /\ MaxCalls \in Nat
  /\ Burstful \in Nat /\ Unit <= Burstful
<1>1. /\ Unit \in Nat \ {0} /\ Rate \in Nat \ {0} /\ Burst \in Nat \ {0}
      /\ SweepStride \in Nat \ {0} /\ CapIdle \in Nat /\ SweepIdle \in Nat
      /\ MaxTime \in Nat /\ MaxCalls \in Nat
  BY LimiterAssumption
<1>2. Burst * Unit \in Nat
  BY <1>1
<1>3. Unit <= Burst * Unit
  BY <1>1
<1> QED BY <1>1, <1>2, <1>3 DEF Burstful

(* The smaller of two numbers.                                             *)
LEMMA LeastOfTwo ==
  ASSUME NEW a \in Int, NEW b \in Int
  PROVE  Least({a, b}) = IF a <= b THEN a ELSE b
<1>1. \E x \in {a, b} : \A y \in {a, b} : x <= y
  OBVIOUS
<1>2. Least({a, b}) \in {a, b} /\ \A y \in {a, b} : Least({a, b}) <= y
  BY <1>1 DEF Least
<1> QED BY <1>2

(* What Refilled returns: a number of units up to a full bucket.           *)
LEMMA RefilledIs ==
  ASSUME LimiterTypeOK, NEW s
  PROVE  /\ Refilled(s) \in 0 .. Burstful
         /\ s \notin DOMAIN buckets => Refilled(s) = Burstful
         /\ s \in DOMAIN buckets =>
              /\ (now - buckets[s].last) * Rate \in Nat
              /\ buckets[s].tokens \in 0 .. Burstful
              /\ LET x == buckets[s].tokens + (now - buckets[s].last) * Rate
                 IN  Refilled(s) = IF Burstful <= x THEN Burstful ELSE x
<1>1. CASE s \notin DOMAIN buckets
  BY <1>1, LimiterConstants DEF Refilled, Burstful
<1>2. CASE s \in DOMAIN buckets
  <2> DEFINE d == now - buckets[s].last
             t == buckets[s].tokens
  <2>1. t \in 0 .. Burstful /\ d \in Nat
    <3>1. /\ buckets[s] \in [tokens : 0 .. Burstful, last : 0 .. now]
          /\ now \in 0 .. MaxTime
      BY <1>2 DEF LimiterTypeOK, Burstful
    <3> QED BY <3>1, LimiterConstants
  <2> HIDE DEF d, t
  <2>2. d * Rate \in Nat
    BY <2>1, LimiterConstants
  <2> DEFINE e == d * Rate
  <2>3. Refilled(s) = Least({Burstful, t + e})
    BY <1>2 DEF Refilled, Burstful, d, t
  <2> HIDE DEF e
  <2>4. Refilled(s) = IF Burstful <= t + e THEN Burstful ELSE t + e
    BY <2>1, <2>2, <2>3, LeastOfTwo, LimiterConstants DEF e
  <2>5. Refilled(s) \in 0 .. Burstful
    BY <2>1, <2>2, <2>4, LimiterConstants DEF e
  <2> QED BY <1>2, <2>1, <2>2, <2>4, <2>5 DEF d, t, e
<1> QED BY <1>1, <1>2

(* The invariant holds of a new limiter.                                   *)
LEMMA InitLInv == ASSUME LimiterInit PROVE LInv
<1>1. DOMAIN buckets = {} /\ \A s \in Sources : log[s] = <<>> /\ DOMAIN log[s] = {}
  BY DEF LimiterInit
<1>2. LimiterTypeOK
  <2>1. now = 0 /\ tick = 0 /\ calls = 0 /\ log \in [Sources -> Seq(0 .. 0)]
    BY DEF LimiterInit
  <2> QED BY <1>1, <2>1, LimiterConstants DEF LimiterTypeOK
<1> QED BY <1>1, <1>2 DEF LInv, RateBounded, Budget

(* Time: a bucket gains at most Rate per tick.                             *)
LEMMA ElapseLInv == ASSUME LInv, Elapse PROVE LInv'
<1>1. now \in Nat /\ now' = now + 1 /\ UNCHANGED <<buckets, tick, calls, log>>
  BY LimiterConstants DEF LInv, LimiterTypeOK, Elapse
<1>2. LimiterTypeOK'
  <2>1. 0 .. now \in SUBSET (0 .. now')
    BY <1>1
  <2>2. log \in [Sources -> Seq(0 .. now')]
    <3>1. \A s \in Sources : log[s] \in Seq(0 .. now')
      BY <2>1, SeqMonotonic, Zenon DEF LInv, LimiterTypeOK
    <3> QED BY <3>1 DEF LInv, LimiterTypeOK
  <2>3. now' \in 0 .. MaxTime
    BY <1>1, LimiterConstants DEF Elapse
  <2>4. \A s \in DOMAIN buckets : buckets[s] \in [tokens : 0 .. Burst * Unit, last : 0 .. now']
    BY <2>1 DEF LInv, LimiterTypeOK
  <2> QED BY <1>1, <2>2, <2>3, <2>4 DEF LInv, LimiterTypeOK
<1>3. RateBounded'
  BY <1>1, <1>2 DEF LInv, RateBounded
<1>4. ASSUME NEW s \in Sources
      PROVE  Refilled(s)' \in Int /\ Refilled(s)' <= Refilled(s) + Rate
  <2>1. CASE s \notin DOMAIN buckets
    <3>1. Refilled(s) = Burstful /\ Refilled(s)' = Burstful
      BY <1>1, <2>1 DEF Refilled, Burstful
    <3> QED BY <3>1, LimiterConstants
  <2>2. CASE s \in DOMAIN buckets
    <3> DEFINE d == now - buckets[s].last
               t == buckets[s].tokens
               e == d * Rate
               f == (d + 1) * Rate
    <3>1. t \in 0 .. Burstful /\ d \in Nat
      <4>1. /\ buckets[s] \in [tokens : 0 .. Burstful, last : 0 .. now]
            /\ now \in 0 .. MaxTime
        BY <2>2 DEF LInv, LimiterTypeOK, Burstful
      <4> QED BY <4>1, LimiterConstants
    <3>2. Refilled(s) = Least({Burstful, t + e}) /\ Refilled(s)' = Least({Burstful, t + f})
      <4>1. now' - buckets[s].last = d + 1
        BY <1>1, <2>2 DEF LInv, LimiterTypeOK
      <4> QED BY <1>1, <2>2, <4>1 DEF Refilled, Burstful
    <3> HIDE DEF d, t
    <3>3. e \in Nat /\ f \in Nat /\ f = e + Rate
      BY <3>1, LimiterConstants
    <3> HIDE DEF e, f
    <3>4. /\ Refilled(s) = IF Burstful <= t + e THEN Burstful ELSE t + e
          /\ Refilled(s)' = IF Burstful <= t + f THEN Burstful ELSE t + f
      BY <3>1, <3>2, <3>3, LeastOfTwo, LimiterConstants
    <3> QED BY <3>1, <3>3, <3>4, LimiterConstants
  <2> QED BY <2>1, <2>2
<1>5. Budget'
  <2> SUFFICES ASSUME NEW s \in Sources, NEW i \in DOMAIN log[s]
               PROVE  (Len(log[s]) - i + 1) * Unit + Refilled(s)'
                        <= Burstful + (now' - log[s][i]) * Rate
    BY <1>1 DEF Budget
  <2> DEFINE m == (Len(log[s]) - i + 1) * Unit
             g == (now - log[s][i]) * Rate
             h == (now' - log[s][i]) * Rate
  <2>1. log[s] \in Seq(0 .. now) /\ i \in 1 .. Len(log[s]) /\ Len(log[s]) \in Nat
    BY DEF LInv, LimiterTypeOK
  <2>2. log[s][i] \in 0 .. now
    BY <2>1, ElementOfSeq, Zenon
  <2>3. m \in Int
    BY <2>1, LimiterConstants
  <2>4. g \in Int /\ h = g + Rate
    BY <1>1, <2>2, LimiterConstants
  <2>5. m + Refilled(s) <= Burstful + g
    BY DEF LInv, Budget
  <2> HIDE DEF m, g, h
  <2>6. Refilled(s) \in Int /\ Refilled(s)' \in Int
    <3>1. Refilled(s) \in 0 .. Burstful
      BY RefilledIs DEF LInv
    <3> QED BY <1>4, <3>1
  <2>7. m + Refilled(s)' <= Burstful + h
    BY <1>4, <2>3, <2>4, <2>5, <2>6, LimiterConstants
  <2> QED BY <2>7 DEF m, h
<1> QED BY <1>2, <1>3, <1>5 DEF LInv

(* A sweep drops only buckets that are full, and none that was just used.  *)
LEMMA SweepKeeps ==
  ASSUME NEW bs, NEW idle
  PROVE  LET k == sweepLocked(bs, idle) IN
         /\ DOMAIN k \subseteq DOMAIN bs
         /\ \A x \in DOMAIN k : k[x] = bs[x]
         /\ \A x \in DOMAIN bs : x \notin DOMAIN k =>
              bs[x].tokens >= Burstful /\ now - bs[x].last > idle
         /\ k = [x \in DOMAIN k |-> k[x]]
<1> DEFINE D == DOMAIN bs \ Reapable(bs, idle)
           k == [x \in D |-> bs[x]]
<1>1. sweepLocked(bs, idle) = k
  BY DEF sweepLocked, Restrict
<1>2. \A x \in DOMAIN bs : x \notin D => bs[x].tokens >= Burstful /\ now - bs[x].last > idle
  BY DEF Reapable, Burstful
<1> HIDE DEF D
<1>3. DOMAIN k = D /\ (\A x \in D : k[x] = bs[x]) /\ k = [x \in D |-> k[x]]
  OBVIOUS
<1>4. D \subseteq DOMAIN bs
  BY DEF D
<1> HIDE DEF k
<1> QED BY <1>1, <1>2, <1>3, <1>4

(* What Allow(s) does to the buckets: s is charged, every other source     *)
(* keeps its bucket or loses a full one.                                   *)
LEMMA AllowBuckets ==
  ASSUME LimiterTypeOK, NEW s \in Sources, Allow(s)
  PROVE  LET r == Refilled(s) IN
         /\ DOMAIN buckets' \subseteq DOMAIN buckets \cup {s}
         /\ s \in DOMAIN buckets'
         /\ buckets'[s] = [tokens |-> IF r >= Unit THEN r - Unit ELSE r, last |-> now]
         /\ \A x \in DOMAIN buckets' : x # s => buckets'[x] = buckets[x]
         /\ \A x \in DOMAIN buckets : x \notin DOMAIN buckets' => buckets[x].tokens >= Burstful
<1> DEFINE r     == Refilled(s)
           roomy == Roomy(s)
           known == [x \in DOMAIN roomy \cup {s} |->
                       IF x = s THEN [tokens |-> r, last |-> now] ELSE roomy[x]]
           kept  == IF SweepDue THEN sweepLocked(known, SweepIdle) ELSE known
<1>1. buckets' = IF r >= Unit THEN [kept EXCEPT ![s].tokens = @ - Unit] ELSE kept
  BY DEF Allow
<1>2. /\ DOMAIN roomy \subseteq DOMAIN buckets
      /\ \A x \in DOMAIN roomy : roomy[x] = buckets[x]
      /\ \A x \in DOMAIN buckets : x \notin DOMAIN roomy => buckets[x].tokens >= Burstful
  <2>1. CASE roomy = buckets
    BY <2>1
  <2>2. CASE roomy = sweepLocked(buckets, CapIdle)
    <3> HIDE DEF roomy
    <3> QED BY <2>2, SweepKeeps
  <2> QED BY <2>1, <2>2, Zenon DEF Roomy
<1> HIDE DEF roomy, r
<1>3. /\ DOMAIN known = DOMAIN roomy \cup {s}
      /\ known[s] = [tokens |-> r, last |-> now]
      /\ \A x \in DOMAIN known : x # s => x \in DOMAIN roomy /\ known[x] = roomy[x]
      /\ known = [x \in DOMAIN known |-> known[x]]
  BY Zenon
<1> HIDE DEF known
<1>4. ~(now - known[s].last > SweepIdle)
  <2>1. ~(now - now > SweepIdle)
    BY LimiterConstants DEF LimiterTypeOK
  <2> QED BY <1>3, <2>1
<1>5. /\ DOMAIN kept \subseteq DOMAIN known /\ s \in DOMAIN kept
      /\ \A x \in DOMAIN kept : kept[x] = known[x]
      /\ \A x \in DOMAIN known : x \notin DOMAIN kept => known[x].tokens >= Burstful
      /\ kept = [x \in DOMAIN kept |-> kept[x]]
  <2>1. CASE SweepDue
    <3>1. kept = sweepLocked(known, SweepIdle)
      BY <2>1
    <3> HIDE DEF kept
    <3>2. /\ DOMAIN kept \subseteq DOMAIN known
          /\ \A x \in DOMAIN kept : kept[x] = known[x]
          /\ \A x \in DOMAIN known : x \notin DOMAIN kept =>
               known[x].tokens >= Burstful /\ now - known[x].last > SweepIdle
          /\ kept = [x \in DOMAIN kept |-> kept[x]]
      BY <3>1, SweepKeeps
    <3>3. s \in DOMAIN known
      BY <1>3
    <3> QED BY <1>4, <3>2, <3>3
  <2>2. CASE ~SweepDue
    BY <1>3, <2>2
  <2> QED BY <2>1, <2>2, Zenon
<1> HIDE DEF kept
<1>6. /\ DOMAIN buckets' = DOMAIN kept
      /\ buckets'[s] = [tokens |-> IF r >= Unit THEN r - Unit ELSE r, last |-> now]
      /\ \A x \in DOMAIN kept : x # s => buckets'[x] = kept[x]
  BY <1>1, <1>3, <1>5
<1>7. DOMAIN buckets' \subseteq DOMAIN buckets \cup {s} /\ s \in DOMAIN buckets'
  BY <1>2, <1>3, <1>5, <1>6
<1>8. ASSUME NEW x \in DOMAIN buckets', x # s PROVE buckets'[x] = buckets[x]
  BY <1>2, <1>3, <1>5, <1>6, <1>8
<1>9. ASSUME NEW x \in DOMAIN buckets, x \notin DOMAIN buckets'
      PROVE  buckets[x].tokens >= Burstful
  BY <1>2, <1>3, <1>5, <1>6, <1>9
<1> QED BY <1>6, <1>7, <1>8, <1>9 DEF r

(* A call keeps the invariant: s pays a token for the reply it is allowed, *)
(* and what a sweep drops is the bucket a new source starts with.          *)
LEMMA AllowLInv ==
  ASSUME LInv, NEW s \in Sources, Allow(s)
  PROVE  LInv'
<1> DEFINE r  == Refilled(s)
           ok == r >= Unit
<1>1. /\ DOMAIN buckets' \subseteq DOMAIN buckets \cup {s}
      /\ s \in DOMAIN buckets'
      /\ buckets'[s] = [tokens |-> IF ok THEN r - Unit ELSE r, last |-> now]
      /\ \A x \in DOMAIN buckets' : x # s => buckets'[x] = buckets[x]
      /\ \A x \in DOMAIN buckets : x \notin DOMAIN buckets' => buckets[x].tokens >= Burstful
  BY AllowBuckets, Zenon DEF LInv
<1>2. r \in 0 .. Burstful
  BY RefilledIs DEF LInv
<1>3. now' = now /\ now \in Nat /\ log \in [Sources -> Seq(0 .. now)]
  BY LimiterConstants DEF LInv, LimiterTypeOK, Allow
<1>4. log' = IF ok THEN [log EXCEPT ![s] = Append(@, now)] ELSE log
  BY DEF Allow
<1>5. tick' \in 0 .. SweepStride - 1 /\ calls' \in 0 .. MaxCalls
  <2>1. /\ tick' = IF tick + 1 >= SweepStride THEN 0 ELSE tick + 1
        /\ calls < MaxCalls /\ calls' = calls + 1
    BY DEF Allow, SweepDue
  <2>2. tick \in 0 .. SweepStride - 1 /\ calls \in 0 .. MaxCalls
    BY DEF LInv, LimiterTypeOK
  <2> QED BY <2>1, <2>2, LimiterConstants
<1> HIDE DEF r, ok
<1>6. ok <=> r >= Unit
  BY DEF ok
<1>7. log' \in [Sources -> Seq(0 .. now)]
  <2>1. log[s] \in Seq(0 .. now) /\ now \in 0 .. now
    BY <1>3
  <2>2. Append(log[s], now) \in Seq(0 .. now)
    BY <2>1, AppendProperties
  <2> QED BY <1>3, <1>4, <2>2
<1>8. LimiterTypeOK'
  <2>1. \A x \in DOMAIN buckets' : buckets'[x] \in [tokens : 0 .. Burstful, last : 0 .. now]
    <3>1. buckets'[s] \in [tokens : 0 .. Burstful, last : 0 .. now]
      <4>1. (IF ok THEN r - Unit ELSE r) \in 0 .. Burstful
        BY <1>2, <1>6, LimiterConstants
      <4> QED BY <1>1, <1>3, <4>1
    <3>2. \A x \in DOMAIN buckets : buckets[x] \in [tokens : 0 .. Burstful, last : 0 .. now]
      BY DEF LInv, LimiterTypeOK, Burstful
    <3> QED BY <1>1, <3>1, <3>2
  <2>2. DOMAIN buckets' \subseteq Sources
    BY <1>1 DEF LInv, LimiterTypeOK
  <2>3. now' \in 0 .. MaxTime
    BY <1>3 DEF LInv, LimiterTypeOK
  <2> QED BY <1>3, <1>5, <1>7, <2>1, <2>2, <2>3 DEF LimiterTypeOK, Burstful
<1>9. Refilled(s)' = IF ok THEN r - Unit ELSE r
  <2> DEFINE t == IF ok THEN r - Unit ELSE r
  <2>1. Refilled(s)' = Least({Burstful, t + (now - now) * Rate})
    BY <1>1, <1>3 DEF Refilled, Burstful
  <2>2. t \in 0 .. Burstful
    BY <1>2, <1>6, LimiterConstants
  <2>3. (now - now) * Rate = 0
    BY <1>3, LimiterConstants
  <2> HIDE DEF t
  <2>4. t + (now - now) * Rate = t
    BY <2>2, <2>3
  <2>5. Refilled(s)' = Least({Burstful, t})
    BY <2>1, <2>4
  <2>6. Refilled(s)' = t
    BY <2>2, <2>5, LeastOfTwo, LimiterConstants
  <2> QED BY <2>6 DEF t
<1>10. ASSUME NEW x \in Sources, x # s PROVE Refilled(x)' = Refilled(x)
  <2>1. CASE x \in DOMAIN buckets'
    <3>1. x \in DOMAIN buckets /\ buckets'[x] = buckets[x]
      BY <1>1, <1>10, <2>1
    <3> QED BY <1>3, <2>1, <3>1 DEF Refilled
  <2>2. CASE x \notin DOMAIN buckets'
    <3>1. Refilled(x)' = Burstful
      BY <2>2 DEF Refilled, Burstful
    <3>2. CASE x \notin DOMAIN buckets
      BY <3>1, <3>2 DEF Refilled, Burstful
    <3>3. CASE x \in DOMAIN buckets
      <4> DEFINE e == (now - buckets[x].last) * Rate
                 t == buckets[x].tokens
      <4>1. e \in Nat /\ t \in 0 .. Burstful /\ Refilled(x) = IF Burstful <= t + e THEN Burstful ELSE t + e
        BY <3>3, RefilledIs DEF LInv
      <4>2. t >= Burstful
        BY <1>1, <2>2, <3>3
      <4> HIDE DEF e, t
      <4>3. Burstful <= t + e
        BY <4>1, <4>2, LimiterConstants
      <4> QED BY <3>1, <4>1, <4>3
    <3> QED BY <3>2, <3>3
  <2> QED BY <2>1, <2>2
<1>11. CASE ~ok
  <2>1. log' = log
    BY <1>4, <1>11
  <2>2. \A x \in Sources : Refilled(x)' = Refilled(x)
    BY <1>9, <1>10, <1>11 DEF r
  <2>3. RateBounded'
    BY <1>8, <2>1 DEF LInv, RateBounded
  <2>4. Budget'
    BY <1>3, <2>1, <2>2 DEF LInv, Budget
  <2> QED BY <1>8, <2>3, <2>4 DEF LInv
<1>12. CASE ok
  <2> DEFINE l == log[s]
             n == Len(l)
             m == log'[s]
  <2>1. /\ l \in Seq(0 .. now) /\ n \in Nat
        /\ m = Append(l, now)
        /\ \A x \in Sources : x # s => log'[x] = log[x]
    BY <1>3, <1>4, <1>12
  <2>2. /\ Len(m) = n + 1 /\ DOMAIN m = 1 .. n + 1 /\ DOMAIN l = 1 .. n
        /\ m[n + 1] = now
        /\ \A i \in 1 .. n : m[i] = l[i] /\ l[i] \in 0 .. now
    <3>1. now \in 0 .. now
      BY <1>3
    <3> QED BY <2>1, <3>1
  <2>3. Refilled(s)' = r - Unit /\ r - Unit >= 0
    BY <1>2, <1>6, <1>9, <1>12, LimiterConstants
  <2>4. \A i \in 1 .. n : (n - i + 1) * Unit + r <= Burstful + (now - l[i]) * Rate
    BY <2>2 DEF LInv, Budget, r
  <2> HIDE DEF l, n, m
  <2>5. \A i \in 1 .. n + 1 :
          (n + 1 - i + 1) * Unit + (r - Unit) <= Burstful + (now - m[i]) * Rate
    <3> SUFFICES ASSUME NEW i \in 1 .. n + 1
                 PROVE  (n + 1 - i + 1) * Unit + (r - Unit) <= Burstful + (now - m[i]) * Rate
      OBVIOUS
    <3>1. CASE i = n + 1
      <4>1. (n + 1 - i + 1) * Unit = Unit /\ (now - m[i]) * Rate = 0
        BY <1>3, <2>1, <2>2, <3>1, LimiterConstants
      <4> QED BY <1>2, <4>1, LimiterConstants
    <3>2. CASE i # n + 1
      <4> DEFINE a == (n - i + 1) * Unit
                 b == (now - l[i]) * Rate
      <4>1. i \in 1 .. n /\ n - i + 1 \in Nat
        BY <2>1, <3>2
      <4>2. a + r <= Burstful + b
        BY <2>4, <4>1
      <4>3. (n + 1 - i + 1) * Unit = a + Unit /\ a \in Int
        BY <2>1, <4>1, LimiterConstants
      <4>4. (now - m[i]) * Rate = b /\ b \in Int
        BY <1>3, <2>2, <4>1, LimiterConstants
      <4> HIDE DEF a, b
      <4> QED BY <1>2, <4>2, <4>3, <4>4, LimiterConstants
    <3> QED BY <3>1, <3>2
  <2>6. Budget'
    <3>1. \A x \in Sources : x # s => \A i \in DOMAIN log'[x] :
            (Len(log'[x]) - i + 1) * Unit + Refilled(x)' <= Burstful + (now' - log'[x][i]) * Rate
      BY <1>3, <1>10, <2>1 DEF LInv, Budget
    <3>2. \A i \in DOMAIN log'[s] :
            (Len(log'[s]) - i + 1) * Unit + Refilled(s)' <= Burstful + (now' - log'[s][i]) * Rate
      <4>1. \A i \in DOMAIN m :
              (Len(m) - i + 1) * Unit + Refilled(s)' <= Burstful + (now' - m[i]) * Rate
        <5>1. now' = now /\ Len(m) = n + 1 /\ DOMAIN m = 1 .. n + 1
          BY <1>3, <2>2
        <5>2. Refilled(s)' = r - Unit
          BY <2>3
        <5>3. \A i \in 1 .. n + 1 :
                (Len(m) - i + 1) * Unit + Refilled(s)' <= Burstful + (now' - m[i]) * Rate
          <6> SUFFICES ASSUME NEW i \in 1 .. n + 1
                       PROVE  (Len(m) - i + 1) * Unit + Refilled(s)'
                                <= Burstful + (now' - m[i]) * Rate
            OBVIOUS
          <6> DEFINE a == (n + 1 - i + 1) * Unit
                     b == (now - m[i]) * Rate
          <6>1. a + (r - Unit) <= Burstful + b
            BY <2>5
          <6>2. (Len(m) - i + 1) * Unit = a
            <7>1. n \in Nat /\ Len(m) = n + 1
              BY <2>1, <2>2
            <7>2. Len(m) - i + 1 = n + 1 - i + 1
              BY <7>1
            <7> QED BY <7>2
          <6>3. (now' - m[i]) * Rate = b
            <7>1. now' - m[i] = now - m[i]
              BY <1>3
            <7> QED BY <7>1
          <6> HIDE DEF a, b
          <6> QED BY <5>2, <6>1, <6>2, <6>3
        <5> QED BY <5>1, <5>3
      <4> QED BY <4>1 DEF m
    <3> QED BY <3>1, <3>2 DEF Budget
  <2>7. RateBounded'
    <3>1. ASSUME NEW x \in Sources, NEW i \in DOMAIN log'[x], NEW j \in DOMAIN log'[x], i <= j
          PROVE  (j - i + 1) * Unit <= Burstful + (log'[x][j] - log'[x][i]) * Rate
      <4>1. CASE x # s
        BY <2>1, <3>1, <4>1, Zenon DEF LInv, RateBounded, Burstful
      <4>2. CASE x = s /\ j \in 1 .. n
        <5>1. i \in 1 .. n /\ j \in 1 .. n
          BY <2>1, <2>2, <3>1, <4>2 DEF m
        <5>2. (j - i + 1) * Unit <= Burstful + (l[j] - l[i]) * Rate
          BY <2>2, <3>1, <5>1, Zenon DEF LInv, RateBounded, Burstful, l
        <5> QED BY <2>2, <4>2, <5>1, <5>2 DEF m
      <4>3. CASE x = s /\ j = n + 1
        <5> DEFINE a == (n + 1 - i + 1) * Unit
                   b == (now - m[i]) * Rate
        <5>1. i \in 1 .. n + 1
          BY <2>2, <4>3 DEF m
        <5>2. a + (r - Unit) <= Burstful + b
          BY <2>5, <5>1
        <5>3. a \in Int /\ b \in Int
          <6>1. CASE i = n + 1
            <7>1. n + 1 - i + 1 = 1 /\ now - m[i] = 0
              BY <1>3, <2>1, <2>2, <6>1
            <7> QED BY <7>1, LimiterConstants
          <6>2. CASE i \in 1 .. n
            <7>1. m[i] \in Int /\ n \in Nat /\ now \in Nat
              BY <1>3, <2>1, <2>2, <6>2
            <7>2. n + 1 - i + 1 \in Int /\ now - m[i] \in Int /\ Unit \in Int /\ Rate \in Int
              BY <6>2, <7>1, LimiterConstants
            <7> QED BY <7>2
          <6>3. i = n + 1 \/ i \in 1 .. n
            BY <2>1, <5>1
          <6> QED BY <6>1, <6>2, <6>3
        <5> HIDE DEF a, b
        <5>4. a <= Burstful + b
          BY <1>2, <2>3, <5>2, <5>3, LimiterConstants
        <5>5. (j - i + 1) * Unit = a
          <6>1. n \in Nat /\ i \in Int /\ j = n + 1
            BY <2>1, <4>3, <5>1
          <6>2. j - i + 1 = n + 1 - i + 1
            BY <6>1
          <6> QED BY <6>2 DEF a
        <5>6. log'[x][j] = now /\ log'[x][i] = m[i]
          BY <2>2, <4>3 DEF m
        <5>7. (log'[x][j] - log'[x][i]) * Rate = b
          BY <5>6 DEF b
        <5> QED BY <5>4, <5>5, <5>7
      <4>4. x = s => j \in 1 .. n + 1
        BY <2>2, <3>1 DEF m
      <4>5. x = s => j \in 1 .. n \/ j = n + 1
        BY <2>1, <4>4
      <4> QED BY <4>1, <4>2, <4>3, <4>5
    <3> QED BY <1>8, <3>1 DEF RateBounded, Burstful
  <2> QED BY <1>8, <2>6, <2>7 DEF LInv
<1> QED BY <1>11, <1>12

(* Every step of the limiter keeps the invariant.                          *)
LEMMA NextLInv ==
  ASSUME LInv, [LimiterNext]_limiterVars PROVE LInv'
<1>1. CASE Elapse
  BY <1>1, ElapseLInv
<1>2. ASSUME NEW s \in Sources, Allow(s) PROVE LInv'
  BY <1>2, AllowLInv
<1>3. CASE UNCHANGED limiterVars
  BY <1>3, Zenon DEF LInv, LimiterTypeOK, RateBounded, Budget, Refilled, limiterVars
<1> QED BY <1>1, <1>2, <1>3 DEF LimiterNext

(* "A per-source token bucket prevents an oversized burst from provoking   *)
(* an ICMP storm" (pmtunotify.go:8): whatever the rate, the burst, the cap *)
(* and the sweeps, no source is allowed more replies in an interval than a *)
(* burst and what the rate adds.  Reaping loses no debt, as only full      *)
(* buckets are reaped.                                                     *)
THEOREM RepliesBounded == LimiterSpec => []RateBounded
<1>1. LimiterInit => LInv
  BY InitLInv
<1>2. LInv /\ [LimiterNext]_limiterVars => LInv'
  BY NextLInv
<1>3. LInv => RateBounded
  BY DEF LInv
<1> QED BY <1>1, <1>2, <1>3, PTL DEF LimiterSpec
=============================================================================
