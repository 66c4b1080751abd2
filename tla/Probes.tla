-------------------------------- MODULE Probes -------------------------------
(***************************************************************************)
(* How one side of a path measures the loss towards its peer (internal/    *)
(* path, NextProbe and OnProbeReceived) and what its prober concludes      *)
(* (internal/engine, proberLoop).  Every packet sent on the path is        *)
(* counted; each probe of the peer reports how many arrived; a window of   *)
(* at least MinSample packets between two reports gives a sample.          *)
(*                                                                         *)
(* The counters only enter as differences to the anchors of the current    *)
(* window, so they are kept relative to them: moving the anchors rebases   *)
(* the counters and the reports under way.  A negative difference is the   *)
(* one that wraps in the code's uint64.  The peer runs the same code in    *)
(* the other direction.  Round-trip times, rates and silence are left out  *)
(* (PathLifecycle has the silence).                                        *)
(***************************************************************************)
EXTENDS Integers, Sequences

CONSTANTS
  MinSample,         \* packets a window needs (minLossSample, 20)
  Unit,              \* the loss estimate is counted in 1/Unit
  DegradeLoss,       \* loss that is bad, in the same units
  DegradeTicks,      \* bad ticks in a row that degrade the path (15)
  MaxWindow,         \* bound: packets sent in a window
  MaxUp,             \* bound: packets under way to the peer
  MaxReports,        \* bound: reports under way
  MaxBack,           \* bound: how far a count is behind the anchor
  MaxRestarts        \* bound: restarts of the peer

ASSUME ProbesAssumption ==
  /\ {MinSample, Unit, DegradeLoss, DegradeTicks} \subseteq Nat \ {0}
  /\ MinSample <= MaxWindow
  /\ {MaxWindow, MaxUp, MaxReports, MaxBack, MaxRestarts} \subseteq Nat

VARIABLES
  tx,         \* txPackets - prevOwnTxPackets
  haveReport, \* a first report has set the anchors
  loss,       \* the loss estimate
  pathState,  \* "Active" or "Degraded", in path and scheduler
  badRun,     \* bad ticks in a row
  rx,         \* the peer's rxPackets - prevPeerRxPackets
  up,         \* packets under way to the peer
  reports,    \* probes under way from the peer, in the order they were sent
  quality,    \* "lossy", "cut" (towards the peer) or "idle" (and clean)
  restarts

own        == <<haveReport, loss, pathState, badRun>>
probesVars == <<tx, own, rx, up, reports, quality, restarts>>

Qualities == {"lossy", "cut", "idle"}
Smaller(a, b) == IF a < b THEN a ELSE b

ProbesInit ==
  /\ tx = 0 /\ rx = 0 /\ up = 0 /\ reports = <<>>
  /\ haveReport = FALSE /\ loss = 0
  /\ pathState = "Active" /\ badRun = 0 /\ restarts = 0
  /\ quality = "lossy"

(* On an idle path nothing is slower than the probe interval: a packet is  *)
(* there, and a report back, before the second tick after it.              *)
Prompt == up = 0 /\ \A i \in DOMAIN reports : ~reports[i].old

-----------------------------------------------------------------------------
(* sendData: a data or parity packet the socket takes is counted.          *)
OnDataSent ==
  /\ quality # "idle" /\ tx < MaxWindow /\ up < MaxUp
  /\ tx' = tx + 1 /\ up' = up + 1
  /\ UNCHANGED <<own, rx, reports, quality, restarts>>

(* sendControl: so is a probe.                                             *)
OnControlSent ==
  /\ tx < MaxWindow /\ up < MaxUp
  /\ tx' = tx + 1 /\ up' = up + 1

bad == loss > DegradeLoss

(* The quality check of a tick, with its hysteresis.  The count of bad     *)
(* ticks matters only up to DegradeTicks (DegradeAfterTicks).              *)
QualityCheck ==
  /\ badRun' = IF bad THEN Smaller(badRun + 1, DegradeTicks) ELSE 0
  /\ pathState' =
       IF pathState = "Active" /\ bad /\ badRun' >= DegradeTicks THEN "Degraded"
       ELSE IF pathState = "Degraded" /\ 2 * loss < DegradeLoss THEN "Active"
       ELSE pathState

(* A tick of the prober: it sends a probe, which the socket may refuse,    *)
(* and judges the path.                                                    *)
Tick ==
  /\ quality = "idle" => Prompt
  /\ \/ OnControlSent
     \/ /\ quality # "idle" \/ tx = MaxWindow \/ up = MaxUp
        /\ UNCHANGED <<tx, up>>
  /\ QualityCheck
  /\ reports' = [i \in DOMAIN reports |-> [reports[i] EXCEPT !.old = (quality = "idle")]]
  /\ UNCHANGED <<haveReport, loss, rx, quality, restarts>>

(* OnDataReceived, OnControlReceived, OnProbeReceived: the peer counts.    *)
OnReceived ==
  /\ quality # "cut"
  /\ up > 0 /\ up' = up - 1 /\ rx' = rx + 1
  /\ UNCHANGED <<tx, own, reports, quality, restarts>>

(* NextProbe: the peer reports its count.                                  *)
NextProbe ==
  /\ Len(reports) < MaxReports
  /\ reports' = Append(reports, [rx |-> rx, old |-> FALSE])
  /\ UNCHANGED <<tx, own, rx, up, quality, restarts>>

-----------------------------------------------------------------------------
(* The reports under way beside the i-th.                                  *)
Others(i) == SubSeq(reports, 1, i - 1) \o SubSeq(reports, i + 1, Len(reports))

(* The new anchors are the report's count and what was sent until now.  A  *)
(* count far behind the anchor is as good as one just behind it.           *)
Relative(n, anchor) == IF n - anchor < -MaxBack THEN -MaxBack ELSE n - anchor

Anchor(r, rest) ==
  /\ tx' = 0 /\ rx' = Relative(rx, r.rx)
  /\ reports' = [i \in DOMAIN rest |-> [rest[i] EXCEPT !.rx = Relative(@, r.rx)]]

(* Mutant of Sample: an estimate that is not clamped.                      *)
SampleUnclamped(dRx) == (Unit * (tx - dRx)) \div tx

(* The share of the window that did not arrive; more than all, or a count  *)
(* that wrapped, is no loss.                                               *)
Sample(dRx) ==
  IF dRx < 0 \/ dRx > tx THEN 0 ELSE (Unit * (tx - dRx)) \div tx

(* An average with the weight lossAlpha = 0.3, rounded down.               *)
Average(sample) == (7 * loss + 3 * sample) \div 10

(* Mutant of OnProbeReceived: every report moves the anchors, as if        *)
(* windows of any size were closed but only large ones sampled.            *)
OnProbeReceivedEager(i) ==
  LET r == reports[i] IN
  /\ Anchor(r, Others(i)) /\ haveReport' = TRUE
  /\ loss' = IF haveReport /\ tx >= MinSample THEN Average(Sample(r.rx)) ELSE loss
  /\ UNCHANGED <<pathState, badRun, up, quality, restarts>>

(* Mutant of OnProbeReceived: a report without news is ignored.            *)
OnProbeReceivedNews(i) ==
  LET r == reports[i]
      sampled == haveReport /\ tx >= MinSample /\ r.rx # 0
  IN  /\ haveReport' = TRUE
      /\ loss' = IF sampled THEN Average(Sample(r.rx)) ELSE loss
      /\ IF sampled \/ ~haveReport
         THEN Anchor(r, Others(i))
         ELSE reports' = Others(i) /\ UNCHANGED <<tx, rx>>
      /\ UNCHANGED <<pathState, badRun, up, quality, restarts>>

(* OnProbeReceived: the first report only sets the anchors; a later one    *)
(* closes the window if it is large enough.                                *)
OnProbeReceived(i) ==
  LET r == reports[i]
      sampled == haveReport /\ tx >= MinSample
  IN  /\ haveReport' = TRUE
      /\ loss' = IF sampled THEN Average(Sample(r.rx)) ELSE loss
      /\ IF sampled \/ ~haveReport
         THEN Anchor(r, Others(i))
         ELSE reports' = Others(i) /\ UNCHANGED <<tx, rx>>
      /\ UNCHANGED <<pathState, badRun, up, quality, restarts>>

-----------------------------------------------------------------------------
(* The network towards the peer loses a packet.                            *)
Lose ==
  /\ quality # "idle"
  /\ up > 0 /\ up' = up - 1
  /\ UNCHANGED <<tx, own, rx, reports, quality, restarts>>

(* A probe of the peer is lost.                                            *)
LoseReport(i) ==
  /\ quality = "lossy"
  /\ reports' = Others(i)
  /\ UNCHANGED <<tx, own, rx, up, quality, restarts>>

(* The peer starts afresh and counts from zero; what was under way cannot  *)
(* be opened by its new session.                                           *)
PeerRestart ==
  /\ quality # "idle" /\ restarts < MaxRestarts /\ restarts' = restarts + 1
  /\ \E n \in 0 .. MaxBack : rx' = IF haveReport THEN -n ELSE 0
  /\ up' = 0
  /\ UNCHANGED <<tx, own, reports, quality>>

(* The network carries nothing more to the peer, or loses nothing more.    *)
ChangeQuality ==
  /\ quality # "idle"
  /\ quality' \in {"cut", "idle"} \ {quality}
  /\ UNCHANGED <<tx, own, rx, up, reports, restarts>>

ProbesNext ==
  \/ OnDataSent \/ Tick \/ OnReceived \/ NextProbe
  \/ Lose \/ PeerRestart \/ ChangeQuality
  \/ \E i \in DOMAIN reports : OnProbeReceived(i) \/ LoseReport(i)

ProbesSpec == ProbesInit /\ [][ProbesNext]_probesVars

(* Both probers tick, what the network carries arrives or is lost, and the *)
(* oldest report arrives unless reports are being lost.                    *)
ProbesFairSpec ==
  /\ ProbesSpec
  /\ WF_probesVars(Tick) /\ WF_probesVars(NextProbe)
  /\ WF_probesVars(OnReceived \/ Lose)
  /\ WF_probesVars(reports # <<>> /\ OnProbeReceived(1))

-----------------------------------------------------------------------------
(* The estimate stays within 0 and 1 and the window within its bound.      *)
ProbesTypeOK ==
  /\ tx \in 0 .. MaxWindow /\ up \in 0 .. MaxUp /\ rx \in Int
  /\ haveReport \in BOOLEAN
  /\ loss \in 0 .. Unit
  /\ pathState \in {"Active", "Degraded"} /\ badRun \in 0 .. DegradeTicks
  /\ Len(reports) <= MaxReports
  /\ \A i \in DOMAIN reports : reports[i].rx \in Int /\ reports[i].old \in BOOLEAN
  /\ quality \in Qualities

(* "loss stays fresh even when no data flows (a stale loss estimate would  *)
(* otherwise pin an idle path in Degraded forever)" (path.go:276): on an   *)
(* idle path that loses nothing, whatever happened before, the path ends   *)
(* Active.                                                                 *)
IdleRecovers == <>[](quality = "idle") => <>[](pathState = "Active")

(* A path whose packets no longer reach the peer, while the peer's own     *)
(* still arrive, never goes silent: it is the loss estimate that has to    *)
(* take it out of full use (proberLoop, session.go:806).                   *)
LossNoticed == <>[](quality = "cut") => <>[](pathState = "Degraded")

=============================================================================
