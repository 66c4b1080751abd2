---------------------------- MODULE PathLifecycle ----------------------------
(***************************************************************************)
(* The life of one path: its liveness state (internal/path), its entry in  *)
(* the scheduler (internal/sched) and the goroutines that move both: the   *)
(* prober (session.go proberLoop), the datagram readers (handleDatagram),  *)
(* the link manager (client.go setupLinks) and the control API             *)
(* (status.go RemoveLink).                                                 *)
(*                                                                         *)
(* State and scheduler entry are two objects under no common lock, so each *)
(* goroutine changes them in two steps.  Quality is a choice at each tick, *)
(* silence is counted in prober ticks, weights are left out.               *)
(***************************************************************************)
EXTENDS Integers, FiniteSets

CONSTANTS
  Roles,             \* the processes considered: "client", "server"
  Readers,           \* goroutines that may handle the path's datagrams
  DeadTicks,         \* silence that kills a path (deadAfter)
  DegradeAfterTicks, \* bad ticks in a row that degrade it
  ReviveProbes,      \* probes that revive it
  MaxOwed,           \* bound: PathAcks under way
  MaxFlips           \* bound: outages of the peer and of the link

ASSUME LifecycleAssumption ==
  /\ Roles \subseteq {"client", "server"}
  /\ {DeadTicks, DegradeAfterTicks, ReviveProbes} \subseteq Nat \ {0}
  /\ {MaxOwed, MaxFlips} \subseteq Nat

VARIABLES
  role,       \* whose path it is
  raced,      \* history: an operation began while another was under way
  st,         \* Path.state
  sc,         \* the scheduler's entry: "Absent" or its state
  silence,    \* ticks since the last authenticated receive, capped
  downProbes, \* probesSinceDown
  heard,      \* history: probes received since the path is Down
  acked, conn,          \* client: PathAck seen; the path has a socket
  prober, badTicks,     \* the prober: step, state read, state to set
  reader,               \* each reader's step
  manager,              \* the link manager's or control API's step
  owed, peerUp, flips,  \* the environment
  link        \* "up", "failing" (no socket can be made) or "gone" (not wanted)

proc == <<role, raced>>
net  == <<owed, peerUp, link, flips>>
life == <<st, sc, silence, downProbes, heard, acked, conn>>
lifeVars == <<proc, life, net, prober, badTicks, reader, manager>>

States == {"Probing", "Active", "Degraded", "Down", "Removed"}
Live   == {"Active", "Degraded"}
Idle   == [pc |-> "idle", saw |-> "Probing", to |-> "Probing"]

Quiet ==
  /\ prober.pc = "idle" /\ manager = "idle"
  /\ \A r \in Readers : reader[r] = "idle"

(* An operation of some goroutine begins.                                  *)
Begin == raced' = (raced \/ ~Quiet) /\ UNCHANGED role

Lesser(a, b) == IF a < b THEN a ELSE b

LifeInit ==
  /\ role \in Roles /\ raced = FALSE
  /\ st = "Probing" /\ sc = "Absent"
  /\ silence = 0 /\ downProbes = 0 /\ heard = 0
  /\ acked = FALSE /\ conn = TRUE
  /\ prober = Idle /\ badTicks = 0
  /\ reader = [r \in Readers |-> "idle"] /\ manager = "idle"
  /\ owed = 0 /\ peerUp = TRUE /\ link = "up" /\ flips = 0

(* Path.SetState; the probes heard while the path is Down are a history.   *)
PathSetState(s) == st' = s /\ heard' = 0

(* Scheduler.SetState leaves an absent path absent.                        *)
SchedSetState(s) == sc' = IF sc = "Absent" THEN "Absent" ELSE s

-----------------------------------------------------------------------------
(* The prober.  Look reads the state; a client retries its PathInit.       *)
SendPathInit ==
  owed' = IF conn /\ peerUp THEN Lesser(owed + 1, MaxOwed) ELSE owed

Look ==
  /\ prober.pc = "idle" /\ Begin
  /\ st # "Removed"
  /\ prober' = [Idle EXCEPT !.pc = "judge", !.saw = st]
  /\ silence' = Lesser(silence + 1, DeadTicks + 1)
  /\ IF role = "client" /\ ~acked THEN SendPathInit ELSE UNCHANGED owed
  /\ UNCHANGED <<st, sc, downProbes, heard, acked, conn, badTicks, reader,
                 manager, peerUp, link, flips>>

(* Mutant of Verdict: silence does not take a Degraded path down.          *)
VerdictActiveOnly(quality) ==
  CASE prober.saw = "Active" /\ silence > DeadTicks -> "Down"
    [] prober.saw = "Active" /\ silence <= DeadTicks /\ badTicks' >= DegradeAfterTicks
         -> "Degraded"
    [] prober.saw = "Degraded" /\ silence <= DeadTicks /\ quality = "good" -> "Active"
    [] OTHER -> "none"

(* What the prober makes of the silence and the quality it then finds.     *)
Verdict(quality) ==
  CASE prober.saw \in Live /\ silence > DeadTicks -> "Down"
    [] prober.saw = "Active" /\ silence <= DeadTicks /\ badTicks' >= DegradeAfterTicks
         -> "Degraded"
    [] prober.saw = "Degraded" /\ silence <= DeadTicks /\ quality = "good" -> "Active"
    [] OTHER -> "none"

Judge ==
  /\ prober.pc = "judge"
  /\ \E quality \in {"bad", "fair", "good"} :
       /\ badTicks' = IF prober.saw \in Live /\ silence > DeadTicks THEN badTicks
                      ELSE IF quality = "bad"
                           THEN Lesser(badTicks + 1, DegradeAfterTicks) ELSE 0
       /\ prober' = IF Verdict(quality) = "none" THEN Idle
                    ELSE [Idle EXCEPT !.pc = "path", !.to = Verdict(quality)]
  /\ UNCHANGED <<proc, life, net, reader, manager>>

ProberSetsPath ==
  /\ prober.pc = "path"
  /\ PathSetState(prober.to)
  /\ prober' = [prober EXCEPT !.pc = "sched"]
  /\ UNCHANGED <<proc, sc, silence, downProbes, acked, conn, net, badTicks,
                 reader, manager>>

(* Mutant of ProberSetsSched: the scheduler is not told.                   *)
ProberForgetsSched ==
  /\ prober.pc = "sched"
  /\ prober' = Idle
  /\ UNCHANGED <<proc, life, net, badTicks, reader, manager>>

ProberSetsSched ==
  /\ prober.pc = "sched"
  /\ SchedSetState(prober.to)
  /\ prober' = Idle
  /\ UNCHANGED <<proc, st, silence, downProbes, heard, acked, conn, net, badTicks,
                 reader, manager>>

-----------------------------------------------------------------------------
(* The readers.  Every authenticated receive ends the silence.             *)
Receive(r) ==
  /\ reader[r] = "idle" /\ Begin
  /\ peerUp /\ conn
  /\ silence' = 0

Step(r, pc) == reader' = [reader EXCEPT ![r] = pc]

RecvPathAck(r) ==
  /\ role = "client" /\ owed > 0 /\ Receive(r)
  /\ owed' = owed - 1
  /\ Step(r, "ack")
  /\ UNCHANGED <<st, sc, downProbes, heard, acked, conn, prober, badTicks,
                 manager, peerUp, link, flips>>

OnPathAck(r) ==
  /\ reader[r] = "ack"
  /\ acked' = TRUE
  /\ Step(r, IF ~acked \/ st = "Probing" THEN "admit" ELSE "idle")
  /\ UNCHANGED <<proc, st, sc, silence, downProbes, heard, conn, net, prober,
                 badTicks, manager>>

RecvPathInit(r) ==
  /\ role = "server" /\ Receive(r)
  /\ Step(r, "init")
  /\ UNCHANGED <<st, sc, downProbes, heard, acked, conn, net, prober, badTicks,
                 manager>>

OnPathInit(r) ==
  /\ reader[r] = "init"
  /\ Step(r, IF st \in {"Probing", "Down"} THEN "admit" ELSE "idle")
  /\ UNCHANGED <<proc, life, net, prober, badTicks, manager>>

(* A Down path revives when enough probes were counted.                    *)
Revives == st = "Down" /\ downProbes + 1 >= ReviveProbes

(* OnProbeReceived.                                                        *)
RecvProbe(r) ==
  /\ Receive(r)
  /\ downProbes' = IF st = "Down" /\ ~Revives THEN downProbes + 1 ELSE 0
  /\ heard' = IF st = "Down" THEN Lesser(heard + 1, ReviveProbes) ELSE heard
  /\ Step(r, IF Revives THEN "revive" ELSE "idle")
  /\ UNCHANGED <<st, sc, acked, conn, net, prober, badTicks, manager>>

revivePath(r) ==
  /\ reader[r] = "revive"
  /\ Step(r, IF st = "Down" THEN "admit" ELSE "idle")
  /\ UNCHANGED <<proc, life, net, prober, badTicks, manager>>

(* Mutant of AdmitSetsPath: only the scheduler learns of the admission.    *)
AdmitForgetsPath(r) ==
  /\ reader[r] = "admit"
  /\ Step(r, "add")
  /\ UNCHANGED <<proc, life, net, prober, badTicks, manager>>

(* admitPath: SetState, then AddPath.                                      *)
AdmitSetsPath(r) ==
  /\ reader[r] = "admit"
  /\ PathSetState("Active")
  /\ Step(r, "add")
  /\ UNCHANGED <<proc, sc, silence, downProbes, acked, conn, net, prober,
                 badTicks, manager>>

AdmitAddsPath(r) ==
  /\ reader[r] = "add"
  /\ sc' = "Active"
  /\ Step(r, "idle")
  /\ UNCHANGED <<proc, st, silence, downProbes, heard, acked, conn, net,
                 prober, badTicks, manager>>

-----------------------------------------------------------------------------
(* Mutant of LinkGone: a path without a socket is not looked at again.     *)
LinkGoneOnce ==
  /\ role = "client" /\ manager = "idle" /\ Begin
  /\ \/ link = "failing" /\ st \notin {"Down", "Removed"}
     \/ link = "gone" /\ conn
  /\ conn' = FALSE
  /\ manager' = IF st # "Removed" THEN "remove" ELSE "idle"
  /\ UNCHANGED <<st, sc, silence, downProbes, heard, acked, net, prober,
                 badTicks, reader>>

(* setupLinks finds a live link failing, or a link gone (or RemoveLink is  *)
(* called): markLinkGone.                                                  *)
LinkGone ==
  /\ role = "client" /\ manager = "idle" /\ Begin
  /\ \/ link = "failing" /\ st \notin {"Down", "Removed"}
     \/ link = "gone" /\ (conn \/ st # "Removed")
  /\ conn' = FALSE
  /\ manager' = IF st # "Removed" THEN "remove" ELSE "idle"
  /\ UNCHANGED <<st, sc, silence, downProbes, heard, acked, net, prober,
                 badTicks, reader>>

GoneSetsPath ==
  /\ manager = "remove"
  /\ PathSetState("Removed")
  /\ manager' = "unsched"
  /\ UNCHANGED <<proc, sc, silence, downProbes, acked, conn, net, prober,
                 badTicks, reader>>

GoneRemovesPath ==
  /\ manager = "unsched"
  /\ acked' = FALSE
  /\ sc' = "Absent"
  /\ manager' = "idle"
  /\ UNCHANGED <<proc, st, silence, downProbes, heard, conn, net, prober,
                 badTicks, reader>>

(* setupLinks finds the link back, or its address changed: swapConn, then  *)
(* ResetLiveness, a Removed path is Probing again, and announcePath.       *)
Rebind ==
  /\ role = "client" /\ manager = "idle" /\ Begin /\ link = "up"
  /\ ~conn \/ flips < MaxFlips
  /\ flips' = IF conn THEN flips + 1 ELSE flips
  /\ acked' = FALSE /\ conn' = TRUE
  /\ manager' = "rebound"
  /\ UNCHANGED <<st, sc, silence, downProbes, heard, owed, peerUp, link,
                 prober, badTicks, reader>>

Rebound ==
  /\ manager = "rebound"
  /\ silence' = 0
  /\ IF st = "Removed" THEN PathSetState("Probing") ELSE UNCHANGED <<st, heard>>
  /\ SendPathInit
  /\ manager' = "idle"
  /\ UNCHANGED <<proc, sc, downProbes, acked, conn, peerUp, link, flips, prober,
                 badTicks, reader>>

(* A new handshake re-announces the path (client.go handshakeOnce).        *)
Rekey ==
  /\ role = "client" /\ Begin /\ st # "Removed"
  /\ acked' = FALSE
  /\ SendPathInit
  /\ UNCHANGED <<st, sc, silence, downProbes, heard, conn, peerUp, link, flips,
                 prober, badTicks, reader, manager>>

-----------------------------------------------------------------------------
(* The environment: outages, and lost PathAcks.                            *)
Flip ==
  /\ flips < MaxFlips
  /\ flips' = flips + 1
  /\ \/ peerUp' = ~peerUp /\ UNCHANGED link
     \/ role = "client" /\ link' \in {"up", "failing", "gone"} /\ UNCHANGED peerUp
  /\ UNCHANGED <<proc, life, owed, prober, badTicks, reader, manager>>

LoseAck ==
  /\ owed > 0
  /\ owed' = owed - 1
  /\ UNCHANGED <<proc, life, peerUp, link, flips, prober, badTicks, reader, manager>>

ProberNext  == Look \/ Judge \/ ProberSetsPath \/ ProberSetsSched
ReaderNext(r) ==
  OnPathAck(r) \/ OnPathInit(r) \/ revivePath(r) \/ AdmitSetsPath(r) \/ AdmitAddsPath(r)
Arrival(r)  == RecvPathAck(r) \/ RecvPathInit(r) \/ RecvProbe(r)
ManagerNext == LinkGone \/ GoneSetsPath \/ GoneRemovesPath \/ Rebind \/ Rebound

LifeNext ==
  \/ ProberNext
  \/ \E r \in Readers : ReaderNext(r) \/ Arrival(r)
  \/ ManagerNext
  \/ Rekey
  \/ Flip
  \/ LoseAck

LifeSpec == LifeInit /\ [][LifeNext]_lifeVars

(* Goroutines keep running, the manager polls, and of the probes, PathAcks *)
(* and PathInits that keep being sent some arrive.                         *)
LifeFairSpec ==
  /\ LifeSpec
  /\ WF_lifeVars(ProberNext) /\ WF_lifeVars(ManagerNext)
  /\ \A r \in Readers : WF_lifeVars(ReaderNext(r))
  /\ SF_lifeVars(\E r \in Readers : RecvPathAck(r) \/ RecvPathInit(r))
  /\ SF_lifeVars(\E r \in Readers : RecvProbe(r))

-----------------------------------------------------------------------------
(* States, steps and counters have their types.                            *)
LifeTypeOK ==
  /\ role \in Roles /\ raced \in BOOLEAN
  /\ st \in States /\ sc \in {"Absent", "Active", "Degraded", "Down"}
  /\ silence \in 0 .. DeadTicks + 1 /\ downProbes \in 0 .. ReviveProbes - 1
  /\ heard \in 0 .. ReviveProbes /\ badTicks \in 0 .. DegradeAfterTicks
  /\ acked \in BOOLEAN /\ conn \in BOOLEAN
  /\ prober \in [pc : {"idle", "judge", "path", "sched"}, saw : States, to : States]
  /\ reader \in [Readers -> {"idle", "ack", "init", "revive", "admit", "add"}]
  /\ manager \in {"idle", "remove", "unsched", "rebound"}
  /\ owed \in 0 .. MaxOwed /\ peerUp \in BOOLEAN /\ link \in {"up", "failing", "gone"}
  /\ flips \in 0 .. MaxFlips

(* The scheduler's entry that belongs to a path state: carrying traffic,   *)
(* trickle only, none (path.go:22-33).                                     *)
Agree ==
  CASE st = "Active"   -> sc = "Active"
    [] st = "Degraded" -> sc = "Degraded"
    [] st = "Down"     -> sc \in {"Down", "Absent"}
    [] OTHER           -> sc = "Absent"

(* As long as operations have not overlapped, each leaves the scheduler    *)
(* using the path as its state says, in whatever order probes, acks,       *)
(* outages, rebinds and rekeys come; the types hold throughout.            *)
SchedulerAgrees == LifeTypeOK /\ (Quiet /\ ~raced => Agree)

(* A path whose peer and link stay up keeps coming back to life, however   *)
(* the prober, the readers and the link manager interleave.                *)
ReachableComesBack == <>[](peerUp /\ link = "up") => []<>(st \in Live)

(* A path whose peer falls silent for good stops being live for good.      *)
SilentGoesDown == <>[](~peerUp) => <>[](st \notin Live)

(* A path whose link is gone for good ends Removed: the manager's polling  *)
(* undoes every late admission or stale transition of the other goroutines.*)
GoneIsRemoved == <>[](link = "gone") => <>[](st = "Removed")

-----------------------------------------------------------------------------
(* "Active: carrying traffic" (path.go:25): the scheduler does not leave   *)
(* an Active path unused for ever.                                         *)
ActiveCarriesTraffic == st = "Active" ~> (st = "Active" => sc = "Active")

(* "Down: probe silence; excluded from scheduling" (path.go:29): a path    *)
(* that stays Down does not keep receiving traffic.                        *)
DownIsExcluded == st = "Down" ~> (st = "Down" => sc \in {"Down", "Absent"})

(* "RemovePath drops a path from scheduling entirely" (sched.go:206) when  *)
(* its link is gone: a Removed path does not keep receiving traffic.       *)
RemovedIsExcluded == st = "Removed" ~> (st = "Removed" => sc = "Absent")

(* "reviveProbes: consecutive probe receipts that revive a Down path"      *)
(* (path.go:56): that many probes arrived since the path went Down.        *)
RevivedByProbes ==
  [][\A r \in Readers : reader'[r] = "revive" => heard' >= ReviveProbes]_lifeVars
=============================================================================
