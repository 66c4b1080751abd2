----------------------------- MODULE PathProofs -----------------------------
(***************************************************************************)
(* Three proofs about paths.  The state of a path and its scheduler entry  *)
(* agree whenever no goroutine is between the two, for any number of       *)
(* readers and all timeouts (PathLifecycle).  The scheduler shares the     *)
(* traffic by weight, for any paths, weights, packet lengths and           *)
(* restrictions (Sched).  The loss estimate of a path stays a share        *)
(* between 0 and 1, for all windows and resolutions (Probes).              *)
(***************************************************************************)
EXTENDS PathLifecycle, Sched, Probes, SequenceTheorems, WellFoundedInduction, TLAPS

(* The prober only ever sets a state that a scheduler entry can have.      *)
Settable == {"Active", "Degraded", "Down"}

ToSettable == prober.pc \in {"path", "sched"} => prober.to \in Settable

(* At most one goroutine is in the middle of an operation.                 *)
Alone ==
  /\ prober.pc # "idle" => manager = "idle" /\ \A r \in Readers : reader[r] = "idle"
  /\ manager # "idle" => \A r \in Readers : reader[r] = "idle"
  /\ \A r, q \in Readers : reader[r] # "idle" /\ reader[q] # "idle" => r = q

(* The state is changed and the scheduler not yet told.                    *)
Halfway ==
  \/ prober.pc = "sched" \/ manager = "unsched"
  \/ \E r \in Readers : reader[r] = "add"

(* What the goroutine at work knows of the state.                          *)
Knows ==
  /\ ~Halfway => Agree
  /\ prober.pc = "judge" => prober.saw = st
  /\ prober.pc = "path" => st \in Live
  /\ prober.pc = "sched" => st = prober.to /\ sc # "Absent"
  /\ manager = "unsched" => st = "Removed"
  /\ \A r \in Readers : reader[r] = "add" => st = "Active"

LifeInv == LifeTypeOK /\ ToSettable /\ (~raced => Alone /\ Knows)

(* A new path is Probing and not in the scheduler.                         *)
LEMMA InitLifeInv == LifeInit => LifeInv
<1> SUFFICES ASSUME LifeInit PROVE LifeInv
  OBVIOUS
<1>1. LifeTypeOK
  <2>1. /\ 0 \in 0 .. DeadTicks + 1 /\ 0 \in 0 .. ReviveProbes - 1 /\ 0 \in 0 .. ReviveProbes
        /\ 0 \in 0 .. DegradeAfterTicks /\ 0 \in 0 .. MaxOwed /\ 0 \in 0 .. MaxFlips
    BY LifecycleAssumption
  <2>2. prober \in [pc : {"idle", "judge", "path", "sched"}, saw : States, to : States]
    BY DEF LifeInit, Idle, States
  <2>3. reader \in [Readers -> {"idle", "ack", "init", "revive", "admit", "add"}]
    BY DEF LifeInit
  <2> QED BY <2>1, <2>2, <2>3, Zenon DEF LifeInit, LifeTypeOK, States
<1>2. prober.pc = "idle" /\ manager = "idle" /\ \A r \in Readers : reader[r] = "idle"
  BY DEF LifeInit, Idle
<1>3. Agree
  BY DEF LifeInit, Agree
<1> QED BY <1>1, <1>2, <1>3 DEF LifeInv, ToSettable, Alone, Knows, Halfway

(* Every step keeps the types.                                             *)
LEMMA NextTypes == ASSUME LifeTypeOK, ToSettable, [LifeNext]_lifeVars PROVE LifeTypeOK' /\ ToSettable'
<1> USE LifecycleAssumption
<1>o. SendPathInit => owed' \in 0 .. MaxOwed
  BY DEF SendPathInit, LifeTypeOK, Lesser
<1>1. CASE Look
  <2>1. raced' \in BOOLEAN /\ UNCHANGED role
    BY <1>1 DEF Look, Begin
  <2>2. owed' \in 0 .. MaxOwed
    BY <1>1, <1>o DEF Look, LifeTypeOK
  <2>3. silence' \in 0 .. DeadTicks + 1
    BY <1>1 DEF Look, LifeTypeOK, Lesser
  <2>4. /\ prober' \in [pc : {"idle", "judge", "path", "sched"}, saw : States, to : States]
        /\ prober'.pc = "judge"
    BY <1>1, Zenon DEF Look, LifeTypeOK, Idle, States
  <2>5. UNCHANGED <<st, sc, downProbes, heard, acked, conn, badTicks, reader,
                    manager, peerUp, link, flips>>
    BY <1>1 DEF Look
  <2> QED BY <2>1, <2>2, <2>3, <2>4, <2>5 DEF LifeTypeOK, ToSettable
<1>2. CASE Judge
  <2>1. PICK qu \in {"bad", "fair", "good"} :
          /\ badTicks' = IF prober.saw \in Live /\ silence > DeadTicks THEN badTicks
                         ELSE IF qu = "bad"
                              THEN Lesser(badTicks + 1, DegradeAfterTicks) ELSE 0
          /\ prober' = IF Verdict(qu) = "none" THEN Idle
                       ELSE [Idle EXCEPT !.pc = "path", !.to = Verdict(qu)]
    BY <1>2, Zenon DEF Judge
  <2>2. badTicks' \in 0 .. DegradeAfterTicks
    BY <2>1 DEF LifeTypeOK, Lesser
  <2>3. Verdict(qu) \in Settable \cup {"none"}
    BY DEF Verdict, Settable
  <2>4. /\ prober' \in [pc : {"idle", "judge", "path", "sched"}, saw : States, to : States]
        /\ prober'.pc \in {"path", "sched"} => prober'.to \in Settable
    BY <2>1, <2>3, Zenon DEF Idle, Settable, States
  <2>5. UNCHANGED <<proc, life, net, reader, manager>>
    BY <1>2 DEF Judge
  <2> QED BY <2>2, <2>4, <2>5 DEF LifeTypeOK, ToSettable, proc, life, net
<1>3. CASE ProberSetsPath
  BY <1>3 DEF ProberSetsPath, PathSetState, LifeTypeOK, ToSettable, Settable, States, proc, life, net
<1>4. CASE ProberSetsSched
  BY <1>4 DEF ProberSetsSched, SchedSetState, LifeTypeOK, ToSettable, Settable, Idle, States, proc, life, net
<1>5. ASSUME NEW r \in Readers, ReaderNext(r) PROVE LifeTypeOK' /\ ToSettable'
  <2>1. CASE OnPathAck(r)
    BY <2>1 DEF OnPathAck, Step, LifeTypeOK, ToSettable, proc, life, net
  <2>2. CASE OnPathInit(r)
    BY <2>2 DEF OnPathInit, Step, LifeTypeOK, ToSettable, proc, life, net
  <2>3. CASE revivePath(r)
    BY <2>3 DEF revivePath, Step, LifeTypeOK, ToSettable, proc, life, net
  <2>4. CASE AdmitSetsPath(r)
    BY <2>4 DEF AdmitSetsPath, PathSetState, Step, LifeTypeOK, ToSettable, States, proc, life, net
  <2>5. CASE AdmitAddsPath(r)
    BY <2>5 DEF AdmitAddsPath, Step, LifeTypeOK, ToSettable, proc, life, net
  <2> QED BY <1>5, <2>1, <2>2, <2>3, <2>4, <2>5 DEF ReaderNext
<1>6. ASSUME NEW r \in Readers, Arrival(r) PROVE LifeTypeOK' /\ ToSettable'
  <2>1. CASE RecvPathAck(r)
    BY <2>1 DEF RecvPathAck, Receive, Begin, Step, LifeTypeOK, ToSettable, proc, life, net
  <2>2. CASE RecvPathInit(r)
    BY <2>2 DEF RecvPathInit, Receive, Begin, Step, LifeTypeOK, ToSettable, proc, life, net
  <2>3. CASE RecvProbe(r)
    BY <2>3 DEF RecvProbe, Receive, Begin, Step, Revives, Lesser, LifeTypeOK, ToSettable, proc, life, net
  <2> QED BY <1>6, <2>1, <2>2, <2>3 DEF Arrival
<1>7. CASE LinkGone
  BY <1>7, Zenon DEF LinkGone, Begin, LifeTypeOK, ToSettable, proc, life, net
<1>8. CASE GoneSetsPath
  BY <1>8 DEF GoneSetsPath, PathSetState, LifeTypeOK, ToSettable, States, proc, life, net
<1>9. CASE GoneRemovesPath
  BY <1>9, Zenon DEF GoneRemovesPath, LifeTypeOK, ToSettable, proc, life, net
<1>10. CASE Rebind
  <2>1. raced' \in BOOLEAN /\ UNCHANGED role
    BY <1>10 DEF Rebind, Begin
  <2>2. flips' \in 0 .. MaxFlips
    <3>1. CASE conn
      BY <1>10, <3>1 DEF Rebind, LifeTypeOK
    <3>2. CASE ~conn
      BY <1>10, <3>2 DEF Rebind, LifeTypeOK
    <3> QED BY <3>1, <3>2
  <2>3. /\ acked' \in BOOLEAN /\ conn' \in BOOLEAN /\ manager' = "rebound"
        /\ UNCHANGED <<st, sc, silence, downProbes, heard, owed, peerUp, link,
                       prober, badTicks, reader>>
    BY <1>10, Zenon DEF Rebind
  <2> QED BY <2>1, <2>2, <2>3 DEF LifeTypeOK, ToSettable
<1>11. CASE Rebound
  BY <1>11 DEF Rebound, PathSetState, SendPathInit, Lesser, LifeTypeOK, ToSettable, States, proc, life, net
<1>12. CASE Rekey
  <2>1. raced' \in BOOLEAN /\ UNCHANGED role
    BY <1>12 DEF Rekey, Begin
  <2>2. owed' \in 0 .. MaxOwed
    BY <1>12, <1>o DEF Rekey
  <2>3. /\ acked' \in BOOLEAN
        /\ UNCHANGED <<st, sc, silence, downProbes, heard, conn, peerUp, link, flips,
                       prober, badTicks, reader, manager>>
    BY <1>12, Zenon DEF Rekey
  <2> QED BY <2>1, <2>2, <2>3 DEF LifeTypeOK, ToSettable
<1>13. CASE Flip
  <2>1. flips' \in 0 .. MaxFlips
    BY <1>13 DEF Flip, LifeTypeOK
  <2>2. peerUp' \in BOOLEAN
    BY <1>13, Zenon DEF Flip, LifeTypeOK
  <2>3. link' \in {"up", "failing", "gone"}
    BY <1>13 DEF Flip, LifeTypeOK
  <2>4. UNCHANGED <<proc, life, owed, prober, badTicks, reader, manager>>
    BY <1>13 DEF Flip
  <2> QED BY <2>1, <2>2, <2>3, <2>4 DEF LifeTypeOK, ToSettable, proc, life
<1>14. CASE LoseAck
  BY <1>14 DEF LoseAck, LifeTypeOK, ToSettable, proc, life, net
<1>15. CASE UNCHANGED lifeVars
  BY <1>15 DEF lifeVars, LifeTypeOK, ToSettable, proc, life, net
<1> QED BY <1>1, <1>2, <1>3, <1>4, <1>5, <1>6, <1>7, <1>8, <1>9, <1>10, <1>11, <1>12,
           <1>13, <1>14, <1>15 DEF LifeNext, ProberNext, ManagerNext

(* Every step that begins no operation beside another leaves one goroutine *)
(* at work, which knows the state.                                         *)
LEMMA NextKnows == ASSUME LifeInv, [LifeNext]_lifeVars, ~raced' PROVE Alone' /\ Knows'
<1>t. /\ prober \in [pc : {"idle", "judge", "path", "sched"}, saw : States, to : States]
      /\ reader \in [Readers -> {"idle", "ack", "init", "revive", "admit", "add"}]
      /\ ToSettable
  BY DEF LifeInv, LifeTypeOK
<1>b. ASSUME Begin
      PROVE  /\ prober.pc = "idle" /\ manager = "idle"
             /\ \A r \in Readers : reader[r] = "idle"
             /\ Agree
  <2>1. ~raced /\ Quiet
    BY <1>b, Zenon DEF Begin
  <2>2. ~Halfway
    BY <2>1 DEF Quiet, Halfway
  <2> QED BY <2>1, <2>2 DEF LifeInv, Knows, Quiet
<1>n. ASSUME UNCHANGED proc PROVE Alone /\ Knows
  BY <1>n DEF proc, LifeInv
<1>q. ASSUME UNCHANGED <<st, sc, prober, reader, manager>>, Alone /\ Knows PROVE Alone' /\ Knows'
  BY <1>q DEF Alone, Knows, Halfway, Agree
<1>s. ASSUME NEW r \in Readers, NEW c, Step(r, c), reader[r] # "idle",
             Alone, UNCHANGED <<prober, manager>>
      PROVE  /\ reader'[r] = c /\ \A q \in Readers : q # r => reader'[q] = "idle"
             /\ prober'.pc = "idle" /\ manager' = "idle"
             /\ prober.pc = "idle" /\ manager = "idle"
             /\ \A q \in Readers : q # r => reader[q] = "idle"
  BY <1>s, <1>t DEF Step, Alone
<1>a. ASSUME NEW r \in Readers, NEW c, Step(r, c), Begin,
             UNCHANGED <<prober, manager>>
      PROVE  /\ reader'[r] = c /\ \A q \in Readers : q # r => reader'[q] = "idle"
             /\ prober'.pc = "idle" /\ manager' = "idle"
  BY <1>a, <1>b, <1>t DEF Step
<1>1. CASE Look
  <2>1. /\ prober'.pc = "judge" /\ prober'.saw = st /\ Begin
        /\ UNCHANGED <<st, sc, reader, manager>>
    BY <1>1 DEF Look, Idle
  <2> QED BY <1>b, <2>1 DEF Alone, Knows, Halfway, Agree
<1>2. CASE Judge
  <2>1. PICK qu \in {"bad", "fair", "good"} :
          prober' = IF Verdict(qu) = "none" THEN Idle
                    ELSE [Idle EXCEPT !.pc = "path", !.to = Verdict(qu)]
    BY <1>2, Zenon DEF Judge
  <2>2. prober.pc = "judge" /\ UNCHANGED <<proc, st, sc, reader, manager>>
    BY <1>2 DEF Judge, life
  <2>3. Alone /\ Knows
    BY <1>n, <2>2
  <2>4. Verdict(qu) # "none" => prober.saw \in Live
    BY DEF Verdict, Live
  <2>5. prober'.pc = "idle" \/ (prober'.pc = "path" /\ st \in Live)
    <3>1. prober.saw = st
      BY <2>2, <2>3 DEF Knows
    <3>2. CASE Verdict(qu) = "none"
      <4>1. prober' = Idle
        BY <2>1, <3>2
      <4>2. Idle.pc = "idle"
        BY DEF Idle
      <4> QED BY <4>1, <4>2
    <3>3. CASE Verdict(qu) # "none"
      <4>1. prober' = [Idle EXCEPT !.pc = "path", !.to = Verdict(qu)]
        BY <2>1, <3>3
      <4>2. prober'.pc = "path"
        BY <4>1 DEF Idle
      <4> QED BY <2>4, <3>1, <3>3, <4>2
    <3> QED BY <3>2, <3>3
  <2>6. Agree /\ manager = "idle" /\ \A r \in Readers : reader[r] = "idle"
    BY <2>2, <2>3 DEF Alone, Knows, Halfway
  <2> QED BY <2>2, <2>5, <2>6 DEF Alone, Knows, Halfway, Agree
<1>3. CASE ProberSetsPath
  <2>1. /\ prober.pc = "path" /\ prober'.pc = "sched" /\ prober'.to = prober.to
        /\ st' = prober.to /\ UNCHANGED <<proc, sc, reader, manager>>
    BY <1>3, <1>t DEF ProberSetsPath, PathSetState
  <2>2. Alone /\ Knows
    BY <1>n, <2>1
  <2>3. manager = "idle" /\ \A r \in Readers : reader[r] = "idle"
    BY <2>1, <2>2 DEF Alone
  <2>4. sc # "Absent"
    <3>1. st \in Live /\ Agree
      BY <2>1, <2>2, <2>3 DEF Knows, Halfway
    <3> QED BY <3>1 DEF Agree, Live
  <2> QED BY <2>1, <2>3, <2>4 DEF Alone, Knows, Halfway
<1>4. CASE ProberSetsSched
  <2>1. /\ prober.pc = "sched" /\ prober'.pc = "idle"
        /\ sc' = (IF sc = "Absent" THEN "Absent" ELSE prober.to)
        /\ UNCHANGED <<proc, st, reader, manager>>
    BY <1>4 DEF ProberSetsSched, SchedSetState, Idle
  <2>2. Alone /\ Knows
    BY <1>n, <2>1
  <2>3. manager = "idle" /\ \A r \in Readers : reader[r] = "idle"
    BY <2>1, <2>2 DEF Alone
  <2>4. st' = prober.to /\ sc' = prober.to /\ prober.to \in Settable
    BY <1>t, <2>1, <2>2 DEF Knows, ToSettable
  <2>5. Agree'
    BY <2>4 DEF Agree, Settable
  <2> QED BY <2>1, <2>3, <2>5 DEF Alone, Knows, Halfway
<1>5. ASSUME NEW r \in Readers, ReaderNext(r) PROVE Alone' /\ Knows'
  <2>1. Alone /\ Knows /\ UNCHANGED <<prober, manager>>
    BY <1>5, <1>n DEF ReaderNext, OnPathAck, OnPathInit, revivePath, AdmitSetsPath, AdmitAddsPath
  <2>2. ASSUME NEW c \in {"idle", "admit"}, Step(r, c), reader[r] \in {"ack", "init", "revive"},
               UNCHANGED <<st, sc>>
        PROVE  Alone' /\ Knows'
    <3>1. /\ reader'[r] = c /\ \A q \in Readers : q # r => reader'[q] = "idle"
          /\ prober'.pc = "idle" /\ manager' = "idle"
          /\ prober.pc = "idle" /\ manager = "idle"
          /\ \A q \in Readers : q # r => reader[q] = "idle"
      BY <1>s, <2>1, <2>2
    <3>2. Agree
      BY <2>1, <2>2, <3>1 DEF Knows, Halfway
    <3> QED BY <2>2, <3>1, <3>2 DEF Alone, Knows, Halfway, Agree
  <2>3. CASE OnPathAck(r)
    BY <2>2, <2>3 DEF OnPathAck
  <2>4. CASE OnPathInit(r)
    BY <2>2, <2>4 DEF OnPathInit, life
  <2>5. CASE revivePath(r)
    BY <2>2, <2>5 DEF revivePath, life
  <2>6. CASE AdmitSetsPath(r)
    <3>1. reader[r] = "admit" /\ Step(r, "add") /\ st' = "Active"
      BY <2>6 DEF AdmitSetsPath, PathSetState
    <3>2. /\ reader'[r] = "add" /\ \A q \in Readers : q # r => reader'[q] = "idle"
          /\ prober'.pc = "idle" /\ manager' = "idle"
      BY <1>s, <2>1, <3>1
    <3> QED BY <3>1, <3>2 DEF Alone, Knows, Halfway
  <2>7. CASE AdmitAddsPath(r)
    <3>1. reader[r] = "add" /\ Step(r, "idle") /\ sc' = "Active" /\ UNCHANGED st
      BY <2>7 DEF AdmitAddsPath
    <3>2. /\ reader'[r] = "idle" /\ \A q \in Readers : q # r => reader'[q] = "idle"
          /\ prober'.pc = "idle" /\ manager' = "idle"
      BY <1>s, <2>1, <3>1
    <3>3. st' = "Active"
      BY <2>1, <3>1 DEF Knows
    <3> QED BY <3>1, <3>2, <3>3 DEF Alone, Knows, Halfway, Agree
  <2> QED BY <1>5, <2>3, <2>4, <2>5, <2>6, <2>7 DEF ReaderNext
<1>6. ASSUME NEW r \in Readers, Arrival(r) PROVE Alone' /\ Knows'
  <2>1. /\ Begin /\ UNCHANGED <<st, sc, prober, manager>>
        /\ \E c \in {"ack", "init", "revive", "idle"} : Step(r, c)
    BY <1>6 DEF Arrival, RecvPathAck, RecvPathInit, RecvProbe, Receive
  <2>2. PICK c \in {"ack", "init", "revive", "idle"} : Step(r, c)
    BY <2>1
  <2>3. /\ reader'[r] = c /\ \A q \in Readers : q # r => reader'[q] = "idle"
        /\ prober'.pc = "idle" /\ manager' = "idle"
    BY <1>a, <2>1, <2>2
  <2> QED BY <1>b, <2>1, <2>3 DEF Alone, Knows, Halfway, Agree
<1>7. CASE LinkGone
  <2>1. Begin /\ manager' \in {"remove", "idle"} /\ UNCHANGED <<st, sc, prober, reader>>
    BY <1>7 DEF LinkGone
  <2> QED BY <1>b, <2>1 DEF Alone, Knows, Halfway, Agree
<1>8. CASE GoneSetsPath
  <2>1. manager = "remove" /\ manager' = "unsched" /\ st' = "Removed" /\ UNCHANGED <<proc, prober, reader>>
    BY <1>8 DEF GoneSetsPath, PathSetState
  <2>2. prober.pc = "idle" /\ \A r \in Readers : reader[r] = "idle"
    BY <1>n, <2>1 DEF Alone
  <2> QED BY <2>1, <2>2 DEF Alone, Knows, Halfway
<1>9. CASE GoneRemovesPath
  <2>1. /\ manager = "unsched" /\ manager' = "idle" /\ sc' = "Absent"
        /\ UNCHANGED <<proc, st, prober, reader>>
    BY <1>9 DEF GoneRemovesPath
  <2>2. prober.pc = "idle" /\ \A r \in Readers : reader[r] = "idle"
    BY <1>n, <2>1 DEF Alone
  <2>3. st' = "Removed"
    BY <1>n, <2>1 DEF Knows
  <2> QED BY <2>1, <2>2, <2>3 DEF Alone, Knows, Halfway, Agree
<1>10. CASE Rebind
  <2>1. Begin /\ manager' = "rebound" /\ UNCHANGED <<st, sc, prober, reader>>
    BY <1>10 DEF Rebind
  <2> QED BY <1>b, <2>1 DEF Alone, Knows, Halfway, Agree
<1>11. CASE Rebound
  <2>1. /\ manager = "rebound" /\ manager' = "idle"
        /\ st' = (IF st = "Removed" THEN "Probing" ELSE st)
        /\ UNCHANGED <<proc, sc, prober, reader>>
    BY <1>11 DEF Rebound, PathSetState
  <2>2. Alone /\ Knows
    BY <1>n, <2>1
  <2>3. prober.pc = "idle" /\ \A r \in Readers : reader[r] = "idle"
    BY <2>1, <2>2 DEF Alone
  <2>4. Agree
    BY <2>1, <2>2, <2>3 DEF Knows, Halfway
  <2>5. Agree'
    BY <2>1, <2>4 DEF Agree
  <2> QED BY <2>1, <2>3, <2>5 DEF Alone, Knows, Halfway
<1>12. CASE Rekey
  <2>1. Begin /\ UNCHANGED <<st, sc, prober, reader, manager>>
    BY <1>12 DEF Rekey
  <2>2. Alone /\ Knows
    BY <1>b, <2>1 DEF Alone, Knows, Halfway
  <2> QED BY <1>q, <2>1, <2>2
<1>13. CASE Flip \/ LoseAck
  <2>1. UNCHANGED <<proc, st, sc, prober, reader, manager>>
    BY <1>13 DEF Flip, LoseAck, life
  <2> QED BY <1>n, <1>q, <2>1
<1>14. CASE UNCHANGED lifeVars
  <2>1. UNCHANGED <<proc, st, sc, prober, reader, manager>>
    BY <1>14 DEF lifeVars, life
  <2> QED BY <1>n, <1>q, <2>1
<1> QED BY <1>1, <1>2, <1>3, <1>4, <1>5, <1>6, <1>7, <1>8, <1>9, <1>10, <1>11, <1>12,
           <1>13, <1>14 DEF LifeNext, ProberNext, ManagerNext

(* The inductive invariant is kept.                                        *)
LEMMA NextLifeInv == LifeInv /\ [LifeNext]_lifeVars => LifeInv'
  BY NextTypes, NextKnows DEF LifeInv

(* Without an operation under way, nobody is halfway.                      *)
LEMMA LifeInvImplies == LifeInv => SchedulerAgrees
  BY DEF LifeInv, SchedulerAgrees, Knows, Halfway, Quiet

(* For any number of readers and all timeouts, an operation of the prober, *)
(* a reader, the link manager or the control API that overlaps no other    *)
(* leaves the scheduler using the path as its state says (path.go:22-33),  *)
(* and the types hold even when operations overlap.                        *)
THEOREM StateAndSchedulerAgree == LifeSpec => []SchedulerAgrees
  BY InitLifeInv, NextLifeInv, LifeInvImplies, PTL DEF LifeSpec

-----------------------------------------------------------------------------
(* The scheduler.  FairShare is almost inductive: what it needs beside the *)
(* types is that a packet is never longer than the longest one, that a     *)
(* path in use has a clamped weight, so that no stride exceeds MaxStride,  *)
(* and that the passes are bounded, so that the largest pass a joining     *)
(* path starts from exists.                                                *)

Less == {ss \in Nat \X Nat : ss[1] < ss[2]}

(* The library's theorem, for a relation the provers can expand.           *)
LEMMA LessWellFounded == IsWellFoundedOn(Less, Nat)
  BY NatLessThanWellFounded DEF Less, OpToRel

(* Every set of naturals has a least element (Assign's search for the      *)
(* lowest pass, MinUsableInner).                                           *)
LEMMA LeastOfNats ==
  ASSUME NEW T \in SUBSET Nat, T # {}
  PROVE  Least(T) \in T /\ \A y \in T : Least(T) <= y
<1>1. \E x \in T : \A y \in T : ~(<<y, x>> \in Less)
  BY WFMin, LessWellFounded, Zenon
<1>2. PICK x \in T : \A y \in T : <<y, x>> \notin Less
  BY <1>1
<1>3. ASSUME NEW y \in T PROVE x <= y
  <2>1. x \in Nat /\ y \in Nat
    OBVIOUS
  <2>2. <<y, x>> \in Nat \X Nat /\ <<y, x>>[1] = y /\ <<y, x>>[2] = x
    BY <2>1
  <2>3. y < x => <<y, x>> \in Less
    BY <2>2, Zenon DEF Less
  <2> QED BY <1>2, <2>1, <2>3
<1> QED BY <1>3, Zenon DEF Least

(* A bounded set of naturals has a largest element (AddPath's search for   *)
(* the largest pass).                                                      *)
LEMMA LargestOfNats ==
  ASSUME NEW T \in SUBSET Nat, T # {}, NEW b \in Nat, \A y \in T : y <= b
  PROVE  Largest(T) \in T /\ \A y \in T : y <= Largest(T)
<1> DEFINE U == {u \in Nat : \A y \in T : y <= u}
<1>1. U \in SUBSET Nat /\ U # {}
  OBVIOUS
<1>2. PICK u \in U : \A v \in U : u <= v
  BY <1>1, LeastOfNats, Zenon
<1>3. u \in T
  <2>1. SUFFICES ASSUME u \notin T PROVE FALSE
    OBVIOUS
  <2>2. PICK t \in T : TRUE
    BY Zenon
  <2>3. \A y \in T : y <= u - 1
    BY <2>1, <1>2
  <2>4. u - 1 \in Nat
    BY <2>2, <2>3, <1>2
  <2> QED BY <2>3, <2>4, <1>2
<1>4. \E x \in T : \A y \in T : x >= y
  BY <1>2, <1>3
<1> QED BY <1>4, Zenon DEF Largest

-----------------------------------------------------------------------------
(* Products grow with their factors.                                       *)
LEMMA TimesMono ==
  ASSUME NEW a \in Nat, NEW b \in Nat, NEW c \in Nat, NEW d \in Nat, a <= b, c <= d
  PROVE  a * c <= b * d
<1>1. PICK x \in Nat : b = a + x
  <2>1. b - a \in Nat /\ b = a + (b - a)
    OBVIOUS
  <2> QED BY <2>1
<1>2. PICK y \in Nat : d = c + y
  <2>1. d - c \in Nat /\ d = c + (d - c)
    OBVIOUS
  <2> QED BY <2>1
<1>3. b * d = a * c + a * y + x * c + x * y
  BY <1>1, <1>2
<1>4. a * y \in Nat /\ x * c \in Nat /\ x * y \in Nat /\ a * c \in Nat
  OBVIOUS
<1> QED BY <1>3, <1>4

(* A heavier path's stride is not longer.                                  *)
LEMMA DivAntitone ==
  ASSUME NEW s \in Nat, NEW v \in Nat \ {0}, NEW w \in Nat \ {0}, v <= w
  PROVE  s \div w \in Nat /\ s \div v \in Nat /\ s \div w <= s \div v
<1> DEFINE i == s \div w
           j == s \div v
<1>1. i \in Nat /\ j \in Nat /\ w * i <= s /\ s < v * (j + 1)
  OBVIOUS
<1>2. v * i <= w * i
  BY <1>1, TimesMono
<1>3. i > j => v * (j + 1) <= v * i
  BY <1>1, TimesMono
<1> HIDE DEF i, j
<1>4. v * i \in Nat /\ w * i \in Nat /\ v * (j + 1) \in Nat
  BY <1>1
<1> QED BY <1>1, <1>2, <1>3, <1>4 DEF i, j

-----------------------------------------------------------------------------
PathState ==
  [present : BOOLEAN, state : Settable, weight : Weights \cup {1}, pass : Nat,
   srtt : RTTs \cup {0}, capped : BOOLEAN, maxInner : MaxInners]

Longest == Largest(Lens)

(* No packet is longer than the longest one, paths in use have a clamped   *)
(* weight and the passes are bounded.                                      *)
Bounded ==
  /\ size <= Longest
  /\ \A p \in Present : path[p].weight \in Weights
  /\ \E b \in Nat : \A p \in Paths : path[p].pass <= b

SchedInv == TypeOK /\ Bounded /\ FairShare

(* Lens has a longest member, Weights a least one.                         *)
LEMMA Extremes ==
  /\ Longest \in Nat /\ \A l \in Lens : l <= Longest
  /\ Least(Weights) \in Weights /\ \A w \in Weights : Least(Weights) <= w
<1>1. PICK m \in Lens : \A l \in Lens : l <= m
  BY SchedAssumption
<1>2. Longest \in Lens /\ \A l \in Lens : l <= Longest
  BY <1>1, LargestOfNats, SchedAssumption, Zenon DEF Longest
<1>3. Least(Weights) \in Weights /\ \A w \in Weights : Least(Weights) <= w
  BY LeastOfNats, SchedAssumption
<1> QED BY <1>2, <1>3, SchedAssumption

(* One packet advances the pass of a path (Assign's last assignment) by at *)
(* most MaxStride.                                                         *)
LEMMA StrideBounded ==
  ASSUME SchedInv, NEW p \in Present
  PROVE  Stride(p) \in Nat /\ Stride(p) <= MaxStride /\ MaxStride \in Nat
<1> DEFINE v == Scale \div path[p].weight
           w == Scale \div Least(Weights)
           c == IF path[p].capped THEN SpreadCap ELSE 1
           d == IF path[p].state = "Degraded" THEN Degradation ELSE 1
<1>1. path[p].weight \in Weights /\ size \in Nat /\ size <= Longest
  BY DEF SchedInv, Bounded, TypeOK
<1>2. v \in Nat /\ w \in Nat /\ v <= w
  BY <1>1, Extremes, DivAntitone, SchedAssumption, Zenon
<1>3. c \in Nat /\ d \in Nat /\ c <= SpreadCap /\ d <= Degradation
      /\ SpreadCap \in Nat /\ Degradation \in Nat
  BY SchedAssumption DEF SpreadCap
<1>4. Stride(p) = size * v * c * d /\ MaxStride = Longest * w * SpreadCap * Degradation
  BY DEF Stride, MaxStride, Longest
<1> HIDE DEF v, w, c, d
<1>5. size * v \in Nat /\ Longest * w \in Nat /\ size * v <= Longest * w
  BY <1>1, <1>2, Extremes, TimesMono
<1>6. size * v * c \in Nat /\ Longest * w * SpreadCap \in Nat
      /\ size * v * c <= Longest * w * SpreadCap
  BY <1>3, <1>5, TimesMono
<1>7. size * v * c * d \in Nat /\ Longest * w * SpreadCap * Degradation \in Nat
      /\ size * v * c * d <= Longest * w * SpreadCap * Degradation
  BY <1>3, <1>6, TimesMono
<1> QED BY <1>4, <1>7

(* MaxStride is a number even with no path present.                        *)
LEMMA MaxStrideNat == MaxStride \in Nat
<1>1. Scale \div Least(Weights) \in Nat
  BY Extremes, DivAntitone, SchedAssumption, Zenon
<1>2. Longest * (Scale \div Least(Weights)) \in Nat
  BY <1>1, Extremes
<1>3. Longest * (Scale \div Least(Weights)) * SpreadCap \in Nat
  BY <1>2 DEF SpreadCap
<1> QED BY <1>3, SchedAssumption DEF MaxStride, Longest

(* The scheduler that New returns has no paths (sched.go:121).             *)
LEMMA InitSchedInv == Init => SchedInv
<1> SUFFICES ASSUME Init PROVE SchedInv
  OBVIOUS
<1>1. path = [p \in Paths |-> Absent(0)] /\ Absent(0) \in PathState
      /\ Absent(0).present = FALSE /\ Absent(0).pass = 0
  BY SchedAssumption, Zenon DEF Init, Absent, PathState, Settable
<1>2. Present = {}
  BY <1>1 DEF Present
<1>3. TypeOK
  <2>1. MaxSent \in Nat /\ MaxChanges \in Nat /\ size \in Nat
    BY Extremes, SchedAssumption DEF Init, Longest
  <2>2. path \in [Paths -> PathState]
    BY <1>1
  <2>3. mode \in {"bonding", "redundant"} /\ dropped \in BOOLEAN /\ skipped \subseteq Paths
    BY Zenon DEF Init
  <2>4. sent = 0 /\ changes = 0
    BY DEF Init
  <2>5. sent \in 0 .. MaxSent /\ changes \in 0 .. MaxChanges
    BY <2>1, <2>4
  <2> QED BY <2>1, <2>2, <2>3, <2>5 DEF TypeOK, PathState, Settable
<1>4. Bounded
  BY <1>1, <1>2, Extremes DEF Init, Bounded, Longest
<1> QED BY <1>2, <1>3, <1>4 DEF SchedInv, FairShare

-----------------------------------------------------------------------------
(* What an action does to the passes decides: one that touches none, and   *)
(* no membership, keeps the balance, whatever else it changes.             *)
LEMMA PassesKept ==
  ASSUME SchedInv, size' \in Nat, size' <= size, skipped \subseteq skipped',
         \A p \in Paths : /\ path'[p].present = path[p].present
                          /\ path'[p].pass = path[p].pass
                          /\ path[p].present => path'[p].weight \in Weights
  PROVE  Bounded' /\ FairShare'
<1>1. Present' = Present
  BY DEF Present
<1>2. size' <= Longest
  BY Extremes DEF SchedInv, Bounded, TypeOK
<1>3. Bounded'
  BY <1>1, <1>2, Zenon DEF SchedInv, Bounded, Present
<1>4. FairShare'
  BY <1>1 DEF SchedInv, FairShare, Present
<1> QED BY <1>3, <1>4

(* Assign (sched.go:307): only candidates' passes matter for the paths     *)
(* that sat out no packet, and the lowest of them advances.                *)
LEMMA AssignOneFair ==
  ASSUME SchedInv, AssignOne
  PROVE  Bounded' /\ FairShare' /\ path' \in [Paths -> PathState]
<1>t. path \in [Paths -> PathState] /\ size \in Nat /\ Candidates \subseteq Present
      /\ Present \subseteq Paths
  BY DEF SchedInv, TypeOK, PathState, Settable, Candidates, Usable, Present
<1> DEFINE P == {path[q].pass : q \in Candidates}
           B == {p \in Candidates : \A q \in Candidates : path[p].pass <= path[q].pass}
<1>1. P \in SUBSET Nat /\ P # {}
  BY <1>t DEF AssignOne, PathState
<1>2. PICK b \in Candidates : path[b].pass = Least(P)
  BY <1>1, LeastOfNats, Zenon
<1>3. \A q \in Candidates : path[b].pass <= path[q].pass
  <2>1. \A y \in P : Least(P) <= y
    BY <1>1, LeastOfNats
  <2>2. \A q \in Candidates : path[q].pass \in P
    OBVIOUS
  <2> HIDE DEF P
  <2> QED BY <1>2, <2>1, <2>2
<1>4. B \in SUBSET Nat /\ B # {}
  BY <1>3, <1>t, SchedAssumption, Zenon
<1>5. Best \in B
  BY <1>4, LeastOfNats DEF Best
<1>6. Best \in Candidates /\ Best \in Present /\ Best \in Paths
      /\ \A q \in Candidates : path[Best].pass <= path[q].pass
  BY <1>5, <1>t
<1> DEFINE n == path[Best].pass + Stride(Best)
<1>7. Stride(Best) \in Nat /\ Stride(Best) <= MaxStride /\ MaxStride \in Nat
  BY <1>6, StrideBounded
<1>8. n \in Nat /\ path[Best].pass \in Nat
  BY <1>6, <1>7, <1>t DEF PathState
<1>9. path' = [path EXCEPT ![Best] = [path[Best] EXCEPT !.pass = n]]
  BY DEF AssignOne
<1> HIDE DEF n
<1>10. [path[Best] EXCEPT !.pass = n] \in PathState
  BY <1>6, <1>8, <1>t DEF PathState
<1>11. path' \in [Paths -> PathState]
  BY <1>9, <1>10, <1>t, Zenon
<1>12. /\ path'[Best].pass = n /\ path'[Best].present = path[Best].present
       /\ path'[Best].weight = path[Best].weight
       /\ \A p \in Paths : p # Best => path'[p] = path[p]
  BY <1>6, <1>9, <1>t DEF PathState
<1>13. Present' = Present
  BY <1>6, <1>12 DEF Present
<1>14. skipped' = skipped \cup (Present \ Candidates) /\ size' = size
  BY DEF AssignOne, Skip
<1>15. Bounded'
  <2>1. PICK m \in Nat : \A p \in Paths : path[p].pass <= m
    BY DEF SchedInv, Bounded
  <2>2. m + n \in Nat /\ \A p \in Paths : path'[p].pass <= m + n
    BY <2>1, <1>8, <1>12, <1>t DEF PathState
  <2>3. \A p \in Present' : path'[p].weight \in Weights
    BY <1>12, <1>13, <1>t DEF SchedInv, Bounded
  <2> QED BY <2>2, <2>3, <1>14 DEF SchedInv, Bounded
<1>16. FairShare'
  <2> SUFFICES ASSUME NEW p \in Present, NEW q \in Present \ skipped'
               PROVE  path'[p].pass <= path'[q].pass + MaxStride
    BY <1>13 DEF FairShare, MaxStride
  <2>1. q \in Candidates /\ q \in Present \ skipped /\ q \in Paths /\ p \in Paths
    BY <1>14, <1>t
  <2>2. path[q].pass \in Nat /\ path[p].pass \in Nat /\ path[q].pass <= path'[q].pass
        /\ path'[q].pass \in Nat
    <3>1. path[q].pass \in Nat /\ path[p].pass \in Nat
      BY <2>1, <1>t DEF PathState
    <3>2. CASE q = Best
      BY <3>1, <3>2, <1>7, <1>8, <1>12 DEF n
    <3>3. CASE q # Best
      BY <2>1, <3>1, <3>3, <1>12
    <3> QED BY <3>2, <3>3
  <2>3. CASE p = Best
    <3>1. path'[p].pass = path[p].pass + Stride(Best) /\ path[p].pass <= path[q].pass
      BY <2>1, <2>3, <1>6, <1>12 DEF n
    <3> QED BY <2>2, <3>1, <1>7
  <2>4. CASE p # Best
    <3>1. path[p].pass <= path[q].pass + MaxStride
      BY <2>1 DEF SchedInv, FairShare
    <3> QED BY <2>1, <2>2, <2>4, <3>1, <1>7, <1>12
  <2> QED BY <2>3, <2>4, Zenon
<1> QED BY <1>11, <1>15, <1>16

(* AddPath (sched.go:160): the new path starts at the largest pass, which  *)
(* belongs to a path that is itself at most a stride ahead.                *)
LEMMA AddPathFair ==
  ASSUME SchedInv, NEW r \in Paths, NEW w \in Weights, AddPath(r, w)
  PROVE  Bounded' /\ FairShare' /\ path' \in [Paths -> PathState]
<1>t. path \in [Paths -> PathState] /\ Present \subseteq Paths /\ MaxStride \in Nat
      /\ \A q \in Paths : path[q].pass \in Nat
  BY MaxStrideNat DEF SchedInv, TypeOK, PathState, Settable, Present
<1> DEFINE T == {0} \cup {path[q].pass : q \in Present}
           top == Largest(T)
<1>1. PICK m \in Nat : \A q \in Paths : path[q].pass <= m
  BY DEF SchedInv, Bounded
<1>2. T \in SUBSET Nat /\ T # {} /\ \A y \in T : y <= m
  BY <1>1, <1>t
<1>3. top \in T /\ \A y \in T : y <= top
  BY <1>2, LargestOfNats, Zenon
<1>4. top \in Nat /\ top <= m /\ \A q \in Present : path[q].pass <= top
  BY <1>2, <1>3, Zenon
<1>5. top = 0 \/ \E q \in Present : top = path[q].pass
  BY <1>3, Zenon
<1> DEFINE new == [Absent(path[r].maxInner) EXCEPT
                     !.present = TRUE, !.weight = w, !.pass = top]
<1>6. path' = [path EXCEPT ![r] = new] /\ size' = size /\ skipped' = skipped \ {r}
  BY DEF AddPath
<1> HIDE DEF top, T
<1>7. new \in PathState /\ new.present /\ new.pass = top /\ new.weight = w
  BY <1>4, <1>t, SchedAssumption, Zenon DEF Absent, PathState, Settable
<1> HIDE DEF new
<1>8. path' \in [Paths -> PathState]
      /\ path'[r] = new /\ \A q \in Paths : q # r => path'[q] = path[q]
  BY <1>6, <1>7, <1>t
<1>9. Present' = Present \cup {r}
  BY <1>7, <1>8 DEF Present
<1>10. Bounded'
  <2>1. \A q \in Paths : path'[q].pass <= m
    BY <1>1, <1>4, <1>7, <1>8
  <2>2. \A q \in Present' : path'[q].weight \in Weights
    BY <1>7, <1>8, <1>9, <1>t DEF SchedInv, Bounded
  <2> QED BY <2>1, <2>2, <1>6 DEF SchedInv, Bounded
<1>11. FairShare'
  <2> SUFFICES ASSUME NEW p \in Present \cup {r}, NEW q \in (Present \cup {r}) \ skipped'
               PROVE  path'[p].pass <= path'[q].pass + MaxStride
    BY <1>9, Zenon DEF FairShare, MaxStride
  <2>1. CASE q = r
    BY <2>1, <1>4, <1>7, <1>8, <1>t
  <2>2. CASE q # r
    <3>1. q \in Present \ skipped /\ q \in Paths /\ path'[q] = path[q]
      BY <2>2, <1>6, <1>8, <1>t
    <3>2. \A x \in Present : path[x].pass <= path[q].pass + MaxStride
      BY <3>1, Zenon DEF SchedInv, FairShare
    <3>3. top <= path[q].pass + MaxStride
      <4>1. path[q].pass \in Nat /\ MaxStride \in Nat
        BY <3>1, <1>t
      <4>2. CASE top = 0
        BY <4>1, <4>2
      <4>3. CASE \E x \in Present : top = path[x].pass
        BY <4>3, <3>2, Zenon
      <4> QED BY <4>2, <4>3, <1>5
    <3> QED BY <3>1, <3>2, <3>3, <1>7, <1>8, <1>t
  <2> QED BY <2>1, <2>2, Zenon
<1> QED BY <1>8, <1>10, <1>11

(* One step of the system keeps the invariant.                             *)
LEMMA NextSchedInv == SchedInv /\ [Next]_vars => SchedInv'
<1> SUFFICES ASSUME SchedInv, [Next]_vars PROVE SchedInv'
  OBVIOUS
<1>t. /\ path \in [Paths -> PathState] /\ size \in Nat /\ size <= Longest
      /\ mode \in {"bonding", "redundant"} /\ dropped \in BOOLEAN
      /\ sent \in 0 .. MaxSent /\ changes \in 0 .. MaxChanges /\ skipped \subseteq Paths
  BY DEF SchedInv, Bounded, TypeOK, PathState, Settable
<1>n. MaxSent \in Nat /\ MaxChanges \in Nat
  BY SchedAssumption
<1>w. \A p \in Paths : path[p].present => path[p].weight \in Weights
  BY Zenon DEF SchedInv, Bounded, Present
<1>c. Changing => changes' \in 0 .. MaxChanges
  BY <1>t, <1>n DEF Changing
<1>p. ASSUME path' \in [Paths -> PathState], size' \in Nat, sent' \in 0 .. MaxSent,
             mode' \in {"bonding", "redundant"}, dropped' \in BOOLEAN,
             changes' \in 0 .. MaxChanges, skipped' \subseteq Paths
      PROVE  TypeOK'
  BY <1>p DEF TypeOK, PathState, Settable
<1>1. CASE AssignOne
  <2>1. path' \in [Paths -> PathState] /\ Bounded' /\ FairShare'
    BY <1>1, AssignOneFair
  <2>2. sent' \in 0 .. MaxSent /\ UNCHANGED <<mode, size, dropped, changes>>
    BY <1>1, <1>t, <1>n DEF AssignOne
  <2>3. skipped' \subseteq Paths
    BY <1>1, <1>t DEF AssignOne, Skip, Present
  <2> QED BY <2>1, <2>2, <2>3, <1>p, <1>t DEF SchedInv
<1>2. CASE AssignAll
  <2>1. sent' \in 0 .. MaxSent /\ UNCHANGED <<mode, path, size, dropped, changes, skipped>>
    BY <1>2, <1>t, <1>n DEF AssignAll
  <2>2. Bounded' /\ FairShare'
    BY <2>1, <1>t, <1>w, PassesKept
  <2> QED BY <2>1, <2>2, <1>p, <1>t DEF SchedInv
<1>3. CASE AssignNone
  <2>1. dropped' \in BOOLEAN /\ UNCHANGED <<mode, path, size, sent, changes>>
        /\ skipped \subseteq skipped' /\ skipped' \subseteq Paths
    BY <1>3, <1>t DEF AssignNone, Skip, Present
  <2>2. Bounded' /\ FairShare'
    BY <2>1, <1>t, <1>w, PassesKept
  <2> QED BY <2>1, <2>2, <1>p, <1>t DEF SchedInv
<1>4. CASE SendPTB
  <2>1. dropped' \in BOOLEAN /\ UNCHANGED <<mode, path, sent, changes, skipped>>
        /\ size' = Least({size, Advertised}) /\ TooBig
    BY <1>4, Zenon DEF SendPTB
  <2>2. MinUsableInner \in Nat
    <3> DEFINE inners == {path[p].maxInner : p \in Usable} \ 0 .. DeadMTU
    <3>1. inners \in SUBSET Nat
      BY <1>t, SchedAssumption, Zenon DEF Usable, Present, PathState
    <3>2. MinUsableInner = IF inners = {} THEN 0 ELSE Least(inners)
      BY DEF MinUsableInner
    <3> HIDE DEF inners
    <3> QED BY <3>1, <3>2, LeastOfNats
  <2>3. Advertised \in Nat
    <3>1. MinMTU \in Nat
      BY SchedAssumption
    <3> DEFINE T == {MinUsableInner, MinMTU}
    <3>2. T \in SUBSET Nat /\ T # {} /\ MinUsableInner + MinMTU \in Nat
          /\ \A y \in T : y <= MinUsableInner + MinMTU
      BY <3>1, <2>2
    <3>3. Largest(T) \in T
      BY <3>2, LargestOfNats, Zenon
    <3> QED BY <3>1, <3>3, <2>2 DEF Advertised
  <2>4. size' \in Nat /\ size' <= size
    BY <2>1, <2>3, <1>t, LeastOfNats
  <2>5. Bounded' /\ FairShare'
    BY <2>1, <2>4, <1>w, PassesKept
  <2> QED BY <2>1, <2>4, <2>5, <1>p, <1>t DEF SchedInv
<1>5. CASE Suppressed
  <2>1. dropped' \in BOOLEAN /\ UNCHANGED <<mode, path, size, sent, changes, skipped>>
    BY <1>5, Zenon DEF Suppressed
  <2>2. Bounded' /\ FairShare'
    BY <2>1, <1>t, <1>w, PassesKept
  <2> QED BY <2>1, <2>2, <1>p, <1>t DEF SchedInv
<1>6. ASSUME NEW p \in Paths, NEW w \in Weights, AddPath(p, w) PROVE SchedInv'
  <2>1. path' \in [Paths -> PathState] /\ Bounded' /\ FairShare'
    BY <1>6, AddPathFair
  <2>2. changes' \in 0 .. MaxChanges /\ UNCHANGED <<mode, size, dropped, sent>>
        /\ skipped' \subseteq Paths
    BY <1>6, <1>c, <1>t DEF AddPath
  <2> QED BY <2>1, <2>2, <1>p, <1>t DEF SchedInv
<1>7. ASSUME NEW p \in Paths, RemovePath(p) PROVE SchedInv'
  <2>1. changes' \in 0 .. MaxChanges /\ UNCHANGED <<mode, size, dropped, sent, skipped>>
        /\ path' = [path EXCEPT ![p] = Absent(0)]
    BY <1>7, <1>c DEF RemovePath
  <2>2. Absent(0) \in PathState /\ ~Absent(0).present /\ Absent(0).pass = 0
    BY SchedAssumption, Zenon DEF Absent, PathState, Settable
  <2>3. path' \in [Paths -> PathState] /\ path'[p] = Absent(0)
        /\ \A q \in Paths : q # p => path'[q] = path[q]
    BY <2>1, <2>2, <1>t
  <2>4. Present' \subseteq Present \ {p}
    BY <2>2, <2>3, Zenon DEF Present
  <2>5. Bounded'
    <3>1. PICK m \in Nat : \A q \in Paths : path[q].pass <= m
      BY DEF SchedInv, Bounded
    <3>2. \A q \in Paths : path'[q].pass <= m
      BY <3>1, <2>2, <2>3
    <3> QED BY <3>2, <2>1, <2>3, <2>4, <1>t, <1>w DEF Bounded, Present
  <2>6. FairShare'
    BY <2>1, <2>3, <2>4, Zenon DEF SchedInv, FairShare, Present, MaxStride
  <2> QED BY <2>1, <2>3, <2>5, <2>6, <1>p, <1>t DEF SchedInv
<1>r. ASSUME Changing, path' \in [Paths -> PathState],
             UNCHANGED <<mode, size, dropped, sent, skipped>>,
             \A q \in Paths : /\ path'[q].present = path[q].present
                              /\ path'[q].pass = path[q].pass
                              /\ path[q].present => path'[q].weight \in Weights
      PROVE  SchedInv'
  <2>1. Bounded' /\ FairShare'
    BY <1>r, <1>t, PassesKept
  <2> QED BY <2>1, <1>r, <1>c, <1>p, <1>t DEF SchedInv
<1>8. ASSUME NEW p \in Paths, NEW s \in Settable, SetState(p, s) PROVE SchedInv'
  <2>1. path' = [path EXCEPT ![p] = [path[p] EXCEPT !.state = s]]
        /\ Changing /\ UNCHANGED <<mode, size, dropped, sent, skipped>>
    BY <1>8 DEF SetState
  <2>2. [path[p] EXCEPT !.state = s] \in PathState
    BY <1>t, <1>8 DEF PathState
  <2>3. path' \in [Paths -> PathState]
    BY <2>1, <2>2, <1>t
  <2>4. \A q \in Paths : path'[q].present = path[q].present /\ path'[q].pass = path[q].pass
                         /\ path'[q].weight = path[q].weight
    BY <2>1, <1>t DEF PathState
  <2> QED BY <2>1, <2>3, <2>4, <1>w, <1>r
<1>9. ASSUME NEW p \in Paths, NEW mtu \in MaxInners, SetPathMTU(p, mtu) PROVE SchedInv'
  <2>1. path' = [path EXCEPT ![p] = [path[p] EXCEPT !.maxInner = mtu]]
        /\ Changing /\ UNCHANGED <<mode, size, dropped, sent, skipped>>
    BY <1>9 DEF SetPathMTU
  <2>2. [path[p] EXCEPT !.maxInner = mtu] \in PathState
    BY <1>t, <1>9 DEF PathState
  <2>3. path' \in [Paths -> PathState]
    BY <2>1, <2>2, <1>t
  <2>4. \A q \in Paths : path'[q].present = path[q].present /\ path'[q].pass = path[q].pass
                         /\ path'[q].weight = path[q].weight
    BY <2>1, <1>t DEF PathState
  <2> QED BY <2>1, <2>3, <2>4, <1>w, <1>r
<1>10. ASSUME NEW p \in Paths, NEW w \in Weights, NEW rtt \in RTTs, OnMetrics(p, w, rtt)
       PROVE  SchedInv'
  <2> DEFINE new == [path[p] EXCEPT !.weight = w, !.srtt = rtt]
             ps == [path EXCEPT ![p].weight = w, ![p].srtt = rtt]
             rtts == {ps[q].srtt : q \in {x \in Present : ps[x].state = "Active"}} \ {0}
             slow(q) == rtts # {} /\ ps[q].srtt > Least(rtts) + MaxRTTSpread
             out(q) == IF ~ps[q].present THEN ps[q] ELSE [ps[q] EXCEPT !.capped = slow(q)]
  <2>1. path' = [q \in Paths |-> out(q)]
        /\ Changing /\ UNCHANGED <<mode, size, dropped, sent, skipped>>
    BY <1>10 DEF OnMetrics
  <2>2. slow(p) \in BOOLEAN /\ \A q \in Paths : slow(q) \in BOOLEAN
    OBVIOUS
  <2>3. new \in PathState /\ new.present = path[p].present /\ new.pass = path[p].pass
        /\ new.weight = w
    BY <1>t, <1>10, Zenon DEF PathState
  <2>a. ps = [path EXCEPT ![p] = new]
    BY <1>t, Zenon DEF PathState
  <2> HIDE DEF new, ps
  <2>4. ps \in [Paths -> PathState]
        /\ \A q \in Paths : /\ ps[q].present = path[q].present /\ ps[q].pass = path[q].pass
                            /\ path[q].present => ps[q].weight \in Weights
    BY <2>3, <2>a, <1>t, <1>w, Zenon
  <2> HIDE DEF slow
  <2>5. ASSUME NEW q \in Paths
        PROVE  /\ out(q) \in PathState /\ out(q).present = ps[q].present
               /\ out(q).pass = ps[q].pass /\ out(q).weight = ps[q].weight
    BY <2>2, <2>4 DEF PathState
  <2> HIDE DEF out
  <2>6. path' \in [Paths -> PathState] /\ \A q \in Paths : path'[q] = out(q)
    BY <2>1, <2>5, Zenon
  <2>7. \A q \in Paths : /\ path'[q].present = path[q].present
                         /\ path'[q].pass = path[q].pass
                         /\ path[q].present => path'[q].weight \in Weights
    BY <2>4, <2>5, <2>6, Zenon
  <2> QED BY <2>1, <2>6, <2>7, <1>r, Zenon
<1>11. ASSUME NEW m \in {"bonding", "redundant"}, SetMode(m) PROVE SchedInv'
  <2>1. mode' \in {"bonding", "redundant"} /\ changes' \in 0 .. MaxChanges
        /\ UNCHANGED <<path, size, dropped, sent, skipped>>
    BY <1>11, <1>c DEF SetMode
  <2>2. Bounded' /\ FairShare'
    BY <2>1, <1>t, <1>w, PassesKept
  <2> QED BY <2>1, <2>2, <1>p, <1>t DEF SchedInv
<1>12. CASE UNCHANGED vars
  <2>1. UNCHANGED <<mode, path, size, dropped, sent, changes, skipped>>
    BY <1>12 DEF vars
  <2>2. Bounded' /\ FairShare'
    BY <2>1, <1>t, <1>w, PassesKept
  <2> QED BY <2>1, <2>2, <1>p, <1>t DEF SchedInv
<1> QED
  BY <1>1, <1>2, <1>3, <1>4, <1>5, <1>6, <1>7, <1>8, <1>9, <1>10, <1>11, <1>12
  DEF Next, sendData, Settable

(* The invariant holds throughout.                                         *)
LEMMA SchedInvHolds == Spec => []SchedInv
  BY InitSchedInv, NextSchedInv, PTL DEF Spec

(* For all constants, paths keep clamped weights and natural passes.       *)
THEOREM SchedTyped == Spec => []TypeOK
<1>1. SchedInv => TypeOK
  BY DEF SchedInv
<1> QED BY <1>1, SchedInvHolds, PTL

(* For any number of paths and all weights, lengths and restrictions: no   *)
(* path in use is more than one stride ahead of one that sat out no packet *)
(* (AddPath and Assign of sched.go).                                       *)
THEOREM SharesFair == Spec => []FairShare
<1>1. SchedInv => FairShare
  BY DEF SchedInv
<1> QED BY <1>1, SchedInvHolds, PTL

-----------------------------------------------------------------------------
(* The loss estimate of a path (Probes) stays a share, for all windows,    *)
(* resolutions and thresholds, whatever the peer reports and in whatever   *)
(* order.                                                                  *)

Report == [rx : Int, old : BOOLEAN]

PInv == ProbesTypeOK /\ reports \in Seq(Report)

(* The constants are naturals and a window has a packet.                   *)
LEMMA ProbesConstants ==
  /\ MinSample \in Nat \ {0} /\ Unit \in Nat \ {0} /\ DegradeLoss \in Nat
  /\ DegradeTicks \in Nat \ {0} /\ MaxWindow \in Nat /\ MaxUp \in Nat
  /\ MaxReports \in Nat /\ MaxBack \in Nat
BY ProbesAssumption

(* A sample is a share of the window: a count that wrapped, or one of more *)
(* than was sent, is clamped (OnProbeReceived, path.go:290).               *)
LEMMA SampleIsShare ==
  ASSUME tx \in Nat, tx >= MinSample, NEW d \in Int
  PROVE  Sample(d) \in 0 .. Unit
<1>1. tx > 0 /\ Unit \in Nat
  BY ProbesConstants
<1>2. CASE d < 0 \/ d > tx
  BY <1>1, <1>2 DEF Sample
<1>3. CASE ~(d < 0 \/ d > tx)
  <2> DEFINE a == Unit * (tx - d)
             b == Unit * tx
  <2>1. a \in Nat /\ a <= b
    <3>1. tx - d \in Nat /\ tx - d <= tx
      BY <1>3
    <3> QED BY <1>1, <3>1
  <2>2. Sample(d) = a \div tx
    BY <1>3 DEF Sample
  <2>3. a \div tx \in Nat
    <3> HIDE DEF a
    <3> QED BY <1>1, <2>1
  <2>4. a \div tx <= Unit
    <3> DEFINE q == a \div tx
    <3>1. q \in Nat /\ q * tx <= a
      <4> HIDE DEF a
      <4> QED BY <1>1, <2>1
    <3>2. q * tx <= Unit * tx
      <4> HIDE DEF a, q
      <4> QED BY <1>1, <2>1, <3>1
    <3> HIDE DEF q
    <3>3. ASSUME q >= Unit + 1 PROVE FALSE
      <4>1. q * tx >= (Unit + 1) * tx
        BY <1>1, <3>1, <3>3
      <4>2. (Unit + 1) * tx = Unit * tx + tx
        BY <1>1
      <4> QED BY <1>1, <3>1, <3>2, <4>1, <4>2
    <3>4. q <= Unit
      BY <1>1, <3>1, <3>3
    <3> QED BY <3>4 DEF q
  <2> QED BY <1>1, <2>2, <2>3, <2>4
<1> QED BY <1>2, <1>3

(* An average of two shares is one.                                        *)
LEMMA AverageIsShare ==
  ASSUME Unit \in Nat, loss \in 0 .. Unit, NEW s \in 0 .. Unit
  PROVE  Average(s) \in 0 .. Unit
BY DEF Average

(* The reports without one of them.                                        *)
LEMMA OtherReports ==
  ASSUME NEW R, reports \in Seq(R), NEW i \in 1 .. Len(reports)
  PROVE  Others(i) \in Seq(R) /\ Len(Others(i)) = Len(reports) - 1
<1> DEFINE a == SubSeq(reports, 1, i - 1)
           b == SubSeq(reports, i + 1, Len(reports))
<1>0. Len(reports) \in Nat
  OBVIOUS
<1>1. a \in Seq(R) /\ Len(a) = i - 1
  BY <1>0, SubSeqProperties
<1>2. b \in Seq(R) /\ Len(b) = Len(reports) - i
  BY <1>0, SubSeqProperties
<1> HIDE DEF a, b
<1>3. a \o b \in Seq(R) /\ Len(a \o b) = Len(a) + Len(b)
  BY <1>1, <1>2, ConcatProperties, Zenon
<1>4. Len(a \o b) = Len(reports) - 1
  BY <1>0, <1>1, <1>2, <1>3
<1>5. Others(i) = a \o b
  BY DEF Others, a, b
<1> QED BY <1>3, <1>4, <1>5

(* Reports whose fields are rewritten are as many reports.                 *)
LEMMA RewriteReports ==
  ASSUME NEW s \in Seq(Report), NEW t, DOMAIN t = DOMAIN s,
         t = [i \in DOMAIN t |-> t[i]], \A i \in DOMAIN s : t[i] \in Report
  PROVE  t \in Seq(Report) /\ Len(t) = Len(s)
<1>1. DOMAIN s = 1 .. Len(s) /\ Len(s) \in Nat
  OBVIOUS
<1>2. t \in [1 .. Len(s) -> Report]
  BY <1>1
<1> QED BY <1>1, <1>2

(* Every step keeps the types.                                             *)
LEMMA NextPInv == ASSUME PInv, [ProbesNext]_probesVars PROVE PInv'
<1>t. /\ tx \in 0 .. MaxWindow /\ up \in 0 .. MaxUp /\ rx \in Int /\ haveReport \in BOOLEAN
      /\ loss \in 0 .. Unit /\ pathState \in {"Active", "Degraded"}
      /\ badRun \in 0 .. DegradeTicks
      /\ Len(reports) <= MaxReports /\ reports \in Seq(Report)
      /\ quality \in Qualities
  BY Zenon DEF PInv, ProbesTypeOK
<1>l. Len(reports) \in Nat /\ DOMAIN reports = 1 .. Len(reports)
  BY <1>t
<1>f. ASSUME /\ tx' \in 0 .. MaxWindow /\ up' \in 0 .. MaxUp /\ rx' \in Int
             /\ haveReport' \in BOOLEAN
             /\ loss' \in 0 .. Unit /\ pathState' \in {"Active", "Degraded"}
             /\ badRun' \in 0 .. DegradeTicks
             /\ Len(reports') <= MaxReports /\ reports' \in Seq(Report)
             /\ quality' \in Qualities
      PROVE  PInv'
  <2>1. \A i \in DOMAIN reports' : reports'[i] \in Report
    BY <1>f
  <2>2. \A i \in DOMAIN reports' : reports'[i].rx \in Int /\ reports'[i].old \in BOOLEAN
    BY <2>1 DEF Report
  <2> QED BY <1>f, <2>2, Zenon DEF PInv, ProbesTypeOK
<1>1. CASE OnDataSent
  <2>1. tx' \in 0 .. MaxWindow /\ up' \in 0 .. MaxUp
    BY <1>1, <1>t, ProbesConstants DEF OnDataSent
  <2>2. UNCHANGED <<haveReport, loss, pathState, badRun, rx, reports, quality>>
    BY <1>1 DEF OnDataSent, own
  <2> QED BY <1>f, <1>t, <2>1, <2>2
<1>2. CASE Tick
  <2>1. tx' \in 0 .. MaxWindow /\ up' \in 0 .. MaxUp
    <3>1. \/ tx < MaxWindow /\ up < MaxUp /\ tx' = tx + 1 /\ up' = up + 1
          \/ UNCHANGED <<tx, up>>
      BY <1>2 DEF Tick, OnControlSent
    <3>2. CASE tx < MaxWindow /\ up < MaxUp /\ tx' = tx + 1 /\ up' = up + 1
      <4>1. tx \in 0 .. MaxWindow /\ up \in 0 .. MaxUp
        BY <1>t
      <4> QED BY <3>2, <4>1, ProbesConstants
    <3>3. CASE UNCHANGED <<tx, up>>
      BY <3>3, <1>t
    <3> QED BY <3>1, <3>2, <3>3
  <2>2. badRun' \in 0 .. DegradeTicks
    <3>1. badRun' = IF bad THEN Smaller(badRun + 1, DegradeTicks) ELSE 0
      BY <1>2 DEF Tick, QualityCheck
    <3> QED BY <3>1, <1>t, ProbesConstants DEF Smaller
  <2>3. pathState' \in {"Active", "Degraded"}
    BY <1>2, <1>t DEF Tick, QualityCheck
  <2>4. reports' = [i \in DOMAIN reports |-> [reports[i] EXCEPT !.old = (quality = "idle")]]
    BY <1>2 DEF Tick
  <2>5. \A i \in DOMAIN reports : [reports[i] EXCEPT !.old = (quality = "idle")] \in Report
    <3>1. \A i \in DOMAIN reports : reports[i] \in Report
      BY <1>t
    <3> QED BY <3>1, Zenon DEF Report
  <2>6. reports' \in Seq(Report) /\ Len(reports') = Len(reports)
    BY <1>t, <2>4, <2>5, RewriteReports
  <2>7. UNCHANGED <<haveReport, loss, rx, quality>>
    BY <1>2 DEF Tick
  <2> QED BY <1>f, <1>t, <2>1, <2>2, <2>3, <2>6, <2>7
<1>3. CASE OnReceived
  <2>1. up' \in 0 .. MaxUp /\ rx' \in Int
    BY <1>3, <1>t, ProbesConstants DEF OnReceived
  <2>2. UNCHANGED <<tx, haveReport, loss, pathState, badRun, reports, quality>>
    BY <1>3 DEF OnReceived, own
  <2> QED BY <1>f, <1>t, <2>1, <2>2
<1>4. CASE NextProbe
  <2>1. [rx |-> rx, old |-> FALSE] \in Report
    BY <1>t DEF Report
  <2>2. Append(reports, [rx |-> rx, old |-> FALSE]) \in Seq(Report)
        /\ Len(Append(reports, [rx |-> rx, old |-> FALSE])) = Len(reports) + 1
    BY <1>t, <2>1, AppendProperties, Zenon
  <2>3. Len(reports) < MaxReports /\ reports' = Append(reports, [rx |-> rx, old |-> FALSE])
    BY <1>4 DEF NextProbe
  <2>4. UNCHANGED <<tx, haveReport, loss, pathState, badRun, rx, up, quality>>
    BY <1>4 DEF NextProbe, own
  <2>5. Len(reports') <= MaxReports /\ reports' \in Seq(Report)
    BY <1>l, <2>2, <2>3, ProbesConstants
  <2> QED BY <1>f, <1>t, <2>4, <2>5
<1>5. CASE Lose
  <2>1. up' \in 0 .. MaxUp
    BY <1>5, <1>t, ProbesConstants DEF Lose
  <2>2. UNCHANGED <<tx, rx, haveReport, loss, pathState, badRun, reports, quality>>
    BY <1>5 DEF Lose, own
  <2> QED BY <1>f, <1>t, <2>1, <2>2
<1>6. CASE PeerRestart
  <2>1. PICK n \in 0 .. MaxBack : rx' = IF haveReport THEN -n ELSE 0
    BY <1>6 DEF PeerRestart
  <2>2. rx' \in Int /\ 0 \in 0 .. MaxUp
    BY <2>1, ProbesConstants
  <2>3. up' = 0 /\ UNCHANGED <<tx, haveReport, loss, pathState, badRun, reports, quality>>
    BY <1>6 DEF PeerRestart, own
  <2> QED BY <1>f, <1>t, <2>2, <2>3
<1>7. CASE ChangeQuality
  <2>1. quality' \in Qualities
    BY <1>7 DEF ChangeQuality, Qualities
  <2>2. UNCHANGED <<tx, haveReport, loss, pathState, badRun, rx, up, reports>>
    BY <1>7 DEF ChangeQuality, own
  <2> QED BY <1>f, <1>t, <2>1, <2>2
<1>r. ASSUME NEW i \in DOMAIN reports
      PROVE  Others(i) \in Seq(Report)
             /\ Len(Others(i)) <= MaxReports
  <2>1. Others(i) \in Seq(Report)
        /\ Len(Others(i)) = Len(reports) - 1
    BY <1>l, <1>t, OtherReports, Zenon
  <2>2. Len(reports) - 1 <= MaxReports
    BY <1>l, <1>t, ProbesConstants
  <2> QED BY <2>1, <2>2
<1>8. ASSUME NEW i \in DOMAIN reports, LoseReport(i) PROVE PInv'
  <2>1. reports' = Others(i)
        /\ UNCHANGED <<tx, haveReport, loss, pathState, badRun, rx, up, quality>>
    BY <1>8 DEF LoseReport, own
  <2> QED BY <1>f, <1>r, <1>t, <2>1
<1>9. ASSUME NEW i \in DOMAIN reports, OnProbeReceived(i) PROVE PInv'
  <2> DEFINE r == reports[i]
             rest == Others(i)
             sampled == haveReport /\ tx >= MinSample
  <2>1. /\ haveReport' = TRUE
        /\ loss' = IF sampled THEN Average(Sample(r.rx)) ELSE loss
        /\ IF sampled \/ ~haveReport
           THEN Anchor(r, rest)
           ELSE reports' = rest /\ UNCHANGED <<tx, rx>>
        /\ UNCHANGED <<pathState, badRun, up, quality>>
    BY <1>9 DEF OnProbeReceived
  <2>2. r.rx \in Int
    <3>1. r \in Report
      BY <1>l, <1>t
    <3> QED BY <3>1 DEF Report
  <2>3. rest \in Seq(Report) /\ Len(rest) <= MaxReports
    BY <1>r
  <2>4. loss' \in 0 .. Unit
    <3>1. CASE sampled
      <4>1. Sample(r.rx) \in 0 .. Unit
        <5>1. tx \in Nat /\ tx >= MinSample
          BY <1>t, <3>1, ProbesConstants
        <5> QED BY <2>2, <5>1, SampleIsShare
      <4> QED BY <1>t, <2>1, <3>1, <4>1, AverageIsShare, ProbesConstants, Zenon
    <3>2. CASE ~sampled
      BY <1>t, <2>1, <3>2
    <3> QED BY <3>1, <3>2
  <2> HIDE DEF r, rest, sampled
  <2>5. CASE Anchor(r, rest)
    <3>1. /\ tx' = 0 /\ rx' = Relative(rx, r.rx)
          /\ reports' = [j \in DOMAIN rest |->
                           [rest[j] EXCEPT !.rx = Relative(@, r.rx)]]
      BY <2>5 DEF Anchor
    <3>2. \A n \in Int : Relative(n, r.rx) \in Int
      BY <2>2, ProbesConstants DEF Relative
    <3>3. \A j \in DOMAIN rest :
            [rest[j] EXCEPT !.rx = Relative(@, r.rx)] \in Report
      <4>1. \A j \in DOMAIN rest : rest[j] \in Report
        BY <2>3
      <4> QED BY <3>2, <4>1 DEF Report
    <3>4. reports' \in Seq(Report) /\ Len(reports') = Len(rest)
      BY <2>3, <3>1, <3>3, RewriteReports
    <3>5. tx' \in 0 .. MaxWindow /\ rx' \in Int
      BY <1>t, <3>1, <3>2, ProbesConstants
    <3> QED BY <1>f, <1>t, <2>1, <2>3, <2>4, <3>4, <3>5
  <2>6. CASE reports' = rest /\ UNCHANGED <<tx, rx>>
    BY <1>f, <1>t, <2>1, <2>3, <2>4, <2>6
  <2> QED BY <2>1, <2>5, <2>6
<1>10. CASE UNCHANGED probesVars
  BY <1>10, <1>f, <1>t DEF probesVars, own
<1> QED BY <1>1, <1>2, <1>3, <1>4, <1>5, <1>6, <1>7, <1>8, <1>9, <1>10 DEF ProbesNext

(* "loss" is a share of the packets of a window (path.go:276): for all     *)
(* constants the estimate stays between 0 and 1, the window and the count  *)
(* of bad ticks within their bounds, however counts wrap after a restart   *)
(* of the peer and however its reports are lost or reordered.              *)
THEOREM LossIsShare == ProbesSpec => []ProbesTypeOK
<1>1. ProbesInit => PInv
  <2> SUFFICES ASSUME ProbesInit PROVE PInv
    OBVIOUS
  <2>1. reports = <<>> /\ reports \in Seq(Report) /\ DOMAIN reports = {} /\ Len(reports) = 0
    BY DEF ProbesInit
  <2>2. /\ 0 \in 0 .. MaxWindow /\ 0 \in 0 .. MaxUp /\ 0 \in 0 .. Unit
        /\ 0 \in 0 .. DegradeTicks /\ 0 <= MaxReports
    BY ProbesConstants
  <2>3. /\ tx = 0 /\ rx = 0 /\ up = 0 /\ haveReport = FALSE /\ loss = 0
        /\ pathState = "Active" /\ badRun = 0 /\ quality = "lossy"
    BY DEF ProbesInit
  <2>4. /\ tx \in 0 .. MaxWindow /\ up \in 0 .. MaxUp /\ rx \in Int
        /\ loss \in 0 .. Unit /\ badRun \in 0 .. DegradeTicks
        /\ Len(reports) <= MaxReports
    BY <2>1, <2>2, <2>3
  <2>5. haveReport \in BOOLEAN /\ pathState \in {"Active", "Degraded"} /\ quality \in Qualities
    BY <2>3, Zenon DEF Qualities
  <2>6. \A i \in DOMAIN reports : reports[i].rx \in Int /\ reports[i].old \in BOOLEAN
    BY <2>1
  <2> QED BY <2>1, <2>4, <2>5, <2>6 DEF PInv, ProbesTypeOK
<1>2. PInv /\ [ProbesNext]_probesVars => PInv'
  BY NextPInv
<1>3. PInv => ProbesTypeOK
  BY DEF PInv
<1> QED BY <1>1, <1>2, <1>3, PTL DEF ProbesSpec
=============================================================================
