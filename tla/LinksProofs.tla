----------------------------- MODULE LinksProofs -----------------------------
(***************************************************************************)
(* Proofs about the links of a client, for any number of interfaces, path  *)
(* ids and concurrent requests.                                            *)
(*                                                                         *)
(* That an interface never has two paths rests on linksMu: only its holder *)
(* creates a path, and what the holder has still to do is indexed (by) as  *)
(* the paths are.                                                          *)
(***************************************************************************)
EXTENDS Links, WellFoundedInduction, TLAPS

Pcs == {"idle", "lock", "setup", "swap", "settle", "gone", "edit", "done"}

Step == [pc : Pcs, op : {"none", "add", "remove"}, if : Ifs \cup {"none"},
         saw : Seq(Ifs), id : Ids, to : Bound, by : [Ids -> Ifs \cup {"none"}],
         todo : SUBSET Ifs, drop : SUBSET Ids]

(* TypeOK without the goroutines' steps, which Step types in full, and     *)
(* that only existing paths are looked up.                                 *)
TypeRest ==
  /\ links \in Seq(Ifs) /\ auto \in BOOLEAN /\ att \in [Ifs -> Bound]
  /\ paths \in [Ids -> Ifs \cup {"none"}] /\ st \in [Ids -> States]
  /\ conn \in [Ids -> Bound]
  /\ lock \in {"free", "mgr"} \cup Callers
  /\ session \in BOOLEAN /\ need \in BOOLEAN
  /\ wan \in [WanIds -> Bound] /\ fetch \in [WanIds -> Bound \cup {Asked}]
  /\ scene \in Scenes /\ stop \in {"start", "run", "stopping", "closed", "stopped"}
  /\ \A p \in WanIds : fetch[p] # None => paths[p] # "none"

Typed == TypeRest /\ act \in [Actors -> Step]

Working == {"setup", "swap", "settle"}

(* A goroutine is at work in setupLinks only while it holds linksMu; a     *)
(* request that edits the list names an interface.                         *)
Locked ==
  \A a \in Actors :
    /\ act[a].pc \in Working => lock = a
    /\ lock = a => act[a].pc \in Working \cup {"gone"}
    /\ act[a].pc = "edit" => act[a].if \in Ifs

(* A link still to be dealt with has no path that its holder does not know.*)
Known ==
  \A a \in Actors : lock = a =>
    \A i \in act[a].todo, p \in Ids : paths[p] = i => act[a].by[p] = i

IInv == Typed /\ Locked /\ Known /\ OnePathPerLink

(* The first of the places where a loop stops.                             *)
LEMMA MinOfNats ==
  ASSUME NEW T \in SUBSET Nat, T # {}
  PROVE  Min(T) \in T
<1> DEFINE Less == {ss \in Nat \X Nat : ss[1] < ss[2]}
<1>1. IsWellFoundedOn(Less, Nat)
  BY NatLessThanWellFounded DEF OpToRel
<1>2. PICK x \in T : \A y \in T : <<y, x>> \notin Less
  <2> HIDE DEF Less
  <2> QED BY <1>1, WFMin, Zenon
<1>3. ASSUME NEW y \in T PROVE x <= y
  <2>1. <<y, x>> \in Nat \X Nat /\ <<y, x>>[1] = y /\ <<y, x>>[2] = x
    OBVIOUS
  <2>2. y < x => <<y, x>> \in Less
    BY <2>1, Zenon
  <2> QED BY <1>2, <2>2
<1> QED BY <1>3, Zenon DEF Min

(* RemoveLink's append of the two slices around the entry is a list again. *)
LEMMA RemoveFirstType ==
  ASSUME NEW S, NEW s \in Seq(S), NEW e
  PROVE  RemoveFirst(s, e) \in Seq(S)
<1> DEFINE I == {i \in 1 .. Len(s) : s[i] = e}
<1>1. CASE I # {}
  <2>1. I \in SUBSET Nat
    OBVIOUS
  <2>2. Min(I) \in I
    <3> HIDE DEF I
    <3> QED BY <1>1, <2>1, MinOfNats
  <2>3. PICK k \in 1 .. Len(s) : k = Min(I)
    BY <2>2, Zenon
  <2>4. RemoveFirst(s, e) = RemoveAt(s, k)
    BY <1>1, <2>3 DEF RemoveFirst, SelectInSeq
  <2>5. SubSeq(s, 1, k - 1) \in Seq(S) /\ SubSeq(s, k + 1, Len(s)) \in Seq(S)
    OBVIOUS
  <2> QED BY <2>4, <2>5 DEF RemoveAt
<1>2. CASE I = {}
  BY <1>2 DEF RemoveFirst
<1> QED BY <1>1, <1>2

LEMMA InitIInv == Init => IInv
<1> SUFFICES ASSUME Init PROVE IInv
  OBVIOUS
<1> USE DEF Ids, Bound
<1>1. Idle \in Step
  BY LinksAssumption DEF Idle, Step, Pcs
<1>2. Typed
  <2>1. act \in [Actors -> Step]
    BY <1>1 DEF Init
  <2>2. links \in Seq(Ifs) /\ att \in [Ifs -> Bound]
    BY LinksAssumption DEF Init
  <2>3. auto \in BOOLEAN /\ session \in BOOLEAN /\ need \in BOOLEAN /\ scene \in Scenes
    BY LinksAssumption, Zenon DEF Init
  <2>4. paths \in [Ids -> Ifs \cup {"none"}] /\ st \in [Ids -> States]
    BY DEF Init, States
  <2>5. conn \in [Ids -> Bound] /\ wan \in [WanIds -> Bound]
        /\ fetch \in [WanIds -> Bound \cup {Asked}]
        /\ \A p \in WanIds : fetch[p] # None => paths[p] # "none"
    BY DEF Init
  <2> QED BY <2>1, <2>2, <2>3, <2>4, <2>5, SMTT(40) DEF Init, Typed, TypeRest
<1>3. Locked
  BY LinksAssumption DEF Init, Locked, Idle, Working, Actors
<1>4. Known
  BY LinksAssumption DEF Init, Known, Idle, Actors
<1>5. OnePathPerLink
  BY DEF Init, OnePathPerLink
<1> QED BY <1>2, <1>3, <1>4, <1>5 DEF IInv

(* Steps of the network, the supervisor, the prober, the lookups and Stop. *)
LEMMA QuietKeeps ==
  ASSUME IInv, UNCHANGED <<paths, lock, act>>, TypeRest'
  PROVE  IInv'
BY DEF IInv, Typed, Locked, Known, OnePathPerLink

(* Steps of a goroutine that keep the lock and the paths.                  *)
LEMMA StepKeeps ==
  ASSUME IInv, NEW a \in Actors, UNCHANGED <<paths, lock>>, TypeRest',
         act' \in [Actors -> Step],
         \A b \in Actors \ {a} : act'[b] = act[b],
         act'[a].pc \in Working => lock = a,
         act'[a].pc = "edit" => act'[a].if \in Ifs,
         lock = a => /\ act'[a].pc \in Working \cup {"gone"}
                     /\ act'[a].todo \subseteq act[a].todo /\ act'[a].by = act[a].by
  PROVE  IInv'
<1>1. Locked'
  BY DEF IInv, Locked
<1>2. Known'
  BY DEF IInv, Known
<1> QED BY <1>1, <1>2 DEF IInv, Typed, OnePathPerLink

(* A field of a goroutine's step is replaced by one of its type.           *)
LEMMA StepUpdated ==
  ASSUME NEW r \in Step
  PROVE  /\ \A x \in Pcs : [r EXCEPT !.pc = x] \in Step
         /\ \A x \in SUBSET Ifs : [r EXCEPT !.todo = x] \in Step
         /\ \A x \in SUBSET Ids : [r EXCEPT !.drop = x] \in Step
         /\ \A x \in Ids : [r EXCEPT !.id = x] \in Step
         /\ \A x \in Bound : [r EXCEPT !.to = x] \in Step
         /\ \A x \in {"add", "remove"} : [r EXCEPT !.op = x] \in Step
         /\ \A x \in Ifs : [r EXCEPT !.if = x] \in Step
         /\ \A x \in Seq(Ifs) : [r EXCEPT !.saw = x] \in Step
BY SMTT(40) DEF Step

LEMMA ActUpdated ==
  ASSUME NEW f \in [Actors -> Step], NEW a \in Actors
  PROVE  /\ \A x \in Pcs : [f EXCEPT ![a].pc = x] \in [Actors -> Step]
         /\ \A x \in SUBSET Ifs : [f EXCEPT ![a].todo = x] \in [Actors -> Step]
         /\ \A x \in SUBSET Ids : [f EXCEPT ![a].drop = x] \in [Actors -> Step]
         /\ \A x \in Ids : [f EXCEPT ![a].id = x] \in [Actors -> Step]
         /\ \A x \in Bound : [f EXCEPT ![a].to = x] \in [Actors -> Step]
BY StepUpdated, ZenonT(40)

LEMMA NextIInv == IInv /\ [Next]_vars => IInv'
<1> SUFFICES ASSUME IInv, [Next]_vars PROVE IInv'
  OBVIOUS
<1> USE DEF IInv, Typed
<1>1. ASSUME Handshake \/ Rekey PROVE IInv'
  <2>1. TypeRest'
    BY <1>1, Zenon DEF Handshake, Rekey, TypeRest, cfg, env, path, info
  <2> QED BY <1>1, <2>1, QuietKeeps DEF Handshake, Rekey, path
<1>2. ASSUME NEW p \in Ids, ComeUp(p) \/ GoDown(p) PROVE IInv'
  <2>1. TypeRest'
    BY <1>2 DEF ComeUp, GoDown, TypeRest, cfg, env, hs, info, States
  <2> QED BY <1>2, <2>1, QuietKeeps, SMTT(40) DEF ComeUp, GoDown
<1>3. ASSUME NEW p \in WanIds, sweep(p) \/ Lookup(p) PROVE IInv'
  <2>1. fetch[p] = Asked => att[paths[p]] \in Bound
    BY LinksAssumption DEF TypeRest, Asked, None, Ids
  <2>2. /\ wan' \in [WanIds -> Bound] /\ fetch' \in [WanIds -> Bound \cup {Asked}]
        /\ \A q \in WanIds : fetch'[q] # None => paths'[q] # "none"
    BY <1>3, <2>1, SMTT(40)
       DEF sweep, Lookup, Answer, LookupFails, SetWANInfo, TypeRest, Bound, path, env, Asked,
           None
  <2>3. TypeRest' /\ UNCHANGED <<paths, lock, act>>
    BY <1>3, <2>2
       DEF sweep, Lookup, Answer, LookupFails, SetWANInfo, TypeRest, cfg, env, path, hs
  <2> QED BY <2>3, QuietKeeps
<1>4. ASSUME Stop \/ closeConns \/ wgWait PROVE IInv'
  <2>1. TypeRest'
    BY <1>4 DEF Stop, closeConns, wgWait, TypeRest, cfg, env, path, hs, info, Bound
  <2> QED BY <1>4, <2>1, QuietKeeps DEF Stop, closeConns, wgWait, path
<1>5. ASSUME NEW i \in Ifs, Flip(i) PROVE IInv'
  <2>1. TypeRest'
    BY <1>5 DEF Flip, TypeRest, cfg, path, hs, info, Bound
  <2> QED BY <1>5, <2>1, QuietKeeps DEF Flip, path
<1>6. ASSUME NEW a \in Actors \ {"wan"}, SetupBegin(a) PROVE IInv'
  <2> DEFINE new == [Idle EXCEPT !.pc = "setup", !.by = paths, !.todo = desiredLinks,
                       !.drop = {p \in Ids : paths[p] \in Ifs \ desiredLinks}]
  <2>1. new \in Step /\ new.by = paths /\ new.pc = "setup"
    <3> DEFINE want == desiredLinks
               lost == {p \in Ids : paths[p] \in Ifs \ desiredLinks}
    <3>1. want \subseteq Ifs /\ lost \subseteq Ids
      BY DEF desiredLinks, ToSet, TypeRest
    <3>2. 0 \in Ids /\ None \in Bound /\ paths \in [Ids -> Ifs \cup {"none"}]
      BY LinksAssumption DEF Ids, Bound, TypeRest
    <3>3. new = [Idle EXCEPT !.pc = "setup", !.by = paths, !.todo = want, !.drop = lost]
      OBVIOUS
    <3> HIDE DEF want, lost, new
    <3>4. new = [pc |-> "setup", op |-> "none", if |-> "none", saw |-> <<>>, id |-> 0,
                 to |-> None, by |-> paths, todo |-> want, drop |-> lost]
      BY <3>3, Zenon DEF Idle
    <3>5. <<>> \in Seq(Ifs)
      OBVIOUS
    <3> QED BY <3>1, <3>2, <3>4, <3>5, SMTT(40) DEF Step, Pcs
  <2>2. TypeRest'
    BY <1>6 DEF SetupBegin, TypeRest, Actors, cfg, env, path, hs, info
  <2>3. act' = [act EXCEPT ![a] = new] /\ lock = "free" /\ lock' = a /\ UNCHANGED paths
    BY <1>6 DEF SetupBegin, path
  <2> HIDE DEF new
  <2>4. \A b \in Actors : act'[b] = IF b = a THEN new ELSE act[b]
    BY <2>3
  <2>5. Typed' /\ OnePathPerLink'
    BY <2>1, <2>2, <2>3 DEF OnePathPerLink
  <2>6. Locked'
    BY <2>1, <2>3, <2>4, LinksAssumption, SMTT(40) DEF Locked, Working, Actors
  <2>7. Known'
    BY <2>1, <2>3, <2>4, SMTT(40) DEF Known
  <2> QED BY <2>5, <2>6, <2>7
<1>7. ASSUME NEW a \in Actors \ {"wan"}, SetupEnd(a) PROVE IInv'
  <2>1. Idle \in Step
    BY LinksAssumption DEF Idle, Step, Pcs, Ids, Bound
  <2>2. TypeRest'
    BY <1>7 DEF SetupEnd, TypeRest, cfg, env, path, hs, info
  <2>3. act' = [act EXCEPT ![a] = Idle] /\ lock = a /\ lock' = "free" /\ UNCHANGED paths
    BY <1>7 DEF SetupEnd, path, Locked, Working
  <2>4. \A b \in Actors : act'[b] = IF b = a THEN Idle ELSE act[b]
    BY <2>3
  <2>5. Typed' /\ OnePathPerLink'
    BY <2>1, <2>2, <2>3, SMTT(40) DEF OnePathPerLink
  <2>6. Locked'
    BY <2>3, <2>4, LinksAssumption, SMTT(40) DEF Locked, Working, Actors, Idle
  <2>7. Known'
    BY <2>3, LinksAssumption DEF Known, Actors
  <2> QED BY <2>5, <2>6, <2>7
<1>8. ASSUME NEW a \in Actors \ {"wan"}, NEW i \in Ifs, DialFails(a, i) PROVE IInv'
  <2>1. TypeRest'
    BY <1>8 DEF DialFails, CloseConn, TypeRest, Bound, cfg, env, hs, info
  <2>2. act' \in [Actors -> Step] /\ \A b \in Actors \ {a} : act'[b] = act[b]
    <3> DEFINE f == [act EXCEPT ![a].todo = @ \ {i}]
               g == [f EXCEPT ![a].pc = "gone"]
    <3>1. act[a].todo \ {i} \in SUBSET Ifs /\ "gone" \in Pcs
      BY DEF Step, Pcs
    <3>2. f \in [Actors -> Step]
      BY <3>1, ActUpdated, SMTT(40)
    <3>3. g \in [Actors -> Step]
      <4> HIDE DEF f
      <4> QED BY <3>1, <3>2, ActUpdated
    <3>4. \A p \in Ids : [g EXCEPT ![a].id = p] \in [Actors -> Step]
      <4> HIDE DEF g
      <4> QED BY <3>3, ActUpdated
    <3>5. act' = f \/ \E p \in Ids : act' = [g EXCEPT ![a].id = p]
      BY <1>8 DEF DialFails, PathsOf
    <3>6. act' \in [Actors -> Step]
      <4> HIDE DEF f, g
      <4> QED BY <3>2, <3>4, <3>5, ZenonT(40)
    <3> QED BY <3>5, <3>6
  <2>3. /\ act'[a].pc \in {"setup", "gone"} /\ act'[a].by = act[a].by
        /\ act'[a].todo \subseteq act[a].todo
    BY <1>8 DEF DialFails, PathsOf, Step
  <2>4. lock = a /\ UNCHANGED <<paths, lock>>
    BY <1>8 DEF DialFails, Locked, Working
  <2> QED BY <2>1, <2>2, <2>3, <2>4, StepKeeps, SMTT(40) DEF Working
<1>9. ASSUME NEW a \in Actors \ {"wan"}, NEW i \in Ifs, DialNew(a, i) \/ DialKnown(a, i)
      PROVE  IInv'
  <2>1. act' \in [Actors -> Step] /\ \A b \in Actors \ {a} : act'[b] = act[b]
    <3> DEFINE f == [act EXCEPT ![a].todo = @ \ {i}]
               g == [f EXCEPT ![a].pc = "swap"]
    <3>1. act[a].todo \ {i} \in SUBSET Ifs /\ "swap" \in Pcs /\ att[i] \in Bound
      BY DEF Step, Pcs, TypeRest
    <3>2. f \in [Actors -> Step]
      BY <3>1, ActUpdated, SMTT(40)
    <3>3. g \in [Actors -> Step]
      <4> HIDE DEF f
      <4> QED BY <3>1, <3>2, ActUpdated
    <3>4. ASSUME NEW p \in Ids
          PROVE  [[g EXCEPT ![a].id = p] EXCEPT ![a].to = att[i]] \in [Actors -> Step]
      <4> DEFINE h == [g EXCEPT ![a].id = p]
      <4>1. h \in [Actors -> Step]
        <5> HIDE DEF g
        <5> QED BY <3>3, ActUpdated
      <4> HIDE DEF h
      <4>2. [h EXCEPT ![a].to = att[i]] \in [Actors -> Step]
        BY <3>1, <4>1, ActUpdated, SMTT(40)
      <4> QED BY <4>2 DEF h
    <3>5. \/ act' = f
          \/ \E p \in Ids : act' = [[g EXCEPT ![a].id = p] EXCEPT ![a].to = att[i]]
      BY <1>9, Zenon DEF DialNew, DialKnown, PathsOf
    <3>6. act' \in [Actors -> Step]
      <4> HIDE DEF f, g
      <4> QED BY <3>2, <3>4, <3>5, ZenonT(40)
    <3> QED BY <3>5, <3>6, Zenon
  <2>2. /\ act[a].pc = "setup" /\ act'[a].pc \in {"setup", "swap"}
        /\ act'[a].by = act[a].by /\ act'[a].todo = act[a].todo \ {i}
    <3>1. act[a].pc = "setup"
      BY <1>9, ZenonT(40) DEF DialNew, DialKnown
    <3>2. \/ act' = [act EXCEPT ![a].todo = @ \ {i}]
          \/ \E p \in Ids : act' = [act EXCEPT ![a].todo = @ \ {i}, ![a].pc = "swap",
                                            ![a].id = p, ![a].to = att[i]]
      BY <1>9, Zenon DEF DialNew, DialKnown, PathsOf
    <3>3. CASE act' = [act EXCEPT ![a].todo = @ \ {i}]
      BY <3>1, <3>3 DEF Step
    <3>4. ASSUME NEW p \in Ids, act' = [act EXCEPT ![a].todo = @ \ {i}, ![a].pc = "swap",
                                            ![a].id = p, ![a].to = att[i]]
          PROVE  act'[a].pc = "swap" /\ act'[a].by = act[a].by
                 /\ act'[a].todo = act[a].todo \ {i}
      BY <3>4, SMTT(40) DEF Step
    <3> QED BY <3>1, <3>2, <3>3, <3>4, Zenon
  <2>3. lock = a /\ UNCHANGED lock
    BY <1>9, <2>2, Zenon DEF DialNew, DialKnown, Locked, Working
  <2>4. CASE UNCHANGED paths
    <3>1. TypeRest'
      BY <1>9, <2>4, Zenon DEF DialNew, DialKnown, TypeRest, cfg, env, path, hs, info
    <3> QED BY <2>1, <2>2, <2>3, <2>4, <3>1, StepKeeps, SMTT(40) DEF Working
  <2>5. CASE \E p \in Ids : DialNew(a, i) /\ Free(p) /\ paths' = [paths EXCEPT ![p] = i]
    <3>1. PICK p \in Ids : DialNew(a, i) /\ Free(p) /\ paths' = [paths EXCEPT ![p] = i]
      BY <2>5, Zenon
    <3>2. TypeRest'
      <4>1. paths' \in [Ids -> Ifs \cup {"none"}]
        BY <3>1 DEF TypeRest
      <4>2. \A q \in WanIds : fetch[q] # None => paths'[q] # "none"
        BY <3>1, LinksAssumption DEF TypeRest, Ids
      <4> QED BY <3>1, <4>1, <4>2, Zenon DEF DialNew, TypeRest, cfg, env, hs, info
    <3>3. \A q \in Ids : paths'[q] = IF q = p THEN i ELSE paths[q]
      BY <3>1 DEF TypeRest
    <3>4. \A q \in Ids : paths[q] # i
      <4>1. i \in act[a].todo /\ \A q \in Ids : act[a].by[q] # i
        BY <3>1, Zenon DEF DialNew, PathsOf
      <4> QED BY <2>3, <4>1, SMTT(40) DEF Known
    <3>5. OnePathPerLink'
      BY <3>3, <3>4 DEF OnePathPerLink
    <3>6. Locked'
      BY <2>1, <2>2, <2>3, SMTT(40) DEF Locked, Working
    <3>7. Known'
      BY <2>2, <2>3, <3>3, SMTT(40) DEF Known
    <3> QED BY <2>1, <3>2, <3>5, <3>6, <3>7
  <2> QED BY <1>9, <2>4, <2>5, Zenon DEF DialNew, DialKnown, path
<1>10. ASSUME NEW a \in Actors \ {"wan"}, swapConn(a) \/ Settle(a) PROVE IInv'
  <2>1. act[a].id \in Ids /\ act[a].to \in Bound
    BY DEF Step
  <2>2. TypeRest'
    BY <1>10, <2>1, ZenonT(40)
       DEF swapConn, Settle, TypeRest, Bound, States, cfg, env, hs, info
  <2>3. PICK x \in {"settle", "setup"} : act' = [act EXCEPT ![a].pc = x]
    BY <1>10 DEF swapConn, Settle, Goto
  <2>4. act' \in [Actors -> Step]
    BY <2>3, ActUpdated, Zenon DEF Pcs
  <2>5. /\ act'[a].pc \in {"settle", "setup"} /\ act'[a].by = act[a].by
        /\ act'[a].todo = act[a].todo /\ \A b \in Actors \ {a} : act'[b] = act[b]
    BY <2>3 DEF Step
  <2>6. lock = a /\ UNCHANGED <<paths, lock>>
    BY <1>10, ZenonT(40) DEF swapConn, Settle, Locked, Working
  <2> QED BY <2>2, <2>4, <2>5, <2>6, StepKeeps, SMTT(40) DEF Working
<1>11. ASSUME NEW a \in Actors \ {"wan"}, SetupDrop(a) PROVE IInv'
  <2>1. PICK p \in act[a].drop :
          /\ CloseConn(p)
          /\ act' = [act EXCEPT ![a].drop = @ \ {p}, ![a].pc = "gone", ![a].id = p]
    BY <1>11, Zenon DEF SetupDrop
  <2>2. p \in Ids /\ act[a].drop \ {p} \in SUBSET Ids /\ "gone" \in Pcs
    BY DEF Step, Pcs
  <2>3. TypeRest'
    BY <1>11, <2>1, <2>2, SMTT(40)
       DEF SetupDrop, CloseConn, TypeRest, Bound, cfg, env, hs, info
  <2>4. act' \in [Actors -> Step]
    <3> DEFINE f == [act EXCEPT ![a].drop = @ \ {p}]
               g == [f EXCEPT ![a].pc = "gone"]
    <3>1. f \in [Actors -> Step]
      BY <2>2, ActUpdated
    <3>2. g \in [Actors -> Step]
      <4> HIDE DEF f
      <4> QED BY <2>2, <3>1, ActUpdated
    <3>3. act' = [g EXCEPT ![a].id = p]
      BY <2>1
    <3> HIDE DEF g
    <3> QED BY <2>2, <3>2, <3>3, ActUpdated
  <2>5. /\ act'[a].pc = "gone" /\ act'[a].by = act[a].by
        /\ act'[a].todo = act[a].todo /\ \A b \in Actors \ {a} : act'[b] = act[b]
    BY <2>1 DEF Step
  <2>6. lock = a /\ UNCHANGED <<paths, lock>>
    BY <1>11 DEF SetupDrop, Locked, Working
  <2> QED BY <2>3, <2>4, <2>5, <2>6, StepKeeps, SMTT(40) DEF Working
<1>12. ASSUME NEW a \in Actors \ {"wan"}, markLinkGone(a) PROVE IInv'
  <2>1. act[a].id \in Ids
    BY DEF Step
  <2>2. TypeRest'
    BY <1>12, <2>1 DEF markLinkGone, TypeRest, States, cfg, env, hs, info
  <2>3. act[a].pc = "gone" /\ UNCHANGED <<paths, lock>>
        /\ \A b \in Actors \ {a} : act'[b] = act[b]
    BY <1>12 DEF markLinkGone
  <2>4. CASE lock = a
    <3>1. act' = [act EXCEPT ![a].pc = "setup"]
      BY <1>12, <2>4, SMTT(40) DEF markLinkGone
    <3>2. act' \in [Actors -> Step]
      BY <3>1, ActUpdated, Zenon DEF Pcs
    <3>3. act'[a].pc = "setup" /\ act'[a].by = act[a].by /\ act'[a].todo = act[a].todo
      BY <3>1 DEF Step
    <3> QED BY <2>2, <2>3, <2>4, <3>2, <3>3, StepKeeps, SMTT(40) DEF Working
  <2>5. CASE lock # a
    <3>1. Idle \in Step
      BY LinksAssumption DEF Idle, Step, Pcs, Ids, Bound
    <3>2. act' = [act EXCEPT ![a] = Idle]
      BY <1>12, <2>5, SMTT(40) DEF markLinkGone
    <3>3. act' \in [Actors -> Step] /\ act'[a].pc = "idle"
      BY <3>1, <3>2, Zenon DEF Idle
    <3> QED BY <2>2, <2>3, <2>5, <3>3, StepKeeps, SMTT(40) DEF Working
  <2> QED BY <2>4, <2>5
<1>13. ASSUME NEW a \in Actors, Exit(a) PROVE IInv'
  <2>1. TypeRest'
    BY <1>13 DEF Exit, TypeRest, cfg, env, path, hs, info
  <2>2. act' = [act EXCEPT ![a].pc = "done"] /\ lock # a /\ UNCHANGED <<paths, lock>>
    BY <1>13, SMTT(40) DEF Exit, Goto, Locked, Working, path
  <2>3. act' \in [Actors -> Step]
    BY <2>2, ActUpdated, Zenon DEF Pcs
  <2>4. act'[a].pc = "done" /\ \A b \in Actors \ {a} : act'[b] = act[b]
    BY <2>2 DEF Step
  <2> QED BY <2>1, <2>2, <2>3, <2>4, StepKeeps, SMTT(40) DEF Working
<1>14. ASSUME NEW c \in Callers, NEW op \in {"add", "remove"}, NEW i \in Ifs, Call(c, op, i)
       PROVE  IInv'
  <2> DEFINE r == [Idle EXCEPT !.pc = "edit"]
             s == [r EXCEPT !.op = op]
             t == [s EXCEPT !.if = i]
             new == [t EXCEPT !.saw = links]
  <2>1. r \in Step
    <3>1. Idle \in Step
      BY LinksAssumption DEF Idle, Step, Pcs, Ids, Bound
    <3> QED BY <3>1, StepUpdated, ZenonT(40) DEF Pcs
  <2>2. act' = [act EXCEPT ![c] = new]
    BY <1>14 DEF Call
  <2>3. new \in Step /\ new.pc = "edit" /\ new.if = i
    <3>1. r.pc = "edit"
      BY DEF Idle
    <3> HIDE DEF r
    <3>2. s \in Step
      BY <2>1, StepUpdated, Zenon
    <3>3. s.pc = "edit"
      BY <2>1, <3>1 DEF Step
    <3> HIDE DEF s
    <3>4. t \in Step
      BY <3>2, StepUpdated, Zenon
    <3>5. t.pc = "edit" /\ t.if = i
      BY <3>2, <3>3 DEF Step
    <3> HIDE DEF t
    <3>6. links \in Seq(Ifs)
      BY DEF TypeRest
    <3>7. new \in Step
      BY <3>4, <3>6, StepUpdated, Zenon
    <3>8. new.pc = "edit" /\ new.if = i
      BY <3>4, <3>5 DEF Step
    <3> QED BY <3>7, <3>8
  <2> HIDE DEF new
  <2>4. c \in Actors /\ lock # c /\ UNCHANGED <<paths, lock>>
    BY <1>14 DEF Call, Actors, Locked, Working, path
  <2>5. TypeRest'
    BY <1>14 DEF Call, TypeRest, env, path, hs, info
  <2> QED BY <2>2, <2>3, <2>4, <2>5, StepKeeps, SMTT(40) DEF Working
<1>15. ASSUME NEW c \in Callers, AddLink(c) PROVE IInv'
  <2>1. c \in Actors /\ act[c].if \in Ifs /\ act[c].saw \in Seq(Ifs)
    BY <1>15, ZenonT(40) DEF AddLink, Actors, Locked, Step
  <2>2. TypeRest'
    BY <1>15, <2>1 DEF AddLink, TypeRest, env, path, hs, info
  <2>3. act' = [act EXCEPT ![c].pc = "lock"] /\ lock # c /\ UNCHANGED <<paths, lock>>
    BY <1>15, <2>1 DEF AddLink, Goto, Locked, Working, path
  <2>4. act' \in [Actors -> Step]
    BY <2>1, <2>3, ActUpdated, ZenonT(40) DEF Pcs
  <2>5. act'[c].pc = "lock" /\ \A b \in Actors \ {c} : act'[b] = act[b]
    BY <2>1, <2>3 DEF Step
  <2> QED BY <2>1, <2>2, <2>3, <2>4, <2>5, StepKeeps, SMTT(40) DEF Working
<1>16. ASSUME NEW c \in Callers, RemoveLink(c) PROVE IInv'
  <2>1. c \in Actors /\ act[c].saw \in Seq(Ifs)
    BY DEF Actors, Step
  <2>2. links' \in Seq(Ifs)
    BY <1>16, <2>1, RemoveFirstType, SMTT(40) DEF RemoveLink, TypeRest
  <2>3. TypeRest'
    BY <1>16, <2>2 DEF RemoveLink, CloseConn, TypeRest, Bound, env, hs, info
  <2>4. lock # c /\ UNCHANGED <<paths, lock>>
    BY <1>16, <2>1, SMTT(40) DEF RemoveLink, Locked, Working
  <2>5. CASE act' = [act EXCEPT ![c] = Idle]
    <3>1. Idle \in Step
      BY LinksAssumption DEF Idle, Step, Pcs, Ids, Bound
    <3>2. act' \in [Actors -> Step] /\ act'[c].pc = "idle"
      BY <2>1, <2>5, <3>1, SMTT(40) DEF Idle
    <3>3. \A b \in Actors \ {c} : act'[b] = act[b]
      BY <2>1, <2>5, Zenon
    <3> QED BY <2>1, <2>3, <2>4, <3>2, <3>3, StepKeeps, SMTT(40) DEF Working
  <2>6. ASSUME NEW p \in Ids, act' = [act EXCEPT ![c].pc = "gone", ![c].id = p]
        PROVE  IInv'
    <3> DEFINE f == [act EXCEPT ![c].pc = "gone"]
    <3>1. f \in [Actors -> Step]
      BY <2>1, ActUpdated, Zenon DEF Pcs
    <3>2. act' = [f EXCEPT ![c].id = p]
      BY <2>6
    <3>3. act' \in [Actors -> Step]
      <4> HIDE DEF f
      <4> QED BY <2>1, <3>1, <3>2, ActUpdated, SMTT(40)
    <3>4. act'[c].pc = "gone" /\ \A b \in Actors \ {c} : act'[b] = act[b]
      BY <2>1, <2>6 DEF Step
    <3> QED BY <2>1, <2>3, <2>4, <3>3, <3>4, StepKeeps, SMTT(40) DEF Working
  <2> QED BY <1>16, <2>5, <2>6, SMTT(40) DEF RemoveLink
<1>17. CASE UNCHANGED vars
  <2>1. TypeRest'
    BY <1>17 DEF vars, TypeRest, cfg, env, path, hs, info
  <2> QED BY <1>17, <2>1, QuietKeeps, SMTT(40) DEF vars, path
<1>18. ASSUME NEW a \in Actors \ {"wan"}, setupLinks(a) PROVE IInv'
  BY <1>6, <1>7, <1>8, <1>9, <1>10, <1>11, <1>12, <1>18, SMTT(40) DEF setupLinks
<1> QED BY <1>1, <1>2, <1>3, <1>4, <1>5, <1>13, <1>14, <1>15, <1>16, <1>17, <1>18, ZenonT(60)
        DEF Next, Actors, Request

LEMMA InvariantHolds == Spec => []IInv
BY InitIInv, NextIInv, PTL DEF Spec

(* The state of a client's links keeps its types: whatever the control API *)
(* appends and removes, the list of links is a list of interfaces, and ids *)
(* stay in range (desiredLinks, setupLinks, AddLink, RemoveLink).          *)
THEOREM LinksTyped == Spec => []TypeOK
<1>1. IInv => TypeOK
  BY DEF IInv, Typed, TypeRest, TypeOK, Step, Pcs
<1> QED BY <1>1, InvariantHolds, PTL

(* An interface never has two paths, for any number of interfaces, path    *)
(* ids and requests: setupLinks looks a link up and creates its path under *)
(* linksMu, and RemoveLink, which does not take it, creates none.          *)
THEOREM LinksOnePath == Spec => []OnePathPerLink
BY InvariantHolds, PTL DEF IInv
=============================================================================
