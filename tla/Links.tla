-------------------------------- MODULE Links --------------------------------
(***************************************************************************)
(* The links of a client: the wanted set (client.go desiredLinks), its     *)
(* reconciliation with paths and sockets (setupLinks, markLinkGone,        *)
(* swapConn), the control API that edits it (status.go AddLink,            *)
(* RemoveLink), the choice of the handshake's path (pickHandshakePath),    *)
(* the lookups of public addresses (waninfo.go) and the engine's Stop.     *)
(*                                                                         *)
(* setupLinks runs under linksMu; the API's edits, markLinkGone called by  *)
(* RemoveLink, the lookups and Stop do not.  An attachment stands for an   *)
(* interface's address on one incarnation of its device.  A socket is open *)
(* exactly while it is installed, so conn holds what it was bound to; its  *)
(* reader runs as long.  The prober and the readers are what               *)
(* PathLifecycle details: here a path comes up, and goes down, in a step.  *)
(***************************************************************************)
EXTENDS Integers, FiniteSets, Sequences, SequencesExt

CONSTANTS
  Ifs,          \* interfaces
  MaxPaths,     \* path ids (wire.MaxPaths)
  Attachments,  \* [addr, dev]: an address on an incarnation of the device
  Reaching,     \* the attachments from which the server can be reached
  Starts,       \* bound: how the interfaces are attached in the beginning
  Callers,      \* concurrent requests to the control API
  Explicit,     \* initial ccfg.Links.Link
  Autos,        \* values of ccfg.Links.Auto considered
  Scenes,       \* bound: what happens beside the links, one per behaviour:
                \* "handshakes", "lookups" of public addresses, a "stop", or
                \* nothing, when all path ids but one are used up: "crowded"
  WanIds,       \* bound: paths whose public address is looked up
  MaxFlips,     \* bound: changes of the interfaces
  MaxCalls      \* bound: requests

None == [addr |-> "none", dev |-> 0]

ASSUME LinksAssumption ==
  /\ MaxPaths \in Nat \ {0} /\ MaxFlips \in Nat /\ MaxCalls \in Nat
  /\ "none" \notin Ifs
  /\ Reaching \subseteq Attachments /\ Autos \subseteq BOOLEAN
  /\ Explicit \in Seq(Ifs)
  /\ Scenes \subseteq {"handshakes", "lookups", "crowded", "stop"}
  /\ WanIds \subseteq 0 .. MaxPaths - 1
  /\ Starts \subseteq [Ifs -> Attachments \cup {None}]
  /\ Callers \cap {"free", "mgr", "wan"} = {}

Asked == [addr |-> "asked", dev |-> 0]
Ids  == 0 .. MaxPaths - 1

VARIABLES
  links, auto,  \* ccfg.Links
  att,          \* what each interface is attached to, or None
  paths,        \* the interface of each path, or None: never reset
  st,           \* Path.state of each path
  conn,         \* the attachment each path's socket is bound to, or None
  lock,         \* holder of linksMu, or "free"
  act,          \* the link manager's and the callers' steps
  session, need,\* a session is up; a handshake is wanted
  wan, fetch,   \* the public address stored, and its lookup
  stop,         \* Engine.Stop
  scene, flips, calls,
  raced,        \* history: RemoveLink overlapped setupLinks
  late,         \* history: a socket was installed after closeConns
  outrun        \* history: paths whose stored address is of another attachment

env   == <<att, scene, flips>>
cfg   == <<links, auto, calls>>
path  == <<paths, st, conn>>
hs    == <<session, need>>
info  == <<wan, fetch, outrun>>
vars  == <<cfg, env, path, lock, act, hs, info, stop, raced, late>>

Actors == {"mgr", "wan"} \cup Callers

Idle == [pc |-> "idle", op |-> "none", if |-> "none", saw |-> <<>>, id |-> 0,
         to |-> None, by |-> [p \in Ids |-> "none"], todo |-> {}, drop |-> {}]

Init ==
  /\ links = Explicit /\ auto \in Autos /\ calls = 0
  /\ att \in Starts /\ flips = 0 /\ scene \in Scenes
  /\ paths = [p \in Ids |-> "none"] /\ st = [p \in Ids |-> "Probing"]
  /\ conn = [p \in Ids |-> None]
  /\ lock = "free" /\ act = [a \in Actors |-> Idle]
  /\ session = FALSE /\ need = TRUE
  /\ wan = [p \in WanIds |-> None] /\ fetch = [p \in WanIds |-> None]
  /\ stop = "start" /\ raced = FALSE /\ late = FALSE /\ outrun = {}

-----------------------------------------------------------------------------
(* desiredLinks: explicit links, and in auto mode the usable interfaces.   *)
desiredLinks ==
  ToSet(links) \cup IF auto THEN {i \in Ifs : att[i] # None} ELSE {}

(* A request waits for linksMu; linkManager polls, or a debounced event    *)
(* comes.  When stop is closed too, its select takes either.               *)
linkManager(a) == act[a].pc = IF a = "mgr" THEN "idle" ELSE "lock"

Goto(a, pc) == act' = [act EXCEPT ![a].pc = pc]

(* Mutant of SetupBegin: linksMu is not taken.                             *)
SetupBeginUnlocked(a) ==
  /\ linkManager(a)
  /\ act' = [act EXCEPT ![a] = [Idle EXCEPT !.pc = "setup", !.by = paths,
               !.todo = desiredLinks,
               !.drop = {p \in Ids : paths[p] \in Ifs \ desiredLinks}]]
  /\ raced' = (raced \/ \E c \in Callers : act[c].pc = "gone")
  /\ UNCHANGED <<cfg, env, path, lock, hs, info, stop, late>>

(* setupLinks takes linksMu, computes the wanted set and indexes the paths.*)
SetupBegin(a) ==
  /\ linkManager(a) /\ lock = "free"
  /\ lock' = a
  /\ act' = [act EXCEPT ![a] = [Idle EXCEPT !.pc = "setup", !.by = paths,
               !.todo = desiredLinks,
               !.drop = {p \in Ids : paths[p] \in Ifs \ desiredLinks}]]
  /\ raced' = (raced \/ \E c \in Callers : act[c].pc = "gone")
  /\ UNCHANGED <<cfg, env, path, hs, info, stop, late>>

(* markLinkGone, first part: the socket is closed and its reader returns.  *)
CloseConn(p) == conn' = [conn EXCEPT ![p] = None]

PathsOf(a, i) == {p \in Ids : act[a].by[p] = i}

(* A wanted link whose socket cannot be made.                              *)
DialFails(a, i) ==
  /\ act[a].pc = "setup" /\ i \in act[a].todo /\ att[i] = None
  /\ \/ \E p \in PathsOf(a, i) :
          /\ st[p] \notin {"Down", "Removed"}
          /\ CloseConn(p)
          /\ act' = [act EXCEPT ![a].todo = @ \ {i}, ![a].pc = "gone", ![a].id = p]
     \/ /\ \A p \in PathsOf(a, i) : st[p] \in {"Down", "Removed"}
        /\ act' = [act EXCEPT ![a].todo = @ \ {i}]
        /\ UNCHANGED conn
  /\ UNCHANGED <<cfg, env, paths, st, lock, hs, info, stop, raced, late>>

Free(p) == paths[p] = "none" /\ (scene = "crowded" => p = 0)

(* A new link gets the lowest id never used (freePathID), if there is one. *)
DialNew(a, i) ==
  /\ act[a].pc = "setup" /\ i \in act[a].todo /\ att[i] # None
  /\ PathsOf(a, i) = {}
  /\ \/ \E p \in Ids :
          /\ Free(p) /\ \A q \in Ids : q < p => ~Free(q)
          /\ paths' = [paths EXCEPT ![p] = i]
          /\ act' = [act EXCEPT ![a].todo = @ \ {i}, ![a].pc = "swap",
                                ![a].id = p, ![a].to = att[i]]
     \/ /\ \A p \in Ids : ~Free(p)
        /\ act' = [act EXCEPT ![a].todo = @ \ {i}]
        /\ UNCHANGED paths
  /\ UNCHANGED <<cfg, env, st, conn, lock, hs, info, stop, raced, late>>

(* Mutant of Moved: a socket, once there, is kept.                         *)
MovedNever(p, to) == conn[p] = None

Moved(p, to) == conn[p].addr # to.addr

(* A known link: its socket is replaced if it is gone or bound elsewhere.  *)
DialKnown(a, i) ==
  /\ act[a].pc = "setup" /\ i \in act[a].todo /\ att[i] # None
  /\ \E p \in PathsOf(a, i) :
       act' = IF Moved(p, att[i])
              THEN [act EXCEPT ![a].todo = @ \ {i}, ![a].pc = "swap",
                               ![a].id = p, ![a].to = att[i]]
              ELSE [act EXCEPT ![a].todo = @ \ {i}]
  /\ UNCHANGED <<cfg, env, path, lock, hs, info, stop, raced, late>>

(* Mutant of swapConn: the stored public address survives a rebind.        *)
swapConnKeepingInfo(a) ==
  /\ act[a].pc = "swap"
  /\ conn' = [conn EXCEPT ![act[a].id] = act[a].to]
  /\ late' = (late \/ stop \in {"closed", "stopped"})
  /\ Goto(a, "settle")
  /\ UNCHANGED <<cfg, env, paths, st, lock, hs, info, stop, raced>>

(* swapConn, with MTURestart, which drops the stored public address.       *)
swapConn(a) ==
  /\ act[a].pc = "swap"
  /\ conn' = [conn EXCEPT ![act[a].id] = act[a].to]
  /\ wan' = [p \in WanIds |-> IF p = act[a].id THEN None ELSE wan[p]]
  /\ outrun' = outrun \ {act[a].id}
  /\ late' = (late \/ stop \in {"closed", "stopped"})
  /\ Goto(a, "settle")
  /\ UNCHANGED <<cfg, env, paths, st, lock, hs, fetch, stop, raced>>

(* A Removed path that has a socket again is Probing (a new one is anyway).*)
Settle(a) ==
  /\ act[a].pc = "settle"
  /\ st' = [st EXCEPT ![act[a].id] = IF @ = "Removed" /\ act[a].by[act[a].id] # "none"
                                     THEN "Probing" ELSE @]
  /\ Goto(a, "setup")
  /\ UNCHANGED <<cfg, env, paths, conn, lock, hs, info, stop, raced, late>>

(* The paths of links no longer wanted.                                    *)
SetupDrop(a) ==
  /\ act[a].pc = "setup" /\ act[a].todo = {}
  /\ \E p \in act[a].drop :
       /\ CloseConn(p)
       /\ act' = [act EXCEPT ![a].drop = @ \ {p}, ![a].pc = "gone", ![a].id = p]
  /\ UNCHANGED <<cfg, env, paths, st, lock, hs, info, stop, raced, late>>

(* Mutant of markLinkGone: the path counts as Down.                        *)
markLinkGoneDown(a) ==
  /\ act[a].pc = "gone"
  /\ st' = [st EXCEPT ![act[a].id] = "Down"]
  /\ act' = [act EXCEPT ![a] = IF lock = a THEN [@ EXCEPT !.pc = "setup"] ELSE Idle]
  /\ UNCHANGED <<cfg, env, paths, conn, lock, hs, info, stop, raced, late>>

(* markLinkGone, second part; RemoveLink then returns, setupLinks goes on. *)
markLinkGone(a) ==
  /\ act[a].pc = "gone"
  /\ st' = [st EXCEPT ![act[a].id] = "Removed"]
  /\ act' = [act EXCEPT ![a] = IF lock = a THEN [@ EXCEPT !.pc = "setup"] ELSE Idle]
  /\ UNCHANGED <<cfg, env, paths, conn, lock, hs, info, stop, raced, late>>

(* setupLinks returns; StartClient has called it before all else runs.     *)
SetupEnd(a) ==
  /\ act[a].pc = "setup" /\ act[a].todo = {} /\ act[a].drop = {}
  /\ lock' = "free"
  /\ act' = [act EXCEPT ![a] = Idle]
  /\ stop' = IF stop = "start" THEN "run" ELSE stop
  /\ UNCHANGED <<cfg, env, path, hs, info, raced, late>>

setupLinks(a) ==
  \/ SetupBegin(a)
  \/ \E i \in Ifs : DialFails(a, i) \/ DialNew(a, i) \/ DialKnown(a, i)
  \/ swapConn(a) \/ Settle(a) \/ SetupDrop(a) \/ markLinkGone(a) \/ SetupEnd(a)

-----------------------------------------------------------------------------
(* linkManager and wanInfoLoop return once they find stop closed.          *)
Exit(a) ==
  /\ act[a].pc = "idle" /\ stop \notin {"start", "run"}
  /\ Goto(a, "done")
  /\ UNCHANGED <<cfg, env, path, lock, hs, info, stop, raced, late>>

(* A request reads the list of links and later writes it, without linksMu. *)
Call(c, op, i) ==
  /\ act[c].pc = "idle" /\ stop = "run" /\ calls < MaxCalls /\ scene # "lookups"
  /\ op = "add" => i \notin ToSet(links)
  /\ calls' = calls + 1
  /\ act' = [act EXCEPT ![c] = [Idle EXCEPT !.pc = "edit", !.op = op, !.if = i,
                                            !.saw = links]]
  /\ UNCHANGED <<links, auto, env, path, lock, hs, info, stop, raced, late>>

AddLink(c) ==
  /\ act[c].pc = "edit" /\ act[c].op = "add"
  /\ links' = Append(act[c].saw, act[c].if)
  /\ Goto(c, "lock")
  /\ UNCHANGED <<auto, calls, env, path, lock, hs, info, stop, raced, late>>

(* RemoveLink takes the link from the list and calls markLinkGone, for a   *)
(* link that is not in the list only if its path is in use.                *)
RemoveLink(c) ==
  /\ act[c].pc = "edit" /\ act[c].op = "remove"
  /\ links' = IF act[c].if \in ToSet(act[c].saw)
              THEN RemoveFirst(act[c].saw, act[c].if) ELSE links
  /\ raced' = (raced \/ lock # "free")
  /\ \/ \E p \in Ids :
          /\ paths[p] = act[c].if
          /\ act[c].if \in ToSet(act[c].saw) \/ st[p] # "Removed"
          /\ CloseConn(p)
          /\ act' = [act EXCEPT ![c].pc = "gone", ![c].id = p]
     \/ /\ \A p \in Ids :
             paths[p] = act[c].if => act[c].if \notin ToSet(act[c].saw) /\ st[p] = "Removed"
        /\ act' = [act EXCEPT ![c] = Idle]
        /\ UNCHANGED conn
  /\ UNCHANGED <<auto, calls, env, paths, st, lock, hs, info, stop, late>>

-----------------------------------------------------------------------------
(* The socket of path p reaches the server.                                *)
Works(p) ==
  /\ paths[p] # "none" /\ conn[p] \in Reaching
  /\ conn[p] = att[paths[p]]

Socketed == {p \in Ids : paths[p] # "none" /\ st[p] # "Removed" /\ conn[p] # None}

Lowest(S) == CHOOSE p \in S : \A q \in S : p <= q

(* Mutant of pickHandshakePath: the state of a path is not looked at.      *)
pickAnyPath == Lowest(Socketed)

(* The first Active path with a socket, else the first with a socket.      *)
pickHandshakePath ==
  LET active == {p \in Socketed : st[p] = "Active"}
  IN  IF active # {} THEN Lowest(active) ELSE Lowest(Socketed)

(* handshakeOnce, on the path picked; the supervisor tries again later.    *)
Handshake ==
  /\ scene = "handshakes" /\ stop = "run" /\ need /\ Socketed # {}
  /\ Works(pickHandshakePath)
  /\ need' = FALSE /\ session' = TRUE
  /\ UNCHANGED <<cfg, env, path, lock, act, info, stop, raced, late>>

Rekey ==
  /\ stop = "run" /\ ~need
  /\ need' = TRUE
  /\ UNCHANGED <<cfg, env, path, lock, act, session, info, stop, raced, late>>

(* PathAcks and probes bring a path up, silence brings it down.            *)
ComeUp(p) ==
  /\ stop = "run" /\ session /\ Works(p) /\ st[p] \in {"Probing", "Down"}
  /\ st' = [st EXCEPT ![p] = "Active"]
  /\ UNCHANGED <<cfg, env, paths, conn, lock, act, hs, info, stop, raced, late>>

GoDown(p) ==
  /\ stop = "run" /\ ~Works(p) /\ st[p] = "Active"
  /\ st' = [st EXCEPT ![p] = "Down"]
  /\ UNCHANGED <<cfg, env, paths, conn, lock, act, hs, info, stop, raced, late>>

-----------------------------------------------------------------------------
(* wanInfoLoop: a sweep starts a lookup for a usable path without a stored *)
(* address and without a lookup; it goes out of the path's interface, and  *)
(* its answer is stored later, whatever became of the path.                *)
sweep(p) ==
  /\ scene = "lookups" /\ stop # "start" /\ act["wan"].pc = "idle"
  /\ paths[p] # "none" /\ st[p] \notin {"Removed", "Down"}
  /\ wan[p] = None /\ fetch[p] = None
  /\ fetch' = [fetch EXCEPT ![p] = Asked]
  /\ UNCHANGED <<cfg, env, path, lock, act, hs, wan, outrun, stop, raced, late>>

Answer(p) ==
  /\ fetch[p] = Asked /\ att[paths[p]] # None /\ stop = "run"
  /\ fetch' = [fetch EXCEPT ![p] = att[paths[p]]]
  /\ UNCHANGED <<cfg, env, path, lock, act, hs, wan, outrun, stop, raced, late>>

LookupFails(p) ==
  /\ fetch[p] = Asked
  /\ fetch' = [fetch EXCEPT ![p] = None]
  /\ UNCHANGED <<cfg, env, path, lock, act, hs, wan, outrun, stop, raced, late>>

SetWANInfo(p) ==
  /\ fetch[p] \in Attachments
  /\ wan' = [wan EXCEPT ![p] = fetch[p]]
  /\ fetch' = [fetch EXCEPT ![p] = None]
  /\ outrun' = IF fetch[p] # conn[p] THEN outrun \cup {p} ELSE outrun
  /\ UNCHANGED <<cfg, env, path, lock, act, hs, stop, raced, late>>

-----------------------------------------------------------------------------
(* Stop: close(stop), then closeConns, then wg.Wait for the link manager,  *)
(* the sweeper, the readers and the lookups.  Requests are not waited for. *)
Stop ==
  /\ scene = "stop" /\ stop = "run" /\ stop' = "stopping"
  /\ UNCHANGED <<cfg, env, path, lock, act, hs, info, raced, late>>

(* Mutant of closeConns: only sockets of Active paths are closed.          *)
closeConnsActive ==
  /\ stop = "stopping" /\ stop' = "closed"
  /\ conn' = [p \in Ids |-> IF st[p] = "Active" THEN None ELSE conn[p]]
  /\ UNCHANGED <<cfg, env, paths, st, lock, act, hs, info, raced, late>>

closeConns ==
  /\ stop = "stopping" /\ stop' = "closed"
  /\ conn' = [p \in Ids |-> None]
  /\ UNCHANGED <<cfg, env, paths, st, lock, act, hs, info, raced, late>>

Waited ==
  /\ act["mgr"].pc = "done" /\ act["wan"].pc = "done"
  /\ \A p \in Ids : conn[p] = None
  /\ \A p \in WanIds : fetch[p] = None

wgWait ==
  /\ stop = "closed" /\ Waited /\ stop' = "stopped"
  /\ UNCHANGED <<cfg, env, path, lock, act, hs, info, raced, late>>

(* An interface is attached elsewhere, detached or attached again.         *)
Flip(i) ==
  /\ flips < MaxFlips /\ stop = "run"
  /\ att' \in {[att EXCEPT ![i] = x] : x \in Attachments \cup {None}} \ {att}
  /\ flips' = flips + 1
  /\ UNCHANGED <<scene, cfg, path, lock, act, hs, info, stop, raced, late>>

Lookup(p) == Answer(p) \/ LookupFails(p) \/ SetWANInfo(p)

Request(c) == \E op \in {"add", "remove"}, i \in Ifs : Call(c, op, i)

Next ==
  \/ \E a \in Actors \ {"wan"} : setupLinks(a)
  \/ Exit("mgr") \/ Exit("wan")
  \/ \E c \in Callers : Request(c) \/ AddLink(c) \/ RemoveLink(c)
  \/ Handshake \/ Rekey
  \/ \E p \in Ids : ComeUp(p) \/ GoDown(p)
  \/ \E p \in WanIds : sweep(p) \/ Lookup(p)
  \/ Stop \/ closeConns \/ wgWait
  \/ \E i \in Ifs : Flip(i)

Spec == Init /\ [][Next]_vars

(* Goroutines and requests go on, linkManager polls, readers of closed     *)
(* sockets return, select takes a closed stop channel in the end, silence  *)
(* is noticed, the supervisor and the sweeper retry, and of the lookups    *)
(* repeated for ever one succeeds.                                         *)
FairSpec ==
  /\ Spec
  /\ WF_vars(setupLinks("mgr"))
  /\ \A c \in Callers : WF_vars(setupLinks(c) \/ AddLink(c) \/ RemoveLink(c))
  /\ SF_vars(Exit("mgr")) /\ WF_vars(Exit("wan"))
  /\ WF_vars(closeConns \/ wgWait)
  /\ WF_vars(Handshake) /\ WF_vars(\E p \in Ids : GoDown(p))
  /\ \A p \in WanIds : WF_vars(sweep(p) \/ Lookup(p)) /\ SF_vars(Answer(p))

-----------------------------------------------------------------------------
States == {"Probing", "Active", "Down", "Removed"}
Bound  == Attachments \cup {None}

(* Configuration, paths, sockets and the goroutines' steps have their types.*)
TypeOK ==
  /\ links \in Seq(Ifs) /\ auto \in BOOLEAN /\ att \in [Ifs -> Bound]
  /\ paths \in [Ids -> Ifs \cup {"none"}] /\ st \in [Ids -> States]
  /\ conn \in [Ids -> Bound]
  /\ lock \in {"free", "mgr"} \cup Callers
  /\ \A a \in Actors :
       /\ act[a].pc \in {"idle", "lock", "setup", "swap", "settle", "gone", "edit", "done"}
       /\ act[a].todo \subseteq Ifs /\ act[a].drop \subseteq Ids /\ act[a].id \in Ids
  /\ session \in BOOLEAN /\ need \in BOOLEAN
  /\ wan \in [WanIds -> Bound] /\ fetch \in [WanIds -> Bound \cup {Asked}]
  /\ scene \in Scenes /\ stop \in {"start", "run", "stopping", "closed", "stopped"}

(* An interface never has two paths, however hotplug events, polls and     *)
(* requests overlap: setupLinks looks a link up and creates its path under *)
(* one lock.                                                               *)
OnePathPerLink == \A p, q \in Ids : paths[p] = paths[q] /\ p # q => paths[p] = "none"

Serves(p, i, x) == paths[p] = i /\ conn[p].addr = x.addr /\ st[p] # "Removed"

(* A link that stays wanted on an interface that keeps its address ends up *)
(* with a socket on that address and a path that is not Removed, unless    *)
(* the path ids are used up or a RemoveLink overlapped setupLinks.         *)
WantedIsServed ==
  \A i \in Ifs, x \in Attachments :
    <>[](i \in desiredLinks /\ att[i] = x /\ stop = "run")
      => <>[](\/ \E p \in Ids : Serves(p, i, x)
             \/ raced \/ \A p \in Ids : paths[p] # i /\ ~Free(p))

(* A link that stays unwanted ends up Removed and without a socket, also   *)
(* when RemoveLink, which takes no lock, overlapped setupLinks.            *)
UnwantedIsReleased ==
  \A i \in Ifs :
    <>[](i \notin desiredLinks /\ stop = "run")
      => <>[](\A p \in Ids : paths[p] = i => conn[p] = None /\ st[p] = "Removed")

(* While some Active path reaches the server, every rekey completes,       *)
(* although the handshake may first go to a path that no longer does.      *)
RekeyCompletes ==
  \A p \in Ids : <>[](st[p] = "Active" /\ Works(p) /\ stop = "run") => []<>~need

(* The public address shown for a path that stays usable becomes the one   *)
(* it has, unless the answer stored last came through another attachment.  *)
InfoIsCurrent ==
  \A p \in WanIds, x \in Attachments :
    <>[](/\ conn[p] = x /\ att[paths[p]] = x /\ stop = "run" /\ scene = "lookups"
         /\ st[p] \notin {"Removed", "Down"})
      => <>[](wan[p] = x \/ p \in outrun)

(* Stop returns, unless setupLinks installs a socket after closeConns.     *)
StopEnds == stop = "stopping" ~> (stop = "stopped" \/ late)

-----------------------------------------------------------------------------
(* "Stop shuts the engine down and waits for all goroutines"               *)
(* (engine.go:103): it does return.                                        *)
StopReturns == stop = "stopping" ~> stop = "stopped"

(* "sends one HandshakeInit on the best available path" (client.go:354):   *)
(* a path that keeps reaching the server is found in the end.              *)
HandshakeFindsPath ==
  \A p \in Ids :
    <>[](Works(p) /\ st[p] # "Removed" /\ stop = "run" /\ scene = "handshakes")
      => []<>~need

(* "recreate the socket only if the local address moved or the socket is   *)
(* gone (DHCP renumber, hotplug return)" (client.go:153): after the return *)
(* of a device the socket is one on that device.                           *)
ReturnIsServed ==
  \A i \in Ifs, x \in Attachments :
    <>[](i \in desiredLinks /\ att[i] = x /\ stop = "run" /\ ~raced)
      => <>[](\E p \in Ids : Serves(p, i, x) /\ conn[p] = x)

(* "linksMu guards ccfg.Links" (engine.go:65): a link leaves the list only *)
(* by the request that removes it.                                         *)
ListIsGuarded ==
  [][\A i \in ToSet(links) : i \notin ToSet(links') =>
       \E c \in Callers : act[c].op = "remove" /\ act[c].if = i /\ RemoveLink(c)]_vars

(* "populates each path's public-IP / ASN info the first time the path     *)
(* becomes usable, and when a rebind clears it" (waninfo.go:20): what is   *)
(* shown is not that of another network for ever.                          *)
InfoIsRefreshed ==
  \A p \in WanIds, x \in Attachments :
    <>[](/\ conn[p] = x /\ att[paths[p]] = x /\ stop = "run" /\ scene = "lookups"
         /\ st[p] \notin {"Removed", "Down"})
      => <>[](wan[p] = x)
=============================================================================
