------------------------------- MODULE Epochs -------------------------------
(***************************************************************************)
(* Key epochs of one client and its server: handshakes and rekeys          *)
(* (client.go clientSupervisor, handshakeOnce; server.go                   *)
(* handleHandshakeInit), key confirmation (session.go handleDatagram),     *)
(* registering, superseding and pruning epochs, and what happens to the    *)
(* uplink's packets when either process restarts.                          *)
(*                                                                         *)
(* A handshake attempt is named by its timestamp; the epoch it makes by    *)
(* the attempt and the server incarnation that answered.  Messages are     *)
(* never taken off the network: each may be received late, in any order,   *)
(* again, or never.  The grace period of a superseded epoch may end at any *)
(* time after it is superseded.                                            *)
(***************************************************************************)
EXTENDS Integers, FiniteSets

CONSTANTS
  MaxAttempts,   \* bound: handshake attempts; the last one is not lost
  MaxRestarts,   \* bound: restarts of either process
  MaxSeq,        \* bound: data packets a client process sends
  SeenSpan       \* how far back the receiver tells duplicates (8192)

ASSUME EpochsAssumption ==
  /\ MaxAttempts \in Nat \ {0} /\ MaxRestarts \in Nat
  /\ MaxSeq \in Nat /\ SeenSpan \in Nat \ {0}

VARIABLES
  attempt,       \* client: timestamp and rxID of the last handshake
  waiting,       \* client: its response is awaited
  cTx, cEpochs,  \* client: send epoch; epochs accepted for receiving
  cOld,          \* client: the superseded ones among them
  cSeq,          \* client: globalSeq
  inc,           \* server: incarnation
  lastHsTs,      \* server: newest handshake timestamp accepted
  sTx, pending, sEpochs, sOld,   \* server: likewise, and the pending epoch
  seen, opened,  \* server: sequence numbers and packets received
  inits, resps, uplink,          \* messages sent so far
  restarts,
  registered     \* history: epochs the client has completed

client == <<attempt, waiting, cTx, cEpochs, cOld, cSeq, registered>>
server == <<inc, lastHsTs, sTx, pending, sEpochs, sOld, seen, opened>>
vars   == <<client, server, inits, resps, uplink, restarts>>

Epoch(a, i) == [att |-> a, inc |-> i]
None        == Epoch(0, 0)
Control     == 0    \* the seq of a packet that is not data

Init ==
  /\ attempt = 0 /\ waiting = FALSE
  /\ cTx = None /\ cEpochs = {} /\ cOld = {} /\ cSeq = 0
  /\ inc = 1 /\ lastHsTs = 0
  /\ sTx = None /\ pending = None /\ sEpochs = {} /\ sOld = {}
  /\ seen = {} /\ opened = {}
  /\ inits = {} /\ resps = {} /\ uplink = {}
  /\ restarts = 0 /\ registered = {}

-----------------------------------------------------------------------------
(* The client.  A handshake starts at once, on the rekey tick or after a   *)
(* failed attempt.                                                         *)
StartHandshake ==
  /\ ~waiting /\ attempt < MaxAttempts
  /\ attempt' = attempt + 1 /\ waiting' = TRUE
  /\ inits' = inits \cup {attempt'}
  /\ UNCHANGED <<cTx, cEpochs, cOld, cSeq, registered, server, resps, uplink, restarts>>

HandshakeTimeout ==
  /\ waiting /\ attempt < MaxAttempts
  /\ waiting' = FALSE
  /\ UNCHANGED <<attempt, cTx, cEpochs, cOld, cSeq, registered, server, inits,
                 resps, uplink, restarts>>

(* The response to the current attempt: registerEpoch(epoch, true), and    *)
(* every path is announced under the new epoch.                            *)
OnResp(e) ==
  /\ waiting /\ e.att = attempt
  /\ waiting' = FALSE
  /\ cOld' = IF cTx \in cEpochs THEN cOld \cup {cTx} ELSE cOld
  /\ cEpochs' = cEpochs \cup {e}
  /\ cTx' = e
  /\ registered' = registered \cup {e}
  /\ uplink' = uplink \cup {[epoch |-> e, seq |-> Control]}
  /\ UNCHANGED <<attempt, cSeq, server, inits, resps, restarts>>

(* sendData under the send epoch.                                          *)
SendData ==
  /\ cTx # None /\ cSeq < MaxSeq
  /\ cSeq' = cSeq + 1
  /\ uplink' = uplink \cup {[epoch |-> cTx, seq |-> cSeq']}
  /\ UNCHANGED <<attempt, waiting, cTx, cEpochs, cOld, registered, server, inits,
                 resps, restarts>>

ClientPrune(e) ==
  /\ cEpochs' = cEpochs \ {e} /\ cOld' = cOld \ {e}
  /\ UNCHANGED <<attempt, waiting, cTx, cSeq, registered, server, inits, resps,
                 uplink, restarts>>

ClientRestart ==
  /\ restarts < MaxRestarts /\ attempt < MaxAttempts
  /\ restarts' = restarts + 1
  /\ waiting' = FALSE /\ cTx' = None /\ cEpochs' = {} /\ cOld' = {} /\ cSeq' = 0
  /\ UNCHANGED <<attempt, registered, server, inits, resps, uplink>>

-----------------------------------------------------------------------------
(* Mutant of handleHandshakeInit: a handshake supersedes before it is      *)
(* confirmed.                                                              *)
SupersedingInit(a) ==
  /\ a > lastHsTs
  /\ lastHsTs' = a
  /\ LET e == Epoch(a, inc) IN
     /\ sEpochs' = sEpochs \cup {e}
     /\ resps' = resps \cup {e}
     /\ pending' = IF sTx = None THEN None ELSE e
     /\ sTx' = IF sTx = None THEN e ELSE sTx
     /\ sOld' = sEpochs
  /\ UNCHANGED <<inc, seen, opened, client, inits, uplink, restarts>>

(* Mutant of handleHandshakeInit: the server sends under the new epoch     *)
(* at once.                                                                *)
SwitchingInit(a) ==
  /\ a > lastHsTs
  /\ lastHsTs' = a
  /\ LET e == Epoch(a, inc) IN
     /\ sEpochs' = sEpochs \cup {e}
     /\ resps' = resps \cup {e}
     /\ sTx' = e
  /\ UNCHANGED <<inc, pending, sOld, seen, opened, client, inits, uplink, restarts>>

(* Mutant of handleHandshakeInit: the timestamp need not advance.          *)
UntimedInit(a) ==
  /\ lastHsTs' = a
  /\ LET e == Epoch(a, inc) IN
     /\ sEpochs' = sEpochs \cup {e}
     /\ resps' = resps \cup {e}
     /\ pending' = IF sTx = None THEN None ELSE e
     /\ sTx' = IF sTx = None THEN e ELSE sTx
  /\ UNCHANGED <<inc, sOld, seen, opened, client, inits, uplink, restarts>>

(* The server.  handleHandshakeInit: a new timestamp makes a new epoch,    *)
(* pending unless there is none to send under.                             *)
handleHandshakeInit(a) ==
  /\ a > lastHsTs
  /\ lastHsTs' = a
  /\ LET e == Epoch(a, inc) IN
     /\ sEpochs' = sEpochs \cup {e}
     /\ resps' = resps \cup {e}
     /\ pending' = IF sTx = None THEN None ELSE e
     /\ sTx' = IF sTx = None THEN e ELSE sTx
  /\ UNCHANGED <<inc, sOld, seen, opened, client, inits, uplink, restarts>>

(* Mutant of Confirm: registerEpoch without makeTx.                        *)
ConfirmWithoutTx(e) ==
  /\ pending' = IF pending = e THEN None ELSE pending
  /\ UNCHANGED <<sOld, sTx>>

(* Key confirmation: the first receive under the pending epoch.            *)
Confirm(e) ==
  IF pending = e
  THEN /\ pending' = None
       /\ sOld' = IF sTx \in sEpochs THEN sOld \cup {sTx} ELSE sOld
       /\ sTx' = e
  ELSE UNCHANGED <<pending, sOld, sTx>>

(* The reorder buffer's duplicate filter.                                  *)
IsDuplicate(seq) ==
  \/ seq \in seen
  \/ \E s \in seen : s - seq >= SeenSpan

(* handleDatagram, for a packet of a known epoch that the replay window    *)
(* has not seen.                                                           *)
handleDatagram(m) ==
  /\ m.epoch \in sEpochs /\ m \notin opened
  /\ opened' = opened \cup {m}
  /\ Confirm(m.epoch)
  /\ seen' = IF m.seq = Control \/ IsDuplicate(m.seq) THEN seen ELSE seen \cup {m.seq}
  /\ UNCHANGED <<inc, lastHsTs, sEpochs, client, inits, resps, uplink, restarts>>

ServerPrune(e) ==
  /\ sEpochs' = sEpochs \ {e} /\ sOld' = sOld \ {e}
  /\ UNCHANGED <<inc, lastHsTs, sTx, pending, seen, opened, client, inits, resps,
                 uplink, restarts>>

ServerRestart ==
  /\ restarts < MaxRestarts /\ attempt < MaxAttempts
  /\ restarts' = restarts + 1
  /\ inc' = inc + 1
  /\ lastHsTs' = 0 /\ sTx' = None /\ pending' = None /\ sEpochs' = {} /\ sOld' = {}
  /\ seen' = {} /\ opened' = {}
  /\ UNCHANGED <<client, inits, resps, uplink>>

RecvInit == \E a \in inits : handleHandshakeInit(a)
RecvResp == \E e \in resps : OnResp(e)
RecvData == \E m \in uplink : handleDatagram(m)
Prune    == \/ \E e \in cOld : ClientPrune(e)
            \/ \E e \in sOld : ServerPrune(e)

Next ==
  \/ StartHandshake \/ HandshakeTimeout \/ RecvResp \/ SendData \/ ClientRestart
  \/ RecvInit \/ RecvData \/ ServerRestart
  \/ Prune

Spec == Init /\ [][Next]_vars

(* The client's supervisor and prober run, and messages that stay relevant *)
(* arrive in the end.                                                      *)
FairSpec ==
  /\ Spec
  /\ WF_vars(StartHandshake) /\ WF_vars(RecvInit) /\ WF_vars(RecvResp)
  /\ WF_vars(RecvData)

-----------------------------------------------------------------------------
EpochSet == [att : Nat, inc : Nat]

(* Client, server, network and histories have their types.                 *)
TypeOK ==
  /\ attempt \in Nat /\ waiting \in BOOLEAN /\ cSeq \in Nat
  /\ cTx \in EpochSet /\ cEpochs \subseteq EpochSet /\ cOld \subseteq cEpochs
  /\ inc \in Nat /\ lastHsTs \in Nat
  /\ sTx \in EpochSet /\ pending \in EpochSet
  /\ sEpochs \subseteq EpochSet /\ sOld \subseteq sEpochs
  /\ seen \subseteq Nat /\ opened \subseteq uplink
  /\ inits \subseteq Nat /\ resps \subseteq EpochSet
  /\ uplink \subseteq [epoch : EpochSet, seq : Nat]
  /\ restarts \in Nat /\ registered \subseteq EpochSet

(* The server can open what the client sends, whatever handshakes were     *)
(* lost, delayed or repeated and however early superseded epochs are       *)
(* pruned, as long as the server that answered still runs.                 *)
UplinkReadable ==
  cTx # None /\ cTx.inc = inc => cTx \in sEpochs \ sOld

(* Until key confirmation the server goes on sending under the old epoch   *)
(* (docs/protocol.md:30): it switches only to epochs the client completed. *)
SwitchConfirmed ==
  [][sTx # None /\ sTx' # sTx /\ sTx' # None => sTx' \in registered]_vars

(* Neither side ever goes back to older keys.                              *)
KeysAdvance ==
  [][/\ cTx # None /\ cTx' # None => cTx'.att >= cTx.att
     /\ sTx # None /\ sTx' # None => sTx'.att >= sTx.att]_vars

(* Once restarts and losses end, both sides send under the same epoch.     *)
SidesSettle == <>[](cTx # None /\ sTx = cTx)

-----------------------------------------------------------------------------
(* "when a newer epoch replaced this one (zero = current)" (session.go:76):*)
(* an epoch that was not superseded is the server's send or pending epoch. *)
UnsupersededIsCurrent == sEpochs \ sOld \subseteq {sTx, pending}

(* m was sent after o: under a later attempt, or later in the same epoch.  *)
SentAfter(m, o) ==
  o.epoch.att < m.epoch.att \/ (o.epoch = m.epoch /\ o.seq < m.seq)

(* "only true duplicates are discarded" (buffer.go:6), because "global_seq *)
(* continues across epochs" (docs/protocol.md:31): a data packet sent      *)
(* after everything the server has received is not taken for a duplicate.  *)
NewestDataAccepted ==
  [][\A m \in opened' \ opened :
       m.seq # Control /\ (\A o \in opened : SentAfter(m, o)) => m.seq \in seen' \ seen]_vars
=============================================================================
