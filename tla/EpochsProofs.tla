---------------------------- MODULE EpochsProofs ----------------------------
(***************************************************************************)
(* The server can always open what the client sends, for every number of   *)
(* handshakes, restarts and packets.  The invariant IInv says how far each *)
(* side can be ahead of the other: an epoch is superseded at the server    *)
(* only by one the client has used, and the client never goes back.        *)
(* Last, the replay window of an epoch forgets no recent counter and       *)
(* implements the abstract one, for every block size and number of blocks  *)
(* (ReplayWindow).                                                         *)
(***************************************************************************)
EXTENDS Epochs, ReplayWindow, SlidingBitmapProofs

(* The client's own order: its send epoch and all it ever sent belong to   *)
(* attempts before the one it waits for.                                   *)
ClientOrder ==
  /\ cTx # None => cTx.att \in 1 .. attempt /\ cTx.inc <= inc /\ cTx \in registered
  /\ waiting => cTx.att < attempt
  /\ \A m \in uplink :
       /\ m.epoch.att \in 1 .. attempt /\ m.epoch \in registered
       /\ waiting => m.epoch.att < attempt
       /\ cTx # None => m.epoch.att <= cTx.att

(* The server's order: its epochs are of this incarnation, the superseded  *)
(* ones older than its send epoch and the pending one newer.               *)
ServerOrder ==
  /\ \A e \in sEpochs : e.inc = inc /\ e.att \in 1 .. lastHsTs
  /\ \A e \in sOld : e.att < sTx.att
  /\ sTx = None => sEpochs = {} /\ pending = None
  /\ sTx # None => sTx \in sEpochs \ sOld
  /\ pending # None => pending \in sEpochs \ sOld /\ pending.att > sTx.att

Confirmed == \E m \in uplink : m.epoch = sTx

(* An epoch the server offered is still there, unless the client has used  *)
(* a newer one.                                                            *)
Offered ==
  /\ sOld # {} => Confirmed
  /\ \A e \in resps :
       /\ e.inc <= inc /\ e.att >= 1
       /\ e.inc = inc => e \in sEpochs \ sOld \/ (e.att < sTx.att /\ Confirmed)

IInv == TypeOK /\ ClientOrder /\ ServerOrder /\ Offered /\ UplinkReadable

(* The invariant holds of two processes that have not spoken.              *)
LEMMA InitIInv == Init => IInv
<1> SUFFICES ASSUME Init PROVE IInv
  OBVIOUS
<1> USE DEF Init, EpochSet, None, Epoch
<1>1. TypeOK
  BY Zenon DEF TypeOK
<1>2. ClientOrder
  BY DEF ClientOrder
<1>3. ServerOrder
  BY DEF ServerOrder
<1>4. Offered /\ UplinkReadable
  BY DEF Offered, UplinkReadable
<1> QED BY <1>1, <1>2, <1>3, <1>4 DEF IInv

(* A step of the client alone preserves it.                                *)
LEMMA ClientIInv ==
  IInv /\ (StartHandshake \/ HandshakeTimeout \/ SendData \/ ClientRestart
           \/ (\E e \in cOld : ClientPrune(e))) => IInv'
<1> USE DEF client, server, vars, EpochSet, None, Epoch, IInv, TypeOK, ClientOrder,
            ServerOrder, Offered, Confirmed, UplinkReadable
<1>1. IInv /\ StartHandshake => IInv'
  BY DEF StartHandshake
<1>2. IInv /\ HandshakeTimeout => IInv'
  BY Zenon DEF HandshakeTimeout
<1>3. IInv /\ SendData => IInv'
  BY DEF SendData
<1>4. IInv /\ ClientRestart => IInv'
  <2> SUFFICES ASSUME IInv, ClientRestart PROVE IInv'
    OBVIOUS
  <2> USE DEF ClientRestart
  <2>1. TypeOK'
    <3>1. waiting' \in BOOLEAN
      BY Zenon
    <3>2. cSeq' \in Nat /\ restarts' \in Nat
      OBVIOUS
    <3>3. cTx' \in EpochSet
      OBVIOUS
    <3>4. cEpochs' \subseteq EpochSet /\ cOld' \subseteq cEpochs'
      OBVIOUS
    <3> QED BY <3>1, <3>2, <3>3, <3>4
  <2>2. ClientOrder'
    OBVIOUS
  <2>3. ServerOrder' /\ Offered' /\ UplinkReadable'
    OBVIOUS
  <2> QED BY <2>1, <2>2, <2>3
<1>5. ASSUME IInv, NEW e \in cOld, ClientPrune(e) PROVE IInv'
  BY <1>5 DEF ClientPrune
<1> QED BY <1>1, <1>2, <1>3, <1>4, <1>5, Zenon

(* The client's completion of a handshake preserves it: the epoch it takes *)
(* up was not superseded meanwhile, since that takes a newer one.          *)
LEMMA OnRespIInv == ASSUME NEW e \in resps, IInv, OnResp(e) PROVE IInv'
<1> USE DEF client, server, vars, EpochSet, None, Epoch, IInv, OnResp
<1>1. TypeOK'
  <2>1. /\ waiting' \in BOOLEAN /\ cTx' \in EpochSet
        /\ cEpochs' \subseteq EpochSet /\ registered' \subseteq EpochSet
    BY Zenon DEF TypeOK
  <2>2. cOld' \subseteq cEpochs'
    BY DEF TypeOK
  <2>3. uplink' \subseteq [epoch : EpochSet, seq : Nat] /\ opened' \subseteq uplink'
    BY DEF TypeOK, Control
  <2> QED BY <2>1, <2>2, <2>3 DEF TypeOK
<1>2. ClientOrder'
  BY DEF TypeOK, ClientOrder, Offered
<1>3. ServerOrder'
  BY DEF ServerOrder
<1>4. Offered'
  BY DEF Offered, Confirmed
<1>5. UplinkReadable'
  <2>1. ~(e.att < sTx.att /\ Confirmed)
    BY DEF TypeOK, ClientOrder, Confirmed
  <2>2. e.inc = inc => e \in sEpochs \ sOld
    BY <2>1 DEF Offered
  <2> QED BY <2>2 DEF UplinkReadable
<1> QED BY <1>1, <1>2, <1>3, <1>4, <1>5

(* A handshake at the server preserves it: the new epoch is newer than all *)
(* the others.                                                             *)
LEMMA HandshakeInitIInv ==
  ASSUME NEW a \in inits, IInv, handleHandshakeInit(a) PROVE IInv'
<1> USE DEF client, server, vars, EpochSet, None, Epoch, IInv, handleHandshakeInit
<1>1. TypeOK'
  BY DEF TypeOK
<1>2. ClientOrder'
  BY DEF TypeOK, ClientOrder
<1>3. ServerOrder'
  BY DEF TypeOK, ServerOrder
<1>4. Offered'
  BY DEF TypeOK, ServerOrder, Offered, Confirmed
<1>5. UplinkReadable'
  BY DEF TypeOK, ServerOrder, UplinkReadable
<1> QED BY <1>1, <1>2, <1>3, <1>4, <1>5

(* A packet at the server preserves it: one that confirms the pending      *)
(* epoch shows that the client has left the one that is superseded.        *)
LEMMA DatagramIInv ==
  ASSUME NEW m \in uplink, IInv, handleDatagram(m) PROVE IInv'
<1> USE DEF client, server, vars, EpochSet, None, Epoch, IInv, handleDatagram, Confirm
<1>1. TypeOK'
  <2>1. sTx' \in EpochSet /\ pending' \in EpochSet
    BY DEF TypeOK
  <2>2. sOld' \subseteq sEpochs'
    BY DEF TypeOK
  <2>3. seen' \subseteq Nat /\ opened' \subseteq uplink'
    BY Zenon DEF TypeOK
  <2> QED BY <2>1, <2>2, <2>3 DEF TypeOK
<1>2. ClientOrder'
  BY DEF ClientOrder
<1>3. ServerOrder'
  BY DEF TypeOK, ServerOrder
<1>4. Offered'
  BY DEF TypeOK, ServerOrder, Offered, Confirmed
<1>5. UplinkReadable'
  BY DEF TypeOK, ClientOrder, ServerOrder, UplinkReadable
<1> QED BY <1>1, <1>2, <1>3, <1>4, <1>5

(* Pruning and a server restart preserve it.                               *)
LEMMA ServerIInv ==
  IInv /\ (ServerRestart \/ (\E e \in sOld : ServerPrune(e))) => IInv'
<1> USE DEF client, server, vars, EpochSet, None, Epoch, IInv, TypeOK, ClientOrder,
            ServerOrder, Offered, Confirmed, UplinkReadable
<1>1. IInv /\ ServerRestart => IInv'
  BY DEF ServerRestart
<1>2. ASSUME IInv, NEW e \in sOld, ServerPrune(e) PROVE IInv'
  BY <1>2 DEF ServerPrune
<1> QED BY <1>1, <1>2, Zenon

(* Every step preserves the invariant.                                     *)
LEMMA NextIInv == IInv /\ [Next]_vars => IInv'
<1>1. IInv /\ Next => IInv'
  BY ClientIInv, OnRespIInv, HandshakeInitIInv, DatagramIInv, ServerIInv
     DEF Next, RecvInit, RecvResp, RecvData, Prune
<1>2. IInv /\ UNCHANGED vars => IInv'
  BY DEF vars, client, server, IInv, TypeOK, ClientOrder, ServerOrder, Offered,
         Confirmed, UplinkReadable
<1> QED BY <1>1, <1>2

(* Both sides hold epochs that some handshake made, whatever messages of   *)
(* other attempts arrive (handshakeOnce's match of the reply).             *)
THEOREM EpochsTyped == Spec => []TypeOK
<1>1. IInv => TypeOK
  BY DEF IInv
<1> QED BY <1>1, InitIInv, NextIInv, PTL DEF Spec

(* What the client sends the server can open: no handshake, retry, rekey,  *)
(* restart of the client or pruning makes the server forget the epoch the  *)
(* client sends under (registerEpoch, pruneEpochs, handleDatagram).        *)
THEOREM UplinkAlwaysReadable == Spec => []UplinkReadable
<1>1. IInv => UplinkReadable
  BY DEF IInv
<1> QED BY <1>1, InitIInv, NextIInv, PTL DEF Spec

(* The server switches only to epochs the client has completed             *)
(* (handleDatagram's key confirmation).                                    *)
THEOREM SwitchesAreConfirmed == Spec => SwitchConfirmed
<1>1. IInv /\ [Next]_vars =>
        [sTx # None /\ sTx' # sTx /\ sTx' # None => sTx' \in registered]_vars
  <2> SUFFICES ASSUME IInv, Next, sTx # None, sTx' # sTx, sTx' # None
               PROVE  sTx' \in registered
    BY DEF vars, server
  <2> USE DEF client, server
  <2>1. CASE RecvData
    BY <2>1 DEF RecvData, handleDatagram, Confirm, IInv, ClientOrder
  <2>2. CASE RecvInit
    BY <2>2 DEF RecvInit, handleHandshakeInit
  <2>3. CASE ServerRestart
    BY <2>3 DEF ServerRestart
  <2>4. CASE StartHandshake \/ HandshakeTimeout \/ SendData \/ ClientRestart
    BY <2>4 DEF StartHandshake, HandshakeTimeout, SendData, ClientRestart
  <2>5. CASE RecvResp \/ Prune
    BY <2>5 DEF RecvResp, OnResp, Prune, ClientPrune, ServerPrune
  <2> QED BY <2>1, <2>2, <2>3, <2>4, <2>5 DEF Next
<1> QED BY <1>1, InitIInv, NextIInv, PTL DEF Spec, SwitchConfirmed

(* Neither side goes back to an older epoch.                               *)
THEOREM KeysOnlyAdvance == Spec => KeysAdvance
<1>1. IInv /\ [Next]_vars =>
        [/\ cTx # None /\ cTx' # None => cTx'.att >= cTx.att
         /\ sTx # None /\ sTx' # None => sTx'.att >= sTx.att]_vars
  <2> SUFFICES ASSUME IInv, Next
               PROVE  /\ cTx # None /\ cTx' # None => cTx'.att >= cTx.att
                      /\ sTx # None /\ sTx' # None => sTx'.att >= sTx.att
    OBVIOUS
  <2> USE DEF client, server, IInv, TypeOK, EpochSet
  <2>1. CASE RecvData
    BY <2>1 DEF RecvData, handleDatagram, Confirm, ServerOrder
  <2>2. CASE RecvInit
    BY <2>2 DEF RecvInit, handleHandshakeInit
  <2>3. CASE ServerRestart
    BY <2>3 DEF ServerRestart
  <2>4. CASE StartHandshake \/ HandshakeTimeout \/ SendData \/ ClientRestart
    BY <2>4 DEF StartHandshake, HandshakeTimeout, SendData, ClientRestart
  <2>5. CASE RecvResp
    BY <2>5 DEF RecvResp, OnResp, ClientOrder
  <2>6. CASE Prune
    BY <2>6 DEF Prune, ClientPrune, ServerPrune
  <2> QED BY <2>1, <2>2, <2>3, <2>4, <2>5, <2>6 DEF Next
<1> QED BY <1>1, InitIInv, NextIInv, PTL DEF Spec, KeysAdvance

-----------------------------------------------------------------------------
(* The anti-replay window, for every block size, every number of blocks    *)
(* and every set of counters: its invariant, and that it implements        *)
(* AntiReplay.  The argument is SlidingBitmapProofs!CheckRemembers, the    *)
(* invariant step, and CheckAnswers, what that invariant says of a reply.  *)

WindowInv == WindowTypeOK /\ RecentBlocksRemembered

(* Every call of Check keeps the types and what the window remembers.      *)
LEMMA CheckWindowInv ==
  ASSUME WindowInv, NEW c \in Counters, Check(c)
  PROVE  WindowInv'
<1>1. c \in Nat /\ accepted \in SUBSET Nat /\ w \in Windows
  BY CountersAssumption DEF WindowInv, WindowTypeOK
<1>2. WindowTypeOK'
  <2>1. w' \in Windows
    BY <1>1, CheckedType DEF Check
  <2>2. Fresh(w, c) \in BOOLEAN
    BY DEF Fresh
  <2>3. QED
    BY <1>1, <2>1, <2>2 DEF WindowInv, WindowTypeOK, Check
<1>3. RecentBlocksRemembered'
  <2>1. Remembers(w, accepted)
    BY DEF WindowInv, RecentBlocksRemembered
  <2>2. Remembers(Checked(w, c),
                  IF Fresh(w, c) THEN accepted \cup {c} ELSE accepted)
    BY <1>1, <2>1, CheckRemembers
  <2>3. QED
    BY <2>2 DEF Check, RecentBlocksRemembered
<1>4. QED
  BY <1>2, <1>3 DEF WindowInv

(* The invariant holds initially.                                          *)
LEMMA InitWindowInv == WindowInit => WindowInv
<1> SUFFICES ASSUME WindowInit PROVE WindowInv
  OBVIOUS
<1>1. WindowTypeOK
  BY DEF WindowInit, WindowTypeOK, NewWindow, Windows
<1>2. w = NewWindow /\ accepted = {} /\ w.started = FALSE
  BY DEF WindowInit, NewWindow
<1>3. \A c \in Nat : ~Marked(w.blocks, c)
  BY <1>2, BlockBit DEF NewWindow, Marked
<1>4. Remembers(w, accepted)
  BY <1>1, <1>2, <1>3, BitmapAssumption DEF Remembers, WindowTypeOK, Windows
<1>5. QED
  BY <1>1, <1>4 DEF WindowInv, RecentBlocksRemembered

(* The invariant holds throughout.                                         *)
LEMMA WindowInvHolds == WindowSpec => []WindowInv
<1>1. WindowInv /\ [WindowNext]_windowVars => WindowInv'
  <2> SUFFICES ASSUME WindowInv, [WindowNext]_windowVars PROVE WindowInv'
    OBVIOUS
  <2>1. CASE WindowNext
    BY <2>1, CheckWindowInv DEF WindowNext
  <2>2. CASE UNCHANGED windowVars
    BY <2>2 DEF windowVars, WindowInv, WindowTypeOK, RecentBlocksRemembered
  <2>3. QED
    BY <2>1, <2>2
<1>2. QED
  BY <1>1, InitWindowInv, PTL DEF WindowSpec

(* For every ring: Check keeps its types, so no bit lies outside a block.  *)
THEOREM WindowTyped == WindowSpec => []WindowTypeOK
  BY WindowInvHolds, PTL DEF WindowInv

(* For every ring: Check forgets no counter of the NumBlocks most recent   *)
(* blocks.                                                                 *)
THEOREM WindowRemembers == WindowSpec => []RecentBlocksRemembered
  BY WindowInvHolds, PTL DEF WindowInv

(* For every ring: Check implements AntiReplay, so it accepts no counter   *)
(* twice within WindowSize - BlockBits of the highest one.                 *)
THEOREM WindowImplementsAntiReplay == WindowSpec => ImplementsAntiReplay
<1>1. WindowInit => A!Init
  BY DEF WindowInit, A!Init, NewWindow
<1>2. WindowInv /\ [WindowNext]_windowVars => [A!Next]_(A!vars)
  <2> SUFFICES ASSUME WindowInv, [WindowNext]_windowVars PROVE [A!Next]_(A!vars)
    OBVIOUS
  <2>1. ASSUME NEW c \in Counters, Check(c) PROVE A!Present(c)
    <3>1. /\ c \in Nat /\ accepted \in SUBSET Nat /\ w \in Windows
          /\ Remembers(w, accepted) /\ w.highest \in Nat /\ w.started \in BOOLEAN
      BY CountersAssumption DEF WindowInv, WindowTypeOK, RecentBlocksRemembered, Windows
    <3>2. w.started <=> accepted # {}
      BY <3>1, Zenon DEF Remembers
    <3>3. A!NewTop(c) <=> ~w.started \/ c > w.highest
      BY <3>2 DEF A!NewTop
    <3>4. A!TooOld(c) <=> TooOld(w, c)
      BY <3>1, <3>3 DEF A!TooOld, TooOld
    <3>5. A!Answer(c, Fresh(w, c))
      <4>1. A!FarAhead(c) <=> accepted = {} \/ c - w.highest >= BlockBits
        BY <3>1, BitmapAssumption DEF A!FarAhead, WindowSize
      <4>2. QED
        BY <3>1, <3>4, <4>1, CheckAnswers DEF A!Answer
    <3>6. w'.highest = IF A!NewTop(c) THEN c ELSE w.highest
      BY <2>1, <3>1, <3>3, BitmapAssumption
        DEF Check, Checked, TooOld, WindowSize
    <3>7. Fresh(w, c) \in BOOLEAN
      BY DEF Fresh
    <3>8. QED
      BY <2>1, <3>5, <3>6, <3>7 DEF A!Present, Check
  <2>2. CASE WindowNext
    BY <2>1, <2>2 DEF WindowNext, A!Next
  <2>3. CASE UNCHANGED windowVars
    BY <2>3 DEF windowVars, A!vars
  <2>4. QED
    BY <2>2, <2>3
<1>3. WindowSpec => []WindowInv
  BY WindowInvHolds
<1>4. QED
  BY <1>1, <1>2, <1>3, PTL DEF WindowSpec, ImplementsAntiReplay, A!Spec
=============================================================================
