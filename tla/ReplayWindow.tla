---------------------------- MODULE ReplayWindow ----------------------------
(***************************************************************************)
(* The per-path anti-replay window of one epoch (internal/replay, used by  *)
(* noiseio.Epoch.CheckReplay under the window's mutex, so that one Check   *)
(* is one step).  Datagrams arrive in any order and any number of times.   *)
(***************************************************************************)
EXTENDS SlidingBitmap

CONSTANT Counters   \* the counters that arrive on the path

ASSUME CountersAssumption == Counters \subseteq Nat

VARIABLES
  w,          \* the Window
  accepted,   \* history: the counters Check has returned true for
  verdict     \* history: the last call and its result

windowVars == <<w, accepted, verdict>>

WindowInit ==
  /\ w = NewWindow
  /\ accepted = {}
  /\ verdict = [counter |-> 0, fresh |-> FALSE]

Check(c) ==
  /\ w' = Checked(w, c)
  /\ accepted' = IF Fresh(w, c) THEN accepted \cup {c} ELSE accepted
  /\ verdict' = [counter |-> c, fresh |-> Fresh(w, c)]

WindowNext == \E c \in Counters : Check(c)

WindowSpec == WindowInit /\ [][WindowNext]_windowVars

-----------------------------------------------------------------------------
(* The window, the accepted counters and the last answer have their types. *)
WindowTypeOK ==
  /\ w \in Windows
  /\ accepted \in SUBSET Counters
  /\ verdict \in [counter : Nat, fresh : BOOLEAN]

(* However far and however often the window jumped, Check forgets no       *)
(* counter of the NumBlocks most recent blocks and invents none, except    *)
(* for the alias WindowSize below (see Remembers).                         *)
RecentBlocksRemembered == Remembers(w, accepted)

(* Check implements an anti-replay window that accepts no counter twice    *)
(* while it is at most WindowSize - BlockBits behind the highest one,      *)
(* refuses what is WindowSize or more behind, accepts what is BlockBits or *)
(* more ahead, and refuses nothing without a reason.                       *)
A == INSTANCE AntiReplay WITH
       top <- w.highest, Exact <- WindowSize - BlockBits, Span <- WindowSize

ImplementsAntiReplay == A!Spec

(* "Window tracks received per-path counters and rejects duplicates"       *)
(* (replay.go:17): no counter is ever accepted a second time.              *)
RejectsDuplicates ==
  [][verdict'.fresh => verdict'.counter \notin accepted]_windowVars
=============================================================================
