----------------------------- MODULE AntiReplay -----------------------------
(***************************************************************************)
(* What an anti-replay window promises, without saying how it remembers.   *)
(* A counter that is new, or at most Exact behind the highest one, is      *)
(* never accepted twice; one that is Span or more behind is refused; one   *)
(* that is Span - Exact or more ahead is accepted; and a counter is        *)
(* refused only for a reason: it is too old, it was accepted before, or    *)
(* the counter exactly Span below it was (the two share their place in a   *)
(* ring of Span bits).                                                     *)
(***************************************************************************)
EXTENDS Integers

CONSTANTS
  Counters,   \* the counters a peer may present
  Exact,      \* how far behind the highest counter nothing is accepted twice
  Span        \* how far behind everything is refused

VARIABLES
  accepted,   \* the counters accepted so far
  top,        \* the highest counter presented
  verdict     \* the last question and its answer

vars == <<accepted, top, verdict>>

Init ==
  /\ accepted = {}
  /\ top = 0
  /\ verdict = [counter |-> 0, fresh |-> FALSE]

NewTop(c) == accepted = {} \/ c > top

TooOld(c) == ~NewTop(c) /\ top - c >= Span

FarAhead(c) == accepted = {} \/ c - top >= Span - Exact

Answer(c, fresh) ==
  /\ TooOld(c) => ~fresh
  /\ FarAhead(c) => fresh
  /\ c \in accepted /\ top - c <= Exact => ~fresh
  /\ ~fresh => TooOld(c) \/ c \in accepted \/ c - Span \in accepted

Present(c) ==
  \E fresh \in BOOLEAN :
    /\ Answer(c, fresh)
    /\ accepted' = IF fresh THEN accepted \cup {c} ELSE accepted
    /\ top' = IF NewTop(c) THEN c ELSE top
    /\ verdict' = [counter |-> c, fresh |-> fresh]

Next == \E c \in Counters : Present(c)

Spec == Init /\ [][Next]_vars
=============================================================================
