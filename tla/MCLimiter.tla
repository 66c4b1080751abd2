------------------------------ MODULE MCLimiter -----------------------------
(* Sources are interchangeable.                                            *)
EXTENDS Limiter, TLC

CONSTANTS a, b, c

MCSources  == {a, b, c}
MCSymmetry == Permutations(MCSources)
=============================================================================
