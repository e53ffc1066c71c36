----------------------------- MODULE MCSystem -----------------------------
(* An instance of System for TLC: one object, a scanner that answers at     *)
(* once and one whose scans go on in the sandbox.                          *)
EXTENDS System, TLC

CONSTANTS f1, r1

OneObject == r1 :> f1
OneSize   == r1 :> 1
============================================================================
