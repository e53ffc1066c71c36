--------------------------- MODULE MCIntelLookup --------------------------
(* An instance of IntelLookup for TLC: three objects, two of one content.  *)
EXTENDS IntelLookup, TLC

CONSTANTS o1, o2, o3, h1, h2

ThreeOfTwo == o1 :> h1 @@ o2 :> h1 @@ o3 :> h2
============================================================================
