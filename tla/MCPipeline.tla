---------------------------- MODULE MCPipeline ----------------------------
(* Instances of Pipeline for TLC: the references, and what each one is.    *)
EXTENDS Pipeline, TLC

CONSTANTS f1, f2, f3, r1, r2, r3

OneObject == r1 :> f1
OneSize   == r1 :> 1

\* A lister delivers each object once.
TwoObjects    == r1 :> f1 @@ r2 :> f2
ThreeObjects  == r1 :> f1 @@ r2 :> f2 @@ r3 :> f3

\* An empty object and a small one fit the byte budget together.
EmptyAndSmall == r1 :> 0 @@ r2 :> 1

\* One object is larger than the byte budget, the next competes with it, and
\* the third is past MAX_OBJECT_SIZE.
EventSizes == r1 :> 3 @@ r2 :> 1 @@ r3 :> 9

SameSizes     == r1 :> 1 @@ r2 :> 1
============================================================================
