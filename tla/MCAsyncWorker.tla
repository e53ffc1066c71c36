--------------------------- MODULE MCAsyncWorker --------------------------
(* Instances of AsyncWorker for TLC.                                       *)
EXTENDS AsyncWorker, TLC

CONSTANTS f1, f2

\* The scan may have been parked without a token before it was submitted.
FirstSpilled == {<<f1, "cape">>}
Replicas == Permutations(Instances)
============================================================================
