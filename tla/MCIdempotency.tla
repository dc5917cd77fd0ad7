--------------------------- MODULE MCIdempotency ---------------------------
(* Instances of Idempotency for TLC.                                        *)
EXTENDS Idempotency, TLC

\* Nothing goes wrong; everything but slow handlers goes wrong; everything.
AllFaultSets == {{}, FaultKinds \ {"slow"}, FaultKinds}

\* Attempts of a key, and the requests, are interchangeable.
Symmetric == Permutations(Attempts) \cup Permutations(Keys) \cup Permutations(Requests)
=============================================================================
