---------------------------- MODULE MCIdempotency ----------------------------
(* Small instances of Idempotency. *)
EXTENDS Idempotency

CONSTANTS pay, other, multi, generate, k1, k2, i1, i2, c1, c2

\* Three requests are sent under one key, generate (two connections) under its own.
SentUnder == [r \in Requests |-> IF r = generate THEN k2 ELSE k1]
=============================================================================
