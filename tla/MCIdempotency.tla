---------------------------- MODULE MCIdempotency ----------------------------
(***************************************************************************)
(* Idempotency on small sets: three calls over two keys, so that a key has *)
(* up to three duplicates and calls of the other key beside them.  Locks   *)
(* of one key may lapse under their holder.                                *)
(***************************************************************************)
EXTENDS Idempotency, TLC

CONSTANTS c1, c2, c3, k1, k2

ThreeClients == {c1, c2, c3}
OneKey  == {k1}
TwoKeys == {k1, k2}
NoKey   == {}

Interchangeable == Permutations(Clients)
=============================================================================
