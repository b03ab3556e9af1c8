----------------------------- MODULE MCQueryCache -----------------------------
(* A mutation in flight at a time, beside the fetches of the tracked key.  *)
EXTENDS QueryCache

CONSTANT s1

OneSlot == {s1}
=============================================================================
