-------------------------- MODULE MCCoherentSystem --------------------------
(* Instances of CoherentSystem for TLC. *)
EXTENDS CoherentSystem

CONSTANTS a, b   \* two lines of the same set

\* One tile that loads and stores a, and evicts it with a store to b.
OneTileOps == {0} \X {"load", "store"} \X {a} \cup {0} \X {"store"} \X {b}

\* One tile with reservations on one of them.
ReserveOps == {0} \X {"load", "store", "lr", "sc"} \X {a} \cup {0} \X {"store"} \X {b}
============================================================================
