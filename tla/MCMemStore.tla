------------------------------ MODULE MCMemStore ------------------------------
(* Instances of MemStore for TLC. *)
EXTENDS MemStore

(* A lifetime Create refuses, and one that ends while the clock still runs. *)
ShortLife == {0, 1}

=============================================================================
