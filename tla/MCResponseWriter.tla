--------------------------- MODULE MCResponseWriter ---------------------------
(* An instance of ResponseWriter for TLC. *)
EXTENDS ResponseWriter

(* One status of each kind: switching protocols, early hints, a page, a        *)
(* redirect and the status of a replaced answer.                               *)
Kinds == {101, 103, 200, 302, 500}
=============================================================================
