------------------------- MODULE MCApplicationCapture -------------------------
(* Bounded instance of Application Capture. *)
EXTENDS ApplicationCapture, TLC

CONSTANTS c1, c2, c3, c4, u1, u2

RequestsAlike == Permutations(Confirms)

=============================================================================
