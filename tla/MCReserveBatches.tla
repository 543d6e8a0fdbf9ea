------------------------------ MODULE MCReserveBatches ------------------------------
(* A small instance of ReserveBatches for TLC, with the limits of the code. *)
EXTENDS ReserveBatches

ThreeReserves == {1, 2, 3}
FirstAndLast == {1, 3}
=============================================================================
