------------------------------ MODULE MCCells ------------------------------
(* Cells with the figures of the program. *)
EXTENDS Cells
=============================================================================
