---------------------------- MODULE MCTransfer -----------------------------
(* Transfer with blocks of two bytes and files of no block, of whole blocks *)
(* and of a last block that is not full.                                    *)
EXTENDS Transfer
=============================================================================
