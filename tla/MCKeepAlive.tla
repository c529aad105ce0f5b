---------------------------- MODULE MCKeepAlive ----------------------------
(* KeepAlive with the limits of packet_handler.h and a ping thread that is  *)
(* up to a second late.                                                     *)
EXTENDS KeepAlive
=============================================================================
