---------------------------- MODULE MCNetascii ----------------------------
(* Instance of Netascii for TLC.                                           *)
EXTENDS Netascii

=============================================================================
