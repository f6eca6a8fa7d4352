----------------------------- MODULE MCDownload -----------------------------
(* Instances of Download for TLC.                                          *)
EXTENDS Download

=============================================================================
