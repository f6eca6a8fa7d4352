---------------------------- MODULE MCAsyncUpload ----------------------------
(* Instances of AsyncUpload for TLC.                                       *)
EXTENDS AsyncUpload

=============================================================================
