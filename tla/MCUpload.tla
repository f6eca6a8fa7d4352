------------------------------ MODULE MCUpload ------------------------------
(* Instances of Upload for TLC: the constants are in the configurations.    *)
EXTENDS Upload

=============================================================================
