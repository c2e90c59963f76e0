----------------------------- MODULE MCIoStream -----------------------------
(* Instances of IoStream for TLC. *)
EXTENDS IoStream
=============================================================================
