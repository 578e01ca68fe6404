--------------------------- MODULE MCStreamWrite ---------------------------
(***************************************************************************)
(* The upload of one handle on small instances.  Files of up to MaxPos     *)
(* bytes, written in chunks of up to two that libcurl's buffer may have to *)
(* take in two callbacks; every constant is given in the .cfg files.       *)
(***************************************************************************)
EXTENDS StreamWrite
=============================================================================
