---------------------------- MODULE MCUpdateCheck ----------------------------
(* UpdateCheck with one or two handlers; release 3 is a pre-release.               *)
EXTENDS UpdateCheck

CONSTANTS h1, h2
=============================================================================
