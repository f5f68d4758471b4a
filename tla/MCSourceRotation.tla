-------------------------- MODULE MCSourceRotation --------------------------
(* Two markets with their two tokens.                                      *)
EXTENDS SourceRotation

CONSTANTS s1, s2
=============================================================================
