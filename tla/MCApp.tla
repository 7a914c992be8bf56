------------------------------- MODULE MCApp -------------------------------
(***************************************************************************)
(* Two settings, one of which cannot be scanned with, and one tier.        *)
(***************************************************************************)
EXTENDS App
=============================================================================
