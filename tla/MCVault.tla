------------------------------ MODULE MCVault ------------------------------
(***************************************************************************)
(* Two processes over one volume and one second: a store meets another     *)
(* store of the same entry, a restore or a forget of it, and each of these *)
(* the other.  An entry is never shared between volumes or seconds, so     *)
(* more of either only repeats what one entry does.                        *)
(***************************************************************************)
EXTENDS Vault
=============================================================================
