--------------------------- MODULE MCSessionHost ----------------------------
(***************************************************************************)
(* SessionHost for TLC.  No operation tells accounts, record names or      *)
(* values apart, and neither does any property.                            *)
(***************************************************************************)
EXTENDS SessionHost, TLC

HostSymmetry == Permutations(Accounts) \cup Permutations(Records) \cup Permutations(Values)
=============================================================================
