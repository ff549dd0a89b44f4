-------------------------- MODULE MCDaemonSessions --------------------------
(* DaemonSessions for TLC: consoles are interchangeable.                   *)
EXTENDS DaemonSessions, TLC

ConnSymmetry == Permutations(Conns)
=============================================================================
