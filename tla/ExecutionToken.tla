--------------------------- MODULE ExecutionToken ---------------------------
(***************************************************************************)
(* What a session runner promises its callers, whatever its policy: one    *)
(* token, held by at most one session, that a session obtains only when it *)
(* is free and that becomes free again before another session obtains it.  *)
(* CooperativeRunner implements this specification.                        *)
(***************************************************************************)
EXTENDS Naturals

CONSTANT Sessions       \* the session ids (port numbers) that may ask

VARIABLE holder         \* the session that holds the token, or NoSession

NoSession == 0          \* std::nullopt: ports are numbered from 1

TokenInit == holder = NoSession

Take(id) ==
    /\ holder = NoSession
    /\ holder' = id

GiveBack(id) ==
    /\ holder = id
    /\ holder' = NoSession

TokenNext == \E id \in Sessions : Take(id) \/ GiveBack(id)

TokenSpec == TokenInit /\ [][TokenNext]_holder
=============================================================================
