---------------------------- MODULE SessionTable ----------------------------
(***************************************************************************)
(* SessionTable over PortManager: the sessions of a daemon, the ports that *)
(* identify them, and the candidate at which the search for a free port    *)
(* starts.  Each operation is one action; a session's own state is left    *)
(* out.  GeminiDaemonRunner::shutdown is a sequence of DestroySession.     *)
(***************************************************************************)
EXTENDS Naturals, FiniteSets

CONSTANTS
    MaxPorts,    \* maxPorts_, after the constructor's lower bound of 1
    MaxSessions  \* maxSessions_, likewise

ASSUME MaxPortsAssumption == MaxPorts \in Nat \ {0}
ASSUME MaxSessionsAssumption == MaxSessions \in Nat \ {0}

VARIABLES
    inUse,         \* PortManager::inUse_
    nextCandidate, \* PortManager::nextCandidate_
    sessions       \* the keys of SessionTable::sessions_

tableVars == <<inUse, nextCandidate, sessions>>

TableInit == inUse = {} /\ nextCandidate = 1 /\ sessions = {}

\* Where allocate's search may end: it passes no more than inUse_ has elements.
Candidates == {c \in nextCandidate..(nextCandidate + Cardinality(inUse)) : c \notin inUse}

\* allocate: the first free port from nextCandidate on.
Allocate(port) ==
    /\ Cardinality(inUse) < MaxPorts
    /\ port \in Candidates
    /\ \A c \in Candidates : port <= c
    /\ inUse' = inUse \cup {port}
    /\ nextCandidate' = port + 1

\* Faulty variant: the candidate is not moved back to the released port.
ReleasePortOnly(port) ==
    /\ inUse' = inUse \ {port}
    /\ UNCHANGED nextCandidate

ReleasePort(port) ==
    /\ inUse' = inUse \ {port}
    /\ nextCandidate' = IF port < nextCandidate THEN port ELSE nextCandidate

CreateSession ==
    /\ Cardinality(sessions) < MaxSessions
    /\ \E port \in Candidates :
          /\ Allocate(port)
          /\ sessions' = sessions \cup {port}

DestroySession(id) ==
    /\ id \in sessions
    /\ sessions' = sessions \ {id}
    /\ ReleasePort(id)

TableNext == CreateSession \/ \E id \in sessions : DestroySession(id)

TableSpec == TableInit /\ [][TableNext]_tableVars

-----------------------------------------------------------------------------
(* Properties.                                                             *)

\* The state is well formed: ports are positive.
TableTypeOK ==
    /\ inUse \in SUBSET (Nat \ {0}) /\ IsFiniteSet(inUse)
    /\ nextCandidate \in Nat \ {0}
    /\ sessions \in SUBSET (Nat \ {0})

\* Ports and sessions correspond: no port leaks when a session is destroyed,
\* and none is free while its session lives.
PortsMatchSessions == inUse = sessions

\* Every port below the candidate is taken, so the search misses no free one.
BelowCandidateInUse == 1..(nextCandidate - 1) \subseteq inUse

\* Ports stay within the limit: whatever the order in which sessions come and
\* go, no port above MaxPorts is ever handed out.
PortsWithinLimit == inUse \subseteq 1..MaxPorts

TableInv ==
    /\ TableTypeOK
    /\ PortsMatchSessions
    /\ BelowCandidateInUse

\* The table implements the pool: each new session gets the lowest free port.
Pool == INSTANCE PortPool WITH Limit <- MaxPorts, taken <- sessions

PoolRefinement == Pool!PoolSpec
=============================================================================
