------------------------- MODULE CooperativeRunner --------------------------
(***************************************************************************)
(* CooperativeSessionRunner: the token that lets one session at a time run *)
(* interpreter work, its nesting depth, the round-robin pointer and the    *)
(* run state of every session the runner has heard of.  Every operation    *)
(* runs under the runner's mutex, so each is one action.  acquire and      *)
(* acquireAfterInputWake wait on a condition variable that every operation *)
(* able to make their predicate true notifies, so they are actions that    *)
(* are enabled when the predicate holds.                                   *)
(*                                                                         *)
(* RunnerSpec is the runner under its most general client: any thread may  *)
(* call any operation for any session at any time.  A call the runner      *)
(* rejects with logic_error changes no state and is not an action.         *)
(***************************************************************************)
EXTENDS Naturals

CONSTANTS
    Sessions,   \* the session ids that callers use
    MaxDepth    \* bound on the nesting of acquire by one session

ASSUME SessionsAssumption == Sessions \subseteq Nat \ {0}
ASSUME MaxDepthAssumption == MaxDepth \in Nat \ {0}

VARIABLES
    active,     \* active_: the holder of the token, or NoSession
    depth,      \* depth_: how many acquires the holder has not released
    lastServed, \* lastServed_: the session that last gave the token up
    runStates   \* sessionStates_: "Absent" when the map has no entry

runnerVars == <<active, depth, lastServed, runStates>>

NoSession == 0

RunState == {"Absent", "Runnable", "Running", "WaitingForInput"}

RunnerInit ==
    /\ active = NoSession
    /\ depth = 0
    /\ lastServed = 0
    /\ runStates = [id \in Sessions |-> "Absent"]

-----------------------------------------------------------------------------
(* The private helpers.                                                    *)

StateOf(id) ==
    IF runStates[id] = "Absent" THEN "Runnable" ELSE runStates[id]

\* Every entry in state Runnable, and the requester if it would be one.
RunnableFor(requester) ==
    {id \in Sessions : \/ runStates[id] = "Runnable"
                       \/ id = requester /\ StateOf(id) = "Runnable"}

Least(S) == CHOOSE x \in S : \A y \in S : x <= y

\* Faulty variant: the round robin forgets whom it served last.
LowestRunnable(requester) ==
    LET runnable == RunnableFor(requester)
    IN  IF runnable = {} THEN NoSession ELSE Least(runnable)

\* The first runnable id above lastServed, wrapping to the lowest.
NextRunnable(requester) ==
    LET runnable == RunnableFor(requester)
        above    == {id \in runnable : id > lastServed}
    IN  IF runnable = {} THEN NoSession
        ELSE IF above # {} THEN Least(above) ELSE Least(runnable)

\* Faulty variant: the election is not limited to a free token.
CanAcquireFromHolder(id) ==
    \/ active = id
    \/ StateOf(id) # "WaitingForInput" /\ NextRunnable(id) \in {NoSession, id}

CanAcquire(id) ==
    \/ active = id
    \/ /\ active = NoSession
       /\ StateOf(id) # "WaitingForInput"
       /\ NextRunnable(id) \in {NoSession, id}

CanAcquireAfterInputWake(id) ==
    \/ active = id
    \/ active = NoSession /\ StateOf(id) # "WaitingForInput"

Grant(id) ==
    /\ active' = id
    /\ depth' = IF active = NoSession THEN 1 ELSE depth + 1
    /\ runStates' = [runStates EXCEPT ![id] = "Running"]
    /\ UNCHANGED lastServed

\* Faulty variant: the depth of the lost holder is kept.
FreeTokenKeepsDepth(id, state) ==
    /\ active' = NoSession
    /\ lastServed' = id
    /\ runStates' = [runStates EXCEPT ![id] = state]
    /\ UNCHANGED depth

\* The token becomes free, its last holder left in the given state.
FreeToken(id, state) ==
    /\ active' = NoSession
    /\ depth' = 0
    /\ lastServed' = id
    /\ runStates' = [runStates EXCEPT ![id] = state]

\* One acquire is undone; the outermost one frees the token.
Unwind(id) ==
    IF depth = 1
    THEN FreeToken(id, "Runnable")
    ELSE /\ depth' = depth - 1
         /\ UNCHANGED <<active, lastServed, runStates>>

-----------------------------------------------------------------------------
(* The operations.                                                         *)

Acquire(id) == CanAcquire(id) /\ Grant(id)

AcquireAfterInputWake(id) == CanAcquireAfterInputWake(id) /\ Grant(id)

Release(id) ==
    /\ active = id
    /\ depth > 0
    /\ Unwind(id)

YieldWaitingForInput(id) ==
    /\ active = id
    /\ depth > 0
    /\ FreeToken(id, "WaitingForInput")


Resume(id) ==
    /\ runStates' = [runStates EXCEPT ![id] = "Runnable"]
    /\ UNCHANGED <<active, depth, lastServed>>

\* Faulty variant: the entry goes but the token is not taken back.
RetireKeepsToken(id) ==
    /\ runStates' = [runStates EXCEPT ![id] = "Absent"]
    /\ UNCHANGED <<active, depth, lastServed>>

\* Faulty variant: the retired session stays in the round robin.
RetireKeepsEntry(id) ==
    IF active = id THEN FreeToken(id, "Runnable") ELSE UNCHANGED runnerVars

RetireSession(id) ==
    IF active = id
    THEN FreeToken(id, "Absent")
    ELSE /\ runStates' = [runStates EXCEPT ![id] = "Absent"]
         /\ UNCHANGED <<active, depth, lastServed>>

\* Faulty variant: the token is released without asking whether it is held.
TailUnguarded(id) == Unwind(id)

\* Faulty variant: only a lost token is tidied up.
TailWithoutRelease(id) ==
    /\ runStates' = IF active = NoSession /\ StateOf(id) = "WaitingForInput"
                    THEN [runStates EXCEPT ![id] = "Runnable"]
                    ELSE runStates
    /\ UNCHANGED <<active, depth, lastServed>>

\* What runExclusive does once its callback has returned: the callback may
\* have lost the token (it yielded and was woken by end of input).
RunExclusiveTail(id) ==
    IF active = id /\ depth > 0
    THEN Unwind(id)
    ELSE /\ runStates' = IF active = NoSession /\ StateOf(id) = "WaitingForInput"
                         THEN [runStates EXCEPT ![id] = "Runnable"]
                         ELSE runStates
         /\ UNCHANGED <<active, depth, lastServed>>

RunnerOp(id) ==
    \/ depth < MaxDepth /\ Acquire(id)
    \/ depth < MaxDepth /\ AcquireAfterInputWake(id)
    \/ Release(id)
    \/ YieldWaitingForInput(id)
    \/ Resume(id)
    \/ RetireSession(id)
    \/ RunExclusiveTail(id)

RunnerNext == \E id \in Sessions : RunnerOp(id)

RunnerSpec == RunnerInit /\ [][RunnerNext]_runnerVars

-----------------------------------------------------------------------------
(* Properties.                                                             *)

\* The state of the runner is well formed.
RunnerTypeOK ==
    /\ active \in Sessions \cup {NoSession}
    /\ depth \in Nat
    /\ lastServed \in Sessions \cup {0}
    /\ runStates \in [Sessions -> RunState]

\* active_ and depth_ agree: the token has a holder exactly while some acquire
\* of it is outstanding.  grantAcquireLocked relies on it to restart the count.
HolderHasDepth == (active = NoSession) <=> (depth = 0)

\* The run states agree with the token: only its holder is Running, and the
\* holder has an entry that is not WaitingForInput.  acquireAfterInputWake
\* and LISTSESSIONS read the one for the other.
RunStatesMatchToken ==
    \A id \in Sessions :
        /\ runStates[id] = "Running" => active = id
        /\ active = id => runStates[id] \in {"Running", "Runnable"}

RunnerInv == RunnerTypeOK /\ HolderHasDepth /\ RunStatesMatchToken

\* The runner implements the abstract token: the holder changes only through
\* the free state, however acquire, yield, resume and retire interleave.
Token == INSTANCE ExecutionToken WITH holder <- active

TokenRefinement == Token!TokenSpec
=============================================================================
