--------------------------- MODULE RunnerClients ----------------------------
(***************************************************************************)
(* The runner under the calls that GeminiDaemonRunner's session workers    *)
(* make: every turn of a worker is one runExclusive, inside which it may   *)
(* yield for input and come back through acquireAfterInputWake once the    *)
(* main thread has resumed it; after its turn it asks again or retires.    *)
(* overtakes counts, for a worker that waits in acquire, how often another *)
(* session was given the token by acquire meanwhile.                       *)
(***************************************************************************)
EXTENDS CooperativeRunner, FiniteSets

CONSTANTS
    MaxTurns,   \* bound on the turns of one worker
    MaxYields   \* bound on the yields for input of all workers together

ASSUME TurnsAssumption == MaxTurns \in Nat \ {0} /\ MaxYields \in Nat
ASSUME FiniteAssumption == IsFiniteSet(Sessions)

VARIABLES
    pc,         \* where each worker is
    turns,      \* how many turns it has begun
    yields,     \* how many yields there have been
    overtakes   \* how often others were served while it waited in acquire

clientVars == <<pc, turns, yields, overtakes>>
vars == <<runnerVars, clientVars>>

PC == {"out", "acquiring", "running", "yielded", "waking", "retired"}

ClientInit ==
    /\ RunnerInit
    /\ pc = [id \in Sessions |-> "out"]
    /\ turns = [id \in Sessions |-> 0]
    /\ yields = 0
    /\ overtakes = [id \in Sessions |-> 0]

\* startSessionWorker's lambda calls runExclusive for its next turn.
Ask(id) ==
    /\ pc[id] = "out"
    /\ turns[id] < MaxTurns
    /\ pc' = [pc EXCEPT ![id] = "acquiring"]
    /\ turns' = [turns EXCEPT ![id] = @ + 1]
    /\ overtakes' = [overtakes EXCEPT ![id] = 0]
    /\ UNCHANGED <<runnerVars, yields>>

\* runExclusive's acquire returns.
Enter(id) ==
    /\ pc[id] = "acquiring"
    /\ Acquire(id)
    /\ pc' = [pc EXCEPT ![id] = "running"]
    /\ overtakes' = [other \in Sessions |->
           IF other # id /\ pc[other] = "acquiring"
           THEN overtakes[other] + 1
           ELSE overtakes[other]]
    /\ UNCHANGED <<turns, yields>>

\* readInputChar finds no input and gives the token up.
Yield(id) ==
    /\ pc[id] = "running"
    /\ yields < MaxYields
    /\ YieldWaitingForInput(id)
    /\ pc' = [pc EXCEPT ![id] = "yielded"]
    /\ yields' = yields + 1
    /\ UNCHANGED <<turns, overtakes>>

\* pushInput on the main thread: the input is there and the reader resumed.
Input(id) ==
    /\ pc[id] = "yielded"
    /\ Resume(id)
    /\ pc' = [pc EXCEPT ![id] = "waking"]
    /\ UNCHANGED <<turns, yields, overtakes>>

\* The woken reader takes the token again.
Wake(id) ==
    /\ pc[id] = "waking"
    /\ AcquireAfterInputWake(id)
    /\ pc' = [pc EXCEPT ![id] = "running"]
    /\ UNCHANGED <<turns, yields, overtakes>>

\* The callback returns and runExclusive releases the token.
Leave(id) ==
    /\ pc[id] = "running"
    /\ RunExclusiveTail(id)
    /\ pc' = [pc EXCEPT ![id] = "out"]
    /\ UNCHANGED <<turns, yields, overtakes>>

\* The worker ends: its RetireOnExit guard retires the session.
Retire(id) ==
    /\ pc[id] = "out"
    /\ RetireSession(id)
    /\ pc' = [pc EXCEPT ![id] = "retired"]
    /\ UNCHANGED <<turns, yields, overtakes>>

ClientStep(id) ==
    \/ Ask(id)
    \/ Enter(id)
    \/ Yield(id)
    \/ Input(id)
    \/ Wake(id)
    \/ Leave(id)
    \/ Retire(id)

ClientNext == \E id \in Sessions : ClientStep(id)

ClientSpec == ClientInit /\ [][ClientNext]_vars

\* Every worker thread keeps running, and its console sends input in the end.
\* Weak fairness is all std::mutex and notify_all give a waiting thread.
FairClientSpec == ClientSpec /\ \A id \in Sessions : WF_vars(ClientStep(id))

-----------------------------------------------------------------------------
(* Properties.                                                             *)

\* Exactly the worker that runs interpreter work is the token's holder, across
\* yields, wake-ups and retirement (docs/daemon.md, "Scheduling model").
RunningHoldsToken ==
    \A id \in Sessions : pc[id] = "running" <=> active = id

\* A worker waits for the token and has its place in the round robin.
Waiting(id) == pc[id] = "acquiring" /\ runStates[id] # "Absent"

\* Round robin: while a worker that has had a turn before waits in acquire,
\* every other session is served by acquire at most once, and once more for
\* each yield (an input wake-up may move the pointer back), however many turns
\* the others take.  (A session that waits for its first turn has no entry yet
\* and the others' round robin skips it.)
BoundedOvertaking ==
    \A id \in Sessions :
        Waiting(id) =>
            overtakes[id] <= (Cardinality(Sessions) - 1) * (1 + yields)

\* What a worker's place says of its entry in sessionStates_.
EntryMatchesPlace ==
    \A id \in Sessions :
        /\ pc[id] \in {"out", "acquiring"} => runStates[id] \in {"Absent", "Runnable"}
        /\ pc[id] = "waking" => runStates[id] = "Runnable"

\* The state of the workers is well formed, and the token goes round among them
\* without nesting.
ClientInv ==
    /\ RunnerInv
    /\ depth \in {0, 1}
    /\ pc \in [Sessions -> PC]
    /\ turns \in [Sessions -> 0..MaxTurns]
    /\ yields \in 0..MaxYields
    /\ overtakes \in [Sessions -> Nat]
    /\ RunningHoldsToken
    /\ EntryMatchesPlace

\* Where the round robin stands, or will stand once the holder gives up.
Cursor == IF active = NoSession THEN lastServed ELSE active

\* The sessions it may serve before id when it stands at cursor.
Ahead(cursor, id) ==
    {s \in Sessions \ {id} : IF cursor < id THEN cursor < s /\ s < id
                                            ELSE cursor < s \/ s < id}

\* How often a wake-up has ended a yield.
Asleep == {s \in Sessions : pc[s] \in {"yielded", "waking"}}
Wakes == yields - Cardinality(Asleep)

\* Why overtaking is bounded: every acquire of another session takes one of the
\* sessions ahead of a waiting one away, and only a wake-up puts any back.
OvertakingInv ==
    /\ Wakes \in Nat
    /\ \A id \in Sessions :
           Waiting(id) =>
               overtakes[id] + Cardinality(Ahead(Cursor, id))
                   <= (Cardinality(Sessions) - 1) * (1 + Wakes)

\* Nobody starves: a worker that asks for its turn gets it, although the round
\* robin also elects sessions that are not asking, as long as those ask or
\* retire in the end.
EveryTurnComes ==
    \A id \in Sessions : pc[id] = "acquiring" ~> pc[id] = "running"

\* A reader whose input has arrived gets the token back.
EveryWakeRuns ==
    \A id \in Sessions : pc[id] = "waking" ~> pc[id] = "running"
=============================================================================
