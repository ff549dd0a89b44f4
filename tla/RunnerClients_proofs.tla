------------------------ MODULE RunnerClients_proofs ------------------------
(***************************************************************************)
(* The workers of RunnerClients, for every finite set of sessions and all  *)
(* bounds: who runs is who holds the token, the workers use the runner as  *)
(* RunnerSpec allows, and the round robin bounds overtaking.  The last     *)
(* rests on a measure: the sessions between the round robin's cursor and a *)
(* waiting session (Ahead) lose one member with every acquire of another   *)
(* session, and only the wake-up that ends a yield adds any.               *)
(***************************************************************************)
EXTENDS RunnerClients, CooperativeRunner_proofs, FiniteSetTheorems

-----------------------------------------------------------------------------
(* The workers and the token.                                              *)

\* A worker that asks for the token does not hold it, so it gets the free one.
LEMMA ClientObtains ==
  ASSUME NEW id \in Sessions, ClientInv, pc[id] # "running",
         Acquire(id) \/ AcquireAfterInputWake(id)
  PROVE  /\ RunnerInv' /\ active = NoSession /\ active' = id /\ depth' = 1
         /\ runStates' = [runStates EXCEPT ![id] = "Running"]
         /\ UNCHANGED lastServed
<1>1. active # id
  BY DEF ClientInv, RunningHoldsToken
<1>2. active = NoSession /\ Grant(id)
  BY <1>1 DEF Acquire, AcquireAfterInputWake, CanAcquire, CanAcquireAfterInputWake
<1>3. RunnerInv'
  BY <1>2, GrantInv DEF ClientInv
<1> QED BY <1>2, <1>3 DEF Grant

\* The end of a turn frees the token, which the worker acquired once.
LEMMA ClientLeaves ==
  ASSUME NEW id \in Sessions, ClientInv, pc[id] = "running",
         RunExclusiveTail(id)
  PROVE  RunnerInv' /\ active = id /\ FreeToken(id, "Runnable")
<1>1. active = id /\ depth = 1
  BY NoSessionIsNoId
  DEF ClientInv, RunningHoldsToken, RunnerInv, RunnerTypeOK, HolderHasDepth
<1>2. RunnerInv'
  BY RunnerOpInv DEF RunnerOp, ClientInv
<1> QED BY <1>1, <1>2 DEF RunExclusiveTail, Unwind

\* A step of worker id that takes it to place x, with entry e in the runner.
LEMMA PlaceStep ==
  ASSUME NEW id \in Sessions, NEW x \in PC, NEW e \in RunState,
         ClientInv, RunnerInv', depth' \in {0, 1},
         pc' = [pc EXCEPT ![id] = x],
         runStates' = [runStates EXCEPT ![id] = e],
         IF x = "running" THEN active' = id ELSE active' # id,
         active' = active \/ (active \in {id, NoSession} /\ active' \in {id, NoSession}),
         x \in {"out", "acquiring"} => e \in {"Absent", "Runnable"},
         x = "waking" => e = "Runnable",
         turns' \in [Sessions -> 0..MaxTurns], yields' \in 0..MaxYields,
         overtakes' \in [Sessions -> Nat]
  PROVE  ClientInv'
<1>1. pc \in [Sessions -> PC] /\ runStates \in [Sessions -> RunState]
  BY DEF ClientInv, RunnerInv, RunnerTypeOK
<1>2. pc' \in [Sessions -> PC]
  BY <1>1
<1>3. RunningHoldsToken'
  BY <1>1, NoSessionIsNoId DEF ClientInv, RunningHoldsToken
<1>4. EntryMatchesPlace'
  BY <1>1 DEF ClientInv, EntryMatchesPlace
<1> QED BY <1>2, <1>3, <1>4 DEF ClientInv

\* Every step of a worker preserves ClientInv.
LEMMA ClientStepInv ==
  ASSUME NEW id \in Sessions, ClientInv, ClientStep(id)
  PROVE  ClientInv'
<1>0. /\ turns \in [Sessions -> 0..MaxTurns] /\ yields \in 0..MaxYields
      /\ overtakes \in [Sessions -> Nat]
      /\ pc \in [Sessions -> PC] /\ runStates \in [Sessions -> RunState]
      /\ RunnerInv /\ depth \in {0, 1} /\ active \in Sessions \cup {NoSession}
  BY DEF ClientInv, RunnerInv, RunnerTypeOK
<1>1. CASE Ask(id)
  <2>1. RunnerInv'
    BY <1>0, <1>1
    DEF Ask, runnerVars, RunnerInv, RunnerTypeOK, HolderHasDepth, RunStatesMatchToken
  <2>2. turns' \in [Sessions -> 0..MaxTurns]
    <3>1. turns[id] + 1 \in 0..MaxTurns
      BY <1>0, <1>1, TurnsAssumption DEF Ask
    <3> QED BY <1>0, <1>1, <3>1 DEF Ask
  <2>3. overtakes' \in [Sessions -> Nat] /\ yields' \in 0..MaxYields
    BY <1>0, <1>1 DEF Ask
  <2>4. /\ runStates' = [runStates EXCEPT ![id] = runStates[id]]
        /\ runStates[id] \in {"Absent", "Runnable"}
        /\ active' = active /\ depth' = depth /\ active # id
    BY <1>0, <1>1 DEF Ask, runnerVars, ClientInv, EntryMatchesPlace, RunningHoldsToken
  <2>5. pc' = [pc EXCEPT ![id] = "acquiring"]
    BY <1>1 DEF Ask
  <2> QED BY <1>0, <2>1, <2>2, <2>3, <2>4, <2>5, PlaceStep, Zenon DEF PC, RunState
<1>2. CASE Enter(id)
  <2>1. /\ RunnerInv' /\ active = NoSession /\ active' = id /\ depth' = 1
        /\ runStates' = [runStates EXCEPT ![id] = "Running"]
    BY <1>2, ClientObtains DEF Enter
  <2>2. overtakes' \in [Sessions -> Nat]
    BY <1>0, <1>2 DEF Enter
  <2>3. pc' = [pc EXCEPT ![id] = "running"] /\ UNCHANGED <<turns, yields>>
    BY <1>2 DEF Enter
  <2> QED BY <1>0, <2>1, <2>2, <2>3, NoSessionIsNoId, PlaceStep, Zenon DEF PC, RunState
<1>3. CASE Yield(id)
  <2>1. FreeToken(id, "WaitingForInput") /\ active = id
    BY <1>3 DEF Yield, YieldWaitingForInput
  <2>2. RunnerInv'
    BY <1>0, <2>1, FreeTokenInv DEF RunState
  <2>3. yields' \in 0..MaxYields
    BY <1>0, <1>3, TurnsAssumption DEF Yield
  <2>4. pc' = [pc EXCEPT ![id] = "yielded"] /\ UNCHANGED <<turns, overtakes>>
    BY <1>3 DEF Yield
  <2>5. /\ active' = NoSession /\ depth' = 0
        /\ runStates' = [runStates EXCEPT ![id] = "WaitingForInput"]
    BY <2>1 DEF FreeToken
  <2> QED BY <1>0, <2>1, <2>2, <2>3, <2>4, <2>5, NoSessionIsNoId, PlaceStep, Zenon DEF PC, RunState
<1>4. CASE Input(id)
  <2>1. RunnerInv'
    BY <1>0, <1>4, RunnerOpInv DEF Input, RunnerOp
  <2>2. /\ runStates' = [runStates EXCEPT ![id] = "Runnable"]
        /\ active' = active /\ depth' = depth /\ active # id
        /\ pc' = [pc EXCEPT ![id] = "waking"] /\ UNCHANGED <<turns, yields, overtakes>>
    BY <1>4 DEF Input, Resume, ClientInv, RunningHoldsToken
  <2> QED BY <1>0, <2>1, <2>2, PlaceStep, Zenon DEF PC, RunState
<1>5. CASE Wake(id)
  <2>1. /\ RunnerInv' /\ active = NoSession /\ active' = id /\ depth' = 1
        /\ runStates' = [runStates EXCEPT ![id] = "Running"]
    BY <1>5, ClientObtains DEF Wake
  <2>2. pc' = [pc EXCEPT ![id] = "running"] /\ UNCHANGED <<turns, yields, overtakes>>
    BY <1>5 DEF Wake
  <2> QED BY <1>0, <2>1, <2>2, NoSessionIsNoId, PlaceStep, Zenon DEF PC, RunState
<1>6. CASE Leave(id)
  <2>1. /\ RunnerInv' /\ active = id /\ active' = NoSession /\ depth' = 0
        /\ runStates' = [runStates EXCEPT ![id] = "Runnable"]
    BY <1>6, ClientLeaves DEF Leave, FreeToken
  <2>2. pc' = [pc EXCEPT ![id] = "out"] /\ UNCHANGED <<turns, yields, overtakes>>
    BY <1>6 DEF Leave
  <2> QED BY <1>0, <2>1, <2>2, NoSessionIsNoId, PlaceStep, Zenon DEF PC, RunState
<1>7. CASE Retire(id)
  <2>1. RunnerInv'
    BY <1>0, <1>7, RunnerOpInv DEF Retire, RunnerOp
  <2>2. active # id
    BY <1>7 DEF Retire, ClientInv, RunningHoldsToken
  <2>3. /\ runStates' = [runStates EXCEPT ![id] = "Absent"]
        /\ active' = active /\ depth' = depth
        /\ pc' = [pc EXCEPT ![id] = "retired"] /\ UNCHANGED <<turns, yields, overtakes>>
    BY <1>7, <2>2 DEF Retire, RetireSession
  <2> QED BY <1>0, <2>1, <2>2, <2>3, PlaceStep, Zenon DEF PC, RunState
<1> QED BY <1>1, <1>2, <1>3, <1>4, <1>5, <1>6, <1>7 DEF ClientStep

\* ClientInv holds at the start and in every step.
LEMMA ClientInitInv == ClientInit => ClientInv
<1> SUFFICES ASSUME ClientInit PROVE ClientInv
  OBVIOUS
<1>1. RunnerInv
  BY RunnerInitInv DEF ClientInit
<1>2. /\ pc \in [Sessions -> PC] /\ turns \in [Sessions -> 0..MaxTurns]
      /\ yields \in 0..MaxYields /\ overtakes \in [Sessions -> Nat] /\ depth \in {0, 1}
  BY TurnsAssumption DEF ClientInit, RunnerInit, PC
<1>3. RunningHoldsToken /\ EntryMatchesPlace
  BY NoSessionIsNoId DEF ClientInit, RunnerInit, RunningHoldsToken, EntryMatchesPlace
<1> QED BY <1>1, <1>2, <1>3 DEF ClientInv

\* Every step of the workers preserves the invariant.
LEMMA ClientNextInv == ClientInv /\ [ClientNext]_vars => ClientInv'
<1> SUFFICES ASSUME ClientInv, [ClientNext]_vars PROVE ClientInv'
  OBVIOUS
<1>1. CASE ClientNext
  BY <1>1, ClientStepInv DEF ClientNext
<1>2. CASE UNCHANGED vars
  BY <1>2
  DEF vars, clientVars, runnerVars, ClientInv, RunnerInv, RunnerTypeOK, HolderHasDepth,
      RunStatesMatchToken, RunningHoldsToken, EntryMatchesPlace
<1> QED BY <1>1, <1>2

\* The invariant of the workers and the runner they share.
LEMMA ClientInvariant == ClientSpec => []ClientInv
  BY ClientInitInv, ClientNextInv, PTL DEF ClientSpec

\* Exactly the worker that runs holds the token, for any number of workers,
\* turns and yields.
THEOREM RunnersHoldTheToken == ClientSpec => []RunningHoldsToken
<1>1. ClientInv => RunningHoldsToken
  BY DEF ClientInv
<1> QED BY <1>1, ClientInvariant, PTL

\* The workers make only calls that RunnerSpec provides for, none of them
\* nested: what holds of the runner under any client holds of it here.
THEOREM ClientsUseTheRunner == ClientSpec => RunnerSpec
<1>1. ClientInit => RunnerInit
  BY DEF ClientInit
<1>2. ClientInv /\ [ClientNext]_vars => [RunnerNext]_runnerVars
  <2> SUFFICES ASSUME ClientInv, [ClientNext]_vars PROVE [RunnerNext]_runnerVars
    OBVIOUS
  <2>1. ASSUME NEW id \in Sessions, ClientStep(id)
        PROVE  RunnerOp(id) \/ UNCHANGED runnerVars
    <3>1. CASE Enter(id) \/ Wake(id)
      <4>1. active = NoSession
        BY <3>1, ClientObtains DEF Enter, Wake
      <4>2. depth < MaxDepth
        BY <4>1, MaxDepthAssumption DEF ClientInv, RunnerInv, HolderHasDepth
      <4> QED BY <3>1, <4>2 DEF Enter, Wake, RunnerOp
    <3> QED BY <2>1, <3>1 DEF ClientStep, Ask, Yield, Input, Leave, Retire, RunnerOp
  <2> QED BY <2>1 DEF ClientNext, RunnerNext, vars
<1> QED BY <1>1, <1>2, ClientInvariant, PTL DEF ClientSpec, RunnerSpec

\* Among the workers the token changes hands only through the free state.
THEOREM ClientsImplementToken == ClientSpec => TokenRefinement
  BY ClientsUseTheRunner, RunnerImplementsToken, PTL

-----------------------------------------------------------------------------
(* Overtaking.                                                             *)

\* How many may be served before a waiting session, at most.
Others == Cardinality(Sessions) - 1

\* Multiples of a natural number.
LEMMA Multiples ==
  ASSUME NEW n \in Nat, NEW k \in Nat
  PROVE  /\ n * k \in Nat
         /\ n * (1 + k) = n + n * k
         /\ n * (1 + (k + 1)) = n * (1 + k) + n
  OBVIOUS

\* More wake-ups allow more overtaking.
LEMMA MultiplesGrow ==
  ASSUME NEW n \in Nat, NEW k \in Nat, NEW d \in Nat
  PROVE  n * (1 + k) <= n * (1 + (k + d))
<1>1. n * (1 + (k + d)) = n * (1 + k) + n * d
  OBVIOUS
<1>2. n * d \in Nat /\ n * (1 + k) \in Nat
  BY Multiples
<1> QED BY <1>1, <1>2

\* The sessions ahead of id are some of the others.
LEMMA AheadBounded ==
  ASSUME NEW id \in Sessions, NEW cursor
  PROVE  /\ IsFiniteSet(Ahead(cursor, id))
         /\ Cardinality(Ahead(cursor, id)) \in 0..Others
<1>1. /\ IsFiniteSet(Sessions \ {id}) /\ Cardinality(Sessions \ {id}) = Others
  BY FiniteAssumption, FS_RemoveElement DEF Others
<1>2. Ahead(cursor, id) \in SUBSET (Sessions \ {id})
  BY DEF Ahead
<1>3. /\ IsFiniteSet(Ahead(cursor, id))
      /\ Cardinality(Ahead(cursor, id)) <= Cardinality(Sessions \ {id})
  BY <1>1, <1>2, FS_Subset
<1>4. Cardinality(Ahead(cursor, id)) \in Nat /\ Cardinality(Sessions \ {id}) \in Nat
  BY <1>1, <1>3, FS_CardinalityType
<1> QED BY <1>1, <1>3, <1>4

\* A session that is served while it is ahead of id is not ahead of it any more,
\* and nobody else comes in between.
LEMMA AheadShrinks ==
  ASSUME NEW id \in Sessions, NEW cursor \in Nat, NEW other \in Ahead(cursor, id)
  PROVE  Cardinality(Ahead(other, id)) + 1 <= Cardinality(Ahead(cursor, id))
<1>1. /\ other \in Nat /\ id \in Nat /\ other # id
      /\ \A s \in Sessions : s \in Nat
  BY SessionsAssumption DEF Ahead
<1>2. Ahead(other, id) \in SUBSET (Ahead(cursor, id) \ {other})
  <2> SUFFICES ASSUME NEW s \in Ahead(other, id)
               PROVE  s \in Ahead(cursor, id) /\ s # other
    BY Zenon
  <2>1. s \in Nat /\ s \in Sessions \ {id}
    BY <1>1 DEF Ahead
  <2>2. CASE cursor < id
    BY <1>1, <2>1, <2>2 DEF Ahead
  <2>3. CASE ~(cursor < id)
    BY <1>1, <2>1, <2>3 DEF Ahead
  <2> QED BY <2>2, <2>3
<1>3. /\ IsFiniteSet(Ahead(cursor, id)) /\ Cardinality(Ahead(cursor, id)) \in Nat
      /\ Cardinality(Ahead(other, id)) \in Nat
  BY AheadBounded
<1>4. /\ IsFiniteSet(Ahead(cursor, id) \ {other})
      /\ Cardinality(Ahead(cursor, id) \ {other}) = Cardinality(Ahead(cursor, id)) - 1
  BY <1>3, FS_RemoveElement
<1>5. Cardinality(Ahead(other, id)) <= Cardinality(Ahead(cursor, id) \ {other})
  BY <1>2, <1>4, FS_Subset
<1> QED BY <1>3, <1>4, <1>5

\* pickNextRunnableLocked elects a session ahead of everybody who waits.
LEMMA ElectedIsAhead ==
  ASSUME NEW id \in Sessions, NEW other \in Sessions \ {id},
         ClientInv, Enter(other), Waiting(id)
  PROVE  active = NoSession /\ other \in Ahead(lastServed, id)
<1> DEFINE runnable == RunnableFor(other)
           above    == {s \in runnable : s > lastServed}
<1>1. active = NoSession /\ NextRunnable(other) \in {NoSession, other}
  BY DEF Enter, Acquire, CanAcquire, ClientInv, RunningHoldsToken
<1>2. id \in runnable
  BY DEF Waiting, RunnableFor, ClientInv, EntryMatchesPlace
<1>3. runnable \in SUBSET Sessions /\ above \in SUBSET Sessions
  BY DEF RunnableFor
<1>4. runnable \in SUBSET Nat /\ above \in SUBSET Nat /\ lastServed \in Nat
  <2>1. lastServed \in Nat
    BY SessionsAssumption DEF ClientInv, RunnerInv, RunnerTypeOK
  <2>2. Sessions \subseteq Nat
    BY SessionsAssumption
  <2> HIDE DEF runnable, above
  <2> QED BY <1>3, <2>1, <2>2, Zenon
<1>5. NextRunnable(other) = IF above # {} THEN Least(above) ELSE Least(runnable)
  <2>1. runnable # {}
    BY <1>2
  <2> QED BY <2>1, Zenon DEF NextRunnable
<1> HIDE DEF runnable
<1>6. NextRunnable(other) = other
  <2>1. above # {} => Least(above) \in above
    BY <1>4, LeastExists
  <2>2. Least(runnable) \in runnable
    BY <1>2, <1>4, LeastExists
  <2> QED BY <1>1, <1>3, <1>5, <2>1, <2>2, NoSessionIsNoId
<1>7. CASE above # {}
  <2>1. other \in above /\ \A y \in above : other <= y
    BY <1>4, <1>5, <1>6, <1>7, LeastExists
  <2>2. other > lastServed /\ (id > lastServed => other <= id)
    BY <1>2, <2>1
  <2> QED BY <1>1, <1>2, <1>4, <2>1, <2>2 DEF Ahead
<1>8. CASE above = {}
  <2>1. \A y \in runnable : other <= y
    BY <1>2, <1>4, <1>5, <1>6, <1>8, LeastExists
  <2>2. other <= id /\ ~(id > lastServed)
    BY <1>2, <1>8, <2>1
  <2>3. other < id /\ ~(lastServed < id)
    BY <1>2, <1>4, <2>2, SessionsAssumption
  <2> QED BY <1>1, <2>3 DEF Ahead
<1> QED BY <1>7, <1>8

\* The sessions that have yielded and not come back can be counted.
LEMMA AsleepCounted ==
  IsFiniteSet(Asleep) /\ Cardinality(Asleep) \in Nat
<1>1. Asleep \in SUBSET Sessions
  BY DEF Asleep
<1>2. IsFiniteSet(Asleep)
  BY <1>1, FiniteAssumption, FS_Subset
<1> QED BY <1>2, FS_CardinalityType

\* Sessions other than one can be counted.
LEMMA OthersCounted ==
  ASSUME NEW id \in Sessions
  PROVE  Others \in Nat
<1>1. Cardinality(Ahead(0, id)) \in 0..Others /\ Others \in Int
  BY AheadBounded, FiniteAssumption, FS_CardinalityType DEF Others
<1> QED BY <1>1

\* The cursor stands at a session or at its start.
LEMMA CursorType == ClientInv => Cursor \in Nat
  BY SessionsAssumption DEF Cursor, ClientInv, RunnerInv, RunnerTypeOK

\* A step that leaves the cursor and the number of wake-ups alone; a worker may
\* begin to wait.
LEMMA QuietStep ==
  ASSUME ClientInv', OvertakingInv, Cursor' = Cursor, Wakes' = Wakes,
         \A s \in Sessions :
            Waiting(s)' => overtakes'[s] = 0 \/ (Waiting(s) /\ overtakes'[s] = overtakes[s])
  PROVE  OvertakingInv'
<1> SUFFICES ASSUME NEW id \in Sessions, Waiting(id)'
             PROVE  overtakes'[id] + Cardinality(Ahead(Cursor', id)) <= Others * (1 + Wakes)
  BY DEF OvertakingInv, Others, Ahead
<1>1. CASE overtakes'[id] = 0
  <2>1. /\ Others \in Nat /\ Wakes \in Nat /\ Others * Wakes \in Nat
        /\ Others * (1 + Wakes) = Others + Others * Wakes
    BY OthersCounted, Multiples DEF OvertakingInv
  <2>2. Cardinality(Ahead(Cursor', id)) \in 0..Others
    BY AheadBounded
  <2> QED BY <1>1, <2>1, <2>2
<1>2. CASE Waiting(id) /\ overtakes'[id] = overtakes[id]
  BY <1>2 DEF OvertakingInv, Others
<1> QED BY <1>1, <1>2

\* A worker is given the token by acquire: it was ahead of all that wait.
LEMMA EnterOvertaking ==
  ASSUME NEW other \in Sessions, ClientInv, OvertakingInv, Enter(other)
  PROVE  OvertakingInv'
<1>1. /\ pc \in [Sessions -> PC] /\ overtakes \in [Sessions -> Nat]
      /\ runStates \in [Sessions -> RunState] /\ lastServed \in Nat
  BY SessionsAssumption DEF ClientInv, RunnerInv, RunnerTypeOK
<1>2. /\ active = NoSession /\ active' = other /\ lastServed' = lastServed
      /\ runStates' = [runStates EXCEPT ![other] = "Running"]
      /\ pc[other] = "acquiring" /\ pc' = [pc EXCEPT ![other] = "running"] /\ yields' = yields
      /\ overtakes' = [s \in Sessions |-> IF s # other /\ pc[s] = "acquiring"
                                          THEN overtakes[s] + 1 ELSE overtakes[s]]
  BY ClientObtains DEF Enter
<1>3. Cursor = lastServed /\ Cursor' = other
  BY <1>2, NoSessionIsNoId DEF Cursor
<1>4. Asleep' = Asleep
  BY <1>1, <1>2 DEF Asleep
<1>5. Wakes' = Wakes
  BY <1>2, <1>4 DEF Wakes
<1> SUFFICES ASSUME NEW id \in Sessions, Waiting(id)'
             PROVE  overtakes'[id] + Cardinality(Ahead(other, id)) <= Others * (1 + Wakes)
  BY <1>3, <1>5 DEF OvertakingInv, Others, Ahead
<1>6. id # other /\ Waiting(id) /\ overtakes'[id] = overtakes[id] + 1
  BY <1>1, <1>2 DEF Waiting
<1>7. other \in Ahead(lastServed, id)
  BY <1>6, ElectedIsAhead
<1>8. Cardinality(Ahead(other, id)) + 1 <= Cardinality(Ahead(lastServed, id))
  BY <1>1, <1>7, AheadShrinks
<1>9. overtakes[id] + Cardinality(Ahead(lastServed, id)) <= Others * (1 + Wakes)
  BY <1>3, <1>6 DEF OvertakingInv, Others
<1>10. /\ Cardinality(Ahead(other, id)) \in Nat /\ Cardinality(Ahead(lastServed, id)) \in Nat
       /\ overtakes[id] \in Nat
  BY <1>1, AheadBounded
<1>11. Others * (1 + Wakes) \in Nat
  BY OthersCounted, Multiples DEF OvertakingInv
<1> QED BY <1>6, <1>8, <1>9, <1>10, <1>11

\* A reader is woken: the cursor goes anywhere, and one yield is made up for.
LEMMA WakeOvertaking ==
  ASSUME NEW other \in Sessions, ClientInv, OvertakingInv, Wake(other)
  PROVE  OvertakingInv'
<1>1. /\ pc \in [Sessions -> PC] /\ overtakes \in [Sessions -> Nat] /\ yields \in Nat
      /\ runStates \in [Sessions -> RunState]
  BY DEF ClientInv, RunnerInv, RunnerTypeOK
<1>2. /\ runStates' = [runStates EXCEPT ![other] = "Running"]
      /\ pc[other] = "waking" /\ pc' = [pc EXCEPT ![other] = "running"]
      /\ UNCHANGED <<yields, overtakes>>
  BY ClientObtains DEF Wake
<1>3. Asleep' = Asleep \ {other} /\ other \in Asleep
  BY <1>1, <1>2 DEF Asleep
<1>4. Cardinality(Asleep') = Cardinality(Asleep) - 1
  BY <1>3, AsleepCounted, FS_RemoveElement
<1>5. Wakes' = Wakes + 1 /\ Wakes \in Nat
  BY <1>1, <1>2, <1>4, AsleepCounted DEF Wakes, OvertakingInv
<1> SUFFICES ASSUME NEW id \in Sessions, Waiting(id)'
             PROVE  overtakes[id] + Cardinality(Ahead(Cursor', id)) <= Others * (1 + (Wakes + 1))
  BY <1>2, <1>5 DEF OvertakingInv, Others, Ahead
<1>6. Waiting(id)
  BY <1>1, <1>2 DEF Waiting
<1>7. overtakes[id] + Cardinality(Ahead(Cursor, id)) <= Others * (1 + Wakes)
  BY <1>6 DEF OvertakingInv, Others
<1>8. /\ Cardinality(Ahead(Cursor, id)) \in Nat /\ Cardinality(Ahead(Cursor', id)) \in 0..Others
      /\ overtakes[id] \in Nat /\ Others \in Nat
  BY <1>1, AheadBounded, OthersCounted
<1>9. /\ Others * (1 + (Wakes + 1)) = Others * (1 + Wakes) + Others
      /\ Others * (1 + Wakes) \in Nat
  BY <1>5, <1>8, Multiples
<1> QED BY <1>7, <1>8, <1>9

\* Every other step leaves the cursor where it is.
LEMMA OvertakingStep ==
  ASSUME NEW id \in Sessions, ClientInv, ClientInv', OvertakingInv, ClientStep(id)
  PROVE  OvertakingInv'
<1>1. /\ pc \in [Sessions -> PC] /\ overtakes \in [Sessions -> Nat] /\ yields \in Nat
      /\ runStates \in [Sessions -> RunState] /\ pc[id] = "running" => active = id
  BY DEF ClientInv, RunnerInv, RunnerTypeOK, RunningHoldsToken
<1>2. CASE Ask(id)
  <2>1. Asleep' = Asleep
    BY <1>1, <1>2 DEF Ask, Asleep
  <2>2. Wakes' = Wakes /\ Cursor' = Cursor
    BY <1>2, <2>1 DEF Ask, Wakes, Cursor, runnerVars
  <2>3. \A s \in Sessions :
            Waiting(s)' => overtakes'[s] = 0 \/ (Waiting(s) /\ overtakes'[s] = overtakes[s])
    BY <1>1, <1>2 DEF Ask, Waiting, runnerVars
  <2> QED BY <2>2, <2>3, QuietStep
<1>3. CASE Enter(id)
  BY <1>3, EnterOvertaking
<1>4. CASE Wake(id)
  BY <1>4, WakeOvertaking
<1>5. CASE Yield(id)
  <2>1. /\ active = id /\ active' = NoSession /\ lastServed' = id
        /\ runStates' = [runStates EXCEPT ![id] = "WaitingForInput"]
        /\ pc[id] = "running" /\ pc' = [pc EXCEPT ![id] = "yielded"]
        /\ yields' = yields + 1 /\ overtakes' = overtakes
    BY <1>5 DEF Yield, YieldWaitingForInput, FreeToken
  <2>2. Asleep' = Asleep \cup {id} /\ id \notin Asleep
    BY <1>1, <2>1 DEF Asleep
  <2>3. Cardinality(Asleep') = Cardinality(Asleep) + 1
    BY <2>2, AsleepCounted, FS_AddElement
  <2>4. Wakes' = Wakes
    BY <1>1, <2>1, <2>3, AsleepCounted DEF Wakes
  <2>5. Cursor' = Cursor
    BY <2>1, NoSessionIsNoId DEF Cursor
  <2>6. \A s \in Sessions : Waiting(s)' => Waiting(s)
    BY <1>1, <2>1 DEF Waiting
  <2> QED BY <2>1, <2>4, <2>5, <2>6, QuietStep
<1>6. CASE Input(id) \/ Leave(id) \/ Retire(id)
  <2>1. PICK x \in PC : /\ pc' = [pc EXCEPT ![id] = x] /\ x # "acquiring"
                        /\ x \in {"yielded", "waking"} <=> pc[id] \in {"yielded", "waking"}
    BY <1>6 DEF Input, Leave, Retire, PC
  <2>2. /\ \A s \in Sessions \ {id} : runStates'[s] = runStates[s]
        /\ UNCHANGED <<yields, overtakes>> /\ Cursor' = Cursor
    <3>1. CASE Input(id)
      BY <1>1, <3>1 DEF Input, Resume, Cursor
    <3>2. CASE Leave(id)
      <4>1. active = id /\ FreeToken(id, "Runnable")
        BY <3>2, ClientLeaves DEF Leave
      <4> QED BY <1>1, <3>2, <4>1, NoSessionIsNoId DEF Leave, FreeToken, Cursor
    <3>3. CASE Retire(id)
      <4>1. active # id
        BY <3>3 DEF Retire, ClientInv, RunningHoldsToken
      <4>2. /\ UNCHANGED <<active, lastServed, yields, overtakes>>
            /\ runStates' = [runStates EXCEPT ![id] = "Absent"]
        BY <3>3, <4>1 DEF Retire, RetireSession
      <4> QED BY <1>1, <4>2 DEF Cursor
    <3> QED BY <1>6, <3>1, <3>2, <3>3
  <2>3. Asleep' = Asleep
    BY <1>1, <2>1 DEF Asleep
  <2>4. Wakes' = Wakes
    BY <2>2, <2>3 DEF Wakes
  <2>5. \A s \in Sessions : Waiting(s)' => Waiting(s)
    BY <1>1, <2>1, <2>2 DEF Waiting
  <2> QED BY <2>2, <2>4, <2>5, QuietStep
<1> QED BY <1>2, <1>3, <1>4, <1>5, <1>6 DEF ClientStep

\* While a worker with a place in the round robin waits, each other session is
\* served by acquire at most once per round, and the rounds are one more than
\* the yields: for any number of sessions, turns and yields.
THEOREM OvertakingIsBounded == ClientSpec => []BoundedOvertaking
<1>1. ClientInit => OvertakingInv
  <2> SUFFICES ASSUME ClientInit PROVE OvertakingInv
    OBVIOUS
  <2>1. Asleep = {}
    BY DEF ClientInit, Asleep
  <2>2. Wakes = 0
    BY <2>1, FS_EmptySet DEF ClientInit, Wakes
  <2> QED BY <2>2 DEF ClientInit, OvertakingInv, Waiting
<1>2. ClientInv /\ ClientInv' /\ OvertakingInv /\ [ClientNext]_vars => OvertakingInv'
  <2> SUFFICES ASSUME ClientInv, ClientInv', OvertakingInv, [ClientNext]_vars PROVE OvertakingInv'
    OBVIOUS
  <2>1. CASE ClientNext
    BY <2>1, OvertakingStep DEF ClientNext
  <2>2. CASE UNCHANGED vars
    <3>1. Wakes' = Wakes /\ Cursor' = Cursor /\ UNCHANGED <<overtakes, pc, runStates>>
      BY <2>2 DEF vars, clientVars, runnerVars, Wakes, Cursor, Asleep
    <3> QED BY <3>1, QuietStep DEF Waiting
  <2> QED BY <2>1, <2>2
<1>3. ClientInv /\ OvertakingInv => BoundedOvertaking
  <2> SUFFICES ASSUME ClientInv, OvertakingInv, NEW id \in Sessions, Waiting(id)
               PROVE  overtakes[id] <= Others * (1 + yields)
    BY DEF BoundedOvertaking, Others
  <2>1. overtakes[id] + Cardinality(Ahead(Cursor, id)) <= Others * (1 + Wakes)
    BY DEF OvertakingInv, Others
  <2>2. /\ overtakes[id] \in Nat /\ Cardinality(Ahead(Cursor, id)) \in Nat
        /\ Others \in Nat /\ Wakes \in Nat /\ Cardinality(Asleep) \in Nat /\ yields \in Nat
    BY AheadBounded, OthersCounted, AsleepCounted DEF OvertakingInv, ClientInv
  <2>3. yields = Wakes + Cardinality(Asleep)
    BY <2>2 DEF Wakes
  <2>4. Others * (1 + Wakes) <= Others * (1 + yields)
    BY <2>2, <2>3, MultiplesGrow
  <2>5. Others * (1 + Wakes) \in Nat /\ Others * (1 + yields) \in Nat
    BY <2>2, Multiples
  <2> QED BY <2>1, <2>2, <2>4, <2>5
<1> QED BY <1>1, <1>2, <1>3, ClientInvariant, PTL DEF ClientSpec
=============================================================================
