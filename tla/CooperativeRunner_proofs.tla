---------------------- MODULE CooperativeRunner_proofs ----------------------
(***************************************************************************)
(* The runner's invariants and its refinement of ExecutionToken, for every *)
(* set of sessions and every nesting bound.  RunnerInv is inductive as it  *)
(* stands: HolderHasDepth needs RunnerTypeOK (depth is a natural number)   *)
(* and RunStatesMatchToken needs HolderHasDepth (an acquire by the holder  *)
(* and an acquire of the free token are told apart by active alone).       *)
(***************************************************************************)
EXTENDS CooperativeRunner, WellFoundedInduction, TLAPS

\* The runner uses 0 for "no session", which is no session id.
LEMMA NoSessionIsNoId == NoSession \notin Sessions
  BY SessionsAssumption DEF NoSession

\* A set of ids has a lowest one: what the loops over the ordered maps and over
\* the port numbers find.
LEMMA LeastExists ==
  ASSUME NEW S \in SUBSET Nat, S # {}
  PROVE  Least(S) \in S /\ \A y \in S : Least(S) <= y
<1> DEFINE R == {ss \in Nat \X Nat : ss[1] < ss[2]}
<1>1. IsWellFoundedOn(R, Nat)
  BY NatLessThanWellFounded DEF OpToRel
<1> HIDE DEF R
<1>2. PICK x \in S : \A y \in S : ~(<<y, x>> \in R)
  BY <1>1, WFMin
<1>3. ASSUME NEW a \in Nat, NEW b \in Nat, a < b
      PROVE  <<a, b>> \in R
  BY <1>3 DEF R
<1>4. \A y \in S : ~(y < x)
  BY <1>2, <1>3
<1>5. \A y \in S : x <= y
  BY <1>4
<1> QED BY <1>5 DEF Least

\* The initial state of the runner satisfies its invariant.
LEMMA RunnerInitInv == RunnerInit => RunnerInv
  BY NoSessionIsNoId
  DEF RunnerInit, RunnerInv, RunnerTypeOK, HolderHasDepth, RunStatesMatchToken,
      RunState, NoSession

\* grantAcquireLocked, called when the token is free or held by the caller.
LEMMA GrantInv ==
  ASSUME NEW id \in Sessions, RunnerInv, active \in {NoSession, id}, Grant(id)
  PROVE  RunnerInv'
  BY NoSessionIsNoId
  DEF Grant, RunnerInv, RunnerTypeOK, HolderHasDepth, RunStatesMatchToken,
      RunState, NoSession

\* The token is taken from its holder, who is left in a state that is not Running.
LEMMA FreeTokenInv ==
  ASSUME NEW id \in Sessions, NEW state \in RunState \ {"Running"},
         RunnerInv, active = id, FreeToken(id, state)
  PROVE  RunnerInv'
  BY NoSessionIsNoId
  DEF FreeToken, RunnerInv, RunnerTypeOK, HolderHasDepth, RunStatesMatchToken,
      RunState, NoSession

\* The holder undoes one of its acquires.
LEMMA UnwindInv ==
  ASSUME NEW id \in Sessions, RunnerInv, active = id, depth > 0, Unwind(id)
  PROVE  RunnerInv'
<1>1. CASE depth = 1
  BY <1>1, FreeTokenInv DEF Unwind, RunState
<1>2. CASE depth # 1
  BY <1>2, NoSessionIsNoId
  DEF Unwind, RunnerInv, RunnerTypeOK, HolderHasDepth, RunStatesMatchToken
<1> QED BY <1>1, <1>2

\* Every operation of the runner, by any caller, preserves the invariant.
LEMMA RunnerOpInv ==
  ASSUME NEW id \in Sessions, RunnerInv, RunnerOp(id)
  PROVE  RunnerInv'
<1>1. CASE Acquire(id)
  BY <1>1, GrantInv DEF Acquire, CanAcquire
<1>2. CASE AcquireAfterInputWake(id)
  BY <1>2, GrantInv DEF AcquireAfterInputWake, CanAcquireAfterInputWake
<1>3. CASE Release(id)
  BY <1>3, UnwindInv DEF Release
<1>4. CASE YieldWaitingForInput(id)
  BY <1>4, FreeTokenInv DEF YieldWaitingForInput, RunState
<1>5. CASE Resume(id)
  BY <1>5 DEF Resume, RunnerInv, RunnerTypeOK, HolderHasDepth,
              RunStatesMatchToken, RunState
<1>6. CASE RetireSession(id)
  <2>1. CASE active = id
    BY <1>6, <2>1, FreeTokenInv DEF RetireSession, RunState
  <2>2. CASE active # id
    BY <1>6, <2>2 DEF RetireSession, RunnerInv, RunnerTypeOK, HolderHasDepth,
                      RunStatesMatchToken, RunState
  <2> QED BY <2>1, <2>2
<1>7. CASE RunExclusiveTail(id)
  <2>1. CASE active = id /\ depth > 0
    BY <1>7, <2>1, UnwindInv DEF RunExclusiveTail
  <2>2. CASE ~(active = id /\ depth > 0)
    <3>1. active = active' /\ depth = depth' /\ lastServed' = lastServed
      BY <1>7, <2>2 DEF RunExclusiveTail
    <3>2. CASE active = NoSession /\ StateOf(id) = "WaitingForInput"
      <4>1. runStates' = [runStates EXCEPT ![id] = "Runnable"]
        BY <1>7, <2>2, <3>2 DEF RunExclusiveTail
      <4> QED BY <3>1, <3>2, <4>1, NoSessionIsNoId
              DEF RunnerInv, RunnerTypeOK, HolderHasDepth, RunStatesMatchToken, RunState
    <3>3. CASE ~(active = NoSession /\ StateOf(id) = "WaitingForInput")
      <4>1. runStates' = runStates
        BY <1>7, <2>2, <3>3 DEF RunExclusiveTail
      <4> QED BY <3>1, <4>1
              DEF RunnerInv, RunnerTypeOK, HolderHasDepth, RunStatesMatchToken
    <3> QED BY <3>2, <3>3
  <2> QED BY <2>1, <2>2
<1> QED BY <1>1, <1>2, <1>3, <1>4, <1>5, <1>6, <1>7 DEF RunnerOp

\* Whatever its callers do, CooperativeSessionRunner keeps its fields typed,
\* active_ and depth_ in agreement, and the run states in agreement with the
\* token's holder.
THEOREM RunnerInvariant == RunnerSpec => []RunnerInv
<1>1. RunnerInv /\ [RunnerNext]_runnerVars => RunnerInv'
  <2> SUFFICES ASSUME RunnerInv, [RunnerNext]_runnerVars PROVE RunnerInv'
    OBVIOUS
  <2>1. CASE RunnerNext
    BY <2>1, RunnerOpInv DEF RunnerNext
  <2>2. CASE UNCHANGED runnerVars
    BY <2>2 DEF runnerVars, RunnerInv, RunnerTypeOK, HolderHasDepth, RunStatesMatchToken
  <2> QED BY <2>1, <2>2
<1> QED BY <1>1, RunnerInitInv, PTL DEF RunnerSpec

\* HolderHasDepth, for every set of sessions.
THEOREM RunnerHolderHasDepth == RunnerSpec => []HolderHasDepth
<1>1. RunnerInv => HolderHasDepth
  BY DEF RunnerInv
<1> QED BY <1>1, RunnerInvariant, PTL

\* RunStatesMatchToken, for every set of sessions.
THEOREM RunnerStatesMatch == RunnerSpec => []RunStatesMatchToken
<1>1. RunnerInv => RunStatesMatchToken
  BY DEF RunnerInv
<1> QED BY <1>1, RunnerInvariant, PTL

\* An operation of the runner is a step of the abstract token or leaves it.
LEMMA RunnerOpIsTokenStep ==
  ASSUME NEW id \in Sessions, RunnerInv, RunnerOp(id)
  PROVE  [Token!TokenNext]_active
<1> USE DEF Token!TokenNext, Token!Take, Token!GiveBack, Token!NoSession, NoSession
<1>1. ASSUME active \in {NoSession, id}, Grant(id)
      PROVE  [Token!TokenNext]_active
  BY <1>1 DEF Grant
<1>2. ASSUME NEW state, active = id, FreeToken(id, state)
      PROVE  [Token!TokenNext]_active
  BY <1>2 DEF FreeToken
<1>3. ASSUME active = id, Unwind(id)
      PROVE  [Token!TokenNext]_active
  BY <1>2, <1>3 DEF Unwind
<1>4. CASE Acquire(id)
  BY <1>1, <1>4 DEF Acquire, CanAcquire
<1>5. CASE AcquireAfterInputWake(id)
  BY <1>1, <1>5 DEF AcquireAfterInputWake, CanAcquireAfterInputWake
<1>6. CASE Release(id)
  BY <1>3, <1>6 DEF Release
<1>7. CASE YieldWaitingForInput(id)
  BY <1>2, <1>7 DEF YieldWaitingForInput
<1>8. CASE Resume(id)
  BY <1>8 DEF Resume
<1>9. CASE RetireSession(id)
  BY <1>2, <1>9 DEF RetireSession
<1>10. CASE RunExclusiveTail(id)
  BY <1>3, <1>10 DEF RunExclusiveTail
<1> QED BY <1>4, <1>5, <1>6, <1>7, <1>8, <1>9, <1>10 DEF RunnerOp

\* CooperativeSessionRunner implements the abstract execution token: at any
\* time at most one session holds it, and it changes hands only through the
\* free state, whatever calls its clients make and in whatever order.
THEOREM RunnerImplementsToken == RunnerSpec => TokenRefinement
<1>1. RunnerInit => Token!TokenInit
  BY DEF RunnerInit, Token!TokenInit, NoSession, Token!NoSession
<1>2. RunnerInv /\ [RunnerNext]_runnerVars => [Token!TokenNext]_active
  BY RunnerOpIsTokenStep DEF RunnerNext, runnerVars
<1> QED BY <1>1, <1>2, RunnerInvariant, PTL
        DEF RunnerSpec, TokenRefinement, Token!TokenSpec
=============================================================================
