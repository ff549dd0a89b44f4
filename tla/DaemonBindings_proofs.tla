----------------------- MODULE DaemonBindings_proofs ------------------------
(***************************************************************************)
(* What the daemon's maps promise across attach, detach, KILLSESSION and   *)
(* shutdown: an open channel is its session's bound one, a detached        *)
(* session is idle and the halt is clean, for every set of sessions and    *)
(* connections.  BindingInv and CustodyInv are inductive together with     *)
(* DaemonInv.                                                              *)
(***************************************************************************)
EXTENDS DaemonSessions_proofs, SequenceTheorems

-----------------------------------------------------------------------------
(* The bindings.                                                           *)

\* What BindingInv speaks of.
bindings == <<bound, boundChan, sched, closed, attached>>

\* A step that leaves the bindings alone, and a request of the main thread
\* that concerns no console or has been served.
LEMMA BindingFrame ==
  ASSUME BindingInv, UNCHANGED bindings,
         \/ UNCHANGED <<mpc, mconn, mport>>
         \/ mpc' \notin {"attachJoin", "detachClose", "detachJoin", "detachRetire"}
  PROVE  BindingInv'
  BY DEF bindings, BindingInv, OpenChannelIsBound

\* unbindConsoleWithoutJoin closes the victim's channel as it unbinds it.
LEMMA KillUnbindBinding ==
  ASSUME NEW p \in Sessions, DaemonInv, BindingInv, KillUnbind(p)
  PROVE  BindingInv'
<1>1. PICK q \in Sessions : q = victim[p]
  BY DEF KillUnbind, WorkerLocals, DaemonInv, DaemonTypeOK
<1>2. PICK c \in Conns \cup {NoConn} : c = boundChan[q]
  BY DEF DaemonInv, DaemonTypeOK
<1>3. /\ sched' = [d \in Conns |-> IF d = c THEN NoSession ELSE sched[d]]
      /\ closed' = [d \in Conns |-> d = c \/ closed[d]]
      /\ boundChan' = [boundChan EXCEPT ![q] = NoConn]
      /\ bound' = bound \ {q}
      /\ UNCHANGED <<attached, mpc, mconn, mport>>
  BY <1>1, <1>2 DEF KillUnbind, mainVars
<1>4. /\ boundChan \in [Sessions -> Conns \cup {NoConn}]
      /\ sched \in [Conns -> Sessions \cup {NoSession}]
      /\ attached \in [Conns -> Sessions \cup {NoSession}]
      /\ mpc = "attachJoin" => mconn \in Conns /\ mport \in Sessions
      /\ mpc \in {"detachJoin", "detachRetire"} => mport \in Sessions
  BY DEF DaemonInv, DaemonTypeOK, MainLocals
<1>5. \A s \in Sessions : boundChan'[s] # NoConn => s \in bound'
  BY <1>3, <1>4 DEF BindingInv
<1>6. \A d \in Conns : sched'[d] # NoSession => boundChan'[sched'[d]] = d
  BY <1>2, <1>3, <1>4 DEF BindingInv
<1>7. mpc' = "attachJoin" /\ ~closed'[mconn'] => boundChan'[mport'] = mconn'
  BY <1>2, <1>3, <1>4, Zenon DEF BindingInv
<1>8. mpc' = "detachClose" => \A d \in Conns : sched'[d] # mport'
  <2>1. ASSUME mpc = "detachClose", NEW d \in Conns PROVE sched'[d] # mport
    BY <1>3, <1>4, <2>1, NoSessionIsNoId DEF BindingInv, DaemonInv, MainLocals
  <2> QED BY <1>3, <2>1
<1>9. mpc' \in {"detachJoin", "detachRetire"} => boundChan'[mport'] = NoConn
  BY <1>3, <1>4 DEF BindingInv
<1>10. OpenChannelIsBound'
  BY <1>2, <1>3, <1>4, Zenon DEF BindingInv, OpenChannelIsBound
<1> QED BY <1>5, <1>6, <1>7, <1>8, <1>9, <1>10 DEF BindingInv

\* No other step of a worker touches a binding.
LEMMA WorkerBinding ==
  ASSUME NEW p \in Sessions, DaemonInv, BindingInv, WorkerStep(p)
  PROVE  BindingInv'
<1>1. CASE KillUnbind(p)
  BY <1>1, KillUnbindBinding
<1>2. CASE ~KillUnbind(p)
  <2>1. UNCHANGED <<bound, boundChan, sched, closed, attached, mpc, mconn, mport>>
    <3> USE DEF chanVars, bindVars, mainVars
    <3>1. CASE Begin(p) \/ Enter(p) \/ Blocked(p) \/ Rejoin(p) \/ LogonLine(p)
      BY <3>1 DEF Begin, Enter, Blocked, Rejoin, LogonLine
    <3>2. CASE Read(p) \/ WakeUp(p) \/ Pop(p)
      BY <3>2 DEF Read, WakeUp, Pop
    <3>3. CASE YieldToken(p) \/ EndExclusive(p) \/ Exit(p)
      BY <3>3 DEF YieldToken, EndExclusive, Exit
    <3>4. CASE \E command \in TclCommands : TclLine(p, command)
      BY <3>4 DEF TclLine
    <3>5. CASE (\E q \in Sessions : KillLine(p, q)) \/ KillQueue(p) \/ KillNow(p)
      BY <3>5 DEF KillLine, KillQueue, KillNow
    <3> QED BY <1>2, <3>1, <3>2, <3>3, <3>4, <3>5 DEF WorkerStep
  <2> QED BY <2>1, BindingFrame DEF bindings
<1> QED BY <1>1, <1>2

\* An attach binds the connection's new channel to a session that has none.
LEMMA BindBinding ==
  ASSUME NEW c \in Conns, NEW p \in Sessions, DaemonInv, BindingInv, Bind(c, p)
  PROVE  BindingInv'
<1>1. /\ attached[c] = NoSession /\ p \notin bound
      /\ closed' = [closed EXCEPT ![c] = FALSE]
      /\ sched' = [sched EXCEPT ![c] = p]
      /\ bound' = bound \cup {p}
      /\ boundChan' = [boundChan EXCEPT ![p] = c]
      /\ mpc' = "attachJoin" /\ mconn' = c /\ mport' = p /\ attached' = attached
  BY DEF Bind
<1>2. /\ boundChan \in [Sessions -> Conns \cup {NoConn}]
      /\ sched \in [Conns -> Sessions \cup {NoSession}]
      /\ closed \in [Conns -> BOOLEAN]
      /\ attached \in [Conns -> Sessions \cup {NoSession}]
  BY DEF DaemonInv, DaemonTypeOK
<1>3. \A s \in Sessions : boundChan'[s] # NoConn => s \in bound'
  BY <1>1, <1>2 DEF BindingInv
<1>4. \A d \in Conns : sched'[d] # NoSession => boundChan'[sched'[d]] = d
  <2>1. SUFFICES ASSUME NEW d \in Conns, d # c, sched[d] # NoSession
                 PROVE  boundChan'[sched[d]] = d
    BY <1>1, <1>2
  <2>2. boundChan[sched[d]] = d /\ sched[d] \in Sessions
    BY <1>2, <2>1 DEF BindingInv
  <2>3. sched[d] # p
    BY <1>1, <2>2, ConnIsNotNull DEF BindingInv
  <2> QED BY <1>1, <1>2, <2>2, <2>3
<1>5. boundChan'[mport'] = mconn'
  BY <1>1, <1>2
<1>6. OpenChannelIsBound'
  BY <1>1, <1>2 DEF BindingInv, OpenChannelIsBound
<1> QED BY <1>1, <1>3, <1>4, <1>5, <1>6 DEF BindingInv

\* The connection is attached once its worker starts.
LEMMA StartWorkerBinding ==
  ASSUME DaemonInv, BindingInv, StartWorker
  PROVE  BindingInv'
<1>1. PICK c \in Conns, p \in Sessions : c = mconn /\ p = mport
  BY DEF StartWorker, DaemonInv, MainLocals
<1>2. /\ attached' = [attached EXCEPT ![c] = p] /\ mpc = "attachJoin" /\ mpc' = "poll"
      /\ UNCHANGED <<bound, boundChan, sched, closed>>
  BY <1>1 DEF StartWorker, MainReturns, chanVars
<1>3. ~closed[c] => boundChan[p] = c /\ p \in bound
  BY <1>1, <1>2, ConnIsNotNull DEF BindingInv
<1>4. OpenChannelIsBound'
  BY <1>2, <1>3 DEF DaemonInv, DaemonTypeOK, BindingInv, OpenChannelIsBound
<1> QED BY <1>2, <1>4 DEF BindingInv

\* A detach clears the scheduling of the one channel that has its session's.
LEMMA ClearSchedulingBinding ==
  ASSUME NEW c \in Conns \cup {NoConn}, NEW p \in Sessions, DaemonInv, BindingInv,
         ClearScheduling(c, p)
  PROVE  BindingInv'
<1>1. /\ sched' = [d \in Conns |-> IF d \in Closing(c, p) THEN NoSession ELSE sched[d]]
      /\ mpc' = "detachClose" /\ mport' = p
      /\ UNCHANGED <<bound, boundChan, closed, attached>>
  BY DEF ClearScheduling, bindVars
<1>2. \A d \in Conns : sched'[d] # NoSession => sched'[d] = sched[d]
  BY <1>1
<1>3. \A d \in Conns : sched'[d] # p
  <2>1. SUFFICES ASSUME NEW d \in Conns, sched[d] = p PROVE sched'[d] = NoSession
    BY <1>2, NoSessionIsNoId
  <2>2. boundChan[p] = d /\ d # NoConn
    BY <2>1, NoSessionIsNoId, ConnIsNotNull DEF BindingInv
  <2> QED BY <1>1, <2>2 DEF Closing
<1> QED BY <1>1, <1>2, <1>3 DEF BindingInv, OpenChannelIsBound

\* A detach closes the bound channel as it forgets it.
LEMMA DetachCloseBinding ==
  ASSUME DaemonInv, BindingInv, DetachClose
  PROVE  BindingInv'
<1>1. PICK p \in Sessions : p = mport
  BY DEF DetachClose, DaemonInv, MainLocals
<1>2. /\ closed' = [d \in Conns |-> d \in Closing(mconn, p) \/ closed[d]]
      /\ boundChan' = [boundChan EXCEPT ![p] = NoConn]
      /\ mpc = "detachClose" /\ mpc' = "detachJoin" /\ mport' = p
      /\ UNCHANGED <<bound, sched, attached>>
  BY <1>1 DEF DetachClose
<1>3. /\ boundChan \in [Sessions -> Conns \cup {NoConn}]
      /\ sched \in [Conns -> Sessions \cup {NoSession}]
      /\ attached \in [Conns -> Sessions \cup {NoSession}]
  BY DEF DaemonInv, DaemonTypeOK
<1>4. \A s \in Sessions : boundChan'[s] # NoConn => s \in bound'
  BY <1>2, <1>3 DEF BindingInv
<1>5. \A d \in Conns : sched'[d] # NoSession => boundChan'[sched'[d]] = d
  BY <1>1, <1>2, <1>3 DEF BindingInv
<1>6. \A d \in Conns : ~closed'[d] => ~closed[d] /\ d # boundChan[p]
  BY <1>2, ConnIsNotNull, Zenon DEF Closing
<1>7. OpenChannelIsBound'
  BY <1>2, <1>3, <1>6 DEF BindingInv, OpenChannelIsBound
<1> QED BY <1>2, <1>3, <1>4, <1>5, <1>7 DEF BindingInv

\* The end of a detach: the port is free for another console.
LEMMA DetachRetireBinding ==
  ASSUME DaemonInv, BindingInv, DetachRetire
  PROVE  BindingInv'
<1>1. PICK p \in Sessions : p = mport
  BY DEF DetachRetire, DaemonInv, MainLocals
<1>2. /\ bound' = bound \ {p} /\ boundChan[p] = NoConn
      /\ attached' = [c \in Conns |-> IF c = mconn THEN NoSession ELSE attached[c]]
      /\ mpc' \in {"stopDetach", "poll"}
      /\ UNCHANGED <<boundChan, sched, closed>>
  BY <1>1 DEF DetachRetire, MainReturns, chanVars, BindingInv
<1>3. \A d \in Conns : attached'[d] # NoSession => attached'[d] = attached[d]
  BY <1>2
<1>4. OpenChannelIsBound'
  BY <1>2, <1>3, ConnIsNotNull DEF BindingInv, OpenChannelIsBound
<1> QED BY <1>2, <1>4 DEF BindingInv

\* Every step preserves BindingInv.
LEMMA BindingNextInv == DaemonInv /\ BindingInv /\ [DaemonNext]_daemonVars => BindingInv'
<1> SUFFICES ASSUME DaemonInv, BindingInv, [DaemonNext]_daemonVars PROVE BindingInv'
  OBVIOUS
<1>1. ASSUME Reserve PROVE BindingInv'
  BY <1>1, BindingFrame DEF Reserve, bindings, chanVars, bindVars, mainVars
<1>2. CASE Request
  <2>1. CASE \E c \in Conns, p \in Sessions : AttachTo(c, p)
    BY <2>1, BindBinding DEF AttachTo
  <2>2. ASSUME NEW c \in Conns, AttachNew(c) PROVE BindingInv'
    <3>1. PICK p \in Sessions : p = Least(FreePorts)
      BY <2>2, LeastExists, SessionsAssumption, Zenon DEF AttachNew, FreePorts
    <3> QED BY <1>1, <2>2, <3>1, BindBinding DEF AttachNew
  <2>3. CASE \E c \in Conns, chunk \in Chunks : PushInput(c, chunk)
    BY <2>3, BindingFrame DEF PushInput, bindings, bindVars
  <2>4. ASSUME NEW c \in Conns, Detach(c) PROVE BindingInv'
    <3>1. PICK p \in Sessions : p = attached[c]
      BY <2>4 DEF Detach, DaemonInv, DaemonTypeOK
    <3> QED BY <2>4, <3>1, ClearSchedulingBinding DEF Detach
  <2>5. CASE Signal
    BY <2>5, BindingFrame DEF Signal, bindings, chanVars, bindVars, mainVars
  <2> QED BY <1>1, <1>2, <2>1, <2>2, <2>3, <2>4, <2>5 DEF Request
<1>3. CASE MainStep
  <2>1. CASE ResumeReader
    BY <2>1, BindingFrame DEF ResumeReader, MainReturns, bindings, chanVars, bindVars
  <2>2. CASE DetachJoin
    <3>1. mpc = "detachJoin" /\ mpc' = "detachRetire" /\ UNCHANGED <<bindings, mport>>
      BY <2>2 DEF DetachJoin, Join, bindings, chanVars, bindVars
    <3> QED BY <3>1 DEF BindingInv, OpenChannelIsBound, bindings
  <2>3. CASE EndPoll \/ DrainVisit \/ DrainJoin \/ DrainDestroy \/ DrainEnd
    <3>1. UNCHANGED bindings
      BY <2>3
      DEF EndPoll, DrainVisit, DrainJoin, Join, DrainDestroy, DrainEnd, bindings, chanVars, bindVars
    <3>2. mpc' \in {"drain", "drainJoin", "drainDestroy", "poll", "stopDetach"}
      BY <2>3
      DEF EndPoll, SwapPending, DrainVisit, DrainJoin, Join, DrainDestroy, MainReturns, DrainEnd
    <3> QED BY <3>1, <3>2, BindingFrame
  <2>4. CASE \E p \in Sessions : StopDetach(p)
    BY <2>4, ClearSchedulingBinding DEF StopDetach
  <2>5. CASE StopJoin
    BY <2>5, BindingFrame DEF StopJoin, bindings, chanVars
  <2>6. CASE Halt
    BY <2>6 DEF Halt, BindingInv, OpenChannelIsBound
  <2> QED
    BY <1>3, <2>1, <2>2, <2>3, <2>4, <2>5, <2>6, StartWorkerBinding, DetachCloseBinding,
       DetachRetireBinding
    DEF MainStep
<1>4. CASE \E p \in Sessions : WorkerStep(p)
  BY <1>4, WorkerBinding
<1>5. CASE UNCHANGED daemonVars
  BY <1>5, BindingFrame DEF daemonVars, bindings, chanVars, bindVars, mainVars
<1> QED BY <1>2, <1>3, <1>4, <1>5 DEF DaemonNext

\* BindingInv holds in every reachable state.
LEMMA BindingInvariant == DaemonSpec => []BindingInv
<1>1. DaemonInit => BindingInv
  BY DEF DaemonInit, BindingInv, OpenChannelIsBound
<1> QED BY <1>1, BindingNextInv, DaemonInvariant, PTL DEF DaemonSpec

\* A session has at most one live console: whatever attaches, detaches and
\* kills come in whatever order, a connection with an open channel is the one
\* that boundChannels_ holds for its session.
THEOREM OneLiveConsole == DaemonSpec => []OpenChannelIsBound
<1>1. BindingInv => OpenChannelIsBound
  BY DEF BindingInv
<1> QED BY <1>1, BindingInvariant, PTL

-----------------------------------------------------------------------------
(* Custody: who sees to the workers and to the entries of the round robin. *)

\* retireSession takes the session's entry, whether or not it has the token.
LEMMA RetireEntry ==
  ASSUME NEW id \in Sessions, RunnerInv, RetireSession(id)
  PROVE  /\ runStates'[id] = "Absent"
         /\ \A q \in Sessions : runStates'[q] # "Absent" => runStates[q] # "Absent"
<1>1. runStates' = [runStates EXCEPT ![id] = "Absent"]
  BY DEF RetireSession, FreeToken
<1> QED BY <1>1 DEF RunnerInv, RunnerTypeOK

\* The operations a worker calls for itself leave the other entries alone.
LEMMA OwnEntry ==
  ASSUME NEW id \in Sessions, RunnerInv,
         \/ Acquire(id) \/ AcquireAfterInputWake(id)
         \/ YieldWaitingForInput(id) \/ RunExclusiveTail(id)
  PROVE  \A q \in Sessions \ {id} : runStates'[q] = runStates[q]
<1>1. \/ runStates' = runStates
      \/ \E state \in RunState : runStates' = [runStates EXCEPT ![id] = state]
  BY DEF Acquire, AcquireAfterInputWake, YieldWaitingForInput, RunExclusiveTail, Grant, Unwind,
         FreeToken, RunState
<1> QED BY <1>1 DEF RunnerInv, RunnerTypeOK

\* A step of worker p that takes nobody out of custody: p is not a killer with
\* a victim to queue, and gives its own entry back when it ends.
LEMMA WorkerCustody ==
  ASSUME NEW p \in Sessions, NEW x \in WorkerPC \ {"none"}, DaemonInv, CustodyInv,
         ~Joined(p), wpc[p] \notin {"killUnbind", "killQueue"},
         wpc' = [wpc EXCEPT ![p] = x],
         \A k \in Sessions \ {p} : victim'[k] = victim[k],
         \A q \in Sessions \ {p} : runStates'[q] # "Absent" => runStates[q] # "Absent",
         x = "done" => runStates'[p] = "Absent",
         UNCHANGED <<bound, threads, pending, mwork, deferred, mpc, mport>>
  PROVE  CustodyInv'
<1>1. wpc \in [Sessions -> WorkerPC]
  BY DEF DaemonInv, DaemonTypeOK
<1>2. ASSUME NEW q \in Sessions, InCustody(q) PROVE InCustody(q)'
  <2>1. CASE BeingKilled(q)
    BY <1>1, <2>1 DEF InCustody, BeingKilled
  <2>2. CASE q \in bound \/ q \in Queued \/ (mpc = "drainJoin" /\ mport = q)
    BY <2>2 DEF InCustody, Queued
  <2> QED BY <1>2, <2>1, <2>2 DEF InCustody
<1>3. WorkersInCustody'
  <2>1. \A q \in Sessions : Joined(q) => Joined(q)'
    BY <1>1 DEF Joined
  <2> QED BY <1>2, <2>1 DEF CustodyInv, WorkersInCustody
<1>4. EntriesInCustody'
  <2>1. SUFFICES ASSUME NEW q \in Sessions, runStates'[q] # "Absent"
                 PROVE  \/ q \in bound \/ ~Joined(q)'
                        \/ \E k \in Sessions : victim'[k] = q /\ wpc'[k] = "killQueue"
    BY DEF EntriesInCustody
  <2>2. CASE q = p
    BY <1>1, <2>1, <2>2 DEF Joined
  <2>3. CASE q # p
    <3>1. \/ q \in bound \/ ~Joined(q)
          \/ \E k \in Sessions : victim[k] = q /\ wpc[k] = "killQueue"
      BY <2>1, <2>3 DEF CustodyInv, EntriesInCustody
    <3> QED BY <1>1, <2>3, <3>1 DEF Joined
  <2> QED BY <2>2, <2>3
<1>5. DrainsAreComplete'
  BY DEF CustodyInv, DrainsAreComplete
<1>6. StopLetsGo'
  BY DEF CustodyInv, StopLetsGo, Joined
<1> QED BY <1>3, <1>4, <1>5, <1>6 DEF CustodyInv

\* The killer that unbinds its victim is then the one to queue it.
LEMMA KillUnbindCustody ==
  ASSUME NEW p \in Sessions, DaemonInv, CustodyInv, KillUnbind(p)
  PROVE  CustodyInv'
<1>1. PICK v \in Sessions : v = victim[p]
  BY DEF KillUnbind, WorkerLocals, DaemonInv, DaemonTypeOK
<1>2. /\ wpc[p] = "killUnbind" /\ wpc' = [wpc EXCEPT ![p] = "killQueue"]
      /\ bound' = bound \ {v}
      /\ UNCHANGED <<runStates, threads, pending, victim, mwork, deferred, mpc, mport>>
  BY <1>1 DEF KillUnbind, Goto, runnerVars, mainVars
<1>3. wpc \in [Sessions -> WorkerPC]
  BY DEF DaemonInv, DaemonTypeOK
<1>4. ASSUME NEW q \in Sessions, InCustody(q) PROVE InCustody(q)'
  <2>1. BeingKilled(v)'
    BY <1>1, <1>2, <1>3 DEF BeingKilled
  <2>2. BeingKilled(q) => BeingKilled(q)'
    BY <1>2, <1>3 DEF BeingKilled
  <2>3. Queued' = Queued
    BY <1>2 DEF Queued
  <2> QED BY <1>2, <1>4, <2>1, <2>2, <2>3 DEF InCustody
<1>5. \A q \in Sessions : Joined(q)' <=> Joined(q)
  BY <1>2, <1>3 DEF Joined
<1>6. WorkersInCustody'
  BY <1>2, <1>4, <1>5 DEF CustodyInv, WorkersInCustody
<1>7. EntriesInCustody'
  BY <1>1, <1>2, <1>3, <1>5 DEF CustodyInv, EntriesInCustody
<1>8. DrainsAreComplete' /\ StopLetsGo'
  BY <1>2, <1>3 DEF CustodyInv, DrainsAreComplete, StopLetsGo
<1> QED BY <1>6, <1>7, <1>8 DEF CustodyInv

\* A port that is queued, or put back, joins those that are.
LEMMA RangeAppend ==
  ASSUME NEW S, NEW s \in Seq(S), NEW e \in S
  PROVE  Range(Append(s, e)) = Range(s) \cup {e}
<1>1. /\ Append(s, e) \in Seq(S) /\ Len(Append(s, e)) = Len(s) + 1 /\ Len(s) \in Nat
      /\ \A i \in 1..Len(s) : Append(s, e)[i] = s[i]
      /\ Append(s, e)[Len(s) + 1] = e
  OBVIOUS
<1>2. DOMAIN Append(s, e) = 1..(Len(s) + 1) /\ DOMAIN s = 1..Len(s)
  OBVIOUS
<1>3. 1..(Len(s) + 1) = 1..Len(s) \cup {Len(s) + 1}
  BY <1>1
<1> QED BY <1>1, <1>2, <1>3 DEF Range

\* The first of the queued ports and the rest of them.
LEMMA RangeTail ==
  ASSUME NEW S, NEW s \in Seq(S), s # <<>>
  PROVE  Range(s) = {Head(s)} \cup Range(Tail(s))
<1>1. /\ Tail(s) \in Seq(S) /\ Len(Tail(s)) = Len(s) - 1 /\ Len(s) \in Nat /\ Len(s) > 0
      /\ \A i \in 1..(Len(s) - 1) : Tail(s)[i] = s[i + 1]
      /\ Head(s) = s[1]
  OBVIOUS
<1>2. DOMAIN Tail(s) = 1..(Len(s) - 1) /\ DOMAIN s = 1..Len(s)
  BY <1>1
<1>3. ASSUME NEW e PROVE e \in Range(s) <=> e \in {Head(s)} \cup Range(Tail(s))
  <2>1. ASSUME NEW i \in 1..Len(s), e = s[i] PROVE e = Head(s) \/ e \in Range(Tail(s))
    <3>1. CASE i = 1
      BY <1>1, <2>1, <3>1
    <3>2. CASE i # 1
      <4>1. i - 1 \in 1..(Len(s) - 1) /\ (i - 1) + 1 = i
        BY <1>1, <3>2
      <4>2. Tail(s)[i - 1] = e
        BY <1>1, <2>1, <4>1
      <4> QED BY <1>2, <4>1, <4>2, Zenon DEF Range
    <3> QED BY <3>1, <3>2
  <2>2. ASSUME NEW i \in 1..(Len(s) - 1), e = Tail(s)[i] PROVE e \in Range(s)
    <3>1. i + 1 \in 1..Len(s) /\ e = s[i + 1]
      BY <1>1, <2>2
    <3> QED BY <1>2, <3>1 DEF Range
  <2>3. Head(s) \in Range(s)
    BY <1>1, <1>2 DEF Range
  <2> QED BY <1>2, <2>1, <2>2, <2>3 DEF Range
<1> QED BY <1>3

\* The killer hands its victim to the main thread.
LEMMA KillQueueCustody ==
  ASSUME NEW p \in Sessions, DaemonInv, CustodyInv, KillQueue(p)
  PROVE  CustodyInv'
<1>1. PICK v \in Sessions : v = victim[p]
  BY DEF KillQueue, WorkerLocals, DaemonInv, DaemonTypeOK
<1>2. /\ wpc[p] = "killQueue" /\ wpc' = [wpc EXCEPT ![p] = "read"]
      /\ RetireSession(v) /\ pending' = Append(pending, v)
      /\ victim' = [victim EXCEPT ![p] = NoSession]
      /\ UNCHANGED <<bound, threads, mwork, deferred, mpc, mport>>
  BY <1>1 DEF KillQueue, Goto, bindVars, mainVars
<1>3. /\ wpc \in [Sessions -> WorkerPC] /\ victim \in [Sessions -> Sessions \cup {NoSession}]
      /\ pending \in Seq(Sessions) /\ RunnerInv
  BY DEF DaemonInv, DaemonTypeOK
<1>4. Queued' = Queued \cup {v}
  BY <1>2, <1>3, RangeAppend DEF Queued
<1>5. /\ runStates'[v] = "Absent"
      /\ \A q \in Sessions : runStates'[q] # "Absent" => runStates[q] # "Absent"
  BY <1>2, <1>3, RetireEntry
<1>6. ASSUME NEW q \in Sessions, InCustody(q) PROVE InCustody(q)'
  <2>1. CASE q = v
    BY <1>4, <2>1 DEF InCustody
  <2>2. CASE q # v
    <3>1. BeingKilled(q) => BeingKilled(q)'
      BY <1>1, <1>2, <1>3, <2>2 DEF BeingKilled
    <3> QED BY <1>2, <1>4, <1>6, <3>1 DEF InCustody
  <2> QED BY <2>1, <2>2
<1>7. \A q \in Sessions : Joined(q)' <=> Joined(q)
  BY <1>2, <1>3 DEF Joined
<1>8. WorkersInCustody'
  BY <1>2, <1>6, <1>7 DEF CustodyInv, WorkersInCustody
<1>9. EntriesInCustody'
  <2>1. SUFFICES ASSUME NEW q \in Sessions, runStates'[q] # "Absent"
                 PROVE  \/ q \in bound \/ ~Joined(q)
                        \/ \E k \in Sessions : victim'[k] = q /\ wpc'[k] = "killQueue"
    BY <1>2, <1>7 DEF EntriesInCustody
  <2>2. \/ q \in bound \/ ~Joined(q)
        \/ \E k \in Sessions : victim[k] = q /\ wpc[k] = "killQueue"
    BY <1>5, <2>1 DEF CustodyInv, EntriesInCustody
  <2>3. q # v
    BY <1>5, <2>1
  <2> QED BY <1>1, <1>2, <1>3, <2>2, <2>3
<1>10. DrainsAreComplete' /\ StopLetsGo'
  BY <1>2, <1>3 DEF CustodyInv, DrainsAreComplete, StopLetsGo
<1> QED BY <1>8, <1>9, <1>10 DEF CustodyInv

\* Every step of a worker preserves CustodyInv.
LEMMA WorkerStepCustody ==
  ASSUME NEW p \in Sessions, DaemonInv, CustodyInv, WorkerStep(p)
  PROVE  CustodyInv'
<1>0. RunnerInv /\ victim \in [Sessions -> Sessions \cup {NoSession}]
  BY DEF DaemonInv, DaemonTypeOK
<1>1. ASSUME NEW x \in WorkerPC \ {"none", "done"}, wpc' = [wpc EXCEPT ![p] = x],
             wpc[p] \notin {"none", "done", "killUnbind", "killQueue"},
             \A k \in Sessions \ {p} : victim'[k] = victim[k],
             \A q \in Sessions \ {p} : runStates'[q] # "Absent" => runStates[q] # "Absent",
             UNCHANGED <<bound, threads, pending, mainVars>>
      PROVE  CustodyInv'
  BY <1>1, WorkerCustody, Zenon DEF Joined, mainVars
<1>2. CASE Begin(p) \/ Read(p) \/ Blocked(p) \/ WakeUp(p) \/ Pop(p) \/ LogonLine(p)
  <2>1. /\ UNCHANGED <<runStates, bound, threads, pending, victim, mainVars>>
        /\ wpc[p] \notin {"none", "done", "killUnbind", "killQueue"}
    BY <1>2, Zenon DEF Begin, Read, Blocked, WakeUp, Pop, LogonLine, runnerVars, bindVars
  <2>2. PICK x \in WorkerPC \ {"none", "done"} : wpc' = [wpc EXCEPT ![p] = x]
    BY <1>2, Zenon DEF Begin, Read, Blocked, WakeUp, Pop, LogonLine, ReadFails, Consume, EndOfInput,
                LeaveExclusive, Goto, WorkerPC
  <2> QED BY <1>1, <2>1, <2>2, Zenon
<1>3. ASSUME NEW command \in TclCommands, TclLine(p, command) PROVE CustodyInv'
  <2>1. /\ UNCHANGED <<runStates, bound, threads, pending, victim, mainVars>>
        /\ wpc[p] = "exec"
    BY <1>3 DEF TclLine, runnerVars, bindVars
  <2>2. PICK x \in {"read", "tail"} : wpc' = [wpc EXCEPT ![p] = x]
    BY <1>3 DEF TclLine, LeaveExclusive, Goto
  <2> QED BY <1>1, <2>1, <2>2, Zenon DEF WorkerPC
<1>4. ASSUME NEW q \in Sessions, KillLine(p, q) PROVE CustodyInv'
  <2>1. /\ UNCHANGED <<runStates, bound, threads, pending, mainVars>>
        /\ wpc[p] = "exec" /\ victim' = [victim EXCEPT ![p] = q]
    BY <1>4 DEF KillLine, runnerVars, bindVars
  <2>2. PICK x \in {"killUnbind", "killQueue", "killNow"} : wpc' = [wpc EXCEPT ![p] = x]
    BY <1>4, Zenon DEF KillLine, Goto
  <2> QED BY <1>0, <1>1, <2>1, <2>2, Zenon DEF WorkerPC
<1>5. CASE Enter(p) \/ Rejoin(p) \/ YieldToken(p) \/ EndExclusive(p)
  <2>1. /\ UNCHANGED <<bound, threads, pending, victim, mainVars>>
        /\ wpc[p] \notin {"none", "done", "killUnbind", "killQueue"}
    BY <1>5, Zenon DEF Enter, Rejoin, YieldToken, EndExclusive, bindVars
  <2>2. PICK x \in WorkerPC \ {"none", "done"} : wpc' = [wpc EXCEPT ![p] = x]
    BY <1>5 DEF Enter, Rejoin, YieldToken, EndExclusive, LeaveExclusive, Goto, WorkerPC,
                DaemonInv, DaemonTypeOK
  <2>3. \A q \in Sessions \ {p} : runStates'[q] = runStates[q]
    BY <1>0, <1>5, OwnEntry, Zenon DEF Enter, Rejoin, YieldToken, EndExclusive, runnerVars
  <2> QED BY <1>1, <2>1, <2>2, <2>3, Zenon
<1>6. CASE KillNow(p)
  <2>1. /\ UNCHANGED <<bound, threads, pending, mainVars>>
        /\ wpc[p] = "killNow" /\ wpc' = [wpc EXCEPT ![p] = "read"]
        /\ victim' = [victim EXCEPT ![p] = NoSession]
    BY <1>6 DEF KillNow, Goto
  <2>2. victim[p] \in Sessions
    BY <1>6 DEF KillNow, WorkerLocals, DaemonInv, DaemonTypeOK
  <2>3. \A q \in Sessions : runStates'[q] # "Absent" => runStates[q] # "Absent"
    BY <1>0, <1>6, <2>2, RetireEntry, Zenon DEF KillNow
  <2> QED BY <1>0, <1>1, <2>1, <2>3, Zenon DEF WorkerPC
<1>7. CASE Exit(p)
  <2>1. /\ UNCHANGED <<bound, threads, pending, victim, mwork, deferred, mpc, mport>>
        /\ wpc[p] = "exit" /\ wpc' = [wpc EXCEPT ![p] = "done"]
    BY <1>7 DEF Exit, Goto, bindVars, mainVars
  <2>2. /\ runStates'[p] = "Absent"
        /\ \A q \in Sessions : runStates'[q] # "Absent" => runStates[q] # "Absent"
    BY <1>0, <1>7, RetireEntry, Zenon DEF Exit
  <2> QED BY <2>1, <2>2, WorkerCustody, Zenon DEF WorkerPC, Joined
<1> QED
  BY <1>2, <1>3, <1>4, <1>5, <1>6, <1>7, KillUnbindCustody, KillQueueCustody DEF WorkerStep

\* A step of the main thread outside its drains and joins.
LEMMA MainCustody ==
  ASSUME CustodyInv,
         mpc \notin {"drain", "drainJoin", "drainDestroy"},
         mpc' \notin {"attachJoin", "stopJoin", "halt"},
         \A q \in Sessions :
            runStates'[q] # "Absent" => runStates[q] # "Absent" \/ q \in bound,
         UNCHANGED <<bound, pending, mwork, deferred, wpc, victim>>
  PROVE  CustodyInv'
<1>1. \A q \in Sessions : InCustody(q) => InCustody(q)'
  BY DEF InCustody, Queued, BeingKilled
<1>2. WorkersInCustody'
  BY <1>1 DEF CustodyInv, WorkersInCustody, Joined
<1>3. EntriesInCustody'
  BY DEF CustodyInv, EntriesInCustody, Joined
<1>4. DrainsAreComplete' /\ StopLetsGo'
  BY DEF CustodyInv, DrainsAreComplete, StopLetsGo
<1> QED BY <1>2, <1>3, <1>4 DEF CustodyInv

\* A session whose console is being attached is bound first.
LEMMA BindCustody ==
  ASSUME NEW c \in Conns, NEW p \in Sessions, CustodyInv, Bind(c, p)
  PROVE  CustodyInv'
<1>1. /\ mpc = "poll" /\ mpc' = "attachJoin" /\ mport' = p /\ bound' = bound \cup {p}
      /\ UNCHANGED <<runStates, pending, mwork, deferred, wpc, victim>>
  BY DEF Bind, runnerVars, workerVars
<1>2. \A q \in Sessions : InCustody(q) => InCustody(q)'
  BY <1>1 DEF InCustody, Queued, BeingKilled
<1>3. InCustody(p)'
  BY <1>1 DEF InCustody
<1>4. WorkersInCustody'
  BY <1>1, <1>2, <1>3 DEF CustodyInv, WorkersInCustody, Joined
<1>5. EntriesInCustody'
  BY <1>1 DEF CustodyInv, EntriesInCustody, Joined
<1>6. DrainsAreComplete' /\ StopLetsGo'
  BY <1>1 DEF CustodyInv, DrainsAreComplete, StopLetsGo
<1> QED BY <1>4, <1>5, <1>6 DEF CustodyInv

\* The new worker is in the custody its session already had, bound or, by
\* then, condemned.
LEMMA StartWorkerCustody ==
  ASSUME DaemonInv, CustodyInv, StartWorker
  PROVE  CustodyInv'
<1>1. PICK p \in Sessions : p = mport
  BY DEF StartWorker, DaemonInv, MainLocals
<1>2. /\ mpc = "attachJoin" /\ mpc' = "poll" /\ Joined(p)
      /\ wpc' = [wpc EXCEPT ![p] = "begin"]
      /\ UNCHANGED <<runStates, bound, pending, mwork, deferred, victim>>
  BY <1>1 DEF StartWorker, MainReturns, runnerVars
<1>3. wpc \in [Sessions -> WorkerPC]
  BY DEF DaemonInv, DaemonTypeOK
<1>4. \A q \in Sessions : InCustody(q) => InCustody(q)'
  <2>1. \A q \in Sessions : BeingKilled(q) => BeingKilled(q)'
    BY <1>2, <1>3 DEF BeingKilled, Joined
  <2> QED BY <1>2, <2>1 DEF InCustody, Queued
<1>5. WorkersInCustody'
  <2>1. \A q \in Sessions : ~Joined(q)' => q = p \/ ~Joined(q)
    BY <1>2, <1>3 DEF Joined
  <2> QED BY <1>1, <1>2, <1>4, <2>1 DEF CustodyInv, WorkersInCustody
<1>6. EntriesInCustody'
  BY <1>2, <1>3 DEF CustodyInv, EntriesInCustody, Joined
<1>7. DrainsAreComplete' /\ StopLetsGo'
  BY <1>2 DEF CustodyInv, DrainsAreComplete, StopLetsGo
<1> QED BY <1>5, <1>6, <1>7 DEF CustodyInv

\* A worker that has been joined needs no keeper.
LEMMA JoinCustody ==
  ASSUME NEW here \in {"detachJoin", "drainJoin"}, NEW next \in {"detachRetire", "drainDestroy"},
         here = "detachJoin" <=> next = "detachRetire",
         DaemonInv, CustodyInv, Join(here, next)
  PROVE  CustodyInv'
<1>1. PICK p \in Sessions : p = mport
  BY DEF Join, DaemonInv, MainLocals
<1>2. /\ mpc = here /\ mpc' = next /\ Joined(p)
      /\ wpc' = [wpc EXCEPT ![p] = "none"]
      /\ UNCHANGED <<runStates, bound, pending, mwork, deferred, victim, mport>>
  BY <1>1 DEF Join, runnerVars, bindVars
<1>3. wpc \in [Sessions -> WorkerPC]
  BY DEF DaemonInv, DaemonTypeOK
<1>4. \A q \in Sessions : InCustody(q) => InCustody(q)' \/ q = p
  <2>1. \A q \in Sessions : BeingKilled(q) => BeingKilled(q)'
    BY <1>2, <1>3 DEF BeingKilled, Joined
  <2> QED BY <1>1, <1>2, <2>1 DEF InCustody, Queued
<1>5. \A q \in Sessions : Joined(q)' <=> Joined(q)
  BY <1>2, <1>3 DEF Joined
<1>6. WorkersInCustody'
  BY <1>2, <1>4, <1>5 DEF CustodyInv, WorkersInCustody
<1>7. EntriesInCustody'
  BY <1>2, <1>3, <1>5 DEF CustodyInv, EntriesInCustody, Joined
<1>8. DrainsAreComplete' /\ StopLetsGo'
  BY <1>2 DEF CustodyInv, DrainsAreComplete, StopLetsGo
<1> QED BY <1>6, <1>7, <1>8 DEF CustodyInv

\* The end of a detach: the worker has been joined and its entry goes.
LEMMA DetachRetireCustody ==
  ASSUME DaemonInv, CustodyInv, DetachRetire
  PROVE  CustodyInv'
<1>1. PICK p \in Sessions : p = mport
  BY DEF DetachRetire, DaemonInv, MainLocals
<1>2. /\ mpc = "detachRetire" /\ wpc[p] = "none" /\ mpc' \in {"stopDetach", "poll"}
      /\ RetireSession(p) /\ bound' = bound \ {p}
      /\ UNCHANGED <<pending, mwork, deferred, wpc, victim>>
  BY <1>1 DEF DetachRetire, MainReturns, workerVars, DaemonInv, MainLocals
<1>3. /\ runStates'[p] = "Absent"
      /\ \A q \in Sessions : runStates'[q] # "Absent" => runStates[q] # "Absent"
  BY <1>2, RetireEntry, Zenon DEF DaemonInv, DaemonTypeOK
<1>4. \A q \in Sessions : InCustody(q) => InCustody(q)' \/ q = p
  BY <1>2 DEF InCustody, Queued, BeingKilled
<1>5. WorkersInCustody'
  BY <1>2, <1>4 DEF CustodyInv, WorkersInCustody, Joined
<1>6. EntriesInCustody'
  BY <1>2, <1>3 DEF CustodyInv, EntriesInCustody, Joined
<1>7. DrainsAreComplete' /\ StopLetsGo'
  BY <1>2 DEF CustodyInv, DrainsAreComplete, StopLetsGo
<1> QED BY <1>5, <1>6, <1>7 DEF CustodyInv

\* The drain passes its ports on: those it visits are joined or deferred, and
\* those it deferred go back to the queue.
LEMMA DrainCustody ==
  ASSUME DaemonInv, CustodyInv, EndPoll \/ DrainVisit \/ DrainEnd
  PROVE  CustodyInv'
<1>1. /\ UNCHANGED <<runStates, bound, wpc, victim>>
      /\ mpc \notin {"attachJoin", "drainJoin"}
      /\ mpc' \notin {"attachJoin", "stopJoin", "halt"}
  BY DEF EndPoll, SwapPending, DrainVisit, DrainEnd, runnerVars, bindVars, workerVars
<1>2. /\ pending \in Seq(Sessions) /\ mwork \in Seq(Sessions) /\ deferred \in Seq(Sessions)
  BY DEF DaemonInv, DaemonTypeOK
<1>3. Range(<<>>) = {}
  BY DEF Range
<1>4. /\ Queued \subseteq Queued' \cup (IF mpc' = "drainJoin" THEN {mport'} ELSE {})
      /\ DrainsAreComplete'
  <2>1. CASE EndPoll
    <3>1. /\ mpc = "poll" /\ mpc' = "drain" /\ mwork' = pending /\ pending' = <<>>
          /\ deferred' = <<>>
      BY <2>1 DEF EndPoll, SwapPending
    <3>2. mwork = <<>> /\ deferred = <<>>
      BY <3>1 DEF CustodyInv, DrainsAreComplete
    <3> QED BY <1>3, <3>1, <3>2 DEF Queued, DrainsAreComplete
  <2>2. CASE DrainVisit
    <3>1. /\ mpc = "drain" /\ mwork # <<>> /\ mwork' = Tail(mwork) /\ pending' = pending
          /\ \/ deferred' = Append(deferred, Head(mwork)) /\ mpc' = mpc
             \/ deferred' = deferred /\ mpc' = "drainJoin" /\ mport' = Head(mwork)
      BY <2>2 DEF DrainVisit
    <3>2. Head(mwork) \in Sessions
      BY <1>2, <3>1
    <3>3. Range(mwork) = {Head(mwork)} \cup Range(mwork')
      BY <1>2, <3>1, RangeTail
    <3>4. Range(Append(deferred, Head(mwork))) = Range(deferred) \cup {Head(mwork)}
      BY <1>2, <3>2, RangeAppend
    <3> QED BY <3>1, <3>3, <3>4, Zenon DEF Queued, DrainsAreComplete
  <2>3. CASE DrainEnd
    <3>1. /\ mpc = "drain" /\ mwork = <<>> /\ deferred' = <<>>
          /\ \/ mwork' = pending \o deferred /\ pending' = <<>> /\ mpc' = "drain"
             \/ pending' = pending \o deferred /\ mwork' = mwork /\ mpc' # "drainJoin"
      BY <2>3 DEF DrainEnd
    <3>2. Range(pending \o deferred) = Range(pending) \cup Range(deferred)
      BY <1>2, RangeConcatenation
    <3> QED BY <1>3, <3>1, <3>2, Zenon DEF Queued, DrainsAreComplete
  <2> QED BY <2>1, <2>2, <2>3
<1>5. \A q \in Sessions : InCustody(q) => InCustody(q)'
  BY <1>1, <1>4 DEF InCustody, BeingKilled
<1>6. WorkersInCustody' /\ EntriesInCustody'
  BY <1>1, <1>5, Zenon DEF CustodyInv, WorkersInCustody, EntriesInCustody, Joined
<1>7. StopLetsGo'
  BY <1>1 DEF StopLetsGo
<1> QED BY <1>4, <1>6, <1>7 DEF CustodyInv

\* A session that is destroyed has no worker, and loses its entry.
LEMMA DrainDestroyCustody ==
  ASSUME DaemonInv, CustodyInv, DrainDestroy
  PROVE  CustodyInv'
<1>1. PICK p \in Sessions : p = mport
  BY DEF DrainDestroy, DaemonInv, MainLocals
<1>2. /\ mpc = "drainDestroy" /\ mpc' = "drain" /\ RetireSession(p)
      /\ UNCHANGED <<bound, pending, mwork, deferred, wpc, victim>>
  BY <1>1 DEF DrainDestroy, MainReturns, workerVars
<1>3. \A q \in Sessions : runStates'[q] # "Absent" => runStates[q] # "Absent"
  BY <1>2, RetireEntry, Zenon DEF DaemonInv, DaemonTypeOK
<1>4. \A q \in Sessions : InCustody(q) => InCustody(q)'
  BY <1>2 DEF InCustody, Queued, BeingKilled
<1>5. WorkersInCustody'
  BY <1>2, <1>4 DEF CustodyInv, WorkersInCustody, Joined
<1>6. EntriesInCustody'
  BY <1>2, <1>3, <1>4 DEF CustodyInv, EntriesInCustody, Joined
<1>7. DrainsAreComplete' /\ StopLetsGo'
  BY <1>2 DEF DrainsAreComplete, StopLetsGo
<1> QED BY <1>5, <1>6, <1>7 DEF CustodyInv

\* The shutdown joins what workers are left and destroys all sessions.
LEMMA StopCustody ==
  ASSUME CustodyInv, StopJoin \/ Halt
  PROVE  CustodyInv'
<1>1. CASE StopJoin
  <2>1. /\ mpc = "stopDetach" /\ mpc' = "stopJoin" /\ bound = {} /\ threads' = {}
        /\ UNCHANGED <<runStates, bound, pending, mwork, deferred, wpc, victim>>
    BY <1>1 DEF StopJoin, runnerVars, workerVars
  <2>2. \A q \in Sessions : InCustody(q) => InCustody(q)'
    BY <2>1 DEF InCustody, Queued, BeingKilled
  <2>3. WorkersInCustody' /\ EntriesInCustody'
    BY <2>1, <2>2 DEF CustodyInv, WorkersInCustody, EntriesInCustody, Joined
  <2>4. DrainsAreComplete' /\ StopLetsGo'
    BY <2>1 DEF CustodyInv, DrainsAreComplete, StopLetsGo
  <2> QED BY <2>3, <2>4 DEF CustodyInv
<1>2. CASE Halt
  <2>1. /\ mpc = "stopJoin" /\ mpc' = "halt" /\ table' = {}
        /\ \A q \in Sessions : Joined(q)
        /\ wpc' = [q \in Sessions |-> "none"]
        /\ UNCHANGED <<runStates, bound, threads, mwork, deferred, victim>>
    BY <1>2 DEF Halt, runnerVars
  <2>2. WorkersInCustody'
    BY <2>1 DEF WorkersInCustody, Joined
  <2>3. EntriesInCustody'
    BY <2>1 DEF CustodyInv, EntriesInCustody, Joined
  <2>4. DrainsAreComplete' /\ StopLetsGo'
    BY <2>1 DEF CustodyInv, DrainsAreComplete, StopLetsGo
  <2> QED BY <2>2, <2>3, <2>4 DEF CustodyInv
<1> QED BY <1>1, <1>2

\* Input resumes only the session of a bound channel.
LEMMA ResumeReaderCustody ==
  ASSUME DaemonInv, BindingInv, CustodyInv, ResumeReader
  PROVE  CustodyInv'
<1>1. PICK id \in Sessions \cup {NoSession} : id = sched[mconn]
  BY DEF ResumeReader, DaemonInv, DaemonTypeOK, MainLocals
<1>2. id # NoSession => id \in bound
  BY <1>1, ConnIsNotNull, Zenon DEF ResumeReader, DaemonInv, MainLocals, BindingInv
<1>3. runStates' = runStates \/ (id # NoSession /\ runStates' = [runStates EXCEPT ![id] = "Runnable"])
  BY <1>1 DEF ResumeReader, Resume, runnerVars
<1>4. \A q \in Sessions : runStates'[q] # "Absent" => runStates[q] # "Absent" \/ q \in bound
  BY <1>2, <1>3 DEF DaemonInv, DaemonTypeOK, RunnerInv, RunnerTypeOK
<1>5. /\ mpc = "resume" /\ mpc' = "poll"
      /\ UNCHANGED <<bound, pending, mwork, deferred, wpc, victim>>
  BY DEF ResumeReader, MainReturns, bindVars, workerVars
<1> QED BY <1>4, <1>5, MainCustody

\* Every step preserves CustodyInv.
LEMMA CustodyNextInv ==
  DaemonInv /\ BindingInv /\ CustodyInv /\ [DaemonNext]_daemonVars => CustodyInv'
<1> SUFFICES ASSUME DaemonInv, BindingInv, CustodyInv, [DaemonNext]_daemonVars
             PROVE  CustodyInv'
  OBVIOUS
<1>1. ASSUME Reserve PROVE CustodyInv'
  <2>1. /\ mpc = "poll" /\ mpc' = "poll"
        /\ UNCHANGED <<runStates, bound, pending, mwork, deferred, wpc, victim>>
    BY <1>1 DEF Reserve, runnerVars, bindVars, workerVars, mainVars
  <2> QED BY <2>1, MainCustody
<1>2. ASSUME NEW c, NEW p, mpc \in {"poll", "stopDetach"}, ClearScheduling(c, p)
      PROVE  CustodyInv'
  <2>1. /\ mpc' = "detachClose"
        /\ UNCHANGED <<runStates, bound, pending, mwork, deferred, wpc, victim>>
    BY <1>2 DEF ClearScheduling, runnerVars, bindVars, workerVars
  <2> QED BY <1>2, <2>1, MainCustody
<1>3. CASE UNCHANGED daemonVars \/ Signal
  <2>1. /\ UNCHANGED <<runStates, bound, threads, table, pending, mwork, deferred, wpc, victim>>
        /\ UNCHANGED <<mpc, mport>>
    BY <1>3 DEF daemonVars, Signal, runnerVars, hostVars, bindVars, workerVars, mainVars
  <2>2. \A q \in Sessions : InCustody(q) => InCustody(q)'
    BY <2>1, Zenon DEF InCustody, Queued, BeingKilled
  <2>3. WorkersInCustody' /\ EntriesInCustody'
    BY <2>1, <2>2 DEF CustodyInv, WorkersInCustody, EntriesInCustody, Joined
  <2>4. DrainsAreComplete' /\ StopLetsGo'
    BY <2>1 DEF CustodyInv, DrainsAreComplete, StopLetsGo
  <2> QED BY <2>3, <2>4 DEF CustodyInv
<1>4. CASE Request
  <2>1. CASE \E c \in Conns, p \in Sessions : AttachTo(c, p)
    BY <2>1, BindCustody DEF AttachTo
  <2>2. ASSUME NEW c \in Conns, AttachNew(c) PROVE CustodyInv'
    <3>1. PICK p \in Sessions : p = Least(FreePorts)
      BY <2>2, LeastExists, SessionsAssumption, Zenon DEF AttachNew, FreePorts
    <3> QED BY <1>1, <2>2, <3>1, BindCustody DEF AttachNew
  <2>3. ASSUME NEW c \in Conns, NEW chunk \in Chunks, PushInput(c, chunk) PROVE CustodyInv'
    <3>1. /\ mpc = "poll" /\ mpc' = "resume"
          /\ UNCHANGED <<runStates, bound, pending, mwork, deferred, wpc, victim>>
      BY <2>3 DEF PushInput, runnerVars, bindVars, workerVars
    <3> QED BY <3>1, MainCustody
  <2>4. CASE \E c \in Conns : Detach(c)
    BY <1>2, <2>4 DEF Detach
  <2> QED BY <1>1, <1>3, <1>4, <2>1, <2>2, <2>3, <2>4 DEF Request
<1>5. CASE MainStep
  <2>1. CASE DetachClose
    <3>1. /\ mpc = "detachClose" /\ mpc' = "detachJoin"
          /\ UNCHANGED <<runStates, bound, pending, mwork, deferred, wpc, victim>>
      BY <2>1 DEF DetachClose, runnerVars, workerVars
    <3> QED BY <3>1, MainCustody
  <2>2. CASE DetachJoin \/ DrainJoin
    BY <2>2, JoinCustody DEF DetachJoin, DrainJoin
  <2>3. CASE \E p \in Sessions : StopDetach(p)
    BY <1>2, <2>3 DEF StopDetach
  <2> QED
    BY <1>5, <2>1, <2>2, <2>3, StartWorkerCustody, ResumeReaderCustody, DetachRetireCustody,
       DrainCustody, DrainDestroyCustody, StopCustody
    DEF MainStep
<1>6. CASE \E p \in Sessions : WorkerStep(p)
  BY <1>6, WorkerStepCustody
<1> QED BY <1>3, <1>4, <1>5, <1>6 DEF DaemonNext

\* CustodyInv holds in every reachable state.
LEMMA CustodyInvariant == DaemonSpec => []CustodyInv
<1>1. DaemonInit => CustodyInv
  BY DEF DaemonInit, RunnerInit, CustodyInv, WorkersInCustody, EntriesInCustody,
         DrainsAreComplete, StopLetsGo, Joined
<1> QED BY <1>1, CustodyNextInv, BindingInvariant, DaemonInvariant, PTL DEF DaemonSpec

\* A session whose worker has been joined does not hold the token.
LEMMA JoinedHasNoToken ==
  ASSUME DaemonInv, NEW p \in Sessions, Joined(p)
  PROVE  active # p
  BY NoSessionIsNoId DEF DaemonInv, HolderIsAtWork, Interpreting, WorkPC, Joined

\* Detaching is complete, for any number of sessions, consoles and kills: when
\* the main thread polls, a session without a console and not being killed has
\* no worker, no token and no entry in the round robin.
THEOREM DetachIsComplete == DaemonSpec => []DetachedIsIdle
<1>1. DaemonInv /\ CustodyInv => DetachedIsIdle
  <2> SUFFICES ASSUME DaemonInv, CustodyInv, mpc = "poll",
                      NEW p \in Sessions, p \notin bound, p \notin Condemned
               PROVE  Joined(p) /\ active # p /\ runStates[p] = "Absent"
    BY Zenon DEF DetachedIsIdle
  <2>1. p \notin Queued /\ \A k \in Sessions : victim[k] # p
    BY DEF Condemned
  <2>2. Joined(p)
    BY <2>1 DEF CustodyInv, WorkersInCustody, InCustody, BeingKilled
  <2>3. runStates[p] = "Absent"
    BY <2>1, <2>2 DEF CustodyInv, EntriesInCustody
  <2> QED BY <2>2, <2>3, JoinedHasNoToken
<1> QED BY <1>1, CustodyInvariant, DaemonInvariant, PTL

\* The shutdown leaves no worker, session, binding, entry or token behind,
\* whatever was going on when it began.
THEOREM ShutdownIsComplete == DaemonSpec => []HaltIsClean
<1>1. DaemonInv /\ BindingInv /\ CustodyInv => HaltIsClean
  <2> SUFFICES ASSUME DaemonInv, BindingInv, CustodyInv, mpc = "halt"
               PROVE  /\ table = {} /\ bound = {} /\ threads = {}
                      /\ active = NoSession
                      /\ \A p \in Sessions : /\ wpc[p] = "none"
                                             /\ runStates[p] = "Absent"
                                             /\ boundChan[p] = NoConn
    BY DEF HaltIsClean
  <2>1. /\ table = {} /\ bound = {} /\ threads = {}
        /\ \A p \in Sessions : wpc[p] = "none"
    BY DEF CustodyInv, StopLetsGo
  <2>2. active = NoSession
    BY <2>1, JoinedHasNoToken, Zenon DEF Joined, DaemonInv, DaemonTypeOK, RunnerInv, RunnerTypeOK
  <2>3. \A p \in Sessions : runStates[p] = "Absent"
    BY <2>1, Zenon DEF CustodyInv, EntriesInCustody, Joined
  <2>4. \A p \in Sessions : boundChan[p] = NoConn
    BY <2>1, Zenon DEF BindingInv
  <2> QED BY <2>1, <2>2, <2>3, <2>4
<1> QED BY <1>1, CustodyInvariant, BindingInvariant, DaemonInvariant, PTL
=============================================================================
