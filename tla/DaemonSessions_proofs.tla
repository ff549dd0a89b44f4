----------------------- MODULE DaemonSessions_proofs ------------------------
(***************************************************************************)
(* DaemonInv is an invariant of the daemon for every set of sessions and   *)
(* of connections and for every bound.  DaemonWorkers_proofs has the steps *)
(* of the workers; here is one lemma per step of the main thread, and the  *)
(* theorems.  The daemon is then shown to be a client of the runner: each  *)
(* of its steps is an operation of the runner or leaves it alone.          *)
(***************************************************************************)
EXTENDS DaemonWorkers_proofs

-----------------------------------------------------------------------------
(* The steps of the main thread and the requests it serves.                *)

\* The main thread goes on without touching the token, a worker or a stream;
\* it may close channels.
LEMMA MainLocalStep ==
  ASSUME DaemonInv, DaemonTypeOK', MainLocals', CondemnedAreKilled',
         mpc # "attachJoin" \/ UNCHANGED <<mpc, mconn, mport>>,
         \A d \in Conns : closed[d] => closed'[d],
         UNCHANGED <<active, depth, attached, inStream, wpc, wchan, victim, killed>>
  PROVE  DaemonInv'
<1>1. HolderIsAtWork' /\ WorkerLocals'
  BY DEF DaemonInv, HolderIsAtWork, WorkerLocals, Interpreting
<1>2. OpenConsoleHoldsToken'
  BY DEF DaemonInv, DaemonTypeOK, OpenConsoleHoldsToken, Interpreting, ConsoleOpen
<1>3. WorkerChannelLives' /\ StreamLives'
  BY DEF DaemonInv, WorkerChannelLives, StreamLives, Joined
<1> QED BY <1>1, <1>2, <1>3 DEF DaemonInv

\* ReserveSession adds the lowest free port to the table.
LEMMA ReserveInv ==
  ASSUME DaemonInv, Reserve
  PROVE  DaemonInv'
<1>1. Least(FreePorts) \in Sessions
  BY LeastExists, SessionsAssumption DEF Reserve, FreePorts
<1>2. DaemonTypeOK'
  <2>1. table' \in SUBSET Sessions
    BY <1>1 DEF Reserve, DaemonInv, DaemonTypeOK
  <2>2. attaches' \in 0..MaxAttaches
    BY CountUp, BoundsAssumption DEF Reserve, DaemonInv, DaemonTypeOK
  <2>3. UNCHANGED <<runnerVars, chanVars, attached, loggedIn, bindVars, pending, stopRequested,
                    workerVars, mainVars, killed, inputs, kills>>
    BY DEF Reserve
  <2> QED
    BY <2>1, <2>2, <2>3, RunnerInvUnchanged
    DEF DaemonInv, DaemonTypeOK, chanVars, bindVars, workerVars, mainVars
<1>3. UNCHANGED <<active, depth, closed, attached, inStream, pending, wpc, wchan, victim,
                  killed, mainVars>>
  BY DEF Reserve, runnerVars, chanVars, bindVars, workerVars
<1>4. MainLocals' /\ CondemnedAreKilled'
  BY <1>3 DEF DaemonInv, MainLocals, CondemnedAreKilled, mainVars
<1> QED BY <1>2, <1>3, <1>4, MainLocalStep DEF mainVars

\* A signal sets a flag.
LEMMA SignalInv ==
  ASSUME DaemonInv, Signal
  PROVE  DaemonInv'
<1>1. DaemonTypeOK'
  BY RunnerInvUnchanged
  DEF Signal, DaemonInv, DaemonTypeOK, runnerVars, chanVars, hostVars, bindVars, workerVars,
      mainVars, budgetVars
<1>2. UNCHANGED <<active, depth, closed, attached, inStream, pending, wpc, wchan, victim,
                  killed, mainVars>>
  BY DEF Signal, runnerVars, chanVars, bindVars, workerVars, budgetVars
<1>3. MainLocals' /\ CondemnedAreKilled'
  BY <1>2 DEF DaemonInv, MainLocals, CondemnedAreKilled, mainVars
<1> QED BY <1>1, <1>2, <1>3, MainLocalStep DEF mainVars

\* SessionInput: the bytes are queued, then the reader is resumed.
LEMMA PushInputInv ==
  ASSUME NEW c \in Conns, NEW chunk \in Chunks, DaemonInv, PushInput(c, chunk)
  PROVE  DaemonInv'
<1>1. queue' \in [Conns -> Seq({"part", "line"})]
  <2>1. queue \in [Conns -> Seq({"part", "line"})] /\ queue' = [queue EXCEPT ![c] = Append(@, chunk)]
    BY DEF PushInput, DaemonInv, DaemonTypeOK
  <2>2. Append(queue[c], chunk) \in Seq({"part", "line"})
    BY <2>1, InputAssumption
  <2> QED BY <2>1, <2>2
<1>2. DaemonTypeOK'
  <2>1. inputs' \in 0..MaxInputs
    BY CountUp, BoundsAssumption DEF PushInput, DaemonInv, DaemonTypeOK
  <2>2. /\ mpc' = "resume" /\ mconn' = c
        /\ UNCHANGED <<runnerVars, closed, sched, attached, hostVars, bindVars, pending,
                       stopRequested, workerVars, mport, mwork, deferred, stopping,
                       killed, attaches, kills>>
    BY DEF PushInput
  <2> QED
    BY <1>1, <2>1, <2>2, RunnerInvUnchanged
    DEF DaemonInv, DaemonTypeOK, MainPC, hostVars, bindVars, workerVars
<1>3. /\ mpc = "poll"
      /\ UNCHANGED <<active, depth, closed, attached, inStream, wpc, wchan, victim, killed>>
  BY DEF PushInput, runnerVars, bindVars, workerVars
<1>4. MainLocals' /\ CondemnedAreKilled'
  BY <1>3 DEF PushInput, DaemonInv, MainLocals, CondemnedAreKilled
<1> QED BY <1>2, <1>3, <1>4, MainLocalStep

\* The second half of pushInput resumes the session the channel names.
LEMMA ResumeReaderInv ==
  ASSUME DaemonInv, ResumeReader
  PROVE  DaemonInv'
<1>1. RunnerInv' /\ UNCHANGED <<active, depth>>
  <2>1. PICK id \in Sessions \cup {NoSession} : id = sched[mconn]
    BY DEF ResumeReader, DaemonInv, DaemonTypeOK, MainLocals
  <2>2. CASE id = NoSession
    BY <2>1, <2>2, RunnerInvUnchanged DEF ResumeReader, DaemonInv, DaemonTypeOK, runnerVars
  <2>3. CASE id # NoSession
    BY <2>1, <2>3, ResumeKeepsToken DEF ResumeReader, DaemonInv, DaemonTypeOK
  <2> QED BY <2>2, <2>3
<1>2. DaemonTypeOK'
  BY <1>1
  DEF ResumeReader, MainReturns, DaemonInv, DaemonTypeOK, MainPC, chanVars, hostVars, bindVars,
      workerVars, budgetVars
<1>3. /\ mpc = "resume"
      /\ UNCHANGED <<closed, attached, inStream, wpc, wchan, victim, killed>>
  BY DEF ResumeReader, chanVars, bindVars, workerVars, budgetVars
<1>4. MainLocals' /\ CondemnedAreKilled'
  BY <1>3 DEF ResumeReader, MainReturns, DaemonInv, MainLocals, CondemnedAreKilled
<1> QED BY <1>1, <1>2, <1>3, <1>4, MainLocalStep

\* The first step of a detach, for a connection or for a port at shutdown.
LEMMA ClearSchedulingInv ==
  ASSUME NEW c \in Conns \cup {NoConn}, NEW p \in Sessions, DaemonInv,
         mpc \in {"poll", "stopDetach"}, c # NoConn => attached[c] = p,
         ClearScheduling(c, p)
  PROVE  DaemonInv'
<1>1. sched' \in [Conns -> Sessions \cup {NoSession}]
  BY DEF ClearScheduling, DaemonInv, DaemonTypeOK
<1>2. DaemonTypeOK'
  BY <1>1, RunnerInvUnchanged
  DEF ClearScheduling, DaemonInv, DaemonTypeOK, MainPC, runnerVars, hostVars, bindVars,
      workerVars, budgetVars
<1>3. UNCHANGED <<active, depth, closed, attached, inStream, wpc, wchan, victim, killed>>
  BY Zenon DEF ClearScheduling, runnerVars, bindVars, workerVars, budgetVars
<1>4. MainLocals' /\ CondemnedAreKilled'
  BY <1>3 DEF ClearScheduling, DaemonInv, MainLocals, CondemnedAreKilled
<1> QED BY <1>2, <1>3, <1>4, MainLocalStep

\* DetachSession, or the connection is gone.
LEMMA DetachInv ==
  ASSUME NEW c \in Conns, DaemonInv, Detach(c)
  PROVE  DaemonInv'
<1>1. PICK p \in Sessions : p = attached[c]
  BY DEF Detach, DaemonInv, DaemonTypeOK
<1>2. ClearScheduling(c, p) /\ mpc = "poll"
  BY <1>1 DEF Detach
<1> QED BY <1>1, <1>2, ClearSchedulingInv

\* The shutdown detaches a port.
LEMMA StopDetachInv ==
  ASSUME NEW p \in Sessions, DaemonInv, StopDetach(p)
  PROVE  DaemonInv'
  BY ClearSchedulingInv DEF StopDetach

\* A detach closes the channel.
LEMMA DetachCloseInv ==
  ASSUME DaemonInv, DetachClose
  PROVE  DaemonInv'
<1>1. mport \in Sessions
  BY DEF DetachClose, DaemonInv, MainLocals
<1>2. closed' \in [Conns -> BOOLEAN] /\ \A d \in Conns : closed[d] => closed'[d]
  BY DEF DetachClose, DaemonInv, DaemonTypeOK
<1>3. boundChan' \in [Sessions -> Conns \cup {NoConn}] /\ threads' \in SUBSET Sessions
  BY <1>1 DEF DetachClose, DaemonInv, DaemonTypeOK
<1>4. /\ mpc = "detachClose" /\ mpc' = "detachJoin"
      /\ UNCHANGED <<runnerVars, queue, sched, attached, hostVars, inStream, bound, pending,
                     stopRequested, workerVars, mconn, mport, mwork, deferred, stopping, budgetVars>>
  BY DEF DetachClose
<1>5. DaemonTypeOK'
  BY <1>2, <1>3, <1>4, RunnerInvUnchanged
  DEF DaemonInv, DaemonTypeOK, MainPC, hostVars, workerVars, budgetVars
<1>6. UNCHANGED <<active, depth, wpc, wchan, victim, killed>>
  BY <1>4 DEF runnerVars, workerVars, budgetVars
<1>7. MainLocals' /\ CondemnedAreKilled'
  BY <1>4, <1>6, Zenon DEF DaemonInv, MainLocals, CondemnedAreKilled
<1> QED BY <1>2, <1>4, <1>5, <1>6, <1>7, MainLocalStep

\* The drains: the queue is taken, visited port by port and put back.
LEMMA EndPollInv ==
  ASSUME DaemonInv, EndPoll
  PROVE  DaemonInv'
<1>1. DaemonTypeOK'
  <2>1. /\ mwork' \in Seq(Sessions) /\ pending' \in Seq(Sessions) /\ deferred' \in Seq(Sessions)
    BY DEF EndPoll, SwapPending, DaemonInv, DaemonTypeOK
  <2>2. stopping' \in 0..2
    BY DEF EndPoll
  <2>3. /\ mpc' = "drain"
        /\ UNCHANGED <<runnerVars, chanVars, attached, hostVars, bindVars, stopRequested,
                       workerVars, mconn, mport, budgetVars>>
    BY DEF EndPoll, SwapPending
  <2> QED
    BY <2>1, <2>2, <2>3, RunnerInvUnchanged
    DEF DaemonInv, DaemonTypeOK, MainPC, chanVars, hostVars, bindVars, workerVars, budgetVars
<1>2. /\ mpc = "poll"
      /\ UNCHANGED <<active, depth, closed, attached, inStream, wpc, wchan, victim, killed>>
  BY DEF EndPoll, runnerVars, chanVars, bindVars, workerVars, budgetVars
<1>3. MainLocals'
  BY DEF EndPoll, SwapPending, MainLocals
<1>4. CondemnedAreKilled'
  BY <1>2 DEF EndPoll, SwapPending, DaemonInv, CondemnedAreKilled
<1> QED BY <1>1, <1>2, <1>3, <1>4, MainLocalStep

\* A visit defers a port or goes to join its worker.
LEMMA DrainVisitInv ==
  ASSUME DaemonInv, DrainVisit
  PROVE  DaemonInv'
<1>1. PICK p \in killed : p = Head(mwork)
  BY DEF DrainVisit, DaemonInv, CondemnedAreKilled
<1>2. p \in Sessions
  BY DEF DaemonInv, DaemonTypeOK
<1>3. /\ mwork' \in Seq(killed) /\ deferred' \in Seq(killed)
      /\ mwork' \in Seq(Sessions) /\ deferred' \in Seq(Sessions)
  <2>1. mwork' = Tail(mwork) /\ mwork # <<>>
    BY DEF DrainVisit
  <2>2. deferred' = deferred \/ deferred' = Append(deferred, p)
    BY <1>1 DEF DrainVisit
  <2>3. Append(deferred, p) \in Seq(killed) /\ Append(deferred, p) \in Seq(Sessions)
    BY <1>2 DEF DaemonInv, DaemonTypeOK, CondemnedAreKilled
  <2>4. mwork \in Seq(killed) => Tail(mwork) \in Seq(killed)
    BY <2>1
  <2>5. mwork \in Seq(Sessions) => Tail(mwork) \in Seq(Sessions)
    BY <2>1
  <2> QED
    BY <2>1, <2>2, <2>3, <2>4, <2>5, Zenon DEF DaemonInv, DaemonTypeOK, CondemnedAreKilled
<1>4. /\ mpc = "drain" /\ threads' \in SUBSET Sessions
      /\ UNCHANGED <<mpc, mport>> \/ (mpc' = "drainJoin" /\ mport' = p)
  BY <1>1 DEF DrainVisit, DaemonInv, DaemonTypeOK
<1>5. UNCHANGED <<runnerVars, chanVars, attached, hostVars, inStream, bound, boundChan,
                  pending, stopRequested, workerVars, mconn, stopping, budgetVars>>
  BY DEF DrainVisit
<1>6. DaemonTypeOK'
  BY <1>2, <1>3, <1>4, <1>5, RunnerInvUnchanged
  DEF DaemonInv, DaemonTypeOK, MainPC, chanVars, hostVars, workerVars, budgetVars
<1>7. UNCHANGED <<active, depth, closed, wpc, wchan, victim, killed>>
  BY <1>5 DEF runnerVars, chanVars, workerVars, budgetVars
<1>8. MainLocals' /\ CondemnedAreKilled'
  BY <1>2, <1>3, <1>4, <1>5, <1>7 DEF DaemonInv, MainLocals, CondemnedAreKilled
<1> QED BY <1>4, <1>5, <1>6, <1>7, <1>8, MainLocalStep

\* The end of a drain puts back what it deferred.
LEMMA DrainEndInv ==
  ASSUME DaemonInv, DrainEnd
  PROVE  DaemonInv'
<1>1. /\ pending \o deferred \in Seq(Sessions) /\ pending \o deferred \in Seq(killed)
      /\ <<>> \in Seq(Sessions) /\ <<>> \in Seq(killed)
  <2>1. /\ pending \in Seq(Sessions) /\ deferred \in Seq(Sessions)
        /\ pending \in Seq(killed) /\ deferred \in Seq(killed)
    BY DEF DaemonInv, DaemonTypeOK, CondemnedAreKilled
  <2> QED BY <2>1
<1>2. /\ mpc = "drain" /\ mpc' \in {"drain", "stopDetach", "poll"}
      /\ stopping' \in 0..2
      /\ mwork' = mwork \/ mwork' = pending \o deferred
      /\ pending' = <<>> \/ pending' = pending \o deferred
      /\ deferred' = <<>>
  <2>1. CASE stopping = 1
    BY <2>1 DEF DrainEnd
  <2>2. CASE stopping # 1
    BY <2>2 DEF DrainEnd, DaemonInv, DaemonTypeOK
  <2> QED BY <2>1, <2>2
<1>3. UNCHANGED <<runnerVars, chanVars, attached, hostVars, bindVars, stopRequested,
                  workerVars, mconn, mport, budgetVars>>
  BY DEF DrainEnd
<1>4. DaemonTypeOK'
  BY <1>1, <1>2, <1>3, RunnerInvUnchanged, Zenon
  DEF DaemonInv, DaemonTypeOK, MainPC, chanVars, hostVars, bindVars, workerVars, budgetVars
<1>5. UNCHANGED <<active, depth, closed, inStream, wpc, wchan, victim, killed>>
  BY <1>3 DEF runnerVars, chanVars, bindVars, workerVars, budgetVars
<1>6. MainLocals' /\ CondemnedAreKilled'
  BY <1>1, <1>2, <1>5, Zenon DEF DaemonInv, MainLocals, CondemnedAreKilled
<1> QED BY <1>2, <1>3, <1>4, <1>5, <1>6, MainLocalStep

\* The shutdown takes all threads from the map.
LEMMA StopJoinInv ==
  ASSUME DaemonInv, StopJoin
  PROVE  DaemonInv'
<1>1. DaemonTypeOK'
  BY RunnerInvUnchanged
  DEF StopJoin, DaemonInv, DaemonTypeOK, MainPC, runnerVars, chanVars, hostVars, workerVars,
      budgetVars
<1>2. /\ mpc = "stopDetach"
      /\ UNCHANGED <<active, depth, closed, attached, inStream, wpc, wchan, victim, killed>>
  BY DEF StopJoin, runnerVars, chanVars, workerVars, budgetVars
<1>3. MainLocals' /\ CondemnedAreKilled'
  BY <1>2 DEF StopJoin, DaemonInv, MainLocals, CondemnedAreKilled
<1> QED BY <1>1, <1>2, <1>3, MainLocalStep

\* Joining a worker that has ended forgets it.
LEMMA JoinInv ==
  ASSUME NEW here \in {"detachJoin", "drainJoin"}, NEW next \in {"detachRetire", "drainDestroy"},
         here = "detachJoin" <=> next = "detachRetire",
         DaemonInv, Join(here, next)
  PROVE  DaemonInv'
<1>1. PICK p \in Sessions : p = mport
  BY DEF Join, DaemonInv, MainLocals
<1>2. /\ mpc = here /\ mpc' = next /\ Joined(p)
      /\ wpc' = [wpc EXCEPT ![p] = "none"]
      /\ UNCHANGED <<runnerVars, chanVars, attached, hostVars, bindVars, pending, stopRequested,
                     wchan, partial, eof, after, victim, mconn, mport, mwork, deferred,
                     stopping, budgetVars>>
  BY <1>1 DEF Join
<1>3. DaemonTypeOK'
  BY <1>2, RunnerInvUnchanged
  DEF DaemonInv, DaemonTypeOK, MainPC, WorkerPC, chanVars, hostVars, bindVars, budgetVars
<1>4. UNCHANGED <<active, depth, closed, inStream, killed>>
  BY <1>2 DEF runnerVars, chanVars, bindVars, budgetVars
<1>5. HolderIsAtWork' /\ OpenConsoleHoldsToken'
  BY <1>2, <1>4
  DEF DaemonInv, DaemonTypeOK, HolderIsAtWork, OpenConsoleHoldsToken, Interpreting, WorkPC,
      ConsoleOpen, Joined, RunnerInv, RunnerTypeOK
<1>6. WorkerChannelLives' /\ StreamLives'
  BY <1>2, <1>4 DEF DaemonInv, DaemonTypeOK, WorkerChannelLives, StreamLives, Joined
<1>7. MainLocals' /\ CondemnedAreKilled'
  BY <1>1, <1>2, <1>4 DEF DaemonInv, DaemonTypeOK, MainLocals, CondemnedAreKilled
<1>8. WorkerLocals'
  BY <1>2, <1>4 DEF DaemonInv, DaemonTypeOK, WorkerLocals, Joined
<1> QED BY <1>3, <1>5, <1>6, <1>7, <1>8 DEF DaemonInv

\* Retiring a session whose worker has been joined: it has no token to lose.
LEMMA RetireJoined ==
  ASSUME NEW p \in Sessions, DaemonInv, wpc[p] = "none", RetireSession(p)
  PROVE  RunnerInv' /\ UNCHANGED <<active, depth>>
<1>1. active # p
  BY NoSessionIsNoId DEF DaemonInv, HolderIsAtWork, Interpreting, WorkPC
<1> QED BY <1>1, RetireLosesToken DEF DaemonInv, DaemonTypeOK, LoseToken

\* The end of a detach: the channel is destroyed after its only reader has
\* been joined and the session's stream has been reset.
LEMMA DetachRetireInv ==
  ASSUME DaemonInv, DetachRetire
  PROVE  DaemonInv'
<1>1. PICK p \in Sessions : p = mport
  BY DEF DetachRetire, DaemonInv, MainLocals
<1>2. /\ mpc = "detachRetire" /\ wpc[p] = "none"
      /\ mconn # NoConn => attached[mconn] = p
  BY <1>1 DEF DetachRetire, DaemonInv, MainLocals
<1>3. RunnerInv' /\ UNCHANGED <<active, depth>>
  BY <1>1, <1>2, RetireJoined DEF DetachRetire
<1>4. /\ inStream' = [inStream EXCEPT ![p] = NoConn]
      /\ attached' = [c \in Conns |-> IF c = mconn THEN NoSession ELSE attached[c]]
      /\ mpc' \in {"stopDetach", "poll"} /\ mconn' = NoConn /\ mport' = NoSession
      /\ UNCHANGED <<chanVars, hostVars, boundChan, threads, pending, stopRequested, workerVars,
                     mwork, deferred, stopping, budgetVars>>
  BY <1>1 DEF DetachRetire, MainReturns
<1>5. UNCHANGED <<closed, wpc, wchan, victim, killed>>
  BY <1>4 DEF chanVars, workerVars, budgetVars
<1>6. DaemonTypeOK'
  <2>1. bound' \in SUBSET Sessions
    BY DEF DetachRetire, DaemonInv, DaemonTypeOK
  <2> QED
    BY <1>3, <1>4, <2>1
    DEF DaemonInv, DaemonTypeOK, MainPC, chanVars, hostVars, workerVars, budgetVars
<1>7. HolderIsAtWork' /\ OpenConsoleHoldsToken' /\ WorkerLocals'
  BY <1>3, <1>5
  DEF DaemonInv, HolderIsAtWork, OpenConsoleHoldsToken, WorkerLocals, Interpreting, ConsoleOpen
<1>8. WorkerChannelLives'
  BY <1>2, <1>4, <1>5 DEF DaemonInv, DaemonTypeOK, WorkerChannelLives, Joined
<1>9. StreamLives'
  BY <1>2, <1>4 DEF DaemonInv, DaemonTypeOK, StreamLives
<1>10. MainLocals' /\ CondemnedAreKilled'
  BY <1>4, <1>5 DEF DaemonInv, MainLocals, CondemnedAreKilled
<1> QED BY <1>6, <1>7, <1>8, <1>9, <1>10 DEF DaemonInv

\* A queued session is destroyed once its worker has been joined.
LEMMA DrainDestroyInv ==
  ASSUME DaemonInv, DrainDestroy
  PROVE  DaemonInv'
<1>1. PICK p \in Sessions : p = mport
  BY DEF DrainDestroy, DaemonInv, MainLocals
<1>2. mpc = "drainDestroy" /\ wpc[p] = "none"
  BY <1>1 DEF DrainDestroy, DaemonInv, MainLocals
<1>3. RunnerInv' /\ UNCHANGED <<active, depth>>
  BY <1>1, <1>2, RetireJoined DEF DrainDestroy
<1>4. /\ inStream' = [inStream EXCEPT ![p] = NoConn]
      /\ mpc' = "drain" /\ mconn' = NoConn /\ mport' = NoSession
      /\ UNCHANGED <<chanVars, attached, bound, boundChan, threads, pending, stopRequested,
                     workerVars, mwork, deferred, stopping, budgetVars>>
  BY <1>1 DEF DrainDestroy, MainReturns
<1>5. UNCHANGED <<closed, wpc, wchan, victim, killed>>
  BY <1>4 DEF chanVars, workerVars, budgetVars
<1>6. DaemonTypeOK'
  <2>1. table' \in SUBSET Sessions /\ loggedIn' \in [Sessions -> BOOLEAN]
    BY Zenon DEF DrainDestroy, DestroySession, DaemonInv, DaemonTypeOK
  <2> QED
    BY <1>3, <1>4, <2>1, Zenon
    DEF DaemonInv, DaemonTypeOK, MainPC, chanVars, workerVars, budgetVars
<1>7. HolderIsAtWork' /\ OpenConsoleHoldsToken' /\ WorkerLocals'
  BY <1>3, <1>5
  DEF DaemonInv, HolderIsAtWork, OpenConsoleHoldsToken, WorkerLocals, Interpreting, ConsoleOpen
<1>8. WorkerChannelLives' /\ StreamLives'
  BY <1>2, <1>4, <1>5 DEF DaemonInv, DaemonTypeOK, WorkerChannelLives, StreamLives, Joined
<1>9. MainLocals' /\ CondemnedAreKilled'
  BY <1>4, <1>5 DEF DaemonInv, MainLocals, CondemnedAreKilled
<1> QED BY <1>6, <1>7, <1>8, <1>9 DEF DaemonInv

\* An attach opens a channel that no worker reads yet.
LEMMA BindInv ==
  ASSUME NEW c \in Conns, NEW p \in Sessions, DaemonInv, Bind(c, p),
         table' \in SUBSET Sessions
  PROVE  DaemonInv'
<1>1. /\ mpc = "poll" /\ attached[c] = NoSession
      /\ mpc' = "attachJoin" /\ mconn' = c /\ mport' = p
      /\ closed' = [closed EXCEPT ![c] = FALSE]
      /\ inStream' = [inStream EXCEPT ![p] = c]
      /\ UNCHANGED <<runnerVars, attached, loggedIn, pending, stopRequested, workerVars,
                     mwork, deferred, stopping, killed, inputs, kills>>
  BY DEF Bind
<1>2. DaemonTypeOK'
  <2>1. queue' \in [Conns -> Seq({"part", "line"})]
    <3>1. <<>> \in Seq({"part", "line"})
      OBVIOUS
    <3>2. /\ queue \in [Conns -> Seq({"part", "line"})]
          /\ queue' = [queue EXCEPT ![c] = <<>>]
      BY DEF Bind, DaemonInv, DaemonTypeOK
    <3> QED BY <3>1, <3>2
  <2>2. sched' \in [Conns -> Sessions \cup {NoSession}]
    BY DEF Bind, DaemonInv, DaemonTypeOK
  <2>3. bound' \in SUBSET Sessions /\ threads' \in SUBSET Sessions
    BY DEF Bind, DaemonInv, DaemonTypeOK
  <2>4. boundChan' \in [Sessions -> Conns \cup {NoConn}]
    BY DEF Bind, DaemonInv, DaemonTypeOK
  <2>5. attaches' \in 0..MaxAttaches
    BY CountUp, BoundsAssumption DEF Bind, DaemonInv, DaemonTypeOK
  <2>6. closed' \in [Conns -> BOOLEAN] /\ inStream' \in [Sessions -> Conns \cup {NoConn}]
    BY <1>1 DEF DaemonInv, DaemonTypeOK
  <2> QED
    BY <1>1, <2>1, <2>2, <2>3, <2>4, <2>5, <2>6, RunnerInvUnchanged
    DEF DaemonInv, DaemonTypeOK, MainPC, workerVars
<1>3. UNCHANGED <<active, depth, wpc, wchan, victim>>
  BY <1>1 DEF runnerVars, workerVars
<1>4. HolderIsAtWork' /\ WorkerLocals'
  BY <1>1, <1>3 DEF DaemonInv, HolderIsAtWork, WorkerLocals, Interpreting
<1>5. OpenConsoleHoldsToken'
  <2>1. \A q \in Sessions : Interpreting(q) => wchan[q] # c
    BY <1>1, NoSessionIsNoId, ConnIsNotNull
    DEF DaemonInv, WorkerChannelLives, Interpreting, WorkPC, Joined
  <2> QED
    BY <1>1, <1>3, <2>1
    DEF DaemonInv, DaemonTypeOK, OpenConsoleHoldsToken, Interpreting, ConsoleOpen
<1>6. WorkerChannelLives' /\ StreamLives'
  BY <1>1, <1>3 DEF DaemonInv, DaemonTypeOK, WorkerChannelLives, StreamLives, Joined
<1>7. MainLocals' /\ CondemnedAreKilled'
  BY <1>1 DEF DaemonInv, MainLocals, CondemnedAreKilled
<1> QED BY <1>2, <1>4, <1>5, <1>6, <1>7 DEF DaemonInv

\* AttachSession, for a session that exists or a new one.
LEMMA AttachInv ==
  ASSUME NEW c \in Conns, DaemonInv,
         AttachNew(c) \/ \E p \in Sessions : AttachTo(c, p)
  PROVE  DaemonInv'
<1>1. CASE AttachNew(c)
  <2>1. PICK p \in Sessions : p = Least(FreePorts)
    BY <1>1, LeastExists, SessionsAssumption, Zenon DEF AttachNew, FreePorts
  <2>2. CASE p \in bound
    BY <1>1, <2>1, <2>2, ReserveInv DEF AttachNew
  <2>3. CASE p \notin bound
    <3>1. Bind(c, p) /\ table' = table \cup {p}
      BY <1>1, <2>1, <2>3 DEF AttachNew
    <3>2. table' \in SUBSET Sessions
      BY <3>1 DEF DaemonInv, DaemonTypeOK
    <3> QED BY <3>1, <3>2, BindInv
  <2> QED BY <2>2, <2>3
<1>2. ASSUME NEW p \in Sessions, AttachTo(c, p)
      PROVE  DaemonInv'
  BY <1>2, BindInv, Zenon DEF AttachTo, DaemonInv, DaemonTypeOK
<1> QED BY <1>1, <1>2

\* The worker starts with no channel of its own.
LEMMA StartWorkerInv ==
  ASSUME DaemonInv, StartWorker
  PROVE  DaemonInv'
<1>1. PICK p \in Sessions : p = mport
  BY DEF StartWorker, DaemonInv, MainLocals
<1>2. PICK c \in Conns : c = mconn
  BY DEF StartWorker, DaemonInv, MainLocals
<1>3. /\ mpc = "attachJoin" /\ Joined(p) /\ attached[c] = NoSession
      /\ wpc' = [wpc EXCEPT ![p] = "begin"]
      /\ attached' = [attached EXCEPT ![c] = p]
      /\ mpc' = "poll" /\ mconn' = NoConn /\ mport' = NoSession
      /\ UNCHANGED <<runnerVars, chanVars, hostVars, inStream, bound, boundChan, pending,
                     stopRequested, wchan, partial, eof, after, victim, mwork, deferred,
                     stopping, budgetVars>>
  BY <1>1, <1>2 DEF StartWorker, MainReturns, DaemonInv, MainLocals
<1>4. DaemonTypeOK'
  <2>1. threads' \in SUBSET Sessions
    BY <1>1 DEF StartWorker, DaemonInv, DaemonTypeOK
  <2> QED
    BY <1>3, <2>1, RunnerInvUnchanged
    DEF DaemonInv, DaemonTypeOK, MainPC, WorkerPC, chanVars, hostVars, budgetVars
<1>5. UNCHANGED <<active, depth, closed, killed>>
  BY <1>3 DEF runnerVars, chanVars, budgetVars
<1>6. HolderIsAtWork' /\ OpenConsoleHoldsToken'
  BY <1>3, <1>5
  DEF DaemonInv, DaemonTypeOK, HolderIsAtWork, OpenConsoleHoldsToken, Interpreting, WorkPC,
      ConsoleOpen, Joined, RunnerInv, RunnerTypeOK
<1>7. WorkerChannelLives' /\ WorkerLocals'
  <2>1. /\ wpc \in [Sessions -> WorkerPC] /\ wchan \in [Sessions -> Conns \cup {NoConn}]
        /\ attached \in [Conns -> Sessions \cup {NoSession}]
    BY DEF DaemonInv, DaemonTypeOK
  <2>2. wchan[p] = NoConn
    BY <1>3, Zenon DEF DaemonInv, WorkerLocals, Joined
  <2>3. WorkerChannelLives'
    BY <1>1, <1>2, <1>3, <2>1, <2>2, NoSessionIsNoId DEF DaemonInv, WorkerChannelLives, Joined
  <2>4. WorkerLocals'
    BY <1>3, <1>5, <2>1, <2>2 DEF DaemonInv, WorkerLocals
  <2> QED BY <2>3, <2>4
<1>8. StreamLives'
  BY <1>1, <1>2, <1>3, NoSessionIsNoId DEF DaemonInv, DaemonTypeOK, StreamLives
<1>9. MainLocals' /\ CondemnedAreKilled'
  BY <1>3, <1>5 DEF DaemonInv, MainLocals, CondemnedAreKilled
<1> QED BY <1>4, <1>6, <1>7, <1>8, <1>9 DEF DaemonInv

\* The end of the shutdown.
LEMMA HaltInv ==
  ASSUME DaemonInv, Halt
  PROVE  DaemonInv'
<1>1. /\ mpc' = "halt" /\ \A p \in Sessions : Joined(p)
      /\ wpc' = [p \in Sessions |-> "none"]
      /\ attached' = [c \in Conns |-> NoSession]
      /\ inStream' = [p \in Sessions |-> NoConn]
      /\ UNCHANGED <<runnerVars, queue, bound, boundChan, threads, pending, stopRequested,
                     wchan, partial, eof, after, victim, mconn, mport, mwork, deferred,
                     stopping, budgetVars>>
  BY DEF Halt
<1>2. DaemonTypeOK'
  <2>1. table' \in SUBSET Sessions /\ loggedIn' \in [Sessions -> BOOLEAN]
    BY DEF Halt
  <2>2. closed' \in [Conns -> BOOLEAN]
    BY DEF Halt
  <2>3. sched' \in [Conns -> Sessions \cup {NoSession}]
    BY DEF Halt
  <2> QED
    BY <1>1, <2>1, <2>2, <2>3, RunnerInvUnchanged
    DEF DaemonInv, DaemonTypeOK, MainPC, WorkerPC, budgetVars
<1>3. UNCHANGED <<active, depth, killed>>
  BY <1>1 DEF runnerVars, budgetVars
<1>4. HolderIsAtWork' /\ OpenConsoleHoldsToken'
  BY <1>1, <1>3, NoSessionIsNoId, Zenon
  DEF DaemonInv, DaemonTypeOK, HolderIsAtWork, OpenConsoleHoldsToken, Interpreting, WorkPC,
      Joined, RunnerInv, RunnerTypeOK
<1>5. WorkerChannelLives' /\ StreamLives' /\ WorkerLocals'
  BY <1>1, Zenon DEF DaemonInv, WorkerChannelLives, StreamLives, WorkerLocals, Joined
<1>6. MainLocals' /\ CondemnedAreKilled'
  BY <1>1, <1>3 DEF DaemonInv, MainLocals, CondemnedAreKilled
<1> QED BY <1>2, <1>4, <1>5, <1>6 DEF DaemonInv

-----------------------------------------------------------------------------
(* The theorems.                                                           *)

\* The daemon starts in a state of the invariant.
LEMMA DaemonInitInv == DaemonInit => DaemonInv
<1> SUFFICES ASSUME DaemonInit PROVE DaemonInv
  OBVIOUS
<1>1. DaemonTypeOK
  <2>1. RunnerInv
    BY RunnerInitInv DEF DaemonInit
  <2>2. <<>> \in Seq({"part", "line"}) /\ <<>> \in Seq(Sessions)
    OBVIOUS
  <2>3. /\ queue \in [Conns -> Seq({"part", "line"})]
        /\ closed \in [Conns -> BOOLEAN]
        /\ sched \in [Conns -> Sessions \cup {NoSession}]
        /\ attached \in [Conns -> Sessions \cup {NoSession}]
    BY <2>2 DEF DaemonInit
  <2>4. /\ loggedIn \in [Sessions -> BOOLEAN]
        /\ inStream \in [Sessions -> Conns \cup {NoConn}]
        /\ boundChan \in [Sessions -> Conns \cup {NoConn}]
        /\ partial \in [Sessions -> BOOLEAN]
        /\ eof \in [Sessions -> BOOLEAN]
    BY DEF DaemonInit
  <2>5. /\ wpc \in [Sessions -> WorkerPC]
        /\ wchan \in [Sessions -> Conns \cup {NoConn}]
        /\ after \in [Sessions -> {"acquire", "begin", "exit"}]
        /\ victim \in [Sessions -> Sessions \cup {NoSession}]
    BY DEF DaemonInit, WorkerPC
  <2>6. /\ pending \in Seq(Sessions) /\ mwork \in Seq(Sessions) /\ deferred \in Seq(Sessions)
        /\ table = {} /\ bound = {} /\ threads = {} /\ killed = {}
        /\ stopRequested \in BOOLEAN
        /\ mpc \in MainPC /\ mconn = NoConn /\ mport = NoSession
    BY <2>2, Zenon DEF DaemonInit, MainPC
  <2>7. /\ stopping \in 0..2
        /\ inputs \in 0..MaxInputs /\ attaches \in 0..MaxAttaches /\ kills \in 0..MaxKills
    BY BoundsAssumption DEF DaemonInit
  <2> QED BY <2>1, <2>3, <2>4, <2>5, <2>6, <2>7 DEF DaemonTypeOK
<1>2. HolderIsAtWork /\ OpenConsoleHoldsToken
  BY DEF DaemonInit, RunnerInit, HolderIsAtWork, OpenConsoleHoldsToken, ConsoleOpen
<1>3. WorkerChannelLives /\ StreamLives /\ WorkerLocals
  BY DEF DaemonInit, WorkerChannelLives, StreamLives, WorkerLocals
<1>4. MainLocals
  BY DEF DaemonInit, MainLocals
<1>5. CondemnedAreKilled
  BY DEF DaemonInit, CondemnedAreKilled
<1> QED BY <1>1, <1>2, <1>3, <1>4, <1>5 DEF DaemonInv

\* Every step of the daemon preserves the invariant.
LEMMA DaemonNextInv == DaemonInv /\ [DaemonNext]_daemonVars => DaemonInv'
<1> SUFFICES ASSUME DaemonInv, [DaemonNext]_daemonVars PROVE DaemonInv'
  OBVIOUS
<1>1. CASE Request
  BY <1>1, ReserveInv, AttachInv, PushInputInv, DetachInv, SignalInv DEF Request
<1>2. CASE MainStep
  <2>1. CASE DetachJoin \/ DrainJoin
    BY <2>1, JoinInv DEF DetachJoin, DrainJoin
  <2> QED
    BY <1>2, <2>1, StartWorkerInv, ResumeReaderInv, DetachCloseInv, DetachRetireInv, EndPollInv,
       DrainVisitInv, DrainDestroyInv, DrainEndInv, StopDetachInv, StopJoinInv, HaltInv
    DEF MainStep
<1>3. CASE \E p \in Sessions : WorkerStep(p)
  BY <1>3, WorkerStepInv
<1>4. CASE UNCHANGED daemonVars
  <2> USE <1>4 DEF daemonVars, runnerVars, chanVars, hostVars, bindVars, workerVars, mainVars,
                   budgetVars
  <2>1. DaemonTypeOK'
    BY RunnerInvUnchanged, Zenon DEF DaemonInv, DaemonTypeOK
  <2>2. MainLocals' /\ CondemnedAreKilled'
    BY Zenon DEF DaemonInv, MainLocals, CondemnedAreKilled
  <2> QED BY <2>1, <2>2, MainLocalStep
<1> QED BY <1>1, <1>2, <1>3, <1>4 DEF DaemonNext

\* The daemon's inductive invariant holds in every reachable state, for any
\* number of sessions, connections, inputs, attaches and kills.
THEOREM DaemonInvariant == DaemonSpec => []DaemonInv
  BY DaemonInitInv, DaemonNextInv, PTL DEF DaemonSpec

\* Whoever holds the token is a worker inside runExclusive: no detach, kill,
\* shutdown or end of input leaves the token with a thread that is waiting,
\* has ended or was never started.
THEOREM TokenHolderIsAtWork == DaemonSpec => []HolderIsAtWork
<1>1. DaemonInv => HolderIsAtWork
  BY DEF DaemonInv
<1> QED BY <1>1, DaemonInvariant, PTL

\* A session with an open console works only with the token, unless some
\* KILLSESSION has named it.
THEOREM OpenConsolesExclude == DaemonSpec => []OpenConsoleHoldsToken
<1>1. DaemonInv => OpenConsoleHoldsToken
  BY DEF DaemonInv
<1> QED BY <1>1, DaemonInvariant, PTL

\* A worker never reads from a channel whose connection has let it go.
THEOREM ChannelsOutliveReaders == DaemonSpec => []WorkerChannelLives
<1>1. DaemonInv => WorkerChannelLives
  BY DEF DaemonInv
<1> QED BY <1>1, DaemonInvariant, PTL

-----------------------------------------------------------------------------
(* The daemon as a client of the runner.                                   *)

\* What each thread does to the runner is one operation of it, or nothing.
LEMMA DaemonStepIsRunnerStep ==
  DaemonInv /\ [DaemonNext]_daemonVars => [RunnerNext]_runnerVars
<1> SUFFICES ASSUME DaemonInv, [DaemonNext]_daemonVars, ~UNCHANGED runnerVars
             PROVE  \E id \in Sessions : RunnerOp(id)
  BY DEF RunnerNext
<1>1. CASE Request
  <2>1. ASSUME Reserve PROVE UNCHANGED runnerVars
    BY <2>1 DEF Reserve
  <2>2. ASSUME NEW c, NEW p, Bind(c, p) PROVE UNCHANGED runnerVars
    BY <2>2 DEF Bind
  <2>3. ASSUME NEW c, NEW chunk, PushInput(c, chunk) PROVE UNCHANGED runnerVars
    BY <2>3 DEF PushInput
  <2>4. ASSUME NEW c, Detach(c) PROVE UNCHANGED runnerVars
    BY <2>4 DEF Detach, ClearScheduling
  <2>5. ASSUME Signal PROVE UNCHANGED runnerVars
    BY <2>5 DEF Signal
  <2> QED BY <1>1, <2>1, <2>2, <2>3, <2>4, <2>5 DEF Request, AttachTo, AttachNew
<1>2. CASE MainStep
  <2>1. CASE ResumeReader
    BY <2>1 DEF ResumeReader, RunnerOp, DaemonInv, DaemonTypeOK, MainLocals
  <2>2. CASE DetachRetire \/ DrainDestroy
    BY <2>2 DEF DetachRetire, DrainDestroy, RunnerOp, DaemonInv, MainLocals
  <2>3. CASE StartWorker \/ DetachClose \/ DetachJoin \/ EndPoll
    BY <2>3 DEF StartWorker, DetachClose, DetachJoin, Join, EndPoll
  <2>4. CASE DrainVisit \/ DrainJoin \/ DrainEnd
    BY <2>4 DEF DrainVisit, DrainJoin, Join, DrainEnd
  <2>5. CASE StopJoin \/ Halt \/ \E p \in Sessions : StopDetach(p)
    BY <2>5 DEF StopJoin, Halt, StopDetach, ClearScheduling
  <2> QED BY <1>2, <2>1, <2>2, <2>3, <2>4, <2>5 DEF MainStep
<1>3. ASSUME NEW p \in Sessions, WorkerStep(p) PROVE \E id \in Sessions : RunnerOp(id)
  <2>1. CASE Enter(p) \/ Rejoin(p)
    <3>1. active # p
      BY <2>1, NoSessionIsNoId, Zenon
      DEF Enter, Rejoin, DaemonInv, HolderIsAtWork, Interpreting, WorkPC
    <3>2. active = NoSession
      BY <2>1, <3>1, ObtainToken DEF Enter, Rejoin, DaemonInv, DaemonTypeOK
    <3>3. depth < MaxDepth
      <4>1. depth = 0
        BY <3>2, NoSessionIsNoId DEF DaemonInv, DaemonTypeOK, RunnerInv, HolderHasDepth
      <4> QED BY <4>1, MaxDepthAssumption
    <3> QED BY <2>1, <3>3, Zenon DEF Enter, Rejoin, RunnerOp
  <2>2. CASE YieldToken(p) \/ EndExclusive(p) \/ Exit(p)
    BY <2>2 DEF YieldToken, EndExclusive, Exit, RunnerOp
  <2>3. CASE KillQueue(p) \/ KillNow(p)
    <3>1. victim[p] \in Sessions
      BY <2>3 DEF KillQueue, KillNow, DaemonInv, DaemonTypeOK, WorkerLocals
    <3> QED BY <2>3, <3>1 DEF KillQueue, KillNow, RunnerOp
  <2>4. CASE Begin(p) \/ Read(p) \/ Blocked(p) \/ WakeUp(p) \/ Pop(p) \/ LogonLine(p)
    BY <2>4, Zenon DEF Begin, Read, Blocked, WakeUp, Pop, LogonLine
  <2>5. CASE \/ \E command \in TclCommands : TclLine(p, command)
             \/ \E q \in Sessions : KillLine(p, q)
             \/ KillUnbind(p)
    BY <2>5, Zenon DEF TclLine, KillLine, KillUnbind
  <2> QED BY <1>3, <2>1, <2>2, <2>3, <2>4, <2>5 DEF WorkerStep
<1>4. CASE UNCHANGED daemonVars
  BY <1>4 DEF daemonVars
<1> QED BY <1>1, <1>2, <1>3, <1>4 DEF DaemonNext

\* The daemon's threads are clients of the runner: no behaviour of the daemon
\* acquires the token more than once per turn, and what is proved of the
\* runner for all clients holds in the daemon.
THEOREM DaemonUsesTheRunner == DaemonSpec => RunnerSpec
  BY DaemonStepIsRunnerStep, DaemonInvariant, PTL DEF DaemonSpec, DaemonInit, RunnerSpec

\* The daemon implements the abstract execution token: across attach, detach,
\* kill and shutdown the token passes between sessions only through the free
\* state.
THEOREM DaemonImplementsToken == DaemonSpec => TokenRefinement
  BY DaemonUsesTheRunner, RunnerImplementsToken, PTL
=============================================================================
