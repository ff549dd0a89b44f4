------------------------ MODULE DaemonWorkers_proofs ------------------------
(***************************************************************************)
(* Every step of a worker preserves DaemonInv.  First the effect of the    *)
(* runner's operations on the token, then one lemma per step.  Most steps  *)
(* only move the worker along and consume input: LocalStep covers them     *)
(* together; LoseStep covers those that take the token from a session.     *)
(***************************************************************************)
EXTENDS DaemonSessions, CooperativeRunner_proofs

\* The null channel pointer is no connection.
LEMMA ConnIsNotNull == NoConn \notin Conns
  BY ConnsAssumption

-----------------------------------------------------------------------------
(* The runner's operations as the daemon uses them.                        *)

\* A session that does not hold the token obtains it only when it is free.
LEMMA ObtainToken ==
  ASSUME NEW id \in Sessions, RunnerInv, active # id,
         Acquire(id) \/ AcquireAfterInputWake(id)
  PROVE  RunnerInv' /\ active = NoSession /\ active' = id /\ depth' = 1
<1>1. active = NoSession /\ Grant(id)
  BY DEF Acquire, AcquireAfterInputWake, CanAcquire, CanAcquireAfterInputWake
<1>2. RunnerInv'
  BY <1>1, GrantInv
<1> QED BY <1>1, <1>2 DEF Grant

\* A counter below its bound stays within it.
LEMMA CountUp ==
  ASSUME NEW bnd \in Nat, NEW n \in 0..bnd, n < bnd
  PROVE  n + 1 \in 0..bnd
  OBVIOUS

\* What retireSession and the end of runExclusive do to the token.
LoseToken(id) ==
    /\ RunnerInv'
    /\ active' = IF active = id THEN NoSession ELSE active
    /\ active # id => depth' = depth

\* retireSession takes the token from its session and from no other.
LEMMA RetireLosesToken ==
  ASSUME NEW id \in Sessions, RunnerInv, RetireSession(id)
  PROVE  LoseToken(id)
<1>1. RunnerInv'
  BY RunnerOpInv DEF RunnerOp
<1> QED BY <1>1 DEF RetireSession, FreeToken, LoseToken

\* The end of runExclusive does the same for a session that acquired the token once.
LEMMA TailLosesToken ==
  ASSUME NEW id \in Sessions, RunnerInv, active = id => depth = 1,
         RunExclusiveTail(id)
  PROVE  LoseToken(id)
<1>1. RunnerInv'
  BY RunnerOpInv DEF RunnerOp
<1>2. CASE active = id
  BY <1>1, <1>2 DEF RunExclusiveTail, Unwind, FreeToken, LoseToken
<1>3. CASE active # id
  BY <1>1, <1>3 DEF RunExclusiveTail, LoseToken
<1> QED BY <1>2, <1>3

\* yieldWaitingForInput frees the token.
LEMMA YieldLosesToken ==
  ASSUME NEW id \in Sessions, RunnerInv, YieldWaitingForInput(id)
  PROVE  RunnerInv' /\ active' = NoSession
<1>1. RunnerInv'
  BY RunnerOpInv DEF RunnerOp
<1> QED BY <1>1 DEF YieldWaitingForInput, FreeToken

\* resume leaves the token where it is.
LEMMA ResumeKeepsToken ==
  ASSUME NEW id \in Sessions, RunnerInv, Resume(id)
  PROVE  RunnerInv' /\ active' = active /\ depth' = depth
<1>1. RunnerInv'
  BY RunnerOpInv DEF RunnerOp
<1> QED BY <1>1 DEF Resume

\* A step that does not call the runner keeps its invariant.
LEMMA RunnerInvUnchanged ==
  ASSUME RunnerInv, UNCHANGED runnerVars
  PROVE  RunnerInv'
  BY DEF runnerVars, RunnerInv, RunnerTypeOK, HolderHasDepth, RunStatesMatchToken

-----------------------------------------------------------------------------
(* The steps of a worker.                                                  *)

\* A step that moves worker p to x and leaves the token, the channels' state
\* and the main thread alone.  The worker stays at work if it was, and goes to
\* work only from work or at the end of a closed channel's input.
LEMMA LocalStep ==
  ASSUME NEW p \in Sessions, NEW x \in WorkerPC \ {"none", "done"},
         DaemonInv, ~Joined(p), DaemonTypeOK',
         wpc' = [wpc EXCEPT ![p] = x],
         Interpreting(p) => x \in WorkPC,
         x \in WorkPC => Interpreting(p) \/ ~ConsoleOpen(p),
         x \in {"blocked", "yield", "wait", "rejoin", "pop"} => wchan[p] # NoConn,
         x \in {"begin", "acquire", "exit"} => wchan[p] = NoConn,
         x \in {"killUnbind", "killQueue", "killNow"} => victim'[p] \in killed',
         \A q \in Sessions \ {p} : victim'[q] = victim[q],
         killed \subseteq killed',
         UNCHANGED <<active, depth, closed, attached, inStream, pending, wchan, mainVars>>
  PROVE  DaemonInv'
<1>1. HolderIsAtWork'
  BY DEF DaemonInv, DaemonTypeOK, HolderIsAtWork, Interpreting, RunnerInv, RunnerTypeOK
<1>2. OpenConsoleHoldsToken'
  BY DEF DaemonInv, DaemonTypeOK, OpenConsoleHoldsToken, Interpreting, ConsoleOpen
<1>3. (WorkerChannelLives /\ StreamLives)'
  BY DEF DaemonInv, DaemonTypeOK, WorkerChannelLives, StreamLives, Joined, mainVars
<1>4. MainLocals'
  BY DEF DaemonInv, DaemonTypeOK, MainLocals, Joined, mainVars
<1>5. WorkerLocals'
  BY DEF DaemonInv, DaemonTypeOK, WorkerLocals
<1>6. CondemnedAreKilled'
  BY DEF DaemonInv, CondemnedAreKilled, mainVars
<1> QED BY <1>1, <1>2, <1>3, <1>4, <1>5, <1>6 DEF DaemonInv

\* The worker reads a chunk of its channel's input.
LEMMA ConsumeInv ==
  ASSUME NEW p \in Sessions, DaemonInv, wpc[p] \in {"read", "pop"},
         wchan[p] # NoConn, Consume(p),
         UNCHANGED <<runnerVars, closed, sched, attached, hostVars, bindVars, pending,
                     stopRequested, wchan, victim, mainVars, budgetVars>>
  PROVE  DaemonInv'
<1>1. wchan[p] \in Conns /\ queue[wchan[p]] \in Seq({"part", "line"})
  BY DEF DaemonInv, DaemonTypeOK
<1>2. Tail(queue[wchan[p]]) \in Seq({"part", "line"})
  BY <1>1 DEF Consume
<1>3. DaemonTypeOK'
  BY <1>1, <1>2, RunnerInvUnchanged
  DEF DaemonInv, DaemonTypeOK, Consume, Goto, WorkerPC, runnerVars, hostVars, bindVars,
      mainVars, budgetVars
<1>4. \E x \in {"read", "exec"} : wpc' = [wpc EXCEPT ![p] = x]
  BY Zenon DEF Consume, Goto
<1>5. Interpreting(p) /\ ~Joined(p)
  BY DEF Interpreting, WorkPC, Joined
<1>6. killed' = killed /\ UNCHANGED <<active, depth, inStream>>
  BY DEF budgetVars, runnerVars, bindVars
<1> QED BY <1>3, <1>4, <1>5, <1>6, LocalStep, Zenon DEF WorkerPC, WorkPC

\* The worker reaches the end of a closed channel's input, with or without
\* the token.
LEMMA EndOfInputInv ==
  ASSUME NEW p \in Sessions, DaemonInv, wpc[p] \in {"read", "wait"},
         ~ConsoleOpen(p), EndOfInput(p),
         UNCHANGED <<runnerVars, closed, sched, attached, hostVars, bindVars, pending,
                     stopRequested, wchan, victim, mainVars, budgetVars>>
  PROVE  DaemonInv'
<1>1. DaemonTypeOK'
  <2>1. wpc' \in [Sessions -> WorkerPC]
    <3>1. PICK x \in {"tail", "exec"} : wpc' = [wpc EXCEPT ![p] = x]
      BY DEF EndOfInput, LeaveExclusive, Goto
    <3>2. wpc \in [Sessions -> WorkerPC] /\ x \in WorkerPC
      BY DEF DaemonInv, DaemonTypeOK, WorkerPC
    <3> QED BY <3>1, <3>2
  <2>2. eof' \in [Sessions -> BOOLEAN] /\ partial' \in [Sessions -> BOOLEAN]
    BY DEF DaemonInv, DaemonTypeOK, EndOfInput
  <2>3. after' \in [Sessions -> {"acquire", "begin", "exit"}] /\ queue' = queue
    BY DEF DaemonInv, DaemonTypeOK, EndOfInput, LeaveExclusive
  <2> QED
    BY <2>1, <2>2, <2>3, RunnerInvUnchanged
    DEF DaemonInv, DaemonTypeOK, hostVars, bindVars, mainVars, budgetVars
<1>2. \E x \in {"tail", "exec"} : wpc' = [wpc EXCEPT ![p] = x]
  BY DEF EndOfInput, LeaveExclusive, Goto
<1>3. ~Joined(p)
  BY DEF Joined
<1>4. killed' = killed /\ UNCHANGED <<active, depth, inStream>>
  BY DEF budgetVars, runnerVars, bindVars
<1> QED BY <1>1, <1>2, <1>3, <1>4, LocalStep, Zenon DEF WorkerPC, WorkPC

\* readInputChar up to the unlock: each of its outcomes.
LEMMA ReadInv ==
  ASSUME NEW p \in Sessions, DaemonInv, Read(p)
  PROVE  DaemonInv'
<1>1. /\ wpc[p] = "read" /\ Interpreting(p) /\ ~Joined(p)
      /\ UNCHANGED <<runnerVars, closed, sched, attached, hostVars, bindVars, pending,
                     stopRequested, wchan, victim, mainVars, budgetVars>>
  BY DEF Read, Interpreting, WorkPC, Joined
<1>2. killed' = killed /\ UNCHANGED <<active, depth, inStream>>
  BY <1>1 DEF budgetVars, runnerVars, bindVars
<1>3. CASE ReadFails(p)
  <2>1. DaemonTypeOK'
    BY <1>1, <1>3, RunnerInvUnchanged
    DEF DaemonInv, DaemonTypeOK, ReadFails, LeaveExclusive, Goto, WorkerPC, runnerVars,
        hostVars, bindVars, mainVars, budgetVars
  <2>2. wpc' = [wpc EXCEPT ![p] = "tail"]
    BY <1>3 DEF ReadFails, LeaveExclusive, Goto
  <2> QED BY <1>1, <1>2, <2>1, <2>2, LocalStep, Zenon DEF WorkerPC, WorkPC
<1>4. CASE wchan[p] # NoConn /\ Consume(p)
  BY <1>1, <1>4, ConsumeInv
<1>5. CASE ~ConsoleOpen(p) /\ EndOfInput(p)
  BY <1>1, <1>5, EndOfInputInv
<1>6. CASE /\ wchan[p] # NoConn
           /\ Goto(p, IF sched[wchan[p]] = NoSession THEN "blocked" ELSE "yield")
           /\ UNCHANGED <<queue, partial, eof, after>>
  <2>1. DaemonTypeOK'
    BY <1>1, <1>6, RunnerInvUnchanged
    DEF DaemonInv, DaemonTypeOK, Goto, WorkerPC, runnerVars, hostVars, bindVars,
        mainVars, budgetVars
  <2>2. \E x \in {"blocked", "yield"} : wpc' = [wpc EXCEPT ![p] = x]
    BY <1>6, Zenon DEF Goto
  <2> QED BY <1>1, <1>2, <1>6, <2>1, <2>2, LocalStep, Zenon DEF WorkerPC, WorkPC
<1> QED BY <1>3, <1>4, <1>5, <1>6 DEF Read, ConsoleOpen

\* The end of the wait for input or close.
LEMMA WakeUpInv ==
  ASSUME NEW p \in Sessions, DaemonInv, WakeUp(p)
  PROVE  DaemonInv'
<1>1. /\ wpc[p] = "wait" /\ ~Interpreting(p) /\ ~Joined(p)
      /\ UNCHANGED <<runnerVars, closed, sched, attached, hostVars, bindVars, pending,
                     stopRequested, wchan, victim, mainVars, budgetVars>>
  BY Zenon DEF WakeUp, Interpreting, WorkPC, Joined
<1>2. wchan[p] # NoConn
  BY <1>1 DEF DaemonInv, WorkerLocals
<1>3. CASE queue[wchan[p]] = <<>>
  BY <1>1, <1>3, EndOfInputInv DEF WakeUp, ConsoleOpen
<1>4. CASE queue[wchan[p]] # <<>>
  <2>1. wpc' = [wpc EXCEPT ![p] = "rejoin"] /\ UNCHANGED <<queue, partial, eof, after>>
    BY <1>4 DEF WakeUp, Goto
  <2>2. DaemonTypeOK'
    BY <1>1, <2>1, RunnerInvUnchanged
    DEF DaemonInv, DaemonTypeOK, WorkerPC, runnerVars, hostVars, bindVars, mainVars,
        budgetVars
  <2>3. killed' = killed /\ UNCHANGED <<active, depth, inStream>>
    BY <1>1 DEF budgetVars, runnerVars, bindVars
  <2> QED BY <1>1, <1>2, <2>1, <2>2, <2>3, LocalStep, Zenon DEF WorkerPC, WorkPC
<1> QED BY <1>3, <1>4

\* The read that follows the wake-up.
LEMMA PopInv ==
  ASSUME NEW p \in Sessions, DaemonInv, Pop(p)
  PROVE  DaemonInv'
  BY ConsumeInv, Zenon DEF Pop, DaemonInv, WorkerLocals

\* The worker leaves the channels alone and moves on: the top of its loop, the
\* wait of a channel without scheduling, a logon line or a TCL line.
LEMMA MoveOnInv ==
  ASSUME NEW p \in Sessions, DaemonInv,
         \/ Begin(p) \/ Blocked(p) \/ LogonLine(p)
         \/ \E command \in TclCommands : TclLine(p, command)
  PROVE  DaemonInv'
<1>1. /\ UNCHANGED <<active, depth, closed, attached, inStream, pending, wchan, mainVars>>
      /\ UNCHANGED <<runnerVars, chanVars, table, bindVars, partial, eof, victim, budgetVars>>
  BY DEF Begin, Blocked, LogonLine, TclLine, runnerVars, chanVars, bindVars, hostVars
<1>2. /\ loggedIn' \in [Sessions -> BOOLEAN]
      /\ stopRequested' \in BOOLEAN
      /\ after' \in [Sessions -> {"acquire", "begin", "exit"}]
  <2>1. CASE Begin(p) \/ Blocked(p) \/ LogonLine(p)
    BY <2>1, Zenon DEF DaemonInv, DaemonTypeOK, Begin, Blocked, LogonLine, LeaveExclusive, hostVars
  <2>2. ASSUME NEW command \in TclCommands, TclLine(p, command)
        PROVE  /\ loggedIn' \in [Sessions -> BOOLEAN]
               /\ stopRequested' \in BOOLEAN
               /\ after' \in [Sessions -> {"acquire", "begin", "exit"}]
    <3>1. loggedIn' \in [Sessions -> BOOLEAN]
      BY <2>2 DEF DaemonInv, DaemonTypeOK, TclLine
    <3>2. stopRequested' \in BOOLEAN
      BY <2>2, Zenon DEF TclLine
    <3>3. after' \in [Sessions -> {"acquire", "begin", "exit"}]
      <4>1. \/ after' = after
            \/ after' = [after EXCEPT ![p] = "begin"]
            \/ after' = [after EXCEPT ![p] = "exit"]
        BY <2>2 DEF TclLine, LeaveExclusive
      <4> QED BY <4>1, Zenon DEF DaemonInv, DaemonTypeOK
    <3> QED BY <3>1, <3>2, <3>3
  <2> QED BY <2>1, <2>2
<1>3. PICK x \in {"acquire", "exit", "read", "tail"} :
        /\ wpc' = [wpc EXCEPT ![p] = x]
        /\ Interpreting(p) <=> x \in WorkPC
        /\ x \in {"acquire", "exit"} => wpc[p] = "begin"
  BY DEF Begin, Blocked, LogonLine, TclLine, LeaveExclusive, Goto, Interpreting, WorkPC
<1>4. ~Joined(p)
  BY DEF Begin, Blocked, LogonLine, TclLine, Joined
<1>5. DaemonTypeOK'
  BY <1>1, <1>2, <1>3, RunnerInvUnchanged
  DEF DaemonInv, DaemonTypeOK, WorkerPC, chanVars, bindVars, mainVars, budgetVars
<1>6. killed' = killed
  BY <1>1 DEF budgetVars
<1>7. x \in {"acquire", "exit"} => wchan[p] = NoConn
  BY <1>3 DEF DaemonInv, WorkerLocals
<1> QED BY <1>1, <1>3, <1>4, <1>5, <1>6, <1>7, LocalStep, Zenon DEF WorkerPC

\* KILLSESSION chooses its way; the victim is recorded as killed.
LEMMA KillLineInv ==
  ASSUME NEW p \in Sessions, NEW q \in Sessions, DaemonInv, KillLine(p, q)
  PROVE  DaemonInv'
<1>1. DaemonTypeOK'
  <2>1. wpc' \in [Sessions -> WorkerPC]
    BY DEF DaemonInv, DaemonTypeOK, KillLine, Goto, WorkerPC
  <2>2. victim' \in [Sessions -> Sessions \cup {NoSession}] /\ killed' \in SUBSET Sessions
    BY DEF DaemonInv, DaemonTypeOK, KillLine
  <2>3. kills' \in 0..MaxKills
    BY CountUp, BoundsAssumption DEF DaemonInv, DaemonTypeOK, KillLine
  <2> QED
    BY <2>1, <2>2, <2>3, RunnerInvUnchanged
    DEF DaemonInv, DaemonTypeOK, KillLine, chanVars, hostVars, bindVars, mainVars
<1>2. PICK x \in {"killUnbind", "killQueue", "killNow"} : wpc' = [wpc EXCEPT ![p] = x]
  BY Zenon DEF KillLine, Goto
<1>3. Interpreting(p) /\ ~Joined(p)
  BY DEF KillLine, Interpreting, WorkPC, Joined
<1>4. victim' = [victim EXCEPT ![p] = q] /\ killed' = killed \cup {q}
  BY DEF KillLine
<1>5. victim'[p] \in killed' /\ \A r \in Sessions \ {p} : victim'[r] = victim[r]
  BY <1>4 DEF DaemonInv, DaemonTypeOK
<1>6. UNCHANGED <<active, depth, closed, attached, inStream, pending, wchan, mainVars>>
  BY Zenon DEF KillLine, runnerVars, chanVars, bindVars
<1> QED BY <1>1, <1>2, <1>3, <1>4, <1>5, <1>6, LocalStep, Zenon DEF WorkerPC, WorkPC

\* The worker gets the token: a turn begins, or its input has come.
LEMMA EnterInv ==
  ASSUME NEW p \in Sessions, DaemonInv, Enter(p)
  PROVE  DaemonInv'
<1> USE DEF DaemonInv
<1>1. active # p
  BY NoSessionIsNoId DEF Enter, HolderIsAtWork, Interpreting, WorkPC
<1>2. RunnerInv' /\ active = NoSession /\ active' = p /\ depth' = 1
  BY <1>1, ObtainToken DEF Enter, DaemonTypeOK
<1>3. DaemonTypeOK'
  BY <1>2 DEF Enter, Goto, DaemonTypeOK, WorkerPC, chanVars, hostVars, bindVars, mainVars,
              budgetVars
<1>4. HolderIsAtWork'
  BY <1>2 DEF Enter, Goto, HolderIsAtWork, Interpreting, WorkPC, DaemonTypeOK
<1>5. OpenConsoleHoldsToken'
  BY <1>2, NoSessionIsNoId
  DEF Enter, Goto, OpenConsoleHoldsToken, Interpreting, ConsoleOpen, DaemonTypeOK,
      chanVars, budgetVars
<1>6. (WorkerChannelLives /\ StreamLives)'
  BY DEF Enter, Goto, WorkerChannelLives, StreamLives, Joined, DaemonTypeOK, bindVars,
         mainVars
<1>7. (MainLocals /\ WorkerLocals /\ CondemnedAreKilled)'
  BY DEF Enter, Goto, MainLocals, WorkerLocals, CondemnedAreKilled, DaemonTypeOK, mainVars,
         budgetVars
<1> QED BY <1>3, <1>4, <1>5, <1>6, <1>7

\* acquireAfterInputWake.
LEMMA RejoinInv ==
  ASSUME NEW p \in Sessions, DaemonInv, Rejoin(p)
  PROVE  DaemonInv'
<1> USE DEF DaemonInv
<1>1. active # p
  BY NoSessionIsNoId DEF Rejoin, HolderIsAtWork, Interpreting, WorkPC
<1>2. RunnerInv' /\ active = NoSession /\ active' = p /\ depth' = 1
  BY <1>1, ObtainToken DEF Rejoin, DaemonTypeOK
<1>3. DaemonTypeOK'
  BY <1>2 DEF Rejoin, Goto, DaemonTypeOK, WorkerPC, chanVars, hostVars, bindVars, mainVars,
              budgetVars
<1>4. HolderIsAtWork'
  BY <1>2 DEF Rejoin, Goto, HolderIsAtWork, Interpreting, WorkPC, DaemonTypeOK
<1>5. OpenConsoleHoldsToken'
  BY <1>2, NoSessionIsNoId
  DEF Rejoin, Goto, OpenConsoleHoldsToken, Interpreting, ConsoleOpen, DaemonTypeOK,
      chanVars, budgetVars
<1>6. (WorkerChannelLives /\ StreamLives)'
  BY DEF Rejoin, Goto, WorkerChannelLives, StreamLives, Joined, DaemonTypeOK, bindVars,
         mainVars
<1>7. (MainLocals /\ WorkerLocals /\ CondemnedAreKilled)'
  BY DEF Rejoin, Goto, MainLocals, WorkerLocals, CondemnedAreKilled, DaemonTypeOK, mainVars,
         budgetVars
<1> QED BY <1>3, <1>4, <1>5, <1>6, <1>7

\* A step that moves worker p to x and takes the token from v, if v has it: v
\* is p itself, leaving its work, or a session being killed.
LEMMA LoseStep ==
  ASSUME NEW p \in Sessions, NEW v \in Sessions, NEW x \in WorkerPC \ {"none"},
         DaemonInv, ~Joined(p), DaemonTypeOK', LoseToken(v),
         wpc' = [wpc EXCEPT ![p] = x],
         v \in killed \/ (v = p /\ x \notin WorkPC),
         x \in WorkPC => Interpreting(p),
         v # p => x \in WorkPC,
         wchan' = wchan \/ wchan' = [wchan EXCEPT ![p] = NoConn],
         x \in {"blocked", "yield", "wait", "rejoin", "pop"} => wchan'[p] # NoConn,
         x \in {"begin", "acquire", "exit", "done"} => wchan'[p] = NoConn,
         x \notin {"killUnbind", "killQueue", "killNow"},
         inStream' = inStream \/ inStream' = [inStream EXCEPT ![v] = NoConn],
         \A q \in Sessions \ {p} : victim'[q] = victim[q],
         pending' \in Seq(killed),
         UNCHANGED <<closed, attached, killed, mainVars>>
  PROVE  DaemonInv'
<1>0. /\ active \in Sessions \cup {NoSession}
      /\ wpc \in [Sessions -> WorkerPC]
      /\ wchan \in [Sessions -> Conns \cup {NoConn}]
      /\ inStream \in [Sessions -> Conns \cup {NoConn}]
  BY Zenon DEF DaemonInv, DaemonTypeOK, RunnerInv, RunnerTypeOK
<1>1. HolderIsAtWork'
  BY <1>0, NoSessionIsNoId DEF DaemonInv, HolderIsAtWork, Interpreting, LoseToken
<1>2. OpenConsoleHoldsToken'
  <2>1. SUFFICES ASSUME NEW q \in Sessions \ killed, Interpreting(q)', ConsoleOpen(q)'
                 PROVE  active' = q
    BY DEF OpenConsoleHoldsToken
  <2>2. Interpreting(q) /\ (q = p => x \in WorkPC)
    BY <1>0, <2>1 DEF Interpreting
  <2>3. wchan'[q] = wchan[q] /\ ConsoleOpen(q)
    BY <1>0, <2>1 DEF ConsoleOpen
  <2>4. active = q
    BY <2>2, <2>3 DEF DaemonInv, OpenConsoleHoldsToken
  <2> QED BY <2>2, <2>4 DEF LoseToken
<1>3. WorkerChannelLives'
  <2>1. SUFFICES ASSUME NEW q \in Sessions, ~Joined(q)', wchan'[q] # NoConn
                 PROVE  \/ attached[wchan[q]] = q /\ wchan'[q] = wchan[q]
                        \/ /\ mpc = "attachJoin" /\ mconn = wchan[q] /\ mport = q
                           /\ wchan'[q] = wchan[q]
    BY Zenon DEF WorkerChannelLives, mainVars
  <2>2. ~Joined(q)
    BY <1>0, <2>1 DEF Joined
  <2>3. wchan'[q] = wchan[q]
    BY <1>0, <2>1
  <2> QED BY <2>1, <2>2, <2>3 DEF DaemonInv, WorkerChannelLives
<1>4. StreamLives'
  BY <1>0 DEF DaemonInv, StreamLives, mainVars
<1>5. MainLocals'
  BY Zenon DEF DaemonInv, DaemonTypeOK, MainLocals, Joined, mainVars
<1>6. WorkerLocals'
  <2>1. ASSUME NEW q \in Sessions, q # p
        PROVE  wpc'[q] = wpc[q] /\ wchan'[q] = wchan[q] /\ victim'[q] = victim[q]
    BY <1>0, <2>1
  <2>2. wpc'[p] = x
    BY <1>0
  <2> QED BY <2>1, <2>2 DEF DaemonInv, WorkerLocals
<1>7. CondemnedAreKilled'
  BY DEF DaemonInv, CondemnedAreKilled, mainVars
<1> QED BY <1>1, <1>2, <1>3, <1>4, <1>5, <1>6, <1>7 DEF DaemonInv

\* The yield before a blocking read, and its failure without the token.
LEMMA YieldTokenInv ==
  ASSUME NEW p \in Sessions, DaemonInv, YieldToken(p)
  PROVE  DaemonInv'
<1>1. /\ wpc[p] = "yield" /\ Interpreting(p) /\ ~Joined(p) /\ wchan[p] # NoConn
      /\ UNCHANGED <<chanVars, attached, hostVars, bindVars, pending, stopRequested,
                     wchan, partial, victim, mainVars, budgetVars>>
  BY DEF YieldToken, Interpreting, WorkPC, Joined, DaemonInv, WorkerLocals
<1>2. killed' = killed /\ UNCHANGED <<inStream, closed>> /\ pending' \in Seq(killed)
  BY <1>1, Zenon DEF budgetVars, bindVars, chanVars, DaemonInv, CondemnedAreKilled
<1>3. CASE active = p /\ depth > 0
  <2>1. YieldWaitingForInput(p) /\ wpc' = [wpc EXCEPT ![p] = "wait"] /\ UNCHANGED <<eof, after>>
    BY <1>3 DEF YieldToken, Goto
  <2>2. RunnerInv' /\ active' = NoSession
    BY <2>1, YieldLosesToken DEF DaemonInv, DaemonTypeOK
  <2>3. LoseToken(p)
    BY <1>3, <2>2 DEF LoseToken
  <2>4. DaemonTypeOK'
    BY <1>1, <2>1, <2>2
    DEF DaemonInv, DaemonTypeOK, WorkerPC, chanVars, hostVars, bindVars, mainVars, budgetVars
  <2> QED BY <1>1, <1>2, <2>1, <2>3, <2>4, LoseStep, Zenon DEF WorkerPC, WorkPC
<1>4. CASE ~(active = p /\ depth > 0)
  <2>1. /\ wpc' = [wpc EXCEPT ![p] = "tail"]
        /\ after' = [after EXCEPT ![p] = "exit"]
        /\ eof' = [eof EXCEPT ![p] = TRUE]
        /\ UNCHANGED runnerVars
    BY <1>4 DEF YieldToken, LeaveExclusive, Goto
  <2>2. DaemonTypeOK'
    BY <1>1, <2>1, RunnerInvUnchanged
    DEF DaemonInv, DaemonTypeOK, WorkerPC, chanVars, hostVars, bindVars, mainVars, budgetVars
  <2>3. UNCHANGED <<active, depth>>
    BY <2>1 DEF runnerVars
  <2> QED BY <1>1, <1>2, <2>1, <2>2, <2>3, LocalStep, Zenon DEF WorkerPC, WorkPC
<1> QED BY <1>3, <1>4

\* KILLSESSION retires its victim and queues it for destruction.
LEMMA KillQueueInv ==
  ASSUME NEW p \in Sessions, DaemonInv, KillQueue(p)
  PROVE  DaemonInv'
<1>0. PICK v \in Sessions : v = victim[p]
  BY DEF KillQueue, WorkerLocals, DaemonInv, DaemonTypeOK
<1>1. /\ Interpreting(p) /\ ~Joined(p) /\ v \in killed
      /\ wpc' = [wpc EXCEPT ![p] = "read"]
      /\ victim' = [victim EXCEPT ![p] = NoSession]
      /\ UNCHANGED <<chanVars, attached, hostVars, bindVars, stopRequested,
                     wchan, partial, eof, after, mainVars, budgetVars>>
  BY <1>0 DEF KillQueue, Goto, Interpreting, WorkPC, Joined, DaemonInv, DaemonTypeOK, WorkerLocals
<1>2. LoseToken(v)
  BY <1>0, <1>1, RetireLosesToken DEF KillQueue, DaemonInv, DaemonTypeOK
<1>3. pending' \in Seq(killed) /\ pending' \in Seq(Sessions)
  <2>1. pending \in Seq(killed) /\ pending \in Seq(Sessions)
    BY DEF DaemonInv, DaemonTypeOK, CondemnedAreKilled
  <2>2. pending' = Append(pending, v)
    BY <1>0 DEF KillQueue
  <2> QED BY <1>1, <2>1, <2>2
<1>4. DaemonTypeOK'
  BY <1>1, <1>2, <1>3
  DEF DaemonInv, DaemonTypeOK, LoseToken, WorkerPC, chanVars, hostVars, bindVars, mainVars,
      budgetVars
<1>5. killed' = killed /\ UNCHANGED <<inStream, closed>>
  BY <1>1 DEF budgetVars, bindVars, chanVars
<1>6. \A q \in Sessions \ {p} : victim'[q] = victim[q]
  BY <1>1 DEF DaemonInv, DaemonTypeOK
<1> QED BY <1>1, <1>2, <1>3, <1>4, <1>5, <1>6, LoseStep, Zenon DEF WorkerPC, WorkPC

\* KILLSESSION retires and destroys a victim that has no worker.
LEMMA KillNowInv ==
  ASSUME NEW p \in Sessions, DaemonInv, KillNow(p)
  PROVE  DaemonInv'
<1>0. PICK v \in Sessions : v = victim[p]
  BY DEF KillNow, WorkerLocals, DaemonInv, DaemonTypeOK
<1>1. /\ Interpreting(p) /\ ~Joined(p) /\ v \in killed
      /\ wpc' = [wpc EXCEPT ![p] = "read"]
      /\ victim' = [victim EXCEPT ![p] = NoSession]
      /\ inStream' = [inStream EXCEPT ![v] = NoConn]
      /\ UNCHANGED <<chanVars, attached, bound, boundChan, threads, pending, stopRequested,
                     wchan, partial, eof, after, mainVars, budgetVars>>
  BY <1>0 DEF KillNow, Goto, Interpreting, WorkPC, Joined, DaemonInv, DaemonTypeOK, WorkerLocals
<1>2. LoseToken(v)
  BY <1>0, <1>1, RetireLosesToken DEF KillNow, DaemonInv, DaemonTypeOK
<1>3. DaemonTypeOK'
  <2>1. table' \in SUBSET Sessions /\ loggedIn' \in [Sessions -> BOOLEAN]
    BY <1>0 DEF KillNow, DestroySession, DaemonInv, DaemonTypeOK
  <2>2. wpc' \in [Sessions -> WorkerPC] /\ victim' \in [Sessions -> Sessions \cup {NoSession}]
    BY <1>1 DEF DaemonInv, DaemonTypeOK, WorkerPC
  <2>3. inStream' \in [Sessions -> Conns \cup {NoConn}]
    BY <1>1 DEF DaemonInv, DaemonTypeOK
  <2> QED
    BY <1>1, <1>2, <2>1, <2>2, <2>3, Zenon
    DEF DaemonInv, DaemonTypeOK, LoseToken, chanVars, mainVars, budgetVars
<1>4. killed' = killed /\ closed' = closed /\ pending' \in Seq(killed)
  BY <1>1 DEF budgetVars, chanVars, DaemonInv, CondemnedAreKilled
<1>5. \A q \in Sessions \ {p} : victim'[q] = victim[q]
  BY <1>1 DEF DaemonInv, DaemonTypeOK
<1> QED BY <1>1, <1>2, <1>3, <1>4, <1>5, LoseStep, Zenon DEF WorkerPC, WorkPC

\* runExclusive returns.
LEMMA EndExclusiveInv ==
  ASSUME NEW p \in Sessions, DaemonInv, EndExclusive(p)
  PROVE  DaemonInv'
<1>1. PICK x \in {"acquire", "begin", "exit"} : x = after[p]
  BY DEF DaemonInv, DaemonTypeOK
<1>2. /\ ~Joined(p)
      /\ wpc' = [wpc EXCEPT ![p] = x]
      /\ after' = [after EXCEPT ![p] = "exit"]
      /\ wchan' = [wchan EXCEPT ![p] = NoConn]
      /\ UNCHANGED <<chanVars, attached, table, bindVars, pending, stopRequested,
                     partial, eof, victim, mainVars, budgetVars>>
  BY <1>1 DEF EndExclusive, Goto, Joined
<1>3. wchan'[p] = NoConn
  BY <1>2 DEF DaemonInv, DaemonTypeOK
<1>4. LoseToken(p)
  BY NoSessionIsNoId, TailLosesToken DEF EndExclusive, DaemonInv, DaemonTypeOK, HolderIsAtWork
<1>5. loggedIn' \in [Sessions -> BOOLEAN]
  BY DEF EndExclusive, DaemonInv, DaemonTypeOK
<1>6. DaemonTypeOK'
  BY <1>2, <1>4, <1>5, Zenon
  DEF DaemonInv, DaemonTypeOK, LoseToken, WorkerPC, chanVars, bindVars, mainVars, budgetVars
<1>7. killed' = killed /\ UNCHANGED <<inStream, closed>> /\ pending' \in Seq(killed)
  BY <1>2 DEF budgetVars, bindVars, chanVars, DaemonInv, CondemnedAreKilled
<1> QED BY <1>2, <1>3, <1>4, <1>6, <1>7, LoseStep, Zenon DEF WorkerPC, WorkPC

\* The worker thread ends.
LEMMA ExitInv ==
  ASSUME NEW p \in Sessions, DaemonInv, Exit(p)
  PROVE  DaemonInv'
<1>1. /\ ~Joined(p) /\ wchan'[p] = NoConn
      /\ wpc' = [wpc EXCEPT ![p] = "done"]
      /\ UNCHANGED <<chanVars, attached, hostVars, bindVars, pending, stopRequested,
                     wchan, after, victim, mainVars, budgetVars>>
  BY DEF Exit, Goto, Joined, DaemonInv, WorkerLocals
<1>2. LoseToken(p)
  BY RetireLosesToken DEF Exit, DaemonInv, DaemonTypeOK
<1>3. DaemonTypeOK'
  BY <1>1, <1>2, Zenon
  DEF Exit, DaemonInv, DaemonTypeOK, LoseToken, WorkerPC, chanVars, hostVars, bindVars,
      mainVars, budgetVars
<1>4. killed' = killed /\ UNCHANGED <<inStream, closed>> /\ pending' \in Seq(killed)
  BY <1>1 DEF budgetVars, bindVars, chanVars, DaemonInv, CondemnedAreKilled
<1> QED BY <1>1, <1>2, <1>3, <1>4, LoseStep, Zenon DEF WorkerPC, WorkPC

\* KILLSESSION closes the victim's console; a closed channel only weakens what
\* OpenConsoleHoldsToken asks.
LEMMA KillUnbindInv ==
  ASSUME NEW p \in Sessions, DaemonInv, KillUnbind(p)
  PROVE  DaemonInv'
<1>1. PICK v \in Sessions : v = victim[p]
  BY DEF KillUnbind, WorkerLocals, DaemonInv, DaemonTypeOK
<1>2. PICK c \in Conns \cup {NoConn} : c = boundChan[v]
  BY DEF DaemonInv, DaemonTypeOK
<1>3. /\ wpc[p] = "killUnbind"
      /\ wpc' = [wpc EXCEPT ![p] = "killQueue"]
      /\ inStream' = [inStream EXCEPT ![v] = NoConn]
      /\ closed' = [d \in Conns |-> d = c \/ closed[d]]
      /\ UNCHANGED <<runnerVars, queue, attached, hostVars, threads, pending, stopRequested,
                     wchan, partial, eof, after, victim, mainVars, budgetVars>>
  BY <1>1, <1>2, Zenon DEF KillUnbind, Goto
<1>4. UNCHANGED <<active, depth, killed>>
  BY <1>3 DEF runnerVars, budgetVars
<1>5. closed' \in [Conns -> BOOLEAN] /\ \A d \in Conns : closed[d] => closed'[d]
  BY <1>3 DEF DaemonInv, DaemonTypeOK
<1>6. DaemonTypeOK'
  <2>1. sched' \in [Conns -> Sessions \cup {NoSession}]
    BY <1>1, <1>2 DEF KillUnbind, DaemonInv, DaemonTypeOK
  <2>2. bound' \in SUBSET Sessions /\ boundChan' \in [Sessions -> Conns \cup {NoConn}]
    BY Zenon DEF KillUnbind, DaemonInv, DaemonTypeOK
  <2>3. inStream' \in [Sessions -> Conns \cup {NoConn}] /\ wpc' \in [Sessions -> WorkerPC]
    BY <1>3 DEF WorkerPC, DaemonInv, DaemonTypeOK
  <2> QED
    BY <1>3, <1>5, <2>1, <2>2, <2>3, RunnerInvUnchanged, Zenon
    DEF DaemonInv, DaemonTypeOK, hostVars, mainVars, budgetVars
<1>7. HolderIsAtWork'
  BY <1>3, <1>4
  DEF DaemonInv, DaemonTypeOK, HolderIsAtWork, Interpreting, WorkPC, RunnerInv, RunnerTypeOK
<1>8. OpenConsoleHoldsToken'
  BY <1>3, <1>4, <1>5
  DEF DaemonInv, DaemonTypeOK, OpenConsoleHoldsToken, Interpreting, WorkPC, ConsoleOpen
<1>9. WorkerChannelLives' /\ StreamLives'
  BY <1>3 DEF DaemonInv, DaemonTypeOK, WorkerChannelLives, StreamLives, Joined, mainVars
<1>10. MainLocals' /\ WorkerLocals' /\ CondemnedAreKilled'
  BY <1>3, <1>4, Zenon DEF DaemonInv, DaemonTypeOK, MainLocals, WorkerLocals, CondemnedAreKilled, mainVars
<1> QED BY <1>6, <1>7, <1>8, <1>9, <1>10 DEF DaemonInv

\* Every step of a worker thread preserves the invariant.
LEMMA WorkerStepInv ==
  ASSUME NEW p \in Sessions, DaemonInv, WorkerStep(p)
  PROVE  DaemonInv'
  BY EnterInv, ReadInv, YieldTokenInv, WakeUpInv, RejoinInv, PopInv, MoveOnInv, KillLineInv,
     KillUnbindInv, KillQueueInv, KillNowInv, EndExclusiveInv, ExitInv
  DEF WorkerStep
=============================================================================
