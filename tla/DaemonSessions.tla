--------------------------- MODULE DaemonSessions ---------------------------
(***************************************************************************)
(* The service daemon's sessions while it runs: the main thread's poll     *)
(* loop (GeminiDaemonRunner::run and the attach, detach, input and         *)
(* shutdown requests DaemonIpcServer dispatches), one worker thread per    *)
(* attached session (startSessionWorker), the input half of the            *)
(* IpcSessionChannel between them, and the CooperativeSessionRunner they   *)
(* share.  Steps of the threads interleave at every unlock of a mutex and  *)
(* at every wait.                                                          *)
(*                                                                         *)
(* A connection stands for the console process and the server's Connection *)
(* for it; each attach gives it a new channel.  Console input is a stream  *)
(* of chunks: "line" ends a line, "part" does not.  What a line says is    *)
(* the choice of a command in TclLine.                                     *)
(***************************************************************************)
EXTENDS CooperativeRunner, Sequences, Functions

CONSTANTS
    Conns, NoConn,  \* the connections, and the null channel pointer
    Chunks,         \* the input chunks consoles send, among "part" and "line"
    Commands,       \* the commands lines may name, among TclCommands
    MaxInputs,      \* bound on SessionInput frames
    MaxAttaches,    \* bound on AttachSession and ReserveSession frames
    MaxKills,       \* bound on KILLSESSION commands
    MaySignal       \* whether SIGTERM or a ShutdownRequest may arrive

TclCommands == {"other", "QUIT", "LOGOFF", "SHUTDOWN", "KILLSESSION"}

ASSUME ConnsAssumption == NoConn \notin Conns
ASSUME InputAssumption == Chunks \subseteq {"part", "line"} /\ Commands \subseteq TclCommands
ASSUME BoundsAssumption ==
    /\ MaxInputs \in Nat /\ MaxAttaches \in Nat /\ MaxKills \in Nat
    /\ MaySignal \in BOOLEAN

VARIABLES
    (* IpcSessionChannel, one per connection *)
    queue,      \* inputQueue_
    closed,     \* closed_
    sched,      \* scheduling_: the session it yields and resumes, or NoSession
    (* DaemonIpcServer::Connection *)
    attached,   \* attachedPort, or NoSession
    (* GeminiSessionHost and the sessions *)
    table,      \* the ports of the session table
    loggedIn,   \* GeminiSession::loggedIn
    inStream,   \* GeminiSession's input stream: the channel's, or NoConn
    (* GeminiDaemonRunner *)
    bound,      \* boundSessionPorts_
    boundChan,  \* boundChannels_
    threads,    \* the keys of sessionWorkerThreads_
    pending,    \* pendingDestroyPorts_
    stopRequested, \* shutdownRequested
    (* the worker threads *)
    wpc,        \* where each is; "none" before it starts and once joined
    wchan,      \* the stream its login or REPL reads
    partial,    \* whether getline has read part of a line
    eof,        \* whether the stream has failed (eofbit or badbit)
    after,      \* where the worker goes once runExclusive returns
    victim,     \* the port its KILLSESSION is about
    (* the main thread *)
    mpc,        \* where it is
    mconn,      \* the connection it is serving
    mport,      \* the port it is attaching, detaching or destroying
    mwork,      \* drainPendingSessionDestroys: ports still to visit
    deferred,   \* drainPendingSessionDestroys: deferred
    stopping,   \* 0 in the loop, 1 and 2 in the two drains after it
    (* history and budgets *)
    killed,     \* the ports some KILLSESSION has named
    inputs, attaches, kills

chanVars   == <<queue, closed, sched>>
hostVars   == <<table, loggedIn>>
bindVars   == <<inStream, bound, boundChan, threads>>
workerVars == <<wpc, wchan, partial, eof, after, victim>>
mainVars   == <<mpc, mconn, mport, mwork, deferred, stopping>>
budgetVars == <<killed, inputs, attaches, kills>>
daemonVars == <<runnerVars, chanVars, attached, hostVars, bindVars, pending,
                stopRequested, workerVars, mainVars, budgetVars>>

WorkerPC == {"none", "begin", "acquire", "read", "blocked", "yield", "wait",
             "rejoin", "pop", "exec", "killUnbind", "killQueue", "killNow",
             "tail", "exit", "done"}
MainPC == {"poll", "resume", "attachJoin", "detachClose", "detachJoin",
           "detachRetire", "drain", "drainJoin", "drainDestroy",
           "stopDetach", "stopJoin", "halt"}

DaemonInit ==
    /\ RunnerInit
    /\ queue = [c \in Conns |-> <<>>]
    /\ closed = [c \in Conns |-> TRUE]
    /\ sched = [c \in Conns |-> NoSession]
    /\ attached = [c \in Conns |-> NoSession]
    /\ table = {}
    /\ loggedIn = [p \in Sessions |-> FALSE]
    /\ inStream = [p \in Sessions |-> NoConn]
    /\ bound = {}
    /\ boundChan = [p \in Sessions |-> NoConn]
    /\ threads = {}
    /\ pending = <<>>
    /\ stopRequested = FALSE
    /\ wpc = [p \in Sessions |-> "none"]
    /\ wchan = [p \in Sessions |-> NoConn]
    /\ partial = [p \in Sessions |-> FALSE]
    /\ eof = [p \in Sessions |-> FALSE]
    /\ after = [p \in Sessions |-> "exit"]
    /\ victim = [p \in Sessions |-> NoSession]
    /\ mpc = "poll" /\ mconn = NoConn /\ mport = NoSession
    /\ mwork = <<>> /\ deferred = <<>> /\ stopping = 0
    /\ killed = {} /\ inputs = 0 /\ attaches = 0 /\ kills = 0

-----------------------------------------------------------------------------
(* The worker thread of session p: startSessionWorker's lambda.            *)

Goto(p, there) == wpc' = [wpc EXCEPT ![p] = there]

\* The callback of runExclusive returns; the worker then goes on at next.
LeaveExclusive(p, next) ==
    /\ Goto(p, "tail")
    /\ after' = [after EXCEPT ![p] = next]

\* The top of the loop: find the session, then log in or start the REPL.
Begin(p) ==
    /\ wpc[p] = "begin"
    /\ Goto(p, IF p \in table THEN "acquire" ELSE "exit")
    /\ UNCHANGED <<runnerVars, chanVars, attached, hostVars, bindVars, pending, stopRequested,
                   wchan, partial, eof, after, victim, mainVars, budgetVars>>

\* runExclusive gets the token; its callback takes the session's input stream.
Enter(p) ==
    /\ wpc[p] = "acquire"
    /\ Acquire(p)
    /\ Goto(p, "read")
    /\ wchan' = [wchan EXCEPT ![p] = inStream[p]]
    /\ UNCHANGED <<chanVars, attached, hostVars, bindVars, pending, stopRequested,
                   partial, eof, after, victim, mainVars, budgetVars>>

\* readInputChar returns the next chunk of the channel to getline.
Consume(p) ==
    LET c == wchan[p] IN
    /\ queue[c] # <<>>
    /\ queue' = [queue EXCEPT ![c] = Tail(@)]
    /\ partial' = [partial EXCEPT ![p] = (Head(queue[c]) = "part")]
    /\ Goto(p, IF Head(queue[c]) = "part" THEN "read" ELSE "exec")
    /\ UNCHANGED <<eof, after>>

\* readInputChar returns EOF: getline still delivers a line it has begun.
EndOfInput(p) ==
    /\ eof' = [eof EXCEPT ![p] = TRUE]
    /\ partial' = [partial EXCEPT ![p] = FALSE]
    /\ IF partial[p]
       THEN Goto(p, "exec") /\ UNCHANGED after
       ELSE LeaveExclusive(p, "exit")
    /\ UNCHANGED queue

\* getline on a stream that has failed, or on the daemon's own stdin.
ReadFails(p) ==
    /\ LeaveExclusive(p, "exit")
    /\ UNCHANGED <<queue, partial, eof>>

\* Faulty variant: a prompt waits for its input without yielding.
ReadWithoutYield(p) ==
    LET c == wchan[p] IN
    /\ wpc[p] = "read"
    /\ IF eof[p] \/ c = NoConn THEN ReadFails(p)
       ELSE IF queue[c] # <<>> THEN Consume(p)
       ELSE IF closed[c] THEN EndOfInput(p)
       ELSE Goto(p, "blocked") /\ UNCHANGED <<queue, partial, eof, after>>
    /\ UNCHANGED <<runnerVars, closed, sched, attached, hostVars, bindVars, pending,
                   stopRequested, wchan, victim, mainVars, budgetVars>>

\* readInputChar up to the unlock before the yield.
Read(p) ==
    LET c == wchan[p] IN
    /\ wpc[p] = "read"
    /\ IF eof[p] \/ c = NoConn THEN ReadFails(p)
       ELSE IF queue[c] # <<>> THEN Consume(p)
       ELSE IF closed[c] THEN EndOfInput(p)
       ELSE /\ Goto(p, IF sched[c] = NoSession THEN "blocked" ELSE "yield")
            /\ UNCHANGED <<queue, partial, eof, after>>
    /\ UNCHANGED <<runnerVars, closed, sched, attached, hostVars, bindVars, pending,
                   stopRequested, wchan, victim, mainVars, budgetVars>>

\* The wait of a channel without scheduling, which keeps the token.
Blocked(p) ==
    /\ wpc[p] = "blocked"
    /\ closed[wchan[p]] \/ queue[wchan[p]] # <<>>
    /\ Goto(p, "read")
    /\ UNCHANGED <<runnerVars, chanVars, attached, hostVars, bindVars, pending, stopRequested,
                   wchan, partial, eof, after, victim, mainVars, budgetVars>>

\* yieldBeforeBlockingRead.  A session that lost the token meanwhile gets a
\* logic_error, which getline turns into badbit: the read fails.
YieldToken(p) ==
    /\ wpc[p] = "yield"
    /\ IF active = p /\ depth > 0
       THEN /\ YieldWaitingForInput(p)
            /\ Goto(p, "wait")
            /\ UNCHANGED <<eof, after>>
       ELSE /\ eof' = [eof EXCEPT ![p] = TRUE]
            /\ LeaveExclusive(p, "exit")
            /\ UNCHANGED runnerVars
    /\ UNCHANGED <<chanVars, attached, hostVars, bindVars, pending, stopRequested,
                   wchan, partial, victim, mainVars, budgetVars>>

\* The wait for input or close; at end of input the token is not taken again.
WakeUp(p) ==
    LET c == wchan[p] IN
    /\ wpc[p] = "wait"
    /\ closed[c] \/ queue[c] # <<>>
    /\ IF queue[c] = <<>> THEN EndOfInput(p)
       ELSE Goto(p, "rejoin") /\ UNCHANGED <<queue, partial, eof, after>>
    /\ UNCHANGED <<runnerVars, closed, sched, attached, hostVars, bindVars, pending,
                   stopRequested, wchan, victim, mainVars, budgetVars>>

\* Faulty variant: the reader goes on without the token.
RejoinWithoutToken(p) ==
    /\ wpc[p] = "rejoin"
    /\ Goto(p, "pop")
    /\ UNCHANGED <<runnerVars, chanVars, attached, hostVars, bindVars, pending, stopRequested,
                   wchan, partial, eof, after, victim, mainVars, budgetVars>>

\* acquireAfterWake.
Rejoin(p) ==
    /\ wpc[p] = "rejoin"
    /\ AcquireAfterInputWake(p)
    /\ Goto(p, "pop")
    /\ UNCHANGED <<chanVars, attached, hostVars, bindVars, pending, stopRequested,
                   wchan, partial, eof, after, victim, mainVars, budgetVars>>

Pop(p) ==
    /\ wpc[p] = "pop"
    /\ Consume(p)
    /\ UNCHANGED <<runnerVars, closed, sched, attached, hostVars, bindVars, pending,
                   stopRequested, wchan, victim, mainVars, budgetVars>>

\* A line at the logon prompt: accepted, or the prompt is repeated.
LogonLine(p) ==
    /\ wpc[p] = "exec" /\ ~loggedIn[p]
    /\ \/ LeaveExclusive(p, "acquire")
       \/ Goto(p, "read") /\ UNCHANGED after
    /\ UNCHANGED <<runnerVars, chanVars, attached, hostVars, bindVars, pending, stopRequested,
                   wchan, partial, eof, victim, mainVars, budgetVars>>

\* A line at the TCL prompt that leaves the other sessions alone: an ordinary
\* command or BASIC program, QUIT, LOGOFF, or SHUTDOWN.
TclLine(p, command) ==
    /\ wpc[p] = "exec" /\ loggedIn[p]
    /\ command \in Commands \ {"KILLSESSION"}
    /\ IF command = "other" THEN Goto(p, "read") /\ UNCHANGED after
       ELSE LeaveExclusive(p, IF command = "LOGOFF" THEN "begin" ELSE "exit")
    /\ loggedIn' = [loggedIn EXCEPT ![p] = command # "LOGOFF"]
    /\ stopRequested' = (stopRequested \/ command = "SHUTDOWN")
    /\ UNCHANGED <<runnerVars, chanVars, attached, table, bindVars, pending,
                   wchan, partial, eof, victim, mainVars, budgetVars>>

\* KILLSESSION q, up to the choice killSession makes between its three ways.
KillLine(p, q) ==
    /\ wpc[p] = "exec" /\ loggedIn[p]
    /\ "KILLSESSION" \in Commands /\ kills < MaxKills
    /\ q \in table \ {p}
    /\ Goto(p, IF q \in bound THEN "killUnbind"
               ELSE IF q \in threads THEN "killQueue" ELSE "killNow")
    /\ victim' = [victim EXCEPT ![p] = q]
    /\ killed' = killed \cup {q}
    /\ kills' = kills + 1
    /\ UNCHANGED <<runnerVars, chanVars, attached, hostVars, bindVars, pending, stopRequested,
                   wchan, partial, eof, after, mainVars, inputs, attaches>>

\* Faulty variant: the console is unbound and its channel left open.
KillUnbindKeepsOpen(p) ==
    LET q == victim[p]
        c == boundChan[q]
    IN
    /\ wpc[p] = "killUnbind"
    /\ Goto(p, "killQueue")
    /\ sched' = [d \in Conns |-> IF d = c THEN NoSession ELSE sched[d]]
    /\ boundChan' = [boundChan EXCEPT ![q] = NoConn]
    /\ bound' = bound \ {q}
    /\ inStream' = [inStream EXCEPT ![q] = NoConn]
    /\ UNCHANGED <<runnerVars, queue, closed, attached, hostVars, threads, pending, stopRequested,
                   wchan, partial, eof, after, victim, mainVars, budgetVars>>

\* unbindConsoleWithoutJoin.
KillUnbind(p) ==
    LET q == victim[p]
        c == boundChan[q]
    IN
    /\ wpc[p] = "killUnbind"
    /\ Goto(p, "killQueue")
    /\ sched' = [d \in Conns |-> IF d = c THEN NoSession ELSE sched[d]]
    /\ closed' = [d \in Conns |-> d = c \/ closed[d]]
    /\ boundChan' = [boundChan EXCEPT ![q] = NoConn]
    /\ bound' = bound \ {q}
    /\ inStream' = [inStream EXCEPT ![q] = NoConn]
    /\ UNCHANGED <<runnerVars, queue, attached, hostVars, threads, pending, stopRequested,
                   wchan, partial, eof, after, victim, mainVars, budgetVars>>

\* The victim is retired and queued for destruction by the main thread.
KillQueue(p) ==
    /\ wpc[p] = "killQueue"
    /\ RetireSession(victim[p])
    /\ pending' = Append(pending, victim[p])
    /\ Goto(p, "read")
    /\ victim' = [victim EXCEPT ![p] = NoSession]
    /\ UNCHANGED <<chanVars, attached, hostVars, bindVars, stopRequested,
                   wchan, partial, eof, after, mainVars, budgetVars>>

\* destroySession: the entry of the table goes and its port is free again.
DestroySession(q) ==
    /\ table' = table \ {q}
    /\ loggedIn' = [loggedIn EXCEPT ![q] = FALSE]

\* A victim without console and worker is destroyed on the killer's thread.
KillNow(p) ==
    /\ wpc[p] = "killNow"
    /\ RetireSession(victim[p])
    /\ DestroySession(victim[p])
    /\ inStream' = [inStream EXCEPT ![victim[p]] = NoConn]
    /\ Goto(p, "read")
    /\ victim' = [victim EXCEPT ![p] = NoSession]
    /\ UNCHANGED <<chanVars, attached, bound, boundChan, threads, pending, stopRequested,
                   wchan, partial, eof, after, mainVars, budgetVars>>

\* The end of runExclusive; after a logon, GeminiSession::attach follows.
EndExclusive(p) ==
    /\ wpc[p] = "tail"
    /\ RunExclusiveTail(p)
    /\ Goto(p, after[p])
    /\ after' = [after EXCEPT ![p] = "exit"]
    /\ wchan' = [wchan EXCEPT ![p] = NoConn]
    /\ loggedIn' = [loggedIn EXCEPT ![p] = @ \/ after[p] = "acquire"]
    /\ UNCHANGED <<chanVars, attached, table, bindVars, pending, stopRequested,
                   partial, eof, victim, mainVars, budgetVars>>

\* RetireOnExit, and the thread ends.
Exit(p) ==
    /\ wpc[p] = "exit"
    /\ RetireSession(p)
    /\ Goto(p, "done")
    /\ partial' = [partial EXCEPT ![p] = FALSE]
    /\ eof' = [eof EXCEPT ![p] = FALSE]
    /\ UNCHANGED <<chanVars, attached, hostVars, bindVars, pending, stopRequested,
                   wchan, after, victim, mainVars, budgetVars>>

WorkerStep(p) ==
    \/ Begin(p) \/ Enter(p) \/ Read(p) \/ Blocked(p) \/ YieldToken(p) \/ WakeUp(p)
    \/ Rejoin(p) \/ Pop(p) \/ LogonLine(p)
    \/ \E command \in TclCommands : TclLine(p, command)
    \/ \E q \in Sessions : KillLine(p, q)
    \/ KillUnbind(p) \/ KillQueue(p) \/ KillNow(p) \/ EndExclusive(p) \/ Exit(p)

-----------------------------------------------------------------------------
(* The main thread: GeminiDaemonRunner::run.                               *)

\* SessionTable::createSession gives the lowest free port (PortManager).
FreePorts == Sessions \ table

\* ReserveSession: a session without a console.
Reserve ==
    /\ mpc = "poll" /\ attaches < MaxAttaches
    /\ FreePorts # {}
    /\ table' = table \cup {Least(FreePorts)}
    /\ attaches' = attaches + 1
    /\ UNCHANGED <<runnerVars, chanVars, attached, loggedIn, bindVars, pending, stopRequested,
                   workerVars, mainVars, killed, inputs, kills>>

\* attachSession up to the join in startSessionWorker: the connection's new
\* channel becomes the session's stream and is bound to it.
Bind(c, p) ==
    /\ mpc = "poll" /\ attaches < MaxAttaches
    /\ attached[c] = NoSession
    /\ p \notin bound
    /\ queue' = [queue EXCEPT ![c] = <<>>]
    /\ closed' = [closed EXCEPT ![c] = FALSE]
    /\ sched' = [sched EXCEPT ![c] = p]
    /\ inStream' = [inStream EXCEPT ![p] = c]
    /\ bound' = bound \cup {p}
    /\ boundChan' = [boundChan EXCEPT ![p] = c]
    /\ threads' = threads \ {p}
    /\ mpc' = "attachJoin" /\ mconn' = c /\ mport' = p
    /\ attaches' = attaches + 1
    /\ UNCHANGED <<runnerVars, attached, loggedIn, pending, stopRequested, workerVars,
                   mwork, deferred, stopping, killed, inputs, kills>>

\* AttachSession for a session that exists.
AttachTo(c, p) == p \in table /\ Bind(c, p) /\ UNCHANGED table

\* AttachSession for port 0: a new session.  It is created before the port is
\* looked up in boundSessionPorts_, and stays when that refuses the attach.
AttachNew(c) ==
    LET p == Least(FreePorts) IN
    /\ FreePorts # {} /\ attached[c] = NoSession
    /\ IF p \in bound THEN Reserve
       ELSE Bind(c, p) /\ table' = table \cup {p}

\* A request has been served.
MainReturns(there) == mpc' = there /\ mconn' = NoConn /\ mport' = NoSession

\* joinSessionWorker returns at once or waits for the thread to end.
Joined(p) == wpc[p] \in {"none", "done"}

\* The rest of startSessionWorker, and the acknowledgement of the attach.
StartWorker ==
    /\ mpc = "attachJoin" /\ Joined(mport)
    /\ wpc' = [wpc EXCEPT ![mport] = "begin"]
    /\ threads' = threads \cup {mport}
    /\ attached' = [attached EXCEPT ![mconn] = mport]
    /\ MainReturns("poll")
    /\ UNCHANGED <<runnerVars, chanVars, hostVars, inStream, bound, boundChan, pending,
                   stopRequested, wchan, partial, eof, after, victim, mwork, deferred,
                   stopping, budgetVars>>

\* SessionInput: pushInput queues the bytes, unless the channel is closed.
PushInput(c, chunk) ==
    /\ mpc = "poll" /\ inputs < MaxInputs
    /\ attached[c] # NoSession /\ ~closed[c]
    /\ queue' = [queue EXCEPT ![c] = Append(@, chunk)]
    /\ inputs' = inputs + 1
    /\ mpc' = "resume" /\ mconn' = c
    /\ UNCHANGED <<runnerVars, closed, sched, attached, hostVars, bindVars, pending,
                   stopRequested, workerVars, mport, mwork, deferred, stopping,
                   killed, attaches, kills>>

\* The rest of pushInput: resumeOnInput, after the unlock.
ResumeReader ==
    /\ mpc = "resume"
    /\ IF sched[mconn] = NoSession THEN UNCHANGED runnerVars ELSE Resume(sched[mconn])
    /\ MainReturns("poll")
    /\ UNCHANGED <<chanVars, attached, hostVars, bindVars, pending, stopRequested, workerVars,
                   mwork, deferred, stopping, budgetVars>>

\* The channels a detach closes: the connection's and the port's bound one.
Closing(c, p) == {c, boundChan[p]} \ {NoConn}

\* detachConnection and detachSession first clear the channel's scheduling.
ClearScheduling(c, p) ==
    /\ sched' = [d \in Conns |-> IF d \in Closing(c, p) THEN NoSession ELSE sched[d]]
    /\ mpc' = "detachClose" /\ mconn' = c /\ mport' = p
    /\ UNCHANGED <<runnerVars, queue, closed, attached, hostVars, bindVars, pending,
                   stopRequested, workerVars, mwork, deferred, stopping, budgetVars>>

\* DetachSession, or the connection is gone.
Detach(c) ==
    /\ mpc = "poll"
    /\ attached[c] # NoSession
    /\ ClearScheduling(c, attached[c])

\* shutdown detaches the bound sessions one by one.
StopDetach(p) ==
    /\ mpc = "stopDetach"
    /\ p \in bound
    /\ ClearScheduling(NoConn, p)

\* Faulty variant: the worker is not joined.
DetachWithoutJoin ==
    /\ mpc = "detachClose"
    /\ closed' = [d \in Conns |-> d \in Closing(mconn, mport) \/ closed[d]]
    /\ boundChan' = [boundChan EXCEPT ![mport] = NoConn]
    /\ threads' = threads \ {mport}
    /\ mpc' = "detachRetire"
    /\ UNCHANGED <<runnerVars, queue, sched, attached, hostVars, inStream, bound, pending,
                   stopRequested, workerVars, mconn, mport, mwork, deferred, stopping, budgetVars>>

\* Faulty variant: the channel loses its scheduling and stays open.
DetachKeepsOpen ==
    /\ mpc = "detachClose"
    /\ boundChan' = [boundChan EXCEPT ![mport] = NoConn]
    /\ threads' = threads \ {mport}
    /\ mpc' = "detachJoin"
    /\ UNCHANGED <<runnerVars, queue, closed, sched, attached, hostVars, inStream, bound, pending,
                   stopRequested, workerVars, mconn, mport, mwork, deferred, stopping, budgetVars>>

\* Then the channel is closed and the worker's thread taken from the map.
DetachClose ==
    /\ mpc = "detachClose"
    /\ closed' = [d \in Conns |-> d \in Closing(mconn, mport) \/ closed[d]]
    /\ boundChan' = [boundChan EXCEPT ![mport] = NoConn]
    /\ threads' = threads \ {mport}
    /\ mpc' = "detachJoin"
    /\ UNCHANGED <<runnerVars, queue, sched, attached, hostVars, inStream, bound, pending,
                   stopRequested, workerVars, mconn, mport, mwork, deferred, stopping, budgetVars>>

\* Main waits for a worker and forgets the thread.
Join(here, next) ==
    /\ mpc = here /\ Joined(mport)
    /\ wpc' = [wpc EXCEPT ![mport] = "none"]
    /\ mpc' = next
    /\ UNCHANGED <<runnerVars, chanVars, attached, hostVars, bindVars, pending, stopRequested,
                   wchan, partial, eof, after, victim, mconn, mport, mwork, deferred,
                   stopping, budgetVars>>

DetachJoin == Join("detachJoin", "detachRetire")

\* Faulty variant: the session keeps the stream of the channel it loses.
DetachKeepsStream ==
    /\ mpc = "detachRetire"
    /\ RetireSession(mport)
    /\ bound' = bound \ {mport}
    /\ attached' = [c \in Conns |-> IF c = mconn THEN NoSession ELSE attached[c]]
    /\ MainReturns(IF stopping = 2 THEN "stopDetach" ELSE "poll")
    /\ UNCHANGED <<chanVars, hostVars, inStream, boundChan, threads, pending, stopRequested,
                   workerVars, mwork, deferred, stopping, budgetVars>>

\* The end of detachSession and detachConnection: the channel is destroyed.
DetachRetire ==
    /\ mpc = "detachRetire"
    /\ RetireSession(mport)
    /\ bound' = bound \ {mport}
    /\ inStream' = [inStream EXCEPT ![mport] = NoConn]
    /\ attached' = [c \in Conns |-> IF c = mconn THEN NoSession ELSE attached[c]]
    /\ MainReturns(IF stopping = 2 THEN "stopDetach" ELSE "poll")
    /\ UNCHANGED <<chanVars, hostVars, boundChan, threads, pending, stopRequested, workerVars,
                   mwork, deferred, stopping, budgetVars>>

\* SIGTERM, SIGINT or a ShutdownRequest frame.
Signal ==
    /\ MaySignal /\ ~stopRequested
    /\ stopRequested' = TRUE
    /\ UNCHANGED <<runnerVars, chanVars, attached, hostVars, bindVars, pending, workerVars,
                   mainVars, budgetVars>>

\* drainPendingSessionDestroys takes the whole queue.
SwapPending ==
    /\ mwork' = pending
    /\ pending' = <<>>
    /\ deferred' = <<>>
    /\ mpc' = "drain"

\* pollAndDispatch returns: the loop goes round, or ends with the first drain.
EndPoll ==
    /\ mpc = "poll"
    /\ SwapPending
    /\ stopping' = IF stopRequested THEN 1 ELSE 0
    /\ UNCHANGED <<runnerVars, chanVars, attached, hostVars, bindVars, stopRequested,
                   workerVars, mconn, mport, budgetVars>>

\* A port waits while another session holds the token; otherwise its worker's
\* thread is taken from the map to be joined.
DrainVisit ==
    LET p == Head(mwork) IN
    /\ mpc = "drain" /\ mwork # <<>>
    /\ mwork' = Tail(mwork)
    /\ IF active \notin {NoSession, p}
       THEN /\ deferred' = Append(deferred, p)
            /\ UNCHANGED <<threads, mpc, mport>>
       ELSE /\ threads' = threads \ {p}
            /\ mpc' = "drainJoin" /\ mport' = p
            /\ UNCHANGED deferred
    /\ UNCHANGED <<runnerVars, chanVars, attached, hostVars, inStream, bound, boundChan,
                   pending, stopRequested, workerVars, mconn, stopping, budgetVars>>

DrainJoin == Join("drainJoin", "drainDestroy")

DrainDestroy ==
    /\ mpc = "drainDestroy"
    /\ RetireSession(mport)
    /\ DestroySession(mport)
    /\ inStream' = [inStream EXCEPT ![mport] = NoConn]
    /\ MainReturns("drain")
    /\ UNCHANGED <<chanVars, attached, bound, boundChan, threads, pending, stopRequested,
                   workerVars, mwork, deferred, stopping, budgetVars>>

\* The drain ends; run drains once more before shutdown detaches.
DrainEnd ==
    /\ mpc = "drain" /\ mwork = <<>>
    /\ IF stopping = 1
       THEN /\ mwork' = pending \o deferred
            /\ pending' = <<>>
            /\ mpc' = "drain"
            /\ stopping' = 2
       ELSE /\ pending' = pending \o deferred
            /\ mpc' = IF stopping = 2 THEN "stopDetach" ELSE "poll"
            /\ UNCHANGED <<mwork, stopping>>
    /\ deferred' = <<>>
    /\ UNCHANGED <<runnerVars, chanVars, attached, hostVars, bindVars, stopRequested,
                   workerVars, mconn, mport, budgetVars>>

\* Faulty variant: the workers are joined without detaching the sessions.
StopJoinEarly ==
    /\ mpc = "stopDetach"
    /\ threads' = {}
    /\ mpc' = "stopJoin"
    /\ UNCHANGED <<runnerVars, chanVars, attached, hostVars, inStream, bound, boundChan,
                   pending, stopRequested, workerVars, mconn, mport, mwork, deferred,
                   stopping, budgetVars>>

\* boundSessionPorts_ is empty: joinAllSessionWorkers takes every thread.
StopJoin ==
    /\ mpc = "stopDetach" /\ bound = {}
    /\ threads' = {}
    /\ mpc' = "stopJoin"
    /\ UNCHANGED <<runnerVars, chanVars, attached, hostVars, inStream, bound, boundChan,
                   pending, stopRequested, workerVars, mconn, mport, mwork, deferred,
                   stopping, budgetVars>>

\* Every worker is joined; the server stops and all sessions are destroyed.
Halt ==
    /\ mpc = "stopJoin"
    /\ \A p \in Sessions : Joined(p)
    /\ wpc' = [p \in Sessions |-> "none"]
    /\ sched' = [c \in Conns |-> NoSession]
    /\ closed' = [c \in Conns |-> TRUE]
    /\ attached' = [c \in Conns |-> NoSession]
    /\ table' = {}
    /\ loggedIn' = [p \in Sessions |-> FALSE]
    /\ inStream' = [p \in Sessions |-> NoConn]
    /\ mpc' = "halt"
    /\ UNCHANGED <<runnerVars, queue, bound, boundChan, threads, pending, stopRequested,
                   wchan, partial, eof, after, victim, mconn, mport, mwork, deferred,
                   stopping, budgetVars>>

\* What the main thread does by itself once a request has reached it.
MainStep ==
    \/ StartWorker \/ ResumeReader \/ DetachClose \/ DetachJoin \/ DetachRetire
    \/ EndPoll \/ DrainVisit \/ DrainJoin \/ DrainDestroy \/ DrainEnd
    \/ \E p \in Sessions : StopDetach(p)
    \/ StopJoin \/ Halt

\* What consoles and the operator may ask of it.
Request ==
    \/ Reserve
    \/ \E c \in Conns, p \in Sessions : AttachTo(c, p)
    \/ \E c \in Conns : AttachNew(c)
    \/ \E c \in Conns, chunk \in Chunks : PushInput(c, chunk)
    \/ \E c \in Conns : Detach(c)
    \/ Signal

DaemonNext == Request \/ MainStep \/ \E p \in Sessions : WorkerStep(p)

DaemonSpec == DaemonInit /\ [][DaemonNext]_daemonVars

\* Every thread keeps running; consoles and operators need not do anything.
FairDaemonSpec ==
    /\ DaemonSpec
    /\ WF_daemonVars(MainStep)
    /\ \A p \in Sessions : WF_daemonVars(WorkerStep(p))

-----------------------------------------------------------------------------
(* Properties.                                                             *)

\* The state of the daemon is well formed, the runner's invariant included.
DaemonTypeOK ==
    /\ RunnerInv
    /\ queue \in [Conns -> Seq({"part", "line"})]
    /\ closed \in [Conns -> BOOLEAN]
    /\ sched \in [Conns -> Sessions \cup {NoSession}]
    /\ attached \in [Conns -> Sessions \cup {NoSession}]
    /\ table \in SUBSET Sessions
    /\ loggedIn \in [Sessions -> BOOLEAN]
    /\ inStream \in [Sessions -> Conns \cup {NoConn}]
    /\ bound \in SUBSET Sessions
    /\ boundChan \in [Sessions -> Conns \cup {NoConn}]
    /\ threads \in SUBSET Sessions
    /\ pending \in Seq(Sessions)
    /\ stopRequested \in BOOLEAN
    /\ wpc \in [Sessions -> WorkerPC]
    /\ wchan \in [Sessions -> Conns \cup {NoConn}]
    /\ partial \in [Sessions -> BOOLEAN]
    /\ eof \in [Sessions -> BOOLEAN]
    /\ after \in [Sessions -> {"acquire", "begin", "exit"}]
    /\ victim \in [Sessions -> Sessions \cup {NoSession}]
    /\ mpc \in MainPC
    /\ mconn \in Conns \cup {NoConn}
    /\ mport \in Sessions \cup {NoSession}
    /\ mwork \in Seq(Sessions)
    /\ deferred \in Seq(Sessions)
    /\ stopping \in 0..2
    /\ killed \in SUBSET Sessions
    /\ inputs \in 0..MaxInputs
    /\ attaches \in 0..MaxAttaches
    /\ kills \in 0..MaxKills

\* The worker is inside runExclusive's callback and not waiting for input.
WorkPC == {"read", "blocked", "yield", "pop", "exec",
           "killUnbind", "killQueue", "killNow", "tail"}
Interpreting(p) == wpc[p] \in WorkPC

\* The worker reads the channel of a console that has not been closed.
ConsoleOpen(p) == wchan[p] # NoConn /\ ~closed[wchan[p]]

\* The token is never left with a thread that cannot give it back: its holder
\* is a worker inside runExclusive, which has acquired it once.
HolderIsAtWork == active # NoSession => depth = 1 /\ Interpreting(active)

\* A session whose console is open does interpreter work only with the token,
\* so of all such sessions at most one is at work, across yields, wake-ups,
\* attaches and detaches, and kills of other sessions.  (A KILLSESSION of this
\* session may take the token from a worker it has not made stop.)
OpenConsoleHoldsToken ==
    \A p \in Sessions \ killed : Interpreting(p) /\ ConsoleOpen(p) => active = p

\* A worker's channel is not destroyed under it: the connection that owns the
\* channel is still attached to the worker's session, or being attached.
WorkerChannelLives ==
    \A p \in Sessions :
        ~Joined(p) /\ wchan[p] # NoConn =>
            \/ attached[wchan[p]] = p
            \/ mpc = "attachJoin" /\ mconn = wchan[p] /\ mport = p

\* The same of the stream that a session's next login or REPL will read.
StreamLives ==
    \A p \in Sessions :
        inStream[p] # NoConn =>
            \/ attached[inStream[p]] = p
            \/ mpc = "attachJoin" /\ mconn = inStream[p] /\ mport = p

\* What the main thread's locals mean where it uses them.
MainLocals ==
    /\ mpc \in {"resume", "attachJoin"} => mconn \in Conns
    /\ mpc \in {"attachJoin", "detachClose", "detachJoin", "detachRetire",
               "drainJoin", "drainDestroy"} => mport \in Sessions
    /\ mpc = "attachJoin" => attached[mconn] = NoSession
    /\ mpc \in {"detachClose", "detachJoin", "detachRetire"} /\ mconn # NoConn =>
           attached[mconn] = mport
    /\ mpc \in {"detachRetire", "drainDestroy"} => wpc[mport] = "none"
    /\ mpc \in {"drainJoin", "drainDestroy"} => mport \in killed

\* What a worker's locals mean where it uses them.
WorkerLocals ==
    \A p \in Sessions :
        /\ wpc[p] \in {"blocked", "yield", "wait", "rejoin", "pop"} => wchan[p] # NoConn
        /\ wpc[p] \in {"none", "begin", "acquire", "exit", "done"} => wchan[p] = NoConn
        /\ wpc[p] \in {"killUnbind", "killQueue", "killNow"} => victim[p] \in killed

\* Only sessions that a KILLSESSION has named are queued for destruction.
CondemnedAreKilled ==
    /\ pending \in Seq(killed)
    /\ mwork \in Seq(killed)
    /\ deferred \in Seq(killed)

\* The inductive invariant behind HolderIsAtWork, OpenConsoleHoldsToken and
\* WorkerChannelLives.
DaemonInv ==
    /\ DaemonTypeOK
    /\ HolderIsAtWork
    /\ OpenConsoleHoldsToken
    /\ WorkerChannelLives
    /\ StreamLives
    /\ MainLocals
    /\ WorkerLocals
    /\ CondemnedAreKilled

\* At most one live console per session: a connection with an open channel is
\* the one boundChannels_ holds for its session.
OpenChannelIsBound ==
    \A c \in Conns :
        attached[c] # NoSession /\ ~closed[c] =>
            attached[c] \in bound /\ boundChan[attached[c]] = c

\* The sessions whose destruction the main thread has been asked for, and all
\* that a KILLSESSION has condemned and that are not yet gone.
Queued == Range(pending) \cup Range(mwork) \cup Range(deferred)
Condemned == Queued \cup {victim[p] : p \in Sessions}

\* Detaching is complete: a session without a console, unless it is being
\* killed, has no worker, no token and no entry in the round robin.
DetachedIsIdle ==
    mpc = "poll" =>
        \A p \in Sessions \ (bound \cup Condemned) :
            Joined(p) /\ active # p /\ runStates[p] = "Absent"

\* After the shutdown nothing is left: no worker, session, binding or token.
HaltIsClean ==
    mpc = "halt" =>
        /\ table = {} /\ bound = {} /\ threads = {}
        /\ active = NoSession
        /\ \A p \in Sessions : /\ wpc[p] = "none"
                               /\ runStates[p] = "Absent"
                               /\ boundChan[p] = NoConn

\* The inductive invariant behind OpenChannelIsBound: a bound channel belongs
\* to a bound session, a channel schedules the session it is bound to, and a
\* session that is being detached loses the scheduling and then the channel.
BindingInv ==
    /\ \A p \in Sessions : boundChan[p] # NoConn => p \in bound
    /\ \A c \in Conns : sched[c] # NoSession => boundChan[sched[c]] = c
    /\ mpc = "attachJoin" /\ ~closed[mconn] => boundChan[mport] = mconn
    /\ mpc = "detachClose" => \A c \in Conns : sched[c] # mport
    /\ mpc \in {"detachJoin", "detachRetire"} => boundChan[mport] = NoConn
    /\ OpenChannelIsBound

\* Somebody will see to the worker of p: its console's detach, the drain that
\* destroys it, or the killer who has yet to queue it for that drain.
BeingKilled(p) == \E k \in Sessions : victim[k] = p /\ wpc[k] \in {"killUnbind", "killQueue"}
InCustody(p) ==
    \/ p \in bound \/ p \in Queued \/ BeingKilled(p)
    \/ mpc = "drainJoin" /\ mport = p

\* No worker is without a keeper; nor is an entry of the round robin, whose
\* keeper may also be the worker itself or a killer about to retire it.
WorkersInCustody ==
    \A p \in Sessions : ~Joined(p) \/ (mpc = "attachJoin" /\ mport = p) => InCustody(p)
EntriesInCustody ==
    \A p \in Sessions :
        runStates[p] # "Absent" =>
            \/ p \in bound \/ ~Joined(p)
            \/ \E k \in Sessions : victim[k] = p /\ wpc[k] = "killQueue"

\* A drain leaves nothing behind, and shutdown has let go of all it had.
DrainsAreComplete ==
    mpc \notin {"drain", "drainJoin", "drainDestroy"} => mwork = <<>> /\ deferred = <<>>
StopLetsGo ==
    /\ mpc \in {"stopJoin", "halt"} => bound = {} /\ threads = {}
    /\ mpc = "halt" => table = {} /\ \A p \in Sessions : wpc[p] = "none"

\* The inductive invariant behind DetachedIsIdle and HaltIsClean.
CustodyInv == WorkersInCustody /\ EntriesInCustody /\ DrainsAreComplete /\ StopLetsGo

\* No session sits on the token: a prompt that waits for input, a login that
\* fails and a console that goes away all give it back.
TokenIsGivenBack == []<>(active = NoSession)

\* The three ways a thread may wait for good, each for somebody who does not
\* know: a session that asks for the token while the runner takes it to wait
\* for input (its yield has overwritten the wake-up, or end of input woke it
\* from a yield that was not undone), a session whose turn is another's that
\* does not ask for it, and a join of a worker that waits for its console: a
\* port that is killed and attached again before its worker is gone.
Unheard(p) == wpc[p] \in {"acquire", "rejoin"} /\ runStates[p] = "WaitingForInput"
PassedOver(p) ==
    /\ wpc[p] = "acquire" /\ active = NoSession
    /\ NextRunnable(p) \notin {NoSession, p} /\ wpc[NextRunnable(p)] # "acquire"
Obstructed ==
    \/ \E p \in Sessions : Unheard(p) \/ PassedOver(p)
    \/ /\ mpc \in {"attachJoin", "drainJoin"} /\ wpc[mport] = "wait"
       /\ ConsoleOpen(mport) /\ queue[wchan[mport]] = <<>>

\* Detach, attach, KILLSESSION and shutdown join worker threads, on the thread
\* that delivers input and closes consoles.  None of these joins hangs for any
\* other reason than the three above: the main thread always comes back to its
\* poll, or the daemon halts.
MainLoopGoesOn == ([]<>~Obstructed) => []<>(mpc \in {"poll", "halt"})

-----------------------------------------------------------------------------
(* What the documentation says of the daemon, and the code does not do.    *)

\* The worker is running a logon or TCL line.
Executing(p) == wpc[p] \in {"exec", "killUnbind", "killQueue", "killNow"}

\* "Only one session executes interpreter work at any instant" (docs/daemon.md).
\* A reader that end of input wakes from its yield goes on without the token.
OneInterpreter ==
    \A p, q \in Sessions : Executing(p) /\ Executing(q) => p = q

\* "pushInput calls resume; blocked reader wakes" (docs/daemon.md).  A resume
\* that comes before the yield is overwritten by it.
InputWakesReader ==
    \A p \in Sessions : wpc[p] = "rejoin" ~> wpc[p] # "rejoin"
=============================================================================
