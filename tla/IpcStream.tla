----------------------------- MODULE IpcStream -----------------------------
(***************************************************************************)
(* One console's connection from end to end: the console's DaemonIpcClient *)
(* (or any other client of the protocol, as the tests have one), the two   *)
(* directions of its socket, the server's poll loop and dispatchFrame, the *)
(* IpcSessionChannel and the session's thread behind it.                   *)
(*                                                                         *)
(* The three threads interleave at every system call and every mutex.      *)
(* What an attach does to the session table is in DaemonSessions; here its *)
(* outcome is a choice.  A connection attaches successfully once.          *)
(***************************************************************************)
EXTENDS IpcChannel

CONSTANTS
    Clients,       \* the kinds of client, among "console" and "raw"
    RawRequests,   \* the requests a raw client may send
    MaxRequests,   \* bound on the requests of a raw client
    MaxTyped,      \* bound on the input chunks a console sends
    MayStop        \* whether the daemon may shut down

ASSUME StreamAssumption ==
    /\ Clients \subseteq {"console", "raw"} /\ RawRequests \subseteq MessageTypes
    /\ MaxRequests \in Nat /\ MaxTyped \in Nat
    /\ MayStop \in BOOLEAN

VARIABLES
    (* the socket *)
    up,          \* units on their way to the server
    upEnd,       \* whether the client has closed its end
    downEnd,     \* whether the server has
    (* DaemonIpcServer: its Connection and what is left of this poll turn *)
    accepted, handshaken, attached, readBuffer,
    turn,        \* the phases still to run, <<>> in poll()
    (* the channel's input half and the session's thread *)
    input,       \* inputQueue_
    closed,      \* closed_
    worker,      \* "none", "run" or "exited"
    consumed,    \* history: what the session has read
    (* DaemonIpcClient *)
    client,      \* which call it is in
    buffer,      \* readBuffer_
    unsent,      \* pendingWrite_
    shown,       \* what it has written to stdout and stderr
    typed,       \* history: input chunks sent
    requests, attaches

serverVars  == <<accepted, handshaken, attached, readBuffer, turn, attaches>>
sessionVars == <<input, closed, worker, consumed>>
clientVars  == <<client, buffer, unsent, shown, typed, requests>>
socketVars  == <<up, upEnd, downEnd, downVars>>
ipcVars     == <<streamVars, serverVars, sessionVars, clientVars, socketVars>>

IpcInit ==
    /\ ChannelInit
    /\ up = <<>> /\ upEnd = FALSE /\ downEnd = FALSE
    /\ accepted = FALSE /\ handshaken = FALSE /\ attached = FALSE
    /\ readBuffer = <<>> /\ turn = <<>>
    /\ input = <<>> /\ closed = FALSE /\ worker = "none" /\ consumed = <<>>
    /\ client \in Clients
    /\ buffer = <<>> /\ unsent = <<>> /\ shown = [s \in Streams |-> <<>>]
    /\ typed = 0 /\ requests = 0 /\ attaches = 0

-----------------------------------------------------------------------------
(* The session's thread.                                                   *)

\* output() << ... or diagnostic() << ...
Write(s) ==
    /\ worker = "run"
    /\ SessionWrites(s)
    /\ UNCHANGED <<wire, size, flush, serverVars, sessionVars, clientVars, socketVars>>

\* The last byte first.
ReadLast ==
    /\ worker = "run"
    /\ \/ /\ input # <<>>
          /\ consumed' = Append(consumed, input[Len(input)])
          /\ input' = SubSeq(input, 1, Len(input) - 1)
          /\ UNCHANGED worker
       \/ /\ input = <<>> /\ closed
          /\ worker' = "exited"
          /\ UNCHANGED <<consumed, input>>
    /\ UNCHANGED <<streamVars, serverVars, closed, clientVars, socketVars>>

\* readInputChar: the next byte, or end of file once the channel is closed.
Read ==
    /\ worker = "run"
    /\ \/ /\ input # <<>>
          /\ consumed' = Append(consumed, Head(input))
          /\ input' = Tail(input)
          /\ UNCHANGED worker
       \/ /\ input = <<>> /\ closed
          /\ worker' = "exited"
          /\ UNCHANGED <<consumed, input>>
    /\ UNCHANGED <<streamVars, serverVars, closed, clientVars, socketVars>>

-----------------------------------------------------------------------------
(* The server: pollAndDispatch.                                            *)

Phase(p) == turn # <<>> /\ Head(turn) = p
Then(phases) == turn' = phases \o Tail(turn)

\* acceptPendingConnections
Accept ==
    /\ turn = <<>> /\ ~accepted /\ ~downEnd /\ (up # <<>> \/ upEnd)
    /\ accepted' = TRUE
    /\ UNCHANGED <<handshaken, attached, readBuffer, turn, attaches>>
    /\ UNCHANGED <<streamVars, sessionVars, clientVars, socketVars>>

Readable == up # <<>> \/ upEnd
Writable == attached /\ Pending /\ Room > 0

(* removeConnectionAt: an attached connection is detached first, which     *)
(* waits for the worker; phases is what is left of the turn otherwise.     *)
Closing == IF attached THEN <<"join", "close">> ELSE <<"close">>
CloseChannel == closed' = (closed \/ attached)


(* poll() returns: the phases of the turn are those its events call for.   *)
(* A console that has gone raises POLLHUP, which is looked at first; when  *)
(* nothing is ready the turn only flushes.                                 *)
Poll ==
    /\ turn = <<>> /\ accepted
    /\ \/ /\ upEnd
          /\ turn' = Closing
          /\ CloseChannel
       \/ /\ ~upEnd /\ (Readable \/ (attached /\ Pending))
          /\ turn' = (IF Writable THEN <<"flush">> ELSE <<>>)
                     \o (IF Readable THEN <<"read">> ELSE <<>>) \o <<"flush">>
          /\ UNCHANGED closed
    /\ UNCHANGED <<accepted, handshaken, attached, readBuffer, attaches>>
    /\ UNCHANGED <<streamVars, input, worker, consumed, clientVars, socketVars>>

\* requestShutdown from another session or a signal: GeminiDaemonRunner::shutdown.
Shutdown ==
    /\ MayStop
    /\ turn = <<>> /\ accepted
    /\ turn' = Closing
    /\ CloseChannel
    /\ UNCHANGED <<accepted, handshaken, attached, readBuffer, attaches>>
    /\ UNCHANGED <<streamVars, input, worker, consumed, clientVars, socketVars>>

\* flushPendingOutput's loop: return, or take the output queue.
Flush ==
    /\ Phase("flush")
    /\ IF attached /\ Pending
       THEN Then(<<"send">>) /\ Take("out")
       ELSE Then(<<>>) /\ UNCHANGED outputVars
    /\ UNCHANGED <<accepted, handshaken, attached, readBuffer, attaches>>
    /\ UNCHANGED <<written, sessionVars, clientVars, socketVars>>

\* A write takes some units; the socket is full or the peer gone; or a queue is done.
Send ==
    /\ Phase("send")
    /\ \/ ~upEnd /\ WriteSome /\ turn' = turn
       \/ /\ flush.wire # <<>> /\ (upEnd \/ Room = 0)
          /\ PutBack /\ Then(<<>>)
          /\ UNCHANGED downVars
       \/ TakeDiagnostic /\ turn' = turn /\ UNCHANGED downVars
       \/ /\ flush.wire = <<>> /\ flush.stream = "err"
          /\ flush' = Idle /\ Then(<<"flush">>)
          /\ UNCHANGED <<queue, wire, size, downVars>>
    /\ UNCHANGED <<accepted, handshaken, attached, readBuffer, attaches>>
    /\ UNCHANGED <<written, sessionVars, clientVars, up, upEnd, downEnd>>

-----------------------------------------------------------------------------
(* dispatchFrame.  An answer is written at once, past the channel.         *)

\* writeDaemonIpcFrame succeeds when the socket takes the whole frame.
Accepts(frame) == ~upEnd /\ Len(frame) <= Room
Answer(frame) == IF upEnd THEN UNCHANGED downVars ELSE Put(frame)
ErrorFrame(code) == Encode("Error", Field("code", code))

\* An answer whose failure closes the connection, then more of the turn.
Acknowledge(frame) ==
    /\ Answer(frame)
    /\ turn' = IF Accepts(frame) THEN turn ELSE Closing
    /\ closed' = (closed \/ (attached /\ ~Accepts(frame)))

\* sendError with its result ignored; fatal errors close the connection.
Refuse(code, fatal) ==
    /\ Answer(ErrorFrame(code))
    /\ turn' = IF fatal THEN Closing ELSE turn
    /\ closed' = (closed \/ (attached /\ fatal))

DispatchHandshake(type, payload) ==
    /\ IF type # "Handshake" THEN Refuse("NotHandshaken", TRUE)
       ELSE IF ~IsField(payload, "version") \/ payload[1][2] # Version
            THEN Refuse("UnsupportedVersion", TRUE)
            ELSE Acknowledge(Encode("HandshakeAck", Field("version", Version)))
    /\ handshaken' = (type = "Handshake" /\ payload = Field("version", Version)
                        /\ Accepts(Encode("HandshakeAck", Field("version", Version))))
    /\ UNCHANGED <<attached, attaches, streamVars, input, worker>>

\* handlers.attachSession binds a new channel and starts the worker.
DispatchAttach(payload) ==
    \/ /\ attached \/ ~IsField(payload, "port")
       /\ Refuse("InvalidMessage", FALSE)
       /\ UNCHANGED <<attached, attaches, streamVars, input, worker>>
    \/ /\ ~attached /\ IsField(payload, "port")
       /\ \E status \in {"SessionNotFound", "SessionAlreadyBound", "SessionTableFull"} :
             Refuse(status, FALSE)
       /\ UNCHANGED <<attached, attaches, streamVars, input, worker>>
    \/ /\ ~attached /\ IsField(payload, "port") /\ attaches = 0
       /\ attached' = TRUE /\ attaches' = 1
       /\ FreshChannel /\ input' = <<>> /\ worker' = "run"
       /\ LET ack == Encode("AttachSessionAck", Field("port", 1)) IN
          /\ Answer(ack)
          /\ turn' = IF Accepts(ack) THEN turn ELSE <<"join", "close">>
          /\ closed' = ~Accepts(ack)
       /\ UNCHANGED written


\* detachConnection closes the channel; the answer follows the worker's end.
DispatchDetach ==
    /\ IF attached
       THEN /\ turn' = <<"join", "detached">> \o turn
            /\ closed' = TRUE
            /\ UNCHANGED downVars
       ELSE Refuse("NotAttached", FALSE)
    /\ UNCHANGED <<attached, attaches, streamVars, input, worker>>

\* SessionInput: pushInput, which a closed channel ignores.
DispatchInput(payload) ==
    /\ IF ~attached THEN Refuse("NotAttached", FALSE) /\ UNCHANGED input
       ELSE IF ~IsSessionData(payload) THEN Refuse("InvalidMessage", FALSE) /\ UNCHANGED input
       ELSE /\ input' = IF closed THEN input ELSE input \o Tail(payload)
            /\ UNCHANGED <<turn, closed, downVars>>
    /\ UNCHANGED <<attached, attaches, streamVars, worker>>

\* The control requests and the frames that only a server sends.
DispatchOther(type) ==
    /\ CASE type = "Ping" -> Acknowledge(Encode("Pong", <<>>))
         [] type = "ShutdownRequest" ->
                /\ Answer(Encode("ShutdownAck", <<>>))
                /\ turn' = Closing
                /\ closed' = (closed \/ attached)
         [] type = "ReserveSession" ->
                \/ Acknowledge(Encode("ReserveSessionAck", Field("port", 2)))
                \/ Refuse("SessionTableFull", TRUE)
         [] type \in SessionFrames ->
                Refuse(IF attached THEN "InvalidMessage" ELSE "NotAttached", FALSE)
         [] OTHER -> Refuse("InvalidMessage", TRUE)
    /\ UNCHANGED <<attached, attaches, streamVars, input, worker>>

Dispatch(type, payload) ==
    CASE type = "OtherVersion" ->
            /\ Refuse("UnsupportedVersion", TRUE)
            /\ UNCHANGED <<handshaken, attached, attaches, streamVars, input, worker>>
      [] type # "OtherVersion" /\ ~handshaken -> DispatchHandshake(type, payload)
      [] handshaken /\ type = "AttachSession" -> DispatchAttach(payload) /\ UNCHANGED handshaken
      [] handshaken /\ type = "DetachSession" -> DispatchDetach /\ UNCHANGED handshaken
      [] handshaken /\ type = "SessionInput" -> DispatchInput(payload) /\ UNCHANGED handshaken
      [] OTHER -> DispatchOther(type) /\ UNCHANGED handshaken

\* One round of the read loop: everything the socket holds, then one frame.
ReadFrame ==
    /\ Phase("read")
    /\ LET bytes == readBuffer \o up
           status == ReadStatus(bytes, upEnd)
       IN CASE status = "FrameReady" ->
                 /\ readBuffer' = AfterFrame(bytes)
                 /\ Dispatch(FrameType(bytes), FramePayload(bytes))
            [] status = "Incomplete" ->
                 /\ readBuffer' = bytes
                 /\ Then(<<>>)
                 /\ UNCHANGED <<handshaken, attached, attaches, streamVars, input, closed, worker,
                                downVars>>
            [] OTHER ->
                 /\ readBuffer' = bytes
                 /\ turn' = Closing
                 /\ CloseChannel
                 /\ UNCHANGED <<handshaken, attached, attaches, streamVars, input, worker, downVars>>
    /\ up' = <<>>
    /\ UNCHANGED <<accepted, consumed, clientVars, upEnd, downEnd>>

\* detachSession's join returns; the channel goes with what it still held.
Join ==
    /\ Phase("join") /\ worker # "run"
    /\ Then(<<>>)
    /\ attached' = FALSE /\ worker' = "none" /\ input' = <<>>
    /\ FreshChannel
    /\ UNCHANGED <<accepted, handshaken, readBuffer, attaches, written, closed, consumed>>
    /\ UNCHANGED <<clientVars, socketVars>>

AnswerDetach ==
    /\ Phase("detached")
    /\ LET ack == Encode("DetachSessionAck", <<>>) IN
       /\ Answer(ack)
       /\ turn' = IF Accepts(ack) THEN Tail(turn) ELSE <<"close">>
    /\ UNCHANGED <<accepted, handshaken, attached, readBuffer, attaches>>
    /\ UNCHANGED <<streamVars, sessionVars, clientVars, up, upEnd, downEnd>>

Close ==
    /\ Phase("close")
    /\ downEnd' = TRUE /\ accepted' = FALSE /\ readBuffer' = <<>> /\ turn' = <<>>
    /\ up' = <<>>
    /\ UNCHANGED <<handshaken, attached, attaches, upEnd, downVars>>
    /\ UNCHANGED <<streamVars, sessionVars, clientVars>>

ServerStep ==
    \/ Accept \/ Poll \/ Flush \/ Send \/ ReadFrame \/ Join \/ AnswerDetach \/ Close
-----------------------------------------------------------------------------
(* The client: DaemonIpcClient, and the program that drives it.            *)

\* sendFrame and flushPendingWrite: a full socket is not an error.
UpRoom == Capacity - Len(up)
SendUnits(w) == LET n == Smaller(UpRoom, Len(w)) IN
    /\ up' = up \o SubSeq(w, 1, n)
    /\ unsent' = Drop(w, n)
SendFrame(frame) == SendUnits(unsent \o frame)

\* closeFd: the console is gone, and what was still under way to it.
Closed ==
    /\ client' = "closed"
    /\ upEnd' = TRUE
    /\ buffer' = <<>> /\ unsent' = <<>> /\ down' = <<>>
    /\ UNCHANGED up

(* A request of the console and the call that then waits for its answer;   *)
(* bytes is what it has read and not used yet, left what it has not read.  *)
Ask(frame, call, bytes, left) ==
    IF downEnd THEN Closed
    ELSE /\ SendFrame(frame)
         /\ client' = call
         /\ buffer' = bytes /\ down' = left
         /\ UNCHANGED upEnd

AskHandshake(bytes, left) ==
    Ask(Encode("Handshake", Field("version", Version)), "handshake", bytes, left)
AskAttach(bytes, left) == Ask(Encode("AttachSession", Field("port", 0)), "attach", bytes, left)
AskDetach(bytes, left) == Ask(Encode("DetachSession", <<>>), "detach", bytes, left)

elsewhereVars == <<streamVars, serverVars, sessionVars, downEnd, owed, torn>>

\* connect, handshake
Connect ==
    /\ client = "console"
    /\ AskHandshake(buffer, down)
    /\ UNCHANGED <<elsewhereVars, shown, typed, requests>>

\* runIoPump is told to stop, or its input has ended and nothing comes: disconnect.
StopPump ==
    /\ client = "pump"
    /\ AskDetach(buffer, down)
    /\ UNCHANGED <<elsewhereVars, shown, typed, requests>>

\* runIoPump writes what is pending.
PumpFlush ==
    /\ client \in {"pump", "raw"} /\ ~downEnd /\ unsent # <<>> /\ UpRoom > 0
    /\ SendUnits(unsent)
    /\ UNCHANGED <<elsewhereVars, upEnd, down, client, buffer, shown, typed, requests>>

\* runIoPump reads a chunk of its input and sends it.
PumpInput ==
    /\ client = "pump" /\ ~downEnd /\ typed < MaxTyped
    /\ typed' = typed + 1
    /\ SendFrame(Encode("SessionInput", SessionData(<<<<"in", typed + 1>>>>)))
    /\ UNCHANGED <<elsewhereVars, upEnd, down, client, buffer, shown, requests>>

\* What a whole frame does to the call that reads it: where the client goes next.
AfterReply(type, payload) ==
    CASE client = "handshake" -> IF type = "HandshakeAck" THEN "attach" ELSE "closed"
      [] client = "attach" ->
            IF type = "AttachSessionAck" /\ IsField(payload, "port") THEN "pump" ELSE "closed"
      [] client = "pump" -> IF type \in SessionFrames THEN "pump" ELSE "detach"
      [] client = "detach" -> IF type \in SessionFrames THEN "wait" ELSE "closed"
      [] client = "raw" -> "raw"

\* dispatchIncomingFrame for session data.
Shown(type, payload) ==
    LET s == IF type = "SessionOutput" THEN "out" ELSE "err" IN
    IF type \in SessionFrames /\ client \in {"pump", "raw"} /\ IsSessionData(payload)
    THEN [shown EXCEPT ![s] = @ \o Tail(payload)] ELSE shown

\* Where a receive leaves the client: rest is what it has not used.
Proceed(next, rest) ==
    CASE next = "attach" -> AskAttach(rest, <<>>)
      [] next = "detach" -> AskDetach(rest, <<>>)
      [] next = "closed" -> Closed
      [] OTHER -> /\ client' = (IF next = "wait" THEN client ELSE next)
                  /\ buffer' = rest /\ down' = <<>>
                  /\ UNCHANGED <<up, unsent, upEnd>>

(* One round of recvFrameBlocking or of runIoPump's read loop.  A hangup   *)
(* ends the pump without a look at what arrived before it.                 *)
Receive ==
    /\ client \in {"handshake", "attach", "pump", "detach", "raw"}
    /\ down # <<>> \/ downEnd \/ ReadStatus(buffer, FALSE) # "Incomplete"
    /\ LET bytes == buffer \o down
           status == ReadStatus(bytes, downEnd)
           type == FrameType(bytes)
           payload == FramePayload(bytes)
       IN CASE status = "FrameReady" ->
                 /\ Proceed(AfterReply(type, payload), AfterFrame(bytes))
                 /\ shown' = Shown(type, payload)
            [] status = "Incomplete" -> Proceed("wait", bytes) /\ UNCHANGED shown
            [] OTHER -> /\ Proceed(IF client = "pump" THEN "detach" ELSE "closed", bytes)
                        /\ UNCHANGED shown
    /\ UNCHANGED <<elsewhereVars, typed, requests>>

\* The payload a client sends with a request.
RequestPayload(type) ==
    CASE type = "Handshake" -> Field("version", Version)
      [] type = "AttachSession" -> Field("port", 0)
      [] type = "SessionInput" -> SessionData(<<<<"in", typed + 1>>>>)
      [] type \in SessionFrames -> SessionData(<<>>)
      [] OTHER -> <<>>

\* A client of the protocol that is not the console sends its requests as it likes.
RawSend(type) ==
    /\ client = "raw" /\ ~downEnd /\ requests < MaxRequests
    /\ requests' = requests + 1
    /\ SendFrame(Encode(type, RequestPayload(type)))
    /\ typed' = IF type = "SessionInput" THEN typed + 1 ELSE typed
    /\ UNCHANGED <<elsewhereVars, upEnd, down, client, buffer, shown>>

\* A raw client closes, or dies: a console that dies looks the same to the server.
Vanish ==
    /\ client = "raw"
    /\ Closed
    /\ UNCHANGED <<elsewhereVars, shown, typed, requests>>
SessionStep == Read \/ \E s \in Streams : Write(s)
ClientStep ==
    \/ Connect \/ StopPump \/ PumpFlush \/ PumpInput \/ Receive \/ Vanish
    \/ \E type \in RawRequests : RawSend(type)

IpcNext == ServerStep \/ Shutdown \/ SessionStep \/ ClientStep

(* The poll loop turns, the console's loops turn, and a session reads on   *)
(* until end of file; nobody must type, write or stop.                     *)
IpcFairness ==
    /\ WF_ipcVars(ServerStep)
    /\ WF_ipcVars(Read)
    /\ WF_ipcVars(Receive) /\ WF_ipcVars(PumpFlush) /\ WF_ipcVars(Connect)

IpcSpec == IpcInit /\ [][IpcNext]_ipcVars /\ IpcFairness

-----------------------------------------------------------------------------
(* Properties.                                                             *)

\* What stream s has been given, in order.
WrittenTo(s) == [i \in 1..written[s] |-> <<s, i>>]
IsPrefixOf(a, b) == Len(a) <= Len(b) /\ a = SubSeq(b, 1, Len(a))

(* The console shows a prefix of what the session wrote, on the stream it  *)
(* wrote it to: partial writes, put-backs and chunks neither lose, repeat, *)
(* reorder nor alter bytes (flushPendingOutput, tryReadDaemonIpcFrame).    *)
ConsoleShowsWhatWasWritten ==
    \A s \in Streams : IsPrefixOf(shown[s], WrittenTo(s))

(* The same as long as no frame was begun in the middle of another one:    *)
(* that is the only way the stream can go wrong.                           *)
WholeFramesShowWhatWasWritten == ~torn => ConsoleShowsWhatWasWritten

(* The session reads what was typed, in order and nothing twice, whatever  *)
(* frames carried it and however reads split them (pushInput).             *)
InputIsReadInOrder ==
    \A i, j \in 1..Len(consumed) : i < j => consumed[i][2] < consumed[j][2]

(* The inductive invariant behind it.  Upstream is what the client has     *)
(* sent and the server has not dispatched; the socket splits it anywhere,  *)
(* but a SessionInput header in it has its payload behind it.              *)
Upstream == readBuffer \o up \o unsent
Connected == ~upEnd /\ ~downEnd
IsInput(unit) == unit[1] = "in"
InputIsFramed(units) ==
    \A i \in DOMAIN units :
        units[i][1] = "SessionInput" =>
            /\ units[i][2] = 2 /\ i + 2 \in DOMAIN units
            /\ units[i + 1] = <<"size", 1>> /\ IsInput(units[i + 2])
InputIsOrdered(units, last) ==
    /\ \A i \in DOMAIN units : IsInput(units[i]) => units[i][2] <= last
    /\ \A i, j \in DOMAIN units :
           i < j /\ IsInput(units[i]) /\ IsInput(units[j]) => units[i][2] < units[j][2]

Unit == (MessageTypes \cup {"version", "port", "size", "in"}) \X Nat
UpstreamTypeOK ==
    /\ up \in Seq(Unit) /\ Len(up) <= Capacity
    /\ readBuffer \in Seq(Unit) /\ unsent \in Seq(Unit)
    /\ input \in Seq({"in"} \X Nat) /\ consumed \in Seq({"in"} \X Nat)
    /\ typed \in Nat

InputInv ==
    /\ UpstreamTypeOK
    /\ downEnd => turn = <<>> /\ ~accepted
    /\ InputIsOrdered(consumed \o input, typed)
    /\ Connected =>
           InputIsFramed(Upstream) /\ InputIsOrdered(consumed \o input \o Upstream, typed)

(* While no frame is torn, everything the session has written and a        *)
(* console that stays has not shown is still somewhere between the two, in *)
(* order: the socket, the console's buffer, a flush under way or the queue *)
(* (swap and put-back in flushPendingOutput).                              *)
DataIn(units, s) == SelectSeq(units, LAMBDA u : u[1] = s)
Unflushed(s) ==
    IF flush.stream = s
    THEN DataIn(flush.wire, s) \o Drop(flush.queue, flush.size) \o queue[s]
    ELSE DataIn(wire[s], s) \o Drop(queue[s], size[s])
NothingIsLostOnTheWay ==
    (attached /\ client \in {"pump", "raw"} /\ ~torn) =>
        \A s \in Streams :
            shown[s] \o DataIn(buffer \o down, s) \o Unflushed(s) = WrittenTo(s)



=============================================================================
