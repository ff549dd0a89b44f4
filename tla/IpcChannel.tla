----------------------------- MODULE IpcChannel -----------------------------
(***************************************************************************)
(* The output half of an IpcSessionChannel: the session's thread appends   *)
(* to two queues, the server's thread takes a queue under the mutex,       *)
(* writes it as frames to a socket that may refuse, without the mutex, and *)
(* puts back what is left under the mutex again.                           *)
(***************************************************************************)
EXTENDS IpcProtocol

CONSTANTS
    Capacity,     \* units the kernel buffers for one direction of a socket
    MaxWritten    \* per stream, bound on the bytes the session writes

Streams == {"out", "err"}

ASSUME CapacityAssumption == Capacity \in Nat \ {0}
ASSUME MaxWrittenAssumption == MaxWritten \in [Streams -> Nat]

VARIABLES
    queue,      \* outputQueue_ and diagnosticQueue_
    wire,       \* pendingOutputWire_ and pendingDiagnosticWire_
    size,       \* pendingOutputChunkSize_ and pendingDiagnosticChunkSize_
    flush,      \* flushPendingOutput's locals: the stream, its queue, wire and chunk size
    down,       \* units in the socket on their way to the console
    written,    \* history: bytes the session has written, per stream
    owed,       \* history: units the frame begun last still misses in the socket
    torn        \* history: whether a frame was begun while another was incomplete

outputVars == <<queue, wire, size, flush>>
streamVars == <<outputVars, written>>
downVars   == <<down, owed, torn>>

Idle == [stream |-> "none", queue |-> <<>>, wire |-> <<>>, size |-> 0]

Emptied == [s \in Streams |-> <<>>]

ChannelInit ==
    /\ queue = Emptied /\ wire = Emptied
    /\ size = [s \in Streams |-> 0]
    /\ flush = Idle
    /\ down = <<>> /\ owed = 0 /\ torn = FALSE
    /\ written = [s \in Streams |-> 0]

Drop(seq, n) == SubSeq(seq, n + 1, Len(seq))

\* write(): as many units of w as the buffer has room for.
Room == Capacity - Len(down)
Fits(w) == Smaller(Room, Len(w))

Put(w) ==
    /\ down' = down \o SubSeq(w, 1, Fits(w))
    /\ IF Fits(w) = 0 THEN UNCHANGED <<owed, torn>>
       ELSE IF IsHeader(w[1])
            THEN /\ torn' = (torn \/ owed > 0)
                 /\ owed' = Len(w) - Fits(w)
            ELSE /\ owed' = IF torn THEN owed ELSE owed - Fits(w)
                 /\ UNCHANGED torn

\* writeOutputBytes, writeOutputChar
SessionWrites(s) ==
    /\ written[s] < MaxWritten[s]
    /\ written' = [written EXCEPT ![s] = @ + 1]
    /\ queue' = [queue EXCEPT ![s] = Append(@, <<s, written[s] + 1>>)]

\* hasPendingOutput
Pending == \E s \in Streams : queue[s] # <<>> \/ wire[s] # <<>>

FrameOf(s) == IF s = "out" THEN "SessionOutput" ELSE "SessionDiagnostic"

\* A chunk that is taken off only when the next flush begins is sent again.
AdvancedTwice(f) ==
    IF f.wire # <<>> THEN f
    ELSE LET chunk == Smaller(Len(f.queue), MaxSessionData)
         IN [f EXCEPT !.queue = Drop(@, f.size), !.size = chunk,
                      !.wire = IF f.queue = <<>> THEN <<>>
                               ELSE Encode(FrameOf(f.stream), SessionData(SubSeq(f.queue, 1, chunk)))]

(* flushQueue's loop between two writes: a frame that has gone takes its   *)
(* chunk off the queue; what remains starts the next frame.                *)
Advanced(f) ==
    IF f.wire # <<>> THEN f
    ELSE LET rest == Drop(f.queue, f.size)
             chunk == Smaller(Len(rest), MaxSessionData)
         IN [f EXCEPT !.queue = rest, !.size = chunk,
                      !.wire = IF rest = <<>> THEN <<>>
                               ELSE Encode(FrameOf(f.stream), SessionData(SubSeq(rest, 1, chunk)))]

\* The swap of stream s's queue and wire into locals, under the mutex.
Take(s) ==
    /\ flush' = Advanced([stream |-> s, queue |-> queue[s], wire |-> wire[s], size |-> size[s]])
    /\ queue' = [queue EXCEPT ![s] = <<>>]
    /\ wire' = [wire EXCEPT ![s] = <<>>]
    /\ size' = [size EXCEPT ![s] = 0]

\* What is left goes behind what the session has written since.
PutBackLast ==
    LET s == flush.stream IN
    /\ queue' = [queue EXCEPT ![s] = @ \o flush.queue]
    /\ wire' = [wire EXCEPT ![s] = flush.wire]
    /\ size' = [size EXCEPT ![s] = flush.size]
    /\ flush' = Idle

\* The failed write's tail: what is left goes back in front of what came since.
PutBack ==
    LET s == flush.stream IN
    /\ queue' = [queue EXCEPT ![s] = flush.queue \o @]
    /\ wire' = [wire EXCEPT ![s] = flush.wire]
    /\ size' = [size EXCEPT ![s] = flush.size]
    /\ flush' = Idle

\* One write of flushWireBuffer that the socket accepts, at least in part.
WriteSome ==
    /\ flush.wire # <<>> /\ Room > 0
    /\ Put(flush.wire)
    /\ flush' = Advanced([flush EXCEPT !.wire = Drop(@, Fits(flush.wire))])
    /\ UNCHANGED <<queue, wire, size>>

\* The output stream is done: the diagnostic one is next.
TakeDiagnostic ==
    /\ flush.wire = <<>> /\ flush.stream = "out"
    /\ Take("err")

\* A new channel for a new attachment.
FreshChannel ==
    /\ queue' = Emptied /\ wire' = Emptied
    /\ size' = [s \in Streams |-> 0]
    /\ UNCHANGED flush
=============================================================================
