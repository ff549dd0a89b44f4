---------------------------- MODULE IpcProtocol ----------------------------
(***************************************************************************)
(* The frames of the daemon's Unix-socket protocol and the incremental     *)
(* reader both ends share (DaemonIpcProtocol.cpp).                         *)
(*                                                                         *)
(* A stream socket carries units.  The twelve header bytes of a frame are  *)
(* one unit <<type, n>>, n the length of the payload; a payload unit is a  *)
(* pair too: a byte of text <<stream, i>>, the length prefix <<"size", k>> *)
(* of session data, a protocol version, a port or an error code.  A write  *)
(* may stop between any two units.                                         *)
(***************************************************************************)
EXTENDS Integers, Sequences

CONSTANT MaxPayload  \* kDaemonIpcMaxPayloadSize, in units

ASSUME MaxPayloadAssumption == MaxPayload \in Nat /\ MaxPayload > 1

Version == 1  \* kDaemonIpcProtocolVersion

SessionFrames == {"SessionOutput", "SessionDiagnostic"}

\* The type in a header; "OtherVersion" stands for a header with another version number.
MessageTypes ==
    {"Handshake", "HandshakeAck", "Ping", "Pong", "ShutdownRequest", "ShutdownAck",
     "ReserveSession", "ReserveSessionAck", "Error", "AttachSession", "AttachSessionAck",
     "DetachSession", "DetachSessionAck", "SessionInput", "OtherVersion"} \cup SessionFrames

Smaller(m, n) == IF m < n THEN m ELSE n

\* encodeDaemonIpcFrame
Encode(type, payload) == <<<<type, Len(payload)>>>> \o payload

\* encodeSessionDataPayload, decodeSessionDataPayload and the check it makes
MaxSessionData == MaxPayload - 1
SessionData(data) == <<<<"size", Len(data)>>>> \o data
IsSessionData(payload) ==
    /\ payload # <<>>
    /\ payload[1][1] = "size"
    /\ payload[1][2] <= MaxSessionData
    /\ Len(payload) = 1 + payload[1][2]

\* The payloads of one field: a version, a port or an error code.
Field(kind, value) == <<<<kind, value>>>>
IsField(payload, kind) == Len(payload) = 1 /\ payload[1][1] = kind

IsHeader(unit) == unit[1] \in MessageTypes

(* completeFrameLength and tryReadDaemonIpcFrame, once the reader has moved *)
(* everything the socket holds into its buffer; ended: the read that        *)
(* stopped it returned 0.                                                   *)
ReadStatus(buffer, ended) ==
    CASE ended -> IF buffer = <<>> THEN "ConnectionClosed" ELSE "ProtocolError"
      [] ~ended /\ buffer = <<>> -> "Incomplete"
      [] OTHER ->
            IF ~IsHeader(buffer[1]) \/ buffer[1][2] > MaxPayload THEN "ProtocolError"
            ELSE IF Len(buffer) < 1 + buffer[1][2] THEN "Incomplete" ELSE "FrameReady"

FrameType(buffer) == buffer[1][1]
FramePayload(buffer) == SubSeq(buffer, 2, 1 + buffer[1][2])
AfterFrame(buffer) == SubSeq(buffer, 2 + buffer[1][2], Len(buffer))
=============================================================================
