---------------------------- MODULE MCIpcStream ----------------------------
(* Bounds for IpcStream: the bytes a session writes to each stream.        *)
EXTENDS IpcStream, TLC

Bytes == "out" :> 2 @@ "err" :> 1
MCMaxWritten == Bytes
=============================================================================
