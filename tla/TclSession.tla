----------------------------- MODULE TclSession -----------------------------
(***************************************************************************)
(* The state of a Tcl session and the commands that change it: records and *)
(* their locks, the active list, the cursor of PROC's READNEXT and the     *)
(* VocResolver's table.  Commands that only print, and the environment of  *)
(* SET and UNSET, are left out.  Another session of the same account takes *)
(* turns with this one: it runs while this one waits for a line.           *)
(*                                                                         *)
(* Texts and values are sequences of words (a blank lies between two       *)
(* words, so the empty text is <<"">>, and texts joined with a blank are   *)
(* sequences joined); <<>> is a record that does not exist.                *)
(***************************************************************************)
EXTENDS VocResolver, SequencesExt

CONSTANTS
    Files,    \* the names of files
    Ids,      \* the sequence of record ids, in their order
    DefData   \* the file MD,DEFDATA names

VARIABLES
    files,     \* the files there are
    store,     \* the text of each record
    locks,     \* the owner of each record's lock: "self", "peer" or "nobody"
    loggedIn,
    list,      \* activeList_ and activeListSourceFile_ ("" when there is none)
    cursor,    \* procReadNextIndex_
    voc,       \* loaded_ and table_
    behind,    \* history: the VOC changed without the resolver's knowledge
    walk       \* history: what READNEXT has returned of the list

recordVars == <<files, store, locks>>
listVars == <<list, cursor, walk>>
vocVars == <<voc, behind>>
sessionVars == <<files, store, locks, loggedIn, list, cursor, voc, behind, walk>>

Keys == Files \X Range(Ids)
Absent == <<>>
NoList == [file |-> "", ids |-> <<>>]
Unloaded == [loaded |-> FALSE, table |-> <<>>]

\* READNEXT's ids since the list was at its start; that there were no more; that
\* the list or the cursor was changed on the way.
NewWalk == [got |-> <<>>, exhausted |-> FALSE, disturbed |-> FALSE]
Disturbed(w, changed) == [w EXCEPT !.disturbed = @ \/ changed]

-----------------------------------------------------------------------------
(* FileSystem.                                                             *)

\* Without a login there is no lock context, and locks do not count.
Accessible(k) == loggedIn => locks[k] # "peer"
Locked(k) == IF loggedIn THEN [locks EXCEPT ![k] = "self"] ELSE locks
ReleasedBySelf(k) == IF loggedIn /\ locks[k] = "self" THEN [locks EXCEPT ![k] = "nobody"] ELSE locks
AllReleased == [k \in Keys |-> IF loggedIn /\ locks[k] = "self" THEN "nobody" ELSE locks[k]]

IdsOf(file) == SelectSeq(Ids, LAMBDA id : store[<<file, id>>] # Absent)

-----------------------------------------------------------------------------
(* VocResolver.                                                            *)

\* loadVocTable, from the records as they are.
VocTable ==
    [id \in {i \in Range(Ids) : "VOC" \in files /\ IsVocEntry(store[<<"VOC", i>>])} |->
        VocEntry(store[<<"VOC", id>>])]

\* It throws when it meets a record that another session has locked.
VocLoads ==
    voc.loaded \/ \A id \in Range(IdsOf("VOC")) : Accessible(<<"VOC", id>>)

\* ensureLoaded, where it succeeds.
Loaded == IF voc.loaded THEN voc ELSE [loaded |-> TRUE, table |-> VocTable]

\* A VOC that is read anew is not behind.
StillBehind == behind /\ voc.loaded

-----------------------------------------------------------------------------
(* The record operations, as Tcl commands and as PROC statements; known is *)
(* what the resolver knows before: a Tcl verb was resolved, with the table *)
(* loaded, a PROC statement was not.                                       *)

VocKept(known) == voc' = known /\ behind' = StillBehind
VocWritten(known, file, written) ==
    /\ voc' = IF written /\ file = "VOC" THEN Unloaded ELSE known
    /\ behind' = (StillBehind /\ voc'.loaded)

ReadU(k, known) ==
    /\ locks' = IF Accessible(k) THEN Locked(k) ELSE locks
    /\ VocKept(known)
    /\ UNCHANGED <<files, store, loggedIn, listVars>>

\* write and, with a lock, writeU: the lock is kept where the file is missing.
Write(k, text, withLock, known) ==
    LET written == Accessible(k) /\ k[1] \in files IN
    /\ locks' = IF withLock /\ Accessible(k) THEN Locked(k) ELSE locks
    /\ store' = IF written THEN [store EXCEPT ![k] = text] ELSE store
    /\ VocWritten(known, k[1], written)
    /\ UNCHANGED <<files, loggedIn, listVars>>

Release(k, known) ==
    /\ locks' = ReleasedBySelf(k)
    /\ VocKept(known)
    /\ UNCHANGED <<files, store, loggedIn, listVars>>

CreateVoc(id, text) == Write(<<"VOC", id>>, text, FALSE, Loaded)


DeleteVoc(id) ==
    LET k == <<"VOC", id>>
        deleted == "VOC" \in files /\ Accessible(k) /\ store[k] # Absent IN
    /\ store' = IF deleted THEN [store EXCEPT ![k] = Absent] ELSE store
    /\ locks' = IF deleted THEN ReleasedBySelf(k) ELSE locks
    /\ VocWritten(Loaded, "VOC", deleted)
    /\ UNCHANGED <<files, loggedIn, listVars>>

\* DEFINE-FIELD writes an item of a dictionary, and so of the VOC.
DefineField(k, number) ==
    LET written == Accessible(k) /\ k[1] \in files IN
    /\ store' = IF written THEN [store EXCEPT ![k] = <<"A", "^", number, "^">>] ELSE store
    /\ voc' = Loaded
    /\ behind' = (StillBehind \/ (written /\ k[1] = "VOC"))
    /\ UNCHANGED <<files, locks, loggedIn, listVars>>

CreateFile(file) ==
    /\ files' = files \cup {file}
    /\ VocWritten(Loaded, file, file \notin files)
    /\ UNCHANGED <<store, locks, loggedIn, listVars>>

\* deleteFile: every session's locks on the file's records go first.
DeleteFile(file) ==
    /\ files' = files \ {file}
    /\ store' = [k \in Keys |-> IF k[1] = file THEN Absent ELSE store[k]]
    /\ locks' = [k \in Keys |-> IF k[1] = file /\ loggedIn THEN "nobody" ELSE locks[k]]
    /\ VocWritten(Loaded, file, file \in files)
    /\ UNCHANGED <<loggedIn, listVars>>

-----------------------------------------------------------------------------
(* The active list and the session.                                        *)

\* Tcl's SELECT sets the list and leaves READNEXT's cursor where it is.
SelectCommand(file) ==
    /\ list' = IF file \in files THEN [file |-> file, ids |-> IdsOf(file)] ELSE list
    /\ walk' = IF file \in files THEN [Disturbed(walk, cursor > 0) EXCEPT !.exhausted = FALSE] ELSE walk
    /\ VocKept(Loaded)
    /\ UNCHANGED <<recordVars, loggedIn, cursor>>

ClearList ==
    /\ list' = NoList
    /\ walk' = Disturbed(walk, cursor > 0)
    /\ VocKept(Loaded)
    /\ UNCHANGED <<recordVars, loggedIn, cursor>>

\* LOGOFF (detach and reset) and QUIT (reset).
EndOfSession(verb) ==
    /\ locks' = AllReleased
    /\ loggedIn' = (loggedIn /\ verb = "QUIT")
    /\ list' = NoList
    /\ walk' = Disturbed(walk, cursor > 0)
    /\ VocKept(Loaded)
    /\ UNCHANGED <<files, store, cursor>>

\* A command that is unknown, refused, or only prints.
OtherCommand ==
    /\ VocKept(Loaded)
    /\ UNCHANGED <<recordVars, loggedIn, listVars>>

-----------------------------------------------------------------------------
(* The other session.                                                      *)

PeerReadU(k) ==
    /\ locks[k] # "self"
    /\ locks' = [locks EXCEPT ![k] = "peer"]
    /\ UNCHANGED <<files, store, loggedIn, listVars, vocVars>>

PeerWrites(k, text) ==
    /\ locks[k] # "self" /\ k[1] \in files
    /\ store' = [store EXCEPT ![k] = text]
    /\ behind' = (behind \/ (k[1] = "VOC" /\ voc.loaded))
    /\ UNCHANGED <<files, locks, loggedIn, listVars, voc>>

PeerReleases(k) ==
    /\ locks[k] = "peer"
    /\ locks' = [locks EXCEPT ![k] = "nobody"]
    /\ UNCHANGED <<files, store, loggedIn, listVars, vocVars>>

-----------------------------------------------------------------------------
(* Properties.                                                             *)

=============================================================================
