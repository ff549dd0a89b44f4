----------------------------- MODULE ProcLoops ------------------------------
(***************************************************************************)
(* What the loops of a PROC script mean.  buildLoopPairs pairs LOOP and    *)
(* REPEAT lines before the script runs.  A loop is entered at its LOOP     *)
(* line, and stays entered as long as control stays in its body, up to and *)
(* including the REPEAT line; EXIT, which an IF may guard, goes on behind  *)
(* the innermost loop that is entered.  A GO may lead to any label, inside *)
(* a loop too, which does not enter the loop.                              *)
(***************************************************************************)
EXTENDS Integers, Sequences

VARIABLES
    running,  \* a script is being run
    kinds,    \* its lines, by the statement
    scan,     \* the line buildLoopPairs looks at
    open,     \* its loopStack
    pairs,    \* its result: the lines of each LOOP and its REPEAT
    pc,       \* the line to execute
    entered   \* the pairs of the loops that are entered

loopVars == <<running, kinds, scan, open, pairs, pc, entered>>

Kinds == {"LOOP", "REPEAT", "EXIT", "EXITIF", "label", "other"}

Idle ==
    /\ running = FALSE
    /\ kinds = <<>> /\ scan = 1 /\ open = <<>> /\ pairs = {}
    /\ pc = 1 /\ entered = {}

Start ==
    /\ ~running
    /\ running' = TRUE
    /\ kinds' \in Seq(Kinds)
    /\ UNCHANGED <<scan, open, pairs, pc, entered>>

\* The script is over, or has failed: at any time.
Stop == running /\ Idle'

-----------------------------------------------------------------------------
(* Pairing.                                                                *)

Scanning == running /\ scan <= Len(kinds)

ScanLoop ==
    /\ Scanning /\ kinds[scan] = "LOOP"
    /\ open' = Append(open, scan)
    /\ scan' = scan + 1
    /\ UNCHANGED <<running, kinds, pairs, pc, entered>>

ScanRepeat ==
    /\ Scanning /\ kinds[scan] = "REPEAT" /\ open # <<>>
    /\ pairs' = pairs \cup {<<open[Len(open)], scan>>}
    /\ open' = SubSeq(open, 1, Len(open) - 1)
    /\ scan' = scan + 1
    /\ UNCHANGED <<running, kinds, pc, entered>>

ScanOther ==
    /\ Scanning /\ kinds[scan] \notin {"LOOP", "REPEAT"}
    /\ scan' = scan + 1
    /\ UNCHANGED <<running, kinds, open, pairs, pc, entered>>

-----------------------------------------------------------------------------
(* Execution.                                                              *)

Executing == running /\ scan > Len(kinds) /\ pc <= Len(kinds)

\* The body of loop l holds line n.
Within(l, n) == l[1] < n /\ n <= l[2]

\* Control goes to line n: the loops it leaves are no longer entered.
MoveTo(n) ==
    /\ pc' = n
    /\ entered' = {l \in entered : Within(l, n)}

EnterLoop(l) ==
    /\ Executing /\ l \in pairs /\ pc = l[1]
    /\ pc' = pc + 1
    /\ entered' = entered \cup {l}
    /\ UNCHANGED <<running, kinds, scan, open, pairs>>

NextRound(l) ==
    /\ Executing /\ l \in pairs /\ pc = l[2]
    /\ MoveTo(l[1] + 1)
    /\ UNCHANGED <<running, kinds, scan, open, pairs>>

Innermost(l) == l \in entered /\ \A m \in entered : m[1] <= l[1]

ExitLoop(l) ==
    /\ Executing /\ kinds[pc] \in {"EXIT", "EXITIF", "other"}
    /\ Innermost(l)
    /\ pc' = l[2] + 1
    /\ entered' = entered \ {l}
    /\ UNCHANGED <<running, kinds, scan, open, pairs>>

\* An EXITIF that does not exit, and any other statement: the next line, the
\* line of a label, or the end.
GoOn ==
    /\ Executing /\ kinds[pc] \in {"EXITIF", "label", "other"}
    /\ \E n \in 1..(Len(kinds) + 1) :
          /\ \/ n = pc + 1
             \/ kinds[pc] = "other" /\ (n = Len(kinds) + 1 \/ kinds[n] = "label")
          /\ MoveTo(n)
    /\ UNCHANGED <<running, kinds, scan, open, pairs>>

LoopNext ==
    \/ Start \/ Stop
    \/ ScanLoop \/ ScanRepeat \/ ScanOther
    \/ \E l \in pairs : EnterLoop(l) \/ NextRound(l) \/ ExitLoop(l)
    \/ GoOn

LoopSpec == Idle /\ [][LoopNext]_loopVars

-----------------------------------------------------------------------------
(* Properties.                                                             *)

Inside(l, m) == m[1] < l[1] /\ l[2] < m[2]

\* The state is well formed.
LoopTypeOK ==
    /\ running \in BOOLEAN
    /\ kinds \in Seq(Kinds)
    /\ scan \in Nat \ {0}
    /\ open \in Seq(Nat \ {0})
    /\ pairs \subseteq (Nat \ {0}) \X (Nat \ {0})
    /\ pc \in Nat \ {0}
    /\ entered \subseteq pairs

\* Two loops are the same, apart, or one inside the other.
PairsNest ==
    \A l, m \in pairs :
        l = m \/ l[2] < m[1] \/ m[2] < l[1] \/ Inside(l, m) \/ Inside(m, l)

\* The loops that are entered lie around the line to execute, each inside the
\* next: there is one innermost loop, and EXIT leaves it and no other.
EnteredNest ==
    /\ \A l \in entered : Within(l, pc)
    /\ \A l, m \in entered : l = m \/ Inside(l, m) \/ Inside(m, l)

\* buildLoopPairs: the open LOOPs are in order and behind the scan, and no pair
\* of lines has an open LOOP between them.
OpenLoops ==
    /\ \A i \in 1..Len(open) : open[i] < scan
    /\ \A i, j \in 1..Len(open) : i < j => open[i] < open[j]
    /\ \A l \in pairs : l[1] < l[2] /\ l[2] < scan
    /\ \A l \in pairs : \A i \in 1..Len(open) : l[2] < open[i] \/ open[i] < l[1]

LoopInv == LoopTypeOK /\ OpenLoops /\ PairsNest /\ EnteredNest

\* After EXIT control is still in every loop around the one it left, and not
\* in that one.
ExitLeavesOneLoop ==
    [][\A l \in pairs : ExitLoop(l) =>
          ~Within(l, pc') /\ \A m \in entered \ {l} : Within(m, pc')]_loopVars
=============================================================================
