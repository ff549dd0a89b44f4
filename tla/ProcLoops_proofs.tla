-------------------------- MODULE ProcLoops_proofs --------------------------
(***************************************************************************)
(* For scripts of any length: the pairs of LOOP and REPEAT lines nest, the *)
(* loops that are entered lie around the line to execute, each inside the  *)
(* next, and EXIT leaves exactly the innermost one.                        *)
(***************************************************************************)
EXTENDS ProcLoops, SequenceTheorems, TLAPS

\* Nothing is paired or entered before a script starts.
LEMMA IdleInv == Idle => LoopInv
<1> SUFFICES ASSUME Idle PROVE LoopInv
  OBVIOUS
<1>1. open = <<>> /\ pairs = {} /\ entered = {}
  BY DEF Idle
<1>2. running = FALSE /\ kinds = <<>> /\ scan = 1 /\ pc = 1
  BY DEF Idle
<1>3. <<>> \in Seq(Kinds) /\ <<>> \in Seq(Nat \ {0}) /\ 1..Len(<<>>) = {}
  OBVIOUS
<1>4. LoopTypeOK
  <2>1. running \in BOOLEAN /\ kinds \in Seq(Kinds) /\ open \in Seq(Nat \ {0})
    BY <1>1, <1>2, <1>3, Zenon
  <2>2. scan \in Nat \ {0} /\ pc \in Nat \ {0}
    BY <1>2
  <2>3. pairs \subseteq (Nat \ {0}) \X (Nat \ {0}) /\ entered \subseteq pairs
    BY <1>1
  <2> QED BY <2>1, <2>2, <2>3, Zenon DEF LoopTypeOK
<1>5. OpenLoops
  BY <1>1, <1>3 DEF OpenLoops
<1>6. PairsNest /\ EnteredNest
  BY <1>1 DEF PairsNest, EnteredNest
<1> QED BY <1>4, <1>5, <1>6 DEF LoopInv

\* A script that ends leaves no pairs and no loops.
LEMMA IdleAgainInv == Idle' => LoopInv'
<1> SUFFICES ASSUME Idle' PROVE LoopInv'
  OBVIOUS
<1>1. open' = <<>> /\ pairs' = {} /\ entered' = {}
  BY DEF Idle
<1>2. running' = FALSE /\ kinds' = <<>> /\ scan' = 1 /\ pc' = 1
  BY DEF Idle
<1>3. <<>> \in Seq(Kinds) /\ <<>> \in Seq(Nat \ {0}) /\ 1..Len(<<>>) = {}
  OBVIOUS
<1>4. LoopTypeOK'
  <2>1. running' \in BOOLEAN /\ kinds' \in Seq(Kinds) /\ open' \in Seq(Nat \ {0})
    BY <1>1, <1>2, <1>3, Zenon
  <2>2. scan' \in Nat \ {0} /\ pc' \in Nat \ {0}
    BY <1>2
  <2>3. pairs' \subseteq (Nat \ {0}) \X (Nat \ {0}) /\ entered' \subseteq pairs'
    BY <1>1
  <2> QED BY <2>1, <2>2, <2>3, Zenon DEF LoopTypeOK
<1>5. OpenLoops'
  BY <1>1, <1>3 DEF OpenLoops
<1>6. PairsNest' /\ EnteredNest'
  BY <1>1 DEF PairsNest, EnteredNest
<1> QED BY <1>4, <1>5, <1>6 DEF LoopInv

-----------------------------------------------------------------------------
(* Pairing.                                                                *)

\* A LOOP line lies behind everything that was paired or is open.
LEMMA ScanLoopInv == LoopInv /\ ScanLoop => LoopInv'
<1> SUFFICES ASSUME LoopInv, ScanLoop PROVE LoopInv'
  OBVIOUS
<1> USE DEF LoopInv
<1>1. scan \in Nat \ {0} /\ open \in Seq(Nat \ {0})
  BY DEF LoopTypeOK
<1>2. open' = Append(open, scan) /\ scan' = scan + 1
      /\ UNCHANGED <<running, kinds, pairs, pc, entered>>
  BY DEF ScanLoop
<1>3. LoopTypeOK'
  BY <1>1, <1>2 DEF LoopTypeOK
<1>4. Len(open') = Len(open) + 1 /\ open'[Len(open) + 1] = scan
      /\ \A i \in 1..Len(open) : open'[i] = open[i]
  BY <1>1, <1>2
<1>5. Len(open) \in Nat /\ \A i \in 1..Len(open) : open[i] \in Nat
  BY <1>1
<1>6. \A l \in pairs : l[1] \in Nat /\ l[2] \in Nat
  BY DEF LoopTypeOK
<1>7. OpenLoops'
  <2>1. \A i \in 1..Len(open') : i \in 1..Len(open) \/ i = Len(open) + 1
    BY <1>4, <1>5
  <2>2. (\A i \in 1..Len(open) : open[i] < scan)'
    BY <1>1, <1>2, <1>4, <1>5, <2>1 DEF OpenLoops
  <2>3. (\A i, j \in 1..Len(open) : i < j => open[i] < open[j])'
    BY <1>1, <1>4, <1>5, <2>1 DEF OpenLoops
  <2>4. (\A l \in pairs : l[1] < l[2] /\ l[2] < scan)'
    BY <1>1, <1>2, <1>6 DEF OpenLoops
  <2>5. (\A l \in pairs : \A i \in 1..Len(open) : l[2] < open[i] \/ open[i] < l[1])'
    BY <1>1, <1>2, <1>4, <1>5, <1>6, <2>1 DEF OpenLoops
  <2> QED BY <2>2, <2>3, <2>4, <2>5 DEF OpenLoops
<1>8. PairsNest' /\ EnteredNest'
  BY <1>2 DEF PairsNest, EnteredNest, Within, Inside
<1> QED BY <1>3, <1>7, <1>8

\* A REPEAT line closes the last open LOOP: what was paired behind that LOOP lies
\* inside the new loop, all the rest before it.
LEMMA ScanRepeatInv == LoopInv /\ ScanRepeat => LoopInv'
<1> SUFFICES ASSUME LoopInv, ScanRepeat PROVE LoopInv'
  OBVIOUS
<1> USE DEF LoopInv
<1> DEFINE n == Len(open)
           new == <<open[n], scan>>
<1>1. scan \in Nat \ {0} /\ open \in Seq(Nat \ {0}) /\ open # <<>>
  BY DEF LoopTypeOK, ScanRepeat
<1>2. pairs' = pairs \cup {new} /\ open' = SubSeq(open, 1, n - 1) /\ scan' = scan + 1
      /\ UNCHANGED <<running, kinds, pc, entered>>
  BY DEF ScanRepeat
<1>3. n \in Nat /\ n >= 1 /\ \A i \in 1..n : open[i] \in Nat \ {0}
  BY <1>1
<1>4. Len(open') = n - 1 /\ \A i \in 1..(n - 1) : open'[i] = open[i]
  <2> DEFINE k == n - 1
  <2>1. k \in Int /\ 1 \in Int /\ \A i \in 1..k : open[i] \in Nat \ {0}
    BY <1>3
  <2> HIDE DEF k
  <2>2. /\ Len(SubSeq(open, 1, k)) = IF 1 <= k THEN k - 1 + 1 ELSE 0
        /\ \A i \in 1..(k - 1 + 1) : SubSeq(open, 1, k)[i] = open[1 + i - 1]
    BY <2>1, SubSeqProperties
  <2>3. open' = SubSeq(open, 1, k) /\ k >= 0
    BY <1>2, <1>3 DEF k
  <2>4. Len(open') = k /\ \A i \in 1..k : open'[i] = open[i]
    BY <2>1, <2>2, <2>3
  <2> QED BY <2>4 DEF k
<1>5. open' \in Seq(Nat \ {0})
  BY <1>1, <1>2, <1>3
<1>6. \A l \in pairs : l[1] \in Nat /\ l[2] \in Nat
  BY DEF LoopTypeOK
<1>7. new[1] = open[n] /\ new[2] = scan /\ open[n] \in Nat \ {0} /\ open[n] < scan
      /\ new \in (Nat \ {0}) \X (Nat \ {0})
  BY <1>1, <1>3 DEF OpenLoops
<1>8. LoopTypeOK'
  BY <1>1, <1>2, <1>5, <1>7 DEF LoopTypeOK
<1>9. \A l \in pairs : l[2] < open[n] \/ open[n] < l[1]
  BY <1>3 DEF OpenLoops
<1>10. \A l \in pairs : l[1] < l[2] /\ l[2] < scan
  BY DEF OpenLoops
<1>11. OpenLoops'
  <2>1. (\A i \in 1..Len(open) : open[i] < scan)'
    BY <1>1, <1>2, <1>3, <1>4 DEF OpenLoops
  <2>2. (\A i, j \in 1..Len(open) : i < j => open[i] < open[j])'
    BY <1>3, <1>4 DEF OpenLoops
  <2>3. (\A l \in pairs : l[1] < l[2] /\ l[2] < scan)'
    BY <1>1, <1>2, <1>6, <1>7, <1>10
  <2>4. (\A l \in pairs : \A i \in 1..Len(open) : l[2] < open[i] \/ open[i] < l[1])'
    <3> SUFFICES ASSUME NEW l \in pairs', NEW i \in 1..(n - 1)
                 PROVE  l[2] < open[i] \/ open[i] < l[1]
      BY <1>4
    <3>1. i \in 1..n /\ i < n /\ n \in 1..n
      BY <1>3
    <3>2. CASE l \in pairs
      BY <3>1, <3>2 DEF OpenLoops
    <3>3. CASE l = new
      BY <3>1, <3>3, <1>7 DEF OpenLoops
    <3> QED BY <3>2, <3>3, <1>2
  <2> QED BY <2>1, <2>2, <2>3, <2>4 DEF OpenLoops
<1>12. PairsNest'
  <2>1. \A m \in pairs : m[2] < new[1] \/ Inside(m, new)
    BY <1>1, <1>6, <1>7, <1>9, <1>10 DEF Inside
  <2> SUFFICES ASSUME NEW l \in pairs', NEW m \in pairs'
               PROVE  l = m \/ l[2] < m[1] \/ m[2] < l[1] \/ Inside(l, m) \/ Inside(m, l)
    BY DEF PairsNest, Inside
  <2>2. CASE l \in pairs /\ m \in pairs
    BY <2>2 DEF PairsNest
  <2>3. CASE l \in pairs /\ m = new
    BY <2>1, <2>3
  <2>4. CASE l = new /\ m \in pairs
    BY <2>1, <2>4
  <2> HIDE DEF new
  <2> QED BY <2>2, <2>3, <2>4, <1>2
<1>13. EnteredNest'
  BY <1>2 DEF EnteredNest, Within, Inside
<1> QED BY <1>8, <1>11, <1>12, <1>13

\* A line that is neither LOOP nor REPEAT, in the scan of buildLoopPairs.
LEMMA ScanOtherInv == LoopInv /\ ScanOther => LoopInv'
<1> SUFFICES ASSUME LoopInv, ScanOther PROVE LoopInv'
  OBVIOUS
<1> USE DEF LoopInv
<1>1. scan \in Nat \ {0} /\ open \in Seq(Nat \ {0}) /\ \A l \in pairs : l[1] \in Nat /\ l[2] \in Nat
  BY DEF LoopTypeOK
<1>2. scan' = scan + 1 /\ UNCHANGED <<running, kinds, open, pairs, pc, entered>>
  BY DEF ScanOther
<1>3. LoopTypeOK'
  BY <1>1, <1>2 DEF LoopTypeOK
<1>4. OpenLoops'
  <2>1. \A i \in 1..Len(open) : open[i] \in Nat
    BY <1>1
  <2> QED BY <1>1, <1>2, <2>1 DEF OpenLoops
<1>5. PairsNest' /\ EnteredNest'
  BY <1>2 DEF PairsNest, EnteredNest, Within, Inside
<1> QED BY <1>3, <1>4, <1>5

-----------------------------------------------------------------------------
(* Execution: pairing is over, and only pc and entered change.             *)

\* Steps that leave the pairs alone preserve the invariant when they preserve
\* what it says of pc and entered.
LEMMA ExecutionInv ==
    ASSUME LoopInv, UNCHANGED <<running, kinds, scan, open, pairs>>,
           pc' \in Nat \ {0}, (entered \subseteq pairs)', EnteredNest'
    PROVE  LoopInv'
BY DEF LoopInv, LoopTypeOK, OpenLoops, PairsNest, Inside

\* Control moves and the loops it leaves are dropped.
LEMMA MoveInv ==
    ASSUME LoopInv, UNCHANGED <<running, kinds, scan, open, pairs>>,
           NEW n \in Nat \ {0}, MoveTo(n)
    PROVE  LoopInv'
<1>1. pc' = n /\ entered' = {l \in entered : Within(l, n)} /\ pairs' = pairs
  BY DEF MoveTo
<1>2. (entered \subseteq pairs)'
  BY <1>1 DEF LoopInv, LoopTypeOK
<1>3. EnteredNest'
  BY <1>1 DEF LoopInv, EnteredNest, Within, Inside
<1> QED BY <1>1, <1>2, <1>3, ExecutionInv

\* A LOOP line lies in the bodies of the loops that are entered, and so does
\* its whole loop.
LEMMA EnterLoopInv ==
    ASSUME LoopInv, NEW l \in pairs, EnterLoop(l)
    PROVE  LoopInv'
<1> USE DEF LoopInv
<1>1. pc = l[1] /\ pc' = pc + 1 /\ entered' = entered \cup {l}
      /\ UNCHANGED <<running, kinds, scan, open, pairs>>
  BY DEF EnterLoop
<1>2. \A m \in pairs : m[1] \in Nat /\ m[2] \in Nat /\ m[1] < m[2]
  BY DEF LoopTypeOK, OpenLoops
<1>3. entered \subseteq pairs /\ pc \in Nat \ {0}
  BY DEF LoopTypeOK
<1>4. \A m \in entered : m[1] < l[1] /\ l[1] <= m[2]
  BY <1>1 DEF EnteredNest, Within
<1>5. \A m \in entered : Inside(l, m)
  BY <1>2, <1>3, <1>4 DEF PairsNest, Inside
<1>6. \A m \in entered' : Within(m, pc')
  BY <1>1, <1>2, <1>3, <1>5 DEF Within, Inside
<1>7. \A k, m \in entered' : k = m \/ Inside(k, m) \/ Inside(m, k)
  BY <1>1, <1>5 DEF EnteredNest
<1>8. EnteredNest'
  BY <1>6, <1>7 DEF EnteredNest, Within, Inside
<1>9. (entered \subseteq pairs)' /\ pc' \in Nat \ {0}
  BY <1>1, <1>3
<1> QED BY <1>1, <1>8, <1>9, ExecutionInv

\* REPEAT goes back to the line after its LOOP.
LEMMA NextRoundInv ==
    ASSUME LoopInv, NEW l \in pairs, NextRound(l)
    PROVE  LoopInv'
<1>1. l[1] + 1 \in Nat \ {0}
  BY DEF LoopInv, LoopTypeOK
<1> QED BY <1>1, MoveInv DEF NextRound

\* The other loops that are entered lie around the innermost one, and around the
\* line behind its REPEAT.
LEMMA ExitStaysInOthers ==
    ASSUME LoopInv, NEW l \in pairs, ExitLoop(l)
    PROVE  ~Within(l, pc') /\ \A m \in entered \ {l} : Within(m, pc')
<1> USE DEF LoopInv
<1>1. pc' = l[2] + 1 /\ l \in entered /\ \A m \in entered : m[1] <= l[1]
  BY DEF ExitLoop, Innermost
<1>2. \A m \in pairs : m[1] \in Nat /\ m[2] \in Nat /\ m[1] < m[2]
  BY DEF LoopTypeOK, OpenLoops
<1>3. entered \subseteq pairs
  BY DEF LoopTypeOK
<1>4. \A m \in entered \ {l} : Inside(l, m)
  BY <1>1, <1>2, <1>3 DEF EnteredNest, Inside
<1>5. \A m \in entered \ {l} : m[1] < l[2] + 1 /\ l[2] + 1 <= m[2]
  BY <1>2, <1>3, <1>4 DEF Inside
<1> QED BY <1>1, <1>2, <1>5 DEF Within

\* EXIT leaves the innermost loop.
LEMMA ExitLoopInv ==
    ASSUME LoopInv, NEW l \in pairs, ExitLoop(l)
    PROVE  LoopInv'
<1>1. pc' = l[2] + 1 /\ entered' = entered \ {l} /\ UNCHANGED <<running, kinds, scan, open, pairs>>
  BY DEF ExitLoop
<1>2. pc' \in Nat \ {0} /\ (entered \subseteq pairs)'
  BY <1>1 DEF LoopInv, LoopTypeOK
<1>3. \A m \in entered' : Within(m, pc')
  BY <1>1, ExitStaysInOthers
<1>4. EnteredNest'
  BY <1>1, <1>3 DEF LoopInv, EnteredNest, Within, Inside
<1> QED BY <1>1, <1>2, <1>4, ExecutionInv

\* Any other line goes on to the next one.
LEMMA GoOnInv == LoopInv /\ GoOn => LoopInv'
<1> SUFFICES ASSUME LoopInv, GoOn PROVE LoopInv'
  OBVIOUS
<1>1. PICK n \in 1..(Len(kinds) + 1) : MoveTo(n)
  BY DEF GoOn
<1>2. n \in Nat \ {0}
  BY DEF LoopInv, LoopTypeOK
<1> QED BY <1>1, <1>2, MoveInv DEF GoOn

-----------------------------------------------------------------------------
(* The theorems.                                                           *)

\* Every step of a script preserves the invariant.
LEMMA LoopStepInv == LoopInv /\ [LoopNext]_loopVars => LoopInv'
<1> SUFFICES ASSUME LoopInv, [LoopNext]_loopVars PROVE LoopInv'
  OBVIOUS
<1>1. CASE Start
  BY <1>1 DEF Start, LoopInv, LoopTypeOK, OpenLoops, PairsNest, EnteredNest, Within, Inside
<1>2. CASE Stop
  BY <1>2, IdleAgainInv DEF Stop
<1>3. CASE ScanLoop
  BY <1>3, ScanLoopInv
<1>4. CASE ScanRepeat
  BY <1>4, ScanRepeatInv
<1>5. CASE ScanOther
  BY <1>5, ScanOtherInv
<1>6. CASE \E l \in pairs : EnterLoop(l) \/ NextRound(l) \/ ExitLoop(l)
  BY <1>6, EnterLoopInv, NextRoundInv, ExitLoopInv
<1>7. CASE GoOn
  BY <1>7, GoOnInv
<1>8. CASE UNCHANGED loopVars
  BY <1>8 DEF loopVars, LoopInv, LoopTypeOK, OpenLoops, PairsNest, EnteredNest, Within, Inside
<1> QED BY <1>1, <1>2, <1>3, <1>4, <1>5, <1>6, <1>7, <1>8 DEF LoopNext

\* The inductive invariant: what holds while the lines are paired, and with it
\* what holds while they are executed.
THEOREM LoopInvariant == LoopSpec => []LoopInv
<1>1. Idle => LoopInv
  BY IdleInv
<1>2. LoopInv /\ [LoopNext]_loopVars => LoopInv'
  BY LoopStepInv
<1> QED BY <1>1, <1>2, PTL DEF LoopSpec

\* In every script the loops nest, and so do the ones control is in.
THEOREM LoopsNest == LoopSpec => [](PairsNest /\ EnteredNest)
<1>1. LoopInv => PairsNest /\ EnteredNest
  BY DEF LoopInv
<1> QED BY <1>1, LoopInvariant, PTL

\* EXIT leaves the innermost loop and stays in all the others.
THEOREM ExitLeavesOne == LoopSpec => ExitLeavesOneLoop
<1>1. LoopInv /\ [LoopNext]_loopVars =>
        [\A l \in pairs : ExitLoop(l) =>
            ~Within(l, pc') /\ \A m \in entered \ {l} : Within(m, pc')]_loopVars
  BY ExitStaysInOthers
<1> QED BY <1>1, LoopInvariant, PTL DEF LoopSpec, ExitLeavesOneLoop
=============================================================================
