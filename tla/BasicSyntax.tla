----------------------------- MODULE BasicSyntax -----------------------------
(***************************************************************************)
(* What the phases of the BASIC compiler and the machine share: the names  *)
(* a program may use and the shape of what the parser hands on.            *)
(*                                                                         *)
(* A program is a sequence of <<line number, statement>> in the order of   *)
(* the numbers.  Statements and expressions are tuples that start with     *)
(* their kind; an arm of a statement is <<"line", n>>, <<"stmt", s>> or    *)
(* None.                                                                   *)
(***************************************************************************)
EXTENDS Integers, Sequences, SequencesExt, FiniteSetsExt, TLC

CONSTANTS
    IntNames, StringNames, \* the names that end in % and in $
    Arities                \* the argument counts of the builtins, name -> set

None == <<>>

\* The sequence s, written so that TLC evaluates each element once.
Explicit(s) == s \o <<>>

Sorted(S) == Explicit([i \in 1 .. Cardinality(S) |-> CHOOSE n \in S : Cardinality({k \in S : k <= n}) = i])

=============================================================================
