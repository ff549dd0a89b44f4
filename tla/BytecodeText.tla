---------------------------- MODULE BytecodeText ----------------------------
(***************************************************************************)
(* The object record of a program: serializeBytecodeText writes the        *)
(* instructions as rows of text, Parser::parse reads them back.            *)
(*                                                                         *)
(* A row is <<label, mnemonic, operand>>, its operand a sequence of        *)
(* characters or words.  An object is [basicLines, rows], basicLines the   *)
(* #BASICLINES row, empty when there is none.                              *)
(***************************************************************************)
EXTENDS BasicParser

CONSTANTS
    Spelling,     \* the literals of several characters -> their characters
    Shown,        \* what ostream prints of a double: six digits
    FunctionIds   \* the ids the registry gives the builtins

OpCodeName ==
    [Halt |-> "HALT", PushInt |-> "PUSH_INT", PushFlt |-> "PUSH_FLT", PushStr |-> "PUSH_STR",
     Add |-> "ADD", Sub |-> "SUB", Mul |-> "MUL", Div |-> "DIV", Eq |-> "EQ", Ne |-> "NE",
     Lt |-> "LT", Le |-> "LE", Gt |-> "GT", Ge |-> "GE", Drop |-> "DROP", Mod |-> "MOD",
     Concat |-> "CONCAT", Dup |-> "DUP", PrintInt |-> "PRINT_INT", PrintStr |-> "PRINT_STR",
     PrintChar |-> "PRINT_CHAR", InputInt |-> "INPUT_INT", InputFlt |-> "INPUT_FLT",
     CoerceFlt |-> "COERCE_FLT", AbsInt |-> "ABS_INT", SgnInt |-> "SGN_INT", SeqStr |-> "SEQ_STR",
     PrintVal |-> "PRINT_VAL", PrintEol |-> "PRINT_EOL", InputStr |-> "INPUT_STR",
     CoerceInt |-> "COERCE_INT", Jump |-> "JUMP", JumpIfZero |-> "JZ", Call |-> "CALL",
     Return |-> "RETURN", ForSetup |-> "FOR_SETUP", ForNext |-> "FOR_NEXT",
     DimArray |-> "DIM_ARRAY", LoadArr |-> "LOAD_ARR", StoreArr |-> "STORE_ARR",
     MatInit |-> "MAT_INIT", MatCopy |-> "MAT_COPY", MatLoadFromRec |-> "MAT_LOAD_FROM_REC",
     MatStoreToRec |-> "MAT_STORE_TO_REC", ClearVars |-> "CLEAR_VARS", CallFunc |-> "CALL_FUNC",
     OpenFile |-> "OPEN_FILE", OpenFileTry |-> "OPEN_FILE_TRY", ReadRec |-> "READ_REC",
     ReadRecTry |-> "READ_REC_TRY", ReadRecU |-> "READ_REC_U", ReadRecUTry |-> "READ_REC_U_TRY",
     WriteRec |-> "WRITE_REC", WriteRecTry |-> "WRITE_REC_TRY", WriteRecU |-> "WRITE_REC_U",
     WriteRecUTry |-> "WRITE_REC_U_TRY", ReleaseRec |-> "RELEASE_REC", ReadNext |-> "READ_NEXT",
     ReadNextTry |-> "READ_NEXT_TRY", ReadV |-> "READ_V", ReadVTry |-> "READ_V_TRY",
     WriteV |-> "WRITE_V", WriteVTry |-> "WRITE_V_TRY", ExtractAttr |-> "EXTRACT_ATTR",
     ResolveDictAttr |-> "RESOLVE_DICT_ATTR", Chain |-> "CHAIN", CloseFile |-> "CLOSE_FILE",
     SetOnErrorHandler |-> "SET_ON_ERROR_HANDLER", LoadVar |-> "LOAD_VAR", StoreVar |-> "STORE_VAR"]

-----------------------------------------------------------------------------
(* serializeBytecodeText.                                                  *)

EscapeCode == ("\\" :> "\\") @@ ("\"" :> "\"") @@ ("\n" :> "n") @@ ("\r" :> "r") @@ ("\t" :> "t")
CharsOf(s) == IF s \in DOMAIN Spelling THEN Spelling[s] ELSE IF s = "" THEN <<>> ELSE <<s>>

\* Faulty variant: a backslash is written as it is.
EscapeQuotedPlain(chars) ==
    FlattenSeq([k \in DOMAIN chars |-> IF chars[k] \in DOMAIN EscapeCode \ {"\\"}
                                       THEN <<"\\", EscapeCode[chars[k]]>> ELSE <<chars[k]>>])

EscapeQuoted(chars) ==
    FlattenSeq([k \in DOMAIN chars |-> IF chars[k] \in DOMAIN EscapeCode
                                       THEN <<"\\", EscapeCode[chars[k]]>> ELSE <<chars[k]>>])

IntOperand == {"PushInt", "Jump", "JumpIfZero", "Call", "SetOnErrorHandler"}
OperandText(i) ==
    CASE Len(i) = 1 -> <<>>
      [] Len(i) = 2 /\ i[1] \in IntOperand -> <<ToString(i[2])>>
      [] Len(i) = 2 /\ i[1] = "PushFlt" -> <<Shown[i[2]]>>
      [] Len(i) = 2 /\ i[1] = "PushStr" -> <<"\"">> \o EscapeQuoted(CharsOf(i[2][1][1])) \o <<"\"">>
      [] Len(i) = 2 /\ i[1] = "CallFunc" -> <<ToString(FunctionIds[i[2][1]]), ",", ToString(i[2][2])>>
      [] Len(i) = 2 /\ i[1] = "MatCopy" -> <<i[2][1], "|", i[2][2]>>
      [] OTHER -> IF i[2] = "" THEN <<>> ELSE <<i[2]>>
Serialized(e) ==
    [basicLines |-> e.lines,
     rows |-> Explicit([k \in DOMAIN e.code |-> <<"", OpCodeName[e.code[k][1]], OperandText(e.code[k])>>])]

-----------------------------------------------------------------------------
(* Parser::parse.                                                          *)

TakesNothing ==
    {"HALT", "ADD", "SUB", "MUL", "DIV", "EQ", "NE", "LT", "LE", "GT", "GE", "DROP", "PRINT_VAL",
     "PRINT_EOL", "INPUT_STR", "COERCE_INT", "RETURN", "CLEAR_VARS", "EXTRACT_ATTR", "CHAIN", "MOD",
     "CONCAT", "DUP", "PRINT_INT", "PRINT_STR", "PRINT_CHAR", "INPUT_INT", "INPUT_FLT", "COERCE_FLT",
     "ABS_INT", "SGN_INT", "SEQ_STR"}
TakesTarget == {"JUMP", "JZ", "CALL"}
TakesName ==
    {"FOR_SETUP", "FOR_NEXT", "DIM_ARRAY", "LOAD_ARR", "STORE_ARR", "MAT_INIT", "MAT_LOAD_FROM_REC",
     "MAT_STORE_TO_REC", "LOAD_VAR", "STORE_VAR", "CLOSE_FILE"}
TakesFile ==
    {"OPEN_FILE", "OPEN_FILE_TRY", "READ_REC", "READ_REC_TRY", "READ_REC_U", "READ_REC_U_TRY",
     "WRITE_REC", "WRITE_REC_TRY", "WRITE_REC_U", "WRITE_REC_U_TRY", "RELEASE_REC"}
TakesFileAfter ==
    {"READ_NEXT", "READ_NEXT_TRY", "READ_V", "READ_V_TRY", "RESOLVE_DICT_ATTR", "WRITE_V", "WRITE_V_TRY"}

\* Pass 1: a label stands for the next instruction.
Instructions(rows) == SelectSeq(rows, LAMBDA r : r[2] # "")
LabelMap(rows) ==
    [l \in {rows[k][1] : k \in DOMAIN rows} \ {""} |->
        Len(Instructions(SubSeq(rows, 1, Max({k \in DOMAIN rows : rows[k][1] = l}) - 1)))]

RECURSIVE Unescaped(_, _)
Unescaped(chars, out) ==
    IF chars = <<>> THEN out
    ELSE IF chars[1] # "\\" THEN Unescaped(Tail(chars), Append(out, chars[1]))
    ELSE IF Len(chars) = 1 \/ chars[2] \notin Range(EscapeCode) THEN Failure
    ELSE Unescaped(SubSeq(chars, 3, Len(chars)),
                   Append(out, CHOOSE c \in DOMAIN EscapeCode : EscapeCode[c] = chars[2]))
Literal(chars) == Make(chars # Failure, <<"PushStr", << <<Concat(chars)>> >> >>)
QuotedString(t) ==
    IF Len(t) >= 2 /\ t[1] = "\"" /\ Last(t) = "\"" THEN Literal(Unescaped(SubSeq(t, 2, Len(t) - 1), <<>>))
    ELSE Literal(t)

OpCodeOfName(m) == CHOOSE op \in DOMAIN OpCodeName : OpCodeName[op] = m
CallFuncOperands(t) ==
    Make(Len(t) = 3 /\ t[2] = ",",
         <<"CallFunc", <<CHOOSE f \in DOMAIN FunctionIds : ToString(FunctionIds[f]) = t[1], Numbers[t[3]]>> >>)
TargetOf(op, t, labels) ==
    IF Len(t) = 1 /\ t[1] \in DOMAIN Numbers THEN <<op, Numbers[t[1]]>>
    ELSE Make(Len(t) = 1 /\ t[1] \in DOMAIN labels, <<op, labels[t[1]]>>)
NameOperand(op, t) == Make(t # <<>>, <<op, Concat(t)>>)

\* Pass 2.
InstructionOf(m, t, labels) ==
    CASE m \in TakesNothing -> Make(t = <<>>, <<OpCodeOfName(m)>>)
      [] m \in {"PUSH_INT", "SET_ON_ERROR_HANDLER"} ->
            Make(Len(t) = 1 /\ t[1] \in DOMAIN Numbers, <<OpCodeOfName(m), Numbers[t[1]]>>)
      [] m = "PUSH_FLT" -> Make(Len(t) = 1 /\ t[1] \in DOMAIN Floats, <<"PushFlt", Floats[t[1]]>>)
      [] m = "PUSH_STR" -> QuotedString(t)
      [] m \in TakesTarget -> TargetOf(OpCodeOfName(m), t, labels)
      [] m = "CALL_FUNC" -> CallFuncOperands(t)
      [] m = "MAT_COPY" -> Make(Len(t) = 3, <<"MatCopy", <<t[1], t[3]>> >>)
      [] m \in TakesName \cup TakesFile \cup TakesFileAfter -> NameOperand(OpCodeOfName(m), t)
      [] OTHER -> Failure

ValidJumpTargets(code) ==
    \A k \in DOMAIN code : code[k][1] \in {"Jump", "JumpIfZero", "Call"} => code[k][2] < Len(code)

\* What stands for the exception of a text that is refused.
Unloadable == [code |-> <<>>, lines |-> <<0>>]
Loaded(code, obj, places) ==
    IF /\ \A k \in DOMAIN code : code[k] # Failure
       /\ obj.basicLines # <<>> => Len(obj.basicLines) = Len(code)
       /\ ValidJumpTargets(code)
    THEN [code |-> code, lines |-> IF obj.basicLines = <<>> THEN places ELSE obj.basicLines]
    ELSE Unloadable
Decoded(instructions, labels) ==
    Explicit([k \in DOMAIN instructions |-> InstructionOf(instructions[k][2], instructions[k][3], labels)])
ParseText(obj) ==
    Loaded(Decoded(Instructions(obj.rows), LabelMap(obj.rows)), obj,
           SelectSeq([k \in DOMAIN obj.rows |-> k], LAMBDA k : obj.rows[k][2] # ""))

=============================================================================
