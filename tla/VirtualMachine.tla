--------------------------- MODULE VirtualMachine ---------------------------
(***************************************************************************)
(* The bytecode machine, Runtime: step executes one instruction, run       *)
(* repeats it and polls the interrupt flag in between, and loadProgram     *)
(* prepares the next program.  The files are those of the session's        *)
(* account; locks that other ports hold are part of the environment.       *)
(*                                                                         *)
(* An instruction is <<opcode, operand>>, a value is <<"int", n>>,         *)
(* <<"flt", <<p, q>>>> (a double as an exact fraction: rounding is left    *)
(* out) or <<"str", text>>.  A text is a sequence of attributes, each a    *)
(* sequence of the strings between value marks.  Names are upper case      *)
(* already.  The session always configures a file system and the registry. *)
(***************************************************************************)
EXTENDS BasicSyntax

CONSTANTS
    IntMax,       \* the largest int; int arithmetic wraps at it
    Numerals,     \* what strtod reads from a string that is not an int in range
    Collation,    \* the strings programs compare, in their order
    SystemVars,   \* the values of the read-only system variables
    DictFields,   \* the fields of the dictionary: [kind, attr]
    BadNames,     \* strings that no file or record may have as a name
    MaxDepth      \* bound on the GOSUB and FOR stacks

ASSUME IntMaxAssumption == IntMax \in Nat \ {0} /\ MaxDepth \in Nat

VARIABLES
    program,      \* [code, lines]: the instructions and their source lines
    ip, stack, callStack, forStack, variables, arrays,
    openFiles,    \* file variable -> [name, cursor]
    statusCode, onErrorIp, interrupted,
    mode,         \* "running", or how run ended: "halted", "error", "interrupt", "chain"
    driver,       \* who calls step: "run", or the debugger's "cont" and "step"
    chainTo,      \* the program a ChainRequest names
    disk,         \* file name -> record id -> text
    locks,        \* <<file, id>> -> "me" or "other"
    in, out       \* lines to be read, texts printed

frames == <<callStack, forStack>>
values == <<variables, arrays>>
files == <<openFiles, disk, locks>>
console == <<in, out>>
vmVars == <<program, ip, stack, frames, values, files, console, statusCode,
            onErrorIp, interrupted, mode, driver, chainTo>>

Undefined == <<"undefined">>
IntMin == -IntMax - 1
Ints == IntMin .. IntMax
AbsOf(n) == IF n < 0 THEN -n ELSE n

-----------------------------------------------------------------------------
(* Values and their conversions.                                           *)

IntValue(n) == <<"int", n>>
Plain(s) == << <<s>> >>
Str(s) == <<"str", Plain(s)>>
EmptyText == Plain("")
Flag(b) == IntValue(IF b THEN 1 ELSE 0)
IsString(v) == v[1] = "str"

\* int arithmetic that overflows wraps around, as the build does.
Wrap(n) == ((n - IntMin) % (2 * IntMax + 2)) + IntMin

Fraction(p, q) ==
    LET s == IF q < 0 THEN -1 ELSE 1
        g == IF p = 0 THEN AbsOf(q)
             ELSE Max({d \in 1 .. AbsOf(q) : p % d = 0 /\ q % d = 0})
    IN <<(s * p) \div g, (s * q) \div g>>

Truncated(f) == IF f[1] < 0 THEN -((-f[1]) \div f[2]) ELSE f[1] \div f[2]

RECURSIVE Decimals(_, _, _)
Decimals(r, q, digits) ==
    IF r = 0 \/ digits = 0 THEN ""
    ELSE ToString((r * 10) \div q) \o Decimals((r * 10) % q, q, digits - 1)

\* valueToString: 15 digits without trailing zeros; a whole double shows no point.
FloatText(f) ==
    IF f[2] = 1 THEN ToString(f[1])
    ELSE (IF f[1] < 0 THEN "-" ELSE "") \o ToString(AbsOf(f[1]) \div f[2]) \o "."
            \o Decimals(AbsOf(f[1]) % f[2], f[2], 15)

ValueToString(v) ==
    CASE v[1] = "int" -> Plain(ToString(v[2]))
      [] v[1] = "flt" -> Plain(FloatText(v[2]))
      [] v[1] = "str" -> v[2]

IntOfText == [s \in {ToString(n) : n \in Ints} |-> CHOOSE n \in Ints : ToString(n) = s]

\* strtod: the number a string starts with, and whether more follows it.
Strtod(s) ==
    CASE s \in DOMAIN IntOfText -> [number |-> <<IntOfText[s], 1>>, junk |-> FALSE]
      [] s \in DOMAIN Numerals -> Numerals[s]
      [] OTHER -> [number |-> <<0, 1>>, junk |-> FALSE]

CoerceToDouble(v) ==
    CASE v[1] = "int" -> <<v[2], 1>>
      [] v[1] = "flt" -> v[2]
      [] v[1] = "str" -> Strtod(v[2][1][1]).number

\* A text of several attributes or values has more than the number in it.
HasTrailingJunk(t) ==
    \/ Strtod(t[1][1]).junk
    \/ Len(t[1]) > 1 \/ \E a \in 2 .. Len(t) : t[a] # <<"">>

ForcesDouble(v) == v[1] = "flt" \/ (IsString(v) /\ HasTrailingJunk(v[2]))

ArithmeticResultValue(a, b, f) ==
    IF ~ForcesDouble(a) /\ ~ForcesDouble(b) /\ f[2] = 1 /\ f[1] \in Ints
    THEN IntValue(f[1]) ELSE <<"flt", f>>

CoerceToInt(v) == LET n == Truncated(CoerceToDouble(v))
                  IN IF n \in Ints THEN n ELSE 0

\* compareValues: both numeric, or both strings (0 when equal).
SignOf(n) == IF n < 0 THEN -1 ELSE IF n > 0 THEN 1 ELSE 0
RankOf(t) == CHOOSE i \in DOMAIN Collation : Collation[i] = t[1][1]
CompareValues(a, b) ==
    CASE ~IsString(a) /\ ~IsString(b) ->
            LET x == CoerceToDouble(a) y == CoerceToDouble(b)
            IN SignOf(x[1] * y[2] - y[1] * x[2])
      [] IsString(a) /\ IsString(b) ->
            IF a[2] = b[2] THEN 0 ELSE SignOf(RankOf(a[2]) - RankOf(b[2]))

-----------------------------------------------------------------------------
(* The arithmetic and comparison instructions; Undefined stands for the    *)
(* exception.                                                              *)

ArithmeticOps == {"Add", "Sub", "Mul"}
Arithmetic(op, a, b) ==
    LET x == CoerceToDouble(a) y == CoerceToDouble(b)
        f == CASE op = "Add" -> Fraction(x[1] * y[2] + y[1] * x[2], x[2] * y[2])
               [] op = "Sub" -> Fraction(x[1] * y[2] - y[1] * x[2], x[2] * y[2])
               [] op = "Mul" -> Fraction(x[1] * y[1], x[2] * y[2])
    IN IF a[1] = "int" /\ b[1] = "int" THEN IntValue(Wrap(f[1]))
       ELSE ArithmeticResultValue(a, b, f)

\* Two ints divide to an int, anything else to a double.
Division(a, b) ==
    LET x == CoerceToDouble(a) y == CoerceToDouble(b)
        f == Fraction(x[1] * y[2], x[2] * y[1])
    IN IF y[1] = 0 THEN Undefined
       ELSE IF a[1] = "int" /\ b[1] = "int" THEN IntValue(Wrap(Truncated(f)))
       ELSE <<"flt", f>>

ComparisonOps == {"Eq", "Ne", "Lt", "Le", "Gt", "Ge"}
Comparison(op, a, b) ==
    IF IsString(a) # IsString(b) THEN Undefined
    ELSE LET c == CompareValues(a, b)
         IN Flag(CASE op = "Eq" -> c = 0 [] op = "Ne" -> c # 0
                   [] op = "Lt" -> c < 0 [] op = "Le" -> c <= 0
                   [] op = "Gt" -> c > 0 [] op = "Ge" -> c >= 0)

-----------------------------------------------------------------------------
(* Structured records.                                                     *)

\* fromRaw: the empty text has no attribute at all.
Attributes(t) == IF t = EmptyText THEN <<>> ELSE t
AttributeText(t, n) == IF n \in 1 .. Len(Attributes(t)) THEN <<t[n]>> ELSE EmptyText
SubvalueText(t, n, i) ==
    IF n \in 1 .. Len(Attributes(t)) /\ i \in 1 .. Len(t[n]) THEN Plain(t[n][i])
    ELSE EmptyText

\* setAttribute, then toRaw, which writes the attributes of the map one after
\* the other: a number past the next one lands on the next one.
WithAttribute(t, n, v) ==
    LET a == Attributes(t)
    IN IF n <= 0 THEN t ELSE SubSeq(a, 1, Min({n - 1, Len(a)})) \o v \o SubSeq(a, n + 1, Len(a))

\* writeSubvalue pads the attribute with empty values.
WithSubvalue(t, n, i, v) ==
    LET old == AttributeText(t, n)[1]
        padded == [k \in 1 .. Max({i, Len(old)}) |-> IF k <= Len(old) THEN old[k] ELSE ""]
    IN WithAttribute(t, n, << SubSeq(padded, 1, i - 1) \o v[1] \o SubSeq(padded, i + 1, Len(padded)) >>)

-----------------------------------------------------------------------------
(* How an instruction ends.  Each of these sets ip, mode, stack and the    *)
(* status; n is the number of operands the instruction took.               *)

Size == Len(program.code)
Instr == program.code[ip + 1]
Op == Instr[1]
Operand == Instr[2]
Top(k) == stack[Len(stack) + 1 - k]
Popped(n) == SubSeq(stack, 1, Len(stack) - n)

OperandCount ==
    CASE Op \in ArithmeticOps \cup ComparisonOps \cup {"Div", "ForSetup", "StoreArr",
                 "WriteRec", "WriteRecTry", "WriteRecU", "WriteRecUTry"} -> 2
      [] Op \in {"Drop", "PrintVal", "CoerceInt", "JumpIfZero", "DimArray",
                 "LoadArr", "MatInit", "MatLoadFromRec", "OpenFile", "OpenFileTry", "ReadRec",
                 "ReadRecTry", "ReadRecU", "ReadRecUTry", "ReleaseRec", "ResolveDictAttr",
                 "Chain", "StoreVar"} -> 1
      [] Op \in {"ExtractAttr", "ReadV", "ReadVTry"} -> 3
      [] Op \in {"WriteV", "WriteVTry"} -> 4
      [] Op = "CallFunc" -> Operand[2]
      [] OTHER -> 0

\* run polls the flag after a step that did not end the program; step alone
\* never looks at it.
Reach(target) ==
    /\ ip' = target
    /\ mode' = IF target >= Size THEN "halted"
               ELSE IF interrupted /\ driver = "run" THEN "interrupt" ELSE "running"

Return(n, results) ==
    /\ stack' = Popped(n) \o results
    /\ Reach(ip + 1)
    /\ UNCHANGED statusCode

JumpTo(n, target) ==
    /\ stack' = Popped(n)
    /\ Reach(target)
    /\ UNCHANGED statusCode

\* An exception leaves ip at the instruction; its operands are gone, unless it
\* is thrown before they are popped.
Refuse ==
    /\ mode' = "error"
    /\ UNCHANGED <<ip, stack, statusCode>>

Throw ==
    /\ mode' = "error"
    /\ stack' = Popped(Min({OperandCount, Len(stack)}))
    /\ UNCHANGED <<ip, statusCode>>


\* handleRecordLockConflict.
LockConflict(n) ==
    /\ statusCode' = 1
    /\ stack' = Popped(n)
    /\ IF onErrorIp = None THEN mode' = "error" /\ UNCHANGED ip
       ELSE Reach(onErrorIp[1])

-----------------------------------------------------------------------------
(* Instructions that only compute: the values they push.                   *)

PushLiteral ==
    CASE Op = "PushInt" -> <<IntValue(Operand)>>
      [] Op = "PushFlt" -> << <<"flt", Operand>> >>
      [] Op = "PushStr" -> << <<"str", Operand>> >>

LoadVar ==
    CASE Operand \in DOMAIN SystemVars -> <<SystemVars[Operand]>>
      [] Operand \in DOMAIN variables -> <<variables[Operand]>>
      [] OTHER -> <<Undefined>>

LoadArr ==
    LET i == CoerceToInt(Top(1))
    IN IF Operand \in DOMAIN arrays /\ i \in 1 .. Len(arrays[Operand])
       THEN <<arrays[Operand][i]>> ELSE <<Undefined>>

\* The attributes of an array's elements, one after the other.
MatStoreToRec ==
    IF Operand \notin DOMAIN arrays THEN <<Undefined>>
    ELSE << <<"str", FlattenSeq([i \in DOMAIN arrays[Operand] |->
                                    ValueToString(arrays[Operand][i])])>> >>

\* The builtin handlers of the BASIC module, for numbers and STATUS.
Builtin(name, args) ==
    CASE name = "ABS" -> IntValue(Wrap(AbsOf(CoerceToInt(args[1]))))
      [] name = "SGN" -> IntValue(SignOf(CoerceToInt(args[1])))
      [] name = "INT" -> LET n == Truncated(CoerceToDouble(args[1]))
                         IN IntValue(IF n \in Ints THEN n ELSE IntMin)
      [] name = "STR" -> <<"str", ValueToString(args[1])>>
      [] name = "NUM" -> Flag(~IsString(args[1])
                              \/ /\ args[1][2][1][1] \in DOMAIN IntOfText \cup DOMAIN Numerals
                                 /\ ~HasTrailingJunk(args[1][2]))
      [] name = "STATUS" -> IntValue(statusCode)

\* LanguageRegistry::dispatch, for a call the compiler emitted.
CallFunc ==
    LET n == Operand[2]
    IN <<Builtin(Operand[1], SubSeq(stack, Len(stack) - n + 1, Len(stack)))>>

ExtractAttr ==
    LET t == ValueToString(Top(3)) n == CoerceToInt(Top(2)) i == CoerceToInt(Top(1))
    IN << <<"str", IF i > 0 THEN SubvalueText(t, n, i) ELSE AttributeText(t, n)>> >>

\* The number of an A field, the token itself for a computed field, else 0.
ResolveDictAttr ==
    LET token == ValueToString(Top(1))[1][1]
    IN IF Operand \notin DOMAIN openFiles THEN <<IntValue(0)>>
       ELSE IF token \in DOMAIN IntOfText /\ IntOfText[token] > 0 THEN <<IntValue(IntOfText[token])>>
       ELSE IF token \notin DOMAIN DictFields THEN <<IntValue(0)>>
       ELSE IF DictFields[token].kind = "A" THEN <<IntValue(DictFields[token].attr)>>
       ELSE <<Str(token)>>

\* The values pushed, or <<Undefined>>.
Computed ==
    CASE Op \in {"PushInt", "PushFlt", "PushStr"} -> PushLiteral
      [] Op \in ArithmeticOps -> <<Arithmetic(Op, Top(2), Top(1))>>
      [] Op = "Div" -> <<Division(Top(2), Top(1))>>
      [] Op \in ComparisonOps -> <<Comparison(Op, Top(2), Top(1))>>
      [] Op = "Drop" -> <<>>
      [] Op = "CoerceInt" -> <<IntValue(CoerceToInt(Top(1)))>>
      [] Op = "CallFunc" -> CallFunc
      [] Op = "LoadVar" -> LoadVar
      [] Op = "LoadArr" -> LoadArr
      [] Op = "MatStoreToRec" -> MatStoreToRec
      [] Op = "ExtractAttr" -> ExtractAttr
      [] Op = "ResolveDictAttr" -> ResolveDictAttr

ComputeOps == {"PushInt", "PushFlt", "PushStr", "Div", "Drop", "CoerceInt", "CallFunc", "LoadVar", "LoadArr", "MatStoreToRec",
               "ExtractAttr", "ResolveDictAttr"} \cup ArithmeticOps \cup ComparisonOps

Compute ==
    /\ Op \in ComputeOps
    /\ IF Computed = <<Undefined>> THEN Throw ELSE Return(OperandCount, Computed)
    /\ UNCHANGED <<frames, values, files, console, onErrorIp, chainTo>>

-----------------------------------------------------------------------------
(* Output and input.                                                       *)

PrintVal ==
    /\ Op \in {"PrintVal", "PrintEol"}
    /\ out' = Append(out, IF Op = "PrintEol" THEN Plain("EOL") ELSE ValueToString(Top(1)))
    /\ Return(IF Op = "PrintEol" THEN 0 ELSE 1, <<>>)
    /\ UNCHANGED <<frames, values, files, in, onErrorIp, chainTo>>

\* The line is trimmed; at the end of the input the instruction throws.
InputStr ==
    /\ Op = "InputStr"
    /\ IF in = <<>> THEN Throw /\ UNCHANGED in
       ELSE Return(0, <<Str(Head(in))>>) /\ in' = Tail(in)
    /\ UNCHANGED <<frames, values, files, out, onErrorIp, chainTo>>

-----------------------------------------------------------------------------
(* Control.                                                                *)

Halt ==
    /\ Op = "Halt"
    /\ JumpTo(0, Size)
    /\ UNCHANGED <<frames, values, files, console, onErrorIp, chainTo>>

Jump ==
    /\ Op = "Jump"
    /\ JumpTo(0, Operand)
    /\ UNCHANGED <<frames, values, files, console, onErrorIp, chainTo>>

JumpIfZero ==
    /\ Op = "JumpIfZero"
    /\ IF Top(1)[1] # "int" THEN Throw
       ELSE JumpTo(1, IF Top(1)[2] = 0 THEN Operand ELSE ip + 1)
    /\ UNCHANGED <<frames, values, files, console, onErrorIp, chainTo>>

Call ==
    /\ Op = "Call"
    /\ Len(callStack) < MaxDepth
    /\ callStack' = Append(callStack, ip + 1)
    /\ JumpTo(0, Operand)
    /\ UNCHANGED <<forStack, values, files, console, onErrorIp, chainTo>>

ReturnFromCall ==
    /\ Op = "Return"
    /\ IF callStack = <<>> THEN Throw /\ UNCHANGED callStack
       ELSE JumpTo(0, Last(callStack)) /\ callStack' = Front(callStack)
    /\ UNCHANGED <<forStack, values, files, console, onErrorIp, chainTo>>

\* Faulty variant: the frame takes the step for the limit.
ForSetupSwapped ==
    /\ Op = "ForSetup"
    /\ LET step == CoerceToInt(Top(2)) limit == CoerceToInt(Top(1))
       IN IF step = 0 THEN Throw /\ UNCHANGED forStack
          ELSE /\ Len(forStack) < MaxDepth
               /\ forStack' = Append(forStack, [var |-> Operand, limit |-> limit,
                                                step |-> step, body |-> ip + 1])
               /\ Return(2, <<>>)
    /\ UNCHANGED <<callStack, values, files, console, onErrorIp, chainTo>>

ForSetup ==
    /\ Op = "ForSetup"
    /\ LET step == CoerceToInt(Top(1)) limit == CoerceToInt(Top(2))
       IN IF step = 0 THEN Throw /\ UNCHANGED forStack
          ELSE /\ Len(forStack) < MaxDepth
               /\ forStack' = Append(forStack, [var |-> Operand, limit |-> limit,
                                                step |-> step, body |-> ip + 1])
               /\ Return(2, <<>>)
    /\ UNCHANGED <<callStack, values, files, console, onErrorIp, chainTo>>

\* A NEXT without a name matches the innermost frame.
ForNext ==
    /\ Op = "ForNext"
    /\ IF forStack = <<>> \/ Operand \notin {"", Last(forStack).var} \/ Last(forStack).var \in DOMAIN SystemVars
       THEN Throw /\ UNCHANGED <<forStack, variables>>
       ELSE LET f == Last(forStack)
                cur == IF f.var \in DOMAIN variables THEN CoerceToInt(variables[f.var]) ELSE 0
                new == Wrap(cur + f.step)
                done == IF f.step > 0 THEN new > f.limit ELSE new < f.limit
            IN /\ variables' = (f.var :> IntValue(new)) @@ variables
               /\ forStack' = IF done THEN Front(forStack) ELSE forStack
               /\ JumpTo(0, IF done THEN ip + 1 ELSE f.body)
    /\ UNCHANGED <<callStack, arrays, files, console, onErrorIp, chainTo>>

\* Target 0 clears the handler.
SetOnErrorHandler ==
    /\ Op = "SetOnErrorHandler"
    /\ onErrorIp' = IF Operand <= 0 THEN None ELSE <<Operand>>
    /\ Return(0, <<>>)
    /\ UNCHANGED <<frames, values, files, console, chainTo>>

Chain ==
    /\ Op = "Chain"
    /\ LET name == ValueToString(Top(1))
       IN IF name = EmptyText THEN Throw /\ UNCHANGED chainTo
          ELSE /\ chainTo' = name[1][1]
               /\ mode' = "chain"
               /\ stack' = Popped(1)
               /\ UNCHANGED <<ip, statusCode>>
    /\ UNCHANGED <<frames, values, files, console, onErrorIp>>

-----------------------------------------------------------------------------
(* Variables and arrays.                                                   *)

StoreVar ==
    /\ Op = "StoreVar"
    /\ IF Operand \in DOMAIN SystemVars THEN Refuse /\ UNCHANGED variables
       ELSE Return(1, <<>>) /\ variables' = (Operand :> Top(1)) @@ variables
    /\ UNCHANGED <<frames, arrays, files, console, onErrorIp, chainTo>>

\* The new contents of the array an instruction assigns to, or <<Undefined>>.
DimArray ==
    LET size == CoerceToInt(Top(1))
    IN IF size < 1 THEN <<Undefined>> ELSE [i \in 1 .. size |-> Str("")]

StoreArr ==
    LET i == CoerceToInt(Top(1))
    IN IF Operand \in DOMAIN arrays /\ i \in 1 .. Len(arrays[Operand])
       THEN [arrays[Operand] EXCEPT ![i] = Top(2)] ELSE <<Undefined>>

ElementOf(name, v) == IF name \in IntNames THEN IntValue(CoerceToInt(v)) ELSE v

MatInit ==
    IF Operand \in DOMAIN arrays
    THEN [i \in DOMAIN arrays[Operand] |-> ElementOf(Operand, Top(1))] ELSE <<Undefined>>

MatCopy ==
    LET src == Operand[2]
    IN IF {Operand[1], src} \subseteq DOMAIN arrays /\ Len(arrays[Operand[1]]) = Len(arrays[src])
       THEN [i \in DOMAIN arrays[src] |-> ElementOf(Operand[1], arrays[src][i])] ELSE <<Undefined>>

MatLoadFromRec ==
    LET t == Attributes(ValueToString(Top(1)))
    IN IF Operand \in DOMAIN arrays /\ Len(t) = Len(arrays[Operand])
       THEN [i \in DOMAIN t |-> ElementOf(Operand, <<"str", <<t[i]>> >>)] ELSE <<Undefined>>

ArrayContents ==
    CASE Op = "DimArray" -> DimArray
      [] Op = "StoreArr" -> StoreArr
      [] Op = "MatInit" -> MatInit
      [] Op = "MatCopy" -> MatCopy
      [] Op = "MatLoadFromRec" -> MatLoadFromRec

ChangeArray ==
    /\ Op \in {"DimArray", "StoreArr", "MatInit", "MatCopy", "MatLoadFromRec"}
    /\ LET name == IF Op = "MatCopy" THEN Operand[1] ELSE Operand
       IN IF name \in DOMAIN SystemVars THEN Refuse /\ UNCHANGED arrays
          ELSE IF ArrayContents = <<Undefined>> THEN Throw /\ UNCHANGED arrays
          ELSE arrays' = (name :> ArrayContents) @@ arrays /\ Return(OperandCount, <<>>)
    /\ UNCHANGED <<frames, variables, files, console, onErrorIp, chainTo>>

ClearVars ==
    /\ Op = "ClearVars"
    /\ variables' = <<>> /\ arrays' = <<>>
    /\ Return(0, <<>>)
    /\ UNCHANGED <<frames, files, console, onErrorIp, chainTo>>

-----------------------------------------------------------------------------
(* Files and records.                                                      *)

Unprimed == [primed |-> FALSE, ids |-> <<>>]
RecordName(v) == LET t == ValueToString(v)
                 IN IF Len(t) = 1 /\ Len(t[1]) = 1 THEN t[1][1] ELSE ""
Key(id) == <<openFiles[Operand].name, id>>
IsOpen == Operand \in DOMAIN openFiles
LockedByOther(id) == Key(id) \in DOMAIN locks /\ locks[Key(id)] = "other"
StoredRecord(id) == disk[openFiles[Operand].name][id]
IsStored(id) == id \in DOMAIN disk[openFiles[Operand].name]
Written(id, text) == [disk EXCEPT ![openFiles[Operand].name] = (id :> text) @@ @]
CursorReset == [openFiles EXCEPT ![Operand].cursor = Unprimed]

OpenFile ==
    /\ Op \in {"OpenFile", "OpenFileTry"}
    /\ LET name == RecordName(Top(1)) try == Op = "OpenFileTry"
       IN IF name \in DOMAIN disk
          THEN /\ openFiles' = (Operand :> [name |-> name, cursor |-> Unprimed]) @@ openFiles
               /\ Return(1, IF try THEN <<Flag(TRUE)>> ELSE <<>>)
          ELSE /\ IF try THEN Return(1, <<Flag(FALSE)>>) ELSE Throw
               /\ UNCHANGED openFiles
    /\ UNCHANGED <<frames, values, disk, locks, console, onErrorIp, chainTo>>

CloseFile ==
    /\ Op = "CloseFile"
    /\ openFiles' = [v \in DOMAIN openFiles \ {Operand} |-> openFiles[v]]
    /\ Return(0, <<>>)
    /\ UNCHANGED <<frames, values, disk, locks, console, onErrorIp, chainTo>>

\* READ, READU and their forms with ELSE.  READU takes the lock before it
\* looks for the record.  A bad name throws whether there is an ELSE or not.
ReadRec ==
    /\ Op \in {"ReadRec", "ReadRecTry", "ReadRecU", "ReadRecUTry"}
    /\ LET id == RecordName(Top(1))
           try == Op \in {"ReadRecTry", "ReadRecUTry"}
           update == Op \in {"ReadRecU", "ReadRecUTry"}
           Missing == IF try THEN Return(1, <<Str(""), Flag(FALSE)>>) ELSE Throw
       IN /\ CASE ~IsOpen -> Missing
               [] IsOpen /\ LockedByOther(id) -> IF try THEN Missing ELSE LockConflict(1)
               [] IsOpen /\ ~LockedByOther(id) /\ id \in BadNames -> Throw
               [] IsOpen /\ ~LockedByOther(id) /\ id \notin BadNames ->
                    IF ~IsStored(id) THEN Missing
                    ELSE Return(1, <<<<"str", StoredRecord(id)>>>> \o (IF try THEN <<Flag(TRUE)>> ELSE <<>>))
          /\ locks' = IF update /\ IsOpen /\ ~LockedByOther(id) THEN (Key(id) :> "me") @@ locks ELSE locks
    /\ UNCHANGED <<frames, values, openFiles, disk, console, onErrorIp, chainTo>>

\* WRITE, WRITEU and their forms with ELSE.
WriteRec ==
    /\ Op \in {"WriteRec", "WriteRecTry", "WriteRecU", "WriteRecUTry"}
    /\ LET id == RecordName(Top(1))
           try == Op \in {"WriteRecTry", "WriteRecUTry"}
           update == Op \in {"WriteRecU", "WriteRecUTry"}
           free == IsOpen /\ ~LockedByOther(id)
           ok == free /\ id \notin BadNames
       IN /\ CASE ok -> Return(2, IF try THEN <<Flag(TRUE)>> ELSE <<>>)
               [] ~ok /\ free -> Throw
               [] ~IsOpen -> IF try THEN Return(2, <<Flag(FALSE)>>) ELSE Throw
               [] IsOpen /\ ~free -> IF try THEN Return(2, <<Flag(FALSE)>>) ELSE LockConflict(2)
          /\ disk' = IF ok THEN Written(id, ValueToString(Top(2))) ELSE disk
          /\ openFiles' = IF ok THEN CursorReset ELSE openFiles
          /\ locks' = IF update /\ free THEN (Key(id) :> "me") @@ locks ELSE locks
    /\ UNCHANGED <<frames, values, console, onErrorIp, chainTo>>

ReleaseRec ==
    /\ Op = "ReleaseRec"
    /\ LET id == RecordName(Top(1))
       IN IF ~IsOpen THEN Throw /\ UNCHANGED locks
          ELSE /\ Return(1, <<>>)
               /\ locks' = [k \in {l \in DOMAIN locks : l # Key(id) \/ locks[l] = "other"} |-> locks[k]]
    /\ UNCHANGED <<frames, values, openFiles, disk, console, onErrorIp, chainTo>>

\* The record names are listed, in order, when the cursor is first used.
ReadNext ==
    /\ Op \in {"ReadNext", "ReadNextTry"}
    /\ LET try == Op = "ReadNextTry"
           cursor == openFiles[Operand].cursor
           Listed == SetToSortSeq(DOMAIN disk[openFiles[Operand].name],
                                  LAMBDA a, b : RankOf(Plain(a)) < RankOf(Plain(b)))
           ids == IF cursor.primed THEN cursor.ids ELSE Listed
       IN IF IsOpen
          THEN /\ openFiles' = [openFiles EXCEPT ![Operand].cursor =
                                  [primed |-> TRUE, ids |-> IF ids = <<>> THEN ids ELSE Tail(ids)]]
               /\ CASE ids # <<>> -> Return(0, <<Str(Head(ids))>> \o (IF try THEN <<Flag(TRUE)>> ELSE <<>>))
                    [] ids = <<>> -> IF try THEN Return(0, <<Str(""), Flag(FALSE)>>) ELSE Throw
          ELSE /\ IF try THEN Return(0, <<Str(""), Flag(FALSE)>>) ELSE Throw
               /\ UNCHANGED openFiles
    /\ UNCHANGED <<frames, values, disk, locks, console, onErrorIp, chainTo>>

\* The text READV finds, or <<Undefined>>: a computed field is evaluated from
\* the record, and has no subvalues.
CellOf(t, slot, i) ==
    CASE IsString(slot) ->
            IF i > 0 \/ slot[2][1][1] \notin DOMAIN DictFields THEN <<Undefined>>
            ELSE <<<<"str", AttributeText(t, DictFields[slot[2][1][1]].attr)>>>>
      [] ~IsString(slot) ->
            LET n == CoerceToInt(slot)
            IN IF n \notin 1 .. Len(Attributes(t)) \/ i > Len(t[n]) THEN <<Undefined>>
               ELSE <<<<"str", IF i > 0 THEN SubvalueText(t, n, i) ELSE AttributeText(t, n)>>>>

\* READV: the lock of another session throws, whether there is an ELSE or not.
ReadV ==
    /\ Op \in {"ReadV", "ReadVTry"}
    /\ LET id == RecordName(Top(3)) try == Op = "ReadVTry"
           refused == IsOpen /\ (LockedByOther(id) \/ id \in BadNames)
           cell == IF IsOpen /\ ~refused /\ IsStored(id)
                   THEN CellOf(StoredRecord(id), Top(2), CoerceToInt(Top(1))) ELSE <<Undefined>>
       IN IF refused \/ (cell = <<Undefined>> /\ ~try) THEN Throw
          ELSE IF cell = <<Undefined>> THEN Return(3, <<Str(""), Flag(FALSE)>>)
          ELSE Return(3, cell \o (IF try THEN <<Flag(TRUE)>> ELSE <<>>))
    /\ UNCHANGED <<frames, values, files, console, onErrorIp, chainTo>>

\* WRITEV: read, change one attribute or value, write; every failure of the
\* form with ELSE pushes 0.
WriteV ==
    /\ Op \in {"WriteV", "WriteVTry"}
    /\ LET id == RecordName(Top(3)) try == Op = "WriteVTry"
           n == CoerceToInt(Top(2)) i == CoerceToInt(Top(1))
           ok == IsOpen /\ ~LockedByOther(id) /\ id \notin BadNames
           old == IF IsStored(id) THEN StoredRecord(id) ELSE EmptyText
           value == ValueToString(Top(4))
       IN /\ IF ok \/ try THEN Return(4, IF try THEN <<Flag(ok)>> ELSE <<>>) ELSE Throw
          /\ disk' = IF ok THEN Written(id, IF i > 0 THEN WithSubvalue(old, n, i, value)
                                            ELSE WithAttribute(old, n, value)) ELSE disk
          /\ openFiles' = IF ok THEN CursorReset ELSE openFiles
    /\ UNCHANGED <<frames, values, locks, console, onErrorIp, chainTo>>

-----------------------------------------------------------------------------
(* The machine.                                                            *)

\* One instruction; pop throws on an empty stack.  The shell that catches an
\* interrupt clears the flag.
Step ==
    /\ mode = "running"
    /\ IF Len(stack) < OperandCount
       THEN Throw /\ UNCHANGED <<frames, values, files, console, onErrorIp, chainTo>>
       ELSE \/ Compute \/ PrintVal \/ InputStr
            \/ Halt \/ Jump \/ JumpIfZero \/ Call \/ ReturnFromCall
            \/ ForSetup \/ ForNext \/ SetOnErrorHandler \/ Chain
            \/ StoreVar \/ ChangeArray \/ ClearVars
            \/ OpenFile \/ CloseFile \/ ReadRec \/ WriteRec \/ ReleaseRec
            \/ ReadNext \/ ReadV \/ WriteV
    /\ interrupted' = (interrupted /\ mode' # "interrupt")
    /\ UNCHANGED <<program, driver>>

\* The break key, from another thread.
Interrupt ==
    /\ mode = "running"
    /\ interrupted' = TRUE
    /\ UNCHANGED <<program, ip, stack, frames, values, files, console, statusCode,
                   onErrorIp, mode, driver, chainTo>>

\* loadProgram, then run: nothing of the last program is left but files, locks
\* and console.
LoadProgram(p) ==
    /\ program' = p
    /\ ip' = 0 /\ stack' = <<>> /\ callStack' = <<>> /\ forStack' = <<>>
    /\ openFiles' = <<>> /\ arrays' = <<>> /\ variables' = <<>>
    /\ interrupted' = FALSE /\ statusCode' = 0 /\ onErrorIp' = None
    /\ mode' = IF p.code = <<>> THEN "halted" ELSE "running"
    /\ driver' = "run"
    /\ chainTo' = ""
    /\ UNCHANGED <<disk, locks, console>>

=============================================================================
