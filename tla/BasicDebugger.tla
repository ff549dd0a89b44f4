--------------------------- MODULE BasicDebugger ---------------------------
(***************************************************************************)
(* How the shell runs a compiled BASIC program: run, the CHAIN to another  *)
(* program, the break key, and the debugger that takes over after a break  *)
(* or a run-time error.  At the debugger's prompt mode is "interrupt" or   *)
(* "error".                                                                *)
(***************************************************************************)
EXTENDS VirtualMachine, BasicEmitter

CONSTANT Library          \* program name -> [text, image], what CHAIN can find

VARIABLES
    breakpoints, stepLine, \* basicBreakpoints_, initialLine of runBasicUntilStop
    text                   \* the program that is running, as its source

\* A program compiled, as RUN finds it in the object record.
CompiledProgram(p) == [text |-> p, image |-> Compile(p)]

debugVars == <<breakpoints, stepLine, text>>

LineAt(i) == IF i < Len(program.lines) THEN program.lines[i + 1] ELSE 0
AtPrompt == mode \in {"interrupt", "error"} /\ ip < Size

\* executeCompiledBasicProgram, up to run.
Execute(p) ==
    /\ LoadProgram(p.image)
    /\ text' = p.text
    /\ breakpoints' = {} /\ stepLine' = 0

\* run ends with a ChainRequest: the target starts with nothing but the files,
\* the locks and the console, or is reported missing.
ChainStarts ==
    /\ mode = "chain" /\ driver = "run"
    /\ chainTo \in DOMAIN Library
    /\ Execute(Library[chainTo])

ChainFails ==
    /\ mode = "chain" /\ driver = "run"
    /\ chainTo \notin DOMAIN Library
    /\ mode' = "halted"
    /\ UNCHANGED <<program, ip, stack, frames, values, files, console, statusCode, onErrorIp,
                   interrupted, driver, chainTo, debugVars>>

-----------------------------------------------------------------------------
(* runBasicUntilStop: the loop stops before a line with a breakpoint, and  *)
(* a STEP when it has come to another line.                                *)

Stops == \/ LineAt(ip) > 0 /\ LineAt(ip) \in breakpoints
         \/ driver = "step" /\ LineAt(ip) > 0 /\ LineAt(ip) # stepLine

DebuggerStop ==
    /\ mode = "running" /\ driver # "run" /\ Stops
    /\ mode' = "interrupt"
    /\ UNCHANGED <<program, ip, stack, frames, values, files, console, statusCode, onErrorIp,
                   interrupted, driver, chainTo, debugVars>>

\* step, called by run or, away from a stop, by the debugger's loop.
ExecuteStep ==
    /\ driver = "run" \/ ~Stops
    /\ Step
    /\ UNCHANGED debugVars

-----------------------------------------------------------------------------
(* handleBasicDebuggerCommand.                                             *)

\* CONT and STEP.
Resume(how) ==
    /\ AtPrompt
    /\ mode' = "running" /\ driver' = how
    /\ stepLine' = LineAt(ip)
    /\ UNCHANGED <<program, ip, stack, frames, values, files, console, statusCode, onErrorIp,
                   interrupted, chainTo, breakpoints, text>>

\* BREAKPOINT and CLEAR-BREAKPOINT; only a line that has instructions is known.
SetBreakpoint(n) ==
    /\ AtPrompt
    /\ n \in Range(program.lines) \ {0}
    /\ breakpoints' = breakpoints \cup {n}
    /\ UNCHANGED <<vmVars, stepLine, text>>

ClearBreakpoint(n) ==
    /\ AtPrompt
    /\ breakpoints' = breakpoints \ {n}
    /\ UNCHANGED <<vmVars, stepLine, text>>

\* GOTO: the operands of a statement broken off stay on the stack.
DebuggerGoto(n) ==
    /\ AtPrompt
    /\ n \in Range(program.lines) \ {0}
    /\ ip' = Min({i \in 0 .. Size - 1 : LineAt(i) = n})
    /\ UNCHANGED <<program, stack, frames, values, files, console, statusCode, onErrorIp,
                   interrupted, mode, driver, chainTo, debugVars>>

\* QUIT, END or the end of the input.
Quit ==
    /\ AtPrompt
    /\ ip' = Size /\ mode' = "halted"
    /\ UNCHANGED <<program, stack, frames, values, files, console, statusCode, onErrorIp,
                   interrupted, driver, chainTo, debugVars>>

=============================================================================
