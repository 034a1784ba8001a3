------------------------- MODULE ForegroundCommand -------------------------
(***************************************************************************)
(* A foreground run_command: LocalBackend::run_foreground spawns the       *)
(* program with both streams piped, polls it until it has exited or the    *)
(* timeout has elapsed, and only then reads the pipes to their end.        *)
(* Nothing drains a pipe while the caller polls, so a program that writes  *)
(* more than a pipe holds waits for the caller.  One stream: the two are   *)
(* treated alike, and the second is read by wait_with_output at the same   *)
(* time as the first.                                                      *)
(***************************************************************************)
EXTENDS Naturals

CONSTANTS
    MaxWork,    \* bound: bytes a program and its descendant write
    PipeSize,   \* bytes the operating system holds in a pipe
    MaxOutput,  \* max_output_bytes
    Leaves,     \* whether the program may leave a descendant with its pipe open
    Slow        \* whether the timeout may elapse while the program can proceed

ASSUME SizesAssumption ==
    /\ MaxWork \in Nat /\ MaxOutput \in Nat
    /\ PipeSize \in Nat \ {0}
    /\ Leaves \in BOOLEAN /\ Slow \in BOOLEAN

VARIABLES
    child,   \* the program: its state, exit code, the bytes it has
             \* to write, the bytes written, whether a descendant is left
    at,      \* "poll", "elapsed?", "sleep", "collect", "done", "error"
    elapsed, \* whether the timeout has elapsed
    timed_out,
    read,    \* bytes read from the pipe
    outcome  \* the CommandOutcome

vars == <<child, at, elapsed, timed_out, read, outcome>>

NoOutcome == [exit_code |-> "none", success |-> FALSE, timed_out |-> FALSE,
              stdout |-> 0, truncated |-> FALSE]

Init ==
    /\ \E work \in 0..MaxWork :
           child = [os |-> "running", code |-> "none", work |-> work, wrote |-> 0, left |-> FALSE]
    /\ at = "poll"
    /\ elapsed = FALSE
    /\ timed_out = FALSE
    /\ read = 0
    /\ outcome = NoOutcome

(* The program and the clock *)

InPipe == child.wrote - read
HasWriter == child.os = "running" \/ child.left
Blocked == child.os = "running" /\ child.wrote < child.work /\ InPipe = PipeSize

\* A call that returned an error has dropped its ends of the pipes.
PipeClosed == at = "error"

ProgramWrites ==
    /\ child.os = "running" /\ ~PipeClosed
    /\ child.wrote < child.work /\ InPipe < PipeSize
    /\ child' = [child EXCEPT !.wrote = @ + 1]
    /\ UNCHANGED <<at, elapsed, timed_out, read, outcome>>

ProgramExits ==
    /\ child.os = "running"
    /\ child.wrote = child.work \/ PipeClosed
    /\ \E code \in {"ok", "failed", "signal"}, left \in {FALSE, Leaves} :
           child' = [child EXCEPT !.os = "exited", !.code = code, !.left = left]
    /\ UNCHANGED <<at, elapsed, timed_out, read, outcome>>

DescendantWrites ==
    /\ child.left /\ ~PipeClosed
    /\ child.wrote < MaxWork /\ InPipe < PipeSize
    /\ child' = [child EXCEPT !.wrote = @ + 1]
    /\ UNCHANGED <<at, elapsed, timed_out, read, outcome>>

DescendantExits ==
    /\ child.left
    /\ child' = [child EXCEPT !.left = FALSE]
    /\ UNCHANGED <<at, elapsed, timed_out, read, outcome>>

\* Unless Slow, the timeout is longer than all the program has to do.
TimeoutElapses ==
    /\ ~elapsed
    /\ Slow \/ Blocked
    /\ elapsed' = TRUE
    /\ UNCHANGED <<child, at, timed_out, read, outcome>>

(* run_foreground *)

TryWait ==
    /\ at = "poll"
    /\ at' = IF child.os = "exited" THEN "collect" ELSE "elapsed?"
    /\ UNCHANGED <<child, elapsed, timed_out, read, outcome>>

Fails ==
    /\ at' = "error"
    /\ UNCHANGED <<child, elapsed, timed_out, read, outcome>>
\* try_wait()? returns the error of the system call; the program is left running.
TryWaitFails == at = "poll" /\ Fails
\* wait_with_output()?: reading a pipe or waiting for the program failed.
CollectFails == at = "collect" /\ Fails

Killed_Not == {child}
\* child.kill() does nothing to a program that has exited, and does not kill
\* the descendants of one that has not.
Killed ==
    IF child.os = "exited" THEN {child}
    ELSE {[child EXCEPT !.os = "exited", !.code = "signal", !.left = left] :
              left \in {FALSE, Leaves}}

\* The program may exit between try_wait and here; it counts as timed out.
CheckTimeout ==
    /\ at = "elapsed?"
    /\ timed_out' = elapsed
    /\ at' = IF elapsed THEN "collect" ELSE "sleep"
    /\ child' \in IF elapsed THEN Killed ELSE {child}
    /\ UNCHANGED <<elapsed, read, outcome>>

Sleep ==
    /\ at = "sleep"
    /\ at' = "poll"
    /\ UNCHANGED <<child, elapsed, timed_out, read, outcome>>

\* wait_with_output reads until nobody has the pipe open any more.
CollectRead ==
    /\ at = "collect"
    /\ InPipe > 0
    /\ read' = child.wrote
    /\ UNCHANGED <<child, at, elapsed, timed_out, outcome>>

CapOutput_Uncapped(bytes) == [stdout |-> bytes, truncated |-> bytes > MaxOutput]
\* cap_output
CapOutput(bytes) ==
    [stdout |-> IF bytes < MaxOutput THEN bytes ELSE MaxOutput,
     truncated |-> bytes > MaxOutput]

AtEnd_Early == InPipe = 0
AtEnd == InPipe = 0 /\ ~HasWriter

\* ExitStatus::code: a program ended by a signal has none.
ExitCode == IF timed_out \/ child.code = "signal" THEN "none" ELSE child.code

CollectEnd ==
    /\ at = "collect"
    /\ AtEnd
    /\ outcome' = [exit_code |-> ExitCode,
                   success |-> ~timed_out /\ child.code = "ok",
                   timed_out |-> timed_out,
                   stdout |-> CapOutput(read).stdout,
                   truncated |-> CapOutput(read).truncated]
    /\ at' = "done"
    /\ UNCHANGED <<child, elapsed, timed_out, read>>

Returned == at \in {"done", "error"} /\ ~HasWriter /\ UNCHANGED vars

Caller == TryWait \/ CheckTimeout \/ Sleep \/ CollectRead \/ CollectEnd
Program == ProgramWrites \/ ProgramExits

Next ==
    \/ Program \/ DescendantWrites \/ DescendantExits \/ TimeoutElapses
    \/ Caller \/ TryWaitFails \/ CollectFails \/ Returned

\* The caller's thread and the clock run; its system calls need not fail.  Nothing
\* is assumed of the program or of what it leaves behind.
Spec == Init /\ [][Next]_vars /\ WF_vars(Caller) /\ WF_vars(TimeoutElapses)

----------------------------------------------------------------------------

TypeOK ==
    /\ child \in [os : {"running", "exited"}, code : {"none", "ok", "failed", "signal"},
                  work : 0..MaxWork, wrote : 0..MaxWork, left : BOOLEAN]
    /\ at \in {"poll", "elapsed?", "sleep", "collect", "done", "error"}
    /\ elapsed \in BOOLEAN /\ timed_out \in BOOLEAN
    /\ read \in 0..MaxWork
    /\ outcome \in [exit_code : {"none", "ok", "failed"}, success : BOOLEAN,
                    timed_out : BOOLEAN, stdout : 0..MaxOutput, truncated : BOOLEAN]

\* The outcome tells what happened (run_foreground): not timed out, the code and
\* success are the program's and the output is all it and what it left behind
\* wrote, up to the cap; timed out, there is no code and no success; and
\* truncated says exactly whether output was dropped.
OutcomeIsFaithful ==
    at = "done" =>
        /\ ~HasWriter
        /\ outcome.stdout = (IF child.wrote < MaxOutput THEN child.wrote ELSE MaxOutput)
        /\ outcome.truncated = (child.wrote > outcome.stdout)
        /\ outcome.timed_out => outcome.exit_code = "none"
        /\ ~outcome.timed_out =>
              /\ child.wrote >= child.work
              /\ child.code = (IF outcome.exit_code = "none" THEN "signal" ELSE outcome.exit_code)
              /\ outcome.success = (child.code = "ok")
        /\ outcome.success => ~outcome.timed_out

\* "Blocks until the command exits or `timeout_ms` elapses": the call returns, if
\* what the program left behind closes its pipe at last; wait_with_output waits
\* for that, past the timeout too.
CallReturns == <>[]~child.left => <>(at \in {"done", "error"})

\* "returning its exit code and (capped) output": a program that would exit
\* before the timeout is not reported as timed out, however much it writes.
PromptProgramsFinish == outcome.timed_out => Slow

=============================================================================
