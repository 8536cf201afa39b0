-------------------------------- MODULE Shell --------------------------------
(***************************************************************************)
(* my-linux/tools/my-simple-shell.c: read a line, split it, run it in a    *)
(* child, wait for the child.                                              *)
(*                                                                         *)
(* The child shares the position in the file that is standard input with   *)
(* the shell, and has a copy of what the shell has read ahead.             *)
(***************************************************************************)
EXTENDS Integers, Sequences, FiniteSets

CONSTANTS
    Scripts,  \* standard inputs: sequences of "program" and "unknown", of
              \* lines of the same length and less than MAX_ARGS words
    Block,    \* lines that a read of a file returns
    MaxLines  \* bound on the lines the shell reads

ASSUME ShellAssumption ==
    /\ Block \in Nat /\ Block > 0 /\ MaxLines \in Nat
    /\ \A s \in Scripts : s \in Seq({"program", "unknown"})

VARIABLES
    stdin,    \* "tty" or "file"
    script,   \* the lines typed, or in the file
    offset,   \* the position in standard input
    input,    \* the shell's stdio buffer: the lines in it
    shpc,     \* where the shell is
    children, \* its processes: what they run and their copy of input
    taken,    \* history: the lines that fgets returned
    ran,      \* history: the lines whose program was executed
    failed    \* history: a child could not execute its program

shellVars == <<stdin, script, offset, input, shpc, children, taken, ran, failed>>
history == <<taken, ran, failed>>

ShellStart ==
    /\ offset = 0 /\ input = <<>>
    /\ shpc = "prompt"
    /\ children = {}
    /\ taken = <<>> /\ ran = <<>> /\ failed = FALSE

ShellInit == script \in Scripts /\ stdin \in {"tty", "file"} /\ ShellStart

\* What a read returns: a line of a terminal, a block of a file.
Ahead == LET rest == Len(script) - offset
             n == IF stdin = "tty" THEN 1 ELSE Block
         IN [k \in 1..(IF rest < n THEN rest ELSE n) |-> offset + k]

\* fgets: from the buffer, which is filled when it is empty.
ReadLine ==
    /\ shpc = "prompt" /\ Len(taken) < MaxLines
    /\ LET got == IF input = <<>> THEN Ahead ELSE input
       IN IF got = <<>>
          THEN shpc' = "exit" /\ UNCHANGED <<offset, input, taken>>
          ELSE /\ offset' = IF input = <<>> THEN offset + Len(got) ELSE offset
               /\ input' = Tail(got)
               /\ taken' = Append(taken, Head(got))
               /\ shpc' = "fork"
    /\ UNCHANGED <<stdin, script, children, ran, failed>>

\* fork succeeds, or the line is given up.
Fork ==
    /\ shpc = "fork"
    /\ \/ /\ children' = children \cup
                {[line |-> taken[Len(taken)], input |-> input, running |-> FALSE]}
          /\ shpc' = "wait"
       \/ shpc' = "prompt" /\ UNCHANGED children
    /\ UNCHANGED <<stdin, script, offset, input, history>>

\* Mutant: the shell does not wait.
WaitNoHang ==
    /\ shpc = "wait"
    /\ shpc' = "prompt"
    /\ UNCHANGED <<stdin, script, offset, input, children, history>>

WaitPid ==
    /\ shpc = "wait" /\ children = {}
    /\ shpc' = "prompt"
    /\ UNCHANGED <<stdin, script, offset, input, children, history>>

Exec(ch) ==
    /\ ~ch.running /\ script[ch.line] = "program"
    /\ children' = (children \ {ch}) \cup {[ch EXCEPT !.running = TRUE]}
    /\ ran' = Append(ran, ch.line)
    /\ UNCHANGED <<stdin, script, offset, input, shpc, taken, failed>>

ProgramEnds(ch) ==
    /\ ch.running
    /\ children' = children \ {ch}
    /\ UNCHANGED <<stdin, script, offset, input, shpc, history>>

\* exit(1): closing stdin moves the position of a file back over what the child
\* had in its buffer, for the shell too; not to before the start of the file.
ExecFails(ch) ==
    /\ ~ch.running /\ script[ch.line] = "unknown"
    /\ children' = children \ {ch}
    /\ failed' = TRUE
    /\ offset' = IF stdin = "file" /\ offset >= Len(ch.input)
                 THEN offset - Len(ch.input) ELSE offset
    /\ UNCHANGED <<stdin, script, input, shpc, taken, ran>>

ShellNext ==
    \/ ReadLine
    \/ Fork
    \/ WaitPid
    \/ \E ch \in children :
          \/ Exec(ch)
          \/ ProgramEnds(ch)
          \/ ExecFails(ch)

ShellSpec == ShellInit /\ [][ShellNext]_shellVars

-----------------------------------------------------------------------------
(* Properties.                                                             *)

Ascending(s) == \A k \in 1..Len(s)-1 : s[k] < s[k + 1]

\* The programs run one at a time, in the order of the lines, each line once
\* and none passed over, until a child cannot execute its program while the
\* input is a file: the lines read ahead are then read again, but even then no
\* line is passed over.
EachLineOnce ==
    /\ Cardinality(children) <= 1
    /\ stdin = "tty" \/ ~failed =>
          /\ taken = [k \in 1..Len(taken) |-> k]
          /\ Ascending(ran)
    /\ \A k \in DOMAIN taken :
          taken[k] = 1 \/ \E j \in 1..k-1 : taken[j] = taken[k] - 1
    /\ shpc = "exit" =>
          \A line \in DOMAIN script : \E k \in DOMAIN taken : taken[k] = line
===============================================================================
