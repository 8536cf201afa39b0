---------------------------- MODULE MCProcesses ----------------------------
(***************************************************************************)
(* Four programs that share nothing: the initial state says which one      *)
(* runs, the others stay where they start.                                 *)
(***************************************************************************)
EXTENDS Echo, Shell, Keepalive, TsrmChain

CONSTANTS t1, t2, t3, b1, b2

VARIABLE program

MCTexts == {<<"nl", "nl">>, <<"x", "nl", "x">>}
MCScripts == UNION {[1..n -> {"program", "unknown"}] : n \in 0..4}

\* All threads share a bucket, so that its chain has a first, a middle and a
\* last entry; the other one is empty.
MCHash == [t \in Thread |-> b1]

Programs == {"test-backlog-queue", "my-simple-shell", "test-keepalive", "TSRM"}

Init ==
    /\ program \in Programs
    /\ IF program = "test-backlog-queue"
       THEN EchoInit ELSE text = [c \in EchoClients |-> <<>>] /\ EchoStart
    /\ IF program = "my-simple-shell"
       THEN ShellInit ELSE script = <<>> /\ stdin = "tty" /\ ShellStart
    /\ IF program = "test-keepalive"
       THEN KeepInit ELSE listening = FALSE /\ KeepStart
    /\ IF program = "TSRM" THEN ChainInit ELSE me = t1 /\ ChainStart

Next ==
    \/ /\ program = "test-backlog-queue" /\ EchoNext
       /\ UNCHANGED <<program, shellVars, keepVars, chainVars>>
    \/ /\ program = "my-simple-shell" /\ ShellNext
       /\ UNCHANGED <<program, echoVars, keepVars, chainVars>>
    \/ /\ program = "test-keepalive" /\ KeepNext
       /\ UNCHANGED <<program, echoVars, shellVars, chainVars>>
    \/ /\ program = "TSRM" /\ ChainNext
       /\ UNCHANGED <<program, echoVars, shellVars, keepVars>>

Spec == /\ Init
        /\ [][Next]_<<program, echoVars, shellVars, keepVars, chainVars>>
        /\ EchoFairness
        /\ ChainFairness
===============================================================================
