------------------------------ MODULE Keepalive ------------------------------
(***************************************************************************)
(* httpd/test-keepalive.php: start more clients than the server has        *)
(* processes for; every client sends one request that keeps its connection *)
(* and reads until the server closes it.                                   *)
(*                                                                         *)
(* What takes no noticeable time happens between two ticks of the clock.   *)
(***************************************************************************)
EXTENDS Integers, FiniteSets

CONSTANTS
    ClientCount,     \* 300
    MaxClients,      \* of httpd.conf: 256
    KeepAliveTimeout \* of httpd.conf: 5 seconds

ASSUME KeepAssumption ==
    /\ ClientCount \in Nat \ {0}
    /\ MaxClients \in Nat \ {0}
    /\ KeepAliveTimeout \in Nat \ {0}

VARIABLES
    listening, \* there is a server
    kpc,       \* the parent: "fork", "wait", "sort", "die"
    child,     \* what the children do
    since,     \* when the server took a child's connection
    startTime, \* $children[$pid]['start'] and ['end']
    endTime,
    exitCount,
    now        \* time()

keepVars == <<listening, kpc, child, since, startTime, endTime, exitCount, now>>

Clients == 1..ClientCount
In(state) == {c \in Clients : child[c] = state}

KeepStart ==
    /\ kpc = "fork"
    /\ child = [c \in Clients |-> "none"]
    /\ since = [c \in Clients |-> 0]
    /\ startTime = [c \in Clients |-> -1]
    /\ endTime = [c \in Clients |-> -1]
    /\ exitCount = 0
    /\ now = 0

KeepInit == listening \in BOOLEAN /\ KeepStart

\* The parent starts the next child, or dies.
ForkChild ==
    /\ kpc = "fork"
    /\ \/ kpc' = "die" /\ UNCHANGED <<child, startTime>>
       \/ LET c == Cardinality(Clients \ In("none")) + 1
          IN /\ child' = [child EXCEPT ![c] = "started"]
             /\ startTime' = [startTime EXCEPT ![c] = now]
             /\ kpc' = IF c = ClientCount THEN "wait" ELSE kpc
    /\ UNCHANGED <<listening, since, endTime, exitCount, now>>

\* A child connects, sends its request and reads; or ends with 1.
ConnectChild(c) ==
    /\ child[c] = "started"
    /\ child' = [child EXCEPT ![c] = IF listening THEN "queued" ELSE "exited"]
    /\ UNCHANGED <<listening, kpc, since, startTime, endTime, exitCount, now>>

\* A process of the server that is free takes a connection, answers, and keeps
\* it for another request until the time is over.
TakeConnection(c) ==
    /\ child[c] = "queued" /\ Cardinality(In("served")) < MaxClients
    /\ child' = [child EXCEPT ![c] = "served"]
    /\ since' = [since EXCEPT ![c] = now]
    /\ UNCHANGED <<listening, kpc, startTime, endTime, exitCount, now>>

TimedOut(c) == child[c] = "served" /\ now = since[c] + KeepAliveTimeout

\* Mutant: the child reads the answer and does not wait for the end of it.
ReadAnswer(c) ==
    /\ child[c] = "served"
    /\ child' = [child EXCEPT ![c] = "exited"]
    /\ UNCHANGED <<listening, kpc, since, startTime, endTime, exitCount, now>>

\* The child reads to the end of the connection and exits.
ReadToEof(c) ==
    /\ TimedOut(c)
    /\ child' = [child EXCEPT ![c] = "exited"]
    /\ UNCHANGED <<listening, kpc, since, startTime, endTime, exitCount, now>>

\* pcntl_wait returns a child that ended.
WaitChild(c) ==
    /\ kpc = "wait" /\ child[c] = "exited"
    /\ child' = [child EXCEPT ![c] = "waited"]
    /\ endTime' = [endTime EXCEPT ![c] = now]
    /\ exitCount' = exitCount + 1
    /\ kpc' = IF exitCount + 1 = ClientCount THEN "sort" ELSE kpc
    /\ UNCHANGED <<listening, since, startTime, now>>

\* Nothing is left to be done before the clock goes on.
Settled ==
    /\ kpc = "wait" /\ In("started") = {} /\ In("exited") = {}
    /\ In("queued") # {} => Cardinality(In("served")) = MaxClients
    /\ \A c \in Clients : ~TimedOut(c)

Tick ==
    /\ Settled
    /\ now' = now + 1
    /\ UNCHANGED <<listening, kpc, child, since, startTime, endTime, exitCount>>

KeepNext ==
    \/ ForkChild
    \/ \E c \in Clients :
          \/ ConnectChild(c)
          \/ TakeConnection(c)
          \/ ReadToEof(c)
          \/ WaitChild(c)
    \/ Tick

KeepSpec == KeepInit /\ [][KeepNext]_keepVars

-----------------------------------------------------------------------------
(* Properties.                                                             *)

Took(c) == endTime[c] - startTime[c]
Ended(n) == {c \in Clients : endTime[c] # -1 /\ Took(c) = n * KeepAliveTimeout}

\* The clients end in waves, one for each timeout, as many in every wave as the
\* server has processes, whichever they are, and the rest in the last; without
\* a server they end at once.  The parent's list has them all.
KeepAliveWaves ==
    kpc = "sort" =>
        IF listening
        THEN \A n \in 1..ClientCount :
                LET left == ClientCount - (n - 1) * MaxClients
                IN Cardinality(Ended(n)) =
                     IF left <= 0 THEN 0
                     ELSE IF left < MaxClients THEN left ELSE MaxClients
        ELSE Ended(0) = Clients
===============================================================================
