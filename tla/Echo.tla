-------------------------------- MODULE Echo --------------------------------
(***************************************************************************)
(* httpd/test-backlog-queue.c: a server that echoes lines, one connection  *)
(* at a time; meanwhile connections wait in the listen queue.              *)
(***************************************************************************)
EXTENDS Integers, Sequences, FiniteSets

CONSTANTS
    EchoClients,
    NoClient,
    Backlog,  \* listen(sock, 2)
    Texts,    \* what a client may send: sequences of "x" and "nl"
    BUF_LEN   \* buf[1024]

\* The clients that the program is tried with keep every line, its line break
\* and the 0 after it within buf; the code does not test this.
ASSUME EchoAssumption ==
    /\ NoClient \notin EchoClients
    /\ BUF_LEN \in Nat /\ BUF_LEN > 1
    /\ \A t \in Texts :
          /\ t \in Seq({"x", "nl"})
          /\ \A i, j \in 0..Len(t) :
                (\A k \in i+1..j : t[k] # "nl") => j - i + 1 < BUF_LEN

VARIABLES
    spc,      \* the server: "accept", "read"; "ended", or "killed"
    conn,     \* the connection it serves
    buf,      \* buf up to ptr
    queue,    \* the kernel's: connections that wait to be accepted
    client,   \* "out", "open", "closed"
    text,     \* what a client sends
    sent,     \* how much of it was sent
    incoming, \* the kernel's: bytes a client sent and nobody read
    received, \* what a client received
    reset     \* the server wrote to this connection after the client closed it

echoVars == <<spc, conn, buf, queue, client, text, sent, incoming, received,
              reset>>
serverVars == <<spc, conn, buf, reset>>
clientVars == <<client, text, sent>>

EchoStart ==
    /\ spc = "accept" /\ conn = NoClient /\ buf = <<>>
    /\ queue = <<>>
    /\ client = [c \in EchoClients |-> "out"]
    /\ sent = [c \in EchoClients |-> 0]
    /\ incoming = [c \in EchoClients |-> <<>>]
    /\ received = [c \in EchoClients |-> <<>>]
    /\ reset = FALSE

EchoInit == EchoStart /\ text \in [EchoClients -> Texts]

-----------------------------------------------------------------------------
(* The clients.                                                            *)

\* The kernel takes one connection more than the backlog into the queue.
Connect(c) ==
    /\ client[c] = "out" /\ spc \in {"accept", "read"}
    /\ Len(queue) <= Backlog
    /\ client' = [client EXCEPT ![c] = "open"]
    /\ queue' = Append(queue, c)
    /\ UNCHANGED <<serverVars, text, sent, incoming, received>>

Send(c) ==
    /\ client[c] = "open" /\ sent[c] < Len(text[c])
    /\ sent' = [sent EXCEPT ![c] = @ + 1]
    /\ incoming' = [incoming EXCEPT ![c] = Append(@, text[c][sent[c] + 1])]
    /\ UNCHANGED <<serverVars, client, text, queue, received>>

\* At any time, even with lines that were not echoed.
Close(c) ==
    /\ client[c] = "open"
    /\ client' = [client EXCEPT ![c] = "closed"]
    /\ UNCHANGED <<serverVars, text, sent, queue, incoming, received>>

-----------------------------------------------------------------------------
(* The server.                                                             *)

\* Mutant: ptr is not set back to buf.
AcceptKeepsBuf ==
    /\ spc = "accept" /\ queue # <<>>
    /\ spc' = "read"
    /\ conn' = Head(queue) /\ queue' = Tail(queue)
    /\ reset' = FALSE
    /\ UNCHANGED <<buf, clientVars, incoming, received>>

Accept ==
    /\ spc = "accept" /\ queue # <<>>
    /\ spc' = "read"
    /\ conn' = Head(queue) /\ queue' = Tail(queue)
    /\ buf' = <<>> /\ reset' = FALSE
    /\ UNCHANGED <<clientVars, incoming, received>>

\* accept fails: the loop is over, the socket is closed, and with it whoever is
\* in the queue goes without.
AcceptFails ==
    /\ spc = "accept"
    /\ spc' = "ended"
    /\ UNCHANGED <<conn, buf, reset, queue, clientVars, incoming, received>>

\* write: the first one to a closed connection is answered by a reset; once
\* that has arrived the next one kills the server with SIGPIPE.
Write(line) ==
    IF client[conn] = "open"
    THEN /\ received' = [received EXCEPT ![conn] = @ \o line]
         /\ UNCHANGED <<spc, reset>>
    ELSE /\ spc' \in IF reset THEN {spc, "killed"} ELSE {spc}
         /\ reset' = TRUE
         /\ UNCHANGED received

ReadByte ==
    /\ spc = "read" /\ incoming[conn] # <<>>
    /\ LET c == Head(incoming[conn])
       IN IF c = "nl"
          THEN Write(Append(buf, c)) /\ buf' = <<>>
          ELSE buf' = Append(buf, c) /\ UNCHANGED <<spc, received, reset>>
    /\ incoming' = [incoming EXCEPT ![conn] = Tail(@)]
    /\ UNCHANGED <<conn, queue, clientVars>>

\* Mutant: only an error ends the loop; at the end of the file it goes on.
ReadEofGoesOn ==
    /\ spc = "read"
    /\ reset \/ (incoming[conn] = <<>> /\ client[conn] = "closed")
    /\ IF reset THEN spc' = "accept" /\ conn' = NoClient
                ELSE UNCHANGED <<spc, conn>>
    /\ UNCHANGED <<buf, reset, queue, clientVars, incoming, received>>

\* The client closed: the end of the file, or an error after a reset.
ReadEof ==
    /\ spc = "read"
    /\ reset \/ (incoming[conn] = <<>> /\ client[conn] = "closed")
    /\ spc' = "accept" /\ conn' = NoClient
    /\ UNCHANGED <<buf, reset, queue, clientVars, incoming, received>>

EchoServer == Accept \/ ReadByte \/ ReadEof

EchoNext ==
    \/ EchoServer
    \/ AcceptFails
    \/ \E c \in EchoClients :
          \/ Connect(c)
          \/ Send(c)
          \/ Close(c)

\* The server runs, and no client keeps its connection for ever.  Nothing has
\* to fail.
EchoFairness ==
    /\ WF_echoVars(EchoServer)
    /\ \A c \in EchoClients : WF_echoVars(Close(c))

EchoSpec == EchoInit /\ [][EchoNext]_echoVars /\ EchoFairness

-----------------------------------------------------------------------------
(* Properties.                                                             *)

IsPrefixOf(s, t) == Len(s) <= Len(t) /\ s = SubSeq(t, 1, Len(s))

\* A client receives complete lines, its own, from the first byte it sent on:
\* what the server holds in buf and what was not read yet follow them, until
\* the client closes.  The buffer holds no line break and has room for one.
EchoOwnLines ==
    /\ \A c \in EchoClients :
          LET bytes == SubSeq(text[c], 1, sent[c])
          IN /\ IsPrefixOf(received[c], bytes)
             /\ received[c] # <<>> => received[c][Len(received[c])] = "nl"
             /\ conn = c /\ client[c] = "open" =>
                   bytes = received[c] \o buf \o incoming[c]
    /\ Len(buf) + 1 < BUF_LEN /\ \A i \in DOMAIN buf : buf[i] # "nl"

\* A connection in the queue is served, whatever the clients before it send,
\* unless the server is over: accept failed, or a client closed before it had
\* its lines and the server was killed.
EveryClientServed ==
    \A c \in EchoClients :
        (\E i \in DOMAIN queue : queue[i] = c)
            ~> (conn = c \/ spc \in {"ended", "killed"})
===============================================================================
