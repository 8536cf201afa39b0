--------------------------- MODULE ProcessesProof ---------------------------
(***************************************************************************)
(* Proofs about Echo, Shell and Keepalive, for any numbers of clients and  *)
(* lines, any texts, scripts, sizes of buffers, processes and timeouts.    *)
(***************************************************************************)
EXTENDS Echo, Shell, Keepalive, FiniteSetTheorems, TLAPS

-----------------------------------------------------------------------------
(* Echo.  Of the bytes a client sent the server has taken the first ones;  *)
(* buf holds the last of those, from the last line break on.               *)

Byte == {"x", "nl"}

\* s is the piece of t that follows its first n bytes.
Piece(s, t, n) == /\ n \in Nat /\ n + Len(s) <= Len(t)
                  /\ \A k \in 1..Len(s) : s[k] = t[n + k]

LEMMA PieceTail ==
  ASSUME NEW s \in Seq(Byte), NEW t \in Seq(Byte), NEW n \in Nat,
         s # <<>>, Piece(s, t, n)
  PROVE  Head(s) = t[n + 1] /\ Piece(Tail(s), t, n + 1)
<1>1. /\ Head(s) = s[1] /\ Len(s) \in Nat /\ Len(s) >= 1
      /\ Len(Tail(s)) = Len(s) - 1
      /\ \A k \in 1..Len(s) - 1 : Tail(s)[k] = s[k + 1]
  OBVIOUS
<1>2. n + 1 + Len(Tail(s)) <= Len(t)
  BY <1>1 DEF Piece
<1>3. ASSUME NEW k \in 1..Len(s) - 1 PROVE Tail(s)[k] = t[n + 1 + k]
  <2>1. k + 1 \in 1..Len(s) /\ n + (k + 1) = n + 1 + k
    BY <1>1
  <2> QED
    BY <1>1, <2>1 DEF Piece
<1>4. Head(s) = t[n + 1]
  BY <1>1 DEF Piece
<1> QED
  BY <1>1, <1>2, <1>3, <1>4 DEF Piece

LEMMA PieceAppend ==
  ASSUME NEW s \in Seq(Byte), NEW t \in Seq(Byte), NEW n \in Nat,
         Piece(s, t, n), n + Len(s) + 1 <= Len(t)
  PROVE  Piece(Append(s, t[n + Len(s) + 1]), t, n)
<1>1. \A b : /\ Len(Append(s, b)) = Len(s) + 1
             /\ \A k \in 1..Len(s) : Append(s, b)[k] = s[k]
             /\ Append(s, b)[Len(s) + 1] = b
  OBVIOUS
<1>2. Len(s) \in Nat
  OBVIOUS
<1>3. \A k \in 1..Len(s) + 1 : k \in 1..Len(s) \/ k = Len(s) + 1
  BY <1>2
<1>4. n + Len(s) + 1 = n + (Len(s) + 1)
  BY <1>2
<1> QED
  BY <1>1, <1>2, <1>3, <1>4 DEF Piece

LEMMA PieceConcat ==
  ASSUME NEW r \in Seq(Byte), NEW s \in Seq(Byte), NEW t \in Seq(Byte),
         NEW n \in Nat, Piece(r, t, n), Piece(s, t, n + Len(r))
  PROVE  Piece(r \o s, t, n) /\ Len(r \o s) = Len(r) + Len(s)
<1>1. /\ Len(r \o s) = Len(r) + Len(s) /\ Len(r) \in Nat /\ Len(s) \in Nat
      /\ \A k \in 1..Len(r) : (r \o s)[k] = r[k]
      /\ \A k \in Len(r) + 1 .. Len(r) + Len(s) : (r \o s)[k] = s[k - Len(r)]
  OBVIOUS
<1>2. ASSUME NEW k \in 1..Len(r \o s) PROVE (r \o s)[k] = t[n + k]
  <2>1. CASE k <= Len(r)
    BY <1>1, <2>1 DEF Piece
  <2>2. CASE k > Len(r)
    <3>1. k - Len(r) \in 1..Len(s) /\ n + Len(r) + (k - Len(r)) = n + k
      BY <1>1, <2>2
    <3> QED
      BY <1>1, <2>2, <3>1 DEF Piece
  <2> QED
    BY <1>1, <2>1, <2>2
<1> QED
  BY <1>1, <1>2 DEF Piece

LEMMA PieceIs ==
  ASSUME NEW s \in Seq(Byte), NEW t \in Seq(Byte), Piece(s, t, 0)
  PROVE  s = SubSeq(t, 1, Len(s))
<1> DEFINE pre == SubSeq(t, 1, Len(s))
<1>1. /\ pre \in Seq(Byte) /\ Len(pre) = Len(s)
      /\ \A k \in 1..Len(s) : pre[k] = t[k]
  BY DEF Piece
<1>2. \A k \in 1..Len(s) : s[k] = t[k]
  BY DEF Piece
<1> HIDE DEF pre
<1>3. s = pre
  BY <1>1, <1>2
<1> QED
  BY <1>3 DEF pre

LEMMA EchoConstants ==
  /\ NoClient \notin EchoClients
  /\ BUF_LEN \in Nat /\ BUF_LEN > 1
  /\ \A t \in Texts : t \in Seq(Byte)
BY EchoAssumption DEF Byte

\* What was read of the bytes a client sent.
Taken(c) == sent[c] - Len(incoming[c])

EchoTypeOK ==
    /\ spc \in {"accept", "read", "ended", "killed"}
    /\ conn \in EchoClients \cup {NoClient}
    /\ buf \in Seq(Byte)
    /\ queue \in Seq(EchoClients)
    /\ client \in [EchoClients -> {"out", "open", "closed"}]
    /\ text \in [EchoClients -> Texts]
    /\ sent \in [EchoClients -> Nat]
    /\ incoming \in [EchoClients -> Seq(Byte)]
    /\ received \in [EchoClients -> Seq(Byte)]
    /\ reset \in BOOLEAN

\* A connection is in the queue once and leaves it for good when it is served.
QueueInv ==
    /\ \A m, n \in DOMAIN queue : queue[m] = queue[n] => m = n
    /\ \A m \in DOMAIN queue : client[queue[m]] # "out" /\ queue[m] # conn
    /\ conn # NoClient => client[conn] # "out"
    /\ spc = "read" => conn # NoClient

Waiting(c) == client[c] = "out" \/ \E m \in DOMAIN queue : queue[m] = c

\* incoming follows the bytes taken, which received is the first part of.
BytesOf(c) ==
    /\ sent[c] <= Len(text[c])
    /\ Piece(incoming[c], text[c], Taken(c))
    /\ Piece(received[c], text[c], 0)
    /\ Len(received[c]) <= Taken(c)
    /\ received[c] # <<>> => received[c][Len(received[c])] = "nl"
    /\ client[c] = "out" => sent[c] = 0
    /\ Waiting(c) => Taken(c) = 0

\* buf is the last part of them, all that is not in received.
BufferOf(c) ==
    /\ Piece(buf, text[c], Taken(c) - Len(buf))
    /\ client[c] = "open" => Len(received[c]) = Taken(c) - Len(buf)

LineInv == Len(buf) + 1 < BUF_LEN /\ \A k \in DOMAIN buf : buf[k] # "nl"

EchoInv ==
    /\ EchoTypeOK
    /\ QueueInv
    /\ \A c \in EchoClients : BytesOf(c)
    /\ conn # NoClient => BufferOf(conn)
    /\ LineInv

LEMMA EchoInitInv == EchoInit => EchoInv
<1> SUFFICES ASSUME EchoInit PROVE EchoInv
  OBVIOUS
<1>1. EchoTypeOK
  <2>1. <<>> \in Seq(Byte) /\ <<>> \in Seq(EchoClients)
    OBVIOUS
  <2>2. /\ client \in [EchoClients -> {"out", "open", "closed"}]
        /\ sent \in [EchoClients -> Nat]
        /\ incoming \in [EchoClients -> Seq(Byte)]
        /\ received \in [EchoClients -> Seq(Byte)]
    BY <2>1 DEF EchoInit, EchoStart
  <2> QED
    BY <2>1, <2>2 DEF EchoInit, EchoStart, EchoTypeOK
<1>2. QueueInv /\ LineInv /\ conn = NoClient
  BY EchoConstants DEF EchoInit, EchoStart, QueueInv, LineInv
<1>3. ASSUME NEW c \in EchoClients PROVE BytesOf(c)
  <2>1. text[c] \in Seq(Byte)
    BY <1>1, EchoConstants DEF EchoTypeOK
  <2>2. Taken(c) = 0 /\ incoming[c] = <<>> /\ received[c] = <<>> /\ sent[c] = 0
    BY DEF EchoInit, EchoStart, Taken
  <2> QED
    BY <2>1, <2>2 DEF BytesOf, Piece
<1> QED
  BY <1>1, <1>2, <1>3 DEF EchoInv

LEMMA ConnectStep ==
  ASSUME EchoInv, NEW c \in EchoClients, Connect(c) PROVE EchoInv'
<1> USE DEF EchoInv
<1>0. /\ client' = [client EXCEPT ![c] = "open"] /\ client[c] = "out"
      /\ queue' = Append(queue, c) /\ queue \in Seq(EchoClients)
      /\ spc' = spc /\ conn' = conn /\ buf' = buf /\ text' = text
      /\ sent' = sent /\ incoming' = incoming /\ received' = received
  BY DEF Connect, serverVars, EchoTypeOK
<1>1. EchoTypeOK'
  BY DEF Connect, EchoTypeOK, serverVars
<1>2. c # conn /\ \A m \in DOMAIN queue : queue[m] # c
  BY <1>0, EchoConstants DEF QueueInv
<1>3. QueueInv'
  <2>1. /\ DOMAIN queue' = DOMAIN queue \cup {Len(queue) + 1}
        /\ \A m \in DOMAIN queue : queue'[m] = queue[m]
        /\ queue'[Len(queue) + 1] = c
    BY <1>0
  <2>2. \A d \in EchoClients : client[d] # "out" => client'[d] # "out"
    BY <1>0 DEF EchoTypeOK
  <2>3. client'[c] # "out"
    BY <1>0 DEF EchoTypeOK
  <2>4. \A m, n \in DOMAIN queue' : queue'[m] = queue'[n] => m = n
    BY <1>2, <2>1 DEF QueueInv
  <2>5. \A m \in DOMAIN queue' : client'[queue'[m]] # "out" /\ queue'[m] # conn'
    <3>1. \A m \in DOMAIN queue : queue[m] \in EchoClients
      BY <1>0
    <3> QED
      BY <1>0, <1>2, <2>1, <2>2, <2>3, <3>1 DEF QueueInv
  <2>6. conn' # NoClient => client'[conn'] # "out"
    BY <1>0, <2>2 DEF QueueInv, EchoTypeOK
  <2>7. spc' = "read" => conn' # NoClient
    BY <1>0 DEF QueueInv
  <2> QED
    BY <2>4, <2>5, <2>6, <2>7 DEF QueueInv
<1>4. ASSUME NEW d \in EchoClients PROVE BytesOf(d)'
  <2>1. Waiting(d)' => Waiting(d)
    <3>1. CASE d = c
      BY <1>0, <3>1 DEF Waiting
    <3>2. CASE d # c
      <4>1. client'[d] = client[d]
        BY <1>0, <3>2 DEF EchoTypeOK
      <4>2. (\E m \in DOMAIN queue' : queue'[m] = d) =>
               \E m \in DOMAIN queue : queue[m] = d
        <5>1. /\ DOMAIN queue' = DOMAIN queue \cup {Len(queue) + 1}
              /\ \A m \in DOMAIN queue : queue'[m] = queue[m]
              /\ queue'[Len(queue) + 1] = c
          BY <1>0
        <5> QED
          BY <3>2, <5>1
      <4> QED
        BY <4>1, <4>2 DEF Waiting
    <3> QED
      BY <3>1, <3>2
  <2>2. client'[d] = "out" => client[d] = "out"
    BY <1>0 DEF EchoTypeOK
  <2> QED
    BY <1>0, <2>1, <2>2 DEF BytesOf, Taken
<1>5. conn' # NoClient => BufferOf(conn)'
  BY <1>0, <1>2 DEF BufferOf, Taken, EchoTypeOK
<1> QED
  BY <1>0, <1>1, <1>3, <1>4, <1>5 DEF LineInv

LEMMA SendStep ==
  ASSUME EchoInv, NEW c \in EchoClients, Send(c) PROVE EchoInv'
<1>a. /\ EchoTypeOK /\ QueueInv /\ LineInv
      /\ \A d \in EchoClients : BytesOf(d)
      /\ conn # NoClient => BufferOf(conn)
  BY DEF EchoInv
<1>0. /\ sent' = [sent EXCEPT ![c] = @ + 1] /\ sent[c] < Len(text[c])
      /\ incoming' = [incoming EXCEPT ![c] = Append(@, text[c][sent[c] + 1])]
      /\ client[c] = "open" /\ client' = client /\ text' = text
      /\ spc' = spc /\ conn' = conn /\ buf' = buf /\ queue' = queue
      /\ received' = received /\ reset' = reset
  BY DEF Send, serverVars
<1>1. /\ text[c] \in Seq(Byte) /\ sent[c] \in Nat /\ incoming[c] \in Seq(Byte)
      /\ text[c][sent[c] + 1] \in Byte
  BY <1>0, <1>a, EchoConstants DEF EchoTypeOK
<1>2. EchoTypeOK'
  BY <1>0, <1>1, <1>a DEF EchoTypeOK
<1>3. QueueInv' /\ LineInv'
  BY <1>0, <1>a DEF QueueInv, LineInv
<1>4. \A d \in EchoClients : Taken(d)' = Taken(d)
  <2> SUFFICES ASSUME NEW d \in EchoClients PROVE Taken(d)' = Taken(d)
    OBVIOUS
  <2>1. CASE d # c
    BY <1>0, <1>a, <2>1 DEF Taken, EchoTypeOK
  <2>2. CASE d = c
    <3> DEFINE m == sent[c]
               n == Len(incoming[c])
               m1 == sent'[c]
               n1 == Len(incoming'[c])
    <3>1. m \in Nat /\ n \in Nat /\ m1 = m + 1 /\ n1 = n + 1
      BY <1>0, <1>1, <1>a DEF EchoTypeOK
    <3>2. Taken(c) = m - n /\ Taken(c)' = m1 - n1
      BY DEF Taken
    <3> HIDE DEF m, n, m1, n1
    <3>3. m1 - n1 = m - n
      BY <3>1
    <3>4. Taken(c)' = Taken(c)
      BY <3>2, <3>3
    <3> QED
      BY <2>2, <3>4
  <2> QED
    BY <2>1, <2>2
<1>5. ASSUME NEW d \in EchoClients PROVE BytesOf(d)'
  <2>1. Waiting(d)' <=> Waiting(d)
    BY <1>0 DEF Waiting
  <2>2. CASE d # c
    <3>1. sent'[d] = sent[d] /\ incoming'[d] = incoming[d]
      BY <1>0, <1>a, <2>2 DEF EchoTypeOK
    <3>2. Taken(d)' = Taken(d) /\ received' = received /\ BytesOf(d)
      BY <1>0, <1>4, <1>a
    <3> QED
      BY <1>0, <2>1, <3>1, <3>2 DEF BytesOf
  <2>3. CASE d = c
    <3>1. sent'[c] = sent[c] + 1
          /\ incoming'[c] = Append(incoming[c], text[c][sent[c] + 1])
      BY <1>0, <1>a DEF EchoTypeOK
    <3>2. /\ Taken(c) \in Nat /\ Taken(c) + Len(incoming[c]) = sent[c]
          /\ Piece(incoming[c], text[c], Taken(c))
      BY <1>1, <1>a DEF BytesOf, Taken, Piece
    <3>a. sent[c] + 1 <= Len(text[c])
      BY <1>0, <1>1
    <3>b. Taken(c) + Len(incoming[c]) + 1 = sent[c] + 1
      BY <3>2
    <3>c. Taken(c) + Len(incoming[c]) + 1 <= Len(text[c])
      BY <3>a, <3>b
    <3>d. Piece(Append(incoming[c], text[c][Taken(c) + Len(incoming[c]) + 1]), text[c], Taken(c))
      BY <1>1, <3>2, <3>c, PieceAppend
    <3>3. Piece(incoming'[c], text[c], Taken(c))
      BY <3>1, <3>b, <3>d
    <3>4. Taken(c)' = Taken(c) /\ received' = received /\ text' = text
      BY <1>0, <1>4
    <3>5. sent'[c] <= Len(text'[c])
      BY <1>0, <1>1, <3>1
    <3>6. BytesOf(c)
      BY <1>a
    <3>7. BytesOf(c)'
      <4>1. Waiting(c)' <=> Waiting(c)
        BY <2>1, <2>3
      <4>2. sent[c] # 0 \/ client'[c] # "out"
        BY <1>0
      <4> QED
        BY <1>0, <3>3, <3>4, <3>5, <3>6, <4>1, <4>2 DEF BytesOf
    <3> QED
      BY <2>3, <3>7
  <2> QED
    BY <2>2, <2>3
<1>6. conn' # NoClient => BufferOf(conn)'
  BY <1>0, <1>4, <1>a DEF BufferOf, EchoTypeOK
<1> QED
  BY <1>2, <1>3, <1>5, <1>6 DEF EchoInv

LEMMA CloseStep ==
  ASSUME EchoInv, NEW c \in EchoClients, Close(c) PROVE EchoInv'
<1> USE DEF EchoInv
<1>0. /\ client' = [client EXCEPT ![c] = "closed"] /\ client[c] = "open"
      /\ spc' = spc /\ conn' = conn /\ buf' = buf /\ text' = text
      /\ sent' = sent /\ incoming' = incoming /\ received' = received
      /\ queue' = queue /\ reset' = reset
  BY DEF Close, serverVars
<1>1. EchoTypeOK'
  BY <1>0 DEF EchoTypeOK
<1>2. \A d \in EchoClients :
         /\ client'[d] = "out" <=> client[d] = "out"
         /\ client'[d] = "open" => client[d] = "open"
  BY <1>0 DEF EchoTypeOK
<1>3. QueueInv' /\ LineInv'
  BY <1>0, <1>2 DEF QueueInv, LineInv, EchoTypeOK
<1>4. ASSUME NEW d \in EchoClients PROVE BytesOf(d)'
  BY <1>0, <1>2 DEF BytesOf, Waiting, Taken
<1>5. conn' # NoClient => BufferOf(conn)'
  BY <1>0, <1>2 DEF BufferOf, Taken, EchoTypeOK
<1> QED
  BY <1>1, <1>3, <1>4, <1>5

LEMMA AcceptStep == ASSUME EchoInv, Accept PROVE EchoInv'
<1> USE DEF EchoInv
<1>0. /\ queue \in Seq(EchoClients) /\ queue # <<>> /\ conn' = queue[1]
      /\ 1 \in DOMAIN queue /\ conn' \in EchoClients /\ queue' = Tail(queue)
      /\ buf' = <<>> /\ text' = text /\ client' = client /\ sent' = sent
      /\ incoming' = incoming /\ received' = received /\ spc' = "read"
      /\ reset' = FALSE
  BY DEF Accept, EchoTypeOK, clientVars
<1>1. EchoTypeOK'
  <2>1. <<>> \in Seq(Byte) /\ Tail(queue) \in Seq(EchoClients)
    BY <1>0
  <2> QED
    BY <1>0, <2>1 DEF EchoTypeOK
<1>2. \A m \in DOMAIN queue' : m + 1 \in DOMAIN queue /\ queue'[m] = queue[m + 1]
                               /\ m + 1 # 1 /\ m \in Int
  BY <1>0
<1>3. QueueInv'
  <2>1. \A m \in DOMAIN queue' : queue'[m] # conn'
    BY <1>0, <1>2 DEF QueueInv
  <2>2. ASSUME NEW m \in DOMAIN queue', NEW n \in DOMAIN queue',
               queue'[m] = queue'[n]
        PROVE  m = n
    <3>1. m + 1 = n + 1
      BY <1>2, <2>2 DEF QueueInv
    <3> QED
      BY <1>2, <3>1
  <2>3. client'[conn'] # "out"
    BY <1>0 DEF QueueInv
  <2>4. conn' # NoClient
    BY <1>0, EchoConstants
  <2>5. \A m \in DOMAIN queue' : client'[queue'[m]] # "out"
    BY <1>0, <1>2 DEF QueueInv
  <2> QED
    BY <2>1, <2>2, <2>3, <2>4, <2>5 DEF QueueInv
<1>4. ASSUME NEW d \in EchoClients PROVE BytesOf(d)'
  <2>1. Waiting(d)' => Waiting(d)
    BY <1>0, <1>2 DEF Waiting
  <2> QED
    BY <1>0, <2>1 DEF BytesOf, Taken
<1>5. ASSUME NEW d \in EchoClients, d = conn' PROVE BufferOf(d)'
  <2>1. Waiting(d)
    BY <1>0, <1>5 DEF Waiting
  <2>2. Taken(d) = 0 /\ Len(received[d]) = 0 /\ text[d] \in Seq(Byte)
    BY <2>1, EchoConstants DEF BytesOf, EchoTypeOK
  <2>3. Taken(d)' = 0
    BY <1>0, <2>2 DEF Taken
  <2>4. Len(buf') = 0 /\ text' = text /\ received' = received
    BY <1>0
  <2>5. Len(text[d]) \in Nat
    BY <2>2
  <2> QED
    BY <2>2, <2>3, <2>4, <2>5 DEF BufferOf, Piece
<1>6. BufferOf(conn)'
  BY <1>0, <1>5 DEF BufferOf, Taken
<1> QED
  BY <1>0, <1>1, <1>3, <1>4, <1>6, EchoConstants DEF LineInv

LEMMA AcceptFailsStep == ASSUME EchoInv, AcceptFails PROVE EchoInv'
BY DEF AcceptFails, EchoInv, EchoTypeOK, QueueInv, BytesOf, BufferOf, Waiting, Taken,
   LineInv, clientVars

LEMMA ReadEofStep == ASSUME EchoInv, ReadEof PROVE EchoInv'
<1> USE DEF EchoInv
<1>0. /\ spc' = "accept" /\ conn' = NoClient /\ buf' = buf /\ reset' = reset
      /\ queue' = queue /\ client' = client /\ text' = text /\ sent' = sent
      /\ incoming' = incoming /\ received' = received
  BY DEF ReadEof, clientVars
<1>1. EchoTypeOK'
  BY <1>0 DEF EchoTypeOK
<1>3. QueueInv' /\ LineInv'
  BY <1>0, EchoConstants DEF QueueInv, LineInv, EchoTypeOK
<1>4. ASSUME NEW d \in EchoClients PROVE BytesOf(d)'
  BY <1>0 DEF BytesOf, Waiting, Taken
<1> QED
  BY <1>0, <1>1, <1>3, <1>4

\* The byte goes to buf; with a line break the line goes to the client, unless
\* it has closed.
LEMMA ReadByteStep == ASSUME EchoInv, ReadByte PROVE EchoInv'
<1> SUFFICES ASSUME NEW c \in EchoClients, c = conn PROVE EchoInv'
  BY EchoConstants DEF ReadByte, EchoInv, EchoTypeOK, QueueInv
<1> DEFINE b == text[c][Taken(c) + 1]
<1>0. /\ spc = "read" /\ incoming[c] # <<>>
      /\ IF Head(incoming[c]) = "nl"
         THEN Write(Append(buf, Head(incoming[c]))) /\ buf' = <<>>
         ELSE /\ buf' = Append(buf, Head(incoming[c]))
              /\ spc' = spc /\ received' = received /\ reset' = reset
      /\ incoming' = [incoming EXCEPT ![c] = Tail(@)]
      /\ conn' = c /\ queue' = queue /\ client' = client /\ text' = text
      /\ sent' = sent
  BY DEF ReadByte, clientVars
<1>1. /\ incoming[c] \in Seq(Byte) /\ received[c] \in Seq(Byte)
      /\ buf \in Seq(Byte) /\ sent[c] \in Nat
      /\ text[c] \in Seq(Byte) /\ text[c] \in Texts
      /\ received \in [EchoClients -> Seq(Byte)]
      /\ BytesOf(c) /\ BufferOf(c) /\ LineInv
  BY EchoConstants DEF EchoInv, EchoTypeOK
<1>2. /\ incoming'[c] = Tail(incoming[c]) /\ Tail(incoming[c]) \in Seq(Byte)
      /\ Len(incoming[c]) >= 1 /\ Len(Tail(incoming[c])) = Len(incoming[c]) - 1
      /\ incoming' \in [EchoClients -> Seq(Byte)]
      /\ \A d \in EchoClients : d # c => incoming'[d] = incoming[d]
  BY <1>0, <1>1 DEF EchoInv, EchoTypeOK
<1>3. /\ Taken(c) \in Nat /\ Taken(c)' = Taken(c) + 1
      /\ Taken(c) + 1 <= Len(text[c])
      /\ \A d \in EchoClients : d # c => Taken(d)' = Taken(d)
  <2>1. sent' = sent /\ sent[c] \in Nat /\ Len(text[c]) \in Nat /\ sent[c] <= Len(text[c])
    BY <1>0, <1>1 DEF BytesOf
  <2>2. Taken(c) \in Nat
    BY <1>1 DEF BytesOf, Piece
  <2>3. Taken(c) = sent[c] - Len(incoming[c]) /\ Taken(c)' = sent[c] - Len(incoming'[c])
    BY <2>1 DEF Taken
  <2>4. Len(incoming[c]) \in Nat /\ Len(incoming[c]) >= 1
        /\ Len(incoming'[c]) = Len(incoming[c]) - 1
    BY <1>1, <1>2
  <2>5. \A d \in EchoClients : d # c => Taken(d)' = Taken(d)
    BY <1>2, <2>1 DEF Taken
  <2>6. Taken(c)' = Taken(c) + 1 /\ Taken(c) + 1 <= Len(text[c])
    BY <2>1, <2>3, <2>4
  <2> QED
    BY <2>2, <2>5, <2>6
<1>4. /\ Head(incoming[c]) = b /\ b \in Byte
      /\ Piece(incoming'[c], text[c], Taken(c)')
  <2>1. Piece(incoming[c], text[c], Taken(c))
    BY <1>1 DEF BytesOf
  <2>2. Head(incoming[c]) = b /\ Piece(Tail(incoming[c]), text[c], Taken(c) + 1)
    BY <1>0, <1>1, <1>3, <2>1, PieceTail
  <2>3. b \in Byte
    BY <1>1, <1>3
  <2> QED
    BY <1>2, <1>3, <2>2, <2>3
<1>5. ~Waiting(c) /\ \A d \in EchoClients : Waiting(d)' <=> Waiting(d)
  BY <1>0, EchoConstants DEF Waiting, QueueInv, EchoInv
<1>6. QueueInv'
  <2>1. conn # NoClient /\ spc' \in {spc, "killed"}
    BY <1>0, EchoConstants DEF Write
  <2> QED
    BY <1>0, <2>1 DEF QueueInv, EchoInv
\* buf with the byte is the last part of what was taken.
<1> DEFINE line == Append(buf, b)
           left == Taken(c) - Len(buf)
<1>7. /\ line \in Seq(Byte) /\ Len(line) = Len(buf) + 1 /\ line[Len(line)] = b
      /\ \A k \in 1..Len(buf) : line[k] = buf[k]
      /\ Len(buf) \in Nat /\ left \in Nat /\ left + Len(buf) = Taken(c)
      /\ left = Taken(c)' - Len(line)
      /\ Piece(line, text[c], left)
  <2>1. /\ line \in Seq(Byte) /\ Len(line) = Len(buf) + 1 /\ line[Len(line)] = b
        /\ \A k \in 1..Len(buf) : line[k] = buf[k]
        /\ Len(buf) \in Nat
    BY <1>1, <1>4
  <2>a. Taken(c) \in Nat
    BY <1>3
  <2>b. Piece(buf, text[c], left)
    BY <1>1 DEF BufferOf
  <2>c. left \in Nat
    BY <2>b DEF Piece
  <2>2. Piece(buf, text[c], left) /\ left \in Nat /\ left + Len(buf) = Taken(c)
    BY <2>1, <2>a, <2>b, <2>c
  <2> HIDE DEF left
  <2>3. left + Len(buf) + 1 = Taken(c) + 1
    BY <2>1, <2>2, <1>3
  <2>4. Piece(line, text[c], left)
    BY <1>1, <1>3, <2>2, <2>3, PieceAppend
  <2>5. left = Taken(c)' - Len(line)
    BY <1>3, <2>1, <2>2
  <2> QED
    BY <2>1, <2>2, <2>4, <2>5
<1> HIDE DEF b, line, left
<1>8. ASSUME NEW d \in EchoClients, d # c, received'[d] = received[d]
      PROVE  BytesOf(d)'
  <2>1. BytesOf(d)
    BY DEF EchoInv
  <2>2. sent' = sent /\ text' = text /\ client' = client
    BY <1>0
  <2>3. incoming'[d] = incoming[d] /\ Taken(d)' = Taken(d) /\ (Waiting(d)' <=> Waiting(d))
    BY <1>2, <1>3, <1>5, <1>8
  <2> QED
    BY <2>1, <2>2, <2>3, <1>8 DEF BytesOf
<1>9. ASSUME received'[c] = received[c] PROVE BytesOf(c)'
  <2>1. BytesOf(c)
    BY DEF EchoInv
  <2> QED
    BY <1>0, <1>1, <1>3, <1>4, <1>5, <1>9, <2>1 DEF BytesOf
<1>10. CASE b # "nl"
  <2>1. buf' = line /\ spc' = spc /\ received' = received /\ reset' = reset
    BY <1>0, <1>4, <1>10 DEF line
  <2>2. BufferOf(c)'
    <3>1. Piece(buf', text'[c], Taken(c)' - Len(buf'))
      BY <1>0, <1>7, <2>1
    <3>2. client[c] = "open" => Len(received[c]) = left
      BY <1>1, <1>7 DEF BufferOf, left
    <3>3. client'[c] = "open" => Len(received'[c]) = Taken(c)' - Len(buf')
      BY <1>0, <1>7, <2>1, <3>2
    <3> QED
      BY <3>1, <3>3 DEF BufferOf
  <2>3. \A k \in 1..Len(line) : line[k] # "nl"
    <3>1. \A k \in 1..Len(line) : k \in 1..Len(buf) \/ k = Len(line)
      BY <1>7
    <3>2. \A k \in 1..Len(buf) : buf[k] # "nl"
      BY <1>1 DEF LineInv
    <3> QED
      BY <1>7, <1>10, <3>1, <3>2
  <2>4. \A k \in left + 1 .. left + Len(line) : text[c][k] # "nl"
    <3> SUFFICES ASSUME NEW k \in left + 1 .. left + Len(line)
                 PROVE  text[c][k] # "nl"
      OBVIOUS
    <3>1. k - left \in 1..Len(line) /\ left + (k - left) = k
      BY <1>7
    <3>2. line[k - left] = text[c][k]
      BY <1>7, <3>1 DEF Piece
    <3> QED
      BY <2>3, <3>1, <3>2
  <2>5. Len(line) + 1 < BUF_LEN
    <3>1. left \in 0..Len(text[c]) /\ left + Len(line) \in 0..Len(text[c])
      BY <1>1, <1>7 DEF Piece
    <3>2. (left + Len(line)) - left + 1 < BUF_LEN
      BY <1>1, <2>4, <3>1, EchoAssumption
    <3> QED
      BY <1>7, <3>2
  <2>6. EchoTypeOK' /\ LineInv'
    BY <1>0, <1>2, <1>7, <2>1, <2>3, <2>5 DEF EchoTypeOK, EchoInv, LineInv
  <2>7. ASSUME NEW d \in EchoClients PROVE BytesOf(d)'
    BY <1>8, <1>9, <2>1
  <2>8. BufferOf(conn)'
    BY <1>0, <2>2 DEF BufferOf, Taken
  <2> QED
    BY <1>6, <2>6, <2>7, <2>8 DEF EchoInv
<1>11. ASSUME b = "nl", EchoTypeOK', Len(received'[c]) = Taken(c)' \/ client[c] # "open",
              \A d \in EchoClients : BytesOf(d)'
       PROVE  EchoInv'
  <2>1. buf' = <<>>
    BY <1>0, <1>4, <1>11
  <2>2. Taken(c)' \in Nat /\ Taken(c)' <= Len(text[c])
    BY <1>3
  <2>3. BufferOf(c)'
    BY <1>0, <1>1, <1>11, <2>1, <2>2 DEF BufferOf, Piece
  <2>4. BufferOf(conn)'
    BY <1>0, <2>3 DEF BufferOf, Taken
  <2>5. LineInv'
    BY <2>1, EchoConstants DEF LineInv
  <2> QED
    BY <1>6, <1>11, <2>4, <2>5 DEF EchoInv
<1>12. CASE b = "nl" /\ client[c] # "open"
  <2>1. /\ buf' = <<>> /\ received' = received /\ spc' \in {spc, "killed"}
        /\ reset' = TRUE
    BY <1>0, <1>4, <1>12 DEF Write
  <2>2. EchoTypeOK'
    BY <1>0, <1>2, <2>1 DEF EchoTypeOK, EchoInv
  <2>3. ASSUME NEW d \in EchoClients PROVE BytesOf(d)'
    BY <1>8, <1>9, <2>1
  <2> QED
    BY <1>11, <1>12, <2>2, <2>3
<1>13. CASE b = "nl" /\ client[c] = "open"
  <2>1. /\ buf' = <<>> /\ received' = [received EXCEPT ![c] = @ \o line]
        /\ spc' = spc /\ reset' = reset
    BY <1>0, <1>4, <1>13 DEF Write, line
  <2>2. /\ received'[c] = received[c] \o line
        /\ received' \in [EchoClients -> Seq(Byte)]
        /\ \A d \in EchoClients : d # c => received'[d] = received[d]
    BY <1>1, <1>7, <2>1
  <2>3. Len(received[c]) = left /\ Piece(received[c], text[c], 0)
    BY <1>1, <1>13 DEF BufferOf, BytesOf, left
  <2>4. /\ Piece(received[c] \o line, text[c], 0)
        /\ Len(received[c] \o line) = left + Len(line)
    BY <1>1, <1>7, <2>3, PieceConcat
  <2>5. /\ (received[c] \o line)[Len(received[c] \o line)] = "nl"
    BY <1>1, <1>7, <1>13
  <2>6. Len(received'[c]) = Taken(c)'
    BY <1>3, <1>7, <2>2, <2>4
  <2>7. BytesOf(c)'
    BY <1>0, <1>1, <1>3, <1>4, <1>5, <2>2, <2>4, <2>5, <2>6 DEF BytesOf
  <2>8. ASSUME NEW d \in EchoClients PROVE BytesOf(d)'
    BY <1>8, <2>2, <2>7
  <2>9. EchoTypeOK'
    BY <1>0, <1>2, <2>1, <2>2 DEF EchoTypeOK, EchoInv
  <2> QED
    BY <1>11, <1>13, <2>6, <2>8, <2>9
<1> QED
  BY <1>10, <1>12, <1>13

LEMMA EchoStep == EchoInv /\ [EchoNext]_echoVars => EchoInv'
<1> SUFFICES ASSUME EchoInv, [EchoNext]_echoVars PROVE EchoInv'
  OBVIOUS
<1>1. CASE EchoServer
  BY <1>1, AcceptStep, ReadByteStep, ReadEofStep DEF EchoServer
<1>2. CASE \E c \in EchoClients : Connect(c) \/ Send(c) \/ Close(c)
  BY <1>2, ConnectStep, SendStep, CloseStep
<1>3. CASE AcceptFails
  BY <1>3, AcceptFailsStep
<1>4. CASE UNCHANGED echoVars
  BY <1>4
  DEF echoVars, EchoInv, EchoTypeOK, QueueInv, BytesOf, BufferOf, Waiting, Taken,
      LineInv
<1> QED
  BY <1>1, <1>2, <1>3, <1>4 DEF EchoNext

\* What a client has received, what the server holds for it and what was not
\* read yet are the bytes it sent.
LEMMA EchoOwn == EchoInv => EchoOwnLines
<1> SUFFICES ASSUME EchoInv PROVE EchoOwnLines
  OBVIOUS
<1>1. ASSUME NEW c \in EchoClients
      PROVE  LET bytes == SubSeq(text[c], 1, sent[c])
             IN /\ IsPrefixOf(received[c], bytes)
                /\ received[c] # <<>> => received[c][Len(received[c])] = "nl"
                /\ conn = c /\ client[c] = "open" =>
                      bytes = received[c] \o buf \o incoming[c]
  <2> DEFINE bytes == SubSeq(text[c], 1, sent[c])
  <2>0. /\ BytesOf(c) /\ text[c] \in Seq(Byte) /\ sent[c] \in Nat
        /\ received[c] \in Seq(Byte) /\ incoming[c] \in Seq(Byte)
        /\ buf \in Seq(Byte)
    BY EchoConstants DEF EchoInv, EchoTypeOK
  <2>1. /\ bytes \in Seq(Byte) /\ Len(bytes) = sent[c]
        /\ \A k \in 1..sent[c] : bytes[k] = text[c][k]
    BY <2>0 DEF BytesOf
  <2> HIDE DEF bytes
  <2>2. IsPrefixOf(received[c], bytes)
    <3>1. Len(received[c]) <= Len(bytes)
      BY <2>0, <2>1 DEF BytesOf, Taken
    <3>2. Piece(received[c], bytes, 0)
      BY <2>0, <2>1, <3>1 DEF BytesOf, Piece
    <3> QED
      BY <2>0, <2>1, <3>1, <3>2, PieceIs DEF IsPrefixOf
  <2>3. ASSUME conn = c, client[c] = "open"
        PROVE  bytes = received[c] \o buf \o incoming[c]
    <3>1. /\ Len(received[c]) = Taken(c) - Len(buf)
          /\ Piece(received[c], text[c], 0)
          /\ Piece(buf, text[c], Len(received[c]))
          /\ Piece(incoming[c], text[c], Taken(c))
          /\ Taken(c) + Len(incoming[c]) = sent[c]
      BY <2>0, <2>3, EchoConstants DEF EchoInv, BufferOf, BytesOf, Taken
    <3>a. /\ Len(received[c]) \in Nat /\ 0 + Len(received[c]) = Len(received[c])
          /\ Len(buf) \in Nat /\ Taken(c) \in Nat /\ 0 \in Nat
          /\ Len(received[c]) + Len(buf) = Taken(c) /\ 0 + Taken(c) = Taken(c)
      BY <2>0, <3>1 DEF Piece
    <3> DEFINE front == received[c] \o buf
               all == front \o incoming[c]
    <3>2. /\ front \in Seq(Byte) /\ Len(front) = Taken(c)
          /\ Piece(front, text[c], 0)
      BY <2>0, <3>1, <3>a, PieceConcat
    <3> HIDE DEF front
    <3>3. all \in Seq(Byte) /\ Len(all) = sent[c] /\ Piece(all, text[c], 0)
      <4>1. Piece(incoming[c], text[c], 0 + Len(front))
        BY <3>1, <3>a, <3>2
      <4>2. Piece(all, text[c], 0) /\ Len(all) = Len(front) + Len(incoming[c])
        BY <2>0, <3>a, <3>2, <4>1, PieceConcat
      <4>3. all \in Seq(Byte)
        BY <2>0, <3>2
      <4> QED
        BY <3>1, <3>2, <4>2, <4>3
    <3> HIDE DEF all
    <3>4. all = bytes
      BY <2>0, <3>3, PieceIs DEF bytes
    <3> QED
      BY <3>4 DEF all, front
  <2> QED
    BY <2>0, <2>2, <2>3 DEF BytesOf, bytes
<1>2. LineInv
  BY DEF EchoInv
<1> QED
  BY <1>1, <1>2 DEF EchoOwnLines, LineInv

\* A client receives complete lines, its own and in order, whatever the clients
\* before it sent and whenever they closed: the server takes up nothing of the
\* lines that an earlier connection left in buf.
THEOREM EchoesOwnLines == EchoSpec => []EchoOwnLines
<1>1. EchoSpec => []EchoInv
  BY EchoInitInv, EchoStep, PTL DEF EchoSpec
<1> QED
  BY <1>1, EchoOwn, PTL

-----------------------------------------------------------------------------
(* Shell.  The shell has taken the lines up to Base and goes on with the   *)
(* one after it, from input or from the file; the position in the file is  *)
(* never beyond the last line of input.                                    *)

Child == [line : Nat, input : Seq(Nat), running : BOOLEAN]

ShellTypeOK ==
    /\ stdin \in {"tty", "file"}
    /\ script \in Scripts
    /\ offset \in 0..Len(script)
    /\ input \in Seq(Nat)
    /\ shpc \in {"prompt", "fork", "wait", "exit"}
    /\ children \in SUBSET Child
    /\ taken \in Seq(Nat) /\ ran \in Seq(Nat)
    /\ failed \in BOOLEAN

Base == IF input = <<>> THEN offset ELSE input[1] - 1

HasTaken(l) == \E k \in DOMAIN taken : taken[k] = l

\* The input goes on where taken ends.
ShellInputInv ==
    /\ stdin = "tty" => input = <<>>
    /\ Base \in Nat /\ \A k \in 1..Len(input) : input[k] = Base + k
    /\ offset <= Base + Len(input)
    /\ \A l \in 1..Base : HasTaken(l)

\* There is a child only while the shell waits for it; it was forked for the
\* last line, with the input the shell still has.
ChildInv ==
    /\ \A ch, other \in children : ch = other
    /\ \A ch \in children :
          /\ shpc = "wait"
          /\ ch.line = taken[Len(taken)] /\ ch.input = input
    /\ shpc \in {"fork", "wait"} => taken # <<>>

\* A line that was taken and may still be executed.
Pending == shpc = "fork" \/ \E ch \in children : ~ch.running

\* As long as no line is read again.
OrderInv ==
    /\ Base = Len(taken)
    /\ \A k \in DOMAIN taken : taken[k] = k
    /\ offset = Base + Len(input)
    /\ Ascending(ran)
    /\ \A k \in DOMAIN ran : ran[k] <= Len(taken) /\ (Pending => ran[k] < Len(taken))

ShellInv ==
    /\ ShellTypeOK
    /\ ShellInputInv
    /\ ChildInv
    /\ stdin = "tty" \/ ~failed => OrderInv
    /\ \A k \in DOMAIN taken :
          taken[k] = 1 \/ \E j \in 1..k-1 : taken[j] = taken[k] - 1
    /\ shpc = "exit" => \A line \in DOMAIN script : HasTaken(line)
LEMMA ShellInitInv == ShellInit => ShellInv
<1> SUFFICES ASSUME ShellInit PROVE ShellInv
  OBVIOUS
<1>1. /\ script \in Seq({"program", "unknown"}) /\ Len(script) \in Nat
      /\ <<>> \in Seq(Nat)
  BY ShellAssumption DEF ShellInit
<1>2. ShellTypeOK
  <2>1. offset \in 0..Len(script) /\ children \in SUBSET Child
    BY <1>1 DEF ShellInit, ShellStart
  <2>2. stdin \in {"tty", "file"} /\ script \in Scripts
    BY DEF ShellInit
  <2>3. shpc = "prompt" /\ failed \in BOOLEAN
    BY DEF ShellInit, ShellStart
  <2>4. input \in Seq(Nat) /\ taken \in Seq(Nat) /\ ran \in Seq(Nat)
    BY <1>1 DEF ShellInit, ShellStart
  <2> QED
    BY <2>1, <2>2, <2>3, <2>4 DEF ShellTypeOK
<1>3. Base = 0 /\ ShellInputInv
  BY <1>1 DEF ShellInit, ShellStart, Base, ShellInputInv
<1>4. ChildInv /\ OrderInv
  BY <1>3 DEF ShellInit, ShellStart, ChildInv, OrderInv, Ascending, Pending
<1> QED
  BY <1>2, <1>3, <1>4 DEF ShellInv, ShellInit, ShellStart

\* The lines fgets finds, in input or in the file, are the next ones.
Finds(got) == got = IF input = <<>> THEN Ahead ELSE input

LEMMA NextLines ==
  ASSUME ShellInv, NEW got, Finds(got)
  PROVE  /\ got \in Seq(Nat) /\ \A k \in 1..Len(got) : got[k] = Base + k
         /\ input = <<>> => offset + Len(got) <= Len(script)
         /\ stdin = "tty" => Len(got) <= 1
         /\ got = <<>> => offset = Len(script) /\ Base = offset
<1>1. /\ offset \in Nat /\ Len(script) \in Nat /\ offset <= Len(script)
      /\ Block \in Nat /\ Block > 0
  BY ShellAssumption DEF ShellInv, ShellTypeOK
<1>2. CASE input = <<>>
  <2> DEFINE rest == Len(script) - offset
             n == IF stdin = "tty" THEN 1 ELSE Block
             size == IF rest < n THEN rest ELSE n
  <2>1. size \in Nat /\ size <= rest /\ (size = 0 => rest = 0)
        /\ (stdin = "tty" => size <= 1)
    BY <1>1
  <2>2. got = [k \in 1..size |-> offset + k] /\ Base = offset
    BY <1>2 DEF Ahead, Base, Finds
  <2> HIDE DEF size
  <2>3. got \in Seq(Nat) /\ Len(got) = size
    BY <1>1, <2>1, <2>2
  <2>4. \A k \in 1..Len(got) : got[k] = Base + k
    BY <2>2, <2>3
  <2> QED
    BY <1>1, <1>2, <2>1, <2>2, <2>3, <2>4
<1>3. CASE input # <<>>
  BY <1>3 DEF ShellInv, ShellTypeOK, ShellInputInv, Finds
<1> QED
  BY <1>2, <1>3

\* The next line is taken.
LEMMA TakeLine ==
  ASSUME ShellInv, ReadLine, NEW got, Finds(got), got # <<>>
  PROVE  ShellInv'
<1>0. /\ shpc = "prompt" /\ shpc' = "fork"
      /\ input = <<>> => offset' = offset + Len(got)
      /\ input # <<>> => offset' = offset /\ got = input
      /\ stdin' = stdin /\ script' = script /\ children' = children
      /\ ran' = ran /\ failed' = failed
  BY DEF ReadLine, Finds
<1>1. /\ got \in Seq(Nat) /\ \A k \in 1..Len(got) : got[k] = Base + k
      /\ input = <<>> => offset + Len(got) <= Len(script)
      /\ stdin = "tty" => Len(got) <= 1
  BY NextLines
<1>2. /\ offset \in Nat /\ Len(script) \in Nat /\ offset <= Len(script)
      /\ Base \in Nat /\ taken \in Seq(Nat) /\ Len(taken) \in Nat
      /\ ran \in Seq(Nat) /\ input \in Seq(Nat)
  BY ShellAssumption DEF ShellInv, ShellTypeOK, ShellInputInv
<1>3. /\ Len(got) \in Nat /\ Len(got) >= 1 /\ Head(got) = Base + 1
      /\ Tail(got) \in Seq(Nat) /\ Len(Tail(got)) = Len(got) - 1
      /\ \A k \in 1..Len(got) - 1 : Tail(got)[k] = got[k + 1]
  <2>1. /\ Len(got) \in Nat /\ Len(got) >= 1 /\ Head(got) = got[1]
        /\ Tail(got) \in Seq(Nat) /\ Len(Tail(got)) = Len(got) - 1
        /\ \A k \in 1..Len(got) - 1 : Tail(got)[k] = got[k + 1]
    BY <1>1
  <2> QED
    BY <1>1, <2>1
<1>a. /\ input' \in Seq(Nat) /\ Len(input') = Len(got) - 1
      /\ \A k \in 1..Len(got) - 1 : input'[k] = got[k + 1]
  BY <1>3 DEF ReadLine, Finds
<1>4. /\ taken' \in Seq(Nat) /\ Len(taken') = Len(taken) + 1
      /\ \A k \in 1..Len(taken) : taken'[k] = taken[k]
      /\ taken'[Len(taken) + 1] = Base + 1
      /\ DOMAIN taken' = 1..Len(taken) + 1 /\ DOMAIN taken = 1..Len(taken)
  <2>1. taken' = Append(taken, Base + 1)
    BY <1>3 DEF ReadLine, Finds
  <2> QED
    BY <1>2, <2>1
<1>5. offset' \in Nat /\ offset' <= Len(script) /\ offset' <= Base + Len(got)
  <2>1. CASE input = <<>>
    BY <1>0, <1>1, <1>2, <1>3, <2>1 DEF Base
  <2>2. CASE input # <<>>
    BY <1>0, <1>2, <2>2 DEF ShellInv, ShellInputInv
  <2> QED
    BY <2>1, <2>2
<1>6. ShellTypeOK'
  BY <1>0, <1>a, <1>2, <1>4, <1>5 DEF ShellInv, ShellTypeOK
<1>7. \A l \in 1..Base + 1 : HasTaken(l)'
  <2> SUFFICES ASSUME NEW l \in 1..Base + 1 PROVE HasTaken(l)'
    OBVIOUS
  <2>1. CASE l = Base + 1
    <3>1. Len(taken) + 1 \in DOMAIN taken'
      BY <1>2, <1>4
    <3> QED
      BY <1>4, <2>1, <3>1 DEF HasTaken
  <2>2. CASE l \in 1..Base
    <3>1. PICK k \in DOMAIN taken : taken[k] = l
      BY <2>2 DEF HasTaken, ShellInv, ShellInputInv
    <3>2. k \in DOMAIN taken' /\ taken'[k] = l
      BY <1>2, <1>4, <3>1
    <3> QED
      BY <3>2 DEF HasTaken
  <2> QED
    BY <1>2, <2>1, <2>2
<1>8. \/ /\ Len(got) = 1 /\ input' = <<>> /\ Base' = offset' /\ Base' <= Base + 1
      \/ /\ Len(got) > 1 /\ input' # <<>> /\ Base' = Base + 1
  <2>1. CASE Len(got) = 1
    <3>1. input' = <<>>
      BY <1>3, <1>a, <2>1
    <3> QED
      BY <1>3, <1>5, <2>1, <3>1 DEF Base
  <2>2. CASE Len(got) > 1
    <3>1. input' # <<>> /\ input'[1] = got[2] /\ got[2] = Base + 2
      <4>1. 1 \in 1..Len(got) - 1 /\ 2 \in 1..Len(got) /\ Len(input') >= 1
        BY <1>3, <1>a, <2>2
      <4> QED
        BY <1>1, <1>a, <4>1
    <3> QED
      BY <1>2, <2>2, <3>1 DEF Base
  <2> QED
    BY <1>3, <2>1, <2>2
<1>9. ShellInputInv'
  <2>1. stdin' = "tty" => input' = <<>>
    BY <1>0, <1>1, <1>3, <1>8
  <2>2. Base' \in Nat /\ \A k \in 1..Len(input') : input'[k] = Base' + k
    <3>1. CASE Len(got) = 1
      BY <1>5, <1>8, <3>1
    <3>2. CASE Len(got) > 1
      <4>1. ASSUME NEW k \in 1..Len(input') PROVE input'[k] = Base' + k
        <5>1. k + 1 \in 1..Len(got) /\ input'[k] = got[k + 1]
          BY <1>3, <1>a
        <5>2. got[k + 1] = Base + (k + 1)
          BY <1>1, <5>1
        <5> QED
          BY <1>2, <1>8, <3>2, <5>1, <5>2
      <4> QED
        <5>1. Len(got) # 1
          BY <1>3, <3>2
        <5>2. Base' = Base + 1
          BY <1>8, <5>1
        <5>3. Base + 1 \in Nat
          BY <1>2
        <5> QED
          BY <4>1, <5>2, <5>3
    <3> QED
      BY <1>3, <3>1, <3>2
  <2>3. offset' <= Base' + Len(input')
    <3>1. CASE Len(got) = 1
      <4>1. Base' = offset' /\ Len(input') \in Nat
        BY <1>3, <1>a, <1>8, <3>1
      <4>2. offset' \in Nat
        BY <1>5
      <4> QED
        BY <4>1, <4>2
    <3>2. CASE Len(got) > 1
      <4>1. Base' = Base + 1 /\ Len(input') = Len(got) - 1
        BY <1>3, <1>a, <1>8, <3>2
      <4> QED
        BY <1>2, <1>3, <1>5, <4>1
    <3> QED
      BY <1>3, <3>1, <3>2
  <2>4. \A l \in 1..Base' : HasTaken(l)'
    BY <1>2, <1>5, <1>7, <1>8
  <2> QED
    BY <2>1, <2>2, <2>3, <2>4 DEF ShellInputInv
<1>10. children = {} /\ ChildInv'
  BY <1>0, <1>4 DEF ShellInv, ChildInv
<1>11. ASSUME stdin = "tty" \/ ~failed PROVE OrderInv'
  <2>1. OrderInv
    BY <1>11 DEF ShellInv
  <2>2. /\ Base = Len(taken) /\ \A k \in DOMAIN taken : taken[k] = k
        /\ offset = Base + Len(input)
        /\ \A k \in DOMAIN ran : ran[k] <= Len(taken)
    BY <2>1 DEF OrderInv
  <2>3. offset' = Base + Len(got)
    BY <1>0, <1>2, <1>3, <2>2 DEF Base
  <2>4. Base' = Len(taken')
    BY <1>2, <1>3, <1>4, <1>8, <2>2, <2>3
  <2>5. \A k \in DOMAIN taken' : taken'[k] = k
    <3>1. \A k \in DOMAIN taken' : k \in DOMAIN taken \/ k = Len(taken) + 1
      BY <1>2, <1>4
    <3>2. \A k \in DOMAIN taken : taken'[k] = k
      BY <1>4, <2>2
    <3> QED
      BY <1>4, <2>2, <3>1, <3>2
  <2>6. offset' = Base' + Len(input')
    BY <1>2, <1>3, <1>a, <1>4, <2>2, <2>3, <2>4
  <2>7. \A k \in DOMAIN ran' : ran'[k] < Len(taken')
    <3>1. \A k \in DOMAIN ran : ran[k] \in Nat
      BY <1>2
    <3> QED
      BY <1>0, <1>2, <1>4, <2>2, <3>1
  <2>8. \A k \in DOMAIN ran' : ran'[k] <= Len(taken')
    <3>1. \A k \in DOMAIN ran : ran[k] \in Nat
      BY <1>2
    <3> QED
      BY <1>0, <1>2, <1>4, <2>2, <3>1
  <2>9. Ascending(ran)'
    BY <1>0, <2>1 DEF OrderInv, Ascending
  <2> QED
    BY <2>4, <2>5, <2>6, <2>7, <2>8, <2>9 DEF OrderInv
<1>12. \A k \in DOMAIN taken' :
          taken'[k] = 1 \/ \E j \in 1..k-1 : taken'[j] = taken'[k] - 1
  <2> SUFFICES ASSUME NEW k \in 1..Len(taken) + 1
               PROVE taken'[k] = 1 \/ \E j \in 1..k-1 : taken'[j] = taken'[k] - 1
    BY <1>4
  <2>1. CASE k \in 1..Len(taken)
    <3>1. taken[k] = 1 \/ \E j \in 1..k-1 : taken[j] = taken[k] - 1
      BY <1>4, <2>1 DEF ShellInv
    <3>2. \A j \in 1..k-1 : j \in 1..Len(taken)
      BY <1>2, <2>1
    <3> QED
      BY <1>4, <2>1, <3>1, <3>2
  <2>2. CASE k = Len(taken) + 1 /\ Base = 0
    BY <1>4, <2>2
  <2>3. CASE k = Len(taken) + 1 /\ Base # 0
    <3>1. PICK j \in DOMAIN taken : taken[j] = Base
      BY <1>2, <2>3 DEF HasTaken, ShellInv, ShellInputInv
    <3>2. j \in 1..k-1 /\ taken'[j] = taken'[k] - 1
      BY <1>2, <1>4, <2>3, <3>1
    <3> QED
      BY <3>2
  <2> QED
    BY <1>2, <2>1, <2>2, <2>3
<1> QED
  BY <1>0, <1>6, <1>9, <1>10, <1>11, <1>12 DEF ShellInv

LEMMA ReadLineStep == ASSUME ShellInv, ReadLine PROVE ShellInv'
<1> DEFINE got == IF input = <<>> THEN Ahead ELSE input
<1>0. Finds(got)
  BY DEF Finds
<1>1. CASE got = <<>>
  <2>1. /\ shpc = "prompt" /\ shpc' = "exit"
        /\ UNCHANGED <<stdin, script, offset, input, children, taken, ran, failed>>
    BY <1>1 DEF ReadLine
  <2>2. Base = Len(script)
    BY <1>0, <1>1, NextLines
  <2>3. \A line \in DOMAIN script : HasTaken(line)
    <3>1. script \in Seq({"program", "unknown"})
      BY ShellAssumption DEF ShellInv, ShellTypeOK
    <3> QED
      BY <2>2, <3>1 DEF ShellInv, ShellInputInv
  <2>4. ShellTypeOK' /\ ShellInputInv' /\ (\A line \in DOMAIN script : HasTaken(line))'
    BY <2>1, <2>3 DEF ShellInv, ShellTypeOK, ShellInputInv, Base, HasTaken
  <2>5. ChildInv' /\ (stdin = "tty" \/ ~failed => OrderInv)'
    BY <2>1 DEF ShellInv, ChildInv, OrderInv, Base, Pending, Ascending
  <2> QED
    BY <2>1, <2>4, <2>5 DEF ShellInv
<1>2. CASE got # <<>>
  BY <1>0, <1>2, TakeLine
<1> QED
  BY <1>1, <1>2

\* What the moves of a child leave as it is.
LEMMA SameLines ==
  ASSUME ShellInv, UNCHANGED <<stdin, script, offset, input, taken>>
  PROVE  ShellInputInv' /\ Base' = Base /\ \A l : HasTaken(l)' <=> HasTaken(l)
BY DEF ShellInv, ShellInputInv, Base, HasTaken

LEMMA ForkStep == ASSUME ShellInv, Fork PROVE ShellInv'
<1>1. /\ shpc = "fork" /\ children = {} /\ taken # <<>>
      /\ taken \in Seq(Nat) /\ input \in Seq(Nat)
  BY DEF Fork, ShellInv, ChildInv, ShellTypeOK
<1>2. UNCHANGED <<stdin, script, offset, input, taken, ran, failed>>
  BY DEF Fork, history
<1>3. ShellInputInv' /\ Base' = Base
  BY <1>2, SameLines
<1> DEFINE forked == [line |-> taken[Len(taken)], input |-> input, running |-> FALSE]
<1>4. CASE children' = children \cup {forked} /\ shpc' = "wait"
  <2>1. forked \in Child
    BY <1>1 DEF Child
  <2>2. ShellTypeOK'
    BY <1>1, <1>2, <1>4, <2>1 DEF ShellInv, ShellTypeOK
  <2>3. ChildInv'
    BY <1>1, <1>2, <1>4 DEF ChildInv
  <2>4. (stdin = "tty" \/ ~failed => OrderInv)'
    BY <1>1, <1>2, <1>3 DEF ShellInv, OrderInv, Ascending, Pending
  <2> QED
    BY <1>2, <1>3, <1>4, <2>2, <2>3, <2>4 DEF ShellInv
<1>5. CASE shpc' = "prompt" /\ children' = children
  <2>1. ShellTypeOK' /\ ChildInv'
    BY <1>1, <1>2, <1>5 DEF ShellInv, ShellTypeOK, ChildInv
  <2>2. (stdin = "tty" \/ ~failed => OrderInv)'
    BY <1>1, <1>2, <1>3, <1>5 DEF ShellInv, OrderInv, Ascending, Pending
  <2> QED
    BY <1>2, <1>3, <1>5, <2>1, <2>2 DEF ShellInv
<1> QED
  BY <1>4, <1>5 DEF Fork

LEMMA WaitPidStep == ASSUME ShellInv, WaitPid PROVE ShellInv'
<1>1. /\ children = {} /\ shpc = "wait" /\ shpc' = "prompt"
      /\ UNCHANGED <<stdin, script, offset, input, children, taken, ran, failed>>
  BY DEF WaitPid, history
<1>2. ShellInputInv' /\ Base' = Base
  BY <1>1, SameLines
<1>3. ShellTypeOK' /\ ChildInv'
  BY <1>1 DEF ShellInv, ShellTypeOK, ChildInv
<1>4. (stdin = "tty" \/ ~failed => OrderInv)'
  BY <1>1, <1>2 DEF ShellInv, OrderInv, Ascending, Pending
<1> QED
  BY <1>1, <1>2, <1>3, <1>4 DEF ShellInv

LEMMA ExecStep ==
  ASSUME ShellInv, NEW ch \in children, Exec(ch) PROVE ShellInv'
<1> DEFINE running == [ch EXCEPT !.running = TRUE]
<1>1. /\ ~ch.running /\ children' = (children \ {ch}) \cup {running}
      /\ ran' = Append(ran, ch.line)
      /\ UNCHANGED <<stdin, script, offset, input, shpc, taken, failed>>
  BY DEF Exec
<1>2. /\ ch \in Child /\ children = {ch} /\ ch.line = taken[Len(taken)]
      /\ ch.input = input /\ shpc = "wait" /\ taken # <<>>
      /\ taken \in Seq(Nat) /\ ran \in Seq(Nat)
  BY DEF ShellInv, ShellTypeOK, ChildInv
<1>3. /\ running \in Child /\ running.line = ch.line /\ running.input = ch.input
      /\ running.running = TRUE /\ children' = {running}
  BY <1>1, <1>2 DEF Child
<1> HIDE DEF running
<1>4. ShellInputInv' /\ Base' = Base
  BY <1>1, SameLines
<1>5. ch.line \in Nat
  BY <1>2 DEF Child
<1>6. ShellTypeOK' /\ ChildInv'
  <2>1. ran' \in Seq(Nat)
    BY <1>1, <1>2, <1>5
  <2> QED
    BY <1>1, <1>2, <1>3, <2>1 DEF ShellInv, ShellTypeOK, ChildInv
<1>7. ASSUME stdin = "tty" \/ ~failed PROVE OrderInv'
  <2>1. OrderInv
    BY <1>7 DEF ShellInv
  <2>2. Pending /\ ~Pending'
    BY <1>1, <1>2, <1>3 DEF Pending
  <2>3. /\ Len(taken) \in DOMAIN taken /\ Len(taken) \in Nat
        /\ ch.line = Len(taken)
    BY <1>2, <2>1 DEF OrderInv
  <2>4. /\ Len(ran) \in Nat /\ Len(ran') = Len(ran) + 1
        /\ \A k \in 1..Len(ran) : ran'[k] = ran[k] /\ ran[k] < Len(taken)
                                /\ ran[k] \in Nat
        /\ ran'[Len(ran) + 1] = Len(taken)
        /\ DOMAIN ran' = 1..Len(ran) + 1
    BY <1>1, <1>2, <2>1, <2>2, <2>3 DEF OrderInv
  <2>5. Ascending(ran)'
    <3> SUFFICES ASSUME NEW k \in 1..Len(ran) PROVE ran'[k] < ran'[k + 1]
      BY <2>4 DEF Ascending
    <3>1. CASE k = Len(ran)
      BY <2>4, <3>1
    <3>2. CASE k < Len(ran)
      <4>1. ran[k] < ran[k + 1] /\ k + 1 \in 1..Len(ran)
        BY <2>1, <2>4, <3>2 DEF OrderInv, Ascending
      <4> QED
        BY <2>4, <4>1
    <3> QED
      BY <2>4, <3>1, <3>2
  <2>6. \A k \in DOMAIN ran' : ran'[k] <= Len(taken)
    BY <2>3, <2>4
  <2> QED
    BY <1>1, <1>4, <2>1, <2>2, <2>5, <2>6 DEF OrderInv
<1> QED
  BY <1>1, <1>2, <1>4, <1>6, <1>7 DEF ShellInv

\* A program ends, or cannot be executed; the latter may move the position of
\* the file back, by the lines that are left in input.
LEMMA ChildEndsStep ==
  ASSUME ShellInv, NEW ch \in children, ProgramEnds(ch) \/ ExecFails(ch)
  PROVE  ShellInv'
<1>1. /\ children' = children \ {ch}
      /\ UNCHANGED <<stdin, script, input, shpc, taken, ran>>
      /\ \/ offset' = offset /\ failed' = failed
         \/ offset' = offset /\ failed' = TRUE
         \/ /\ stdin = "file" /\ failed' = TRUE /\ offset >= Len(input)
            /\ offset' = offset - Len(input)
  BY DEF ProgramEnds, ExecFails, history, ShellInv, ChildInv
<1>2. children = {ch} /\ shpc = "wait" /\ taken # <<>>
  BY DEF ShellInv, ChildInv
<1>3. /\ input \in Seq(Nat) /\ Len(input) \in Nat /\ offset \in Nat
      /\ Len(script) \in Nat /\ offset <= Len(script)
      /\ offset' \in Nat /\ offset' <= offset
  <2>1. /\ input \in Seq(Nat) /\ Len(input) \in Nat /\ offset \in Nat
        /\ Len(script) \in Nat /\ offset <= Len(script)
    BY ShellAssumption DEF ShellInv, ShellTypeOK
  <2> QED
    BY <1>1, <2>1
<1>4. Base' = Base
  <2>1. input = <<>> => offset' = offset
    BY <1>1, <1>3
  <2> QED
    BY <1>1, <2>1 DEF Base
<1>5. ShellInputInv'
  BY <1>1, <1>3, <1>4 DEF ShellInv, ShellInputInv, HasTaken
<1>6. ShellTypeOK' /\ ChildInv'
  <2>1. offset' \in 0..Len(script) /\ children' = {} /\ failed' \in BOOLEAN
    <3>1. failed' \in BOOLEAN
      BY <1>1 DEF ShellInv, ShellTypeOK
    <3> QED
      BY <1>1, <1>2, <1>3, <3>1
  <2>2. ShellTypeOK'
    BY <1>1, <2>1 DEF ShellInv, ShellTypeOK
  <2>3. ChildInv'
    BY <1>1, <1>2, <2>1 DEF ChildInv
  <2> QED
    BY <2>2, <2>3
<1>7. ASSUME (stdin = "tty" \/ ~failed)' PROVE OrderInv'
  <2>1. OrderInv /\ offset' = offset
    BY <1>1, <1>7 DEF ShellInv
  <2> QED
    BY <1>1, <1>2, <1>4, <2>1 DEF OrderInv, Ascending, Pending
<1> QED
  BY <1>1, <1>2, <1>5, <1>6, <1>7 DEF ShellInv, HasTaken

LEMMA ShellStep == ShellInv /\ [ShellNext]_shellVars => ShellInv'
<1> SUFFICES ASSUME ShellInv, [ShellNext]_shellVars PROVE ShellInv'
  OBVIOUS
<1>1. CASE UNCHANGED shellVars
  BY <1>1
  DEF shellVars, ShellInv, ShellTypeOK, ShellInputInv, ChildInv, OrderInv, Base,
      HasTaken, Pending, Ascending
<1> QED
  BY <1>1, ReadLineStep, ForkStep, WaitPidStep, ExecStep, ChildEndsStep
  DEF ShellNext

LEMMA ShellOnce == ShellInv => EachLineOnce
<1> SUFFICES ASSUME ShellInv PROVE EachLineOnce
  OBVIOUS
<1>1. Cardinality(children) <= 1
  <2>1. CASE children = {}
    BY <2>1, FS_EmptySet
  <2>2. ASSUME NEW ch \in children PROVE Cardinality(children) <= 1
    <3>1. children = {ch}
      BY DEF ShellInv, ChildInv
    <3>2. Cardinality({ch}) = 1
      BY FS_Singleton, Zenon
    <3> QED
      BY <3>1, <3>2
  <2> QED
    BY <2>1, <2>2
<1>2. ASSUME stdin = "tty" \/ ~failed
      PROVE  taken = [k \in 1..Len(taken) |-> k] /\ Ascending(ran)
  BY <1>2 DEF ShellInv, ShellTypeOK, OrderInv
<1> QED
  BY <1>1, <1>2 DEF EachLineOnce, ShellInv, HasTaken

\* Whatever the script and the block a read returns: one program at a time, no
\* line passed over, and no line twice until a child fails to execute its
\* program while the input is a file.
THEOREM LinesOnce == ShellSpec => []EachLineOnce
<1>1. ShellSpec => []ShellInv
  BY ShellInitInv, ShellStep, PTL DEF ShellSpec
<1> QED
  BY <1>1, ShellOnce, PTL

-----------------------------------------------------------------------------
(* Keepalive.  The server is busy or nobody waits for it between the       *)
(* beginnings of two waves, so each wave is full while there are clients;  *)
(* Before(n) counts the clients of the first n waves.                      *)

\* When wave n begins, and the clients n waves can take.
Begin(n) == n * KeepAliveTimeout
Room(n) == n * MaxClients
Served(n) == IF Room(n) <= ClientCount THEN Room(n) ELSE ClientCount

Accepted == In("served") \cup In("exited") \cup In("waited")
Before(n) == {c \in Accepted : since[c] < Begin(n)}
OnTime == \E n \in Nat : now = Begin(n)

ChildState == {"none", "started", "queued", "served", "exited", "waited"}

KeepTypes ==
    /\ listening \in BOOLEAN
    /\ kpc \in {"fork", "wait", "sort", "die"}
    /\ child \in [Clients -> ChildState]
    /\ since \in [Clients -> Nat]
    /\ startTime \in [Clients -> Int]
    /\ endTime \in [Clients -> Int]
    /\ exitCount \in Nat
    /\ now \in Nat

\* The parent: children are started in order, at time 0; what it waited for.
ParentInv ==
    /\ kpc \in {"fork", "die"} => now = 0 /\ exitCount = 0
    /\ kpc = "fork" => \E m \in 0..ClientCount - 1 : Clients \ In("none") = 1..m
    /\ kpc \in {"wait", "sort"} => In("none") = {}
    /\ kpc = "wait" => exitCount < ClientCount
    /\ kpc = "sort" => exitCount = ClientCount
    /\ exitCount = Cardinality(In("waited"))
    /\ \A c \in Clients :
          /\ child[c] # "none" => startTime[c] = 0
          /\ endTime[c] = -1 <=> child[c] # "waited"

\* Without a server no child is ever waited for.
DarkInv ==
    /\ In("queued") = {} /\ In("served") = {}
    /\ now = 0
    /\ \A c \in In("waited") : endTime[c] = 0

\* A child is served for the length of the timeout, from the start of a wave.
ServedInv ==
    /\ \A c \in Accepted : \E n \in Nat : since[c] = Begin(n)
    /\ \A c \in In("served") : since[c] <= now /\ now <= since[c] + KeepAliveTimeout
    /\ \A c \in In("exited") : now = since[c] + KeepAliveTimeout
    /\ \A c \in In("waited") : /\ endTime[c] = since[c] + KeepAliveTimeout
                               /\ endTime[c] <= now
    /\ Cardinality(In("served")) <= MaxClients

\* Waves are full as long as there are clients, and between their beginnings
\* nothing happens.
WaveInv ==
    /\ \A n \in Nat : Begin(n) <= now => Cardinality(Before(n)) = Served(n)
    /\ kpc = "sort" => OnTime
    /\ OnTime \/ /\ In("none") = {} /\ In("started") = {} /\ In("exited") = {}
                 /\ In("queued") # {} => Cardinality(In("served")) = MaxClients

KeepInv ==
    /\ KeepTypes
    /\ ParentInv
    /\ ~listening => DarkInv
    /\ listening => ServedInv /\ WaveInv

\* Waves follow each other at the distance of the timeout.
LEMMA BeginNext ==
  /\ Begin(0) = 0 /\ Room(0) = 0
  /\ \A n \in Nat : /\ Begin(n) \in Nat /\ Room(n) \in Nat
                    /\ Begin(n + 1) = Begin(n) + KeepAliveTimeout
                    /\ Room(n + 1) = Room(n) + MaxClients
<1>1. ASSUME NEW n \in Nat, NEW k \in Nat PROVE n * k \in Nat /\ (n + 1) * k = n * k + k
  OBVIOUS
<1>2. ASSUME NEW k \in Nat PROVE 0 * k = 0
  OBVIOUS
<1>3. KeepAliveTimeout \in Nat /\ MaxClients \in Nat
  BY KeepAssumption
<1> QED
  BY <1>1, <1>2, <1>3 DEF Begin, Room

LEMMA BeginOrder ==
  ASSUME NEW m \in Nat, NEW n \in Nat
  PROVE  /\ m <= n => Begin(m) <= Begin(n) /\ Room(m) <= Room(n)
         /\ m < n => Begin(m) + KeepAliveTimeout <= Begin(n)
         /\ Begin(m) < Begin(n) => m < n
         /\ Begin(m) = Begin(n) => m = n
<1>1. ASSUME NEW i \in Nat, NEW j \in Nat, NEW k \in Nat, i <= j PROVE i * k <= j * k
  <2>1. j - i \in Nat /\ (j - i) * k \in Nat
    BY <1>1
  <2>2. j * k = i * k + (j - i) * k
    BY <1>1
  <2>3. i * k \in Nat
    OBVIOUS
  <2> QED
    BY <2>1, <2>2, <2>3
<1>2. KeepAliveTimeout \in Nat \ {0} /\ MaxClients \in Nat
  BY KeepAssumption
<1>3. /\ \A i, j \in Nat : i <= j => Begin(i) <= Begin(j) /\ Room(i) <= Room(j)
      /\ \A i \in Nat : Begin(i) \in Nat /\ Begin(i + 1) = Begin(i) + KeepAliveTimeout
  BY <1>1, <1>2, BeginNext DEF Begin, Room
<1>4. m < n => Begin(m) + KeepAliveTimeout <= Begin(n)
  <2>1. m < n => m + 1 <= n /\ m + 1 \in Nat
    OBVIOUS
  <2> QED
    BY <1>3, <2>1
<1>5. n < m => Begin(n) + KeepAliveTimeout <= Begin(m)
  <2>1. n < m => n + 1 <= m /\ n + 1 \in Nat
    OBVIOUS
  <2> QED
    BY <1>3, <2>1
<1>6. Begin(m) \in Nat /\ Begin(n) \in Nat
  BY <1>3
<1>7. m <= n => Begin(m) <= Begin(n) /\ Room(m) <= Room(n)
  BY <1>3
<1>8. n < m => Begin(n) < Begin(m)
  BY <1>2, <1>5, <1>6
<1>9. m < n => Begin(m) < Begin(n)
  BY <1>2, <1>4, <1>6
<1>10. m < n \/ n < m \/ m = n
  OBVIOUS
<1>11. Begin(m) < Begin(n) => m < n
  BY <1>6, <1>8, <1>10
<1>12. Begin(m) = Begin(n) => m = n
  BY <1>6, <1>8, <1>9, <1>10
<1> QED
  BY <1>4, <1>7, <1>11, <1>12

LEMMA ServedNext ==
  ASSUME NEW n \in Nat
  PROVE  Served(n) \in Nat /\ Served(n + 1) \in Nat /\ Served(n) <= ClientCount
  BY BeginNext, KeepAssumption DEF Served

LEMMA ClientsFinite ==
  /\ IsFiniteSet(Clients) /\ Cardinality(Clients) = ClientCount
  /\ \A S \in SUBSET Clients :
        /\ IsFiniteSet(S) /\ Cardinality(S) \in Nat /\ Cardinality(S) <= ClientCount
        /\ Cardinality(S) = ClientCount => S = Clients
<1>1. IsFiniteSet(Clients) /\ Cardinality(Clients) = ClientCount
  BY FS_Interval, KeepAssumption DEF Clients
<1>2. ASSUME NEW S \in SUBSET Clients
      PROVE  /\ IsFiniteSet(S) /\ Cardinality(S) \in Nat /\ Cardinality(S) <= ClientCount
             /\ Cardinality(S) = ClientCount => S = Clients
  BY <1>1, FS_Subset, FS_CardinalityType
<1> QED
  BY <1>1, <1>2

\* One child goes from a state to another.
LEMMA ChildMoves ==
  ASSUME KeepTypes, NEW c \in Clients, NEW s, child' = [child EXCEPT ![c] = s]
  PROVE  /\ \A d \in Clients : child'[d] = IF d = c THEN s ELSE child[d]
         /\ \A st : In(st)' = IF st = s THEN In(st) \cup {c} ELSE In(st) \ {c}
<1>1. \A d \in Clients : child'[d] = IF d = c THEN s ELSE child[d]
  BY DEF KeepTypes, ChildState
<1>2. \A st : In(st)' = {d \in Clients : child'[d] = st}
  BY DEF In
<1> QED
  BY <1>1, <1>2 DEF In

-----------------------------------------------------------------------------
(* The steps.                                                              *)

LEMMA KeepInitInv == KeepInit => KeepInv
<1> SUFFICES ASSUME KeepInit PROVE KeepInv
  OBVIOUS
<1>1. /\ listening \in BOOLEAN /\ kpc = "fork" /\ exitCount = 0 /\ now = 0
      /\ child = [c \in Clients |-> "none"]
      /\ since = [c \in Clients |-> 0]
      /\ startTime = [c \in Clients |-> -1]
      /\ endTime = [c \in Clients |-> -1]
  BY DEF KeepInit, KeepStart
<1>2. KeepTypes
  BY <1>1 DEF KeepTypes, ChildState
<1>3. /\ In("none") = Clients /\ In("queued") = {} /\ In("served") = {}
      /\ In("exited") = {} /\ In("waited") = {}
  BY <1>1 DEF In
<1>4. ParentInv
  <2>1. Clients \ In("none") = 1..0 /\ 0 \in 0..ClientCount - 1
    BY <1>3, KeepAssumption
  <2>2. Cardinality(In("waited")) = 0
    BY <1>3, FS_EmptySet
  <2> QED
    BY <1>1, <2>1, <2>2 DEF ParentInv
<1>5. DarkInv
  BY <1>1, <1>3 DEF DarkInv
<1>6. ServedInv
  <2>1. Cardinality(In("served")) = 0
    BY <1>3, FS_EmptySet
  <2> QED
    BY <1>3, <2>1, KeepAssumption DEF ServedInv, Accepted
<1>7. WaveInv
  <2>1. OnTime
    BY <1>1, BeginNext DEF OnTime
  <2>2. ASSUME NEW n \in Nat, Begin(n) <= now PROVE Cardinality(Before(n)) = Served(n)
    <3>1. n = 0
      <4>1. ~(0 < n)
        BY <1>1, <2>2, BeginOrder, BeginNext, KeepAssumption
      <4> QED
        BY <4>1
    <3>2. Before(n) = {} /\ Served(n) = 0
      BY <1>3, <3>1, BeginNext, KeepAssumption DEF Before, Accepted, Served
    <3> QED
      BY <3>2, FS_EmptySet
  <2> QED
    BY <1>1, <2>1, <2>2 DEF WaveInv
<1> QED
  BY <1>2, <1>4, <1>5, <1>6, <1>7 DEF KeepInv

LEMMA ForkChildStep ==
  ASSUME KeepInv, ForkChild
  PROVE  KeepInv'
<1>0. KeepTypes /\ ParentInv
  BY DEF KeepInv
<1>1. CASE kpc' = "die" /\ UNCHANGED <<child, startTime>>
  <2>1. UNCHANGED <<listening, child, startTime, since, endTime, exitCount, now>>
    BY <1>1 DEF ForkChild
  <2>2. \A st : In(st)' = In(st)
    BY <2>1 DEF In
  <2>3. kpc = "fork"
    BY DEF ForkChild
  <2> QED
    BY <1>1, <2>1, <2>2, <2>3 DEF KeepInv, KeepTypes, ChildState, ParentInv, DarkInv, ServedInv,
       WaveInv, Accepted, Before, OnTime
<1>2. CASE kpc' # "die"
  <2> DEFINE c == Cardinality(Clients \ In("none")) + 1
  <2>1. /\ kpc = "fork"
        /\ child' = [child EXCEPT ![c] = "started"]
        /\ startTime' = [startTime EXCEPT ![c] = now]
        /\ kpc' = IF c = ClientCount THEN "wait" ELSE kpc
        /\ UNCHANGED <<listening, since, endTime, exitCount, now>>
    BY <1>2 DEF ForkChild
  <2>2. PICK m \in 0..ClientCount - 1 : Clients \ In("none") = 1..m
    BY <1>0, <2>1 DEF ParentInv
  <2>3. c = m + 1 /\ c \in Clients /\ child[c] = "none"
    <3>1. Cardinality(1..m) = m
      BY FS_Interval
    <3>2. c = m + 1
      BY <2>2, <3>1
    <3>3. c \in Clients /\ c \notin 1..m
      BY <3>2, KeepAssumption DEF Clients
    <3> QED
      BY <2>2, <3>2, <3>3 DEF In
  <2> HIDE DEF c
  <2>4. /\ \A d \in Clients : child'[d] = IF d = c THEN "started" ELSE child[d]
        /\ \A st : In(st)' = IF st = "started" THEN In(st) \cup {c} ELSE In(st) \ {c}
    BY <1>0, <2>1, <2>3, ChildMoves
  <2>5. /\ In("none")' = In("none") \ {c}
        /\ In("queued")' = In("queued") /\ In("served")' = In("served")
        /\ In("exited")' = In("exited") /\ In("waited")' = In("waited")
    BY <2>3, <2>4 DEF In
  <2>6. KeepTypes'
    <3>1. startTime' \in [Clients -> Int]
      <4>1. now \in Int /\ startTime \in [Clients -> Int]
        BY <1>0 DEF KeepTypes, ChildState
      <4> QED
        BY <2>1, <4>1
    <3>3. kpc' \in {"fork", "wait"}
      BY <2>1
    <3>2. child' \in [Clients -> ChildState]
      BY <1>0, <2>1 DEF KeepTypes, ChildState
    <3> QED
      BY <1>0, <2>1, <3>1, <3>2, <3>3 DEF KeepTypes, ChildState
  <2>7. ParentInv'
    <3>1. Clients \ In("none")' = 1..m + 1
      BY <2>2, <2>3, <2>5 DEF Clients
    <3>2. kpc' = "fork" => m + 1 \in 0..ClientCount - 1
      BY <2>1, <2>3, KeepAssumption
    <3>3. kpc' = "wait" => In("none")' = {}
      BY <2>1, <2>3, <3>1 DEF Clients, In
    <3>4. \A d \in Clients : child'[d] # "none" => startTime'[d] = 0
      BY <1>0, <2>1, <2>3, <2>4 DEF ParentInv, KeepTypes, ChildState
    <3>5. \A d \in Clients : endTime'[d] = -1 <=> child'[d] # "waited"
      BY <1>0, <2>1, <2>3, <2>4 DEF ParentInv
    <3>6. exitCount' = 0 /\ now' = 0 /\ exitCount' = Cardinality(In("waited"))'
      BY <1>0, <2>1, <2>5 DEF ParentInv
    <3> QED
      BY <2>1, <3>1, <3>2, <3>3, <3>4, <3>5, <3>6, KeepAssumption DEF ParentInv
  <2>8. ~listening' => DarkInv'
    BY <2>1, <2>5 DEF KeepInv, DarkInv
  <2>9. listening' => ServedInv'
    BY <2>1, <2>5 DEF KeepInv, ServedInv, Accepted
  <2>10. listening' => WaveInv'
    <3>1. OnTime'
      BY <1>0, <2>1, BeginNext DEF ParentInv, OnTime
    <3>2. \A n : Before(n)' = Before(n)
      BY <2>1, <2>5 DEF Before, Accepted
    <3>3. kpc' # "sort"
      BY <2>1
    <3> QED
      BY <2>1, <3>1, <3>2, <3>3 DEF KeepInv, WaveInv
  <2> QED
    BY <2>6, <2>7, <2>8, <2>9, <2>10 DEF KeepInv
<1> QED
  BY <1>1, <1>2 DEF ForkChild

LEMMA ConnectChildStep ==
  ASSUME KeepInv, NEW c \in Clients, ConnectChild(c)
  PROVE  KeepInv'
<1> DEFINE s == IF listening THEN "queued" ELSE "exited"
<1>0. KeepTypes /\ ParentInv
  BY DEF KeepInv
<1>1. /\ child[c] = "started" /\ child' = [child EXCEPT ![c] = s]
      /\ UNCHANGED <<listening, kpc, since, startTime, endTime, exitCount, now>>
  BY DEF ConnectChild
<1>a. /\ listening => s = "queued"
      /\ ~listening => s = "exited"
  OBVIOUS
<1> HIDE DEF s
<1>2. /\ \A d \in Clients : child'[d] = IF d = c THEN s ELSE child[d]
      /\ \A st : In(st)' = IF st = s THEN In(st) \cup {c} ELSE In(st) \ {c}
  BY <1>0, <1>1, ChildMoves
<1>3. c \in In("started")
  BY <1>1 DEF In
<1>4. /\ In("none")' = In("none") /\ In("waited")' = In("waited")
      /\ In("served")' = In("served")
      /\ listening => In("exited")' = In("exited")
      /\ ~listening => In("queued")' = In("queued")
  BY <1>1, <1>2, <1>a DEF In
<1>5. KeepTypes'
  BY <1>0, <1>1, <1>a DEF KeepTypes, ChildState
<1>6. ParentInv'
  BY <1>0, <1>1, <1>2, <1>4, <1>a DEF ParentInv
<1>7. ~listening' => DarkInv'
  BY <1>1, <1>4 DEF KeepInv, DarkInv
<1>8. listening' => ServedInv'
  BY <1>1, <1>4 DEF KeepInv, ServedInv, Accepted
<1>9. listening' => WaveInv'
  <2> SUFFICES ASSUME listening PROVE WaveInv'
    BY <1>1
  <2>1. \A n : Before(n)' = Before(n)
    BY <1>1, <1>4 DEF Before, Accepted
  <2>2. OnTime'
    BY <1>1, <1>3 DEF KeepInv, WaveInv, OnTime
  <2> QED
    BY <1>1, <2>1, <2>2 DEF KeepInv, WaveInv
<1> QED
  BY <1>5, <1>6, <1>7, <1>8, <1>9 DEF KeepInv

\* A connection is taken at the beginning of a wave, which it belongs to.
LEMMA TakeConnectionStep ==
  ASSUME KeepInv, NEW c \in Clients, TakeConnection(c)
  PROVE  KeepInv'
<1>0. KeepTypes /\ ParentInv
  BY DEF KeepInv
<1>1. /\ child[c] = "queued" /\ Cardinality(In("served")) < MaxClients
      /\ child' = [child EXCEPT ![c] = "served"]
      /\ since' = [since EXCEPT ![c] = now]
      /\ UNCHANGED <<listening, kpc, startTime, endTime, exitCount, now>>
  BY DEF TakeConnection
<1>2. /\ \A d \in Clients : child'[d] = IF d = c THEN "served" ELSE child[d]
      /\ \A st : In(st)' = IF st = "served" THEN In(st) \cup {c} ELSE In(st) \ {c}
  BY <1>0, <1>1, ChildMoves
<1>3. c \in In("queued") /\ c \notin In("served") /\ c \notin Accepted
  BY <1>1 DEF In, Accepted
<1>4. /\ In("none")' = In("none") /\ In("waited")' = In("waited")
      /\ In("exited")' = In("exited") /\ In("served")' = In("served") \cup {c}
      /\ Accepted' = Accepted \cup {c}
  BY <1>1, <1>2 DEF In, Accepted
<1>5. listening
  BY <1>3 DEF KeepInv, DarkInv
<1>6. ServedInv /\ WaveInv
  BY <1>5 DEF KeepInv
<1>7. OnTime
  BY <1>1, <1>3, <1>6, KeepAssumption DEF WaveInv
<1>8. \A d \in Clients : since'[d] = IF d = c THEN now ELSE since[d]
  BY <1>0, <1>1 DEF KeepTypes, ChildState
<1>9. KeepTypes'
  BY <1>0, <1>1 DEF KeepTypes, ChildState
<1>10. ParentInv'
  BY <1>0, <1>1, <1>2, <1>4 DEF ParentInv
<1>11. Accepted \subseteq Clients /\ c \notin In("exited") /\ c \notin In("waited")
  BY <1>1 DEF Accepted, In
<1>12. ServedInv'
  <2>1. \A d \in Accepted' : \E n \in Nat : since'[d] = Begin(n)
    BY <1>4, <1>6, <1>7, <1>8, <1>11 DEF ServedInv, OnTime
  <2>2. \A d \in In("served")' : since'[d] <= now' /\ now' <= since'[d] + KeepAliveTimeout
    BY <1>0, <1>1, <1>4, <1>6, <1>8, <1>11, KeepAssumption
    DEF ServedInv, KeepTypes, ChildState, Accepted
  <2>3. \A d \in In("exited")' : now' = since'[d] + KeepAliveTimeout
    BY <1>1, <1>4, <1>6, <1>8, <1>11 DEF ServedInv, Accepted
  <2>4. \A d \in In("waited")' : /\ endTime'[d] = since'[d] + KeepAliveTimeout
                                 /\ endTime'[d] <= now'
    BY <1>1, <1>4, <1>6, <1>8, <1>11 DEF ServedInv, Accepted
  <2>5. Cardinality(In("served"))' <= MaxClients
    <3>1. In("served") \subseteq Clients
      BY DEF In
    <3>2. /\ Cardinality(In("served") \cup {c}) = Cardinality(In("served")) + 1
          /\ Cardinality(In("served")) \in Nat
      BY <1>3, <3>1, ClientsFinite, FS_AddElement
    <3>3. Cardinality(In("served") \cup {c}) <= MaxClients
      BY <1>1, <3>2, KeepAssumption
    <3> QED
      BY <1>4, <3>3
  <2> QED
    BY <2>1, <2>2, <2>3, <2>4, <2>5 DEF ServedInv
<1>13. WaveInv'
  <2>1. ASSUME NEW n \in Nat, Begin(n) <= now' PROVE Cardinality(Before(n))' = Served(n)
    <3>1. Before(n)' = Before(n)
      <4>1. ~(now < Begin(n))
        BY <1>0, <1>1, <2>1, BeginNext DEF KeepTypes, ChildState
      <4> QED
        BY <1>3, <1>4, <1>8, <1>11, <4>1 DEF Before
    <3> QED
      BY <1>1, <1>6, <2>1, <3>1 DEF WaveInv
  <2>2. OnTime'
    BY <1>1, <1>7 DEF OnTime
  <2> QED
    BY <2>1, <2>2 DEF WaveInv, Served, Room, Begin
<1> QED
  BY <1>1, <1>5, <1>9, <1>10, <1>12, <1>13 DEF KeepInv

LEMMA ReadToEofStep ==
  ASSUME KeepInv, NEW c \in Clients, ReadToEof(c)
  PROVE  KeepInv'
<1>0. KeepTypes /\ ParentInv
  BY DEF KeepInv
<1>1. /\ child[c] = "served" /\ now = since[c] + KeepAliveTimeout
      /\ child' = [child EXCEPT ![c] = "exited"]
      /\ UNCHANGED <<listening, kpc, since, startTime, endTime, exitCount, now>>
  BY DEF ReadToEof, TimedOut
<1>2. /\ \A d \in Clients : child'[d] = IF d = c THEN "exited" ELSE child[d]
      /\ \A st : In(st)' = IF st = "exited" THEN In(st) \cup {c} ELSE In(st) \ {c}
  BY <1>0, <1>1, ChildMoves
<1>3. c \in In("served")
  BY <1>1 DEF In
<1>4. /\ In("none")' = In("none") /\ In("waited")' = In("waited")
      /\ In("exited")' = In("exited") \cup {c} /\ In("served")' = In("served") \ {c}
      /\ Accepted' = Accepted
  BY <1>1, <1>2 DEF In, Accepted
<1>5. listening
  BY <1>3 DEF KeepInv, DarkInv
<1>6. ServedInv /\ WaveInv
  BY <1>5 DEF KeepInv
<1>7. OnTime
  <2>1. PICK n \in Nat : since[c] = Begin(n)
    BY <1>3, <1>6 DEF ServedInv, Accepted
  <2>2. now = Begin(n + 1) /\ n + 1 \in Nat
    BY <1>1, <2>1, BeginNext
  <2> QED
    BY <2>2 DEF OnTime
<1>8. KeepTypes'
  BY <1>0, <1>1 DEF KeepTypes, ChildState
<1>9. ParentInv'
  BY <1>0, <1>1, <1>2, <1>4 DEF ParentInv
<1>10. ServedInv'
  <2>1. Cardinality(In("served"))' <= MaxClients
    <3>1. In("served") \subseteq Clients
      BY DEF In
    <3>2. /\ Cardinality(In("served") \ {c}) = Cardinality(In("served")) - 1
          /\ Cardinality(In("served")) \in Nat
      BY <1>3, <3>1, ClientsFinite, FS_RemoveElement
    <3>3. Cardinality(In("served")) <= MaxClients
      BY <1>6 DEF ServedInv
    <3>4. Cardinality(In("served") \ {c}) <= MaxClients
      BY <3>2, <3>3, KeepAssumption
    <3> QED
      BY <1>1, <1>4, <3>4
  <2> QED
    BY <1>1, <1>4, <1>6, <2>1 DEF ServedInv
<1>11. WaveInv'
  <2>1. \A n : Before(n)' = Before(n)
    BY <1>1, <1>4 DEF Before
  <2>2. OnTime'
    BY <1>1, <1>7 DEF OnTime
  <2> QED
    BY <1>1, <1>6, <2>1, <2>2 DEF WaveInv
<1> QED
  BY <1>1, <1>5, <1>8, <1>9, <1>10, <1>11 DEF KeepInv

LEMMA WaitChildStep ==
  ASSUME KeepInv, NEW c \in Clients, WaitChild(c)
  PROVE  KeepInv'
<1>0. KeepTypes /\ ParentInv
  BY DEF KeepInv
<1>1. /\ kpc = "wait" /\ child[c] = "exited"
      /\ child' = [child EXCEPT ![c] = "waited"]
      /\ endTime' = [endTime EXCEPT ![c] = now]
      /\ exitCount' = exitCount + 1
      /\ kpc' = IF exitCount + 1 = ClientCount THEN "sort" ELSE kpc
      /\ UNCHANGED <<listening, since, startTime, now>>
  BY DEF WaitChild
<1>2. /\ \A d \in Clients : child'[d] = IF d = c THEN "waited" ELSE child[d]
      /\ \A st : In(st)' = IF st = "waited" THEN In(st) \cup {c} ELSE In(st) \ {c}
  BY <1>0, <1>1, ChildMoves
<1>3. c \in In("exited") /\ c \notin In("waited")
  BY <1>1 DEF In
<1>4. /\ In("none")' = In("none") /\ In("waited")' = In("waited") \cup {c}
      /\ In("served")' = In("served") /\ In("queued")' = In("queued")
      /\ In("started")' = In("started")
      /\ In("exited")' = In("exited") \ {c}
      /\ Accepted' = Accepted
  BY <1>1, <1>2 DEF In, Accepted
<1>5. \A d \in Clients : endTime'[d] = IF d = c THEN now ELSE endTime[d]
  BY <1>0, <1>1 DEF KeepTypes, ChildState
<1>6. KeepTypes'
  BY <1>0, <1>1 DEF KeepTypes, ChildState
<1>7. ParentInv'
  <2>1. /\ Cardinality(In("waited"))' = Cardinality(In("waited")) + 1
        /\ Cardinality(In("waited"))' <= ClientCount
    <3>1. In("waited") \subseteq Clients /\ In("waited") \cup {c} \subseteq Clients
      BY DEF In
    <3>2. Cardinality(In("waited") \cup {c}) = Cardinality(In("waited")) + 1
      BY <1>3, <3>1, ClientsFinite, FS_AddElement
    <3>3. Cardinality(In("waited") \cup {c}) <= ClientCount
      BY <3>1, ClientsFinite
    <3> QED
      BY <1>4, <3>2, <3>3
  <2>2. exitCount' = Cardinality(In("waited"))' /\ exitCount' <= ClientCount
    BY <1>0, <1>1, <2>1 DEF ParentInv
  <2>3. kpc' = "wait" => exitCount' < ClientCount
    BY <1>0, <1>1, <2>2, KeepAssumption DEF KeepTypes, ChildState
  <2>4. \A d \in Clients : child'[d] # "none" => startTime'[d] = 0
    BY <1>0, <1>1, <1>2 DEF ParentInv
  <2>5. \A d \in Clients : endTime'[d] = -1 <=> child'[d] # "waited"
    BY <1>0, <1>2, <1>5 DEF ParentInv, KeepTypes, ChildState
  <2> QED
    BY <1>0, <1>1, <1>4, <2>2, <2>3, <2>4, <2>5 DEF ParentInv
<1>8. ~listening' => DarkInv'
  BY <1>1, <1>4, <1>5 DEF KeepInv, DarkInv, In
<1>9. listening' => ServedInv'
  <2> SUFFICES ASSUME listening PROVE ServedInv'
    BY <1>1
  <2>0. ServedInv
    BY DEF KeepInv
  <2>1. \A d \in In("waited")' : /\ endTime'[d] = since'[d] + KeepAliveTimeout
                                 /\ endTime'[d] <= now'
    <3>1. ASSUME NEW d \in In("waited")'
          PROVE  endTime'[d] = since'[d] + KeepAliveTimeout /\ endTime'[d] <= now'
      <4>1. CASE d = c
        BY <1>0, <1>1, <1>3, <1>5, <2>0, <4>1 DEF ServedInv, KeepTypes, ChildState
      <4>2. CASE d # c
        <5>1. d \in In("waited") /\ d \in Clients
          BY <1>4, <3>1, <4>2 DEF In
        <5> QED
          BY <1>1, <1>5, <2>0, <4>2, <5>1 DEF ServedInv
      <4> QED
        BY <4>1, <4>2
    <3> QED
      BY <3>1
  <2> QED
    BY <1>1, <1>4, <2>0, <2>1 DEF ServedInv
<1>10. listening' => WaveInv'
  <2> SUFFICES ASSUME listening PROVE WaveInv'
    BY <1>1
  <2>0. WaveInv
    BY DEF KeepInv
  <2>1. \A n : Before(n)' = Before(n)
    BY <1>1, <1>4 DEF Before
  <2>2. OnTime'
    BY <1>1, <1>3, <2>0 DEF WaveInv, OnTime
  <2> QED
    BY <1>1, <2>0, <2>1, <2>2 DEF WaveInv
<1> QED
  BY <1>6, <1>7, <1>8, <1>9, <1>10 DEF KeepInv

\* When a wave ends, those it served are as many as the server has processes,
\* or nobody is left.
LEMMA WaveEnds ==
  ASSUME KeepInv, listening, Settled, NEW n \in Nat, now + 1 = Begin(n + 1)
  PROVE  Cardinality(Before(n + 1)) = Served(n + 1)
<1>0. KeepTypes /\ ParentInv /\ ServedInv /\ WaveInv /\ In("none") = {}
  BY DEF KeepInv, ParentInv, Settled
<1>1. now \in Nat /\ since \in [Clients -> Nat] /\ KeepAliveTimeout \in Nat \ {0}
      /\ Begin(n) \in Nat /\ Begin(n) + KeepAliveTimeout = now + 1
  BY <1>0, BeginNext, KeepAssumption DEF KeepTypes, ChildState
<1>2. Accepted \subseteq Clients /\ In("served") \subseteq Accepted
  BY DEF Accepted, In
<1>3. \A c \in In("served") : since[c] >= Begin(n) /\ since[c] < Begin(n + 1)
  <2> SUFFICES ASSUME NEW c \in In("served")
               PROVE  since[c] >= Begin(n) /\ since[c] < Begin(n + 1)
    OBVIOUS
  <2>1. c \in Clients /\ child[c] = "served" /\ since[c] \in Nat
    BY <1>1 DEF In
  <2>2. since[c] <= now /\ now <= since[c] + KeepAliveTimeout
    BY <1>0 DEF ServedInv
  <2>3. now # since[c] + KeepAliveTimeout
    BY <2>1 DEF Settled, TimedOut
  <2> QED
    BY <1>1, <2>1, <2>2, <2>3
<1>4. \A c \in Accepted \ In("served") : since[c] < Begin(n)
  <2> SUFFICES ASSUME NEW c \in In("waited") PROVE since[c] < Begin(n)
    BY DEF Accepted, Settled
  <2>1. since[c] \in Nat
    BY <1>1 DEF In
  <2>2. since[c] + KeepAliveTimeout <= now
    BY <1>0 DEF ServedInv
  <2> QED
    BY <1>1, <2>1, <2>2
<1>5. Before(n + 1) = Before(n) \cup In("served") /\ Before(n) \cap In("served") = {}
  <2>1. \A c \in Accepted : since[c] \in Nat
    BY <1>1, <1>2
  <2>2. \A c \in Accepted : since[c] < Begin(n) => since[c] < Begin(n + 1)
    BY <1>1, <2>1
  <2>3. \A c \in Accepted : c \in In("served") => ~(since[c] < Begin(n))
    BY <1>1, <1>3, <2>1
  <2> QED
    BY <1>2, <1>3, <1>4, <2>2, <2>3 DEF Before
<1>6. Before(n) \subseteq Clients
  BY <1>2 DEF Before
<1>7. /\ Cardinality(Before(n + 1)) = Cardinality(Before(n)) + Cardinality(In("served"))
      /\ Cardinality(Before(n)) \in Nat /\ Cardinality(In("served")) \in Nat
      /\ Cardinality(Before(n + 1)) <= ClientCount
  <2>1. /\ IsFiniteSet(Before(n)) /\ IsFiniteSet(In("served"))
        /\ Cardinality(Before(n)) \in Nat /\ Cardinality(In("served")) \in Nat
    BY <1>2, <1>6, ClientsFinite
  <2>2. Cardinality(Before(n) \cup In("served"))
          = Cardinality(Before(n)) + Cardinality(In("served"))
            - Cardinality(Before(n) \cap In("served"))
    BY <2>1, FS_Union
  <2>3. Cardinality(Before(n) \cap In("served")) = 0
    BY <1>5, FS_EmptySet
  <2>4. Before(n + 1) \subseteq Clients
    BY <1>2, <1>5, <1>6
  <2>5. Cardinality(Before(n + 1)) <= ClientCount
    BY <2>4, ClientsFinite
  <2> QED
    BY <1>5, <2>1, <2>2, <2>3, <2>5
<1>8. Cardinality(Before(n)) = Served(n)
  BY <1>0, <1>1 DEF WaveInv
<1>9. Cardinality(In("served")) <= MaxClients
  BY <1>0 DEF ServedInv
<1>10. /\ Room(n) \in Nat /\ Room(n + 1) = Room(n) + MaxClients
       /\ MaxClients \in Nat \ {0} /\ ClientCount \in Nat
  BY BeginNext, KeepAssumption
<1>11. CASE In("queued") = {}
  <2>1. Before(n + 1) = Clients
    <3>1. Clients \subseteq Accepted
      BY <1>0, <1>11 DEF KeepTypes, ChildState, Accepted, In, Settled
    <3>2. \A c \in Accepted : since[c] < Begin(n + 1)
      <4>1. \A c \in Accepted : since[c] \in Nat
        BY <1>1, <1>2
      <4>2. \A c \in Accepted : since[c] < Begin(n) => since[c] < Begin(n + 1)
        BY <1>1, <4>1
      <4> QED
        BY <1>3, <1>4, <4>2
    <3> QED
      BY <1>2, <3>1, <3>2 DEF Before
  <2>2. Cardinality(Before(n + 1)) = ClientCount
    BY <2>1, ClientsFinite
  <2> QED
    BY <1>7, <1>8, <1>9, <1>10, <2>2 DEF Served
<1>12. CASE In("queued") # {}
  <2>1. Cardinality(In("served")) = MaxClients
    BY <1>12 DEF Settled
  <2> QED
    BY <1>7, <1>8, <1>10, <2>1 DEF Served
<1> QED
  BY <1>11, <1>12

LEMMA TickStep ==
  ASSUME KeepInv, Tick
  PROVE  KeepInv'
<1>0. KeepTypes /\ ParentInv
  BY DEF KeepInv
<1>1. /\ Settled /\ now' = now + 1
      /\ UNCHANGED <<listening, kpc, child, since, startTime, endTime, exitCount>>
  BY DEF Tick
<1>2. /\ kpc = "wait" /\ In("none") = {} /\ In("started") = {} /\ In("exited") = {}
      /\ In("queued") # {} => Cardinality(In("served")) = MaxClients
  BY <1>0, <1>1 DEF Settled, ParentInv
<1>3. \A st : In(st)' = In(st)
  BY <1>1 DEF In
<1>4. listening
  <2> SUFFICES ASSUME ~listening PROVE FALSE
    OBVIOUS
  <2>1. In("waited") = Clients
    BY <1>0, <1>2 DEF KeepInv, DarkInv, KeepTypes, ChildState, In
  <2>2. exitCount = ClientCount
    BY <1>0, <2>1, ClientsFinite DEF ParentInv
  <2> QED
    BY <1>0, <1>2, <2>2, KeepAssumption DEF ParentInv
<1>5. ServedInv /\ WaveInv
  BY <1>4 DEF KeepInv
<1>6. KeepTypes'
  BY <1>0, <1>1 DEF KeepTypes, ChildState
<1>7. ParentInv'
  BY <1>0, <1>1, <1>2, <1>3 DEF ParentInv
<1>8. ServedInv'
  <2>1. ASSUME NEW c \in In("served")
        PROVE  since[c] <= now + 1 /\ now + 1 <= since[c] + KeepAliveTimeout
    <3>1. c \in Clients /\ child[c] = "served" /\ since[c] \in Nat
      BY <1>0 DEF In, KeepTypes, ChildState
    <3>2. now # since[c] + KeepAliveTimeout
      BY <1>1, <3>1 DEF Settled, TimedOut
    <3>3. since[c] <= now /\ now <= since[c] + KeepAliveTimeout
      BY <1>5 DEF ServedInv
    <3> QED
      BY <1>0, <3>1, <3>2, <3>3, KeepAssumption DEF KeepTypes, ChildState
  <2>2. ASSUME NEW c \in In("waited")
        PROVE  endTime[c] = since[c] + KeepAliveTimeout /\ endTime[c] <= now + 1
    <3>1. endTime[c] \in Int /\ now \in Nat
      BY <1>0 DEF In, KeepTypes, ChildState
    <3> QED
      BY <1>5, <3>1 DEF ServedInv
  <2>3. Accepted' = Accepted
    BY <1>3 DEF Accepted
  <2> QED
    BY <1>1, <1>2, <1>3, <1>5, <2>1, <2>2, <2>3 DEF ServedInv
<1>9. WaveInv'
  <2>1. \A n : Before(n)' = Before(n)
    BY <1>1, <1>3 DEF Before, Accepted
  <2>2. ASSUME NEW n \in Nat, Begin(n) <= now + 1
        PROVE  Cardinality(Before(n)) = Served(n)
    <3>1. Begin(n) \in Nat /\ now \in Nat
      BY <1>0, BeginNext DEF KeepTypes, ChildState
    <3>2. CASE Begin(n) <= now
      BY <1>5, <3>2 DEF WaveInv
    <3>3. CASE Begin(n) = now + 1
      <4>1. n # 0
        BY <3>1, <3>3, BeginNext
      <4>2. n - 1 \in Nat /\ (n - 1) + 1 = n
        BY <4>1
      <4> QED
        BY <1>1, <1>4, <3>3, <4>2, WaveEnds
    <3> QED
      BY <2>2, <3>1, <3>2, <3>3
  <2> QED
    BY <1>1, <1>2, <1>3, <2>1, <2>2 DEF WaveInv
<1> QED
  BY <1>1, <1>4, <1>6, <1>7, <1>8, <1>9 DEF KeepInv

LEMMA KeepStutter ==
  ASSUME KeepInv, UNCHANGED keepVars
  PROVE  KeepInv'
<1>1. UNCHANGED <<listening, kpc, child, since, startTime, endTime, exitCount, now>>
  BY DEF keepVars
<1>2. \A st : In(st)' = In(st)
  BY <1>1 DEF In
<1>3. Accepted' = Accepted /\ OnTime' = OnTime /\ \A n : Before(n)' = Before(n)
  BY <1>1, <1>2 DEF Accepted, OnTime, Before
<1> QED
  BY <1>1, <1>2, <1>3 DEF KeepInv, KeepTypes, ChildState, ParentInv, DarkInv, ServedInv, WaveInv

-----------------------------------------------------------------------------
(* What the parent finds when all its children have ended.                 *)

LEMMA AllWaited ==
  ASSUME KeepInv, kpc = "sort"
  PROVE  /\ In("waited") = Clients /\ Accepted = Clients
         /\ \A c \in Clients : startTime[c] = 0 /\ endTime[c] # -1
<1>1. In("waited") \subseteq Clients
  BY DEF In
<1>2. In("waited") = Clients
  BY <1>1, ClientsFinite DEF KeepInv, ParentInv
<1>3. Accepted = Clients
  BY <1>2 DEF Accepted, In
<1>4. \A c \in Clients : child[c] = "waited"
  BY <1>2 DEF In
<1> QED
  BY <1>2, <1>3, <1>4 DEF KeepInv, ParentInv

\* All the waves there are, those that never began included.
LEMMA WavesServe ==
  ASSUME KeepInv, listening, kpc = "sort", NEW n \in Nat
  PROVE  Cardinality(Before(n)) = Served(n)
<1>0. KeepTypes /\ ServedInv /\ WaveInv /\ Accepted = Clients /\ In("waited") = Clients
  BY AllWaited DEF KeepInv
<1>1. PICK w \in Nat : now = Begin(w)
  BY <1>0 DEF WaveInv, OnTime
<1>2. CASE n <= w
  BY <1>0, <1>1, <1>2, BeginOrder DEF WaveInv
<1>3. CASE w < n
  <2>0. w <= n
    BY <1>3
  <2>1. \A c \in Clients : since[c] < Begin(w) /\ since[c] < Begin(n)
    <3>1. ASSUME NEW c \in Clients PROVE since[c] < Begin(w) /\ since[c] < Begin(n)
      <4>1. since[c] \in Nat /\ since[c] + KeepAliveTimeout <= now
        BY <1>0 DEF ServedInv, KeepTypes, ChildState
      <4>2. Begin(w) <= Begin(n) /\ Begin(n) \in Nat /\ Begin(w) \in Nat
        BY <2>0, BeginOrder, BeginNext
      <4> QED
        BY <1>1, <4>1, <4>2, KeepAssumption
    <3> QED
      BY <3>1
  <2>2. Before(w) = Clients /\ Before(n) = Clients
    BY <1>0, <2>1 DEF Before
  <2>3. Served(w) = ClientCount /\ Cardinality(Before(n)) = ClientCount
    <3>1. Begin(w) <= now
      BY <1>1, BeginNext
    <3> QED
      BY <1>0, <2>2, <3>1, ClientsFinite DEF WaveInv
  <2>4. Room(w) <= Room(n) /\ Room(w) \in Nat /\ Room(n) \in Nat /\ ClientCount \in Nat
    BY <2>0, BeginOrder, BeginNext, KeepAssumption
  <2>5. Served(n) = ClientCount
    BY <2>3, <2>4 DEF Served
  <2> QED
    BY <2>3, <2>5
<1> QED
  BY <1>2, <1>3

LEMMA WavesEnd ==
  ASSUME KeepInv, listening, kpc = "sort", NEW n \in Nat
  PROVE  Cardinality(Ended(n + 1)) = Served(n + 1) - Served(n)
<1>0. KeepTypes /\ ServedInv /\ Accepted = Clients /\ In("waited") = Clients
  BY AllWaited DEF KeepInv
<1>1. /\ Begin(n) \in Nat /\ Begin(n + 1) = Begin(n) + KeepAliveTimeout
      /\ n + 1 \in Nat /\ KeepAliveTimeout \in Nat \ {0}
  BY BeginNext, KeepAssumption
<1>2. ASSUME NEW c \in Clients
      PROVE  /\ c \in Ended(n + 1) <=> since[c] = Begin(n)
             /\ c \in Before(n) <=> since[c] < Begin(n)
             /\ c \in Before(n + 1) <=> since[c] < Begin(n) \/ since[c] = Begin(n)
  <2>1. PICK m \in Nat : since[c] = Begin(m)
    BY <1>0 DEF ServedInv
  <2>2. since[c] \in Nat /\ endTime[c] = since[c] + KeepAliveTimeout
    BY <1>0 DEF ServedInv, KeepTypes, ChildState
  <2>3. startTime[c] = 0 /\ endTime[c] # -1
    BY AllWaited
  <2>4. c \in Ended(n + 1) <=> since[c] = Begin(n)
    <3>1. c \in Ended(n + 1) <=> endTime[c] - 0 = Begin(n + 1)
      BY <2>3 DEF Ended, Took, Begin
    <3> QED
      BY <1>1, <2>2, <3>1
  <2>5. since[c] < Begin(n + 1) => since[c] < Begin(n) \/ since[c] = Begin(n)
    <3> SUFFICES ASSUME Begin(m) < Begin(n + 1)
                 PROVE  Begin(m) < Begin(n) \/ Begin(m) = Begin(n)
      BY <2>1
    <3>1. m < n + 1
      BY <1>1, BeginOrder
    <3>2. m < n \/ m = n
      BY <3>1
    <3>3. Begin(m) \in Nat
      BY BeginNext
    <3>4. m < n => Begin(m) < Begin(n)
      BY <1>1, <3>3, BeginOrder
    <3> QED
      BY <3>2, <3>4
  <2>6. since[c] < Begin(n) \/ since[c] = Begin(n) => since[c] < Begin(n + 1)
    BY <1>1, <2>2
  <2> QED
    BY <1>0, <2>4, <2>5, <2>6 DEF Before
<1>3. Ended(n + 1) \subseteq Clients /\ Before(n) \subseteq Clients
      /\ Before(n + 1) \subseteq Clients
  BY <1>0 DEF Ended, Before
<1>4. Before(n + 1) = Before(n) \cup Ended(n + 1) /\ Before(n) \cap Ended(n + 1) = {}
  <2>1. \A c \in Clients : since[c] = Begin(n) => ~(since[c] < Begin(n))
    BY <1>1
  <2> QED
    BY <1>2, <1>3, <2>1
<1>5. Cardinality(Before(n + 1)) = Cardinality(Before(n)) + Cardinality(Ended(n + 1))
  <2>1. /\ IsFiniteSet(Before(n)) /\ IsFiniteSet(Ended(n + 1))
        /\ Cardinality(Before(n)) \in Nat /\ Cardinality(Ended(n + 1)) \in Nat
    BY <1>3, ClientsFinite
  <2>2. Cardinality(Before(n) \cup Ended(n + 1))
          = Cardinality(Before(n)) + Cardinality(Ended(n + 1))
            - Cardinality(Before(n) \cap Ended(n + 1))
    BY <2>1, FS_Union
  <2>3. Cardinality(Before(n) \cap Ended(n + 1)) = 0
    BY <1>4, FS_EmptySet
  <2>4. Cardinality(Before(n + 1)) = Cardinality(Before(n) \cup Ended(n + 1))
    BY <1>4
  <2> QED
    BY <2>1, <2>2, <2>3, <2>4
<1>6. Cardinality(Before(n)) = Served(n) /\ Cardinality(Before(n + 1)) = Served(n + 1)
  BY <1>1, WavesServe
<1>7. Cardinality(Ended(n + 1)) \in Nat /\ Served(n) \in Nat
  BY <1>3, ClientsFinite, ServedNext
<1> QED
  BY <1>5, <1>6, <1>7

\* The clients of the keep-alive test end in waves one timeout apart, as many
\* in each as the server has processes and the rest in the last, whichever
\* connections the server takes first; without a server they end at once.
THEOREM WavesSeen == KeepSpec => []KeepAliveWaves
<1>1. KeepInit => KeepInv
  BY KeepInitInv
<1>2. KeepInv /\ [KeepNext]_keepVars => KeepInv'
  BY ForkChildStep, ConnectChildStep, TakeConnectionStep, ReadToEofStep, WaitChildStep, TickStep, KeepStutter
  DEF KeepNext
<1>3. KeepInv => KeepAliveWaves
  <2> SUFFICES ASSUME KeepInv, kpc = "sort"
               PROVE  IF listening
                      THEN \A n \in 1..ClientCount :
                              LET left == ClientCount - (n - 1) * MaxClients
                              IN Cardinality(Ended(n)) =
                                   IF left <= 0 THEN 0
                                   ELSE IF left < MaxClients THEN left ELSE MaxClients
                      ELSE Ended(0) = Clients
    BY DEF KeepAliveWaves
  <2>1. CASE ~listening
    <3>1. \A c \in Clients : Took(c) = 0 /\ endTime[c] # -1
      BY <2>1, AllWaited DEF KeepInv, DarkInv, Took
    <3>2. 0 * KeepAliveTimeout = 0
      BY KeepAssumption
    <3> QED
      BY <2>1, <3>1, <3>2 DEF Ended
  <2>2. ASSUME listening, NEW n \in 1..ClientCount
        PROVE  LET left == ClientCount - (n - 1) * MaxClients
               IN Cardinality(Ended(n)) =
                    IF left <= 0 THEN 0
                    ELSE IF left < MaxClients THEN left ELSE MaxClients
    <3>1. n - 1 \in Nat /\ (n - 1) + 1 = n
      BY KeepAssumption
    <3>2. Cardinality(Ended(n)) = Served(n) - Served(n - 1)
      BY <2>2, <3>1, WavesEnd
    <3>3. /\ Room(n - 1) \in Nat /\ Room(n) = Room(n - 1) + MaxClients
          /\ MaxClients \in Nat /\ ClientCount \in Nat
      BY <3>1, BeginNext, KeepAssumption
    <3>4. Served(n) - Served(n - 1) =
            IF ClientCount - Room(n - 1) <= 0 THEN 0
            ELSE IF ClientCount - Room(n - 1) < MaxClients
                 THEN ClientCount - Room(n - 1) ELSE MaxClients
      BY <3>3 DEF Served
    <3>5. Room(n - 1) = (n - 1) * MaxClients
      BY DEF Room
    <3> QED
      BY <3>2, <3>4, <3>5
  <2> QED
    BY <2>1, <2>2
<1> QED
  BY <1>1, <1>2, <1>3, PTL DEF KeepSpec
=============================================================================
