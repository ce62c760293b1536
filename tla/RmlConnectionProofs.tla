------------------------ MODULE RmlConnectionProofs ------------------------
(***************************************************************************)
(* Theorems about RmlConnection: for any number of threads, any requests   *)
(* they make and any sector size.                                          *)
(***************************************************************************)
EXTENDS RmlConnection, SequenceTheorems, TLAPS

-----------------------------------------------------------------------------
(***************************************************************************)
(* The stream to the server.  The request that the header u carries, the   *)
(* headers of a stream, and the place where the message ends that begins   *)
(* at i, payload included.                                                 *)
(***************************************************************************)
Req(u) == [op |-> u.op, offset |-> u.offset, length |-> u.n]

Heads(s) == {i \in 1 .. Len(s) : s[i].kind = "head"}

\* Data, no header.
AllBytes(s) == \A i \in 1 .. Len(s) : s[i].kind = "byte"

Ends(s, i) == i + Len(Payload(Req(s[i])))

\* The payload that the server is about to receive.
Front == IF server = "payload" THEN Payload(serving) ELSE <<>>

(***************************************************************************)
(* Whatever the server finds in a stream s, of which it is about to        *)
(* receive f as payload, is in its place: behind a header comes its own    *)
(* payload, before payload its own header; what is missing is at the end,  *)
(* and a thread is about to send it.                                       *)
(***************************************************************************)
FrontInPlace(s, f) == \A i \in 1 .. Len(s) : i <= Len(f) => s[i] = f[i]

PayloadInPlace(s) ==
    \A i \in Heads(s) : \A j \in 1 .. Len(Payload(Req(s[i]))) :
      i + j <= Len(s) => s[i + j] = Payload(Req(s[i]))[j]

Covered(s, f) ==
    \A i \in 1 .. Len(s) :
      \/ i \in Heads(s)
      \/ i <= Len(f)
      \/ \E h \in Heads(s) : h < i /\ i <= Ends(s, h)

Owes(t, r) == client[t] = "payload" /\ request[t] = r

OnlyLastOpen ==
    /\ Len(Front) <= Len(toServer) \/ (toServer = <<>> /\ \E t \in Threads : Owes(t, serving))
    /\ \A i \in Heads(toServer) :
         \/ Ends(toServer, i) <= Len(toServer)
         \/ i = Len(toServer) /\ \E t \in Threads : Owes(t, Req(toServer[i]))

PayloadOwed ==
    \A t \in Threads : client[t] = "payload" =>
      /\ Payload(request[t]) # <<>>
      /\ \A u \in Threads : client[u] = "payload" => u = t
      /\ \/ toServer # <<>> /\ Len(toServer) \in Heads(toServer)
              /\ Req(toServer[Len(toServer)]) = request[t]
         \/ toServer = <<>> /\ server = "payload" /\ serving = request[t]

Steady ==
    /\ server \in {"header", "payload"}
    /\ server = "payload" => Payload(serving) # <<>>
    /\ FrontInPlace(toServer, Front) /\ PayloadInPlace(toServer) /\ Covered(toServer, Front)
    /\ OnlyLastOpen /\ PayloadOwed

InStep == ~split => Steady

-----------------------------------------------------------------------------
(***************************************************************************)
(* The stream to the threads.  Requests that the server has complete and   *)
(* has not answered; while no two threads got in each other's way there is *)
(* at most one, that of the thread that receives.                          *)
(***************************************************************************)
Whole(s) == {i \in Heads(s) : Ends(s, i) <= Len(s)}

FrontWhole == server = "payload" /\ Len(Front) <= Len(toServer)

Unanswered(r) ==
    \/ FrontWhole /\ serving = r /\ Whole(toServer) = {}
    \/ ~FrontWhole /\ \E i \in Heads(toServer) : Whole(toServer) = {i} /\ Req(toServer[i]) = r

AllAnswered == ~FrontWhole /\ Whole(toServer) = {}

\* The reply to r, behind what a BLOCK_READ left.
ReplyThere(s, r) ==
    \E k \in 0 .. Len(s) :
      /\ Len(s) = k + Len(Reply(r))
      /\ \A i \in 1 .. k : s[i].kind = "byte"
      /\ \A i \in 1 .. Len(Reply(r)) : s[k + i] = Reply(r)[i]

\* What thread t has received and what is still to come are the body of its reply.
BodyThere(t) ==
    /\ header[t] = HeaderUnit(request[t].op, request[t].offset, Announced(request[t]))
    /\ Len(body[t]) + Len(toClient) = Len(Body(request[t]))
    /\ \A i \in 1 .. Len(body[t]) : body[t][i] = Body(request[t])[i]
    /\ \A i \in 1 .. Len(toClient) : toClient[i] = Body(request[t])[Len(body[t]) + i]

Receiving == {t \in Threads : client[t] \in {"header", "body"}}

Calm == ~split /\ ~mixed /\ \A t \in Threads : client[t] # "raised"

Alone ==
    ~mixed => \A t \in Receiving : ~OtherIn(t, {"header", "body", "raised"})

InPair(t) ==
    /\ client[t] = "payload" => body[t] = <<>>
    /\ client[t] = "header" =>
         /\ body[t] = <<>>
         /\ \/ Unanswered(request[t]) /\ AllBytes(toClient)
            \/ AllAnswered /\ ReplyThere(toClient, request[t])
    /\ client[t] = "body" => AllAnswered /\ BodyThere(t)

Matched ==
    Calm =>
      /\ Receiving = {} => AllAnswered /\ AllBytes(toClient)
      /\ \A t \in Threads : InPair(t)

-----------------------------------------------------------------------------
\* Messages and their lengths.

HeadUnits == [kind : {"head"}, op : Operations, offset : Nat, n : Nat]

ByteUnits == [kind : {"byte"}, op : Operations, offset : Nat, n : {0}]

Units == HeadUnits \cup ByteUnits

LEMMA RunOfBytes ==
  ASSUME NEW op \in Operations, NEW offset \in Nat, NEW n \in Nat,
         NEW s, s = Bytes(op, offset, n)
  PROVE  s \in Seq(Units) /\ Len(s) = n /\ AllBytes(s)
<1>1. \A i \in 1 .. n : Byte(op, offset + i - 1) \in ByteUnits
  BY DEF Byte, ByteUnits
<1>2. s = [i \in 1 .. n |-> Byte(op, offset + i - 1)]
  BY DEF Bytes
<1>3. s \in Seq(ByteUnits) /\ Len(s) = n /\ \A i \in 1 .. n : s[i] \in ByteUnits
  BY <1>1, <1>2
<1> QED
  BY <1>3 DEF Units, ByteUnits, AllBytes

LEMMA BytesInSectors ==
  ASSUME NEW n \in Nat
  PROVE  n * SectorBytes \in Nat
  BY SectorAssumption, Z3

LEMMA NoUnits == <<>> \in Seq(Units) /\ Len(<<>>) = 0 /\ AllBytes(<<>>)
  BY DEF AllBytes

LEMMA PayloadShape ==
  ASSUME NEW r \in Request
  PROVE  Payload(r) \in Seq(Units) /\ AllBytes(Payload(r))
<1>1. r.op \in Operations /\ r.offset \in Nat /\ r.length \in Nat
  BY DEF Request
<1>2. CASE r.op = "WRITE"
  <2>1. PICK s : s = Bytes(r.op, r.offset, r.length)
    OBVIOUS
  <2>2. Payload(r) = s
    BY <1>2, <2>1 DEF Payload
  <2>3. s \in Seq(Units) /\ AllBytes(s)
    BY <1>1, <2>1, RunOfBytes
  <2> QED
    BY <2>2, <2>3
<1>3. CASE r.op = "BLOCK_WRITE"
  <2>1. PICK m \in Nat, n \in Nat : m = r.offset * SectorBytes /\ n = r.length * SectorBytes
    BY <1>1, BytesInSectors
  <2>2. PICK s : s = Bytes(r.op, m, n)
    OBVIOUS
  <2>3. Payload(r) = s
    BY <1>3, <2>1, <2>2 DEF Payload
  <2>4. s \in Seq(Units) /\ AllBytes(s)
    BY <1>1, <2>2, RunOfBytes
  <2> QED
    BY <2>3, <2>4
<1>4. CASE r.op \notin {"WRITE", "BLOCK_WRITE"}
  <2>1. Payload(r) = <<>>
    BY <1>4 DEF Payload
  <2> QED
    BY <2>1, NoUnits
<1> QED
  BY <1>2, <1>3, <1>4

\* Both sides count the bytes of a payload alike.
LEMMA ExpectedIsPayload ==
  ASSUME NEW r \in Request
  PROVE  Expected(r) = Len(Payload(r)) /\ (AnsweredAtOnce(r) <=> Payload(r) = <<>>)
<1>1. r.op \in Operations /\ r.offset \in Nat /\ r.length \in Nat
  BY DEF Request
<1>2. Expected(r) = Len(Payload(r))
  <2>1. CASE r.op = "WRITE"
    <3>1. PICK s : s = Bytes(r.op, r.offset, r.length)
      OBVIOUS
    <3>2. Payload(r) = s /\ Expected(r) = r.length
      BY <2>1, <3>1 DEF Payload, Expected
    <3> QED
      BY <1>1, <3>1, <3>2, RunOfBytes
  <2>2. CASE r.op = "BLOCK_WRITE"
    <3>1. PICK m \in Nat, n \in Nat : m = r.offset * SectorBytes /\ n = r.length * SectorBytes
      BY <1>1, BytesInSectors
    <3>2. PICK s : s = Bytes(r.op, m, n)
      OBVIOUS
    <3>3. Payload(r) = s /\ Expected(r) = n
      BY <2>2, <3>1, <3>2 DEF Payload, Expected
    <3> QED
      BY <1>1, <3>2, <3>3, RunOfBytes
  <2>3. CASE r.op \notin {"WRITE", "BLOCK_WRITE"}
    <3>1. Payload(r) = <<>> /\ Expected(r) = 0
      BY <2>3 DEF Payload, Expected
    <3> QED
      BY <3>1, NoUnits
  <2> QED
    BY <2>1, <2>2, <2>3
<1>3. Payload(r) \in Seq(Units)
  BY PayloadShape
<1> QED
  BY <1>2, <1>3, NoUnits DEF AnsweredAtOnce

LEMMA BodyShape ==
  ASSUME NEW r \in Request
  PROVE  /\ Body(r) \in Seq(Units)
         /\ AllBytes(Body(r))
         /\ Announced(r) \in Nat
         /\ r.op \in Plain => Len(Body(r)) = Announced(r)
<1>1. r.op \in Operations /\ r.offset \in Nat /\ r.length \in Nat
  BY DEF Request
<1>2. CASE r.op \in {"RELEASE", "KEEPALIVE"}
  <2>1. Body(r) = <<>> /\ Announced(r) = 0
    BY <1>2 DEF Body, Announced
  <2> QED
    BY <2>1, NoUnits
<1>3. CASE r.op \in {"WRITE", "BLOCK_WRITE"}
  <2>1. Body(r) = <<>> /\ Announced(r) = r.length
    BY <1>3 DEF Body, Announced
  <2> QED
    BY <1>1, <1>3, <2>1, NoUnits DEF Plain
<1>4. CASE r.op \in {"INFO", "PING", "BORROW", "BLOCK_INFO"}
  <2>1. PICK n \in Nat : n = 1
    OBVIOUS
  <2>2. PICK s : s = Bytes(r.op, r.offset, n)
    OBVIOUS
  <2>3. Body(r) = s /\ Announced(r) = n
    BY <1>4, <2>1, <2>2 DEF Body, Announced
  <2>4. s \in Seq(Units) /\ Len(s) = n /\ AllBytes(s)
    BY <1>1, <2>2, RunOfBytes
  <2> QED
    BY <2>3, <2>4
<1>5. CASE r.op = "READ"
  <2>1. PICK s : s = Bytes(r.op, r.offset, r.length)
    OBVIOUS
  <2>2. Body(r) = s /\ Announced(r) = r.length
    BY <1>5, <2>1 DEF Body, Announced
  <2>3. s \in Seq(Units) /\ Len(s) = r.length /\ AllBytes(s)
    BY <1>1, <2>1, RunOfBytes
  <2> QED
    BY <2>2, <2>3
<1>6. CASE r.op = "BLOCK_READ"
  <2>1. PICK m \in Nat, n \in Nat : m = r.offset * SectorBytes /\ n = r.length * SectorBytes
    BY <1>1, BytesInSectors
  <2>2. PICK s : s = Bytes(r.op, m, n)
    OBVIOUS
  <2>3. Body(r) = s /\ Announced(r) = r.length
    BY <1>6, <2>1, <2>2 DEF Body, Announced
  <2>4. r.op \notin Plain
    BY <1>6 DEF Plain
  <2>5. s \in Seq(Units) /\ AllBytes(s)
    BY <1>1, <2>2, <2>4, RunOfBytes
  <2> QED
    BY <1>1, <2>3, <2>4, <2>5
<1> QED
  BY <1>1, <1>2, <1>3, <1>4, <1>5, <1>6 DEF Operations

\* The header of a reply, and of a request.
LEMMA HeaderShape ==
  ASSUME NEW r \in Request
  PROVE  /\ HeaderUnit(r.op, r.offset, Announced(r)) \in HeadUnits
         /\ HeaderUnit(r.op, r.offset, r.length) \in HeadUnits
         /\ Req(HeaderUnit(r.op, r.offset, r.length)) = r
  BY BodyShape DEF HeaderUnit, HeadUnits, Request, Req

LEMMA ReqShape ==
  ASSUME NEW u \in Units, u.kind = "head"
  PROVE  u \in HeadUnits /\ Req(u) \in Request
  BY DEF Units, HeadUnits, ByteUnits, Req, Request

LEMMA ReplyShape ==
  ASSUME NEW r \in Request
  PROVE  /\ Reply(r) \in Seq(Units) /\ Len(Reply(r)) = 1 + Len(Body(r))
         /\ Reply(r)[1] = HeaderUnit(r.op, r.offset, Announced(r))
         /\ \A i \in 1 .. Len(Body(r)) : Reply(r)[1 + i] = Body(r)[i]
<1>1. PICK h : h = HeaderUnit(r.op, r.offset, Announced(r))
  OBVIOUS
<1>2. PICK b : b = Body(r)
  OBVIOUS
<1>3. /\ <<h>> \in Seq(Units) /\ Len(<<h>>) = 1 /\ <<h>>[1] = h
      /\ b \in Seq(Units) /\ Len(b) \in Nat
  BY <1>1, <1>2, HeaderShape, BodyShape DEF Units
<1>4. /\ <<h>> \o b \in Seq(Units) /\ Len(<<h>> \o b) = Len(<<h>>) + Len(b)
      /\ \A i \in 1 .. Len(<<h>>) + Len(b) :
           (<<h>> \o b)[i] = IF i <= Len(<<h>>) THEN <<h>>[i] ELSE b[i - Len(<<h>>)]
  BY <1>3, ConcatProperties
<1>5. PICK s : s = <<h>> \o b
  OBVIOUS
<1>6. ASSUME NEW i \in 1 .. Len(b)
      PROVE  s[1 + i] = b[i]
  <2>1. 1 + i \in 1 .. Len(<<h>>) + Len(b) /\ ~(1 + i <= Len(<<h>>)) /\ 1 + i - Len(<<h>>) = i
    BY <1>3
  <2> QED
    BY <1>4, <1>5, <2>1
<1>7. s[1] = h /\ s \in Seq(Units) /\ Len(s) = 1 + Len(b)
  BY <1>3, <1>4, <1>5
<1>8. s = Reply(r)
  BY <1>1, <1>2, <1>5 DEF Reply
<1> QED
  BY <1>1, <1>2, <1>6, <1>7, <1>8

-----------------------------------------------------------------------------
\* A stream from which k units have been taken, and one that has grown.

Dropped(s, d, k) ==
    /\ s \in Seq(Units) /\ d \in Seq(Units) /\ Len(s) = Len(d) + k
    /\ \A i \in 1 .. Len(d) : d[i] = s[k + i]

Grown(s, x, a) ==
    /\ s \in Seq(Units) /\ x \in Seq(Units) /\ a \in Seq(Units) /\ Len(a) = Len(s) + Len(x)
    /\ \A i \in 1 .. Len(s) : a[i] = s[i]
    /\ \A i \in 1 .. Len(x) : a[Len(s) + i] = x[i]

LEMMA TailDrops ==
  ASSUME NEW s \in Seq(Units), s # <<>>
  PROVE  Dropped(s, Tail(s), 1)
<1>1. Tail(s) \in Seq(Units) /\ Len(Tail(s)) = Len(s) - 1 /\ Len(s) \in Nat
      /\ \A i \in 1 .. Len(Tail(s)) : Tail(s)[i] = s[i + 1]
  BY HeadTailProperties
<1> QED
  BY <1>1 DEF Dropped

LEMMA SubSeqDrops ==
  ASSUME NEW s \in Seq(Units), NEW k \in 0 .. Len(s)
  PROVE  Dropped(s, SubSeq(s, k + 1, Len(s)), k)
<1>1. PICK n \in Nat : n = Len(s)
  OBVIOUS
<1>2. PICK m \in Nat : m = k + 1
  OBVIOUS
<1>3. \A i \in m .. n : s[i] \in Units
  BY <1>1, <1>2
<1>4. /\ SubSeq(s, m, n) \in Seq(Units)
      /\ Len(SubSeq(s, m, n)) = IF m <= n THEN n - m + 1 ELSE 0
      /\ \A i \in 1 .. n - m + 1 : SubSeq(s, m, n)[i] = s[m + i - 1]
  BY <1>3, SubSeqProperties
<1>5. PICK d : d = SubSeq(s, m, n)
  OBVIOUS
<1>6. d \in Seq(Units) /\ Len(d) = n - k /\ \A i \in 1 .. n - k : d[i] = s[k + i]
  <2>1. n - m + 1 = n - k /\ \A i \in 1 .. n - k : m + i - 1 = k + i
    BY <1>1, <1>2
  <2> QED
    BY <1>1, <1>2, <1>4, <1>5, <2>1
<1>7. Dropped(s, d, k)
  BY <1>1, <1>6 DEF Dropped
<1> QED
  BY <1>1, <1>2, <1>5, <1>7

LEMMA ConcatGrows ==
  ASSUME NEW s \in Seq(Units), NEW x \in Seq(Units)
  PROVE  Grown(s, x, s \o x)
<1>1. Len(s) \in Nat /\ Len(x) \in Nat
  OBVIOUS
<1>2. /\ s \o x \in Seq(Units) /\ Len(s \o x) = Len(s) + Len(x)
      /\ \A i \in 1 .. Len(s) + Len(x) :
           (s \o x)[i] = IF i <= Len(s) THEN s[i] ELSE x[i - Len(s)]
  BY ConcatProperties
<1>3. PICK a : a = s \o x
  OBVIOUS
<1>4. ASSUME NEW i \in 1 .. Len(x)
      PROVE  a[Len(s) + i] = x[i]
  <2>1. /\ Len(s) + i \in 1 .. Len(s) + Len(x) /\ ~(Len(s) + i <= Len(s))
        /\ Len(s) + i - Len(s) = i
    BY <1>1
  <2> QED
    BY <1>2, <1>3, <2>1
<1>5. \A i \in 1 .. Len(s) : a[i] = s[i]
  BY <1>1, <1>2, <1>3
<1> QED
  BY <1>2, <1>3, <1>4, <1>5 DEF Grown

LEMMA AppendGrows ==
  ASSUME NEW s \in Seq(Units), NEW u \in Units
  PROVE  Grown(s, <<u>>, Append(s, u))
<1>1. /\ Append(s, u) \in Seq(Units) /\ Len(Append(s, u)) = Len(s) + 1 /\ Len(s) \in Nat
      /\ \A i \in 1 .. Len(s) : Append(s, u)[i] = s[i]
      /\ Append(s, u)[Len(s) + 1] = u
  BY AppendProperties
<1>2. <<u>> \in Seq(Units) /\ Len(<<u>>) = 1 /\ <<u>>[1] = u /\ \A i \in 1 .. 1 : i = 1
  OBVIOUS
<1> QED
  BY <1>1, <1>2 DEF Grown

\* The headers in such a stream, and where their messages end.
LEMMA HeadsNat ==
  ASSUME NEW s \in Seq(Units), NEW i \in Heads(s)
  PROVE  /\ i \in 1 .. Len(s) /\ Len(s) \in Nat /\ s[i] \in HeadUnits /\ Req(s[i]) \in Request
         /\ Payload(Req(s[i])) \in Seq(Units)
         /\ Len(Payload(Req(s[i]))) \in Nat /\ Ends(s, i) \in Nat /\ Ends(s, i) >= i
         /\ Ends(s, i) = i + Len(Payload(Req(s[i])))
<1>1. i \in 1 .. Len(s) /\ Len(s) \in Nat /\ s[i] \in Units /\ s[i].kind = "head"
  BY ElementOfSeq DEF Heads
<1>2. s[i] \in HeadUnits /\ Req(s[i]) \in Request
  BY <1>1, ReqShape
<1>3. Payload(Req(s[i])) \in Seq(Units) /\ Len(Payload(Req(s[i]))) \in Nat
  BY <1>2, PayloadShape
<1> QED
  BY <1>1, <1>2, <1>3 DEF Ends

LEMMA DroppedHeads ==
  ASSUME NEW s, NEW d, NEW k \in Nat, Dropped(s, d, k)
  PROVE  /\ \A i \in Heads(d) : k + i \in Heads(s) /\ Ends(s, k + i) = k + Ends(d, i)
                                /\ Req(d[i]) = Req(s[k + i])
         /\ \A h \in Heads(s) : h > k => h - k \in Heads(d) /\ k + (h - k) = h
<1>1. Len(d) \in Nat /\ Len(s) \in Nat /\ Len(s) = Len(d) + k /\ s \in Seq(Units)
      /\ d \in Seq(Units)
  BY DEF Dropped
<1>2. ASSUME NEW i \in Heads(d)
      PROVE  k + i \in Heads(s) /\ Ends(s, k + i) = k + Ends(d, i) /\ Req(d[i]) = Req(s[k + i])
  <2>1. i \in 1 .. Len(d) /\ d[i].kind = "head" /\ d[i] = s[k + i] /\ k + i \in 1 .. Len(s)
    BY <1>1 DEF Dropped, Heads
  <2>2. k + i \in Heads(s) /\ Req(d[i]) = Req(s[k + i])
    BY <2>1 DEF Heads
  <2>3. PICK n \in Nat : n = Len(Payload(Req(d[i])))
    BY <1>1, HeadsNat
  <2>4. Ends(d, i) = i + n /\ Ends(s, k + i) = (k + i) + n
    BY <2>2, <2>3 DEF Ends
  <2> QED
    BY <2>1, <2>2, <2>4
<1>3. ASSUME NEW h \in Heads(s), h > k
      PROVE  h - k \in Heads(d) /\ k + (h - k) = h
  <2>1. h \in 1 .. Len(s) /\ s[h].kind = "head"
    BY DEF Heads
  <2>2. PICK i \in 1 .. Len(d) : i = h - k /\ k + i = h
    <3>1. h - k \in 1 .. Len(d) /\ k + (h - k) = h
      BY <1>1, <1>3, <2>1
    <3> QED
      BY <3>1
  <2>3. d[i] = s[h]
    BY <2>2 DEF Dropped
  <2> QED
    BY <2>1, <2>2, <2>3 DEF Heads
<1> QED
  BY <1>2, <1>3

LEMMA GrownHeads ==
  ASSUME NEW s, NEW x, NEW a, Grown(s, x, a)
  PROVE  /\ Len(s) \in Nat /\ Len(x) \in Nat /\ Len(a) = Len(s) + Len(x)
         /\ \A i \in Heads(s) : i \in Heads(a) /\ Ends(a, i) = Ends(s, i) /\ a[i] = s[i]
         /\ \A i \in Heads(a) : i <= Len(s) => i \in Heads(s)
<1>1. Len(s) \in Nat /\ Len(x) \in Nat /\ Len(a) = Len(s) + Len(x) /\ a \in Seq(Units)
      /\ s \in Seq(Units)
  BY DEF Grown
<1>2. ASSUME NEW i \in Heads(s)
      PROVE  i \in Heads(a) /\ Ends(a, i) = Ends(s, i) /\ a[i] = s[i]
  <2>1. i \in 1 .. Len(s) /\ s[i].kind = "head" /\ a[i] = s[i] /\ i \in 1 .. Len(a)
    BY <1>1 DEF Grown, Heads
  <2> QED
    BY <2>1 DEF Heads, Ends
<1>3. ASSUME NEW i \in Heads(a), i <= Len(s)
      PROVE  i \in Heads(s)
  <2>1. i \in 1 .. Len(s) /\ a[i].kind = "head"
    BY <1>1, <1>3 DEF Heads
  <2> QED
    BY <2>1 DEF Heads, Grown
<1> QED
  BY <1>1, <1>2, <1>3
-----------------------------------------------------------------------------
\* Types.

Typed ==
    /\ toServer \in Seq(Units) /\ toClient \in Seq(Units)
    /\ client \in [Threads -> {"idle", "payload", "header", "body", "raised"}]
    /\ request \in [Threads -> Request \cup {NoRequest}]
    /\ \A t \in Threads : client[t] \in {"payload", "header", "body"} => request[t] \in Request
    /\ header \in [Threads -> Units \cup {NoHeader}] /\ body \in [Threads -> Seq(Units)]
    /\ server \in {"header", "payload", "closed"}
    /\ server = "payload" => serving \in Request
    /\ split \in BOOLEAN /\ mixed \in BOOLEAN

\* The front is a sequence of bytes.
LEMMA FrontShape ==
  ASSUME Typed
  PROVE  Front \in Seq(Units) /\ AllBytes(Front) /\ Len(Front) \in Nat
<1>1. Front \in Seq(Units) /\ AllBytes(Front)
  BY PayloadShape, NoUnits DEF Front, Typed
<1> QED
  BY <1>1

LEMMA StreamLengths ==
  ASSUME Typed
  PROVE  Len(toServer) \in Nat /\ Len(toClient) \in Nat
<1>1. toServer \in Seq(Units) /\ toClient \in Seq(Units)
  BY DEF Typed
<1> QED
  BY <1>1

LEMMA TypedInit == Init => Typed
<1> SUFFICES ASSUME Init PROVE Typed
  OBVIOUS
<1>1. /\ toServer \in Seq(Units) /\ toClient \in Seq(Units)
      /\ body \in [Threads -> Seq(Units)]
  BY NoUnits DEF Init
<1>2. /\ client \in [Threads -> {"idle", "payload", "header", "body", "raised"}]
      /\ \A t \in Threads : client[t] = "idle"
  BY DEF Init
<1>3. /\ request \in [Threads -> Request \cup {NoRequest}]
      /\ header \in [Threads -> Units \cup {NoHeader}]
  BY DEF Init
<1> QED
  BY <1>1, <1>2, <1>3 DEF Init, Typed

\* A thread that sends a header.
LEMMA TypedSendHeader ==
  ASSUME Typed, NEW t \in Threads, SendHeader(t)
  PROVE  Typed'
<1>1. PICK r \in Issues[t] :
        /\ request' = [request EXCEPT ![t] = r]
        /\ toServer' = Append(toServer, HeaderUnit(r.op, r.offset, r.length))
        /\ IF Payload(r) = <<>> THEN Receives(t) ELSE Become(t, "payload") /\ UNCHANGED mixed
  BY DEF SendHeader
<1>2. r \in Request
  BY RequestsAssumption
<1>3. HeaderUnit(r.op, r.offset, r.length) \in Units
  BY <1>2, HeaderShape DEF Units
<1>4. toServer' \in Seq(Units)
  BY <1>1, <1>3, AppendProperties DEF Typed
<1>5. /\ client' \in [Threads -> {"idle", "payload", "header", "body", "raised"}]
      /\ \A u \in Threads \ {t} : client'[u] = client[u]
      /\ mixed' \in BOOLEAN
  BY <1>1 DEF Typed, Receives, Become
<1>6. /\ request' \in [Threads -> Request \cup {NoRequest}] /\ request'[t] = r
      /\ \A u \in Threads \ {t} : request'[u] = request[u]
  BY <1>1, <1>2 DEF Typed
<1>7. \A u \in Threads : client'[u] \in {"payload", "header", "body"} => request'[u] \in Request
  BY <1>2, <1>5, <1>6 DEF Typed
<1>8. header' \in [Threads -> Units \cup {NoHeader}] /\ body' \in [Threads -> Seq(Units)]
  BY NoUnits DEF Typed, SendHeader
<1>9. split' \in BOOLEAN /\ toClient' = toClient /\ server' = server /\ serving' = serving
  BY DEF Typed, SendHeader, serverVars
<1> QED
  BY <1>4, <1>5, <1>6, <1>7, <1>8, <1>9 DEF Typed

LEMMA TypedSendPayload ==
  ASSUME Typed, NEW t \in Threads, SendPayload(t)
  PROVE  Typed'
<1>1. toServer' \in Seq(Units)
  BY PayloadShape, ConcatProperties DEF Typed, SendPayload
<1>2. /\ client' \in [Threads -> {"idle", "payload", "header", "body", "raised"}]
      /\ \A u \in Threads \ {t} : client'[u] = client[u]
      /\ mixed' \in BOOLEAN
  BY DEF Typed, SendPayload, Receives, Become
<1>3. request[t] \in Request
  BY DEF Typed, SendPayload
<1> QED
  BY <1>1, <1>2, <1>3 DEF Typed, SendPayload, serverVars

LEMMA TypedFinish ==
  ASSUME Typed, NEW t \in Threads, Finish(t)
  PROVE  Typed'
<1>1. UNCHANGED <<toServer, request, split, mixed, server, serving>>
  BY DEF Finish, RecvHeader, RecvBody, Return, TimeOut, serverVars
<1>2. /\ client' \in [Threads -> {"idle", "payload", "header", "body", "raised"}]
      /\ client[t] \in {"header", "body"} /\ client'[t] \in {"body", "raised", "idle"}
      /\ \A u \in Threads \ {t} : client'[u] = client[u]
  BY DEF Typed, Finish, RecvHeader, RecvBody, Return, TimeOut, Become
<1>3. \A u \in Threads : client'[u] \in {"payload", "header", "body"} => request[u] \in Request
  BY <1>2 DEF Typed
<1>4. /\ toClient' \in Seq(Units) /\ header' \in [Threads -> Units \cup {NoHeader}]
      /\ body' \in [Threads -> Seq(Units)]
  <2>1. CASE toClient # <<>> /\ toClient' = Tail(toClient)
    <3>1. toClient[1] \in Units /\ toClient' \in Seq(Units)
      BY <2>1, HeadTailProperties DEF Typed
    <3>2. header' \in [Threads -> Units \cup {NoHeader}]
      BY <3>1 DEF Typed, Finish, RecvHeader, RecvBody, Return, TimeOut
    <3>3. Append(body[t], toClient[1]) \in Seq(Units)
      BY <3>1, AppendProperties DEF Typed
    <3>4. body' \in [Threads -> Seq(Units)]
      BY <3>3 DEF Typed, Finish, RecvHeader, RecvBody, Return, TimeOut
    <3> QED
      BY <3>1, <3>2, <3>4
  <2>2. CASE UNCHANGED <<toClient, header, body>>
    BY <2>2 DEF Typed
  <2> QED
    BY <2>1, <2>2 DEF Finish, RecvHeader, RecvBody, Return, TimeOut
<1> QED
  BY <1>1, <1>2, <1>3, <1>4 DEF Typed

\* The server: what it takes for a request is one.
LEMMA TypedServeHeader ==
  ASSUME Typed, ServeHeader
  PROVE  Typed'
<1>1. toServer' \in Seq(Units) /\ toServer[1] \in Units
  BY HeadTailProperties DEF Typed, ServeHeader
<1>2. UNCHANGED clientVars
  BY DEF ServeHeader
<1>3. CASE toServer[1].kind = "head"
  <2>1. PICK r : r = Req(toServer[1])
    OBVIOUS
  <2>2. r \in Request
    BY <1>1, <1>3, <2>1, ReqShape
  <2>3. /\ serving' = r
        /\ \/ server' = "header" /\ toClient' = toClient \o Reply(r)
           \/ server' = "payload" /\ toClient' = toClient
    BY <1>3, <2>1 DEF ServeHeader, Req
  <2>4. Reply(r) \in Seq(Units) /\ toClient \in Seq(Units)
    BY <2>2, ReplyShape DEF Typed
  <2>5. toClient \o Reply(r) \in Seq(Units)
    BY <2>4, ConcatProperties
  <2> QED
    BY <1>1, <1>2, <2>2, <2>3, <2>4, <2>5 DEF Typed, clientVars
<1>4. CASE toServer[1].kind # "head"
  BY <1>1, <1>2, <1>4 DEF Typed, ServeHeader, clientVars
<1> QED
  BY <1>3, <1>4

\* So the server receives the payload of the request it serves.
LEMMA ReceivesPayload ==
  ASSUME Typed, server = "payload"
  PROVE  Expected(serving) = Len(Payload(serving))
  BY ExpectedIsPayload DEF Typed

LEMMA TypedServePayload ==
  ASSUME Typed, ServePayload
  PROVE  Typed'
<1>1. Len(Payload(serving)) \in 0 .. Len(toServer)
  BY ReceivesPayload, PayloadShape DEF Typed, ServePayload
<1>2. toServer' \in Seq(Units)
  BY <1>1, ReceivesPayload, SubSeqDrops DEF Typed, ServePayload, Dropped
<1>3. toClient' \in Seq(Units)
  BY ReplyShape, ConcatProperties DEF Typed, ServePayload
<1> QED
  BY <1>2, <1>3 DEF Typed, ServePayload, clientVars

LEMMA TypedStep == Typed /\ [Next]_vars => Typed'
<1> SUFFICES ASSUME Typed, [Next]_vars PROVE Typed'
  OBVIOUS
<1>1. CASE UNCHANGED vars
  BY <1>1 DEF vars, Typed
<1> QED
  BY <1>1, TypedSendHeader, TypedSendPayload, TypedFinish, TypedServeHeader, TypedServePayload
  DEF Next, Serve
-----------------------------------------------------------------------------
\* What a stream keeps when it grows or is received.

LEMMA DropPayload ==
  ASSUME NEW s, NEW d, NEW k \in Nat, Dropped(s, d, k), PayloadInPlace(s)
  PROVE  PayloadInPlace(d)
<1> SUFFICES ASSUME NEW i \in Heads(d), NEW j \in 1 .. Len(Payload(Req(d[i]))), i + j <= Len(d)
             PROVE  d[i + j] = Payload(Req(d[i]))[j]
  BY DEF PayloadInPlace
<1>1. /\ Len(d) \in Nat /\ Len(s) = Len(d) + k /\ d \in Seq(Units) /\ i \in 1 .. Len(d)
      /\ Len(Payload(Req(d[i]))) \in Nat
  BY HeadsNat DEF Dropped
<1>2. k + i \in Heads(s) /\ Req(s[k + i]) = Req(d[i])
  BY DroppedHeads
<1>3. PICK m \in Nat : m = i + j
  BY <1>1
<1>4. m \in 1 .. Len(d) /\ d[m] = s[k + m] /\ k + m = (k + i) + j /\ k + m <= Len(s)
  BY <1>1, <1>3 DEF Dropped
<1>5. s[(k + i) + j] = Payload(Req(d[i]))[j]
  BY <1>2, <1>4 DEF PayloadInPlace
<1> QED
  BY <1>3, <1>4, <1>5

\* The heads that a shorter stream has are what it covers, but for those taken.
LEMMA DropCovered ==
  ASSUME NEW s, NEW d, NEW k \in Nat, NEW f, Dropped(s, d, k), Covered(s, f),
         NEW g, Len(f) \in Nat, Len(g) \in Nat,
         \A i \in Nat \ {0} : k + i <= Len(f) => i <= Len(g),
         \A h \in Heads(s) : h <= k => Ends(s, h) <= k + Len(g)
  PROVE  Covered(d, g)
<1> SUFFICES ASSUME NEW i \in 1 .. Len(d), i \notin Heads(d), ~(i <= Len(g))
             PROVE  \E h \in Heads(d) : h < i /\ i <= Ends(d, h)
  BY DEF Covered
<1>1. Len(d) \in Nat /\ Len(s) = Len(d) + k /\ s \in Seq(Units) /\ d \in Seq(Units)
  BY DEF Dropped
<1>2. PICK m \in 1 .. Len(s) : m = k + i /\ d[i] = s[m]
  BY <1>1 DEF Dropped
<1>3. m \notin Heads(s) /\ ~(m <= Len(f))
  BY <1>2 DEF Heads
<1>4. PICK h \in Heads(s) : h < m /\ m <= Ends(s, h)
  BY <1>3 DEF Covered
<1>5. h \in Nat /\ Ends(s, h) \in Nat
  BY <1>1, HeadsNat
<1>6. h > k
  BY <1>1, <1>2, <1>4, <1>5
<1>7. PICK e \in Heads(d) : k + e = h
  BY <1>6, DroppedHeads
<1>8. Ends(s, h) = k + Ends(d, e) /\ e \in Nat /\ Ends(d, e) \in Nat
  BY <1>1, <1>7, DroppedHeads, HeadsNat
<1>9. e < i /\ i <= Ends(d, e)
  BY <1>1, <1>2, <1>4, <1>7, <1>8
<1> QED
  BY <1>9

\* A stream that grows by the payload of its last header, or by anything when no
\* message in it is short.
LEMMA GrowPayload ==
  ASSUME NEW s, NEW x, NEW a, Grown(s, x, a), PayloadInPlace(s),
         \A i \in Heads(a) :
           \/ i \in Heads(s) /\ Ends(s, i) <= Len(s)
           \/ i = Len(s) /\ x = Payload(Req(s[i]))
           \/ i = Len(a)
  PROVE  PayloadInPlace(a)
<1> SUFFICES ASSUME NEW i \in Heads(a), NEW j \in 1 .. Len(Payload(Req(a[i]))), i + j <= Len(a)
             PROVE  a[i + j] = Payload(Req(a[i]))[j]
  BY DEF PayloadInPlace
<1>1. /\ Len(s) \in Nat /\ Len(x) \in Nat /\ Len(a) = Len(s) + Len(x) /\ a \in Seq(Units)
      /\ s \in Seq(Units)
  BY DEF Grown
<1>2. i \in 1 .. Len(a) /\ Len(Payload(Req(a[i]))) \in Nat
  BY <1>1, HeadsNat
<1>3. PICK m \in Nat : m = i + j
  BY <1>2
<1>4. CASE i \in Heads(s) /\ Ends(s, i) <= Len(s)
  <2>1. a[i] = s[i]
    BY <1>4, GrownHeads
  <2>2. m \in 1 .. Len(s)
    BY <1>1, <1>2, <1>3, <1>4, <2>1 DEF Ends
  <2>3. a[m] = s[m] /\ s[m] = Payload(Req(s[i]))[j]
    BY <1>3, <1>4, <2>1, <2>2 DEF Grown, PayloadInPlace
  <2> QED
    BY <1>3, <2>1, <2>3
<1>5. CASE i = Len(s) /\ x = Payload(Req(s[i]))
  <2>1. i \in 1 .. Len(s) /\ a[i] = s[i]
    BY <1>1, <1>2, <1>5 DEF Grown
  <2>2. j \in 1 .. Len(x) /\ a[Len(s) + j] = x[j]
    BY <1>5, <2>1 DEF Grown
  <2> QED
    BY <1>5, <2>1, <2>2
<1>6. CASE i = Len(a)
  BY <1>1, <1>2, <1>6
<1> QED
  BY <1>4, <1>5, <1>6

LEMMA GrowCovered ==
  ASSUME NEW s, NEW x, NEW a, NEW f, Grown(s, x, a), Covered(s, f),
         \A i \in 1 .. Len(a) :
           i > Len(s) => \/ i \in Heads(a)
                         \/ i <= Len(f)
                         \/ \E h \in Heads(a) : h < i /\ i <= Ends(a, h)
  PROVE  Covered(a, f)
<1> SUFFICES ASSUME NEW i \in 1 .. Len(a), ~(i > Len(s))
             PROVE  \/ i \in Heads(a)
                    \/ i <= Len(f)
                    \/ \E h \in Heads(a) : h < i /\ i <= Ends(a, h)
  BY DEF Covered
<1>1. i \in 1 .. Len(s)
  BY DEF Grown
<1> QED
  BY <1>1, GrownHeads DEF Covered

LEMMA GrowFront ==
  ASSUME NEW s, NEW x, NEW a, NEW f, Grown(s, x, a), FrontInPlace(s, f),
         Len(f) \in Nat, Len(f) <= Len(s)
  PROVE  FrontInPlace(a, f)
<1>1. Len(s) \in Nat /\ Len(x) \in Nat /\ Len(a) = Len(s) + Len(x)
  BY DEF Grown
<1> QED
  BY <1>1 DEF FrontInPlace, Grown
-----------------------------------------------------------------------------
(***************************************************************************)
(* The server stays in step: every step preserves InStep.                  *)
(***************************************************************************)

LEMMA InStepInit == Init => InStep
<1> SUFFICES ASSUME Init PROVE Steady
  BY DEF InStep
<1>1. toServer = <<>> /\ Front = <<>> /\ server = "header"
  BY DEF Init, Front
<1>2. Len(toServer) = 0 /\ Heads(toServer) = {}
  BY <1>1 DEF Heads
<1>3. /\ FrontInPlace(toServer, Front) /\ PayloadInPlace(toServer)
      /\ Covered(toServer, Front) /\ OnlyLastOpen
  BY <1>1, <1>2 DEF FrontInPlace, PayloadInPlace, Covered, OnlyLastOpen
<1>4. PayloadOwed
  BY DEF Init, PayloadOwed
<1> QED
  BY <1>1, <1>3, <1>4 DEF Steady

\* Steps that leave the stream and the server alone, and who is about to send payload.
LEMMA InStepQuiet ==
  ASSUME Typed, InStep, UNCHANGED <<toServer, server, serving, split, request>>,
         \A u \in Threads : client'[u] = "payload" <=> client[u] = "payload"
  PROVE  InStep'
<1> SUFFICES ASSUME Steady PROVE Steady'
  BY DEF InStep
<1>1. Front' = Front
  BY DEF Front
<1>2. \A u \in Threads : \A r : Owes(u, r)' <=> Owes(u, r)
  BY DEF Owes
<1>3. OnlyLastOpen'
  BY <1>1, <1>2 DEF Steady, OnlyLastOpen
<1>4. PayloadOwed'
  BY DEF Steady, PayloadOwed
<1> QED
  BY <1>1, <1>3, <1>4 DEF Steady

\* A header sent while nobody is about to send payload: every message is whole.
LEMMA NobodyOwes ==
  ASSUME Typed, Steady, \A u \in Threads : client[u] # "payload"
  PROVE  /\ Len(Front) <= Len(toServer)
         /\ \A i \in Heads(toServer) : Ends(toServer, i) <= Len(toServer)
  BY DEF Steady, OnlyLastOpen, Owes

\* What it puts into the stream: the header h of a request r.
LEMMA HeaderSent ==
  ASSUME Typed, NEW t \in Threads, SendHeader(t)
  PROVE  \E r \in Request : \E h \in Units :
           /\ h.kind = "head" /\ Req(h) = r
           /\ request'[t] = r /\ \A u \in Threads \ {t} : request'[u] = request[u]
           /\ IF Payload(r) = <<>> THEN Receives(t) ELSE Become(t, "payload") /\ UNCHANGED mixed
           /\ Grown(toServer, <<h>>, toServer')
           /\ Len(toServer') = Len(toServer) + 1 /\ toServer'[Len(toServer) + 1] = h
<1>1. PICK r \in Issues[t] :
        /\ request' = [request EXCEPT ![t] = r]
        /\ toServer' = Append(toServer, HeaderUnit(r.op, r.offset, r.length))
        /\ IF Payload(r) = <<>> THEN Receives(t) ELSE Become(t, "payload") /\ UNCHANGED mixed
  BY DEF SendHeader
<1>2. r \in Request
  BY RequestsAssumption
<1>3. request'[t] = r /\ \A u \in Threads \ {t} : request'[u] = request[u]
  BY <1>1 DEF Typed
<1>4. PICK h : h = HeaderUnit(r.op, r.offset, r.length)
  OBVIOUS
<1>5. h \in Units /\ h.kind = "head" /\ Req(h) = r
  BY <1>2, <1>4, HeaderShape DEF Units, HeadUnits
<1>6. Grown(toServer, <<h>>, toServer')
  BY <1>1, <1>4, <1>5, AppendGrows DEF Typed
<1>7. Len(toServer') = Len(toServer) + 1 /\ toServer'[Len(toServer) + 1] = h
  BY <1>1, <1>4, <1>5, AppendProperties DEF Typed
<1> QED
  BY <1>1, <1>2, <1>3, <1>5, <1>6, <1>7

LEMMA HeadsAfter ==
  ASSUME Typed, Steady, \A u \in Threads : client[u] # "payload",
         NEW h \in Units, h.kind = "head", NEW L \in Nat, L = Len(toServer),
         Grown(toServer, <<h>>, toServer'), Len(toServer') = L + 1, toServer'[L + 1] = h
  PROVE  /\ L + 1 \in Heads(toServer')
         /\ \A i \in Heads(toServer') :
              i = L + 1 \/ (i \in Heads(toServer) /\ Ends(toServer, i) <= L
                              /\ Ends(toServer', i) = Ends(toServer, i))
<1>1. L + 1 \in Heads(toServer')
  BY DEF Heads
<1>2. ASSUME NEW i \in Heads(toServer'), i # L + 1
      PROVE  i \in Heads(toServer) /\ Ends(toServer, i) <= L
               /\ Ends(toServer', i) = Ends(toServer, i)
  <2>1. i \in 1 .. L + 1
    BY DEF Heads
  <2>2. i \in Heads(toServer)
    BY <1>2, <2>1, GrownHeads
  <2> QED
    BY <2>2, GrownHeads, NobodyOwes
<1> QED
  BY <1>1, <1>2

LEMMA InStepSendHeader ==
  ASSUME Typed, InStep, NEW t \in Threads, SendHeader(t)
  PROVE  InStep'
<1> SUFFICES ASSUME ~split' PROVE Steady'
  BY DEF InStep
<1>1. /\ ~split /\ client[t] = "idle"
      /\ \A u \in Threads : client[u] # "payload"
      /\ UNCHANGED <<server, serving>>
  BY DEF SendHeader, OtherIn, Typed, serverVars
<1>2. Steady
  BY <1>1 DEF InStep
<1>3. PICK r \in Request, h \in Units :
        /\ h.kind = "head" /\ Req(h) = r
        /\ request'[t] = r /\ \A u \in Threads \ {t} : request'[u] = request[u]
        /\ IF Payload(r) = <<>> THEN Receives(t) ELSE Become(t, "payload") /\ UNCHANGED mixed
        /\ Grown(toServer, <<h>>, toServer')
        /\ Len(toServer') = Len(toServer) + 1 /\ toServer'[Len(toServer) + 1] = h
  BY HeaderSent
<1>4. request'[t] = r
  BY <1>3
<1>5. h.kind = "head" /\ Req(h) = r
  BY <1>3
<1>6. Grown(toServer, <<h>>, toServer')
  BY <1>3
<1>7. PICK L \in Nat : L = Len(toServer)
  BY StreamLengths
<1>8. Len(toServer') = L + 1 /\ toServer'[L + 1] = h
  BY <1>3, <1>7
<1>9. Front' = Front /\ Len(Front) \in Nat
  BY <1>1, FrontShape DEF Front
<1>10. L + 1 \in Heads(toServer')
  BY <1>1, <1>2, <1>5, <1>6, <1>7, <1>8, HeadsAfter
<1>11. \A i \in Heads(toServer') :
         i = L + 1 \/ (i \in Heads(toServer) /\ Ends(toServer, i) <= L
                         /\ Ends(toServer', i) = Ends(toServer, i))
  BY <1>1, <1>2, <1>5, <1>6, <1>7, <1>8, HeadsAfter
<1>12. FrontInPlace(toServer', Front)
  BY <1>1, <1>2, <1>6, <1>9, NobodyOwes, GrowFront DEF Steady
<1>13. PayloadInPlace(toServer')
  BY <1>2, <1>6, <1>7, <1>8, <1>11, GrowPayload DEF Steady
<1>14. Covered(toServer', Front)
  <2>1. \A i \in 1 .. Len(toServer') : i > Len(toServer) => i \in Heads(toServer')
    BY <1>7, <1>8, <1>10
  <2> QED
    BY <1>2, <1>6, <2>1, GrowCovered DEF Steady
<1>15. Payload(r) # <<>> => client'[t] = "payload"
  BY <1>3 DEF Typed, Become
<1>16. \A u \in Threads : client'[u] = "payload" => u = t /\ Payload(r) # <<>>
  BY <1>1, <1>3 DEF Typed, Become, Receives
<1>17. OnlyLastOpen'
  <2>1. Len(Front) <= Len(toServer')
    BY <1>1, <1>2, <1>7, <1>8, <1>9, NobodyOwes
  <2>2. ASSUME NEW i \in Heads(toServer')
        PROVE  \/ Ends(toServer', i) <= Len(toServer')
               \/ /\ i = Len(toServer')
                  /\ \E u \in Threads :
                       client'[u] = "payload" /\ request'[u] = Req(toServer'[i])
    <3>1. CASE i = L + 1
      <4>1. Req(toServer'[i]) = r
        BY <1>5, <1>8, <3>1
      <4>2. CASE Payload(r) = <<>>
        <5>1. Ends(toServer', i) = i + Len(<<>>)
          BY <4>1, <4>2 DEF Ends
        <5> QED
          BY <1>8, <3>1, <5>1, NoUnits
      <4>3. CASE Payload(r) # <<>>
        BY <1>4, <1>8, <1>15, <3>1, <4>1, <4>3
      <4> QED
        BY <4>2, <4>3
    <3>2. CASE i # L + 1
      <4>1. /\ i \in Heads(toServer) /\ Ends(toServer, i) <= L
            /\ Ends(toServer', i) = Ends(toServer, i)
        BY <1>11, <3>2
      <4>2. Ends(toServer, i) \in Nat
        BY <4>1, HeadsNat DEF Typed
      <4> QED
        BY <1>8, <4>1, <4>2
    <3> QED
      BY <3>1, <3>2
  <2> QED
    BY <1>9, <2>1, <2>2 DEF OnlyLastOpen, Owes
<1>18. PayloadOwed'
  <2> SUFFICES ASSUME NEW u \in Threads, client'[u] = "payload"
               PROVE  /\ Payload(request'[u]) # <<>>
                      /\ \A v \in Threads : client'[v] = "payload" => v = u
                      /\ toServer' # <<>> /\ Len(toServer') \in Heads(toServer')
                      /\ Req(toServer'[Len(toServer')]) = request'[u]
    BY DEF PayloadOwed
  <2>1. u = t /\ Payload(r) # <<>> /\ request'[u] = r
    BY <1>4, <1>16
  <2>2. toServer' # <<>>
    BY <1>8
  <2> QED
    BY <1>5, <1>8, <1>10, <1>16, <2>1, <2>2
<1> QED
  BY <1>1, <1>2, <1>9, <1>12, <1>13, <1>14, <1>17, <1>18 DEF Steady
\* Payload brings no headers.
LEMMA NewHeads ==
  ASSUME NEW s, NEW x, NEW a, Grown(s, x, a), AllBytes(x), NEW i \in Heads(a)
  PROVE  i \in Heads(s) /\ Ends(a, i) = Ends(s, i)
<1>1. Len(s) \in Nat /\ Len(x) \in Nat /\ Len(a) = Len(s) + Len(x)
  BY DEF Grown
<1>2. i \in 1 .. Len(a) /\ a[i].kind = "head"
  BY DEF Heads
<1>3. ~(i > Len(s))
  <2> SUFFICES ASSUME i > Len(s) PROVE FALSE
    OBVIOUS
  <2>1. PICK k \in 1 .. Len(x) : i = Len(s) + k
    <3>1. i - Len(s) \in 1 .. Len(x) /\ i = Len(s) + (i - Len(s))
      BY <1>1, <1>2
    <3> QED
      BY <3>1
  <2>2. a[i] = x[k]
    BY <2>1 DEF Grown
  <2> QED
    BY <1>2, <2>2 DEF AllBytes
<1>4. i \in Heads(s)
  BY <1>1, <1>2, <1>3, GrownHeads
<1> QED
  BY <1>4, GrownHeads

\* Payload goes where it is owed: behind the last header in the stream, or to the
\* server that waits for it.
LEMMA InStepSendPayload ==
  ASSUME Typed, InStep, NEW t \in Threads, SendPayload(t)
  PROVE  InStep'
<1> SUFFICES ASSUME Steady PROVE Steady'
  BY DEF InStep, SendPayload
<1>1. PICK x : x = Payload(request[t])
  OBVIOUS
<1>2. /\ x \in Seq(Units) /\ AllBytes(x) /\ Len(x) \in Nat /\ x # <<>>
      /\ client[t] = "payload"
  BY <1>1, PayloadShape DEF SendPayload, Typed, Steady, PayloadOwed
<1>3. UNCHANGED <<server, serving, request, split>> /\ Front' = Front /\ Len(Front) \in Nat
  BY FrontShape DEF SendPayload, serverVars, Front
<1>4. toServer' = toServer \o x /\ Grown(toServer, x, toServer')
  BY <1>1, <1>2, ConcatGrows DEF SendPayload, Typed
<1>5. PICK L \in Nat : L = Len(toServer)
  BY StreamLengths
<1>6. Len(toServer') = L + Len(x)
  BY <1>4, <1>5 DEF Grown
<1>7. PayloadOwed'
  <2>1. \A u \in Threads : client'[u] # "payload"
    BY <1>2 DEF SendPayload, Receives, Become, Typed, Steady, PayloadOwed
  <2> QED
    BY <2>1 DEF PayloadOwed
<1>8. \A i \in Heads(toServer') : i \in Heads(toServer) /\ Ends(toServer', i) = Ends(toServer, i)
  BY <1>2, <1>4, NewHeads
<1>9. CASE /\ toServer # <<>> /\ L \in Heads(toServer)
           /\ Req(toServer[L]) = request[t]
  <2>1. Len(Front) <= L
    BY <1>5, <1>9 DEF Steady, OnlyLastOpen
  <2>2. Ends(toServer, L) = L + Len(x) /\ L \in 1 .. L
    BY <1>1, <1>5, <1>9 DEF Ends, Heads
  <2>3. \A i \in Heads(toServer) : i = L \/ Ends(toServer, i) <= L
    BY <1>5 DEF Steady, OnlyLastOpen
  <2>4. FrontInPlace(toServer', Front)
    BY <1>3, <1>4, <1>5, <2>1, GrowFront DEF Steady
  <2>5. PayloadInPlace(toServer')
    <3>1. \A i \in Heads(toServer') :
            \/ i \in Heads(toServer) /\ Ends(toServer, i) <= Len(toServer)
            \/ i = Len(toServer) /\ x = Payload(Req(toServer[i]))
      BY <1>1, <1>5, <1>8, <1>9, <2>3
    <3> QED
      BY <1>4, <3>1, GrowPayload DEF Steady
  <2>6. Covered(toServer', Front)
    <3>1. L \in Heads(toServer') /\ Ends(toServer', L) = Ends(toServer, L)
      BY <1>4, <1>9, GrownHeads
    <3>2. \A i \in 1 .. Len(toServer') : i > Len(toServer) =>
            \E h \in Heads(toServer') : h < i /\ i <= Ends(toServer', h)
      BY <1>2, <1>5, <1>6, <2>2, <3>1
    <3> QED
      BY <1>4, <3>2, GrowCovered DEF Steady
  <2>7. OnlyLastOpen'
    <3>1. Len(Front) <= Len(toServer')
      BY <1>2, <1>3, <1>6, <2>1
    <3>2. ASSUME NEW i \in Heads(toServer')
          PROVE  Ends(toServer', i) <= Len(toServer')
      <4>1. i \in Heads(toServer) /\ Ends(toServer', i) = Ends(toServer, i)
        BY <1>8
      <4>2. Ends(toServer, i) \in Nat
        BY <4>1, HeadsNat DEF Typed
      <4> QED
        BY <1>2, <1>6, <2>2, <2>3, <4>1, <4>2
    <3> QED
      BY <1>3, <3>1, <3>2 DEF OnlyLastOpen
  <2> QED
    BY <1>3, <1>7, <2>4, <2>5, <2>6, <2>7 DEF Steady
<1>10. CASE toServer = <<>> /\ server = "payload" /\ serving = request[t]
  <2>1. Front = x /\ L = 0 /\ Heads(toServer) = {}
    BY <1>1, <1>5, <1>10 DEF Front, Heads
  <2>2. Heads(toServer') = {} /\ Len(toServer') = Len(x)
    BY <1>2, <1>6, <1>8, <2>1
  <2>3. \A i \in 1 .. Len(x) : toServer'[i] = x[i]
    BY <1>2, <1>4, <1>5, <2>1 DEF Grown
  <2>4. FrontInPlace(toServer', Front)
    BY <2>1, <2>2, <2>3 DEF FrontInPlace
  <2>5. PayloadInPlace(toServer') /\ Covered(toServer', Front)
    BY <1>2, <2>1, <2>2 DEF PayloadInPlace, Covered
  <2>6. OnlyLastOpen'
    BY <1>2, <1>3, <2>1, <2>2 DEF OnlyLastOpen
  <2> QED
    BY <1>3, <1>7, <2>4, <2>5, <2>6 DEF Steady
<1>11. \/ toServer # <<>> /\ L \in Heads(toServer) /\ Req(toServer[L]) = request[t]
       \/ toServer = <<>> /\ server = "payload" /\ serving = request[t]
  BY <1>2, <1>5 DEF Steady, PayloadOwed
<1> QED
  BY <1>9, <1>10, <1>11

\* Who owes payload is the same while the server moves, and so is for which request.
LEMMA LastStays ==
  ASSUME NEW s, NEW d, NEW k \in Nat, Dropped(s, d, k), s # <<>>, Len(s) \in Heads(s),
         Len(s) > k
  PROVE  /\ d # <<>> /\ Len(d) \in Heads(d) /\ Req(d[Len(d)]) = Req(s[Len(s)])
<1>1. Len(d) \in Nat /\ Len(s) = Len(d) + k /\ d \in Seq(Units)
  BY DEF Dropped
<1>2. PICK h \in Heads(s) : h = Len(s)
  OBVIOUS
<1>3. PICK e \in Heads(d) : k + e = h
  BY <1>2, DroppedHeads
<1>4. e = Len(d) /\ e \in 1 .. Len(d)
  BY <1>1, <1>2, <1>3 DEF Heads
<1>5. Req(d[e]) = Req(s[k + e])
  BY DroppedHeads
<1> QED
  BY <1>1, <1>2, <1>3, <1>4, <1>5
\* Steps of the server leave who owes what alone.
LEMMA ServeOwes ==
  ASSUME Typed, Steady, Serve, toServer # <<>>, NEW k \in 1 .. Len(toServer),
         Dropped(toServer, toServer', k),
         \A t \in Threads :
           client[t] = "payload" /\ Len(toServer) = k /\ Len(toServer) \in Heads(toServer)
             /\ Req(toServer[Len(toServer)]) = request[t]
           => toServer' = <<>> /\ server' = "payload" /\ serving' = request[t]
  PROVE  PayloadOwed'
<1> SUFFICES ASSUME NEW t \in Threads, client'[t] = "payload"
             PROVE  /\ Payload(request'[t]) # <<>>
                    /\ \A u \in Threads : client'[u] = "payload" => u = t
                    /\ \/ toServer' # <<>> /\ Len(toServer') \in Heads(toServer')
                            /\ Req(toServer'[Len(toServer')]) = request'[t]
                       \/ toServer' = <<>> /\ server' = "payload" /\ serving' = request'[t]
  BY DEF PayloadOwed
<1>1. client' = client /\ request' = request
  BY DEF Serve, ServeHeader, ServePayload, clientVars
<1>2. /\ Payload(request[t]) # <<>>
      /\ \A u \in Threads : client[u] = "payload" => u = t
      /\ Len(toServer) \in Heads(toServer) /\ Req(toServer[Len(toServer)]) = request[t]
  BY <1>1 DEF Steady, PayloadOwed
<1>3. CASE Len(toServer) = k
  BY <1>1, <1>2, <1>3
<1>4. CASE Len(toServer) # k
  <2>1. k \in Nat /\ Len(toServer) > k
    BY <1>4, StreamLengths
  <2>2. /\ toServer' # <<>> /\ Len(toServer') \in Heads(toServer')
        /\ Req(toServer'[Len(toServer')]) = Req(toServer[Len(toServer)])
    BY <1>2, <2>1, LastStays
  <2> QED
    BY <1>1, <1>2, <2>2
<1> QED
  BY <1>3, <1>4

\* What the server takes for a header is one, and the payload it waits for follows.
LEMMA FirstIsHead ==
  ASSUME Typed, Steady, server = "header", toServer # <<>>
  PROVE  1 \in Heads(toServer) /\ toServer[1].kind = "head" /\ Req(toServer[1]) \in Request
<1>1. Front = <<>> /\ Len(Front) = 0
  BY DEF Front
<1>2. 1 \in 1 .. Len(toServer) /\ toServer \in Seq(Units)
  BY DEF Typed
<1>3. \A h \in Heads(toServer) : h \in Nat /\ ~(h < 1)
  BY <1>2 DEF Heads
<1>4. 1 \in Heads(toServer)
  BY <1>1, <1>2, <1>3 DEF Steady, Covered
<1> QED
  BY <1>2, <1>4, HeadsNat DEF Heads

LEMMA InStepServeHeader ==
  ASSUME Typed, InStep, ServeHeader
  PROVE  InStep'
<1> SUFFICES ASSUME Steady PROVE Steady'
  BY DEF InStep, ServeHeader, clientVars
<1>1. server = "header" /\ toServer # <<>> /\ toServer \in Seq(Units)
  BY DEF ServeHeader, Typed
<1>2. Front = <<>> /\ Len(Front) = 0
  BY <1>1 DEF Front
<1>3. PICK r \in Request : r = Req(toServer[1])
  BY <1>1, FirstIsHead
<1>4. 1 \in Heads(toServer) /\ toServer[1].kind = "head"
  BY <1>1, FirstIsHead
<1>5. /\ serving' = r
      /\ server' = IF Payload(r) = <<>> THEN "header" ELSE "payload"
      /\ client' = client /\ request' = request /\ toServer' = Tail(toServer)
  BY <1>3, <1>4, ExpectedIsPayload DEF ServeHeader, Req, clientVars
<1>6. Front' = Payload(r)
  BY <1>5 DEF Front
<1>7. Dropped(toServer, toServer', 1)
  BY <1>1, <1>5, TailDrops
<1>8. PICK L \in Nat : L = Len(toServer)
  BY StreamLengths
<1>9. L >= 1 /\ Len(toServer') = L - 1
  BY <1>1, <1>5, <1>8, HeadTailProperties
<1>10. PICK n \in Nat : n = Len(Payload(r))
  BY <1>3, PayloadShape
<1>11. Ends(toServer, 1) = 1 + n
  BY <1>3, <1>10 DEF Ends
<1>12. FrontInPlace(toServer', Payload(r))
  <2> SUFFICES ASSUME NEW i \in 1 .. Len(toServer'), i <= n
               PROVE  toServer'[i] = Payload(r)[i]
    BY <1>10 DEF FrontInPlace
  <2>1. toServer'[i] = toServer[1 + i] /\ i \in 1 .. n /\ 1 + i <= L
    BY <1>7, <1>9 DEF Dropped
  <2> QED
    BY <1>3, <1>4, <1>8, <1>10, <2>1 DEF Steady, PayloadInPlace
<1>13. PayloadInPlace(toServer')
  BY <1>7, DropPayload DEF Steady
<1>14. Covered(toServer', Payload(r))
  <2>1. \A i \in Nat \ {0} : 1 + i <= Len(Front) => i <= n
    BY <1>2
  <2>2. \A h \in Heads(toServer) : h <= 1 => Ends(toServer, h) <= 1 + n
    <3>1. \A h \in Heads(toServer) : h <= 1 => h = 1
      BY <1>1, HeadsNat
    <3> QED
      BY <1>11, <3>1
  <2> QED
    BY <1>2, <1>7, <1>10, <2>1, <2>2, DropCovered DEF Steady
<1>15. \A i \in Heads(toServer) :
         \/ Ends(toServer, i) <= L
         \/ i = L /\ \E t \in Threads : Owes(t, Req(toServer[i]))
  BY <1>8 DEF Steady, OnlyLastOpen
<1>16. OnlyLastOpen'
  <2>1. n <= Len(toServer') \/ (toServer' = <<>> /\ \E t \in Threads : Owes(t, r)')
    <3>1. CASE Ends(toServer, 1) <= L
      BY <1>9, <1>11, <3>1
    <3>2. CASE 1 = L /\ \E t \in Threads : Owes(t, Req(toServer[1]))
      <4>1. toServer' = <<>>
        BY <1>5, <1>8, <1>7, <1>9, <3>2 DEF Dropped
      <4> QED
        BY <1>3, <1>5, <3>2, <4>1 DEF Owes
    <3> QED
      BY <1>4, <1>15, <3>1, <3>2
  <2>2. ASSUME NEW i \in Heads(toServer')
        PROVE  \/ Ends(toServer', i) <= Len(toServer')
               \/ /\ i = Len(toServer')
                  /\ \E t \in Threads :
                       client'[t] = "payload" /\ request'[t] = Req(toServer'[i])
    <3>1. /\ 1 + i \in Heads(toServer) /\ Ends(toServer, 1 + i) = 1 + Ends(toServer', i)
          /\ Req(toServer'[i]) = Req(toServer[1 + i])
      BY <1>7, DroppedHeads
    <3>2. toServer' \in Seq(Units)
      BY <1>7 DEF Dropped
    <3>3. i \in Nat /\ Ends(toServer', i) \in Nat
      BY <3>2, HeadsNat
    <3>4. CASE Ends(toServer, 1 + i) <= L
      BY <1>9, <3>1, <3>3, <3>4
    <3>5. CASE 1 + i = L /\ \E t \in Threads : Owes(t, Req(toServer[1 + i]))
      <4>1. i = L - 1
        BY <1>9, <3>3, <3>5
      <4>2. PICK t \in Threads : client[t] = "payload" /\ request[t] = Req(toServer'[i])
        BY <3>1, <3>5 DEF Owes
      <4> QED
        BY <1>5, <1>9, <4>1, <4>2
    <3> QED
      BY <1>15, <3>1, <3>4, <3>5
  <2> QED
    BY <1>5, <1>6, <1>10, <2>1, <2>2 DEF OnlyLastOpen, Owes
<1>17. PayloadOwed'
  <2>1. ASSUME NEW t \in Threads, client[t] = "payload", L = 1, Req(toServer[L]) = request[t]
        PROVE  toServer' = <<>> /\ server' = "payload" /\ serving' = request[t]
    <3>1. toServer' = <<>>
      BY <1>7, <1>9, <2>1 DEF Dropped
    <3>2. r = request[t] /\ Payload(r) # <<>>
      BY <1>3, <2>1 DEF Steady, PayloadOwed
    <3> QED
      BY <1>5, <3>1, <3>2
  <2>2. 1 \in 1 .. Len(toServer)
    BY <1>8, <1>9
  <2> QED
    BY <1>1, <1>7, <1>8, <2>1, <2>2, ServeOwes DEF Serve
<1>18. server' \in {"header", "payload"} /\ (server' = "payload" => Payload(serving') # <<>>)
  BY <1>5
<1> QED
  BY <1>6, <1>12, <1>13, <1>14, <1>16, <1>17, <1>18 DEF Steady

LEMMA InStepServePayload ==
  ASSUME Typed, InStep, ServePayload
  PROVE  InStep'
<1> SUFFICES ASSUME Steady PROVE Steady'
  BY DEF InStep, ServePayload, clientVars
<1>1. /\ server = "payload" /\ server' = "header" /\ toServer \in Seq(Units)
      /\ client' = client /\ request' = request
  BY DEF ServePayload, Typed, clientVars
<1>2. Front = Payload(serving) /\ Front' = <<>> /\ Len(Front') = 0
  BY <1>1 DEF Front
<1>3. PICK L \in Nat : L = Len(toServer)
  BY StreamLengths
<1>4. PICK k \in Nat : k = Len(Front)
  BY FrontShape
<1>5. k \in 1 .. L
  BY <1>1, <1>2, <1>3, <1>4, FrontShape, ReceivesPayload DEF ServePayload, Steady
<1>6. Dropped(toServer, toServer', k)
  BY <1>1, <1>2, <1>3, <1>4, <1>5, SubSeqDrops, ReceivesPayload DEF ServePayload
<1>7. Len(toServer') = L - k /\ toServer' \in Seq(Units)
  BY <1>3, <1>5, <1>6 DEF Dropped
<1>8. \A h \in Heads(toServer) : h > k
  <2> SUFFICES ASSUME NEW h \in Heads(toServer), ~(h > k) PROVE FALSE
    OBVIOUS
  <2>1. h \in 1 .. L /\ h \in 1 .. k /\ toServer[h].kind = "head"
    BY <1>3, <1>5 DEF Heads
  <2>2. toServer[h] = Front[h]
    BY <1>3, <1>4, <2>1 DEF Steady, FrontInPlace
  <2> QED
    BY <1>4, <2>1, <2>2, FrontShape DEF AllBytes
<1>9. FrontInPlace(toServer', <<>>)
  BY <1>2 DEF FrontInPlace
<1>10. PayloadInPlace(toServer')
  BY <1>6, DropPayload DEF Steady
<1>11. Covered(toServer', <<>>)
  <2>1. \A i \in Nat \ {0} : k + i <= Len(Front) => i <= Len(<<>>)
    BY <1>4
  <2>2. \A h \in Heads(toServer) : h <= k => Ends(toServer, h) <= k + Len(<<>>)
    <3>1. \A h \in Heads(toServer) : h \in Nat
      BY <1>1, HeadsNat
    <3> QED
      BY <1>8, <3>1
  <2>3. Len(Front) \in Nat /\ Len(<<>>) \in Nat
    BY <1>4, NoUnits
  <2> QED
    BY <1>6, <2>1, <2>2, <2>3, DropCovered DEF Steady
<1>12. \A i \in Heads(toServer) :
         \/ Ends(toServer, i) <= L
         \/ i = L /\ \E t \in Threads : Owes(t, Req(toServer[i]))
  BY <1>3 DEF Steady, OnlyLastOpen
<1>13. OnlyLastOpen'
  <2>1. ASSUME NEW i \in Heads(toServer')
        PROVE  \/ Ends(toServer', i) <= Len(toServer')
               \/ /\ i = Len(toServer')
                  /\ \E t \in Threads :
                       client'[t] = "payload" /\ request'[t] = Req(toServer'[i])
    <3>1. /\ k + i \in Heads(toServer) /\ Ends(toServer, k + i) = k + Ends(toServer', i)
          /\ Req(toServer'[i]) = Req(toServer[k + i])
      BY <1>6, DroppedHeads
    <3>2. i \in Nat /\ Ends(toServer', i) \in Nat
      BY <1>7, HeadsNat
    <3>3. CASE Ends(toServer, k + i) <= L
      BY <1>7, <3>1, <3>2, <3>3
    <3>4. CASE k + i = L /\ \E t \in Threads : Owes(t, Req(toServer[k + i]))
      BY <1>1, <1>7, <3>1, <3>2, <3>4 DEF Owes
    <3> QED
      BY <1>12, <3>1, <3>3, <3>4
  <2>2. 0 <= Len(toServer')
    BY <1>5, <1>7
  <2> QED
    BY <1>2, <2>1, <2>2 DEF OnlyLastOpen, Owes
<1>14. PayloadOwed'
  <2>1. \A t \in Threads :
          ~(client[t] = "payload" /\ Len(toServer) = k /\ Len(toServer) \in Heads(toServer))
    BY <1>5, <1>8
  <2>2. toServer # <<>>
    BY <1>3, <1>5
  <2> QED
    BY <1>3, <1>5, <1>6, <2>1, <2>2, ServeOwes DEF Serve
<1> QED
  BY <1>1, <1>2, <1>9, <1>10, <1>11, <1>13, <1>14 DEF Steady

LEMMA InStepStep == Typed /\ InStep /\ [Next]_vars => InStep'
<1> SUFFICES ASSUME Typed, InStep, [Next]_vars PROVE InStep'
  OBVIOUS
<1>1. ASSUME NEW t \in Threads, Finish(t) PROVE InStep'
  <2>1. UNCHANGED <<toServer, server, serving, split, request>>
    BY <1>1 DEF Finish, RecvHeader, RecvBody, Return, TimeOut, serverVars
  <2>2. \A u \in Threads : client'[u] = "payload" <=> client[u] = "payload"
    BY <1>1 DEF Finish, RecvHeader, RecvBody, Return, TimeOut, Become, Typed
  <2> QED
    BY <2>1, <2>2, InStepQuiet
<1>2. CASE UNCHANGED vars
  BY <1>2, InStepQuiet DEF vars
<1> QED
  BY <1>1, <1>2, InStepSendHeader, InStepSendPayload, InStepServeHeader, InStepServePayload
  DEF Next, Serve

LEMMA StreamInvariant == Spec => [](Typed /\ InStep)
<1>1. Init => Typed /\ InStep
  BY TypedInit, InStepInit
<1>2. Typed /\ InStep /\ [Next]_vars => (Typed /\ InStep)'
  BY TypedStep, InStepStep
<1> QED
  BY <1>1, <1>2, PTL DEF Spec

(***************************************************************************)
(* The server never takes payload for a header or a header for payload,    *)
(* unless a thread sent a header between another one's header and its      *)
(* payload: whatever is announced in the replies, and whatever the threads *)
(* make of them (server.py:276-284; client.py:21-22, 42).                  *)
(***************************************************************************)
THEOREM ConnectionServerInStep == Spec => []ServerInStep
<1>1. InStep => ServerInStep
  BY DEF InStep, Steady, ServerInStep, FrontInPlace, Front
<1> QED
  BY <1>1, StreamInvariant, PTL
-----------------------------------------------------------------------------
(***************************************************************************)
(* While nothing got mixed up, the thread that receives is alone.          *)
(***************************************************************************)

LEMMA AloneStep ==
  ASSUME Typed, Alone, [Next]_vars
  PROVE  Alone'
<1> SUFFICES ASSUME ~mixed', NEW t \in Threads, client'[t] \in {"header", "body"},
                    NEW u \in Threads \ {t}, client'[u] \in {"header", "body", "raised"}
             PROVE  FALSE
  BY DEF Alone, Receiving, OtherIn
<1>1. ~(mixed /\ UNCHANGED mixed)
  OBVIOUS
<1>2. ASSUME NEW v \in Threads, Receives(v), \A w \in Threads \ {v} : client'[w] = client[w]
      PROVE  FALSE
  <2>1. ~mixed /\ \A w \in Threads \ {v} : client[w] \notin {"header", "body", "raised"}
    BY <1>2 DEF Receives, OtherIn
  <2>2. v # t /\ v # u => FALSE
    BY <1>2, <2>1
  <2>3. v = t => FALSE
    BY <1>2, <2>1
  <2>4. v = u => FALSE
    BY <1>2, <2>1
  <2> QED
    BY <2>2, <2>3, <2>4
<1>3. ASSUME ~mixed, \A w \in Threads : client'[w] \in {"header", "body"}
                       => client[w] \in {"header", "body"},
             \A w \in Threads : client'[w] = "raised"
                       => client[w] \in {"header", "body", "raised"}
      PROVE  FALSE
  BY <1>3 DEF Alone, Receiving, OtherIn
<1>4. ASSUME NEW v \in Threads, SendHeader(v) PROVE FALSE
  <2>1. CASE Receives(v)
    BY <1>2, <2>1 DEF Receives, Become, Typed
  <2>2. CASE Become(v, "payload") /\ UNCHANGED mixed
    BY <1>3, <2>2 DEF Become, Typed
  <2> QED
    BY <1>4, <2>1, <2>2 DEF SendHeader
<1>5. ASSUME NEW v \in Threads, SendPayload(v) PROVE FALSE
  BY <1>2, <1>5 DEF SendPayload, Receives, Become, Typed
<1>6. ASSUME NEW v \in Threads, Finish(v) PROVE FALSE
  BY <1>3, <1>6 DEF Finish, RecvHeader, RecvBody, Return, TimeOut, Become, Typed
<1>7. CASE Serve \/ UNCHANGED vars
  BY <1>3, <1>7 DEF Serve, ServeHeader, ServePayload, clientVars, vars
<1> QED
  BY <1>4, <1>5, <1>6, <1>7 DEF Next

LEMMA CalmStep ==
  ASSUME Typed, Calm', [Next]_vars
  PROVE  Calm
<1>1. ~split' => ~split
  BY DEF Next, Serve, ServeHeader, ServePayload, SendHeader, SendPayload, Finish, RecvHeader,
         RecvBody, Return, TimeOut, clientVars, vars, Typed
<1>2. ~mixed' => ~mixed
  BY DEF Next, Serve, ServeHeader, ServePayload, SendHeader, SendPayload, Finish, RecvHeader,
         RecvBody, Return, TimeOut, Receives, clientVars, vars, Typed
<1>3. ASSUME NEW u \in Threads, client[u] = "raised"
      PROVE  client'[u] = "raised"
  BY <1>3 DEF Next, Serve, ServeHeader, ServePayload, SendHeader, SendPayload, Finish, RecvHeader,
         RecvBody, Return, TimeOut, Receives, Become, clientVars, vars, Typed
<1> QED
  BY <1>1, <1>2, <1>3 DEF Calm

-----------------------------------------------------------------------------
\* What the server has to answer.

LEMMA SameAnswered ==
  ASSUME UNCHANGED <<toServer, server, serving>>
  PROVE  (AllAnswered' <=> AllAnswered) /\ \A r : Unanswered(r)' <=> Unanswered(r)
<1>1. FrontWhole' <=> FrontWhole
  BY DEF FrontWhole, Front
<1> QED
  BY <1>1 DEF AllAnswered, Unanswered

\* A request is not both answered and waiting to be.
LEMMA OneOrTheOther ==
  ASSUME NEW r, Unanswered(r)
  PROVE  ~AllAnswered
  BY DEF Unanswered, AllAnswered

\* Whoever asked waits for the reply, alone, with nothing on the way to it but left bytes.
LEMMA SomebodyWaits ==
  ASSUME Typed, Calm, Alone, Matched, ~AllAnswered
  PROVE  \E t \in Threads :
           /\ client[t] = "header" /\ Unanswered(request[t]) /\ AllBytes(toClient)
           /\ body[t] = <<>>
           /\ \A u \in Threads \ {t} : client[u] \notin {"header", "body"}
<1>1. PICK t \in Receiving : TRUE
  BY DEF Matched
<1>2. t \in Threads /\ client[t] \in {"header", "body"} /\ InPair(t)
  BY <1>1 DEF Receiving, Matched
<1>3. client[t] = "header" /\ Unanswered(request[t]) /\ AllBytes(toClient) /\ body[t] = <<>>
  BY <1>2 DEF InPair
<1>4. \A u \in Threads \ {t} : client[u] \notin {"header", "body"}
  BY <1>1 DEF Alone, Calm, OtherIn
<1> QED
  BY <1>2, <1>3, <1>4

\* The messages that are whole after k units were received.
LEMMA DropWhole ==
  ASSUME NEW s, NEW d, NEW k \in Nat, Dropped(s, d, k), NEW i \in Whole(d)
  PROVE  k + i \in Whole(s) /\ i \in Nat \ {0}
<1>1. /\ i \in Heads(d) /\ Ends(d, i) <= Len(d) /\ d \in Seq(Units) /\ Len(d) \in Nat
      /\ Len(s) = Len(d) + k
  BY DEF Whole, Dropped
<1>2. i \in 1 .. Len(d) /\ Ends(d, i) \in Nat
  BY <1>1, HeadsNat
<1>3. k + i \in Heads(s) /\ Ends(s, k + i) = k + Ends(d, i)
  BY <1>1, DroppedHeads
<1>4. Ends(s, k + i) <= Len(s)
  BY <1>1, <1>2, <1>3
<1> QED
  BY <1>2, <1>3, <1>4 DEF Whole

\* Units of one kind, then a reply.
LEMMA ReplyAppended ==
  ASSUME NEW s \in Seq(Units), AllBytes(s), NEW r \in Request
  PROVE  ReplyThere(s \o Reply(r), r)
<1>1. PICK x \in Seq(Units) : x = Reply(r)
  BY ReplyShape
<1>2. PICK a : a = s \o x
  OBVIOUS
<1>3. Grown(s, x, a)
  BY <1>2, ConcatGrows
<1>4. PICK k \in Nat : k = Len(s)
  OBVIOUS
<1>5. Len(a) = k + Len(x) /\ Len(x) \in Nat /\ k \in 0 .. Len(a)
  BY <1>3, <1>4 DEF Grown
<1>6. \A i \in 1 .. k : a[i].kind = "byte"
  BY <1>3, <1>4 DEF Grown, AllBytes
<1>7. \A i \in 1 .. Len(x) : a[k + i] = x[i]
  BY <1>3, <1>4 DEF Grown
<1> QED
  BY <1>1, <1>2, <1>5, <1>6, <1>7 DEF ReplyThere

\* The first unit of such a stream is a header only if nothing was left before it.
LEMMA ReplyAtHead ==
  ASSUME NEW s \in Seq(Units), NEW r \in Request, ReplyThere(s, r), s # <<>>,
         s[1].kind = "head"
  PROVE  /\ s[1] = HeaderUnit(r.op, r.offset, Announced(r))
         /\ Len(Tail(s)) = Len(Body(r))
         /\ \A i \in 1 .. Len(Tail(s)) : Tail(s)[i] = Body(r)[i]
<1>1. PICK x \in Seq(Units) :
        /\ x = Reply(r) /\ Len(x) = 1 + Len(Body(r))
        /\ x[1] = HeaderUnit(r.op, r.offset, Announced(r))
        /\ \A i \in 1 .. Len(Body(r)) : x[1 + i] = Body(r)[i]
  BY ReplyShape
<1>2. PICK k \in 0 .. Len(s) :
        /\ Len(s) = k + Len(x)
        /\ \A i \in 1 .. k : s[i].kind = "byte"
        /\ \A i \in 1 .. Len(x) : s[k + i] = x[i]
  BY <1>1 DEF ReplyThere
<1>3. PICK n \in Nat : n = Len(Body(r))
  BY BodyShape
<1>4. k = 0
  <2>1. k > 0 => 1 \in 1 .. k
    BY <1>2
  <2> QED
    BY <1>2, <2>1
<1>5. Len(s) = 1 + n /\ \A i \in 1 .. 1 + n : s[i] = x[i]
  BY <1>1, <1>2, <1>3, <1>4
<1>6. Dropped(s, Tail(s), 1)
  BY TailDrops
<1>7. PICK d : d = Tail(s)
  OBVIOUS
<1>8. Len(d) = n /\ \A i \in 1 .. n : d[i] = s[1 + i] /\ 1 + i \in 1 .. 1 + n
  BY <1>5, <1>6, <1>7 DEF Dropped
<1>9. \A i \in 1 .. n : d[i] = Body(r)[i]
  BY <1>1, <1>3, <1>5, <1>8
<1> QED
  BY <1>1, <1>3, <1>5, <1>7, <1>8, <1>9
-----------------------------------------------------------------------------
(***************************************************************************)
(* Every step preserves Matched.  A step after which nothing is mixed up   *)
(* was taken when nothing was.                                             *)
(***************************************************************************)
Before == Typed /\ InStep /\ Alone /\ Matched /\ Calm

\* With one thread that receives, it is all about that one.
LEMMA MatchedByOne ==
  ASSUME Alone', Calm', NEW t \in Threads, client'[t] \in {"header", "body"}, InPair(t)',
         \A u \in Threads : client'[u] = "payload" => body'[u] = <<>>
  PROVE  Matched'
<1>1. Receiving' # {}
  BY DEF Receiving
<1>2. ASSUME NEW u \in Threads
      PROVE  InPair(u)'
  <2>1. CASE u = t
    BY <2>1
  <2>2. CASE u # t
    <3>1. client'[u] \notin {"header", "body"}
      BY <2>2 DEF Alone, Calm, Receiving, OtherIn
    <3> QED
      BY <3>1 DEF InPair
  <2> QED
    BY <2>1, <2>2
<1> QED
  BY <1>1, <1>2 DEF Matched

\* A step that is about nothing of this.
LEMMA MatchedQuiet ==
  ASSUME Before, Calm', AllAnswered' <=> AllAnswered, \A r : Unanswered(r)' <=> Unanswered(r),
         toClient' = toClient,
         \A u \in Threads :
           /\ client'[u] \in {"header", "body"} <=> client[u] \in {"header", "body"}
           /\ client'[u] \in {"header", "body"} =>
                /\ client'[u] = client[u] /\ request'[u] = request[u]
                /\ header'[u] = header[u] /\ body'[u] = body[u]
           /\ client'[u] = "payload" => body'[u] = <<>>
  PROVE  Matched'
<1>1. Receiving' = Receiving
  BY DEF Receiving
<1>2. ASSUME NEW u \in Threads
      PROVE  InPair(u)'
  <2>1. CASE client'[u] \in {"header", "body"}
    <3>1. /\ client'[u] = client[u] /\ request'[u] = request[u]
          /\ header'[u] = header[u] /\ body'[u] = body[u] /\ InPair(u)
      BY <2>1 DEF Before, Matched
    <3>2. BodyThere(u)' <=> BodyThere(u)
      BY <3>1 DEF BodyThere
    <3> QED
      BY <2>1, <3>1, <3>2 DEF InPair
  <2>2. CASE client'[u] \notin {"header", "body"}
    BY <2>2 DEF InPair
  <2> QED
    BY <2>1, <2>2
<1>3. Receiving' = {} => AllAnswered' /\ AllBytes(toClient')
  BY <1>1 DEF Before, Matched
<1> QED
  BY <1>2, <1>3 DEF Matched

\* Nobody receives yet: all was answered, and nothing but left bytes is on its way.
LEMMA NobodyReceives ==
  ASSUME Before, \A u \in Threads : client[u] \notin {"header", "body"}
  PROVE  AllAnswered /\ AllBytes(toClient)
  BY DEF Before, Matched, Receiving

LEMMA MatchedSendHeader ==
  ASSUME Before, Calm', Alone', NEW t \in Threads, SendHeader(t)
  PROVE  Matched'
<1>1. /\ ~split /\ client[t] = "idle"
      /\ \A u \in Threads : client[u] # "payload"
      /\ UNCHANGED <<server, serving, toClient>>
  BY DEF SendHeader, OtherIn, Typed, serverVars, Before, Calm
<1>2. Typed /\ Steady
  BY DEF InStep, Before, Calm
<1>3. PICK r \in Request, h \in Units :
        /\ h.kind = "head" /\ Req(h) = r
        /\ request'[t] = r /\ \A u \in Threads \ {t} : request'[u] = request[u]
        /\ IF Payload(r) = <<>> THEN Receives(t) ELSE Become(t, "payload") /\ UNCHANGED mixed
        /\ Grown(toServer, <<h>>, toServer')
        /\ Len(toServer') = Len(toServer) + 1 /\ toServer'[Len(toServer) + 1] = h
  BY <1>2, HeaderSent
<1>4. PICK L \in Nat : L = Len(toServer)
  BY <1>2, StreamLengths
<1>5. Len(toServer') = L + 1 /\ toServer'[L + 1] = h
  BY <1>3, <1>4
<1>6. /\ L + 1 \in Heads(toServer')
      /\ \A i \in Heads(toServer') :
           i = L + 1 \/ (i \in Heads(toServer) /\ Ends(toServer, i) <= L
                           /\ Ends(toServer', i) = Ends(toServer, i))
  BY <1>1, <1>2, <1>3, <1>4, <1>5, HeadsAfter
<1>7. FrontWhole' = (server = "payload") /\ FrontWhole = (server = "payload")
  <2>1. Len(Front) <= L /\ Len(Front) \in Nat /\ Front' = Front
    BY <1>1, <1>2, <1>4, NobodyOwes, FrontShape DEF Front
  <2> QED
    BY <1>1, <1>4, <1>5, <2>1 DEF FrontWhole
<1>8. PICK n \in Nat : n = Len(Payload(r))
  BY PayloadShape
<1>9. Ends(toServer', L + 1) = L + 1 + n /\ Req(toServer'[L + 1]) = r
  BY <1>3, <1>5, <1>8 DEF Ends
<1>10. /\ body'[t] = <<>> /\ \A u \in Threads \ {t} : header'[u] = header[u] /\ body'[u] = body[u]
  BY <1>2 DEF SendHeader, Typed
<1>11. \A i \in Heads(toServer) :
         /\ i \in Heads(toServer') /\ Ends(toServer', i) = Ends(toServer, i)
         /\ toServer'[i] = toServer[i] /\ Ends(toServer, i) <= L /\ i \in 1 .. L
         /\ Ends(toServer, i) \in Nat
  BY <1>1, <1>2, <1>3, <1>4, NobodyOwes, GrownHeads, HeadsNat DEF Typed
<1>12. CASE Payload(r) = <<>>
  <2>1. /\ client'[t] = "header" /\ \A u \in Threads \ {t} : client'[u] = client[u]
        /\ \A u \in Threads : client[u] \notin {"header", "body"}
    BY <1>1, <1>2, <1>3, <1>12 DEF Receives, Become, Typed, OtherIn, Calm
  <2>2. AllAnswered /\ AllBytes(toClient)
    BY <2>1, NobodyReceives
  <2>3. Heads(toServer) = {}
    BY <1>4, <1>11, <2>2 DEF AllAnswered, Whole
  <2>4. n = 0
    BY <1>8, <1>12, NoUnits
  <2>5. Whole(toServer') = {L + 1}
    BY <1>5, <1>6, <1>9, <2>3, <2>4 DEF Whole
  <2>6. ~FrontWhole'
    BY <1>7, <2>2 DEF AllAnswered
  <2>7. Unanswered(request[t])'
    BY <1>3, <1>6, <1>9, <2>5, <2>6 DEF Unanswered
  <2>8. InPair(t)'
    BY <1>1, <1>10, <2>1, <2>2, <2>7 DEF InPair
  <2>9. \A u \in Threads : client'[u] # "payload"
    BY <1>1, <2>1
  <2> QED
    BY <2>1, <2>8, <2>9, MatchedByOne
<1>13. CASE Payload(r) # <<>>
  <2>1. client'[t] = "payload" /\ \A u \in Threads \ {t} : client'[u] = client[u]
    BY <1>2, <1>3, <1>13 DEF Become, Typed
  <2>2. n > 0
    BY <1>8, <1>13, PayloadShape
  <2>3. Whole(toServer') = Whole(toServer)
    <3>1. L + 1 \notin Whole(toServer')
      BY <1>5, <1>9, <2>2 DEF Whole
    <3>2. \A i \in Whole(toServer') : i \in Whole(toServer)
      BY <1>4, <1>6, <3>1 DEF Whole
    <3>3. \A i \in Whole(toServer) : i \in Whole(toServer')
      BY <1>5, <1>11 DEF Whole
    <3> QED
      BY <3>2, <3>3
  <2>4. AllAnswered' <=> AllAnswered
    BY <1>7, <2>3 DEF AllAnswered
  <2>5. ASSUME NEW q PROVE Unanswered(q)' <=> Unanswered(q)
    <3>1. \A i : Whole(toServer) = {i} => i \in Heads(toServer)
      BY DEF Whole
    <3>2. \A i : Whole(toServer) = {i} => toServer'[i] = toServer[i] /\ i \in Heads(toServer')
      BY <1>11, <3>1
    <3> QED
      BY <1>1, <1>7, <2>3, <3>1, <3>2 DEF Unanswered
  <2>6. \A u \in Threads : client'[u] = "payload" => body'[u] = <<>>
    BY <1>1, <1>10, <2>1
  <2>7. \A u \in Threads :
          /\ client'[u] \in {"header", "body"} <=> client[u] \in {"header", "body"}
          /\ client'[u] \in {"header", "body"} =>
               /\ client'[u] = client[u] /\ request'[u] = request[u]
               /\ header'[u] = header[u] /\ body'[u] = body[u]
    BY <1>1, <1>3, <1>10, <2>1
  <2> QED
    BY <1>1, <2>4, <2>5, <2>6, <2>7, MatchedQuiet
<1> QED
  BY <1>12, <1>13
LEMMA MatchedSendPayload ==
  ASSUME Before, Calm', Alone', NEW t \in Threads, SendPayload(t)
  PROVE  Matched'
<1>1. Typed /\ Steady
  BY DEF InStep, Before, Calm
<1>2. /\ client[t] = "payload" /\ body[t] = <<>>
      /\ UNCHANGED <<server, serving, toClient, request, header, body>>
  BY DEF SendPayload, serverVars, Before, Matched, InPair
<1>3. PICK x : x = Payload(request[t])
  OBVIOUS
<1>4. x \in Seq(Units) /\ AllBytes(x) /\ Len(x) \in Nat /\ x # <<>> /\ request[t] \in Request
  BY <1>1, <1>2, <1>3, PayloadShape DEF Typed, Steady, PayloadOwed
<1>5. Grown(toServer, x, toServer')
  BY <1>1, <1>3, <1>4, ConcatGrows DEF SendPayload, Typed
<1>6. PICK L \in Nat : L = Len(toServer)
  BY <1>1, StreamLengths
<1>7. Len(toServer') = L + Len(x) /\ Len(x) > 0
  BY <1>4, <1>5, <1>6 DEF Grown
<1>8. /\ client'[t] = "header" /\ \A u \in Threads \ {t} : client'[u] = client[u]
      /\ \A u \in Threads : client[u] \notin {"header", "body"}
      /\ \A u \in Threads : client'[u] # "payload"
  BY <1>1, <1>2 DEF SendPayload, Receives, Become, Typed, OtherIn, Calm, Steady, PayloadOwed
<1>9. AllAnswered /\ AllBytes(toClient)
  BY <1>8, NobodyReceives
<1>10. \A i \in Heads(toServer') : i \in Heads(toServer) /\ Ends(toServer', i) = Ends(toServer, i)
  BY <1>4, <1>5, NewHeads
<1>11. Front' = Front /\ Len(Front) \in Nat
  BY <1>1, <1>2, FrontShape DEF Front
<1>12. Unanswered(request[t])'
  <2>1. CASE toServer # <<>> /\ L \in Heads(toServer) /\ Req(toServer[L]) = request[t]
    <3>1. server # "payload"
      BY <1>1, <1>9, <2>1 DEF Steady, OnlyLastOpen, AllAnswered, FrontWhole
    <3>2. L \in Heads(toServer') /\ toServer'[L] = toServer[L]
      BY <1>5, <2>1, GrownHeads
    <3>3. Ends(toServer', L) = Len(toServer')
      BY <1>3, <1>7, <2>1, <3>2 DEF Ends
    <3>4. \A i \in Heads(toServer') : i = L
      BY <1>1, <1>6, <1>9, <1>10 DEF Steady, OnlyLastOpen, AllAnswered, Whole
    <3>5. Whole(toServer') = {L}
      <4>1. Ends(toServer', L) <= Len(toServer')
        BY <1>4, <1>6, <1>7, <3>3
      <4> QED
        BY <3>2, <3>4, <4>1 DEF Whole
    <3>6. ~FrontWhole'
      BY <1>2, <3>1 DEF FrontWhole
    <3> QED
      BY <1>2, <2>1, <3>2, <3>5, <3>6 DEF Unanswered
  <2>2. CASE toServer = <<>> /\ server = "payload" /\ serving = request[t]
    <3>1. Front = x /\ L = 0 /\ Heads(toServer) = {}
      BY <1>3, <1>6, <2>2 DEF Front, Heads
    <3>2. Whole(toServer') = {} /\ FrontWhole'
      BY <1>2, <1>4, <1>7, <1>10, <1>11, <2>2, <3>1 DEF Whole, FrontWhole
    <3> QED
      BY <1>2, <2>2, <3>2 DEF Unanswered
  <2> QED
    BY <1>1, <1>2, <1>6, <2>1, <2>2 DEF Steady, PayloadOwed
<1>13. InPair(t)'
  BY <1>2, <1>8, <1>9, <1>12 DEF InPair
<1> QED
  BY <1>8, <1>13, MatchedByOne

\* The thread that receives, and the others.
LEMMA ReceiverAlone ==
  ASSUME Before, NEW t \in Threads, client[t] \in {"header", "body"}
  PROVE  InPair(t) /\ \A u \in Threads \ {t} : client[u] \notin {"header", "body"}
  BY DEF Before, Alone, Matched, Calm, Receiving, OtherIn

LEMMA MatchedRecvHeader ==
  ASSUME Before, Calm', Alone', NEW t \in Threads, RecvHeader(t)
  PROVE  Matched'
<1>1. Typed
  BY DEF Before
<1>2. /\ client[t] = "header" /\ toClient # <<>> /\ toClient' = Tail(toClient)
      /\ header'[t] = toClient[1] /\ UNCHANGED <<toServer, server, serving, request, body>>
      /\ \A u \in Threads \ {t} : client'[u] = client[u]
      /\ toClient[1].kind = "head" /\ client'[t] = "body"
  BY <1>1 DEF RecvHeader, Accepted, Refused, Become, serverVars, Typed, Calm
<1>3. toClient \in Seq(Units) /\ request[t] \in Request
  BY <1>1, <1>2 DEF Typed
<1>4. ~AllBytes(toClient)
  BY <1>2, <1>3 DEF AllBytes
<1>5. body[t] = <<>> /\ AllAnswered /\ ReplyThere(toClient, request[t])
  BY <1>2, <1>4, ReceiverAlone DEF InPair
<1>6. PICK r \in Request, b \in Seq(Units) : r = request[t] /\ b = Body(r)
  BY <1>3, BodyShape
<1>7. /\ toClient[1] = HeaderUnit(r.op, r.offset, Announced(r))
      /\ Len(toClient') = Len(b) /\ \A i \in 1 .. Len(toClient') : toClient'[i] = b[i]
  BY <1>2, <1>3, <1>5, <1>6, ReplyAtHead
<1>8. BodyThere(t)'
  <2>1. Len(b) \in Nat /\ Len(body'[t]) = 0 /\ request'[t] = r
    BY <1>2, <1>5, <1>6
  <2> QED
    BY <1>2, <1>6, <1>7, <2>1 DEF BodyThere
<1>9. AllAnswered'
  BY <1>2, <1>5, SameAnswered
<1>10. InPair(t)'
  BY <1>2, <1>8, <1>9 DEF InPair
<1>11. \A u \in Threads : client'[u] = "payload" => body'[u] = <<>>
  BY <1>2 DEF Before, Matched, InPair
<1> QED
  BY <1>2, <1>10, <1>11, MatchedByOne

LEMMA MatchedRecvBody ==
  ASSUME Before, Calm', Alone', NEW t \in Threads, RecvBody(t)
  PROVE  Matched'
<1>1. Typed
  BY DEF Before
<1>2. /\ client[t] = "body" /\ toClient # <<>> /\ toClient' = Tail(toClient)
      /\ body'[t] = Append(body[t], toClient[1])
      /\ \A u \in Threads \ {t} : body'[u] = body[u]
      /\ UNCHANGED <<toServer, server, serving, request, header, client>>
  BY <1>1 DEF RecvBody, serverVars, Typed
<1>3. toClient \in Seq(Units) /\ request[t] \in Request /\ toClient[1] \in Units
      /\ body[t] \in Seq(Units)
  BY <1>1, <1>2 DEF Typed
<1>4. AllAnswered /\ BodyThere(t)
  BY <1>2, ReceiverAlone DEF InPair
<1>5. PICK b \in Seq(Units) : b = Body(request[t])
  BY <1>3, BodyShape
<1>6. Grown(body[t], <<toClient[1]>>, body'[t]) /\ Dropped(toClient, toClient', 1)
  BY <1>2, <1>3, AppendGrows, TailDrops
<1>7. PICK m \in Nat, n \in Nat : m = Len(body[t]) /\ n = Len(toClient)
  BY <1>3
<1>8. /\ Len(body'[t]) = m + 1 /\ body'[t][m + 1] = toClient[1]
      /\ \A i \in 1 .. m : body'[t][i] = body[t][i]
  BY <1>2, <1>3, <1>7, AppendProperties
<1>9. n >= 1 /\ Len(toClient') = n - 1 /\ \A i \in 1 .. n - 1 : toClient'[i] = toClient[1 + i]
  BY <1>2, <1>3, <1>6, <1>7 DEF Dropped
<1>10. /\ m + n = Len(b) /\ \A i \in 1 .. m : body[t][i] = b[i]
       /\ \A i \in 1 .. n : toClient[i] = b[m + i]
  BY <1>4, <1>5, <1>7 DEF BodyThere
<1>11. toClient[1] = b[m + 1]
  BY <1>9, <1>10
<1>12. \A i \in 1 .. m + 1 : body'[t][i] = b[i]
  BY <1>7, <1>8, <1>10, <1>11
<1>13. \A i \in 1 .. n - 1 : toClient'[i] = b[(m + 1) + i]
  <2> SUFFICES ASSUME NEW i \in 1 .. n - 1 PROVE toClient'[i] = b[(m + 1) + i]
    OBVIOUS
  <2>1. i \in Nat /\ m \in Nat /\ n \in Nat
    BY <1>7
  <2>2. 1 + i \in 1 .. n /\ m + (1 + i) = (m + 1) + i
    BY <2>1
  <2> QED
    BY <1>9, <1>10, <2>2
<1>14. (m + 1) + (n - 1) = Len(b)
  <2>1. m \in Nat /\ n \in Nat
    BY <1>7
  <2>2. (m + 1) + (n - 1) = m + n
    BY <2>1
  <2> QED
    BY <1>10, <2>2
<1>15. BodyThere(t)'
  BY <1>2, <1>4, <1>5, <1>8, <1>9, <1>12, <1>13, <1>14 DEF BodyThere
<1>16. AllAnswered'
  BY <1>2, <1>4, SameAnswered
<1>17. InPair(t)'
  BY <1>2, <1>15, <1>16 DEF InPair
<1>18. \A u \in Threads : client'[u] = "payload" => body'[u] = <<>>
  BY <1>2 DEF Before, Matched, InPair
<1> QED
  BY <1>2, <1>17, <1>18, MatchedByOne

LEMMA MatchedReturn ==
  ASSUME Before, NEW t \in Threads, Return(t)
  PROVE  Matched'
<1>1. Typed
  BY DEF Before
<1>2. /\ client[t] = "body" /\ client'[t] = "idle"
      /\ \A u \in Threads \ {t} : client'[u] = client[u]
      /\ UNCHANGED <<toServer, server, serving, request, header, body, toClient>>
  BY <1>1 DEF Return, Become, serverVars, Typed
<1>3. AllAnswered /\ BodyThere(t) /\ \A u \in Threads \ {t} : client[u] \notin {"header", "body"}
  BY <1>2, ReceiverAlone DEF InPair
<1>4. PICK b \in Seq(Units) : b = Body(request[t]) /\ AllBytes(b)
  BY <1>1, <1>2, BodyShape DEF Typed
<1>5. PICK m \in Nat, n \in Nat : m = Len(body[t]) /\ n = Len(toClient)
  BY <1>1 DEF Typed
<1>6. m + n = Len(b) /\ \A i \in 1 .. n : toClient[i] = b[m + i]
  BY <1>3, <1>4, <1>5 DEF BodyThere
<1>7. \A i \in 1 .. n : m + i \in 1 .. Len(b)
  BY <1>5, <1>6
<1>8. AllBytes(toClient)
  BY <1>4, <1>5, <1>6, <1>7 DEF AllBytes
<1>9. AllAnswered'
  BY <1>2, <1>3, SameAnswered
<1>10. \A u \in Threads : InPair(u)'
  BY <1>2, <1>3 DEF Before, Matched, InPair
<1> QED
  BY <1>2, <1>8, <1>9, <1>10 DEF Matched
\* The server takes the header of a message that is not all there, whose thread does not
\* receive yet, or of the one that a thread waits to be answered.
LEMMA MatchedServeHeader ==
  ASSUME Before, Calm', Alone', ServeHeader
  PROVE  Matched'
<1>1. Typed /\ Steady
  BY DEF InStep, Before, Calm
<1>2. server = "header" /\ toServer # <<>> /\ toServer \in Seq(Units) /\ ~FrontWhole
  BY <1>1 DEF ServeHeader, Typed, FrontWhole
<1>3. PICK r \in Request : r = Req(toServer[1])
  BY <1>1, <1>2, FirstIsHead
<1>4. 1 \in Heads(toServer) /\ toServer[1].kind = "head"
  BY <1>1, <1>2, FirstIsHead
<1>5. /\ serving' = r
      /\ server' = IF Payload(r) = <<>> THEN "header" ELSE "payload"
      /\ toClient' = IF Payload(r) = <<>> THEN toClient \o Reply(r) ELSE toClient
      /\ UNCHANGED <<client, request, header, body>> /\ toServer' = Tail(toServer)
  BY <1>3, <1>4, ExpectedIsPayload DEF ServeHeader, Req, clientVars
<1>6. Front' = Payload(r)
  BY <1>5 DEF Front
<1>7. Dropped(toServer, toServer', 1)
  BY <1>2, <1>5, TailDrops
<1>8. PICK L \in Nat : L = Len(toServer)
  BY <1>1, StreamLengths
<1>9. L >= 1 /\ Len(toServer') = L - 1
  BY <1>7, <1>8 DEF Dropped
<1>10. PICK n \in Nat : n = Len(Payload(r))
  BY PayloadShape
<1>11. Ends(toServer, 1) = 1 + n
  BY <1>3, <1>10 DEF Ends
<1>12. \A u \in Threads : client'[u] = "payload" => body'[u] = <<>>
  BY <1>5 DEF Before, Matched, InPair
<1>13. CASE 1 + n <= L
  <2>1. 1 \in Whole(toServer)
    BY <1>4, <1>8, <1>11, <1>13 DEF Whole
  <2>2. PICK t \in Threads :
          /\ client[t] = "header" /\ Unanswered(request[t]) /\ AllBytes(toClient)
          /\ body[t] = <<>>
    BY <1>1, <2>1, SomebodyWaits DEF AllAnswered, Before
  <2>3. Whole(toServer) = {1} /\ request[t] = r
    BY <1>2, <1>3, <2>1, <2>2 DEF Unanswered
  <2>4. Whole(toServer') = {}
    <3>1. ASSUME NEW i \in Whole(toServer') PROVE FALSE
      <4>1. 1 + i \in Whole(toServer) /\ i \in Nat \ {0}
        BY <1>7, DropWhole
      <4> QED
        BY <2>3, <4>1
    <3> QED
      BY <3>1
  <2>5. InPair(t)'
    <3>1. CASE Payload(r) = <<>>
      <4>1. AllAnswered'
        BY <1>5, <2>4, <3>1 DEF AllAnswered, FrontWhole
      <4>2. ReplyThere(toClient', r)
        BY <1>1, <1>5, <2>2, <3>1, ReplyAppended DEF Typed
      <4> QED
        BY <1>5, <2>2, <2>3, <4>1, <4>2 DEF InPair
    <3>2. CASE Payload(r) # <<>>
      <4>1. FrontWhole'
        BY <1>5, <1>6, <1>9, <1>10, <1>13, <3>2 DEF FrontWhole
      <4>2. Unanswered(r)'
        BY <1>5, <2>4, <4>1 DEF Unanswered
      <4> QED
        BY <1>5, <2>2, <2>3, <3>2, <4>2 DEF InPair
    <3> QED
      BY <3>1, <3>2
  <2> QED
    BY <1>5, <1>12, <2>2, <2>5, MatchedByOne
<1>14. CASE ~(1 + n <= L)
  <2>1. L = 1
    <3>1. Ends(toServer, 1) <= Len(toServer) \/ 1 = Len(toServer)
      BY <1>1, <1>4 DEF Steady, OnlyLastOpen
    <3> QED
      BY <1>8, <1>11, <1>14, <3>1
  <2>2. toServer' = <<>> /\ Heads(toServer') = {} /\ Whole(toServer') = {}
    BY <1>7, <1>9, <2>1 DEF Dropped, Heads, Whole
  <2>3. Payload(r) # <<>>
    BY <1>9, <1>10, <1>14, NoUnits
  <2>4. ~FrontWhole'
    BY <1>6, <1>8, <1>9, <1>10, <1>14 DEF FrontWhole
  <2>5. Heads(toServer) \subseteq {1} /\ 1 \notin Whole(toServer)
    BY <1>8, <1>11, <1>14, <2>1 DEF Heads, Whole
  <2>6. Whole(toServer) = {}
    BY <2>5 DEF Whole
  <2>7. AllAnswered' /\ AllAnswered
    BY <1>2, <2>2, <2>4, <2>6 DEF AllAnswered
  <2>8. \A q : ~Unanswered(q) /\ ~Unanswered(q)'
    BY <1>2, <2>2, <2>4, <2>6 DEF Unanswered
  <2>9. toClient' = toClient
    BY <1>5, <2>3
  <2> QED
    BY <1>5, <1>12, <2>7, <2>8, <2>9, MatchedQuiet
<1> QED
  BY <1>13, <1>14

LEMMA MatchedServePayload ==
  ASSUME Before, Calm', Alone', ServePayload
  PROVE  Matched'
<1>1. Typed /\ Steady
  BY DEF InStep, Before, Calm
<1>2. /\ server = "payload" /\ server' = "header" /\ serving \in Request
      /\ toClient' = toClient \o Reply(serving)
      /\ UNCHANGED <<serving, client, request, header, body>>
  BY <1>1 DEF ServePayload, Typed, clientVars
<1>3. Front = Payload(serving)
  BY <1>2 DEF Front
<1>4. FrontWhole
  BY <1>1, <1>2, <1>3, FrontShape, StreamLengths, ReceivesPayload DEF ServePayload, FrontWhole
<1>5. PICK t \in Threads :
        /\ client[t] = "header" /\ Unanswered(request[t]) /\ AllBytes(toClient)
        /\ body[t] = <<>>
  BY <1>1, <1>4, SomebodyWaits DEF AllAnswered, Before
<1>6. Whole(toServer) = {} /\ serving = request[t]
  BY <1>4, <1>5 DEF Unanswered
<1>7. PICK k \in 0 .. Len(toServer) : k = Len(Front)
  BY <1>1, <1>4, FrontShape, StreamLengths DEF FrontWhole
<1>8. Dropped(toServer, toServer', k)
  BY <1>1, <1>2, <1>3, <1>7, SubSeqDrops, ReceivesPayload DEF ServePayload, Typed
<1>9. Whole(toServer') = {}
  <2>1. k \in Nat
    BY <1>1, <1>7, StreamLengths
  <2>2. ASSUME NEW i \in Whole(toServer') PROVE FALSE
    BY <1>6, <1>8, <2>1, DropWhole
  <2> QED
    BY <2>2
<1>10. AllAnswered'
  BY <1>2, <1>9 DEF AllAnswered, FrontWhole
<1>11. ReplyThere(toClient', request[t])
  BY <1>1, <1>2, <1>5, <1>6, ReplyAppended DEF Typed
<1>12. InPair(t)'
  BY <1>2, <1>5, <1>10, <1>11 DEF InPair
<1>13. \A u \in Threads : client'[u] = "payload" => body'[u] = <<>>
  BY <1>2 DEF Before, Matched, InPair
<1> QED
  BY <1>2, <1>5, <1>12, <1>13, MatchedByOne

LEMMA MatchedStep == Typed /\ InStep /\ Alone /\ Matched /\ [Next]_vars => Matched'
<1> SUFFICES ASSUME Typed, InStep, Alone, Matched, [Next]_vars, Calm' PROVE Matched'
  BY DEF Matched
<1>1. Before /\ Alone'
  BY CalmStep, AloneStep DEF Before
<1>2. CASE UNCHANGED vars
  <2>1. UNCHANGED <<toServer, server, serving, toClient, client, request, header, body>>
    BY <1>2 DEF vars
  <2>2. \A u \in Threads : client[u] = "payload" => body[u] = <<>>
    BY <1>1 DEF Before, Matched, InPair
  <2> QED
    BY <1>1, <2>1, <2>2, SameAnswered, MatchedQuiet
<1>3. ASSUME NEW t \in Threads, TimeOut(t) PROVE FALSE
  BY <1>3 DEF TimeOut, Become, Typed, Calm
<1> QED
  BY <1>1, <1>2, <1>3, MatchedSendHeader, MatchedSendPayload, MatchedRecvHeader, MatchedRecvBody,
     MatchedReturn, MatchedServeHeader, MatchedServePayload
  DEF Next, Serve, Finish

LEMMA MatchedInit == Init => Alone /\ Matched
<1> SUFFICES ASSUME Init PROVE Alone /\ Matched
  OBVIOUS
<1>1. \A t \in Threads : client[t] = "idle"
  BY DEF Init
<1>2. Heads(toServer) = {} /\ AllBytes(toClient)
  BY NoUnits DEF Init, Heads
<1>3. AllAnswered
  BY <1>2 DEF Init, AllAnswered, FrontWhole, Whole
<1> QED
  BY <1>1, <1>2, <1>3 DEF Alone, Matched, InPair, Receiving

LEMMA ConnectionInvariant == Spec => [](Typed /\ InStep /\ Alone /\ Matched)
<1>1. Init => Typed /\ InStep /\ Alone /\ Matched
  BY TypedInit, InStepInit, MatchedInit
<1>2. Typed /\ InStep /\ Alone /\ Matched /\ [Next]_vars
        => (Typed /\ InStep /\ Alone /\ Matched)'
  BY TypedStep, InStepStep, AloneStep, MatchedStep
<1> QED
  BY <1>1, <1>2, PTL DEF Spec

\* A body that is all there, and as long as the reply announced, is the right one.
LEMMA ReturnedOwn ==
  ASSUME Typed, Alone, Matched, NEW t \in Threads, Return(t), ~split, ~mixed,
         request[t].op \in Plain
  PROVE  header[t].op = request[t].op /\ body[t] = Body(request[t]) /\ toClient = <<>>
<1>1. client[t] = "body" /\ Len(body[t]) = header[t].n
  BY DEF Return
<1>2. Calm
  BY <1>1 DEF Calm, Alone, Receiving, OtherIn
<1>3. BodyThere(t)
  BY <1>1, <1>2 DEF Matched, InPair
<1>4. PICK r \in Request : r = request[t]
  BY <1>1 DEF Typed
<1>5. PICK b \in Seq(Units) : b = Body(r) /\ Len(b) = Announced(r)
  BY <1>4, BodyShape
<1>6. /\ header[t] = HeaderUnit(r.op, r.offset, Announced(r))
      /\ Len(body[t]) + Len(toClient) = Len(b)
      /\ \A i \in 1 .. Len(body[t]) : body[t][i] = b[i]
  BY <1>3, <1>4, <1>5 DEF BodyThere
<1>7. header[t].op = r.op /\ header[t].n = Announced(r)
  BY <1>6 DEF HeaderUnit
<1>8. PICK s \in Seq(Units), w \in Seq(Units) : s = body[t] /\ w = toClient
  BY DEF Typed
<1>9. Len(s) = Len(b) /\ Len(w) = 0
  BY <1>1, <1>5, <1>6, <1>7, <1>8
<1>10. s = b
  BY <1>6, <1>8, <1>9
<1>11. w = <<>>
  BY <1>9
<1> QED
  BY <1>4, <1>5, <1>7, <1>8, <1>10, <1>11

(***************************************************************************)
(* However many threads share the socket and whatever was sent before,     *)
(* while none has received beside another or after another raised, nor     *)
(* sent into another's request, a request that is not a write or a         *)
(* transfer of blocks returns with its own reply, complete, and leaves     *)
(* nothing behind; bytes that a BLOCK_READ left are not taken for it       *)
(* (server.py:199-241, 270; ramlink_client.py:126-132; client.py:20-25).   *)
(***************************************************************************)
THEOREM ConnectionRepliesMatch == Spec => RepliesMatch
<1>1. Typed /\ InStep /\ Alone /\ Matched /\ [Next]_vars =>
        [\A t \in Threads :
           Returned(t) /\ request[t].op \in Plain /\ ~split /\ ~mixed =>
             header[t].op = request[t].op /\ body[t] = Body(request[t]) /\ toClient = <<>>]_vars
  <2> SUFFICES ASSUME Typed, Alone, Matched, Next, NEW t \in Threads, Returned(t),
                      request[t].op \in Plain, ~split, ~mixed
               PROVE  header[t].op = request[t].op /\ body[t] = Body(request[t])
                        /\ toClient = <<>>
    OBVIOUS
  <2>1. Return(t)
    BY DEF Next, Serve, ServeHeader, ServePayload, SendHeader, SendPayload, Finish, RecvHeader,
           RecvBody, TimeOut, Receives, Become, clientVars, Typed, Returned, Return
  <2> QED
    BY <2>1, ReturnedOwn
<1> QED
  BY <1>1, ConnectionInvariant, PTL DEF Spec, RepliesMatch

-----------------------------------------------------------------------------
(***************************************************************************)
(* The part of PlainRequestsReturn that needs no fairness: in such a calm  *)
(* connection borrower and server never wait for each other.  A request    *)
(* that is not a write or a transfer of blocks never times out, whatever   *)
(* was left unread before it; if it raises, then at once, over a byte that *)
(* it takes for its header (server.py:199-241, 270, 276-284;               *)
(* ramlink_client.py:126-132; client.py:20-25, 40-44).                     *)
(***************************************************************************)
Waits(t) == client[t] = "header" \/ (client[t] = "body" /\ Len(body[t]) < header[t].n)

NobodySends == toClient = <<>> /\ ServerWaits

PlainNeverStarves ==
    Calm => \A t \in Threads :
              Waits(t) /\ request[t].op \in Plain => ~NobodySends

RaisesOnlyOverLeftovers ==
    [][\A t \in Threads :
         Calm /\ request[t].op \in Plain /\ client'[t] = "raised" =>
           client[t] = "header" /\ toClient # <<>> /\ toClient[1].kind = "byte"]_vars

\* A request that the server has complete keeps it from waiting.
LEMMA UnansweredIsServed ==
  ASSUME Typed, Steady, NEW r, Unanswered(r)
  PROVE  ~ServerWaits
<1>1. CASE FrontWhole
  BY <1>1, ReceivesPayload DEF FrontWhole, Front, ServerWaits
<1>2. CASE ~FrontWhole
  <2>1. PICK i \in Heads(toServer) : Whole(toServer) = {i}
    BY <1>2 DEF Unanswered
  <2>2. PICK s \in Seq(Units) : s = toServer
    BY DEF Typed
  <2>3. s # <<>>
    BY <2>1, <2>2 DEF Heads
  <2>4. server # "closed" /\ Len(Front) <= Len(s)
    BY <2>2, <2>3 DEF Steady, OnlyLastOpen
  <2>5. server = "header"
    BY <1>2, <2>2, <2>4 DEF FrontWhole, Typed
  <2> QED
    BY <2>2, <2>3, <2>5 DEF ServerWaits
<1> QED
  BY <1>1, <1>2

LEMMA PlainIsAnswered ==
  ASSUME Typed, InStep, Matched, Calm, NEW t \in Threads, Waits(t), request[t].op \in Plain
  PROVE  ~NobodySends
<1>1. InPair(t) /\ Steady /\ client[t] \in {"header", "body"}
  BY DEF Matched, InStep, Calm, Waits
<1>2. PICK r \in Request : r = request[t]
  BY <1>1 DEF Typed
<1>3. PICK w \in Seq(Units) : w = toClient
  BY DEF Typed
<1>4. PICK b \in Seq(Units) : b = Body(r) /\ Len(b) = Announced(r)
  BY <1>2, BodyShape
<1>5. CASE client[t] = "header" /\ Unanswered(r)
  BY <1>1, <1>5, UnansweredIsServed DEF NobodySends
<1>6. CASE client[t] = "header" /\ ReplyThere(w, r)
  <2>1. PICK k \in 0 .. Len(w) : Len(w) = k + Len(Reply(r))
    BY <1>6 DEF ReplyThere
  <2>2. Len(w) > 0
    BY <1>4, <2>1, ReplyShape
  <2> QED
    BY <1>3, <2>2 DEF NobodySends
<1>7. CASE client[t] = "body"
  <2>1. header[t].n = Len(b)
    BY <1>1, <1>2, <1>4, <1>7 DEF InPair, BodyThere, HeaderUnit
  <2>2. Len(body[t]) + Len(w) = Len(b)
    BY <1>1, <1>2, <1>3, <1>4, <1>7 DEF InPair, BodyThere
  <2>3. Len(body[t]) < Len(b)
    BY <1>7, <2>1 DEF Waits
  <2> QED
    BY <1>3, <2>2, <2>3 DEF NobodySends
<1> QED
  BY <1>1, <1>2, <1>3, <1>5, <1>6, <1>7 DEF InPair

\* In a calm connection a thread that receives a reply to a plain request is
\* never left with an idle server and nothing on its way (server.py:199-241).
THEOREM ConnectionPlainNeverStarves == Spec => []PlainNeverStarves
<1>1. Typed /\ InStep /\ Matched => PlainNeverStarves
  BY PlainIsAnswered DEF PlainNeverStarves
<1> QED
  BY <1>1, ConnectionInvariant, PTL

\* Only a wrong magic and a time-out end a request with an exception.
LEMMA RaisingSteps ==
  ASSUME Typed, Next, NEW t \in Threads, client[t] # "raised", client'[t] = "raised"
  PROVE  RecvHeader(t) \/ TimeOut(t)
  BY DEF Next, Serve, ServeHeader, ServePayload, SendHeader, SendPayload, Finish, RecvHeader,
         RecvBody, TimeOut, Receives, Become, clientVars, Typed, Return

\* In a calm connection a plain request raises only over a byte that an earlier
\* reply left unread, taken for its header (client.py:20-25, 40-44).
THEOREM ConnectionRaisesOnlyOverLeftovers == Spec => RaisesOnlyOverLeftovers
<1>1. Typed /\ InStep /\ Matched /\ [Next]_vars =>
        [\A t \in Threads :
           Calm /\ request[t].op \in Plain /\ client'[t] = "raised" =>
             client[t] = "header" /\ toClient # <<>> /\ toClient[1].kind = "byte"]_vars
  <2> SUFFICES ASSUME Typed, InStep, Matched, Calm, Next, NEW t \in Threads,
                      request[t].op \in Plain, client'[t] = "raised"
               PROVE  client[t] = "header" /\ toClient # <<>> /\ toClient[1].kind = "byte"
    OBVIOUS
  <2>1. RecvHeader(t) \/ TimeOut(t)
    BY RaisingSteps DEF Calm
  <2>2. ~TimeOut(t)
    BY PlainIsAnswered DEF TimeOut, Waits, NobodySends
  <2>3. toClient \in Seq(Units) /\ toClient # <<>> => toClient[1] \in Units
    OBVIOUS
  <2>4. ASSUME toClient[1].kind = "head" PROVE FALSE
    <3>1. /\ client[t] = "header" /\ toClient # <<>> /\ toClient \in Seq(Units)
          /\ request[t] \in Request
          /\ request[t].op = "READ" /\ toClient[1].n # request[t].length
      BY <2>1, <2>2, <2>4 DEF RecvHeader, Accepted, Refused, Become, Typed
    <3>2. ~AllBytes(toClient)
      BY <2>4, <3>1 DEF AllBytes
    <3>3. ReplyThere(toClient, request[t])
      BY <3>1, <3>2 DEF Matched, InPair
    <3>4. toClient[1] = HeaderUnit("READ", request[t].offset, Announced(request[t]))
      BY <2>4, <3>1, <3>3, ReplyAtHead
    <3>5. Announced(request[t]) = request[t].length
      BY <3>1 DEF Announced
    <3> QED
      BY <3>1, <3>4, <3>5 DEF HeaderUnit
  <2> QED
    BY <2>1, <2>2, <2>3, <2>4 DEF RecvHeader, Typed, Units, HeadUnits, ByteUnits
<1> QED
  BY <1>1, ConnectionInvariant, PTL DEF Spec, RaisesOnlyOverLeftovers

=============================================================================
