--------------------------- MODULE LocalApiProofs ---------------------------
(***************************************************************************)
(* Theorems about LocalApi, for any number of connections, any commands    *)
(* with payloads of any length, and any way in which the payload arrives.  *)
(***************************************************************************)
EXTENDS LocalApi, SequenceTheorems, TLAPS

-----------------------------------------------------------------------------
(***************************************************************************)
(* The inductive invariant is about one connection at a time.  It accounts *)
(* for every unit of the payload: it is still to be received, or it was    *)
(* swallowed with the command line.  A handler gets past recv_all only     *)
(* when nothing was swallowed, and then it has the payload itself.         *)
(***************************************************************************)
Typed ==
    /\ caller \in [Conns -> Waiting \cup Ended]
    /\ asked \in [Conns -> Requests \cup {NoCommand}]
    /\ wire \in [Conns -> Seq(Unit)]
    /\ handler \in [Conns -> {"line", "payload", "memory", "none"}]
    /\ swallowed \in [Conns -> Nat]
    /\ taken \in [Conns -> Seq(Unit)]
    /\ reply \in [Conns -> {"none", "text", "bytes", "OK", "ERROR"}]
    /\ failed \in [Conns -> BOOLEAN]

\* What the handler has still to receive.
Arriving(c) ==
    /\ caller[c] = "line" =>
         wire[c] = <<>> /\ swallowed[c] = 0 /\ asked[c].data # <<>>
    /\ caller[c] # "line" /\ handler[c] \in {"line", "payload"} =>
         /\ Len(wire[c]) = Len(asked[c].data) - swallowed[c]
         /\ swallowed[c] = 0 => wire[c] = asked[c].data

\* What was asked of RemoteMemory for a call that is answered.
Served(c) ==
    /\ Legal(asked[c]) /\ ~failed[c]
    /\ asked[c].op = "WRITE" => taken[c] = asked[c].data

\* How far the handler has come with what it received.
Received(c) ==
    /\ handler[c] = "line" => swallowed[c] = 0
    /\ handler[c] = "payload" => asked[c].op = "WRITE" /\ WithinLimit(asked[c])
    /\ handler[c] = "memory" =>
         /\ swallowed[c] = 0 /\ asked[c].op # "PING"
         /\ asked[c].op # "STATUS" => WithinLimit(asked[c])
         /\ asked[c].op = "WRITE" => taken[c] = asked[c].data
    /\ handler[c] # "none" => reply[c] = "none" /\ ~failed[c]
    /\ handler[c] = "none" /\ swallowed[c] > 0 => reply[c] = "ERROR"

\* What a caller may make of the reply.
Answered(c) ==
    /\ caller[c] = "returned" => reply[c] \notin {"none", "ERROR"} /\ handler[c] = "none"
    /\ reply[c] \notin {"none", "ERROR"} /\ asked[c].op \in {"READ", "WRITE"} => Served(c)
    /\ caller[c] \in Waiting /\ reply[c] = "ERROR" /\ Legal(asked[c]) =>
         failed[c] \/ swallowed[c] > 0

CallInv(c) == Arriving(c) /\ Received(c) /\ Answered(c)

Inv == Typed /\ \A c \in Conns : CallInv(c)

Step(c) == Call(c) \/ Caller(c) \/ Handler(c)

\* A command carries its payload, and only a WRITE has one.
LEMMA Commands ==
  ASSUME NEW r \in Requests \cup {NoCommand}
  PROVE  /\ r.op \in {"PING", "STATUS", "READ", "WRITE"}
         /\ r.offset \in Nat /\ r.length \in Nat
         /\ r.data \in Seq(Unit) /\ Len(r.data) \in Nat
         /\ r.op = "WRITE" => Len(r.data) = r.length
         /\ r.op # "WRITE" => r.data = <<>>
<1>1. CASE r \in Requests
  BY <1>1, LocalApiAssumption
<1>2. CASE r = NoCommand
  BY <1>2 DEF NoCommand
<1> QED
  BY <1>1, <1>2

LEMMA InvInit == Init => Inv
<1> SUFFICES ASSUME Init PROVE Inv
  OBVIOUS
<1>1. Typed
  BY LocalApiAssumption DEF Init, Typed, Waiting, Ended, Unit, NoCommand
<1>2. ASSUME NEW c \in Conns
      PROVE  CallInv(c)
  BY DEF Init, CallInv, Arriving, Received, Answered, Waiting
<1> QED
  BY <1>1, <1>2 DEF Inv

-----------------------------------------------------------------------------
\* Receiving leaves a sequence of units.
LEMMA CutType ==
  ASSUME NEW s \in Seq(Unit), NEW k \in 0 .. Len(s)
  PROVE  /\ SubSeq(s, k + 1, Len(s)) \in Seq(Unit)
         /\ Len(SubSeq(s, k + 1, Len(s))) = Len(s) - k
         /\ k = 0 => SubSeq(s, k + 1, Len(s)) = s
<1>1. k + 1 \in Int /\ Len(s) \in Int /\ \A i \in k + 1 .. Len(s) : s[i] \in Unit
  OBVIOUS
<1>2. /\ SubSeq(s, k + 1, Len(s)) \in Seq(Unit)
      /\ Len(SubSeq(s, k + 1, Len(s))) = IF k + 1 <= Len(s) THEN Len(s) - (k + 1) + 1 ELSE 0
  BY <1>1, SubSeqProperties
<1>3. k = 0 => SubSeq(s, 1, Len(s)) = s
  BY SubSeqFull
<1> QED
  BY <1>2, <1>3

\* How RemoteMemory may return, by the command.
LEMMA MemoryOutcome ==
  ASSUME Inv, NEW c \in Conns, MemoryReturns(c)
  PROVE  \/ asked[c].op = "WRITE" /\ InBounds(asked[c]) /\ Close(c, "OK")
         \/ asked[c].op = "READ" /\ InBounds(asked[c]) /\ Close(c, "bytes")
         \/ asked[c].op = "STATUS" /\ Close(c, "text")
<1>1. asked[c].op \in {"STATUS", "READ", "WRITE"}
  BY Commands DEF Inv, Typed, MemoryReturns, CallInv, Received
<1>2. CASE asked[c].op = "STATUS"
  BY <1>2 DEF MemoryReturns
<1>3. CASE asked[c].op = "READ"
  BY <1>3 DEF MemoryReturns
<1>4. CASE asked[c].op = "WRITE"
  BY <1>4 DEF MemoryReturns
<1> QED
  BY <1>1, <1>2, <1>3, <1>4

LEMMA TypedStep ==
  ASSUME Inv, NEW c \in Conns, Step(c)
  PROVE  Typed'
<1> USE DEF Inv, Typed
<1>1. CASE Call(c)
  <2>1. \A r \in Requests : r.data \in Seq(Unit)
    BY Commands
  <2>2. PICK r \in Requests, sends \in {1, 2} :
          /\ asked' = [asked EXCEPT ![c] = r]
          /\ wire' = [wire EXCEPT ![c] = IF sends = 1 THEN r.data ELSE <<>>]
          /\ caller' = [caller EXCEPT ![c] =
                          IF sends = 1 \/ r.data = <<>> THEN "sent" ELSE "line"]
    BY <1>1 DEF Call
  <2> QED
    BY <1>1, <2>1, <2>2 DEF Call, Waiting, Ended
<1>2. CASE Caller(c)
  <2>1. asked[c].data \in Seq(Unit)
    BY Commands
  <2> QED
    BY <1>2, <2>1 DEF Caller, SendPayload, Answer, TimeOut, Waiting, Ended
<1>3. CASE RecvLine(c)
  <2>1. PICK k \in 0 .. Len(wire[c]) :
          /\ swallowed' = [swallowed EXCEPT ![c] = k]
          /\ wire' = [wire EXCEPT ![c] = SubSeq(@, k + 1, Len(@))]
    BY <1>3 DEF RecvLine
  <2>2. SubSeq(wire[c], k + 1, Len(wire[c])) \in Seq(Unit)
    BY CutType
  <2>3. \/ Close(c, "text") \/ Close(c, "ERROR")
        \/ /\ handler' = [handler EXCEPT ![c] =
                            IF asked[c].op = "WRITE" THEN "payload" ELSE "memory"]
           /\ UNCHANGED reply
    BY <1>3, Zenon DEF RecvLine
  <2>4. UNCHANGED <<caller, asked, taken, failed>>
    BY <1>3 DEF RecvLine
  <2>5. swallowed' \in [Conns -> Nat] /\ wire' \in [Conns -> Seq(Unit)]
    BY <2>1, <2>2
  <2>6. /\ handler' \in [Conns -> {"line", "payload", "memory", "none"}]
        /\ reply' \in [Conns -> {"none", "text", "bytes", "OK", "ERROR"}]
    BY <2>3 DEF Close
  <2> QED
    BY <2>4, <2>5, <2>6
<1>4. CASE RecvPayload(c)
  <2>1. asked[c].length \in Nat /\ asked[c].length <= Len(wire[c])
    BY <1>4, Commands DEF RecvPayload, Starving
  <2>2. SubSeq(wire[c], asked[c].length + 1, Len(wire[c])) \in Seq(Unit)
    BY <2>1, CutType
  <2>3. SubSeq(wire[c], 1, asked[c].length) \in Seq(Unit)
    <3>1. \A i \in 1 .. asked[c].length : wire[c][i] \in Unit
      BY <2>1
    <3> QED
      BY <2>1, <3>1, SubSeqProperties
  <2> QED
    BY <1>4, <2>2, <2>3 DEF RecvPayload
<1>5. CASE Disconnected(c)
  BY <1>5 DEF Disconnected, Close
<1>6. CASE MemoryReturns(c)
  <2>1. \E text \in {"text", "bytes", "OK"} : Close(c, text)
    BY <1>6, MemoryOutcome
  <2> QED
    BY <1>6, <2>1 DEF MemoryReturns, Close
<1>7. CASE MemoryRaises(c)
  BY <1>7 DEF MemoryRaises, Close, ErrorReply
<1> QED
  BY <1>1, <1>2, <1>3, <1>4, <1>5, <1>6, <1>7 DEF Step, Handler

\* A step belongs to one connection.
LEMMA OthersKeep ==
  ASSUME Inv, NEW c \in Conns, Step(c), NEW d \in Conns, d # c
  PROVE  /\ caller'[d] = caller[d] /\ asked'[d] = asked[d] /\ wire'[d] = wire[d]
         /\ handler'[d] = handler[d] /\ swallowed'[d] = swallowed[d] /\ taken'[d] = taken[d]
         /\ reply'[d] = reply[d] /\ failed'[d] = failed[d]
<1> USE DEF Inv, Typed
<1>1. CASE Call(c)
  BY <1>1 DEF Call
<1>2. CASE Caller(c)
  BY <1>2 DEF Caller, SendPayload, Answer, TimeOut
<1>3. CASE RecvLine(c)
  BY <1>3 DEF RecvLine, Close
<1>4. CASE RecvPayload(c)
  BY <1>4 DEF RecvPayload
<1>5. CASE Disconnected(c)
  BY <1>5 DEF Disconnected, Close
<1>6. CASE MemoryReturns(c)
  <2>1. \E text \in {"text", "bytes", "OK"} : Close(c, text)
    BY <1>6, MemoryOutcome
  <2> QED
    BY <1>6, <2>1 DEF MemoryReturns, Close
<1>7. CASE MemoryRaises(c)
  BY <1>7 DEF MemoryRaises, Close
<1> QED
  BY <1>1, <1>2, <1>3, <1>4, <1>5, <1>6, <1>7 DEF Step, Handler
-----------------------------------------------------------------------------
\* What recv(4096) finds: k units of payload with the line.  The handler goes
\* on, or replies at once: an error means that something was swallowed or that
\* the transfer is too long.
LEMMA LineReceived ==
  ASSUME Inv, NEW c \in Conns, RecvLine(c)
  PROVE  \E k \in 0 .. Len(wire[c]) :
           /\ swallowed'[c] = k
           /\ wire'[c] = SubSeq(wire[c], k + 1, Len(wire[c]))
           /\ \/ handler'[c] = "none" /\ reply'[c] = "text" /\ asked[c].op = "PING"
              \/ /\ handler'[c] = "none" /\ reply'[c] = "ERROR"
                 /\ k > 0 \/ asked[c].length > MAX_TRANSFER
              \/ /\ handler'[c] = (IF asked[c].op = "WRITE" THEN "payload" ELSE "memory")
                 /\ asked[c].op # "PING" /\ reply'[c] = reply[c]
                 /\ asked[c].op # "STATUS" => WithinLimit(asked[c])
<1> USE DEF Inv, Typed
<1>1. PICK k \in 0 .. Len(wire[c]) :
        /\ swallowed' = [swallowed EXCEPT ![c] = k]
        /\ wire' = [wire EXCEPT ![c] = SubSeq(@, k + 1, Len(@))]
        /\ LET r == asked[c]
               goOn == /\ Understood(SubSeq(wire[c], 1, k))
                       /\ r.op \in {"READ", "WRITE"} => WithinLimit(r)
           IN  IF r.op = "PING" THEN Close(c, "text")
               ELSE IF ~goOn THEN Close(c, "ERROR")
               ELSE /\ handler' = [handler EXCEPT ![c] =
                                     IF r.op = "WRITE" THEN "payload" ELSE "memory"]
                    /\ UNCHANGED reply
  BY Zenon DEF RecvLine
<1>2. Understood(SubSeq(wire[c], 1, k)) \/ k > 0
  <2> SUFFICES ASSUME k = 0 PROVE Understood(SubSeq(wire[c], 1, k))
    OBVIOUS
  <2>1. SubSeq(wire[c], 1, 0) = <<>>
    BY SubSeqEmpty
  <2> QED
    BY <2>1 DEF Understood
<1>3. WithinLimit(asked[c]) \/ asked[c].length > MAX_TRANSFER
  BY Commands, LocalApiAssumption DEF WithinLimit
<1>4. CASE asked[c].op = "PING"
  <2>1. Close(c, "text")
    BY <1>1, <1>4
  <2> QED
    BY <1>1, <1>4, <2>1 DEF Close
<1>5. CASE asked[c].op # "PING" /\ Close(c, "ERROR")
          /\ ~(/\ Understood(SubSeq(wire[c], 1, k))
               /\ asked[c].op \in {"READ", "WRITE"} => WithinLimit(asked[c]))
  <2>1. k > 0 \/ asked[c].length > MAX_TRANSFER
    BY <1>2, <1>3, <1>5, Zenon
  <2> QED
    BY <1>1, <1>5, <2>1 DEF Close
<1>6. CASE /\ asked[c].op # "PING" /\ UNCHANGED reply
           /\ asked[c].op \in {"READ", "WRITE"} => WithinLimit(asked[c])
           /\ handler' = [handler EXCEPT ![c] =
                            IF asked[c].op = "WRITE" THEN "payload" ELSE "memory"]
  BY <1>1, <1>6, Commands
<1> QED
  BY <1>1, <1>4, <1>5, <1>6, Zenon

\* The payload is received in one piece, or not at all.
LEMMA PayloadReceived ==
  ASSUME Inv, NEW c \in Conns, RecvPayload(c)
  PROVE  swallowed[c] = 0 /\ taken'[c] = asked[c].data /\ asked[c].op = "WRITE"
<1> USE DEF Inv, Typed, CallInv
<1>1. /\ asked[c].op = "WRITE" /\ asked[c].length <= Len(wire[c])
      /\ taken'[c] = SubSeq(wire[c], 1, asked[c].length)
      /\ Len(asked[c].data) = asked[c].length /\ asked[c].length \in Nat
      /\ asked[c].data \in Seq(Unit)
  BY Commands DEF RecvPayload, Starving, Received
<1>2. caller[c] # "line"
  BY <1>1 DEF Arriving
<1>3. Len(wire[c]) = Len(asked[c].data) - swallowed[c]
      /\ (swallowed[c] = 0 => wire[c] = asked[c].data)
  BY <1>2 DEF Arriving, RecvPayload
<1>4. swallowed[c] = 0 /\ wire[c] = asked[c].data
  BY <1>1, <1>3
<1> QED
  BY <1>1, <1>4, SubSeqFull

LEMMA CallInvStep ==
  ASSUME Inv, NEW c \in Conns, Step(c)
  PROVE  CallInv(c)'
<1> USE DEF Inv, Typed, CallInv
<1>1. CASE Call(c)
  <2>1. PICK r \in Requests, sends \in {1, 2} :
          /\ asked'[c] = r
          /\ wire'[c] = (IF sends = 1 THEN r.data ELSE <<>>)
          /\ caller'[c] = (IF sends = 1 \/ r.data = <<>> THEN "sent" ELSE "line")
    BY <1>1 DEF Call
  <2>2. /\ handler'[c] = "line" /\ swallowed'[c] = 0 /\ reply'[c] = "none"
        /\ failed'[c] = FALSE
    BY <1>1 DEF Call
  <2>3. r.data \in Seq(Unit)
    BY Commands
  <2>4. Len(r.data) - 0 = Len(r.data)
    BY <2>3
  <2> QED
    BY <2>1, <2>2, <2>4 DEF Arriving, Received, Answered, Waiting
<1>2. CASE SendPayload(c)
  <2>1. /\ caller'[c] = "sent" /\ wire'[c] = asked[c].data /\ caller[c] = "line"
        /\ UNCHANGED <<asked, handler, swallowed, taken, reply, failed>>
    BY <1>2 DEF SendPayload
  <2>2. asked[c].data \in Seq(Unit) /\ swallowed[c] = 0
    BY <2>1, Commands DEF Arriving
  <2>3. Len(asked[c].data) - 0 = Len(asked[c].data)
    BY <2>2
  <2> QED
    BY <2>1, <2>2, <2>3 DEF Arriving, Received, Answered, Served, Waiting, Legal, InBounds
<1>3. CASE Answer(c) \/ TimeOut(c)
  <2>1. /\ caller[c] = "sent" /\ caller'[c] \in {"raised", "returned"}
        /\ caller'[c] = "returned" => reply[c] \notin {"none", "ERROR"}
        /\ UNCHANGED <<asked, wire, handler, swallowed, taken, reply, failed>>
    BY <1>3 DEF Answer, TimeOut
  <2>2. caller'[c] = "returned" => handler[c] = "none"
    BY <2>1 DEF Received
  <2> QED
    BY <2>1, <2>2 DEF Arriving, Received, Answered, Served, Waiting, Legal, InBounds
<1>4. CASE RecvLine(c)
  <2>1. PICK k \in 0 .. Len(wire[c]) :
          /\ swallowed'[c] = k
          /\ wire'[c] = SubSeq(wire[c], k + 1, Len(wire[c]))
          /\ \/ handler'[c] = "none" /\ reply'[c] = "text" /\ asked[c].op = "PING"
             \/ /\ handler'[c] = "none" /\ reply'[c] = "ERROR"
                /\ k > 0 \/ asked[c].length > MAX_TRANSFER
             \/ /\ handler'[c] = (IF asked[c].op = "WRITE" THEN "payload" ELSE "memory")
                /\ asked[c].op # "PING" /\ reply'[c] = reply[c]
                /\ asked[c].op # "STATUS" => WithinLimit(asked[c])
    BY <1>4, LineReceived
  <2>2. UNCHANGED <<caller, asked, taken, failed>> /\ handler[c] = "line"
    BY <1>4 DEF RecvLine
  <2>3. asked[c].data \in Seq(Unit) /\ (asked[c].op # "WRITE" => asked[c].data = <<>>)
    BY Commands
  <2>4. wire[c] = <<>> \/ wire[c] = asked[c].data
    BY <2>2 DEF Arriving, Received
  <2>5. k > 0 => asked[c].op = "WRITE"
    BY <2>3, <2>4
  <2>6. Len(wire'[c]) = Len(wire[c]) - k /\ (k = 0 => wire'[c] = wire[c])
    BY <2>1, CutType
  <2>7. Arriving(c)'
    <3>1. CASE caller[c] = "line"
      <4>1. wire[c] = <<>> /\ asked[c].data # <<>> /\ k = 0
        BY <3>1 DEF Arriving
      <4> QED
        BY <2>1, <2>2, <2>6, <3>1, <4>1 DEF Arriving
    <3>2. CASE caller[c] # "line"
      <4>1. wire[c] = asked[c].data
        BY <2>2, <3>2 DEF Arriving, Received
      <4> QED
        BY <2>1, <2>2, <2>3, <2>6, <3>2, <4>1 DEF Arriving
    <3> QED
      BY <3>1, <3>2
  <2>8. reply[c] = "none"
    BY <2>2 DEF Received
  <2>9. Received(c)'
    BY <2>1, <2>2, <2>5, <2>8 DEF Received
  <2>10. Answered(c)'
    <3>1. reply'[c] = "ERROR" /\ Legal(asked[c])' => swallowed'[c] > 0
      <4>1. asked'[c] = asked[c] /\ asked[c].length \in Nat
        BY <2>2, Commands
      <4>2. asked[c].length > MAX_TRANSFER => ~Legal(asked[c])'
        BY <4>1, LocalApiAssumption DEF Legal
      <4> QED
        BY <2>1, <2>8, <4>2
    <3>2. caller'[c] # "returned"
      BY <2>2, <2>8 DEF Answered
    <3>3. reply'[c] \notin {"none", "ERROR"} => asked'[c].op = "PING"
      BY <2>1, <2>2, <2>8
    <3> QED
      BY <3>1, <3>2, <3>3 DEF Answered
  <2> QED
    BY <2>7, <2>9, <2>10
<1>5. CASE RecvPayload(c)
  <2>1. /\ handler'[c] = "memory" /\ handler[c] = "payload"
        /\ UNCHANGED <<caller, asked, swallowed, reply, failed>>
    BY <1>5 DEF RecvPayload
  <2>2. swallowed[c] = 0 /\ taken'[c] = asked[c].data /\ asked[c].op = "WRITE"
    BY <1>5, PayloadReceived
  <2>3. caller[c] # "line"
    <3> SUFFICES ASSUME wire[c] = <<>>, asked[c].data # <<>> PROVE FALSE
      BY DEF Arriving
    <3>1. asked[c].length <= 0
      <4>1. ~(Len(wire[c]) < asked[c].length)
        BY <1>5 DEF RecvPayload, Starving
      <4>2. Len(wire[c]) = 0 /\ asked[c].length \in Nat
        BY Commands
      <4> QED
        BY <4>1, <4>2
    <3>2. Len(asked[c].data) = asked[c].length /\ asked[c].data \in Seq(Unit)
      BY <2>2, Commands
    <3> QED
      BY <3>1, <3>2
  <2> QED
    BY <2>1, <2>2, <2>3 DEF Arriving, Received, Answered, Waiting
<1>6. CASE Disconnected(c)
  <2>1. /\ handler'[c] = "none" /\ reply'[c] = "ERROR" /\ caller[c] \in Ended
        /\ handler[c] = "payload"
        /\ UNCHANGED <<caller, asked, wire, swallowed, taken, failed>>
    BY <1>6 DEF Disconnected, Close, Starving
  <2>2. caller[c] \notin Waiting /\ caller[c] # "returned"
    BY <2>1 DEF Ended, Waiting, Answered, Received
  <2> QED
    BY <2>1, <2>2 DEF Arriving, Received, Answered, Waiting
<1>7. CASE MemoryReturns(c)
  <2>1. /\ handler'[c] = "none" /\ reply'[c] \in {"text", "bytes", "OK"}
        /\ asked[c].op # "STATUS" => InBounds(asked[c])
    BY <1>7, MemoryOutcome DEF Close
  <2>2. /\ handler[c] = "memory"
        /\ UNCHANGED <<caller, asked, wire, swallowed, taken, failed>>
    BY <1>7 DEF MemoryReturns
  <2>3. asked[c].op \in {"READ", "WRITE"} => Served(c)
    BY <2>1, <2>2 DEF Received, Served, Legal, WithinLimit
  <2>4. Served(c)' = Served(c)
    BY <2>2 DEF Served, Legal, InBounds
  <2> QED
    BY <2>1, <2>2, <2>3, <2>4 DEF Arriving, Received, Answered, Waiting
<1>8. CASE MemoryRaises(c)
  <2>1. /\ handler'[c] = "none" /\ reply'[c] = "ERROR" /\ failed'[c] /\ handler[c] = "memory"
        /\ UNCHANGED <<caller, asked, wire, swallowed, taken>>
    BY <1>8 DEF MemoryRaises, Close, ErrorReply
  <2>2. caller[c] # "returned"
    BY <2>1 DEF Answered, Received
  <2> QED
    BY <2>1, <2>2 DEF Arriving, Received, Answered
<1> QED
  BY <1>1, <1>2, <1>3, <1>4, <1>5, <1>6, <1>7, <1>8 DEF Step, Caller, Handler

LEMMA InvStep == Inv /\ [Next]_vars => Inv'
<1> SUFFICES ASSUME Inv, [Next]_vars PROVE Inv'
  OBVIOUS
<1>1. CASE UNCHANGED vars
  BY <1>1 DEF vars, Inv, Typed, CallInv, Arriving, Received, Answered, Served, Legal, InBounds
<1>2. ASSUME NEW c \in Conns, Step(c)
      PROVE  Inv'
  <2>1. Typed'
    BY <1>2, TypedStep
  <2>2. CallInv(c)'
    BY <1>2, CallInvStep
  <2>3. ASSUME NEW d \in Conns, d # c
        PROVE  CallInv(d)'
    <3>1. CallInv(d)
      BY DEF Inv
    <3>2. /\ caller'[d] = caller[d] /\ asked'[d] = asked[d] /\ wire'[d] = wire[d]
          /\ handler'[d] = handler[d] /\ swallowed'[d] = swallowed[d] /\ taken'[d] = taken[d]
          /\ reply'[d] = reply[d] /\ failed'[d] = failed[d]
      BY <1>2, <2>3, OthersKeep
    <3> QED
      BY <3>1, <3>2 DEF CallInv, Arriving, Received, Answered, Served, Legal, InBounds,
                          WithinLimit
  <2> QED
    BY <2>1, <2>2, <2>3 DEF Inv
<1> QED
  BY <1>1, <1>2 DEF Next, Step

LEMMA ApiInvariant == Spec => []Inv
  BY InvInit, InvStep, PTL DEF Spec

-----------------------------------------------------------------------------
(***************************************************************************)
(* RemoteMemory.write is called with whole payloads only, for any payload  *)
(* and however it is cut on its way (ramlink_memory_service.py:23-30, 222, *)
(* 256-257).                                                               *)
(***************************************************************************)
THEOREM ApiWritesWhole == Spec => []WritesAreWhole
<1>1. Inv => WritesAreWhole
  BY DEF Inv, CallInv, Received, WritesAreWhole
<1> QED
  BY <1>1, ApiInvariant, PTL

(***************************************************************************)
(* A call that returns was within the limits, and RemoteMemory was called  *)
(* for it, with all of its payload, and did not raise                      *)
(* (ramlink_memory_service.py:241-258, 280-289).                           *)
(***************************************************************************)
THEOREM ApiReturnsServed == Spec => []ReturnsAreServed
<1>1. Inv => ReturnsAreServed
  BY DEF Inv, CallInv, Answered, Served, ReturnsAreServed
<1> QED
  BY <1>1, ApiInvariant, PTL

LEMMA RaiseStep ==
  ASSUME Inv, [Next]_vars, NEW c \in Conns, caller[c] \in Waiting, caller'[c] = "raised",
         Legal(asked[c])
  PROVE  failed[c] \/ handler[c] = "memory" \/ swallowed[c] > 0
<1> USE DEF Inv, Typed, CallInv
<1>1. PICK d \in Conns : Step(d)
  BY DEF Next, Step, vars, Waiting
<1>2. d = c
  BY <1>1, OthersKeep DEF Waiting
<1>3. Answer(c) \/ TimeOut(c)
  <2>1. ~Call(c) /\ ~SendPayload(c)
    BY DEF Call, Waiting, Ended, SendPayload
  <2>2. ~Handler(c)
    BY DEF Handler, RecvLine, RecvPayload, Disconnected, MemoryReturns, MemoryRaises, Waiting
  <2> QED
    BY <1>1, <1>2, <2>1, <2>2 DEF Step, Caller
<1>4. CASE Answer(c)
  BY <1>4 DEF Answer, Answered
<1>5. CASE TimeOut(c) /\ Starving(c)
  <2>1. /\ caller[c] = "sent" /\ handler[c] = "payload" /\ Len(wire[c]) < asked[c].length
    BY <1>5 DEF TimeOut, Starving
  <2>2. (asked[c].op = "WRITE" /\ wire[c] = asked[c].data) \/ swallowed[c] > 0
    BY <2>1 DEF Arriving, Received
  <2>3. asked[c].op = "WRITE" => Len(asked[c].data) = asked[c].length /\ asked[c].length \in Nat
    BY Commands
  <2> QED
    BY <2>1, <2>2, <2>3
<1> QED
  BY <1>3, <1>4, <1>5 DEF TimeOut

(***************************************************************************)
(* A call within the limits raises only if the memory raised or was slow,  *)
(* or if payload was received with the command line                        *)
(* (ramlink_memory_service.py:222-225, 242-261).                           *)
(***************************************************************************)
THEOREM ApiRaisesForAReason == Spec => RaisesForAReason
<1>1. Inv /\ [Next]_vars =>
        [\A c \in Conns :
           caller[c] \in Waiting /\ caller'[c] = "raised" /\ Legal(asked[c]) =>
             failed[c] \/ handler[c] = "memory" \/ swallowed[c] > 0]_vars
  BY RaiseStep
<1> QED
  BY <1>1, ApiInvariant, PTL DEF Spec, RaisesForAReason

=============================================================================
