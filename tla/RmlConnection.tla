---------------------------- MODULE RmlConnection ----------------------------
(***************************************************************************)
(* One RML1 connection that is not lost: the threads of a borrower that    *)
(* call request() on it (one in ramlink_client.py, block_device_test.py    *)
(* and ramlink_memory_service.py, whose threads hold a lock; two, without  *)
(* one, in client.py), and the loop of client()/handle() in                *)
(* android/termux/server.py on the other side; the provider of client.py,  *)
(* ramlink_memory_provider.py, treats the operations it has the same way.  *)
(* The two byte streams are sequences of units; nothing but their order    *)
(* tells a header from data, and the bytes of one thread from another's.   *)
(***************************************************************************)
EXTENDS RmlReplies

CONSTANTS
    Threads,        \* the borrower's threads that use the socket
    Issues          \* Issues[t]: the requests thread t makes

ASSUME RequestsAssumption == \A t \in Threads : \A r \in Issues[t] : r \in Request

VARIABLES
    toServer, toClient,     \* the units in flight, oldest first
    client,                 \* client[t]: "idle", "payload", "header", "body", "raised"
    request,                \* request[t]: the last request t made
    header,                 \* header[t]: the header of the reply it is receiving
    body,                   \* body[t]: the bytes received after it
    server,                 \* "header", "payload" or "closed"
    serving,                \* the request being served
    split,                  \* a header was sent between another one and its payload
    mixed                   \* a thread received while another did, or after it raised

vars == <<toServer, toClient, client, request, header, body, server, serving, split, mixed>>

clientVars == <<client, request, header, body, split, mixed>>
serverVars == <<server, serving>>

NoRequest == [op |-> "none", offset |-> 0, length |-> 0]
NoHeader == HeaderUnit("none", 0, 0)

Init ==
    /\ toServer = <<>> /\ toClient = <<>>
    /\ client = [t \in Threads |-> "idle"] /\ request = [t \in Threads |-> NoRequest]
    /\ header = [t \in Threads |-> NoHeader] /\ body = [t \in Threads |-> <<>>]
    /\ server = "header" /\ serving = NoRequest
    /\ split = FALSE /\ mixed = FALSE

-----------------------------------------------------------------------------
Become(t, state) == client' = [client EXCEPT ![t] = state]

\* Another thread is in one of these states.
OtherIn(t, states) == \E u \in Threads \ {t} : client[u] \in states

\* Thread t begins to receive.
Receives(t) ==
    Become(t, "header") /\ mixed' = (mixed \/ OtherIn(t, {"header", "body", "raised"}))

\* The first sendall of request().
SendHeader(t) ==
    /\ client[t] = "idle"
    /\ \E r \in Issues[t] :
         /\ request' = [request EXCEPT ![t] = r]
         /\ toServer' = Append(toServer, HeaderUnit(r.op, r.offset, r.length))
         /\ IF Payload(r) = <<>> THEN Receives(t) ELSE Become(t, "payload") /\ UNCHANGED mixed
    /\ header' = [header EXCEPT ![t] = NoHeader] /\ body' = [body EXCEPT ![t] = <<>>]
    /\ split' = (split \/ OtherIn(t, {"payload"}))
    /\ UNCHANGED <<toClient, serverVars>>

\* The second one.
SendPayload(t) ==
    /\ client[t] = "payload"
    /\ toServer' = toServer \o Payload(request[t])
    /\ Receives(t)
    /\ UNCHANGED <<toClient, request, header, body, split, serverVars>>

\* Of what it takes for a header the borrower checks the magic, and
\* ramlink_client.py the length of a READ too; the others do not.
Accepted(unit) == unit.kind = "head"
Refused(t, unit) ==
    unit.kind = "head" => request[t].op = "READ" /\ unit.n # request[t].length

RecvHeader(t) ==
    /\ client[t] = "header" /\ toClient # <<>>
    /\ toClient' = Tail(toClient)
    /\ header' = [header EXCEPT ![t] = toClient[1]]
    /\ \/ Accepted(toClient[1]) /\ Become(t, "body")
       \/ Refused(t, toClient[1]) /\ Become(t, "raised")
    /\ UNCHANGED <<toServer, request, body, split, mixed, serverVars>>

\* recv_all(sock, rlen): as many bytes as have come, until there are rlen.
RecvBody(t) ==
    /\ client[t] = "body" /\ Len(body[t]) < header[t].n /\ toClient # <<>>
    /\ toClient' = Tail(toClient)
    /\ body' = [body EXCEPT ![t] = Append(@, toClient[1])]
    /\ UNCHANGED <<toServer, client, request, header, split, mixed, serverVars>>

\* request() returns to its caller.
Return(t) ==
    /\ client[t] = "body" /\ Len(body[t]) = header[t].n
    /\ Become(t, "idle")
    /\ UNCHANGED <<toServer, toClient, request, header, body, split, mixed, serverVars>>

\* The server has nothing more to send before it receives more.
ServerWaits ==
    \/ server = "closed"
    \/ server = "header" /\ toServer = <<>>
    \/ server = "payload" /\ Len(toServer) < Expected(serving)

\* The receive times out: all that was sent has been received, or never will be.
TimeOut(t) ==
    /\ client[t] = "header" \/ (client[t] = "body" /\ Len(body[t]) < header[t].n)
    /\ toClient = <<>> /\ ServerWaits /\ ~OtherIn(t, {"payload"})
    /\ Become(t, "raised")
    /\ UNCHANGED <<toServer, toClient, request, header, body, split, mixed, serverVars>>

-----------------------------------------------------------------------------
\* The server needs no payload to serve r.
AnsweredAtOnce(r) == Expected(r) = 0

\* The server reads a header; every operation but a write is answered at once.
ServeHeader ==
    /\ server = "header" /\ toServer # <<>>
    /\ toServer' = Tail(toServer)
    /\ IF toServer[1].kind = "head"
       THEN LET r == [op |-> toServer[1].op, offset |-> toServer[1].offset,
                      length |-> toServer[1].n]
            IN  /\ serving' = r
                /\ IF AnsweredAtOnce(r)
                   THEN server' = "header" /\ toClient' = toClient \o Reply(r)
                   ELSE server' = "payload" /\ UNCHANGED toClient
       ELSE server' = "closed" /\ UNCHANGED <<serving, toClient>>
    /\ UNCHANGED clientVars

\* recv_all returns the payload; the store is answered.
ServePayload ==
    /\ server = "payload" /\ Len(toServer) >= Expected(serving)
    /\ toServer' = SubSeq(toServer, Expected(serving) + 1, Len(toServer))
    /\ toClient' = toClient \o Reply(serving)
    /\ server' = "header"
    /\ UNCHANGED <<serving, clientVars>>

Finish(t) == RecvHeader(t) \/ RecvBody(t) \/ Return(t) \/ TimeOut(t)

Serve == ServeHeader \/ ServePayload

Next == Serve \/ \E t \in Threads : SendHeader(t) \/ SendPayload(t) \/ Finish(t)

Spec == Init /\ [][Next]_vars

\* All threads run; the network delivers.
FairSpec ==
    Spec /\ WF_vars(Serve) /\ \A t \in Threads : WF_vars(SendPayload(t)) /\ WF_vars(Finish(t))

-----------------------------------------------------------------------------
Plain == {"INFO", "PING", "BORROW", "RELEASE", "KEEPALIVE", "READ", "BLOCK_INFO"}

Returned(t) == client[t] = "body" /\ client'[t] = "idle"

(***************************************************************************)
(* While no thread has received beside another or after another raised,    *)
(* nor sent into another's request, a request that is not a transfer of    *)
(* blocks or a write returns its own reply, complete, with nothing left    *)
(* after it, whatever was sent before on the connection: bytes that a      *)
(* BLOCK_READ left unread (server.py:270) make it raise, but are never     *)
(* taken for its reply (server.py:199-241; ramlink_client.py:126-132;      *)
(* client.py:20-25, 40-44).                                                *)
(***************************************************************************)
RepliesMatch ==
    [][\A t \in Threads :
         Returned(t) /\ request[t].op \in Plain /\ ~split /\ ~mixed =>
           header[t].op = request[t].op /\ body[t] = Body(request[t]) /\ toClient = <<>>]_vars

(***************************************************************************)
(* The server never takes payload for a header or a header for payload,    *)
(* whatever the borrower's view of the replies has become, two threads     *)
(* that receive at once included: only a header sent between another       *)
(* thread's header and its payload gets it out of step                     *)
(* (server.py:276-284; client.py:21-22, 42).                               *)
(***************************************************************************)
ServerInStep ==
    ~split =>
      /\ server # "closed"
      /\ server = "payload" =>
           \A i \in 1 .. Len(toServer) :
             i <= Len(Payload(serving)) => toServer[i] = Payload(serving)[i]

(***************************************************************************)
(* Such a request returns if nothing was left unread before it and no      *)
(* other thread comes between (client.py:40-44).                           *)
(***************************************************************************)
PlainRequestsReturn ==
    \A t \in Threads :
      client[t] = "header" /\ request[t].op \in Plain /\ toClient = <<>>
        ~> client[t] = "idle" \/ split \/ mixed

(***************************************************************************)
(* "The test performs BORROW -> WRITE -> READ -> VERIFY -> KEEPALIVE ->    *)
(* RELEASE" (protocol/ramlink_protocol.md:40): request() returns from      *)
(* every request the borrower makes.                                       *)
(***************************************************************************)
RequestsReturn == \A t \in Threads : client[t] = "header" ~> client[t] = "idle"

=============================================================================
