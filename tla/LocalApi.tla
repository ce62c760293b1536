------------------------------ MODULE LocalApi ------------------------------
(***************************************************************************)
(* LocalApi of clients/windows/ramlink_memory_service.py and the programs  *)
(* that call it (ramlink_memory_api.py, ramlink_cache_manager.py, the      *)
(* Dokan adapter).  A call has a connection and a handler thread of its    *)
(* own, which may outlive the call.                                        *)
(*                                                                         *)
(* A command line reaches the handler in one piece; how much of the        *)
(* payload comes with it is up to the network and the number of sends.     *)
(* RemoteMemory is outside: a call of its read, write or status returns or *)
(* raises, and may take longer than the caller waits.  What such a call    *)
(* does to remote memory, over reconnects and late replies, is the subject *)
(* of MemoryService; that write() returned is all that OK can stand for.   *)
(***************************************************************************)
EXTENDS Integers, Sequences

CONSTANTS
    Conns,          \* connections at one time
    SIZE,           \* self.length of RemoteMemory: bytes of the borrowed region
    MAX_TRANSFER,
    Requests        \* the commands callers send

\* A payload is made of what split() takes for blanks and of everything else.
Unit == {"blank", "ink"}

ASSUME LocalApiAssumption ==
    /\ SIZE \in Nat \ {0}
    /\ MAX_TRANSFER \in Nat \ {0}
    /\ Requests \subseteq [op : {"PING", "STATUS", "READ", "WRITE"}, offset : Nat,
                           length : Nat, data : Seq(Unit)]
    /\ \A r \in Requests : IF r.op = "WRITE" THEN Len(r.data) = r.length ELSE r.data = <<>>

VARIABLES
    caller,     \* caller[c]: "line" sent, all "sent", or how its call ended
    asked,      \* asked[c]: the command of its call
    wire,       \* wire[c]: payload the handler has not received
    handler,    \* handler[c]: "line", "payload", "memory", or "none"
    swallowed,  \* swallowed[c]: units of payload received with the line
    taken,      \* taken[c]: what recv_all returned, which is passed to write()
    reply,      \* reply[c]: what the handler sent before it closed
    failed      \* failed[c]: RemoteMemory raised

vars == <<caller, asked, wire, handler, swallowed, taken, reply, failed>>

Waiting == {"line", "sent"}

Ended == {"none", "returned", "raised"}

NoCommand == [op |-> "PING", offset |-> 0, length |-> 0, data |-> <<>>]

Init ==
    /\ caller = [c \in Conns |-> "none"]
    /\ asked = [c \in Conns |-> NoCommand]
    /\ wire = [c \in Conns |-> <<>>]
    /\ handler = [c \in Conns |-> "none"]
    /\ swallowed = [c \in Conns |-> 0]
    /\ taken = [c \in Conns |-> <<>>]
    /\ reply = [c \in Conns |-> "none"]
    /\ failed = [c \in Conns |-> FALSE]

-----------------------------------------------------------------------------
\* A caller connects and sends its command, the payload with it or not yet.
Call(c) ==
    /\ caller[c] \in Ended /\ handler[c] = "none"
    /\ \E r \in Requests, sends \in {1, 2} :
         /\ asked' = [asked EXCEPT ![c] = r]
         /\ wire' = [wire EXCEPT ![c] = IF sends = 1 THEN r.data ELSE <<>>]
         /\ caller' = [caller EXCEPT ![c] =
                         IF sends = 1 \/ r.data = <<>> THEN "sent" ELSE "line"]
    /\ handler' = [handler EXCEPT ![c] = "line"]
    /\ swallowed' = [swallowed EXCEPT ![c] = 0]
    /\ taken' = [taken EXCEPT ![c] = <<>>]
    /\ reply' = [reply EXCEPT ![c] = "none"]
    /\ failed' = [failed EXCEPT ![c] = FALSE]

SendPayload(c) ==
    /\ caller[c] = "line"
    /\ caller' = [caller EXCEPT ![c] = "sent"]
    /\ wire' = [wire EXCEPT ![c] = asked[c].data]
    /\ UNCHANGED <<asked, handler, swallowed, taken, reply, failed>>

\* A reply of the kind the call asks for returns, any other one raises: the
\* text of an error is no length that a READ could have.
Answer(c) ==
    /\ caller[c] = "sent" /\ reply[c] # "none"
    /\ caller' = [caller EXCEPT ![c] = IF reply[c] = "ERROR" THEN "raised" ELSE "returned"]
    /\ UNCHANGED <<asked, wire, handler, swallowed, taken, reply, failed>>

Starving(c) == handler[c] = "payload" /\ Len(wire[c]) < asked[c].length

\* 30 or 60 seconds have passed, and the caller closes the connection.
TimeOut(c) ==
    /\ caller[c] = "sent"
    /\ Starving(c) \/ handler[c] = "memory"
    /\ caller' = [caller EXCEPT ![c] = "raised"]
    /\ UNCHANGED <<asked, wire, handler, swallowed, taken, reply, failed>>

-----------------------------------------------------------------------------
\* client(): the reply is sent, if anybody is there, and the connection closed.
Close(c, text) ==
    /\ handler' = [handler EXCEPT ![c] = "none"]
    /\ reply' = [reply EXCEPT ![c] = text]

\* Mutant of WithinLimit: a transfer of MAX_TRANSFER is refused.
WithinLimitBelow(r) == r.length < MAX_TRANSFER

WithinLimit(r) == r.length <= MAX_TRANSFER

\* line.split() finds the parts of the command and nothing else.
Understood(extra) == \A i \in DOMAIN extra : extra[i] = "blank"

\* conn.recv(4096): the line, with the first k units of the payload.
RecvLine(c) ==
    /\ handler[c] = "line"
    /\ \E k \in 0 .. Len(wire[c]) :
         /\ swallowed' = [swallowed EXCEPT ![c] = k]
         /\ wire' = [wire EXCEPT ![c] = SubSeq(@, k + 1, Len(@))]
         /\ LET r == asked[c]
                goOn == /\ Understood(SubSeq(wire[c], 1, k))
                        /\ r.op \in {"READ", "WRITE"} => WithinLimit(r)
            IN  IF r.op = "PING" THEN Close(c, "text")
                ELSE IF ~goOn THEN Close(c, "ERROR")
                ELSE /\ handler' = [handler EXCEPT ![c] =
                                      IF r.op = "WRITE" THEN "payload" ELSE "memory"]
                     /\ UNCHANGED reply
    /\ UNCHANGED <<caller, asked, taken, failed>>

RecvPayload(c) ==
    /\ handler[c] = "payload" /\ ~Starving(c)
    /\ taken' = [taken EXCEPT ![c] = SubSeq(wire[c], 1, asked[c].length)]
    /\ wire' = [wire EXCEPT ![c] = SubSeq(@, asked[c].length + 1, Len(@))]
    /\ handler' = [handler EXCEPT ![c] = "memory"]
    /\ UNCHANGED <<caller, asked, swallowed, reply, failed>>

\* Mutant of Disconnected: the end of the stream ends the payload.
DisconnectedReturns(c) ==
    /\ Starving(c) /\ caller[c] \in Ended
    /\ taken' = [taken EXCEPT ![c] = wire[c]]
    /\ wire' = [wire EXCEPT ![c] = <<>>]
    /\ handler' = [handler EXCEPT ![c] = "memory"]
    /\ UNCHANGED <<caller, asked, swallowed, reply, failed>>

\* Mutant of Disconnected: the error is handled, and the next command awaited.
DisconnectedServesOn(c) ==
    /\ Starving(c) /\ caller[c] \in Ended
    /\ handler' = [handler EXCEPT ![c] = "line"]
    /\ UNCHANGED <<caller, asked, wire, swallowed, taken, reply, failed>>

\* recv_all raises when the caller has closed the connection.
Disconnected(c) ==
    /\ Starving(c) /\ caller[c] \in Ended
    /\ Close(c, "ERROR")
    /\ UNCHANGED <<caller, asked, wire, swallowed, taken, failed>>

-----------------------------------------------------------------------------
InBounds(r) == r.offset + r.length <= SIZE

\* RemoteMemory returns from read, write or status.
MemoryReturns(c) ==
    /\ handler[c] = "memory"
    /\ asked[c].op # "STATUS" => InBounds(asked[c])
    /\ Close(c, CASE asked[c].op = "STATUS" -> "text"
                  [] asked[c].op = "READ" -> "bytes"
                  [] asked[c].op = "WRITE" -> "OK")
    /\ UNCHANGED <<caller, asked, wire, swallowed, taken, failed>>

\* Mutant of ErrorReply: client() answers OK when the memory raised.
ErrorReplyOK == "OK"

ErrorReply == "ERROR"

\* RemoteMemory raises, over a range out of bounds or for want of a reply.
MemoryRaises(c) ==
    /\ handler[c] = "memory" /\ asked[c].op \in {"READ", "WRITE"}
    /\ failed' = [failed EXCEPT ![c] = TRUE]
    /\ Close(c, ErrorReply)
    /\ UNCHANGED <<caller, asked, wire, swallowed, taken>>

Caller(c) == SendPayload(c) \/ Answer(c) \/ TimeOut(c)

Handler(c) ==
    RecvLine(c) \/ RecvPayload(c) \/ Disconnected(c) \/ MemoryReturns(c) \/ MemoryRaises(c)

Next == \E c \in Conns : Call(c) \/ Caller(c) \/ Handler(c)

\* Callers time out; RemoteMemory returns or raises after its own time-outs.
Spec == Init /\ [][Next]_vars /\ \A c \in Conns : WF_vars(Caller(c)) /\ WF_vars(Handler(c))

-----------------------------------------------------------------------------
Legal(r) == r.length <= MAX_TRANSFER /\ InBounds(r)

(***************************************************************************)
(* RemoteMemory.write is called with whole payloads only: what is missing  *)
(* because it was received with the command line, or because the caller    *)
(* gave up, keeps the rest from being written, shifted or cut short        *)
(* (ramlink_memory_service.py:23-30, 222, 256-257).                        *)
(***************************************************************************)
WritesAreWhole ==
    \A c \in Conns :
      handler[c] = "memory" /\ asked[c].op = "WRITE" => taken[c] = asked[c].data

(***************************************************************************)
(* A call that returns to its caller was within the limits, RemoteMemory   *)
(* was called for it and did not raise, and was given all of its payload,  *)
(* however the payload arrived and whatever became of the calls before it  *)
(* (ramlink_memory_service.py:241-258, 280-289).                           *)
(***************************************************************************)
ReturnsAreServed ==
    \A c \in Conns :
      caller[c] = "returned" /\ asked[c].op \in {"READ", "WRITE"} =>
        /\ Legal(asked[c]) /\ ~failed[c]
        /\ asked[c].op = "WRITE" => taken[c] = asked[c].data

(***************************************************************************)
(* A call within the limits raises only if the memory raised or was slow,  *)
(* or if payload was received with the command line: then a WRITE fails    *)
(* whatever its data (ramlink_memory_service.py:222-225, 242-261).         *)
(***************************************************************************)
RaisesForAReason ==
    [][\A c \in Conns :
         caller[c] \in Waiting /\ caller'[c] = "raised" /\ Legal(asked[c]) =>
           failed[c] \/ handler[c] = "memory" \/ swallowed[c] > 0]_vars

(***************************************************************************)
(* "WRITE <offset> <length> followed by payload"                           *)
(* (clients/windows/ACTIVE_MEMORY.md:22): a call within the limits raises  *)
(* for no other reason than that the memory raised or was slow.            *)
(***************************************************************************)
LegalCallsReturn ==
    [][\A c \in Conns :
         caller[c] \in Waiting /\ caller'[c] = "raised" /\ Legal(asked[c]) =>
           failed[c] \/ handler[c] = "memory"]_vars

(***************************************************************************)
(* Every handler thread ends, also one that waits for payload it has       *)
(* received already: accepted connections have no time-out of their own,   *)
(* so that it takes the caller's (ramlink_memory_service.py:256, 272-289). *)
(***************************************************************************)
HandlersEnd == \A c \in Conns : handler[c] # "none" ~> handler[c] = "none"

=============================================================================
