----------------------------- MODULE RmlReplies -----------------------------
(***************************************************************************)
(* RML1 messages as they travel on a connection.  A message is a 17-byte   *)
(* header, one unit here, that announces a length, and the bytes that      *)
(* follow it, one unit each.  What a provider announces and what it sends  *)
(* are separate decisions in the code, so they are separate operators:     *)
(* request() on the borrower's side trusts the announced length.           *)
(***************************************************************************)
EXTENDS Integers, Sequences

CONSTANT SectorBytes    \* bytes in a sector of a BLOCK_READ or BLOCK_WRITE

ASSUME SectorAssumption == SectorBytes \in Nat \ {0}

\* The operations of the protocol, those a borrower sends.
Operations ==
    {"INFO", "READ", "WRITE", "PING", "BLOCK_INFO", "BLOCK_READ", "BLOCK_WRITE", "BORROW",
     "RELEASE", "KEEPALIVE"}

\* A request: operation, offset (or lease id) and length, in bytes or sectors.
Request == [op : Operations, offset : Nat, length : Nat]

HeaderUnit(op, offset, n) == [kind |-> "head", op |-> op, offset |-> offset, n |-> n]

\* The byte at position `at` of what operation `op` transfers.
Byte(op, at) == [kind |-> "byte", op |-> op, offset |-> at, n |-> 0]

Bytes(op, offset, n) == [i \in 1 .. n |-> Byte(op, offset + i - 1)]

\* Mutant of Announced: a READ reply announces no length.
AnnouncedNoRead(r) ==
    CASE r.op \in {"RELEASE", "KEEPALIVE", "READ"} -> 0
      [] r.op \in {"INFO", "PING", "BORROW", "BLOCK_INFO"} -> 1
      [] r.op \in {"WRITE", "BLOCK_READ", "BLOCK_WRITE"} -> r.length

\* The length in the header of the reply: that of the request for transfers,
\* in sectors for the block operations.  Replies of fixed contents count as
\* one byte.
Announced(r) ==
    CASE r.op \in {"RELEASE", "KEEPALIVE"} -> 0
      [] r.op \in {"INFO", "PING", "BORROW", "BLOCK_INFO"} -> 1
      [] r.op \in {"READ", "WRITE", "BLOCK_READ", "BLOCK_WRITE"} -> r.length

\* Mutant of Body: READ sends one byte less than it announces.
BodyShort(r) ==
    CASE r.op \in {"RELEASE", "KEEPALIVE", "WRITE", "BLOCK_WRITE"} -> <<>>
      [] r.op \in {"INFO", "PING", "BORROW", "BLOCK_INFO"} -> Bytes(r.op, r.offset, 1)
      [] r.op = "READ" -> Bytes(r.op, r.offset, r.length - 1)
      [] r.op = "BLOCK_READ" ->
           Bytes(r.op, r.offset * SectorBytes, r.length * SectorBytes)

\* The bytes sent after that header.
Body(r) ==
    CASE r.op \in {"RELEASE", "KEEPALIVE", "WRITE", "BLOCK_WRITE"} -> <<>>
      [] r.op \in {"INFO", "PING", "BORROW", "BLOCK_INFO"} -> Bytes(r.op, r.offset, 1)
      [] r.op = "READ" -> Bytes(r.op, r.offset, r.length)
      [] r.op = "BLOCK_READ" ->
           Bytes(r.op, r.offset * SectorBytes, r.length * SectorBytes)

Reply(r) == <<HeaderUnit(r.op, r.offset, Announced(r))>> \o Body(r)

\* The bytes of data that a borrower sends with a request.
Payload(r) ==
    CASE r.op = "WRITE" -> Bytes(r.op, r.offset, r.length)
      [] r.op = "BLOCK_WRITE" ->
           Bytes(r.op, r.offset * SectorBytes, r.length * SectorBytes)
      [] r.op \notin {"WRITE", "BLOCK_WRITE"} -> <<>>

\* Mutant of Expected: a BLOCK_WRITE is received by the length in its header.
ExpectedUnits(r) == IF r.op \in {"WRITE", "BLOCK_WRITE"} THEN r.length ELSE 0

\* The number of bytes that the provider receives with it.
Expected(r) ==
    CASE r.op = "WRITE" -> r.length
      [] r.op = "BLOCK_WRITE" -> r.length * SectorBytes
      [] r.op \notin {"WRITE", "BLOCK_WRITE"} -> 0

-----------------------------------------------------------------------------
(* What request() takes from a stream of units, without looking at more    *)
(* than the magic and the length of the header.                            *)

\* Units that request() takes before it returns or raises.
Wanted(stream) ==
    IF stream # <<>> /\ stream[1].kind = "head" THEN 1 + stream[1].n ELSE 1

Complete(stream) ==
    /\ stream # <<>> /\ stream[1].kind = "head"
    /\ Len(stream) >= Wanted(stream)

TakenBody(stream) == SubSeq(stream, 2, Wanted(stream))

Rest(stream) == SubSeq(stream, Wanted(stream) + 1, Len(stream))

\* What may be left to come when request() raises on a connection that is up:
\* it timed out before it had all it wanted, or found a wrong magic.
LeftUnread(stream) ==
    {SubSeq(stream, k + 1, Len(stream)) :
        k \in {j \in 0 .. Len(stream) :
                 j <= Wanted(stream) /\ ~Complete(SubSeq(stream, 1, j))}}

=============================================================================
