---------------------------- MODULE MemoryService ----------------------------
(***************************************************************************)
(* RemoteMemory of clients/windows/ramlink_memory_service.py: one borrowed *)
(* region, one socket, a keepalive thread and one thread per local API     *)
(* connection, with the reconnect logic that borrows a fresh region when a *)
(* request fails.                                                          *)
(*                                                                         *)
(* The provider appears as what RegionPool says of it: it grants regions   *)
(* first fit, may drop any lease (nobody renewed it in time), and serves   *)
(* READ and WRITE at any offset, as android/termux/server.py does.  Other  *)
(* borrowers use the same provider.  A lease id is used again only when    *)
(* neither the provider nor this service knows it any more.                *)
(*                                                                         *)
(* A step is one exchange on the socket, or the stretch between two of     *)
(* them; the lock is held from the first exchange of a request to the      *)
(* last.  The local API limits a transfer to MAX_TRANSFER, so a read or    *)
(* write is a single chunk.  A request either reaches the provider whole   *)
(* or the connection is lost.                                              *)
(***************************************************************************)
EXTENDS LeaseRegions, Sequences

INSTANCE RmlReplies WITH SectorBytes <- SECTOR_SIZE

CONSTANTS
    Clients,        \* the threads of the local API
    Ids,            \* lease ids
    BLOCK,          \* the bytes this service borrows, a multiple of SECTOR_SIZE
    OtherBlocks,    \* the lengths other borrowers ask for
    Ranges          \* the <<offset, length>> pairs local clients ask for

Keeper == "keepalive_loop"
Main   == "main"
Nobody == "nobody"

ASSUME ServiceAssumption ==
    /\ Clients \cap {Keeper, Main, Nobody} = {}
    /\ BLOCK \in 1 .. SIZE /\ BLOCK % SECTOR_SIZE = 0
    /\ Ids \subseteq Nat \ {0}
    /\ OtherBlocks \subseteq Nat \ {0}
    /\ Ranges \subseteq Nat \X (Nat \ {0})

VARIABLES
    pool,           \* the provider's table: leases in force
    sock,           \* self.sock: "none", "open", or a connection that is "lost"
    late,           \* units of earlier replies still unread on it, oldest first
    lease_id,
    base_offset,
    length,
    lock,           \* who holds self.lock
    pc,             \* pc[t]: where thread t is
    asked,          \* asked[t]: the range its caller asked for, and the operation
    wire,           \* the request the lock's holder is sending
    result,         \* what the last READ returned: "none", its "own" bytes, "other"
    releasing,      \* the lease id that main is about to RELEASE
    abandoned       \* history: a request that failed for good left this socket in use

vars == <<pool, sock, late, lease_id, base_offset, length, lock, pc, asked, wire, result,
          releasing, abandoned>>

service == <<sock, late, lease_id, base_offset, length, abandoned>>

Threads == Clients \cup {Keeper, Main}

Holding == [lease_id : Ids, offset : Nat, length : Nat, ours : BOOLEAN]

NoWire == [op |-> "none", offset |-> 0, length |-> 0, base |-> 0]

NoAsk == [op |-> "none", offset |-> 0, length |-> 0]

Init ==
    /\ pool = {}
    /\ sock = "none" /\ late = <<>>
    /\ lease_id = 0 /\ base_offset = 0 /\ length = 0
    /\ lock = Nobody
    /\ pc = [t \in Threads |-> IF t = Main THEN "starting" ELSE "idle"]
    /\ asked = [t \in Clients |-> NoAsk]
    /\ wire = NoWire
    /\ result = "none"
    /\ releasing = 0
    /\ abandoned = FALSE

-----------------------------------------------------------------------------
\* The provider and its other borrowers.

FreeIds == Ids \ ({r.lease_id : r \in pool} \cup {lease_id, releasing})

\* The provider grants a region of `size` bytes under lease i.
Granted(i, size, p, ours) ==
    /\ i \in FreeIds /\ \A j \in FreeIds : i <= j
    /\ FirstFit(p, size, pool)
    /\ pool' = pool \cup {[lease_id |-> i, offset |-> p, length |-> size, ours |-> ours]}

OtherBorrows ==
    /\ \E size \in OtherBlocks, i \in Ids, p \in Cursors(pool) : Granted(i, size, p, FALSE)
    /\ UNCHANGED <<service, lock, pc, asked, wire, result, releasing>>

\* A lease ends: it expired, or another borrower released it.
LeaseEnds ==
    /\ \E r \in pool : pool' = pool \ {r}
    /\ UNCHANGED <<service, lock, pc, asked, wire, result, releasing>>

-----------------------------------------------------------------------------
\* _borrow_new_socket succeeds: the new socket and region replace the old ones.
Borrow ==
    \E i \in Ids, p \in Cursors(pool) :
      /\ Granted(i, BLOCK, p, TRUE)
      /\ sock' = "open" /\ late' = <<>> /\ abandoned' = FALSE
      /\ lease_id' = i /\ base_offset' = p /\ length' = BLOCK

\* _borrow_new_socket raises: no connection, no space, or the reply was lost
\* and the provider keeps a lease that nobody knows.
BorrowRaises ==
    /\ \/ UNCHANGED pool
       \/ \E i \in Ids, p \in Cursors(pool) : Granted(i, BLOCK, p, TRUE)
    /\ UNCHANGED service

\* Mutant of IdAfterLoss: the lease id is kept.
IdAfterLossSame == lease_id

IdAfterLoss == 0

\* _mark_disconnected; length keeps its value.
MarkDisconnected ==
    /\ sock' = "none" /\ late' = <<>> /\ abandoned' = FALSE
    /\ lease_id' = IdAfterLoss /\ base_offset' = 0
    /\ UNCHANGED length

\* What the holder of the lock is going to read from the socket.
Stream == late \o Reply(wire)

\* rml_request returns with the first complete reply, whosever it is.
Returns ==
    /\ sock = "open" /\ Complete(Stream)
    /\ late' = Rest(Stream)
    /\ UNCHANGED <<sock, lease_id, base_offset, length, abandoned>>

\* rml_request raises and self.sock stays.
RaisedLeavingSocket ==
    /\ \/ sock = "open" /\ late' \in LeftUnread(Stream) /\ UNCHANGED sock
       \/ late' = <<>> /\ sock' = "lost"
    /\ UNCHANGED <<lease_id, base_offset, length>>

Move(t, place) == pc' = [pc EXCEPT ![t] = place]

\* Thread t leaves the `with self.lock` block.
Unlock(t, place) ==
    /\ lock' = Nobody
    /\ wire' = NoWire
    /\ Move(t, place)

-----------------------------------------------------------------------------
\* main: connect_and_borrow, then serve; a failure ends the process.
Start ==
    /\ pc[Main] = "starting"
    /\ \/ Borrow /\ Move(Main, "serving")
       \/ BorrowRaises /\ Move(Main, "exited")
    /\ UNCHANGED <<lock, asked, wire, result, releasing>>

\* The process is up; its daemon threads run until it has exited.
Running == pc[Main] \notin {"starting", "exited"}

-----------------------------------------------------------------------------
\* Mutant of InBounds: the length of the transfer is left out.
InBoundsOffset(offset, size) == offset <= length

\* Offsets and lengths are naturals here; the code refuses negative ones too.
InBounds(offset, size) == offset + size <= length

\* read / write check the range against self.length, without the lock.
Ask(t) ==
    /\ Running /\ pc[t] = "idle"
    /\ \E r \in Ranges, op \in {"READ", "WRITE"} :
         /\ InBounds(r[1], r[2])
         /\ asked' = [asked EXCEPT ![t] = [op |-> op, offset |-> r[1], length |-> r[2]]]
    /\ Move(t, "waiting")
    /\ UNCHANGED <<pool, service, lock, wire, result, releasing>>

\* Mutant of Absolute: the sign of the base offset is wrong.
AbsoluteSubtracts(offset) == offset - base_offset

Absolute(offset) == base_offset + offset

\* The lock is taken and the offset on the wire computed, once for both tries.
Take(t) ==
    /\ Running /\ pc[t] = "waiting" /\ lock = Nobody
    /\ lock' = t
    /\ wire' = [op |-> asked[t].op, offset |-> Absolute(asked[t].offset),
                length |-> asked[t].length, base |-> base_offset]
    /\ result' = "none"
    /\ Move(t, "first")
    /\ UNCHANGED <<pool, service, asked, releasing>>

\* The caller gets its answer or an exception; the lock is released.
Finish(t, outcome) ==
    /\ Unlock(t, "idle")
    /\ asked' = [asked EXCEPT ![t] = NoAsk]
    /\ result' = outcome

\* What t's caller asked for: that range of the region now borrowed.
OwnBytes(t) == Bytes("READ", Absolute(asked[t].offset), asked[t].length)

\* read() returns a body of the right length and raises on any other; write()
\* does not look at the body.
Outcome(t, body) ==
    CASE wire.op = "WRITE" \/ Len(body) # wire.length -> "none"
      [] wire.op = "READ" /\ body = OwnBytes(t) -> "own"
      [] OTHER -> "other"

\* rml_request returned, at the first or the second try.
Done(t) ==
    /\ Running /\ pc[t] \in {"first", "second"}
    /\ Returns
    /\ Finish(t, Outcome(t, TakenBody(Stream)))
    /\ UNCHANGED <<pool, releasing>>

TriesAgain(t) == Move(t, "reconnect") /\ UNCHANGED <<lock, asked, wire, result>>

\* Mutant of AfterFirst: no reconnect without a socket.
AfterFirstGivesUp(t) == IF sock # "none" THEN TriesAgain(t) ELSE Finish(t, "none")

AfterFirst(t) == TriesAgain(t)

\* The first try raised, at once when self.sock is None.
FirstFails(t) ==
    /\ Running /\ pc[t] = "first"
    /\ MarkDisconnected /\ AfterFirst(t)
    /\ UNCHANGED <<pool, releasing>>

Reconnect(t) ==
    /\ Running /\ pc[t] = "reconnect"
    /\ \/ /\ Borrow
          /\ Move(t, "second")
          /\ UNCHANGED <<lock, asked, wire, result>>
       \/ BorrowRaises /\ Finish(t, "none")
    /\ UNCHANGED releasing

\* Mutant of SecondFails: the request is tried until it succeeds.
SecondFailsRetries(t) ==
    /\ Running /\ pc[t] = "second"
    /\ MarkDisconnected /\ TriesAgain(t)
    /\ UNCHANGED <<pool, releasing>>

\* Nothing handles an exception of the second try: the socket stays in use.
SecondFails(t) ==
    /\ Running /\ pc[t] = "second"
    /\ RaisedLeavingSocket /\ abandoned' = TRUE
    /\ Finish(t, "none")
    /\ UNCHANGED <<pool, releasing>>

-----------------------------------------------------------------------------
\* keepalive(): nothing to do without a lease.
KeepaliveTake ==
    /\ Running /\ pc[Keeper] = "idle" /\ lock = Nobody
    /\ sock # "none" /\ lease_id # 0
    /\ lock' = Keeper
    /\ wire' = [op |-> "KEEPALIVE", offset |-> lease_id, length |-> 0, base |-> 0]
    /\ Move(Keeper, "keepalive")
    /\ UNCHANGED <<pool, service, asked, result, releasing>>

KeepaliveDone ==
    /\ Running /\ pc[Keeper] = "keepalive"
    /\ Returns
    /\ Unlock(Keeper, "idle")
    /\ UNCHANGED <<pool, asked, result, releasing>>

\* Mutant of KeepaliveFails: the exception ends the thread, the socket is kept.
KeepaliveFailsEndsThread ==
    /\ Running /\ pc[Keeper] = "keepalive"
    /\ RaisedLeavingSocket /\ UNCHANGED abandoned
    /\ Unlock(Keeper, "exited")
    /\ UNCHANGED <<pool, asked, result, releasing>>

KeepaliveFails ==
    /\ Running /\ pc[Keeper] = "keepalive"
    /\ MarkDisconnected
    /\ Unlock(Keeper, "idle")
    /\ UNCHANGED <<pool, asked, result, releasing>>

-----------------------------------------------------------------------------
\* release(): the socket and the lease are taken away under the lock ...
ReleaseTake ==
    /\ pc[Main] = "serving" /\ lock = Nobody
    /\ IF sock # "none" /\ lease_id # 0
       THEN releasing' = lease_id /\ Move(Main, "releasing")
       ELSE UNCHANGED releasing /\ Move(Main, "released")
    /\ sock' = "none" /\ late' = <<>> /\ lease_id' = 0 /\ abandoned' = FALSE
    /\ UNCHANGED <<pool, base_offset, length, lock, asked, wire, result>>

\* ... and RELEASE is sent without it; whatever goes wrong is ignored.
ReleaseSend ==
    /\ pc[Main] = "releasing"
    /\ pool' \in {pool, {r \in pool : r.lease_id # releasing}}
    /\ releasing' = 0
    /\ Move(Main, "released")
    /\ UNCHANGED <<service, lock, asked, wire, result>>

\* main returns, which ends the daemon threads wherever they are.
Exit ==
    /\ pc[Main] = "released"
    /\ Move(Main, "exited")
    /\ UNCHANGED <<pool, service, lock, asked, wire, result, releasing>>

Holder(t) == Done(t) \/ FirstFails(t) \/ Reconnect(t) \/ SecondFails(t)

Client(t) == Ask(t) \/ Take(t) \/ Holder(t)

KeeperStep == KeepaliveTake \/ KeepaliveDone \/ KeepaliveFails

MainStep == Start \/ ReleaseTake \/ ReleaseSend \/ Exit

Next == OtherBorrows \/ LeaseEnds \/ MainStep \/ KeeperStep \/ \E t \in Clients : Client(t)

Spec == Init /\ [][Next]_vars

\* Every exchange ends: connects and receives time out after 20 seconds.
ExchangesEnd ==
    /\ \A t \in Clients : WF_vars(Holder(t))
    /\ WF_vars(KeepaliveDone \/ KeepaliveFails)

FairSpec == Spec /\ ExchangesEnd

\* Clients that keep asking, a provider that drops the leases nobody renews,
\* and a network that does not fail every time.
ReconnectSucceeds(t) == Reconnect(t) /\ sock' = "open"

OrphanEnds == LeaseEnds /\ \A r \in pool : r.lease_id = lease_id => r \in pool'

Recovering ==
    /\ WF_vars(Start)
    /\ WF_vars(OrphanEnds)
    /\ \A t \in Clients : WF_vars(Ask(t)) /\ SF_vars(Take(t)) /\ SF_vars(ReconnectSucceeds(t))

RecoverySpec == FairSpec /\ Recovering

-----------------------------------------------------------------------------
Places == {"idle", "waiting", "first", "reconnect", "second", "keepalive",
           "starting", "serving", "releasing", "released", "exited"}

Units == [kind : {"head", "byte"}, op : {"READ", "WRITE", "KEEPALIVE"}, offset : Nat, n : Nat]

\* What is unread is never more than the reply to one request.
TypeOK ==
    /\ pool \subseteq Holding
    /\ sock \in {"none", "open", "lost"}
    /\ late \in Seq(Units) /\ Len(late) <= 1 + BLOCK
    /\ lease_id \in Ids \cup {0}
    /\ base_offset \in Nat /\ length \in {0, BLOCK}
    /\ lock \in Clients \cup {Keeper, Nobody}
    /\ pc \in [Threads -> Places]
    /\ asked \in [Clients -> [op : {"none", "READ", "WRITE"}, offset : Nat, length : Nat]]
    /\ wire \in [op : {"none", "READ", "WRITE", "KEEPALIVE"}, offset : Nat, length : Nat,
                 base : Nat]
    /\ result \in {"none", "own", "other"}
    /\ releasing \in Ids \cup {0}
    /\ abandoned \in BOOLEAN

(***************************************************************************)
(* The service's own record of its lease is the provider's: a lease id     *)
(* goes with a socket, and while the provider still has the lease, its     *)
(* region is base_offset and length (ramlink_memory_service.py:83-93,      *)
(* 99-125, 193-198).                                                       *)
(***************************************************************************)
LeaseRecordConsistent ==
    /\ sock # "none" <=> lease_id # 0
    /\ \A r \in pool :
         r.lease_id = lease_id
           => r.ours /\ r.offset = base_offset /\ r.length = length

Inside(w) == base_offset <= w.offset /\ w.offset + w.length <= base_offset + length

Accessing == wire.op \in {"READ", "WRITE"} /\ sock # "none"

(***************************************************************************)
(* "The borrower accesses that region with READ/WRITE"                     *)
(* (protocol/ramlink_protocol.md:11).  What goes out on the socket lies in *)
(* the region borrowed on it, although the range was checked before the    *)
(* lock was taken, but for one case: a second try sends the offset of the  *)
(* first, and its reconnect got another base offset                        *)
(* (ramlink_memory_service.py:127-133, 148-155, 163-172).                  *)
(***************************************************************************)
OutsideOnlyWhenRegionMoved ==
    Accessing => (Inside(wire) \/ wire.base # base_offset)

(***************************************************************************)
(* A READ returns the bytes of its own range of the region now borrowed.   *)
(* There are two ways to get others: the region moved between its two      *)
(* tries, or a second try has failed before on the same socket, which      *)
(* stays in use with a reply to come.  The keepalive thread, the other     *)
(* requests and whatever came late before a reconnect are no way to it     *)
(* (ramlink_memory_service.py:41-46, 99-109, 127-145, 152-157).            *)
(***************************************************************************)
OtherBytesForAReason ==
    [][\A t \in Clients :
         pc[t] \in {"first", "second"} /\ pc'[t] = "idle" /\ result' = "other" =>
           abandoned \/ wire.base # base_offset]_vars

(***************************************************************************)
(* Whoever holds the lock gives it up, however its exchanges fail: the     *)
(* keepalive thread and STATUS are never locked out by one request.        *)
(***************************************************************************)
LockReleased ==
    lock # Nobody ~> (lock = Nobody \/ pc[Main] = "exited")

(***************************************************************************)
(* "the next memory request can acquire a fresh volatile lease through     *)
(* reconnect logic" (ramlink_memory_service.py:213-214): after a failure   *)
(* the service has a lease again, although its old leases keep the         *)
(* provider's buffer occupied until they expire.  Only other borrowers     *)
(* that never stop borrowing can keep it waiting.                          *)
(***************************************************************************)
LeaseRecovered ==
    \/ (pc[Main] = "serving" /\ lease_id = 0) ~> (lease_id # 0 \/ pc[Main] # "serving")
    \/ []<><<OtherBorrows>>_vars

=============================================================================
