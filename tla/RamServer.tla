------------------------------ MODULE RamServer ------------------------------
(***************************************************************************)
(* The Android provider, android/termux/server.py: one buffer, a table of  *)
(* leases, and one thread per TCP connection running client()/handle().    *)
(*                                                                         *)
(* A step is a stretch of a handler between two points where another       *)
(* thread can get in: every `with self.lease_lock` or `with memory_lock`   *)
(* section is one step, and so is each wait for the peer (next header,     *)
(* payload, reply).  The locks are never nested and never held across a    *)
(* wait, so they need no state of their own.                               *)
(*                                                                         *)
(* Time is counted in ticks.  expires_in is lease.expires_at minus the     *)
(* current time.monotonic(), cut off at 0; a locked section takes no time. *)
(***************************************************************************)
EXTENDS FirstFitLoop

CONSTANTS
    Conns,          \* connection slots, each served by one thread
    Issues,         \* Issues[c]: the operations the peer of slot c sends
    Requests,       \* the lengths (bytes) that BORROW, READ and WRITE ask for
    Payloads,       \* the nonzero byte values that WRITE carries
    MAX_BLOCK,      \* largest transfer, in bytes
    LEASE_SECONDS,  \* lease duration, in ticks
    MaxLeases       \* bound: leases granted in one run of the server

Ops == {"INFO", "READ", "WRITE", "STATELESS", "BORROW", "RELEASE", "KEEPALIVE"}

ASSUME ServerAssumption ==
    /\ Issues \in [Conns -> SUBSET Ops]
    /\ Requests \subseteq Nat
    /\ Payloads \subseteq Nat \ {0}
    /\ MAX_BLOCK \in Nat
    /\ LEASE_SECONDS \in Nat \ {0}
    /\ MaxLeases \in Nat

VARIABLES
    memory,         \* the bytearray
    leases,         \* the keys of the dict self.leases
    lease,          \* lease[i]: the Lease object created with id i
    next_lease_id,
    pc,             \* where the thread of each connection is
    local           \* its local variables

vars == <<memory, leases, lease, next_lease_id, pc, local>>

LeaseIds == 1 .. next_lease_id - 1

LeaseObject == [offset : Nat, length : Nat, expires_in : 0 .. LEASE_SECONDS]

Places == {"closed", "header", "scan", "insert", "zero", "pop", "extend",
           "payload", "reply"}

Locals == [lease_id : Nat, offset : Nat, length : Nat, data : Payloads \cup {0}]

NoLocals == [lease_id |-> 0, offset |-> 0, length |-> 0, data |-> 0]

Init ==
    /\ memory = [b \in 0 .. SIZE - 1 |-> 0]
    /\ leases = {}
    /\ lease = [i \in {} |-> 0]
    /\ next_lease_id = 1
    /\ pc = [c \in Conns |-> "closed"]
    /\ local = [c \in Conns |-> NoLocals]

-----------------------------------------------------------------------------
\* Helpers.

\* Mutant of Alive: a lease never expires.
AliveForever(i) == lease[i].expires_in >= 0

Alive(i) == lease[i].expires_in > 0

RegionOf(i) == [offset |-> lease[i].offset, length |-> lease[i].length]

\* Mutant of CleanupExpired: a lease is dropped one tick early.
CleanupEarly == leases' = {i \in leases : lease[i].expires_in > 1}

CleanupExpired == leases' = {i \in leases : Alive(i)}

Fill(offset, length, value) ==
    memory' = [b \in DOMAIN memory |->
                 IF b \in offset .. offset + length - 1 THEN value ELSE memory[b]]

\* The thread of c stops at `place` with its local variables set to l.
Goto(c, place, l) ==
    /\ pc' = [pc EXCEPT ![c] = place]
    /\ local' = [local EXCEPT ![c] = l]

\* An exception reaches client(): the connection is closed, nothing is sent.
Fail(c) == Goto(c, "closed", NoLocals)

\* The next header read by the thread of c carries operation op.
Receives(c, op) == pc[c] = "header" /\ op \in Issues[c]

-----------------------------------------------------------------------------
\* start(): accept a connection on a free slot and start its thread.
Accept(c) ==
    /\ pc[c] = "closed"
    /\ Goto(c, "header", NoLocals)
    /\ UNCHANGED <<memory, leases, lease, next_lease_id>>

\* recv_all finds the peer gone, or the magic is wrong.
Disconnect(c) ==
    /\ pc[c] \in {"header", "payload"}
    /\ Fail(c)
    /\ UNCHANGED <<memory, leases, lease, next_lease_id>>

\* The reply is sent, or sendall fails because the peer is gone.
SendReply(c) ==
    /\ pc[c] = "reply"
    /\ Goto(c, "header", NoLocals) \/ Fail(c)
    /\ UNCHANGED <<memory, leases, lease, next_lease_id>>

Info(c) ==
    /\ Receives(c, "INFO")
    /\ CleanupExpired
    /\ Goto(c, "reply", NoLocals)
    /\ UNCHANGED <<memory, lease, next_lease_id>>

\* PING and BLOCK_INFO answer from constants; an unknown operation raises.
Stateless(c) ==
    /\ Receives(c, "STATELESS")
    /\ Goto(c, "reply", NoLocals) \/ Fail(c)
    /\ UNCHANGED <<memory, leases, lease, next_lease_id>>

-----------------------------------------------------------------------------
\* BORROW: cleanup_expired, find_free_region, the insertion and the zeroing
\* are four separately locked sections of borrow().

\* bound: no more than MaxLeases BORROW requests get past the size check.
Granting == {c \in Conns : pc[c] \in {"scan", "insert"}}

BorrowCleanup(c) ==
    /\ Receives(c, "BORROW")
    /\ next_lease_id + Cardinality(Granting) <= MaxLeases
    /\ CleanupExpired
    /\ \E requested \in Requests :
         LET length == RoundUp(requested)
         IN  IF length <= 0 \/ length > SIZE
             THEN Fail(c)
             ELSE Goto(c, "scan", [NoLocals EXCEPT !.length = length])
    /\ UNCHANGED <<memory, lease, next_lease_id>>

\* Mutant of LiveRegions: a lease in its last second counts as expired.
LiveRegionsEarly == {RegionOf(i) : i \in {j \in leases : lease[j].expires_in > 1}}

LiveLeases == {i \in leases : Alive(i)}

\* find_free_region looks only at the leases that are alive at this moment.
LiveRegions == {RegionOf(i) : i \in LiveLeases}

BorrowScan(c) ==
    /\ pc[c] = "scan"
    /\ \/ /\ NoFit(local[c].length, LiveRegions)
          /\ Fail(c)
       \/ \E p \in Cursors(LiveRegions) :
            /\ FirstFit(p, local[c].length, LiveRegions)
            /\ Goto(c, "insert", [local[c] EXCEPT !.offset = p])
    /\ UNCHANGED <<memory, leases, lease, next_lease_id>>

\* Mutant of NextLeaseId: the counter is not advanced.
NextLeaseIdSame == next_lease_id

NextLeaseId == next_lease_id + 1

BorrowInsert(c) ==
    /\ pc[c] = "insert"
    /\ lease' = [i \in 1 .. next_lease_id |->
                   IF i = next_lease_id
                   THEN [offset |-> local[c].offset, length |-> local[c].length,
                         expires_in |-> LEASE_SECONDS]
                   ELSE lease[i]]
    /\ leases' = leases \cup {next_lease_id}
    /\ next_lease_id' = NextLeaseId
    /\ Goto(c, "zero", [local[c] EXCEPT !.lease_id = next_lease_id])
    /\ UNCHANGED memory

\* Mutant of Zero: the slice starts at the beginning of the buffer.
ZeroFromStart(c) == Fill(0, local[c].offset + local[c].length, 0)

Zero(c) == Fill(local[c].offset, local[c].length, 0)

BorrowZero(c) ==
    /\ pc[c] = "zero"
    /\ Zero(c)
    /\ Goto(c, "reply", local[c])
    /\ UNCHANGED <<leases, lease, next_lease_id>>

-----------------------------------------------------------------------------
\* get_lease: an expired lease is deleted on the way to the exception.
GetLease(c, i, place) ==
    IF i \in leases /\ Alive(i)
    THEN Goto(c, place, [NoLocals EXCEPT !.lease_id = i]) /\ UNCHANGED leases
    ELSE Fail(c) /\ leases' = leases \ {i}

ReleaseLookup(c) ==
    /\ Receives(c, "RELEASE")
    /\ \E i \in 1 .. MaxLeases : GetLease(c, i, "pop")
    /\ UNCHANGED <<memory, lease, next_lease_id>>

ReleasePop(c) ==
    /\ pc[c] = "pop"
    /\ leases' = leases \ {local[c].lease_id}
    /\ Goto(c, "reply", NoLocals)
    /\ UNCHANGED <<memory, lease, next_lease_id>>

KeepaliveLookup(c) ==
    /\ Receives(c, "KEEPALIVE")
    /\ \E i \in 1 .. MaxLeases : GetLease(c, i, "extend")
    /\ UNCHANGED <<memory, lease, next_lease_id>>

\* lease.keepalive() on the object, which may have left the table meanwhile.
KeepaliveExtend(c) ==
    /\ pc[c] = "extend"
    /\ lease' = [lease EXCEPT ![local[c].lease_id].expires_in = LEASE_SECONDS]
    /\ Goto(c, "reply", NoLocals)
    /\ UNCHANGED <<memory, leases, next_lease_id>>

-----------------------------------------------------------------------------
\* READ/WRITE count in bytes (unit 1), BLOCK_READ/BLOCK_WRITE in sectors.
\* The peer may ask for any offset up to one past the end.

ValidRange(unit, offset, length) ==
    /\ length * unit <= MAX_BLOCK
    /\ offset <= SIZE \div unit
    /\ length <= (SIZE \div unit) - offset

\* The bytes are copied under memory_lock; their value is not kept here.
Read(c) ==
    /\ Receives(c, "READ")
    /\ \E unit \in {1, SECTOR_SIZE}, offset \in 0 .. SIZE + 1, length \in Requests :
         IF ValidRange(unit, offset, length)
         THEN Goto(c, "reply", NoLocals)
         ELSE Fail(c)
    /\ UNCHANGED <<memory, leases, lease, next_lease_id>>

WriteHeader(c) ==
    /\ Receives(c, "WRITE")
    /\ \E unit \in {1, SECTOR_SIZE}, offset \in 0 .. SIZE + 1, length \in Requests,
          v \in Payloads :
         IF ValidRange(unit, offset, length)
         THEN Goto(c, "payload", [lease_id |-> 0, offset |-> offset * unit,
                                  length |-> length * unit, data |-> v])
         ELSE Fail(c)
    /\ UNCHANGED <<memory, leases, lease, next_lease_id>>

\* recv_all returns the payload, and the store follows under memory_lock.
WritePayload(c) ==
    /\ pc[c] = "payload"
    /\ Fill(local[c].offset, local[c].length, local[c].data)
    /\ Goto(c, "reply", NoLocals)
    /\ UNCHANGED <<leases, lease, next_lease_id>>

-----------------------------------------------------------------------------
\* Mutant of Sooner: the remaining time is not cut off at 0.
SoonerBelowZero(t) == t - 1

Sooner(t) == IF t > 0 THEN t - 1 ELSE 0

Tick ==
    /\ \E i \in LeaseIds : Alive(i)
    /\ lease' = [i \in DOMAIN lease |-> [lease[i] EXCEPT !.expires_in = Sooner(@)]]
    /\ UNCHANGED <<memory, leases, next_lease_id, pc, local>>

Handler(c) ==
    \/ SendReply(c)
    \/ BorrowScan(c)
    \/ BorrowInsert(c)
    \/ BorrowZero(c)
    \/ ReleasePop(c)
    \/ KeepaliveExtend(c)

Peer(c) ==
    \/ Accept(c)
    \/ Disconnect(c)
    \/ Info(c)
    \/ Stateless(c)
    \/ BorrowCleanup(c)
    \/ ReleaseLookup(c)
    \/ KeepaliveLookup(c)
    \/ Read(c)
    \/ WriteHeader(c)
    \/ WritePayload(c)

Next == Tick \/ \E c \in Conns : Handler(c) \/ Peer(c)

Spec == Init /\ [][Next]_vars

(***************************************************************************)
(* Fairness.  A handler that waits for no peer runs to its end (the OS     *)
(* schedules every thread), and the clock advances.  Nothing obliges a     *)
(* peer to send anything.                                                  *)
(***************************************************************************)
Fairness ==
    /\ WF_vars(Tick)
    /\ \A c \in Conns : WF_vars(Handler(c))

FairSpec == Spec /\ Fairness

-----------------------------------------------------------------------------
TypeOK ==
    /\ memory \in [0 .. SIZE - 1 -> Payloads \cup {0}]
    /\ leases \subseteq LeaseIds
    /\ lease \in [LeaseIds -> LeaseObject]
    /\ next_lease_id \in Nat \ {0}
    /\ pc \in [Conns -> Places]
    /\ local \in [Conns -> Locals]

Aligned(n) == \E k \in 0 .. n : n = k * SECTOR_SIZE

(***************************************************************************)
(* Every lease that was ever granted is a nonempty run of whole sectors    *)
(* inside the buffer, even when it was placed by a scan whose result was   *)
(* stale at the time of the insertion (server.py:131-146).                 *)
(***************************************************************************)
LeasesWellFormed ==
    \A i \in LeaseIds :
      /\ lease[i].length > 0
      /\ End(RegionOf(i)) <= SIZE
      /\ Aligned(lease[i].offset) /\ Aligned(lease[i].length)

(***************************************************************************)
(* Two BORROW handlers between their insertion and their reply never hold  *)
(* the same lease id, so no two borrowers are told they own one lease      *)
(* (server.py:142-146).                                                    *)
(***************************************************************************)
Granted(c) == pc[c] \in {"zero", "reply"} /\ local[c].lease_id # 0

GrantsDistinct ==
    \A c, d \in Conns :
      (Granted(c) /\ Granted(d) /\ c # d)
        => local[c].lease_id # local[d].lease_id

(***************************************************************************)
(* The leases that are alive never overlap: "grants non-overlapping leased *)
(* regions" (protocol/ramlink_protocol.md:10), unless there was a race     *)
(* (NoRace, below).                                                        *)
(***************************************************************************)
LiveDisjoint ==
    \A i, j \in LiveLeases :
      i # j => Disjoint(RegionOf(i), RegionOf(j))

(***************************************************************************)
(* The scan of find_free_region, in whatever order sorted() lists leases   *)
(* of one offset, returns the lowest free position of the buffer among the *)
(* ends of leases, and None only when no position at all is free, also     *)
(* over the overlapping leases that two BORROW handlers can create         *)
(* (server.py:100-116).                                                    *)
(***************************************************************************)
ScanIsFirstFit ==
    \A length \in 1 .. SIZE,
       s \in SortedBy(LiveLeases, [i \in LiveLeases |-> lease[i].offset]) :
      LET p == FindFreeRegion(length, [k \in DOMAIN s |-> RegionOf(s[k])])
      IN  IF p = None
          THEN \A q \in 0 .. SIZE : ~FreeAt(q, length, LiveRegions)
          ELSE FirstFit(p, length, LiveRegions)

(***************************************************************************)
(* A lease leaves the table only when it has expired or when a RELEASE     *)
(* naming it is being served; no clean-up on behalf of another client      *)
(* takes a live lease away (server.py:118-126, 161-168, 213-219).          *)
(***************************************************************************)
LeaseLossJustified ==
    [][\A i \in leases \ leases' :
         \/ ~Alive(i)
         \/ \E c \in Conns :
              pc[c] = "pop" /\ local[c].lease_id = i /\ pc'[c] = "reply"]_vars

(***************************************************************************)
(* The zeroing of a block, which comes after its lease was inserted and in *)
(* a locked section of its own, clears no byte of another live lease,      *)
(* unless there was a race (server.py:142-150).                            *)
(***************************************************************************)
Zeroing(c) == pc[c] = "zero" /\ pc'[c] = "reply"

ZeroingSparesOthers ==
    [][\A c \in Conns : Zeroing(c) =>
         \A i \in LiveLeases \ {local[c].lease_id} :
           \A b \in lease[i].offset .. End(RegionOf(i)) - 1 :
             memory'[b] = memory[b]]_vars

(***************************************************************************)
(* A handler acts on what it found in an earlier locked section: BORROW on *)
(* the place it scanned and then on the lease it inserted, KEEPALIVE on    *)
(* the lease it looked up.  Unsettled(c): that of c may no longer be so.   *)
(* NoRace: nobody else's is, while a scanned place waits for its lease.    *)
(***************************************************************************)
Unsettled(c) ==
    \/ pc[c] = "insert"
    \/ pc[c] = "zero" /\ local[c].lease_id \notin LiveLeases
    \/ pc[c] = "extend" /\ local[c].lease_id \in leases \ LiveLeases

NoRace ==
    \A c, d \in Conns : pc[c] = "insert" /\ Unsettled(d) => c = d

\* The behaviours of Spec without a race.
CalmSpec == Init /\ [][Next /\ NoRace']_vars

(***************************************************************************)
(* The regions in force: leases in the table that are alive, or that a     *)
(* KEEPALIVE which found them alive is about to extend.                    *)
(***************************************************************************)
Extending(i) == \E c \in Conns : pc[c] = "extend" /\ local[c].lease_id = i

Held == {i \in leases : Alive(i) \/ Extending(i)}

Pool == INSTANCE RegionPool WITH
          pool    <- {[lease_id |-> i, offset |-> lease[i].offset,
                       length |-> lease[i].length] : i \in Held},
          granted <- next_lease_id - 1

(***************************************************************************)
(* Without a race the server implements the abstract pool.                 *)
(***************************************************************************)
ImplementsPool == Pool!Spec

(***************************************************************************)
(* Space held by leases that nobody renews is reclaimed: peers that keep   *)
(* connecting and sending BORROW are granted every lease of the run, even  *)
(* if each connection is lost before the lease is released.                *)
(***************************************************************************)
RetryingBorrowers ==
    \A c \in Conns : WF_vars(Accept(c)) /\ SF_vars(BorrowCleanup(c))

RetrySpec == FairSpec /\ RetryingBorrowers

BorrowEventuallyGranted == <>(next_lease_id > MaxLeases)

=============================================================================
