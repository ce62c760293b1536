----------------------------- MODULE RamProvider -----------------------------
(***************************************************************************)
(* The Windows provider, clients/windows/ramlink_memory_provider.py.  It   *)
(* speaks the same protocol as android/termux/server.py (module RamServer) *)
(* but its lease code differs where it matters:                            *)
(*   - free_region scans every lease left in the table, alive or not;      *)
(*   - get_lease and free_region clean the table in a section of their own;*)
(*   - RELEASE pops without looking at the expiry;                         *)
(*   - READ and WRITE are refused outside a live lease.                    *)
(* Steps and time are those of RamServer: a locked section is one step,    *)
(* expires_in is the time a lease has left, in ticks.                      *)
(***************************************************************************)
EXTENDS LeaseRegions, FiniteSets

CONSTANTS
    Conns,          \* connection slots, each served by one thread
    Issues,         \* Issues[c]: the operations the peer of slot c sends
    Requests,       \* the lengths (bytes) that BORROW, READ and WRITE ask for
    Payloads,       \* the nonzero byte values that WRITE carries
    MAX_BLOCK,      \* largest transfer, in bytes
    LEASE_SECONDS,  \* lease duration, in ticks
    MaxLeases       \* bound: leases granted in one run of the provider

Ops == {"INFO", "READ", "WRITE", "PING", "BORROW", "RELEASE", "KEEPALIVE"}

ASSUME ProviderAssumption ==
    /\ Issues \in [Conns -> SUBSET Ops]
    /\ Requests \subseteq Nat
    /\ Payloads \subseteq Nat \ {0}
    /\ MAX_BLOCK \in Nat
    /\ LEASE_SECONDS \in Nat \ {0}
    /\ MaxLeases \in Nat

VARIABLES
    memory,         \* the bytearray
    leases,         \* the keys of the dict self.leases
    lease,          \* lease[i]: the Lease object created with id i
    next_lease_id,
    pc,             \* where the thread of each connection is
    local           \* its local variables

vars == <<memory, leases, lease, next_lease_id, pc, local>>

LeaseIds == 1 .. next_lease_id - 1

LeaseObject == [offset : Nat, length : Nat, expires_in : 0 .. LEASE_SECONDS]

Places == {"closed", "header", "scan", "insert", "zero", "lookup", "extend",
           "copy", "payload", "reply"}

Locals == [lease_id : Nat, offset : Nat, length : Nat, data : Payloads \cup {0}]

NoLocals == [lease_id |-> 0, offset |-> 0, length |-> 0, data |-> 0]

Init ==
    /\ memory = [b \in 0 .. SIZE - 1 |-> 0]
    /\ leases = {}
    /\ lease = [i \in {} |-> 0]
    /\ next_lease_id = 1
    /\ pc = [c \in Conns |-> "closed"]
    /\ local = [c \in Conns |-> NoLocals]

-----------------------------------------------------------------------------
\* Mutant of Alive: a lease never expires.
AliveForever(i) == lease[i].expires_in >= 0

Alive(i) == lease[i].expires_in > 0

RegionOf(i) == [offset |-> lease[i].offset, length |-> lease[i].length]

Cleanup == leases' = {i \in leases : Alive(i)}

Fill(offset, length, value) ==
    memory' = [b \in DOMAIN memory |->
                 IF b \in offset .. offset + length - 1 THEN value ELSE memory[b]]

\* The thread of c stops at `place` with its local variables set to l.
Goto(c, place, l) ==
    /\ pc' = [pc EXCEPT ![c] = place]
    /\ local' = [local EXCEPT ![c] = l]

\* An exception reaches client(): the connection is closed, nothing is sent.
Fail(c) == Goto(c, "closed", NoLocals)

\* The next header read by the thread of c carries operation op.
Receives(c, op) == pc[c] = "header" /\ op \in Issues[c]

-----------------------------------------------------------------------------
Accept(c) ==
    /\ pc[c] = "closed"
    /\ Goto(c, "header", NoLocals)
    /\ UNCHANGED <<memory, leases, lease, next_lease_id>>

\* recv_all finds the peer gone, the magic is wrong, or the operation unknown.
Disconnect(c) ==
    /\ pc[c] \in {"header", "payload"}
    /\ Fail(c)
    /\ UNCHANGED <<memory, leases, lease, next_lease_id>>

\* The reply is sent, or sendall fails because the peer is gone.
SendReply(c) ==
    /\ pc[c] = "reply"
    /\ Goto(c, "header", NoLocals) \/ Fail(c)
    /\ UNCHANGED <<memory, leases, lease, next_lease_id>>

Ping(c) ==
    /\ Receives(c, "PING")
    /\ Goto(c, "reply", NoLocals)
    /\ UNCHANGED <<memory, leases, lease, next_lease_id>>

Info(c) ==
    /\ Receives(c, "INFO")
    /\ Cleanup
    /\ Goto(c, "reply", NoLocals)
    /\ UNCHANGED <<memory, lease, next_lease_id>>

-----------------------------------------------------------------------------
\* BORROW: the cleanup and the scan of free_region, the insertion and the
\* zeroing are four separately locked sections.

\* bound: no more than MaxLeases BORROW requests get past the size check.
Granting == {c \in Conns : pc[c] \in {"scan", "insert"}}

\* The size check fails before anything is touched.
BorrowRefuse(c) ==
    /\ Receives(c, "BORROW")
    /\ \E requested \in Requests : RoundUp(requested) \notin 1 .. SIZE
    /\ Fail(c)
    /\ UNCHANGED <<memory, leases, lease, next_lease_id>>

BorrowCleanup(c) ==
    /\ Receives(c, "BORROW")
    /\ next_lease_id + Cardinality(Granting) <= MaxLeases
    /\ Cleanup
    /\ \E requested \in Requests :
         /\ RoundUp(requested) \in 1 .. SIZE
         /\ Goto(c, "scan", [NoLocals EXCEPT !.length = RoundUp(requested)])
    /\ UNCHANGED <<memory, lease, next_lease_id>>

\* Mutant of TableRegions: leases that expired since the cleanup are skipped.
TableRegionsAlive == {RegionOf(i) : i \in {j \in leases : Alive(j)}}

\* free_region places the block against every lease in the table.
TableRegions == {RegionOf(i) : i \in leases}

BorrowScan(c) ==
    /\ pc[c] = "scan"
    /\ \/ /\ NoFit(local[c].length, TableRegions)
          /\ Fail(c)
       \/ \E p \in Cursors(TableRegions) :
            /\ FirstFit(p, local[c].length, TableRegions)
            /\ Goto(c, "insert", [local[c] EXCEPT !.offset = p])
    /\ UNCHANGED <<memory, leases, lease, next_lease_id>>

BorrowInsert(c) ==
    /\ pc[c] = "insert"
    /\ lease' = [i \in 1 .. next_lease_id |->
                   IF i = next_lease_id
                   THEN [offset |-> local[c].offset, length |-> local[c].length,
                         expires_in |-> LEASE_SECONDS]
                   ELSE lease[i]]
    /\ leases' = leases \cup {next_lease_id}
    /\ next_lease_id' = next_lease_id + 1
    /\ Goto(c, "zero", [local[c] EXCEPT !.lease_id = next_lease_id])
    /\ UNCHANGED memory

BorrowZero(c) ==
    /\ pc[c] = "zero"
    /\ Fill(local[c].offset, local[c].length, 0)
    /\ Goto(c, "reply", local[c])
    /\ UNCHANGED <<leases, lease, next_lease_id>>

-----------------------------------------------------------------------------
Release(c) ==
    /\ Receives(c, "RELEASE")
    /\ \E i \in 1 .. MaxLeases :
         IF i \in leases
         THEN Goto(c, "reply", NoLocals) /\ leases' = leases \ {i}
         ELSE Fail(c) /\ UNCHANGED leases
    /\ UNCHANGED <<memory, lease, next_lease_id>>

\* get_lease: cleanup(), then the lookup in a section of its own.
KeepaliveCleanup(c) ==
    /\ Receives(c, "KEEPALIVE")
    /\ Cleanup
    /\ \E i \in 1 .. MaxLeases : Goto(c, "lookup", [NoLocals EXCEPT !.lease_id = i])
    /\ UNCHANGED <<memory, lease, next_lease_id>>

KeepaliveLookup(c) ==
    /\ pc[c] = "lookup"
    /\ IF local[c].lease_id \in leases THEN Goto(c, "extend", local[c]) ELSE Fail(c)
    /\ UNCHANGED <<memory, leases, lease, next_lease_id>>

\* Mutant of KeepaliveExtend: the renewed lease is put back into the table.
KeepaliveReinsert(c) ==
    /\ pc[c] = "extend"
    /\ lease' = [lease EXCEPT ![local[c].lease_id].expires_in = LEASE_SECONDS]
    /\ leases' = leases \cup {local[c].lease_id}
    /\ Goto(c, "reply", NoLocals)
    /\ UNCHANGED <<memory, next_lease_id>>

\* keepalive() on the object, which may have left the table meanwhile.
KeepaliveExtend(c) ==
    /\ pc[c] = "extend"
    /\ lease' = [lease EXCEPT ![local[c].lease_id].expires_in = LEASE_SECONDS]
    /\ Goto(c, "reply", NoLocals)
    /\ UNCHANGED <<memory, leases, next_lease_id>>

-----------------------------------------------------------------------------
\* Some live lease, whoever borrowed it, contains the range.
InsideLiveLease(offset, length) ==
    \E i \in leases :
      /\ Alive(i)
      /\ offset >= lease[i].offset
      /\ offset + length <= End(RegionOf(i))

\* The peer may ask for any offset up to one past the end of the buffer.
Request(c, op, place) ==
    /\ Receives(c, op)
    /\ \E offset \in 0 .. SIZE + 1, length \in Requests, v \in Payloads :
         IF length <= MAX_BLOCK /\ InsideLiveLease(offset, length)
         THEN Goto(c, place, [lease_id |-> 0, offset |-> offset, length |-> length,
                              data |-> IF op = "WRITE" THEN v ELSE 0])
         ELSE Fail(c)
    /\ UNCHANGED <<memory, leases, lease, next_lease_id>>

ReadHeader(c) == Request(c, "READ", "copy")

\* The bytes are copied under self.lock; their value is not kept here.
ReadCopy(c) ==
    /\ pc[c] = "copy"
    /\ Goto(c, "reply", NoLocals)
    /\ UNCHANGED <<memory, leases, lease, next_lease_id>>

WriteHeader(c) == Request(c, "WRITE", "payload")

\* recv_all returns the payload, and the store follows under self.lock.
WritePayload(c) ==
    /\ pc[c] = "payload"
    /\ Fill(local[c].offset, local[c].length, local[c].data)
    /\ Goto(c, "reply", NoLocals)
    /\ UNCHANGED <<leases, lease, next_lease_id>>

-----------------------------------------------------------------------------
\* Mutant of Tick: the remaining time is not cut off at 0.
TickBelowZero ==
    /\ lease' = [i \in DOMAIN lease |-> [lease[i] EXCEPT !.expires_in = @ - 1]]
    /\ UNCHANGED <<memory, leases, next_lease_id, pc, local>>

Tick ==
    /\ \E i \in LeaseIds : Alive(i)
    /\ lease' = [i \in DOMAIN lease |->
                   [lease[i] EXCEPT !.expires_in = IF @ > 0 THEN @ - 1 ELSE 0]]
    /\ UNCHANGED <<memory, leases, next_lease_id, pc, local>>

Handler(c) ==
    \/ SendReply(c)
    \/ BorrowScan(c)
    \/ BorrowInsert(c)
    \/ BorrowZero(c)
    \/ KeepaliveLookup(c)
    \/ KeepaliveExtend(c)
    \/ ReadCopy(c)

Peer(c) ==
    \/ Accept(c)
    \/ Disconnect(c)
    \/ Ping(c)
    \/ Info(c)
    \/ BorrowRefuse(c)
    \/ BorrowCleanup(c)
    \/ Release(c)
    \/ KeepaliveCleanup(c)
    \/ ReadHeader(c)
    \/ WriteHeader(c)
    \/ WritePayload(c)

Next == Tick \/ \E c \in Conns : Handler(c) \/ Peer(c)

Spec == Init /\ [][Next]_vars

(***************************************************************************)
(* Nothing holds between the scan of one BORROW and its insertion.         *)
(* NoRace: no two places that were scanned wait for their leases at once.  *)
(***************************************************************************)
NoRace == \A c, d \in Conns : pc[c] = "insert" /\ pc[d] = "insert" => c = d

\* The behaviours of Spec without a race.
CalmSpec == Init /\ [][Next /\ NoRace']_vars

(***************************************************************************)
(* Fairness.  Handlers that wait for no peer run to their end, and the     *)
(* clock advances; peers connect again and send the payloads they          *)
(* announce, and one of them keeps sending BORROW.                         *)
(***************************************************************************)
RetrySpec ==
    /\ Spec
    /\ WF_vars(Tick)
    /\ \A c \in Conns :
         WF_vars(Handler(c)) /\ WF_vars(Accept(c)) /\ WF_vars(WritePayload(c))
    /\ \E c \in Conns : SF_vars(BorrowCleanup(c))

-----------------------------------------------------------------------------
TypeOK ==
    /\ memory \in [0 .. SIZE - 1 -> Payloads \cup {0}]
    /\ leases \subseteq LeaseIds
    /\ lease \in [LeaseIds -> LeaseObject]
    /\ next_lease_id \in Nat \ {0}
    /\ pc \in [Conns -> Places]
    /\ local \in [Conns -> Locals]

(***************************************************************************)
(* At most one connection borrows; keepalives, releases and accesses may   *)
(* come from any of them.  There is no race then.  The Android borrowers   *)
(* are such: client.py (35) and remote_cache.py (50) send one BORROW on    *)
(* their only connection, and never reconnect.                             *)
(***************************************************************************)
OneBorrower ==
    \A c, d \in Conns :
      "BORROW" \in Issues[c] /\ "BORROW" \in Issues[d] => c = d

(***************************************************************************)
(* The leases in the table never overlap, not even an expired one that a   *)
(* late KEEPALIVE brings back: "grants non-overlapping leased regions"     *)
(* (protocol/ramlink_protocol.md:10), unless there was a race.             *)
(***************************************************************************)
TableDisjoint ==
    \A i, j \in leases : i # j => Disjoint(RegionOf(i), RegionOf(j))

(***************************************************************************)
(* A lease that left the table never comes back, whatever a KEEPALIVE that *)
(* looked it up earlier still does to the object                           *)
(* (ramlink_memory_provider.py:79-84, 102-104).                            *)
(***************************************************************************)
RemovedStaysRemoved ==
    [][\A i \in LeaseIds : i \notin leases => i \notin leases']_vars

(***************************************************************************)
(* Without a race the provider implements the abstract pool, the table     *)
(* itself being the set of regions in force.                               *)
(***************************************************************************)
Pool == INSTANCE RegionPool WITH
          pool    <- {[lease_id |-> i, offset |-> lease[i].offset,
                       length |-> lease[i].length] : i \in leases},
          granted <- next_lease_id - 1

ImplementsPool == Pool!Spec

(***************************************************************************)
(* While one borrower retries, every lease of the run is granted, however  *)
(* often it and the others are cut off, release, or let leases expire:     *)
(* only KEEPALIVEs that go on for ever can keep it waiting                 *)
(* (ramlink_memory_provider.py:49-77).                                     *)
(***************************************************************************)
BorrowersGetRoom ==
    <>(next_lease_id > MaxLeases) \/ []<>(\E c \in Conns : pc[c] = "extend")

=============================================================================
