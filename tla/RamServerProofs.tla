-------------------------- MODULE RamServerProofs --------------------------
(***************************************************************************)
(* Proofs about RamServer, for any number of connections, buffer and       *)
(* sector size, lease duration and mix of operations.                      *)
(*                                                                         *)
(* Every step of a handler but the scan and the insertion of BORROW is     *)
(* quiet: it moves one thread, and the table of leases only shrinks.  The  *)
(* lemma QuietSteps goes through the actions once; the invariants below    *)
(* are then preserved by four kinds of steps instead of twenty actions.    *)
(***************************************************************************)
EXTENDS RamServer, FiniteSetTheorems, SequenceTheorems, WellFoundedInduction, TLAPS

(***************************************************************************)
(* Whole sectors.                                                          *)
(***************************************************************************)
LEMMA AlignedSum ==
  ASSUME NEW m \in Nat, NEW n \in Nat, Aligned(m), Aligned(n)
  PROVE  Aligned(m + n)
<1>1. PICK j \in 0 .. m, k \in 0 .. n : m = j * SECTOR_SIZE /\ n = k * SECTOR_SIZE
  BY DEF Aligned
<1>2. m + n = (j + k) * SECTOR_SIZE /\ j + k \in 0 .. m + n
  BY <1>1, SizeAssumption
<1>3. QED
  BY <1>2 DEF Aligned

LEMMA RoundUpAligned ==
  ASSUME NEW requested \in Nat
  PROVE  RoundUp(requested) \in Nat /\ Aligned(RoundUp(requested))
<1>1. PICK k \in Nat : k = (requested + SECTOR_SIZE - 1) \div SECTOR_SIZE
  BY SizeAssumption
<1>2. RoundUp(requested) = k * SECTOR_SIZE
  BY <1>1 DEF RoundUp
<1>3. k * SECTOR_SIZE \in Nat /\ k <= k * SECTOR_SIZE
  BY SizeAssumption
<1>4. QED
  BY <1>2, <1>3 DEF Aligned

LEMMA ZeroAligned == Aligned(0)
  BY SizeAssumption DEF Aligned

-----------------------------------------------------------------------------
(***************************************************************************)
(* Quiet steps.                                                            *)
(***************************************************************************)
MemoryType == memory \in [0 .. SIZE - 1 -> Payloads \cup {0}]

LeaseType == lease \in [LeaseIds -> LeaseObject]

\* No lease is added, none moves, and only a KEEPALIVE in flight revives one.
TableShrinks ==
    /\ leases' \subseteq leases
    /\ next_lease_id' = next_lease_id
    /\ \A i \in LeaseIds :
         /\ lease'[i].offset = lease[i].offset /\ lease'[i].length = lease[i].length
         /\ Alive(i)' => Alive(i) \/ Extending(i)

\* What is known of a thread that has moved to `place` with local variables l.
Arrives(c, place, l) ==
    /\ place = "scan" => /\ "BORROW" \in Issues[c] /\ l.lease_id = 0
                         /\ l.length \in 1 .. SIZE /\ Aligned(l.length)
    /\ place = "extend" => /\ "KEEPALIVE" \in Issues[c]
                           /\ l.lease_id \in leases /\ Alive(l.lease_id)
    /\ place = "reply" /\ l.lease_id # 0 =>
         pc[c] = "zero" /\ l.lease_id = local[c].lease_id

QuietPlaces == Places \ {"insert", "zero"}

Moves(c) ==
    \E place \in QuietPlaces, l \in Locals : Goto(c, place, l) /\ Arrives(c, place, l)

LEMMA PlainMove ==
  ASSUME NEW c \in Conns, NEW place \in {"closed", "header", "reply"},
         Goto(c, place, NoLocals)
  PROVE  Moves(c)
  BY ServerAssumption DEF Moves, Arrives, QuietPlaces, Places, Locals, NoLocals

LEMMA TableSame ==
  ASSUME leases' \subseteq leases, UNCHANGED <<lease, next_lease_id>>
  PROVE  TableShrinks
  BY DEF TableShrinks, Alive

LEMMA FillType ==
  ASSUME MemoryType, NEW offset \in Nat, NEW length \in Nat,
         NEW value \in Payloads \cup {0}, Fill(offset, length, value)
  PROVE  MemoryType'
  BY DEF MemoryType, Fill

LEMMA LookupMoves ==
  ASSUME TypeOK, NEW c \in Conns, NEW i \in 1 .. MaxLeases,
         NEW op \in {"RELEASE", "KEEPALIVE"}, NEW place \in {"pop", "extend"},
         place = "extend" => op = "KEEPALIVE",
         op \in Issues[c], GetLease(c, i, place)
  PROVE  Moves(c) /\ leases' \subseteq leases
<1>1. CASE i \in leases /\ Alive(i)
  <2>1. Goto(c, place, [NoLocals EXCEPT !.lease_id = i]) /\ UNCHANGED leases
    BY <1>1 DEF GetLease
  <2>2. [NoLocals EXCEPT !.lease_id = i] \in Locals
    BY ServerAssumption DEF NoLocals, Locals
  <2>3. [NoLocals EXCEPT !.lease_id = i].lease_id = i
    BY DEF NoLocals
  <2>4. Arrives(c, place, [NoLocals EXCEPT !.lease_id = i])
    BY <1>1, <2>3 DEF Arrives
  <2>5. QED
    BY <2>1, <2>2, <2>4 DEF Moves, QuietPlaces, Places
<1>2. CASE ~(i \in leases /\ Alive(i))
  BY <1>2, PlainMove DEF GetLease, Fail
<1>3. QED
  BY <1>1, <1>2

LEMMA QuietSteps ==
  ASSUME TypeOK, NEW c \in Conns, Handler(c) \/ Peer(c), ~BorrowScan(c), ~BorrowInsert(c)
  PROVE  Moves(c) /\ TableShrinks /\ LeaseType' /\ MemoryType'
<1> USE ServerAssumption, SizeAssumption
<1>a. MemoryType /\ LeaseType
  BY DEF TypeOK, MemoryType, LeaseType
<1>b. UNCHANGED <<lease, next_lease_id>> => LeaseType'
  BY <1>a DEF LeaseType, LeaseIds
<1>1. CASE SendReply(c) \/ Accept(c) \/ Disconnect(c) \/ Stateless(c)
  <2>1. UNCHANGED <<memory, leases, lease, next_lease_id>>
    BY <1>1 DEF SendReply, Accept, Disconnect, Stateless
  <2>2. Moves(c)
    BY <1>1, PlainMove DEF SendReply, Accept, Disconnect, Stateless, Fail
  <2>3. QED
    BY <1>a, <1>b, <2>1, <2>2, TableSame DEF MemoryType
<1>2. CASE Info(c)
  BY <1>2, <1>a, <1>b, PlainMove, TableSame DEF Info, CleanupExpired, MemoryType
<1>3. CASE BorrowCleanup(c)
  <2>1. PICK requested \in Requests :
          LET length == RoundUp(requested)
          IN  IF length <= 0 \/ length > SIZE
              THEN Fail(c)
              ELSE Goto(c, "scan", [NoLocals EXCEPT !.length = length])
    BY <1>3 DEF BorrowCleanup
  <2>2. RoundUp(requested) \in Nat /\ Aligned(RoundUp(requested))
    BY RoundUpAligned
  <2>3. CASE Fail(c)
    BY <2>3, PlainMove, <1>3, <1>a, <1>b, TableSame
    DEF Fail, BorrowCleanup, CleanupExpired, MemoryType
  <2>4. CASE ~Fail(c)
    <3> DEFINE l == [NoLocals EXCEPT !.length = RoundUp(requested)]
    <3>1. Goto(c, "scan", l) /\ RoundUp(requested) \in 1 .. SIZE
      BY <2>1, <2>2, <2>4
    <3>2. l \in Locals /\ l.lease_id = 0 /\ l.length = RoundUp(requested)
      BY <2>2 DEF NoLocals, Locals
    <3>3. "BORROW" \in Issues[c]
      BY <1>3 DEF BorrowCleanup, Receives
    <3>4. Arrives(c, "scan", l)
      BY <2>2, <3>1, <3>2, <3>3 DEF Arrives
    <3>5. Moves(c)
      BY <3>1, <3>2, <3>4 DEF Moves, QuietPlaces, Places
    <3>6. QED
      BY <3>5, <1>3, <1>a, <1>b, TableSame DEF BorrowCleanup, CleanupExpired, MemoryType
  <2>5. QED
    BY <2>3, <2>4
<1>4. CASE BorrowZero(c)
  <2>1. local[c] \in Locals
    BY DEF TypeOK
  <2>2. Moves(c)
    BY <1>4, <2>1 DEF BorrowZero, Moves, Arrives, QuietPlaces, Places
  <2>3. MemoryType'
    BY <1>4, <1>a, <2>1, FillType DEF BorrowZero, Zero, Locals
  <2>4. QED
    BY <1>4, <1>b, <2>2, <2>3, TableSame DEF BorrowZero
<1>5. CASE ReleaseLookup(c)
  <2>1. PICK i \in 1 .. MaxLeases : GetLease(c, i, "pop")
    BY <1>5 DEF ReleaseLookup
  <2>2. "RELEASE" \in Issues[c] /\ UNCHANGED <<memory, lease, next_lease_id>>
    BY <1>5 DEF ReleaseLookup, Receives
  <2>3. QED
    BY <2>1, <2>2, <1>a, <1>b, LookupMoves, TableSame DEF MemoryType
<1>6. CASE ReleasePop(c)
  BY <1>6, <1>a, <1>b, PlainMove, TableSame DEF ReleasePop, MemoryType
<1>7. CASE KeepaliveLookup(c)
  <2>1. PICK i \in 1 .. MaxLeases : GetLease(c, i, "extend")
    BY <1>7 DEF KeepaliveLookup
  <2>2. "KEEPALIVE" \in Issues[c] /\ UNCHANGED <<memory, lease, next_lease_id>>
    BY <1>7 DEF KeepaliveLookup, Receives
  <2>3. QED
    BY <2>1, <2>2, <1>a, <1>b, LookupMoves, TableSame DEF MemoryType
<1>8. CASE KeepaliveExtend(c)
  <2>1. lease' = [lease EXCEPT ![local[c].lease_id].expires_in = LEASE_SECONDS]
    BY <1>8 DEF KeepaliveExtend
  <2>2. \A i \in LeaseIds : lease[i] \in LeaseObject
    BY <1>a DEF LeaseType
  <2>3. \A i \in LeaseIds :
          /\ lease'[i] \in LeaseObject
          /\ lease'[i].offset = lease[i].offset /\ lease'[i].length = lease[i].length
          /\ i # local[c].lease_id => lease'[i] = lease[i]
    BY <1>a, <2>1, <2>2 DEF LeaseType, LeaseObject
  <2>4. DOMAIN lease' = LeaseIds /\ lease' = [i \in LeaseIds |-> lease'[i]]
    BY <1>a, <2>1 DEF LeaseType
  <2>5. lease' \in [LeaseIds -> LeaseObject] /\ LeaseIds' = LeaseIds
    BY <1>8, <2>3, <2>4 DEF KeepaliveExtend, LeaseIds
  <2>6. pc[c] = "extend" /\ UNCHANGED <<memory, leases, next_lease_id>>
    BY <1>8 DEF KeepaliveExtend
  <2>7. TableShrinks
    BY <2>3, <2>6 DEF TableShrinks, Alive, Extending
  <2>8. Moves(c)
    BY <1>8, PlainMove DEF KeepaliveExtend
  <2>9. QED
    BY <1>a, <2>5, <2>6, <2>7, <2>8 DEF LeaseType, MemoryType
<1>9. CASE Read(c)
  <2>1. UNCHANGED <<memory, leases, lease, next_lease_id>>
    BY <1>9 DEF Read
  <2>2. Goto(c, "reply", NoLocals) \/ Goto(c, "closed", NoLocals)
    BY <1>9 DEF Read, Fail
  <2>3. QED
    BY <1>a, <1>b, <2>1, <2>2, PlainMove, TableSame DEF MemoryType
<1>10. CASE WriteHeader(c)
  <2>1. UNCHANGED <<memory, leases, lease, next_lease_id>>
    BY <1>10 DEF WriteHeader
  <2>2. CASE Fail(c)
    BY <1>a, <1>b, <2>1, <2>2, PlainMove, TableSame DEF MemoryType, Fail
  <2>3. CASE ~Fail(c)
    <3>1. PICK unit \in {1, SECTOR_SIZE}, offset \in 0 .. SIZE + 1, length \in Requests,
               v \in Payloads :
            Goto(c, "payload", [lease_id |-> 0, offset |-> offset * unit,
                                length |-> length * unit, data |-> v])
      BY <1>10, <2>3 DEF WriteHeader
    <3>2. unit \in Nat /\ offset \in Nat /\ length \in Nat
      OBVIOUS
    <3>3. offset * unit \in Nat /\ length * unit \in Nat
      BY <3>2
    <3>4. [lease_id |-> 0, offset |-> offset * unit, length |-> length * unit,
           data |-> v] \in Locals
      BY <3>3 DEF Locals
    <3>5. Moves(c)
      BY <3>1, <3>4 DEF Moves, Arrives, QuietPlaces, Places
    <3>6. QED
      BY <1>a, <1>b, <2>1, <3>5, TableSame DEF MemoryType
  <2>4. QED
    BY <2>2, <2>3
<1>11. CASE WritePayload(c)
  <2>1. local[c] \in Locals
    BY DEF TypeOK
  <2>2. MemoryType'
    BY <1>11, <1>a, <2>1, FillType DEF WritePayload, Locals
  <2>3. QED
    BY <1>11, <1>b, <2>2, PlainMove, TableSame DEF WritePayload
<1>12. QED
  BY <1>1, <1>2, <1>3, <1>4, <1>5, <1>6, <1>7, <1>8, <1>9, <1>10, <1>11 DEF Handler, Peer

(***************************************************************************)
(* The three other kinds of steps.                                         *)
(***************************************************************************)
LEMMA StepKinds ==
  ASSUME [Next]_vars
  PROVE  \/ Tick \/ UNCHANGED vars
         \/ \E c \in Conns : /\ Handler(c) \/ Peer(c)
                             /\ ~BorrowScan(c) /\ ~BorrowInsert(c)
         \/ \E c \in Conns : BorrowScan(c)
         \/ \E c \in Conns : BorrowInsert(c)
  BY DEF Next

LEMMA IdleSteps ==
  ASSUME TypeOK, Tick \/ UNCHANGED vars
  PROVE  /\ UNCHANGED <<memory, leases, next_lease_id, pc, local>>
         /\ TableShrinks /\ LeaseType'
<1>1. CASE Tick
  <2>1. \A i \in LeaseIds : lease[i] \in LeaseObject
    BY DEF TypeOK
  <2>2. lease' = [i \in LeaseIds |-> [lease[i] EXCEPT !.expires_in = Sooner(@)]]
    BY <1>1 DEF Tick, TypeOK
  <2>3. \A i \in LeaseIds :
          /\ lease'[i] \in LeaseObject
          /\ lease'[i].offset = lease[i].offset /\ lease'[i].length = lease[i].length
          /\ lease'[i].expires_in <= lease[i].expires_in
    BY <2>1, <2>2, ServerAssumption DEF LeaseObject, Sooner
  <2>4. TableShrinks
    <3>1. \A i \in LeaseIds : Alive(i)' => Alive(i)
      <4> SUFFICES ASSUME NEW i \in LeaseIds, lease'[i].expires_in > 0
                   PROVE  lease[i].expires_in > 0
        BY DEF Alive
      <4>1. lease[i].expires_in \in Int /\ lease'[i].expires_in \in Int
        BY <2>1, <2>3, ServerAssumption DEF LeaseObject
      <4>2. QED
        BY <2>3, <4>1
    <3>2. QED
      BY <1>1, <2>3, <3>1 DEF TableShrinks, Tick
  <2>5. LeaseType'
    BY <1>1, <2>2, <2>3 DEF LeaseType, LeaseIds, Tick
  <2>6. QED
    BY <1>1, <2>4, <2>5 DEF Tick
<1>2. CASE UNCHANGED vars
  BY <1>2, TableSame DEF vars, LeaseType, LeaseIds, TypeOK
<1>3. QED
  BY <1>1, <1>2

\* The scan finds no room, or a place that the thread takes to its insertion.
Scanned(c, p) ==
    /\ FirstFit(p, local[c].length, LiveRegions)
    /\ Goto(c, "insert", [local[c] EXCEPT !.offset = p])

LEMMA ScanSteps ==
  ASSUME TypeOK, NEW c \in Conns, BorrowScan(c)
  PROVE  /\ UNCHANGED <<memory, leases, lease, next_lease_id>>
         /\ pc[c] = "scan"
         /\ Moves(c) \/ \E p \in Cursors(LiveRegions) : Scanned(c, p)
  BY PlainMove DEF BorrowScan, Fail, Scanned

LEMMA LiveCursorsNat ==
  ASSUME TypeOK
  PROVE  Cursors(LiveRegions) \subseteq Nat
<1>1. \A i \in leases : lease[i] \in LeaseObject
  BY DEF TypeOK
<1>2. \A i \in leases : End(RegionOf(i)) \in Nat
  BY <1>1 DEF End, RegionOf, LeaseObject
<1>3. QED
  BY <1>2 DEF Cursors, LiveRegions, LiveLeases

\* The part of the state that the insertion adds lease n to.
Candidate(c) == [offset |-> local[c].offset, length |-> local[c].length]

LEMMA InsertSteps ==
  ASSUME TypeOK, NEW c \in Conns, BorrowInsert(c)
  PROVE  \E n \in Nat \ {0} :
           /\ n = next_lease_id /\ next_lease_id' = n + 1
           /\ n \notin LeaseIds /\ LeaseIds' = LeaseIds \cup {n}
           /\ leases' = leases \cup {n}
           /\ \A i \in LeaseIds : lease'[i] = lease[i]
           /\ lease'[n] = [offset |-> local[c].offset, length |-> local[c].length,
                           expires_in |-> LEASE_SECONDS]
           /\ DOMAIN lease' = LeaseIds' /\ lease' = [i \in LeaseIds' |-> lease'[i]]
           /\ pc[c] = "insert"
           /\ Goto(c, "zero", [local[c] EXCEPT !.lease_id = n])
           /\ UNCHANGED memory
<1>1. PICK n \in Nat \ {0} : n = next_lease_id
  BY DEF TypeOK
<1>2. next_lease_id' = n + 1
  BY <1>1 DEF BorrowInsert, NextLeaseId
<1>3. /\ LeaseIds = 1 .. n - 1 /\ LeaseIds' = 1 .. n
      /\ n \notin LeaseIds /\ LeaseIds' = LeaseIds \cup {n}
  BY <1>1, <1>2 DEF LeaseIds
<1>4. lease' = [i \in 1 .. n |->
                  IF i = n
                  THEN [offset |-> local[c].offset, length |-> local[c].length,
                        expires_in |-> LEASE_SECONDS]
                  ELSE lease[i]]
  BY <1>1 DEF BorrowInsert
<1>5. QED
  BY <1>1, <1>2, <1>3, <1>4 DEF BorrowInsert

-----------------------------------------------------------------------------
(***************************************************************************)
(* Type correctness.                                                       *)
(***************************************************************************)
LEMMA GotoType ==
  ASSUME TypeOK, NEW c \in Conns, NEW place \in Places, NEW l \in Locals,
         Goto(c, place, l)
  PROVE  /\ pc' \in [Conns -> Places]
         /\ local' \in [Conns -> Locals]
         /\ \A d \in Conns : /\ d = c => pc'[d] = place /\ local'[d] = l
                             /\ d # c => pc'[d] = pc[d] /\ local'[d] = local[d]
  BY DEF TypeOK, Goto

LEMMA TypeInit == Init => TypeOK
  BY SizeAssumption, ServerAssumption
  DEF Init, TypeOK, LeaseIds, LeaseObject, Places, Locals, NoLocals

LEMMA TypeStep ==
  ASSUME TypeOK, [Next]_vars
  PROVE  TypeOK'
<1> USE ServerAssumption
<1>a. TableShrinks => next_lease_id' \in Nat \ {0} /\ leases' \subseteq LeaseIds'
  BY DEF TableShrinks, TypeOK, LeaseIds
<1>1. CASE Tick \/ UNCHANGED vars
  BY <1>1, <1>a, IdleSteps DEF TypeOK, LeaseType
<1>2. ASSUME NEW c \in Conns, Handler(c) \/ Peer(c), ~BorrowScan(c), ~BorrowInsert(c)
      PROVE  TypeOK'
  <2>1. Moves(c) /\ TableShrinks /\ LeaseType' /\ MemoryType'
    BY <1>2, QuietSteps
  <2>2. pc' \in [Conns -> Places] /\ local' \in [Conns -> Locals]
    BY <2>1, GotoType DEF Moves, QuietPlaces
  <2>3. QED
    BY <1>a, <2>1, <2>2 DEF TypeOK, LeaseType, MemoryType
<1>3. ASSUME NEW c \in Conns, BorrowScan(c)
      PROVE  TypeOK'
  <2>1. UNCHANGED <<memory, leases, lease, next_lease_id>>
    BY <1>3, ScanSteps
  <2>2. pc' \in [Conns -> Places] /\ local' \in [Conns -> Locals]
    <3>1. CASE Moves(c)
      BY <3>1, GotoType DEF Moves, QuietPlaces
    <3>2. ASSUME NEW p \in Cursors(LiveRegions), Scanned(c, p)
          PROVE  pc' \in [Conns -> Places] /\ local' \in [Conns -> Locals]
      <4>1. [local[c] EXCEPT !.offset = p] \in Locals /\ "insert" \in Places
        BY LiveCursorsNat DEF TypeOK, Locals, Places
      <4>2. QED
        BY <3>2, <4>1, GotoType DEF Scanned
    <3>3. QED
      BY <1>3, <3>1, <3>2, ScanSteps
  <2>3. QED
    BY <2>1, <2>2 DEF TypeOK, LeaseIds
<1>4. ASSUME NEW c \in Conns, BorrowInsert(c)
      PROVE  TypeOK'
  <2>1. PICK n \in Nat \ {0} :
           /\ n = next_lease_id /\ next_lease_id' = n + 1
           /\ LeaseIds' = LeaseIds \cup {n}
           /\ leases' = leases \cup {n}
           /\ \A i \in LeaseIds : lease'[i] = lease[i]
           /\ lease'[n] = [offset |-> local[c].offset, length |-> local[c].length,
                           expires_in |-> LEASE_SECONDS]
           /\ lease' = [i \in LeaseIds' |-> lease'[i]]
           /\ Goto(c, "zero", [local[c] EXCEPT !.lease_id = n])
           /\ UNCHANGED memory
    BY <1>4, InsertSteps
  <2>2. local[c] \in Locals
    BY DEF TypeOK
  <2>3. [local[c] EXCEPT !.lease_id = n] \in Locals /\ "zero" \in Places
    BY <2>2 DEF Locals, Places
  <2>4. \A i \in LeaseIds' : lease'[i] \in LeaseObject
    BY <2>1, <2>2 DEF TypeOK, LeaseObject, Locals
  <2>5. lease' \in [LeaseIds' -> LeaseObject]
    BY <2>1, <2>4
  <2>6. next_lease_id' \in Nat \ {0} /\ leases' \subseteq LeaseIds'
    BY <2>1 DEF TypeOK
  <2>7. QED
    BY <2>1, <2>3, <2>5, <2>6, GotoType DEF TypeOK, LeaseObject, Locals
<1>5. QED
  BY <1>1, <1>2, <1>3, <1>4, StepKinds

(***************************************************************************)
(* Type correctness of the Android server.                                 *)
(***************************************************************************)
THEOREM ServerTypeCorrect == Spec => []TypeOK
<1>1. Init => TypeOK
  BY TypeInit
<1>2. TypeOK /\ [Next]_vars => TypeOK'
  BY TypeStep
<1>3. QED
  BY <1>1, <1>2, PTL DEF Spec

-----------------------------------------------------------------------------
(***************************************************************************)
(* What holds whoever borrows.  A handler between its scan and its         *)
(* insertion carries a well-formed candidate, stale or not, and the ids    *)
(* that handlers still hold are ids of leases that exist.                  *)
(***************************************************************************)
CandidatesWellFormed ==
    \A c \in Conns :
      /\ pc[c] \in {"scan", "insert"} =>
           /\ local[c].lease_id = 0
           /\ local[c].length \in 1 .. SIZE /\ Aligned(local[c].length)
      /\ pc[c] = "insert" =>
           Aligned(local[c].offset) /\ End(Candidate(c)) <= SIZE

GrantsKnown ==
    \A c \in Conns :
      Granted(c) \/ pc[c] \in {"zero", "extend"} => local[c].lease_id \in LeaseIds

GrantInv ==
    /\ LeasesWellFormed
    /\ CandidatesWellFormed
    /\ GrantsKnown
    /\ GrantsDistinct

LEMMA GrantInit == Init => GrantInv
  BY DEF Init, GrantInv, LeasesWellFormed, CandidatesWellFormed, GrantsKnown,
         GrantsDistinct, Granted, LeaseIds

LEMMA ShrinkKeepsLeases ==
  ASSUME TypeOK, LeasesWellFormed, TableShrinks
  PROVE  /\ LeasesWellFormed'
         /\ LeaseIds' = LeaseIds
         /\ \A i \in LeaseIds : RegionOf(i)' = RegionOf(i)
<1>1. LeaseIds' = LeaseIds
  BY DEF TableShrinks, LeaseIds
<1>2. \A i \in LeaseIds : RegionOf(i)' = RegionOf(i)
  BY DEF TableShrinks, RegionOf
<1>3. \A i \in LeaseIds :
        /\ lease'[i].length > 0
        /\ End(RegionOf(i)') <= SIZE
        /\ Aligned(lease'[i].offset) /\ Aligned(lease'[i].length)
  BY <1>2 DEF TableShrinks, LeasesWellFormed
<1>4. QED
  BY <1>1, <1>2, <1>3 DEF LeasesWellFormed, End

LEMMA GrantIdle ==
  ASSUME TypeOK, GrantInv, Tick \/ UNCHANGED vars
  PROVE  GrantInv'
<1>1. UNCHANGED <<pc, local>> /\ TableShrinks
  BY IdleSteps
<1>2. LeasesWellFormed' /\ LeaseIds' = LeaseIds
  BY <1>1, ShrinkKeepsLeases DEF GrantInv
<1>3. CandidatesWellFormed'
  BY <1>1 DEF GrantInv, CandidatesWellFormed, Candidate, End
<1>4. GrantsKnown' /\ GrantsDistinct'
  BY <1>1, <1>2 DEF GrantInv, GrantsKnown, GrantsDistinct, Granted
<1>5. QED
  BY <1>2, <1>3, <1>4 DEF GrantInv

LEMMA GrantQuiet ==
  ASSUME TypeOK, GrantInv, NEW c \in Conns, Moves(c), TableShrinks
  PROVE  GrantInv'
<1>1. LeasesWellFormed' /\ LeaseIds' = LeaseIds
  BY ShrinkKeepsLeases DEF GrantInv
<1>2. PICK place \in QuietPlaces, l \in Locals : Goto(c, place, l) /\ Arrives(c, place, l)
  BY DEF Moves
<1>3. \A d \in Conns : /\ d = c => pc'[d] = place /\ local'[d] = l
                       /\ d # c => pc'[d] = pc[d] /\ local'[d] = local[d]
  BY <1>2, GotoType DEF QuietPlaces
<1>4. place \notin {"insert", "zero"}
  BY DEF QuietPlaces
<1>5. CandidatesWellFormed'
  BY <1>2, <1>3, <1>4 DEF GrantInv, CandidatesWellFormed, Arrives, Candidate, End
<1>6. \A d \in Conns : Granted(d)' => Granted(d) /\ local'[d].lease_id = local[d].lease_id
  BY <1>2, <1>3, <1>4 DEF Granted, Arrives
<1>7. GrantsDistinct'
  BY <1>6 DEF GrantInv, GrantsDistinct
<1>8. GrantsKnown'
  <2> SUFFICES ASSUME NEW d \in Conns, Granted(d)' \/ pc'[d] \in {"zero", "extend"}
               PROVE  local'[d].lease_id \in LeaseIds
    BY <1>1 DEF GrantsKnown
  <2>1. CASE Granted(d)'
    BY <1>6, <2>1 DEF GrantInv, GrantsKnown
  <2>2. CASE d # c
    BY <1>3, <1>6, <2>2 DEF GrantInv, GrantsKnown
  <2>3. CASE d = c /\ place = "extend"
    BY <1>2, <1>3, <2>3 DEF Arrives, TypeOK
  <2>4. QED
    BY <1>3, <1>4, <2>1, <2>2, <2>3
<1>9. QED
  BY <1>1, <1>5, <1>7, <1>8 DEF GrantInv

\* Every cursor of the scan is a whole number of sectors from the start.
LEMMA CursorsAligned ==
  ASSUME TypeOK, LeasesWellFormed, NEW p \in Cursors(LiveRegions)
  PROVE  Aligned(p)
<1>1. CASE p = 0
  BY <1>1, ZeroAligned
<1>2. ASSUME NEW i \in leases, p = End(RegionOf(i))
      PROVE  Aligned(p)
  <2>1. i \in LeaseIds /\ lease[i] \in LeaseObject
    BY DEF TypeOK
  <2>2. Aligned(lease[i].offset) /\ Aligned(lease[i].length)
    BY <2>1 DEF LeasesWellFormed
  <2>3. p = lease[i].offset + lease[i].length
    BY <1>2 DEF End, RegionOf
  <2>4. QED
    BY <2>1, <2>2, <2>3, AlignedSum DEF LeaseObject
<1>3. QED
  BY <1>1, <1>2 DEF Cursors, LiveRegions, LiveLeases

LEMMA GrantScan ==
  ASSUME TypeOK, GrantInv, NEW c \in Conns, BorrowScan(c)
  PROVE  GrantInv'
<1>1. UNCHANGED <<memory, leases, lease, next_lease_id>> /\ pc[c] = "scan"
  BY ScanSteps
<1>2. TableShrinks
  BY <1>1, TableSame
<1>3. CASE Moves(c)
  BY <1>2, <1>3, GrantQuiet
<1>4. ASSUME NEW p \in Cursors(LiveRegions), Scanned(c, p)
      PROVE  GrantInv'
  <2>1. LeasesWellFormed' /\ LeaseIds' = LeaseIds
    BY <1>2, ShrinkKeepsLeases DEF GrantInv
  <2>2. local[c] \in Locals /\ p \in Nat /\ Aligned(p)
    BY LiveCursorsNat, CursorsAligned DEF TypeOK, GrantInv
  <2>3. [local[c] EXCEPT !.offset = p] \in Locals /\ "insert" \in Places
    BY <2>2 DEF Locals, Places
  <2>4. \A d \in Conns :
          /\ d = c => pc'[d] = "insert" /\ local'[d] = [local[c] EXCEPT !.offset = p]
          /\ d # c => pc'[d] = pc[d] /\ local'[d] = local[d]
    BY <1>4, <2>3, GotoType DEF Scanned
  <2>5. /\ local'[c].offset = p /\ local'[c].length = local[c].length
        /\ local'[c].lease_id = local[c].lease_id
    BY <2>2, <2>4 DEF Locals
  <2>6. p + local[c].length <= SIZE
    BY <1>4 DEF Scanned, FirstFit, FreeAt
  <2>7. CandidatesWellFormed'
    BY <1>1, <2>2, <2>4, <2>5, <2>6 DEF GrantInv, CandidatesWellFormed, Candidate, End
  <2>8. \A d \in Conns : Granted(d)' => Granted(d) /\ local'[d].lease_id = local[d].lease_id
    BY <2>4 DEF Granted
  <2>9. GrantsKnown' /\ GrantsDistinct'
    BY <2>1, <2>4, <2>8 DEF GrantInv, GrantsKnown, GrantsDistinct
  <2>10. QED
    BY <2>1, <2>7, <2>9 DEF GrantInv
<1>5. QED
  BY <1>3, <1>4, ScanSteps

LEMMA GrantInsert ==
  ASSUME TypeOK, GrantInv, NEW c \in Conns, BorrowInsert(c)
  PROVE  GrantInv'
<1>1. PICK n \in Nat \ {0} :
         /\ n \notin LeaseIds /\ LeaseIds' = LeaseIds \cup {n}
         /\ \A i \in LeaseIds : lease'[i] = lease[i]
         /\ lease'[n] = [offset |-> local[c].offset, length |-> local[c].length,
                         expires_in |-> LEASE_SECONDS]
         /\ pc[c] = "insert"
         /\ Goto(c, "zero", [local[c] EXCEPT !.lease_id = n])
  BY InsertSteps
<1>2. local[c] \in Locals
  BY DEF TypeOK
<1>3. [local[c] EXCEPT !.lease_id = n] \in Locals /\ "zero" \in Places
  BY <1>2 DEF Locals, Places
<1>4. \A d \in Conns :
        /\ d = c => pc'[d] = "zero" /\ local'[d].lease_id = n
        /\ d # c => pc'[d] = pc[d] /\ local'[d] = local[d]
  BY <1>1, <1>2, <1>3, GotoType DEF Locals
<1>5. LeasesWellFormed'
  <2>1. \A i \in LeaseIds : RegionOf(i)' = RegionOf(i)
    BY <1>1 DEF RegionOf
  <2>2. RegionOf(n)' = Candidate(c)
    BY <1>1 DEF RegionOf, Candidate
  <2>3. /\ lease'[n].length > 0 /\ End(RegionOf(n)') <= SIZE
        /\ Aligned(lease'[n].offset) /\ Aligned(lease'[n].length)
    BY <1>1, <1>2, <2>2 DEF GrantInv, CandidatesWellFormed
  <2>4. \A i \in LeaseIds :
          /\ lease'[i].length > 0 /\ End(RegionOf(i)') <= SIZE
          /\ Aligned(lease'[i].offset) /\ Aligned(lease'[i].length)
    BY <1>1, <2>1 DEF GrantInv, LeasesWellFormed
  <2>5. QED
    BY <1>1, <2>3, <2>4 DEF LeasesWellFormed, End
<1>6. CandidatesWellFormed'
  BY <1>4 DEF GrantInv, CandidatesWellFormed, Candidate, End
<1>7. \A d \in Conns :
        Granted(d)' => \/ d = c /\ local'[d].lease_id = n
                       \/ d # c /\ Granted(d) /\ local'[d].lease_id = local[d].lease_id
  BY <1>4 DEF Granted
<1>8. GrantsDistinct'
  BY <1>1, <1>7 DEF GrantInv, GrantsDistinct, GrantsKnown
<1>9. GrantsKnown'
  BY <1>1, <1>4, <1>7 DEF GrantInv, GrantsKnown
<1>10. QED
  BY <1>5, <1>6, <1>8, <1>9 DEF GrantInv

LEMMA GrantStep ==
  ASSUME TypeOK, GrantInv, [Next]_vars
  PROVE  GrantInv'
  BY StepKinds, QuietSteps, GrantIdle, GrantQuiet, GrantScan, GrantInsert

LEMMA GrantInvariant == Spec => [](TypeOK /\ GrantInv)
<1>1. Init => TypeOK /\ GrantInv
  BY TypeInit, GrantInit
<1>2. TypeOK /\ GrantInv /\ [Next]_vars => TypeOK' /\ GrantInv'
  BY TypeStep, GrantStep
<1>3. QED
  BY <1>1, <1>2, PTL DEF Spec

(***************************************************************************)
(* Every lease ever granted is a nonempty run of whole sectors inside the  *)
(* buffer, with any number of BORROW handlers interleaved.                 *)
(***************************************************************************)
THEOREM ServerGrantsWellFormed == Spec => []LeasesWellFormed
<1>1. GrantInv => LeasesWellFormed
  BY DEF GrantInv
<1>2. QED
  BY <1>1, GrantInvariant, PTL

(***************************************************************************)
(* No two handlers that have inserted a lease and not yet replied hold the *)
(* same id, with any number of BORROW handlers interleaved.                *)
(***************************************************************************)
THEOREM ServerGrantsDistinct == Spec => []GrantsDistinct
<1>1. GrantInv => GrantsDistinct
  BY DEF GrantInv
<1>2. QED
  BY <1>1, GrantInvariant, PTL

-----------------------------------------------------------------------------
(***************************************************************************)
(* First fit, over any set of regions, overlapping ones included.          *)
(***************************************************************************)
LEMMA LeastElement ==
  ASSUME NEW T, T \subseteq Nat, T # {}
  PROVE  \E x \in T : \A y \in T : x <= y
<1>1. IsWellFoundedOn(OpToRel(<, Nat), Nat)
  BY NatLessThanWellFounded
<1>2. PICK x \in T : \A y \in T : ~(<<y, x>> \in OpToRel(<, Nat))
  BY <1>1, WFMin
<1>3. \A y \in T : ~(y < x)
  BY <1>2 DEF OpToRel
<1> QED
  BY <1>3

\* Induction over a set of naturals.
LEMMA SetInduction ==
  ASSUME NEW T, 0 \in T, \A n \in Nat : n \in T => n + 1 \in T
  PROVE  Nat \subseteq T
<1> SUFFICES ASSUME NEW m \in Nat, m \notin T PROVE FALSE
  OBVIOUS
<1> DEFINE Missing == {n \in Nat : n \notin T}
<1>1. Missing \subseteq Nat /\ Missing # {}
  OBVIOUS
<1>2. PICK x \in Missing : \A y \in Missing : x <= y
  BY <1>1, LeastElement
<1>3. x # 0 /\ x \in Nat
  OBVIOUS
<1>4. x - 1 \in Nat /\ x - 1 \notin Missing /\ (x - 1) + 1 = x
  BY <1>2, <1>3
<1> QED
  BY <1>3, <1>4

LEMMA CursorsNat == ASSUME NEW S \in SUBSET Region PROVE Cursors(S) \subseteq Nat
  BY DEF Cursors, End, Region

\* A free position can be moved down until it meets the start of the buffer or
\* the end of a region.
LEMMA CursorBelow ==
  ASSUME NEW S \in SUBSET Region, NEW length \in Nat, NEW q \in Nat, FreeAt(q, length, S)
  PROVE  \E c \in Cursors(S) : FreeAt(c, length, S) /\ c <= q
<1> DEFINE T == {x \in Nat : FreeAt(x, length, S)}
<1>1. PICK m \in T : \A y \in T : m <= y
  <2>1. q \in T /\ T \subseteq Nat
    OBVIOUS
  <2> QED
    BY <2>1, LeastElement
<1>2. m \in Nat /\ FreeAt(m, length, S) /\ m <= q
  BY <1>1
<1>3. m \in Cursors(S)
  <2> SUFFICES ASSUME m # 0 PROVE m \in Cursors(S)
    BY DEF Cursors
  <2>1. m - 1 \in Nat /\ ~FreeAt(m - 1, length, S)
    BY <1>1, <1>2
  <2>2. SIZE \in Nat
    BY SizeAssumption
  <2>3. PICK r \in S : ~(End(r) <= m - 1 \/ m - 1 + length <= r.offset)
    BY <1>2, <2>1, <2>2 DEF FreeAt
  <2>4. End(r) \in Nat /\ r.offset \in Nat
    BY DEF Region, End
  <2>5. End(r) <= m \/ m + length <= r.offset
    BY <1>2 DEF FreeAt
  <2>6. End(r) = m
    BY <1>2, <2>3, <2>4, <2>5
  <2> QED
    BY <2>6 DEF Cursors
<1> QED
  BY <1>2, <1>3

(***************************************************************************)
(* The position that the scan of find_free_region returns is the lowest    *)
(* free one of the whole buffer, although it looks only at the ends of     *)
(* leases (server.py:100-116, ramlink_memory_provider.py:54-62).           *)
(***************************************************************************)
THEOREM FirstFitIsLowest ==
  ASSUME NEW S \in SUBSET Region, NEW length \in Nat, NEW p, FirstFit(p, length, S)
  PROVE  FreeAt(p, length, S) /\ \A q \in Nat : FreeAt(q, length, S) => p <= q
<1>1. p \in Nat /\ FreeAt(p, length, S)
  BY CursorsNat DEF FirstFit
<1>2. ASSUME NEW q \in Nat, FreeAt(q, length, S)
      PROVE  p <= q
  <2>1. PICK c \in Cursors(S) : FreeAt(c, length, S) /\ c <= q
    BY <1>2, CursorBelow
  <2>2. p <= c /\ c \in Nat
    BY <2>1, CursorsNat DEF FirstFit
  <2> QED
    BY <1>1, <2>1, <2>2
<1> QED
  BY <1>1, <1>2

(***************************************************************************)
(* A scan that returns None has not missed a gap: no position of the       *)
(* buffer is free, so that no BORROW is refused that could be granted      *)
(* (server.py:100-116, 138-140).                                           *)
(***************************************************************************)
THEOREM NoFitIsFull ==
  ASSUME NEW S \in SUBSET Region, NEW length \in Nat, NoFit(length, S)
  PROVE  \A q \in Nat : ~FreeAt(q, length, S)
  BY CursorBelow DEF NoFit

-----------------------------------------------------------------------------
(***************************************************************************)
(* The loop of find_free_region: what it knows after each of its turns, by *)
(* induction on their number.                                              *)
(***************************************************************************)
\* f holds cursor and result of the loop after 0 to m turns.
IsScan(f, length, regions, m) ==
  f = [n \in 0 .. m |-> IF n = 0 THEN [cursor |-> 0, found |-> None]
                        ELSE Visit(length, f[n - 1], regions[n])]

\* The loop has a value after every number of turns.
LEMMA ScansExist ==
  ASSUME NEW length, NEW regions, NEW m \in Nat
  PROVE  \E f : IsScan(f, length, regions, m)
<1> DEFINE T == {k \in Nat : \E f : IsScan(f, length, regions, k)}
<1>1. 0 \in T
  <2> DEFINE f == [n \in 0 .. 0 |-> [cursor |-> 0, found |-> None]]
  <2>1. IsScan(f, length, regions, 0)
    <3>1. \A n \in 0 .. 0 : n = 0
      OBVIOUS
    <3> QED
      BY <3>1 DEF IsScan
  <2> QED
    BY <2>1
<1>2. ASSUME NEW k \in Nat, k \in T PROVE k + 1 \in T
  <2>1. PICK f : IsScan(f, length, regions, k)
    BY <1>2
  <2> DEFINE g == [n \in 0 .. k + 1 |-> IF n = k + 1 THEN Visit(length, f[k], regions[k + 1]) ELSE f[n]]
  <2>2. ASSUME NEW n \in 0 .. k + 1
        PROVE  g[n] = IF n = 0 THEN [cursor |-> 0, found |-> None]
                      ELSE Visit(length, g[n - 1], regions[n])
    <3>1. CASE n = k + 1
      <4>1. n # 0 /\ n - 1 = k /\ k \in 0 .. k + 1 /\ k # k + 1
        BY <3>1
      <4> QED
        BY <3>1, <4>1
    <3>2. CASE n # k + 1 /\ n # 0
      <4>1. n \in 0 .. k /\ n - 1 \in 0 .. k + 1 /\ n - 1 # k + 1
        BY <3>2
      <4>2. f[n] = Visit(length, f[n - 1], regions[n])
        BY <2>1, <3>2, <4>1 DEF IsScan
      <4> QED
        BY <3>2, <4>1, <4>2
    <3>3. CASE n = 0
      <4>1. f[0] = [cursor |-> 0, found |-> None]
        BY <2>1 DEF IsScan
      <4>2. n # k + 1
        BY <3>3
      <4> QED
        BY <3>3, <4>1, <4>2
    <3> QED
      BY <3>1, <3>2, <3>3
  <2>3. IsScan(g, length, regions, k + 1)
    <3> HIDE DEF g
    <3>1. g = [n \in 0 .. k + 1 |-> g[n]]
      BY DEF g
    <3> QED
      BY <2>2, <3>1 DEF IsScan
  <2> QED
    BY <2>3
<1> HIDE DEF T
<1>3. Nat \subseteq T
  BY <1>1, <1>2, SetInduction
<1> QED
  BY <1>3 DEF T

\* Turns satisfies the equation that defines it.
LEMMA TurnsDef ==
  ASSUME NEW length, NEW regions, Len(regions) \in Nat
  PROVE  IsScan(Turns(length, regions), length, regions, Len(regions))
<1>1. PICK f : IsScan(f, length, regions, Len(regions))
  BY ScansExist
<1> QED
  BY <1>1 DEF Turns, IsScan

RegionsOf(regions) == {regions[j] : j \in 1 .. Len(regions)}

\* Regions of the buffer, by ascending offset.
Listing(regions) ==
    /\ Len(regions) \in Nat
    /\ \A j \in 1 .. Len(regions) : regions[j] \in Region /\ End(regions[j]) <= SIZE
    /\ \A j, k \in 1 .. Len(regions) : j < k => regions[j].offset <= regions[k].offset

\* No gap yet: the cursor is past all n regions, and nothing below it is free.
Searching(length, regions, acc, n) ==
    /\ acc.found = None
    /\ acc.cursor \in Cursors(RegionsOf(regions))
    /\ \A j \in 1 .. n : End(regions[j]) <= acc.cursor
    /\ \A q \in Nat : q < acc.cursor => ~FreeAt(q, length, RegionsOf(regions))

Found(length, regions, acc) ==
    acc.found \in Nat /\ FirstFit(acc.found, length, RegionsOf(regions))

LoopInv(length, regions, acc, n) ==
    /\ acc \in [cursor : Nat, found : Nat \cup {None}]
    /\ Searching(length, regions, acc, n) \/ Found(length, regions, acc)

LEMMA RegionNats ==
  ASSUME NEW regions, Listing(regions), NEW j \in 1 .. Len(regions)
  PROVE  /\ regions[j].offset \in Nat /\ regions[j].length \in Nat
         /\ End(regions[j]) \in Nat /\ regions[j].offset <= End(regions[j])
         /\ End(regions[j]) <= SIZE /\ regions[j] \in RegionsOf(regions)
  BY DEF Listing, Region, End, RegionsOf

LEMMA CursorsOfListing ==
  ASSUME NEW regions, Listing(regions)
  PROVE  Cursors(RegionsOf(regions)) \subseteq Nat
  BY RegionNats DEF Cursors, RegionsOf

\* A cursor below which nothing is free, that is free itself, is the first fit.
LEMMA FreeCursorIsFirst ==
  ASSUME NEW length \in Nat, NEW regions, Listing(regions), NEW acc,
         acc \in [cursor : Nat, found : Nat \cup {None}],
         NEW n, Searching(length, regions, acc, n),
         FreeAt(acc.cursor, length, RegionsOf(regions))
  PROVE  FirstFit(acc.cursor, length, RegionsOf(regions))
<1>1. acc.cursor \in Nat
  OBVIOUS
<1>2. \A q \in Cursors(RegionsOf(regions)) :
        FreeAt(q, length, RegionsOf(regions)) => acc.cursor <= q
  BY <1>1, CursorsOfListing DEF Searching
<1> QED
  BY <1>2 DEF FirstFit, Searching

LEMMA OneTurn ==
  ASSUME NEW length \in Nat, NEW regions, Listing(regions),
         NEW n \in 1 .. Len(regions), NEW acc, LoopInv(length, regions, acc, n - 1)
  PROVE  LoopInv(length, regions, Visit(length, acc, regions[n]), n)
<1> DEFINE r == regions[n]
           S == RegionsOf(regions)
           new == Visit(length, acc, r)
<1> USE DEF None
<1>1. Len(regions) \in Nat
  BY DEF Listing
<1>2. /\ acc \in [cursor : Nat, found : Nat \cup {None}]
      /\ acc.cursor \in Nat
  BY DEF LoopInv
<1>3. /\ r.offset \in Nat /\ r.length \in Nat /\ End(r) \in Nat
      /\ r.offset <= End(r) /\ End(r) <= SIZE /\ r \in S
  BY RegionNats
<1>4. CASE acc.found # None
  BY <1>2, <1>4 DEF LoopInv, Searching, Visit
<1>5. CASE acc.found = None /\ acc.cursor + length <= r.offset
  <2>1. new = [acc EXCEPT !.found = acc.cursor]
    BY <1>5 DEF Visit
  <2>2. new \in [cursor : Nat, found : Nat \cup {None}] /\ new.found = acc.cursor
    BY <1>2, <2>1
  <2>3. Searching(length, regions, acc, n - 1)
    BY <1>2, <1>5 DEF LoopInv, Found
  <2>4. FreeAt(acc.cursor, length, S)
    <3>1. acc.cursor + length <= SIZE
      BY <1>2, <1>3, <1>5, SizeAssumption
    <3>2. ASSUME NEW j \in 1 .. Len(regions)
          PROVE  End(regions[j]) <= acc.cursor \/ acc.cursor + length <= regions[j].offset
      <4>1. CASE j < n
        <5>1. j \in 1 .. n - 1
          BY <1>1, <4>1
        <5> QED
          BY <2>3, <5>1 DEF Searching
      <4>2. CASE n <= j
        <5>1. r.offset <= regions[j].offset /\ regions[j].offset \in Nat
          BY <1>1, <4>2, RegionNats DEF Listing
        <5> QED
          BY <1>2, <1>3, <1>5, <5>1
      <4> QED
        BY <1>1, <4>1, <4>2
    <3> QED
      BY <3>1, <3>2 DEF FreeAt, RegionsOf
  <2>5. FirstFit(acc.cursor, length, S)
    BY <1>2, <2>3, <2>4, FreeCursorIsFirst
  <2> QED
    BY <1>2, <2>2, <2>5 DEF LoopInv, Found
<1>6. CASE acc.found = None /\ ~(acc.cursor + length <= r.offset)
  <2>1. Searching(length, regions, acc, n - 1)
    BY <1>2, <1>6 DEF LoopInv, Found
  <2>2. new = [acc EXCEPT !.cursor = IF End(r) > @ THEN End(r) ELSE @]
    BY <1>6 DEF Visit
  <2>3. PICK c : c = IF End(r) > acc.cursor THEN End(r) ELSE acc.cursor
    OBVIOUS
  <2>4. /\ c \in Nat /\ acc.cursor <= c /\ End(r) <= c
        /\ c = End(r) \/ c = acc.cursor
    BY <1>2, <1>3, <2>3
  <2>5. new = [acc EXCEPT !.cursor = c]
    BY <2>2, <2>3
  <2>6. /\ new \in [cursor : Nat, found : Nat \cup {None}]
        /\ new.found = None /\ new.cursor = c
    BY <1>2, <1>6, <2>4, <2>5
  <2>7. c \in Cursors(S)
    BY <1>3, <2>1, <2>4 DEF Searching, Cursors
  <2>8. \A j \in 1 .. n : End(regions[j]) <= c
    <3> SUFFICES ASSUME NEW j \in 1 .. n PROVE End(regions[j]) <= c
      OBVIOUS
    <3>1. CASE j = n
      BY <2>4, <3>1
    <3>2. CASE j # n
      <4>1. j \in 1 .. n - 1 /\ j \in 1 .. Len(regions)
        BY <1>1, <3>2
      <4>2. End(regions[j]) <= acc.cursor /\ End(regions[j]) \in Nat
        BY <2>1, <4>1, RegionNats DEF Searching
      <4> QED
        BY <1>2, <2>4, <4>2
    <3> QED
      BY <3>1, <3>2
  <2>9. ASSUME NEW q \in Nat, q < c PROVE ~FreeAt(q, length, S)
    <3>1. CASE q < acc.cursor
      BY <2>1, <3>1 DEF Searching
    <3>2. CASE ~(q < acc.cursor)
      <4>1. c = End(r)
        BY <2>4, <2>9, <3>2
      <4>2. q < End(r) /\ ~(q + length <= r.offset)
        BY <1>2, <1>3, <1>6, <2>9, <3>2, <4>1
      <4>3. ~(End(r) <= q)
        BY <1>3, <4>2
      <4> QED
        BY <1>3, <4>2, <4>3 DEF FreeAt
    <3> QED
      BY <3>1, <3>2
  <2> QED
    BY <2>6, <2>7, <2>8, <2>9 DEF LoopInv, Searching
<1> QED
  BY <1>4, <1>5, <1>6

LEMMA AllTurns ==
  ASSUME NEW length \in Nat, NEW regions, Listing(regions), NEW n \in 0 .. Len(regions)
  PROVE  LoopInv(length, regions, Turns(length, regions)[n], n)
<1> DEFINE f == Turns(length, regions)
           T == {k \in Nat : k <= Len(regions) => LoopInv(length, regions, f[k], k)}
<1>1. Len(regions) \in Nat
  BY DEF Listing
<1>2. IsScan(f, length, regions, Len(regions))
  BY <1>1, TurnsDef
<1> HIDE DEF f
<1>3. 0 \in T
  <2>1. f[0] = [cursor |-> 0, found |-> None]
    BY <1>1, <1>2 DEF IsScan
  <2>2. LoopInv(length, regions, f[0], 0)
    BY <2>1 DEF LoopInv, Searching, Cursors
  <2> QED
    BY <2>2
<1>4. ASSUME NEW k \in Nat, k \in T PROVE k + 1 \in T
  <2> SUFFICES ASSUME k + 1 <= Len(regions)
               PROVE  LoopInv(length, regions, f[k + 1], k + 1)
    OBVIOUS
  <2>1. k + 1 \in 1 .. Len(regions) /\ (k + 1) - 1 = k /\ k <= Len(regions)
        /\ k + 1 \in 0 .. Len(regions) /\ k + 1 # 0
    BY <1>1
  <2>2. f[k + 1] = Visit(length, f[k], regions[k + 1])
    BY <1>2, <2>1 DEF IsScan
  <2>3. LoopInv(length, regions, f[k], (k + 1) - 1)
    BY <1>4, <2>1
  <2> QED
    BY <2>1, <2>2, <2>3, OneTurn
<1> HIDE DEF T
<1>5. Nat \subseteq T
  BY <1>3, <1>4, SetInduction
<1> QED
  BY <1>1, <1>5 DEF T, f

(***************************************************************************)
(* Over any regions of the buffer that are sorted by offset, overlapping   *)
(* and equal ones included, the loop with its early return computes first  *)
(* fit, and None only if no position of the buffer is free                 *)
(* (server.py:100-116, ramlink_memory_provider.py:54-62).                  *)
(***************************************************************************)
THEOREM LoopIsFirstFit ==
  ASSUME NEW length \in Nat, NEW regions, Listing(regions),
         NEW p, p = FindFreeRegion(length, regions)
  PROVE  IF p = None THEN \A q \in Nat : ~FreeAt(q, length, RegionsOf(regions))
         ELSE FirstFit(p, length, RegionsOf(regions))
<1> DEFINE acc == Turns(length, regions)[Len(regions)]
           S == RegionsOf(regions)
<1>1. Len(regions) \in Nat
  BY DEF Listing
<1>2. LoopInv(length, regions, acc, Len(regions))
  BY <1>1, AllTurns
<1>3. p = CASE acc.found # None -> acc.found
            [] acc.found = None /\ acc.cursor + length <= SIZE -> acc.cursor
            [] OTHER -> None
  BY DEF FindFreeRegion
<1> HIDE DEF acc
<1>4. acc \in [cursor : Nat, found : Nat \cup {None}] /\ acc.cursor \in Nat
  BY <1>2 DEF LoopInv
<1>5. CASE Found(length, regions, acc)
  BY <1>3, <1>5 DEF Found, None
<1>6. CASE Searching(length, regions, acc, Len(regions))
  <2>1. acc.found = None
    BY <1>6 DEF Searching
  <2>2. \A j \in 1 .. Len(regions) : End(regions[j]) <= acc.cursor
    BY <1>6 DEF Searching
  <2>3. CASE acc.cursor + length <= SIZE
    <3>1. FreeAt(acc.cursor, length, S)
      BY <2>2, <2>3 DEF FreeAt, RegionsOf
    <3>2. FirstFit(acc.cursor, length, S)
      BY <1>4, <1>6, <3>1, FreeCursorIsFirst
    <3>3. p = acc.cursor /\ p # None
      BY <1>3, <1>4, <2>1, <2>3 DEF None
    <3> QED
      BY <3>2, <3>3
  <2>4. CASE ~(acc.cursor + length <= SIZE)
    <3>1. p = None
      BY <1>3, <2>1, <2>4
    <3>2. ASSUME NEW q \in Nat PROVE ~FreeAt(q, length, S)
      <4>1. CASE q < acc.cursor
        BY <1>6, <4>1 DEF Searching
      <4>2. CASE ~(q < acc.cursor)
        <5>1. ~(q + length <= SIZE)
          BY <1>4, <2>4, <4>2, SizeAssumption
        <5> QED
          BY <5>1 DEF FreeAt
      <4> QED
        BY <4>1, <4>2
    <3> QED
      BY <3>1, <3>2
  <2> QED
    BY <2>3, <2>4
<1> QED
  BY <1>2, <1>5, <1>6 DEF LoopInv

\* sorted() has a result: any finite set can be listed by ascending keys.
LEMMA SortingExists ==
  ASSUME NEW S, IsFiniteSet(S), NEW key, \A x \in S : key[x] \in Nat
  PROVE  SortedBy(S, key) # {}
<1> DEFINE T == {n \in Nat : \A R \in SUBSET S : Cardinality(R) = n => SortedBy(R, key) # {}}
<1>1. \A R \in SUBSET S : IsFiniteSet(R) /\ Cardinality(R) \in Nat
  BY FS_Subset, FS_CardinalityType
<1>2. 0 \in T
  <2> SUFFICES ASSUME NEW R \in SUBSET S, Cardinality(R) = 0 PROVE SortedBy(R, key) # {}
    OBVIOUS
  <2>1. R = {}
    BY <1>1, FS_EmptySet
  <2> DEFINE s == [j \in 1 .. 0 |-> 0]
  <2>2. \A j \in 1 .. 0 : FALSE
    OBVIOUS
  <2>3. s \in [1 .. 0 -> R] /\ DOMAIN s = 1 .. 0
    BY <2>2
  <2>4. s \in SortedBy(R, key)
    BY <2>1, <2>2, <2>3 DEF SortedBy
  <2> QED
    BY <2>4
<1>3. ASSUME NEW n \in Nat, n \in T PROVE n + 1 \in T
  <2> SUFFICES ASSUME NEW R \in SUBSET S, Cardinality(R) = n + 1
               PROVE  SortedBy(R, key) # {}
    BY <1>3
  <2> DEFINE Keys == {key[x] : x \in R}
  <2>1. R # {}
    BY <1>1, FS_EmptySet
  <2>2. PICK least \in Keys : \A y \in Keys : least <= y
    <3>1. Keys \subseteq Nat /\ Keys # {}
      BY <2>1
    <3> QED
      BY <3>1, LeastElement
  <2>3. PICK first \in R : \A x \in R : key[first] <= key[x]
    BY <2>2
  <2>4. PICK rest \in SortedBy(R \ {first}, key) : TRUE
    <3>1. Cardinality(R \ {first}) = n
      BY <1>1, FS_RemoveElement
    <3> QED
      BY <1>3, <3>1
  <2>5. /\ rest \in [1 .. n -> R \ {first}] /\ DOMAIN rest = 1 .. n
        /\ \A x \in R \ {first} : \E j \in 1 .. n : rest[j] = x
        /\ \A j, k \in 1 .. n : j < k => key[rest[j]] <= key[rest[k]]
    <3>1. Cardinality(R \ {first}) = n
      BY <1>1, FS_RemoveElement
    <3>2. DOMAIN rest = 1 .. n
      BY <2>4, <3>1 DEF SortedBy
    <3> QED
      BY <2>4, <3>1, <3>2 DEF SortedBy
  <2> DEFINE s == [j \in 1 .. n + 1 |-> IF j = 1 THEN first ELSE rest[j - 1]]
  <2>6. \A j \in 1 .. n + 1 : j # 1 => j - 1 \in 1 .. n
    OBVIOUS
  <2>7. s \in [1 .. n + 1 -> R] /\ DOMAIN s = 1 .. n + 1 /\ s[1] = first
    BY <2>5, <2>6
  <2>8. ASSUME NEW x \in R PROVE \E j \in 1 .. n + 1 : s[j] = x
    <3>1. CASE x = first
      BY <2>7, <3>1
    <3>2. CASE x # first
      <4>1. PICK j \in 1 .. n : rest[j] = x
        BY <2>5, <3>2
      <4>2. j + 1 \in 1 .. n + 1 /\ j + 1 # 1 /\ (j + 1) - 1 = j
        OBVIOUS
      <4>3. s[j + 1] = x
        BY <4>1, <4>2
      <4> QED
        BY <4>2, <4>3
    <3> QED
      BY <3>1, <3>2
  <2>9. ASSUME NEW j \in 1 .. n + 1, NEW k \in 1 .. n + 1, j < k
        PROVE  key[s[j]] <= key[s[k]]
    <3>1. k # 1 /\ k - 1 \in 1 .. n /\ s[k] = rest[k - 1]
      BY <2>6, <2>9
    <3>2. CASE j = 1
      <4>1. rest[k - 1] \in R
        BY <2>5, <3>1
      <4> QED
        BY <2>3, <2>7, <3>1, <3>2, <4>1
    <3>3. CASE j # 1
      <4>1. j - 1 \in 1 .. n /\ s[j] = rest[j - 1] /\ j - 1 < k - 1
        BY <2>6, <2>9, <3>3
      <4> QED
        BY <2>5, <3>1, <4>1
    <3> QED
      BY <3>2, <3>3
  <2> HIDE DEF s
  <2>10. s \in SortedBy(R, key)
    BY <2>7, <2>8, <2>9 DEF SortedBy
  <2> QED
    BY <2>10
<1> HIDE DEF T
<1>4. Nat \subseteq T
  BY <1>2, <1>3, SetInduction
<1>5. Cardinality(S) \in T
  BY <1>1, <1>4
<1> QED
  BY <1>5 DEF T

\* What the server hands to its loop is such a listing of its live regions.
LEMMA LiveListing ==
  ASSUME TypeOK, LeasesWellFormed,
         NEW s \in SortedBy(LiveLeases, [i \in LiveLeases |-> lease[i].offset]),
         NEW regions, regions = [k \in DOMAIN s |-> RegionOf(s[k])]
  PROVE  Listing(regions) /\ RegionsOf(regions) = LiveRegions
<1> DEFINE key == [i \in LiveLeases |-> lease[i].offset]
<1>1. PICK n \in Nat : n = Cardinality(LiveLeases)
  <2>1. PICK m \in Int : m = next_lease_id - 1
    BY DEF TypeOK
  <2>2. LiveLeases \in SUBSET (1 .. m)
    BY <2>1 DEF TypeOK, LiveLeases, LeaseIds
  <2>3. IsFiniteSet(1 .. m)
    BY FS_Interval
  <2>4. IsFiniteSet(LiveLeases)
    BY <2>2, <2>3, FS_Subset
  <2> QED
    BY <2>4, FS_CardinalityType
<1>2. s \in [1 .. n -> LiveLeases] /\ DOMAIN s = 1 .. n
  BY <1>1 DEF SortedBy
<1>3. /\ \A i \in LiveLeases : \E j \in 1 .. n : s[j] = i
      /\ \A j, k \in 1 .. n : j < k => key[s[j]] <= key[s[k]]
  BY <1>2 DEF SortedBy
<1>4. \A i \in LiveLeases : RegionOf(i) \in Region /\ End(RegionOf(i)) <= SIZE
  BY DEF TypeOK, LiveLeases, LeaseObject, RegionOf, Region, LeasesWellFormed
<1>5. regions \in [1 .. n -> Region] /\ \A k \in 1 .. n : regions[k] = RegionOf(s[k])
  BY <1>2, <1>4
<1>6. Len(regions) = n /\ 1 .. Len(regions) = 1 .. n
  <2>1. regions \in Seq(Region)
    BY <1>5, IsASeq
  <2>2. Len(regions) \in Nat /\ DOMAIN regions = 1 .. Len(regions)
    BY <2>1, LenProperties
  <2>3. DOMAIN regions = 1 .. n
    BY <1>5
  <2> QED
    BY <2>2, <2>3
<1>7. \A j \in 1 .. n : regions[j] \in Region /\ End(regions[j]) <= SIZE
  BY <1>2, <1>4, <1>5
<1>8. \A j, k \in 1 .. n : j < k => regions[j].offset <= regions[k].offset
  <2>1. \A k \in 1 .. n : regions[k].offset = key[s[k]]
    BY <1>2, <1>5 DEF RegionOf
  <2> QED
    BY <1>3, <2>1
<1>9. Listing(regions)
  BY <1>6, <1>7, <1>8 DEF Listing
<1>10. RegionsOf(regions) = LiveRegions
  <2>1. \A x : x \in RegionsOf(regions) <=> \E j \in 1 .. n : x = RegionOf(s[j])
    BY <1>5, <1>6 DEF RegionsOf
  <2>2. \A x : x \in LiveRegions <=> \E i \in LiveLeases : x = RegionOf(i)
    BY DEF LiveRegions
  <2>3. \A x : x \in RegionsOf(regions) <=> x \in LiveRegions
    BY <1>2, <1>3, <2>1, <2>2
  <2> QED
    BY <2>3
<1> QED
  BY <1>9, <1>10

(***************************************************************************)
(* The scan of the Android server computes first fit over its live leases  *)
(* in every reachable state, whatever order sorted() gives to leases of    *)
(* one offset, and there always is such an order (server.py:100-116).      *)
(***************************************************************************)
THEOREM ServerScanIsFirstFit == Spec => []ScanIsFirstFit
<1>1. TypeOK /\ GrantInv => ScanIsFirstFit
  <2> SUFFICES ASSUME TypeOK, LeasesWellFormed, NEW length \in 1 .. SIZE,
                      NEW s \in SortedBy(LiveLeases, [i \in LiveLeases |-> lease[i].offset]),
                      NEW regions, regions = [k \in DOMAIN s |-> RegionOf(s[k])],
                      NEW p, p = FindFreeRegion(length, regions)
               PROVE  IF p = None
                      THEN \A q \in 0 .. SIZE : ~FreeAt(q, length, LiveRegions)
                      ELSE FirstFit(p, length, LiveRegions)
    BY DEF GrantInv, ScanIsFirstFit
  <2>1. Listing(regions) /\ RegionsOf(regions) = LiveRegions
    BY LiveListing
  <2>2. length \in Nat
    BY SizeAssumption
  <2>3. IF p = None THEN \A q \in Nat : ~FreeAt(q, length, RegionsOf(regions))
        ELSE FirstFit(p, length, RegionsOf(regions))
    BY <2>1, <2>2, LoopIsFirstFit
  <2> QED
    BY <2>1, <2>3, SizeAssumption
<1> QED
  BY <1>1, GrantInvariant, PTL

-----------------------------------------------------------------------------
(***************************************************************************)
(* A lease that leaves the table has expired or is being released, with    *)
(* any number of connections cleaning up, releasing and renewing.          *)
(***************************************************************************)
LossJustified(i) ==
    \/ ~Alive(i)
    \/ \E c \in Conns : pc[c] = "pop" /\ local[c].lease_id = i /\ pc'[c] = "reply"

LEMMA LossStep ==
  ASSUME TypeOK, [Next]_vars, NEW i \in leases \ leases'
  PROVE  LossJustified(i)
<1>1. CASE Tick \/ UNCHANGED vars
  BY <1>1, IdleSteps
<1>2. ASSUME NEW c \in Conns, Info(c) \/ BorrowCleanup(c)
      PROVE  LossJustified(i)
  BY <1>2 DEF Info, BorrowCleanup, CleanupExpired, LossJustified
<1>3. ASSUME NEW c \in Conns, ReleaseLookup(c) \/ KeepaliveLookup(c)
      PROVE  LossJustified(i)
  <2>1. PICK j \in 1 .. MaxLeases, place \in {"pop", "extend"} : GetLease(c, j, place)
    BY <1>3 DEF ReleaseLookup, KeepaliveLookup
  <2>2. j = i /\ ~Alive(j)
    BY <2>1 DEF GetLease
  <2>3. QED
    BY <2>2 DEF LossJustified
<1>4. ASSUME NEW c \in Conns, ReleasePop(c)
      PROVE  LossJustified(i)
  BY <1>4 DEF ReleasePop, Goto, TypeOK, LossJustified
<1>5. ASSUME NEW c \in Conns, Handler(c) \/ Peer(c),
             ~(Info(c) \/ BorrowCleanup(c)), ~(ReleaseLookup(c) \/ KeepaliveLookup(c)),
             ~ReleasePop(c)
      PROVE  leases \subseteq leases'
  BY <1>5 DEF Handler, Peer, SendReply, BorrowScan, BorrowInsert, BorrowZero,
       KeepaliveExtend, Accept, Disconnect, Stateless, Read, WriteHeader, WritePayload
<1>6. QED
  BY <1>1, <1>2, <1>3, <1>4, <1>5 DEF Next

THEOREM ServerLossJustified == Spec => LeaseLossJustified
<1>1. TypeOK /\ [Next]_vars =>
        [\A i \in leases \ leases' :
           \/ ~Alive(i)
           \/ \E c \in Conns :
                pc[c] = "pop" /\ local[c].lease_id = i /\ pc'[c] = "reply"]_vars
  BY LossStep DEF LossJustified
<1>2. QED
  BY <1>1, ServerTypeCorrect, PTL DEF Spec, LeaseLossJustified

-----------------------------------------------------------------------------
(***************************************************************************)
(* Without a race.  Disjointness of the live leases is not inductive: an   *)
(* expired lease may be revived by a KEEPALIVE that found it alive, and a  *)
(* candidate has to stay free until it is inserted and, for the zeroing,   *)
(* until it is cleared.  So the invariant speaks of the leases in force    *)
(* (Held) and of the candidates beside them.                               *)
(***************************************************************************)
HeldDisjoint ==
    \A i, j \in Held : i # j => Disjoint(RegionOf(i), RegionOf(j))

CandidatesFree ==
    \A c \in Conns : pc[c] \in {"insert", "zero"} =>
      \A i \in Held \ {local[c].lease_id} : Disjoint(Candidate(c), RegionOf(i))

\* What is being zeroed is the region of the lease just inserted.
ZeroesItsOwn ==
    \A c \in Conns : pc[c] = "zero" => RegionOf(local[c].lease_id) = Candidate(c)

PoolInv ==
    /\ HeldDisjoint
    /\ CandidatesFree
    /\ ZeroesItsOwn

LEMMA PoolInvInit == Init => PoolInv
  BY DEF Init, PoolInv, HeldDisjoint, CandidatesFree, ZeroesItsOwn, Held

(***************************************************************************)
(* A quiet step takes leases out of force and never brings one into force. *)
(***************************************************************************)
LEMMA HeldShrinks ==
  ASSUME TypeOK, TableShrinks,
         UNCHANGED <<pc, local>> \/ \E c \in Conns : Moves(c)
  PROVE  Held' \subseteq Held /\ \A i \in Held : RegionOf(i)' = RegionOf(i)
<1>1. leases \subseteq LeaseIds
  BY DEF TypeOK
<1>2. \A i \in LeaseIds : RegionOf(i)' = RegionOf(i)
  BY DEF TableShrinks, RegionOf
<1>3. ASSUME NEW i \in leases', Extending(i)'
      PROVE  Extending(i) \/ Alive(i)
  <2>1. CASE UNCHANGED <<pc, local>>
    BY <1>3, <2>1 DEF Extending
  <2>2. ASSUME NEW c \in Conns, Moves(c)
        PROVE  Extending(i) \/ Alive(i)
    <3>1. PICK place \in QuietPlaces, l \in Locals :
            Goto(c, place, l) /\ Arrives(c, place, l)
      BY <2>2 DEF Moves
    <3>2. \A d \in Conns : /\ d = c => pc'[d] = place /\ local'[d] = l
                           /\ d # c => pc'[d] = pc[d] /\ local'[d] = local[d]
      BY <3>1, GotoType DEF QuietPlaces
    <3>3. PICK d \in Conns : pc'[d] = "extend" /\ local'[d].lease_id = i
      BY <1>3 DEF Extending
    <3>4. QED
      BY <3>1, <3>2, <3>3 DEF Arrives, Extending
  <2>3. QED
    BY <2>1, <2>2
<1>4. ASSUME NEW i \in Held'
      PROVE  i \in Held
  <2>1. i \in leases' /\ (Alive(i)' \/ Extending(i)')
    BY DEF Held
  <2>2. i \in leases /\ i \in LeaseIds
    BY <1>1, <2>1 DEF TableShrinks
  <2>3. Alive(i) \/ Extending(i)
    BY <1>3, <2>1, <2>2 DEF TableShrinks
  <2>4. QED
    BY <2>2, <2>3 DEF Held
<1>5. QED
  BY <1>1, <1>2, <1>4 DEF Held

LEMMA PoolInvIdle ==
  ASSUME TypeOK, GrantInv, PoolInv, Tick \/ UNCHANGED vars
  PROVE  PoolInv'
<1>1. UNCHANGED <<pc, local>> /\ TableShrinks
  BY IdleSteps
<1>2. Held' \subseteq Held /\ \A i \in Held : RegionOf(i)' = RegionOf(i)
  BY <1>1, HeldShrinks
<1>3. HeldDisjoint'
  BY <1>2 DEF PoolInv, HeldDisjoint, Disjoint, End
<1>4. \A c \in Conns : Candidate(c)' = Candidate(c)
  BY <1>1 DEF Candidate
<1>5. CandidatesFree'
  BY <1>1, <1>2, <1>4 DEF PoolInv, CandidatesFree
<1>6. ZeroesItsOwn'
  <2>1. \A c \in Conns : pc[c] = "zero" => RegionOf(local[c].lease_id)' = RegionOf(local[c].lease_id)
    BY <1>1 DEF GrantInv, GrantsKnown, TableShrinks, RegionOf
  <2>2. QED
    BY <1>1, <1>4, <2>1 DEF PoolInv, ZeroesItsOwn
<1>7. QED
  BY <1>3, <1>5, <1>6 DEF PoolInv

LEMMA PoolInvQuiet ==
  ASSUME TypeOK, GrantInv, PoolInv, NEW c \in Conns, Moves(c), TableShrinks
  PROVE  PoolInv'
<1>1. PICK place \in QuietPlaces, l \in Locals : Goto(c, place, l) /\ Arrives(c, place, l)
  BY DEF Moves
<1>2. \A d \in Conns : /\ d = c => pc'[d] = place /\ local'[d] = l
                       /\ d # c => pc'[d] = pc[d] /\ local'[d] = local[d]
  BY <1>1, GotoType DEF QuietPlaces
<1>3. Held' \subseteq Held /\ \A i \in Held : RegionOf(i)' = RegionOf(i)
  BY HeldShrinks
<1>4. HeldDisjoint'
  BY <1>3 DEF PoolInv, HeldDisjoint
<1>5. ZeroesItsOwn'
  <2> SUFFICES ASSUME NEW d \in Conns, pc'[d] = "zero"
               PROVE  RegionOf(local[d].lease_id)' = Candidate(d)'
    BY DEF ZeroesItsOwn
  <2>1. d # c
    BY <1>2 DEF QuietPlaces
  <2>2. pc[d] = "zero" /\ local'[d] = local[d] /\ local[d].lease_id \in LeaseIds
    BY <1>2, <2>1 DEF GrantInv, GrantsKnown
  <2>3. RegionOf(local[d].lease_id)' = RegionOf(local[d].lease_id)
    BY <2>2 DEF TableShrinks, RegionOf
  <2>4. QED
    BY <2>2, <2>3 DEF PoolInv, ZeroesItsOwn, Candidate
<1>6. CandidatesFree'
  <2> SUFFICES ASSUME NEW d \in Conns, pc'[d] \in {"insert", "zero"},
                      NEW i \in Held' \ {local'[d].lease_id}
               PROVE  Disjoint(Candidate(d)', RegionOf(i)')
    BY DEF CandidatesFree
  <2>1. d # c
    BY <1>2 DEF QuietPlaces
  <2>2. Candidate(d)' = Candidate(d)
    BY <1>2, <2>1 DEF Candidate
  <2>3. QED
    BY <1>2, <1>3, <2>1, <2>2 DEF PoolInv, CandidatesFree
<1>7. QED
  BY <1>4, <1>5, <1>6 DEF PoolInv

\* A scan that finds a place moves one thread and changes nothing in force.
LEMMA ScanPlaces ==
  ASSUME TypeOK, NEW c \in Conns, BorrowScan(c),
         NEW p \in Cursors(LiveRegions), Scanned(c, p)
  PROVE  /\ \A d \in Conns : /\ d = c => pc'[d] = "insert"
                             /\ d # c => pc'[d] = pc[d] /\ local'[d] = local[d]
         /\ Candidate(c)' = [offset |-> p, length |-> local[c].length]
         /\ Held' = Held /\ \A i \in Held : RegionOf(i)' = RegionOf(i)
<1>1. UNCHANGED <<memory, leases, lease, next_lease_id>> /\ pc[c] = "scan"
  BY ScanSteps
<1>2. local[c] \in Locals /\ p \in Nat
  BY LiveCursorsNat DEF TypeOK
<1>3. [local[c] EXCEPT !.offset = p] \in Locals /\ "insert" \in Places
  BY <1>2 DEF Locals, Places
<1>4. \A d \in Conns :
        /\ d = c => pc'[d] = "insert" /\ local'[d] = [local[c] EXCEPT !.offset = p]
        /\ d # c => pc'[d] = pc[d] /\ local'[d] = local[d]
  BY <1>3, GotoType DEF Scanned
<1>5. Candidate(c)' = [offset |-> p, length |-> local[c].length]
  BY <1>2, <1>4 DEF Candidate, Locals
<1>6. QED
  BY <1>1, <1>4, <1>5 DEF Held, Alive, Extending, RegionOf

LEMMA PoolInvScan ==
  ASSUME TypeOK, GrantInv, PoolInv, NoRace', NEW c \in Conns, BorrowScan(c)
  PROVE  PoolInv'
<1>1. UNCHANGED <<memory, leases, lease, next_lease_id>> /\ pc[c] = "scan"
  BY ScanSteps
<1>2. CASE Moves(c)
  BY <1>1, <1>2, TableSame, PoolInvQuiet
<1>3. ASSUME NEW p \in Cursors(LiveRegions), Scanned(c, p)
      PROVE  PoolInv'
  <2>1. /\ \A d \in Conns : /\ d = c => pc'[d] = "insert"
                            /\ d # c => pc'[d] = pc[d] /\ local'[d] = local[d]
        /\ Candidate(c)' = [offset |-> p, length |-> local[c].length]
        /\ Held' = Held /\ \A i \in Held : RegionOf(i)' = RegionOf(i)
    BY <1>3, ScanPlaces
  <2>2. \A i \in LiveLeases : Disjoint(Candidate(c)', RegionOf(i))
    BY <1>3, <2>1 DEF Scanned, FirstFit, FreeAt, LiveRegions, Disjoint, End
  <2>3. Held = LiveLeases
    <3> SUFFICES ASSUME NEW i \in Held, ~Alive(i) PROVE FALSE
      BY DEF Held, LiveLeases
    <3>1. PICK d \in Conns : pc[d] = "extend" /\ local[d].lease_id = i
      BY DEF Held, Extending
    <3>2. d # c /\ pc'[c] = "insert" /\ pc'[d] = "extend" /\ local'[d].lease_id = i
      BY <1>1, <2>1, <3>1
    <3>3. i \in leases' /\ i \notin LiveLeases'
      BY <1>1 DEF Held, LiveLeases, Alive
    <3> QED
      BY <3>2, <3>3 DEF NoRace, Unsettled
  <2>4. CandidatesFree'
    <3> SUFFICES ASSUME NEW d \in Conns, pc'[d] \in {"insert", "zero"},
                        NEW i \in Held' \ {local'[d].lease_id}
                 PROVE  Disjoint(Candidate(d)', RegionOf(i)')
      BY DEF CandidatesFree
    <3>1. CASE d = c
      BY <2>1, <2>2, <2>3, <3>1
    <3>2. CASE d # c
      <4>1. Candidate(d)' = Candidate(d)
        BY <2>1, <3>2 DEF Candidate
      <4> QED
        BY <2>1, <3>2, <4>1 DEF PoolInv, CandidatesFree
    <3> QED
      BY <3>1, <3>2
  <2>5. HeldDisjoint'
    BY <2>1 DEF PoolInv, HeldDisjoint
  <2>6. ZeroesItsOwn'
    <3> SUFFICES ASSUME NEW d \in Conns, pc'[d] = "zero"
                 PROVE  RegionOf(local[d].lease_id)' = Candidate(d)'
      BY DEF ZeroesItsOwn
    <3>1. d # c /\ pc[d] = "zero" /\ local'[d] = local[d]
      BY <2>1
    <3> QED
      BY <1>1, <3>1 DEF PoolInv, ZeroesItsOwn, Candidate, RegionOf
  <2>7. QED
    BY <2>4, <2>5, <2>6 DEF PoolInv
<1>4. QED
  BY <1>2, <1>3, ScanSteps

\* Without a race an insertion adds one lease to those in force, at a place that
\* none of them and no block still to be cleared meets.
LEMMA InsertHolds ==
  ASSUME TypeOK, GrantInv, PoolInv, NoRace, NEW c \in Conns, BorrowInsert(c),
         NEW n, n = next_lease_id
  PROVE  /\ Held' = Held \cup {n}
         /\ \A i \in Held : i \in LeaseIds /\ RegionOf(i)' = RegionOf(i)
         /\ RegionOf(n)' = Candidate(c)
         /\ \A i \in Held : Disjoint(Candidate(c), RegionOf(i))
         /\ \A d \in Conns \ {c} :
              pc[d] # "insert"
              /\ (pc[d] = "zero" => Disjoint(Candidate(d), Candidate(c)))
<1>1. /\ n \notin LeaseIds /\ LeaseIds' = LeaseIds \cup {n}
      /\ leases' = leases \cup {n}
      /\ \A i \in LeaseIds : lease'[i] = lease[i]
      /\ lease'[n] = [offset |-> local[c].offset, length |-> local[c].length,
                      expires_in |-> LEASE_SECONDS]
      /\ pc[c] = "insert"
      /\ Goto(c, "zero", [local[c] EXCEPT !.lease_id = n])
  BY InsertSteps
<1>2. local[c] \in Locals /\ leases \subseteq LeaseIds
  BY DEF TypeOK
<1>3. [local[c] EXCEPT !.lease_id = n] \in Locals /\ "zero" \in Places
  BY DEF Locals, Places, TypeOK
<1>4. \A d \in Conns :
        /\ d = c => pc'[d] = "zero"
        /\ d # c => pc'[d] = pc[d] /\ local'[d] = local[d]
  BY <1>1, <1>3, GotoType
<1>5. \A i \in LeaseIds : Extending(i)' <=> Extending(i)
  BY <1>1, <1>4 DEF Extending
<1>6. (\A i \in LeaseIds : Alive(i)' <=> Alive(i)) /\ Alive(n)'
  BY <1>1, ServerAssumption DEF Alive
<1>7. Held' = Held \cup {n}
  BY <1>1, <1>2, <1>5, <1>6 DEF Held
<1>8. \A i \in Held : i \in LeaseIds /\ RegionOf(i)' = RegionOf(i)
  BY <1>1, <1>2 DEF Held, RegionOf
<1>9. RegionOf(n)' = Candidate(c)
  BY <1>1 DEF RegionOf, Candidate
<1>10. \A i \in Held : Disjoint(Candidate(c), RegionOf(i))
  <2>1. local[c].lease_id = 0
    BY <1>1 DEF GrantInv, CandidatesWellFormed
  <2>2. 0 \notin Held
    BY <1>8 DEF LeaseIds
  <2>3. QED
    BY <1>1, <2>1, <2>2 DEF PoolInv, CandidatesFree
<1>11. ASSUME NEW d \in Conns \ {c}
       PROVE  /\ pc[d] # "insert"
              /\ pc[d] = "zero" => Disjoint(Candidate(d), Candidate(c))
  <2>1. ~Unsettled(d)
    BY <1>1 DEF NoRace
  <2>2. ASSUME pc[d] = "zero" PROVE Disjoint(Candidate(d), Candidate(c))
    <3>1. local[d].lease_id \in Held
      BY <2>1, <2>2 DEF Unsettled, LiveLeases, Held
    <3>2. RegionOf(local[d].lease_id) = Candidate(d)
      BY <2>2 DEF PoolInv, ZeroesItsOwn
    <3> QED
      BY <1>10, <3>1, <3>2 DEF Disjoint
  <2> QED
    BY <2>1, <2>2 DEF Unsettled
<1> QED
  BY <1>7, <1>8, <1>9, <1>10, <1>11

LEMMA PoolInvInsert ==
  ASSUME TypeOK, GrantInv, PoolInv, NoRace, NEW c \in Conns, BorrowInsert(c)
  PROVE  PoolInv'
<1>1. PICK n \in Nat \ {0} :
         /\ n = next_lease_id
         /\ n \notin LeaseIds
         /\ \A i \in LeaseIds : lease'[i] = lease[i]
         /\ Goto(c, "zero", [local[c] EXCEPT !.lease_id = n])
  BY InsertSteps
<1>2. local[c] \in Locals
  BY DEF TypeOK
<1>3. [local[c] EXCEPT !.lease_id = n] \in Locals /\ "zero" \in Places
  BY <1>2 DEF Locals, Places
<1>4. \A d \in Conns :
        /\ d = c => pc'[d] = "zero" /\ local'[d] = [local[c] EXCEPT !.lease_id = n]
        /\ d # c => pc'[d] = pc[d] /\ local'[d] = local[d]
  BY <1>1, <1>3, GotoType
<1>5. /\ Held' = Held \cup {n}
      /\ \A i \in Held : i \in LeaseIds /\ RegionOf(i)' = RegionOf(i)
      /\ RegionOf(n)' = Candidate(c)
      /\ \A i \in Held : Disjoint(Candidate(c), RegionOf(i))
  BY <1>1, InsertHolds
<1>6. \A d \in Conns \ {c} :
        pc[d] # "insert" /\ (pc[d] = "zero" => Disjoint(Candidate(d), Candidate(c)))
  BY <1>1, InsertHolds
<1>7. Candidate(c)' = Candidate(c) /\ local'[c].lease_id = n
  BY <1>2, <1>4 DEF Candidate, Locals
<1>8. \A d \in Conns \ {c} : Candidate(d)' = Candidate(d)
  BY <1>4 DEF Candidate
<1>9. HeldDisjoint'
  <2> SUFFICES ASSUME NEW i \in Held', NEW j \in Held', i # j
               PROVE  Disjoint(RegionOf(i)', RegionOf(j)')
    BY DEF HeldDisjoint
  <2>1. CASE i \in Held /\ j \in Held
    BY <1>5, <2>1 DEF PoolInv, HeldDisjoint
  <2>2. CASE i = n /\ j \in Held
    BY <1>5, <2>2
  <2>3. CASE j = n /\ i \in Held
    <3>1. Disjoint(Candidate(c), RegionOf(i))
      BY <1>5, <2>3
    <3>2. QED
      BY <1>5, <2>3, <3>1 DEF Disjoint
  <2>4. QED
    BY <1>5, <2>1, <2>2, <2>3
<1>10. CandidatesFree'
  <2> SUFFICES ASSUME NEW d \in Conns, pc'[d] \in {"insert", "zero"},
                      NEW i \in Held' \ {local'[d].lease_id}
               PROVE  Disjoint(Candidate(d)', RegionOf(i)')
    BY DEF CandidatesFree
  <2>1. CASE d = c
    BY <1>5, <1>7, <2>1
  <2>2. CASE d # c
    <3>1. /\ pc[d] = "zero" /\ Disjoint(Candidate(d), Candidate(c))
          /\ Candidate(d)' = Candidate(d) /\ local'[d] = local[d]
      BY <1>4, <1>6, <1>8, <2>2
    <3>2. CASE i \in Held
      BY <1>5, <3>1, <3>2 DEF PoolInv, CandidatesFree
    <3>3. CASE i = n
      BY <1>5, <3>1, <3>3
    <3> QED
      BY <1>5, <3>2, <3>3
  <2>3. QED
    BY <2>1, <2>2
<1>11. ZeroesItsOwn'
  <2> SUFFICES ASSUME NEW d \in Conns, pc'[d] = "zero"
               PROVE  RegionOf(local[d].lease_id)' = Candidate(d)'
    BY DEF ZeroesItsOwn
  <2>1. CASE d = c
    BY <1>5, <1>7, <2>1 DEF RegionOf
  <2>2. CASE d # c
    <3>1. pc[d] = "zero" /\ local'[d] = local[d] /\ local[d].lease_id \in LeaseIds
      BY <1>4, <2>2 DEF GrantInv, GrantsKnown
    <3>2. RegionOf(local[d].lease_id)' = RegionOf(local[d].lease_id)
      BY <1>1, <3>1 DEF RegionOf
    <3> QED
      BY <1>8, <2>2, <3>1, <3>2 DEF PoolInv, ZeroesItsOwn
  <2>3. QED
    BY <2>1, <2>2
<1>12. QED
  BY <1>9, <1>10, <1>11 DEF PoolInv

LEMMA PoolInvStep ==
  ASSUME TypeOK, GrantInv, PoolInv, NoRace, NoRace', [Next]_vars
  PROVE  PoolInv'
  BY StepKinds, QuietSteps, PoolInvIdle, PoolInvQuiet, PoolInvScan, PoolInvInsert

\* CalmSpec is Spec without a race.
LEMMA CalmBehaviours == CalmSpec <=> Spec /\ []NoRace
<1>1. Init => NoRace
  BY DEF Init, NoRace
<1>2. NoRace /\ [Next /\ NoRace']_vars => NoRace'
  BY DEF vars, NoRace, Unsettled, LiveLeases, Alive
<1>3. QED
  BY <1>1, <1>2, PTL DEF CalmSpec, Spec

LEMMA PoolInvariant == CalmSpec => [](TypeOK /\ GrantInv /\ PoolInv /\ NoRace)
<1>1. Init => TypeOK /\ GrantInv /\ PoolInv
  BY TypeInit, GrantInit, PoolInvInit
<1>2. TypeOK /\ GrantInv /\ PoolInv /\ NoRace /\ NoRace' /\ [Next]_vars
        => TypeOK' /\ GrantInv' /\ PoolInv'
  BY TypeStep, GrantStep, PoolInvStep
<1>3. QED
  BY <1>1, <1>2, CalmBehaviours, PTL DEF Spec

(***************************************************************************)
(* Without a race the live leases never overlap, however many connections  *)
(* borrow, renew and release: an overlap takes two places scanned and not  *)
(* yet inserted, or a scanned place beside a KEEPALIVE or a BORROW whose   *)
(* lease has meanwhile run out (server.py:100-150, 213-225).               *)
(***************************************************************************)
THEOREM ServerLiveDisjoint == CalmSpec => []LiveDisjoint
<1>1. PoolInv => LiveDisjoint
  BY DEF PoolInv, HeldDisjoint, Held, LiveDisjoint, LiveLeases
<1>2. QED
  BY <1>1, PoolInvariant, PTL

(***************************************************************************)
(* The zeroing of a block: its candidate is still beside every other lease *)
(* in force, so no byte of a live lease is cleared.                        *)
(***************************************************************************)
LEMMA OnlyZeroLeavesZero ==
  ASSUME TypeOK, [Next]_vars, NEW c \in Conns, Zeroing(c)
  PROVE  BorrowZero(c)
<1>1. CASE Tick \/ UNCHANGED vars
  BY <1>1, IdleSteps DEF Zeroing
<1>2. ASSUME NEW d \in Conns, Handler(d) \/ Peer(d), d # c
      PROVE  pc'[c] = pc[c]
  <2>1. PICK place, l : Goto(d, place, l)
    <3>1. CASE Moves(d)
      BY <3>1 DEF Moves
    <3>2. CASE BorrowScan(d)
      BY <3>2, ScanSteps DEF Moves, Scanned
    <3>3. CASE BorrowInsert(d)
      BY <3>3 DEF BorrowInsert
    <3>4. QED
      BY <1>2, <3>1, <3>2, <3>3, QuietSteps
  <2>2. QED
    BY <1>2, <2>1 DEF Goto, TypeOK
<1>3. ASSUME Handler(c) \/ Peer(c)
      PROVE  BorrowZero(c)
  BY <1>3 DEF Zeroing, Handler, Peer, SendReply, BorrowScan, BorrowInsert, ReleasePop,
       KeepaliveExtend, Accept, Disconnect, Info, Stateless, BorrowCleanup, ReleaseLookup,
       KeepaliveLookup, Read, WriteHeader, WritePayload, Receives
<1>4. QED
  BY <1>1, <1>2, <1>3 DEF Next, Zeroing

LEMMA ZeroingStep ==
  ASSUME TypeOK, GrantInv, PoolInv, NEW c \in Conns, BorrowZero(c),
         NEW i \in LiveLeases \ {local[c].lease_id},
         NEW b \in lease[i].offset .. End(RegionOf(i)) - 1
  PROVE  memory'[b] = memory[b]
<1>1. i \in LeaseIds /\ lease[i] \in LeaseObject /\ local[c] \in Locals
  BY DEF TypeOK, LiveLeases
<1>2. Disjoint(Candidate(c), RegionOf(i))
  BY DEF BorrowZero, PoolInv, CandidatesFree, Held, LiveLeases
<1>3. End(RegionOf(i)) <= SIZE
  BY <1>1 DEF GrantInv, LeasesWellFormed
<1>4. b \in 0 .. SIZE - 1
  BY <1>1, <1>3, SizeAssumption DEF LeaseObject, End, RegionOf
<1>5. b \notin local[c].offset .. local[c].offset + local[c].length - 1
  BY <1>1, <1>2 DEF Disjoint, End, Candidate, RegionOf, LeaseObject, Locals
<1>6. memory \in [0 .. SIZE - 1 -> Payloads \cup {0}]
  BY DEF TypeOK
<1>7. QED
  BY <1>4, <1>5, <1>6 DEF BorrowZero, Zero, Fill

(***************************************************************************)
(* Without a race, zeroing a block that is about to be handed out touches  *)
(* no byte of another live lease (server.py:142-150).                      *)
(***************************************************************************)
THEOREM ServerZeroingSpares == CalmSpec => ZeroingSparesOthers
<1>1. TypeOK /\ GrantInv /\ PoolInv /\ [Next]_vars =>
        [\A c \in Conns : Zeroing(c) =>
           \A i \in LiveLeases \ {local[c].lease_id} :
             \A b \in lease[i].offset .. End(RegionOf(i)) - 1 :
               memory'[b] = memory[b]]_vars
  BY OnlyZeroLeavesZero, ZeroingStep
<1>2. QED
  BY <1>1, PoolInvariant, CalmBehaviours, PTL DEF Spec, ZeroingSparesOthers

-----------------------------------------------------------------------------
(***************************************************************************)
(* Without a race the server implements the abstract pool: the insertion   *)
(* is the grant, and every other step revokes what it takes out of force.  *)
(***************************************************************************)
HeldRecord(i) ==
    [lease_id |-> i, offset |-> lease[i].offset, length |-> lease[i].length]

HeldRecords == {HeldRecord(i) : i \in Held}

LEMMA ShrinkRevokes ==
  ASSUME Held' \subseteq Held, \A i \in Held : RegionOf(i)' = RegionOf(i),
         next_lease_id' = next_lease_id
  PROVE  Pool!Revoke
<1>1. \A i \in Held : HeldRecord(i)' = HeldRecord(i)
  BY DEF HeldRecord, RegionOf
<1>2. HeldRecords' \subseteq HeldRecords
  BY <1>1 DEF HeldRecords
<1>3. QED
  BY <1>2 DEF Pool!Revoke, HeldRecords, HeldRecord

LEMMA InsertGrants ==
  ASSUME TypeOK, GrantInv, PoolInv, NoRace, NEW c \in Conns, BorrowInsert(c)
  PROVE  Pool!Grant
<1>1. PICK n \in Nat \ {0} :
         /\ n = next_lease_id /\ next_lease_id' = n + 1
         /\ \A i \in LeaseIds : lease'[i] = lease[i]
         /\ lease'[n] = [offset |-> local[c].offset, length |-> local[c].length,
                         expires_in |-> LEASE_SECONDS]
         /\ pc[c] = "insert"
  BY InsertSteps
<1>2. local[c] \in Locals
  BY DEF TypeOK
<1>3. /\ Held' = Held \cup {n}
      /\ \A i \in Held : i \in LeaseIds
      /\ \A i \in Held : Disjoint(Candidate(c), RegionOf(i))
  BY <1>1, InsertHolds
<1>4. PICK p \in Nat, len \in 1 .. SIZE : p = local[c].offset /\ len = local[c].length
  BY <1>1, <1>2 DEF Locals, GrantInv, CandidatesWellFormed
<1>5. /\ \A i \in Held : HeldRecord(i)' = HeldRecord(i)
      /\ HeldRecord(n)' = [lease_id |-> n, offset |-> p, length |-> len]
  BY <1>1, <1>3, <1>4 DEF HeldRecord
<1>6. HeldRecords' = HeldRecords \cup {[lease_id |-> n, offset |-> p, length |-> len]}
  BY <1>3, <1>5 DEF HeldRecords
<1>7. p + len <= SIZE
  BY <1>1, <1>4 DEF GrantInv, CandidatesWellFormed, Candidate, End
<1>8. FreeAt(p, len, HeldRecords)
  BY <1>3, <1>4, <1>7
  DEF FreeAt, HeldRecords, HeldRecord, Disjoint, End, Candidate, RegionOf
<1>9. Pool!FreeAt(p, len, HeldRecords)
  BY <1>8 DEF FreeAt, Pool!FreeAt, End, Pool!End
<1>10. p \in 0 .. SIZE
  BY <1>7, SizeAssumption
<1>11. /\ (next_lease_id - 1) + 1 = n
       /\ (next_lease_id - 1)' = (next_lease_id - 1) + 1
  BY <1>1
<1>12. QED
  BY <1>6, <1>9, <1>10, <1>11 DEF Pool!Grant, HeldRecords, HeldRecord

LEMMA PoolStep ==
  ASSUME TypeOK, GrantInv, PoolInv, NoRace, [Next]_vars
  PROVE  Pool!Next
<1>1. CASE Tick \/ UNCHANGED vars
  <2>1. TableShrinks /\ UNCHANGED <<pc, local>>
    BY <1>1, IdleSteps
  <2>2. QED
    BY <2>1, HeldShrinks, ShrinkRevokes DEF TableShrinks, Pool!Next
<1>2. ASSUME NEW c \in Conns, Moves(c), TableShrinks
      PROVE  Pool!Next
  BY <1>2, HeldShrinks, ShrinkRevokes DEF TableShrinks, Pool!Next
<1>3. ASSUME NEW c \in Conns, BorrowScan(c)
      PROVE  Pool!Next
  <2>1. UNCHANGED <<memory, leases, lease, next_lease_id>>
    BY <1>3, ScanSteps
  <2>2. CASE Moves(c)
    BY <1>2, <2>1, <2>2, TableSame
  <2>3. ASSUME NEW p \in Cursors(LiveRegions), Scanned(c, p)
        PROVE  Pool!Next
    BY <1>3, <2>1, <2>3, ScanPlaces, ShrinkRevokes DEF Pool!Next
  <2>4. QED
    BY <1>3, <2>2, <2>3, ScanSteps
<1>4. ASSUME NEW c \in Conns, BorrowInsert(c)
      PROVE  Pool!Next
  BY <1>4, InsertGrants DEF Pool!Next
<1>5. QED
  BY <1>1, <1>2, <1>3, <1>4, QuietSteps, StepKinds

(***************************************************************************)
(* The leases in force of the Android server are the regions of an         *)
(* abstract pool, as long as there is no race: the pool that "grants       *)
(* non-overlapping leased regions" (protocol/ramlink_protocol.md:10).      *)
(***************************************************************************)
THEOREM ServerImplementsPool == CalmSpec => ImplementsPool
<1>1. Init => Pool!Init
  BY DEF Init, Pool!Init, Held
<1>2. TypeOK /\ GrantInv /\ PoolInv /\ NoRace /\ [Next]_vars => [Pool!Next]_Pool!poolVars
  BY PoolStep
<1>3. QED
  BY <1>1, <1>2, PoolInvariant, CalmBehaviours, PTL DEF Spec, ImplementsPool, Pool!Spec

=============================================================================
