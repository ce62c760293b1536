-------------------------- MODULE RamProviderProofs --------------------------
(***************************************************************************)
(* Proofs about RamProvider, for any number of connections, buffer size,   *)
(* lease duration and mix of requests.                                     *)
(***************************************************************************)
EXTENDS RamProvider, TLAPS

(***************************************************************************)
(* Every handler keeps every variable in its type.                         *)
(***************************************************************************)
LEMMA TypeInit == Init => TypeOK
  BY SizeAssumption, ProviderAssumption
  DEF Init, TypeOK, LeaseIds, LeaseObject, Places, Locals, NoLocals

LEMMA FillType ==
  ASSUME TypeOK, NEW offset \in Nat, NEW length \in Nat,
         NEW value \in Payloads \cup {0}, Fill(offset, length, value)
  PROVE  memory' \in [0 .. SIZE - 1 -> Payloads \cup {0}]
  BY DEF TypeOK, Fill

LEMMA GotoType ==
  ASSUME TypeOK, NEW c \in Conns, NEW place \in Places, NEW l \in Locals,
         Goto(c, place, l)
  PROVE  /\ pc' \in [Conns -> Places]
         /\ local' \in [Conns -> Locals]
  BY DEF TypeOK, Goto

LEMMA FailType ==
  ASSUME TypeOK, NEW c \in Conns, Fail(c)
  PROVE  /\ pc' \in [Conns -> Places]
         /\ local' \in [Conns -> Locals]
  BY DEF TypeOK, Fail, Goto, Places, Locals, NoLocals

LEMMA CleanupType ==
  ASSUME TypeOK, Cleanup
  PROVE  leases' \subseteq LeaseIds
  BY DEF TypeOK, Cleanup

LEMMA TypeStep ==
  ASSUME TypeOK, [Next]_vars
  PROVE  TypeOK'
<1> USE SizeAssumption, ProviderAssumption
<1>1. CASE UNCHANGED vars
  BY <1>1 DEF TypeOK, vars, LeaseIds
<1>2. CASE Tick
  <2>1. DOMAIN lease = LeaseIds
    BY DEF TypeOK
  <2>2. ASSUME NEW i \in LeaseIds
        PROVE  [lease[i] EXCEPT !.expires_in = IF @ > 0 THEN @ - 1 ELSE 0] \in LeaseObject
    <3>1. lease[i] \in LeaseObject
      BY DEF TypeOK
    <3>2. QED
      BY <3>1 DEF LeaseObject
  <2>3. lease' \in [LeaseIds -> LeaseObject]
    BY <1>2, <2>1, <2>2 DEF Tick
  <2>4. QED
    BY <1>2, <2>3 DEF TypeOK, Tick, LeaseIds
<1>3. ASSUME NEW c \in Conns, Accept(c) \/ Disconnect(c) \/ SendReply(c) \/ Ping(c)
      PROVE  TypeOK'
  <2>1. NoLocals \in Locals /\ {"header", "reply"} \subseteq Places
    BY DEF NoLocals, Locals, Places
  <2>2. pc' \in [Conns -> Places] /\ local' \in [Conns -> Locals]
    BY <1>3, <2>1, GotoType, FailType DEF Accept, Disconnect, SendReply, Ping
  <2>3. QED
    BY <1>3, <2>2 DEF TypeOK, Accept, Disconnect, SendReply, Ping, LeaseIds
<1>4. ASSUME NEW c \in Conns, Info(c)
      PROVE  TypeOK'
  <2>1. NoLocals \in Locals /\ "reply" \in Places
    BY DEF NoLocals, Locals, Places
  <2>2. QED
    BY <1>4, <2>1, GotoType, CleanupType DEF TypeOK, Info, LeaseIds
<1>5. ASSUME NEW c \in Conns, BorrowRefuse(c)
      PROVE  TypeOK'
  BY <1>5, FailType DEF TypeOK, BorrowRefuse, LeaseIds
<1>6. ASSUME NEW c \in Conns, BorrowCleanup(c)
      PROVE  TypeOK'
  <2>1. PICK requested \in Requests :
          /\ RoundUp(requested) \in 1 .. SIZE
          /\ Goto(c, "scan", [NoLocals EXCEPT !.length = RoundUp(requested)])
    BY <1>6 DEF BorrowCleanup
  <2>2. [NoLocals EXCEPT !.length = RoundUp(requested)] \in Locals /\ "scan" \in Places
    BY <2>1 DEF NoLocals, Locals, Places
  <2>3. QED
    BY <1>6, <2>1, <2>2, GotoType, CleanupType DEF TypeOK, BorrowCleanup, LeaseIds
<1>7. ASSUME NEW c \in Conns, BorrowScan(c)
      PROVE  TypeOK'
  <2>1. CASE Fail(c)
    BY <1>7, <2>1, FailType DEF TypeOK, BorrowScan, LeaseIds
  <2>2. CASE ~Fail(c)
    <3>1. PICK p \in Cursors(TableRegions) :
            Goto(c, "insert", [local[c] EXCEPT !.offset = p])
      BY <1>7, <2>2 DEF BorrowScan
    <3>2. p \in Nat
      <4>1. \A i \in leases : lease[i] \in LeaseObject
        BY DEF TypeOK
      <4>2. \A i \in leases : End(RegionOf(i)) \in Nat
        BY <4>1 DEF End, RegionOf, LeaseObject
      <4>3. QED
        BY <3>1, <4>2 DEF Cursors, TableRegions
    <3>3. [local[c] EXCEPT !.offset = p] \in Locals /\ "insert" \in Places
      BY <3>2 DEF TypeOK, Locals, Places
    <3>4. QED
      BY <1>7, <3>1, <3>3, GotoType DEF TypeOK, BorrowScan, LeaseIds
  <2>3. QED
    BY <2>1, <2>2
<1>8. ASSUME NEW c \in Conns, BorrowInsert(c)
      PROVE  TypeOK'
  <2>1. local[c] \in Locals /\ next_lease_id \in Nat \ {0}
    BY DEF TypeOK
  <2>2. [local[c] EXCEPT !.lease_id = next_lease_id] \in Locals /\ "zero" \in Places
    BY <2>1 DEF Locals, Places
  <2>3. LeaseIds' = 1 .. next_lease_id /\ next_lease_id' \in Nat \ {0}
    <3>1. next_lease_id' = next_lease_id + 1
      BY <1>8 DEF BorrowInsert
    <3>2. next_lease_id + 1 \in Nat \ {0}
      BY <2>1
    <3>3. next_lease_id' - 1 = next_lease_id
      BY <2>1, <3>1
    <3>4. LeaseIds' = 1 .. next_lease_id' - 1
      BY DEF LeaseIds
    <3>5. LeaseIds' = 1 .. next_lease_id
      BY <3>3, <3>4, Zenon
    <3>6. QED
      BY <3>1, <3>2, <3>5, Zenon
  <2>4. lease' \in [LeaseIds' -> LeaseObject]
    <3>1. [offset |-> local[c].offset, length |-> local[c].length,
           expires_in |-> LEASE_SECONDS] \in LeaseObject
      BY <2>1 DEF LeaseObject, Locals
    <3>2. ASSUME NEW i \in 1 .. next_lease_id, i # next_lease_id
          PROVE  lease[i] \in LeaseObject
      BY <2>1, <3>2 DEF TypeOK, LeaseIds
    <3>3. lease' = [i \in 1 .. next_lease_id |->
                      IF i = next_lease_id
                      THEN [offset |-> local[c].offset, length |-> local[c].length,
                            expires_in |-> LEASE_SECONDS]
                      ELSE lease[i]]
      BY <1>8 DEF BorrowInsert
    <3>4. QED
      BY <2>3, <3>1, <3>2, <3>3
  <2>5. leases' \subseteq LeaseIds'
    <3>1. leases' = leases \cup {next_lease_id}
      BY <1>8 DEF BorrowInsert
    <3>2. leases \subseteq LeaseIds
      BY DEF TypeOK
    <3>3. LeaseIds \subseteq 1 .. next_lease_id /\ next_lease_id \in 1 .. next_lease_id
      BY <2>1 DEF LeaseIds
    <3>4. QED
      BY <2>3, <3>1, <3>2, <3>3, Zenon
  <2>6. pc' \in [Conns -> Places] /\ local' \in [Conns -> Locals]
    BY <1>8, <2>2, GotoType DEF BorrowInsert
  <2>7. QED
    BY <1>8, <2>3, <2>4, <2>5, <2>6 DEF TypeOK, BorrowInsert, LeaseObject, Locals
<1>9. ASSUME NEW c \in Conns, BorrowZero(c)
      PROVE  TypeOK'
  <2>1. local[c] \in Locals /\ "reply" \in Places
    BY DEF TypeOK, Places
  <2>2. memory' \in [0 .. SIZE - 1 -> Payloads \cup {0}]
    BY <1>9, <2>1, FillType DEF BorrowZero, Locals
  <2>3. QED
    BY <1>9, <2>1, <2>2, GotoType DEF TypeOK, BorrowZero, LeaseIds
<1>10. ASSUME NEW c \in Conns, Release(c)
       PROVE  TypeOK'
  <2>1. NoLocals \in Locals /\ "reply" \in Places
    BY DEF NoLocals, Locals, Places
  <2>2. pc' \in [Conns -> Places] /\ local' \in [Conns -> Locals]
    BY <1>10, <2>1, GotoType, FailType DEF Release
  <2>3. QED
    BY <1>10, <2>2 DEF TypeOK, Release, LeaseIds
<1>11. ASSUME NEW c \in Conns, KeepaliveCleanup(c)
       PROVE  TypeOK'
  <2>1. PICK i \in 1 .. MaxLeases : Goto(c, "lookup", [NoLocals EXCEPT !.lease_id = i])
    BY <1>11 DEF KeepaliveCleanup
  <2>2. [NoLocals EXCEPT !.lease_id = i] \in Locals /\ "lookup" \in Places
    BY DEF NoLocals, Locals, Places
  <2>3. QED
    BY <1>11, <2>1, <2>2, GotoType, CleanupType DEF TypeOK, KeepaliveCleanup, LeaseIds
<1>12. ASSUME NEW c \in Conns, KeepaliveLookup(c)
       PROVE  TypeOK'
  <2>1. local[c] \in Locals /\ "extend" \in Places
    BY DEF TypeOK, Places
  <2>2. QED
    BY <1>12, <2>1, GotoType, FailType DEF TypeOK, KeepaliveLookup, LeaseIds
<1>13. ASSUME NEW c \in Conns, KeepaliveExtend(c)
       PROVE  TypeOK'
  <2>1. NoLocals \in Locals /\ "reply" \in Places
    BY DEF NoLocals, Locals, Places
  <2>2. lease' \in [LeaseIds -> LeaseObject]
    <3>1. lease \in [LeaseIds -> LeaseObject]
      BY DEF TypeOK
    <3>2. ASSUME NEW i \in LeaseIds
          PROVE  [lease[i] EXCEPT !.expires_in = LEASE_SECONDS] \in LeaseObject
      BY <3>1 DEF LeaseObject
    <3>3. lease' = [lease EXCEPT ![local[c].lease_id].expires_in = LEASE_SECONDS]
      BY <1>13 DEF KeepaliveExtend
    <3>4. QED
      BY <3>1, <3>2, <3>3
  <2>3. QED
    BY <1>13, <2>1, <2>2, GotoType DEF TypeOK, KeepaliveExtend, LeaseIds
<1>14. ASSUME NEW c \in Conns, ReadHeader(c) \/ WriteHeader(c)
       PROVE  TypeOK'
  <2>1. PICK op \in {"READ", "WRITE"}, place \in {"copy", "payload"} : Request(c, op, place)
    BY <1>14 DEF ReadHeader, WriteHeader
  <2>2. CASE Fail(c)
    BY <2>1, <2>2, FailType DEF TypeOK, Request, LeaseIds
  <2>3. CASE ~Fail(c)
    <3>1. PICK offset \in 0 .. SIZE + 1, length \in Requests, v \in Payloads :
            Goto(c, place, [lease_id |-> 0, offset |-> offset, length |-> length,
                            data |-> IF op = "WRITE" THEN v ELSE 0])
      BY <2>1, <2>3 DEF Request
    <3>2. [lease_id |-> 0, offset |-> offset, length |-> length,
           data |-> IF op = "WRITE" THEN v ELSE 0] \in Locals
      BY DEF Locals
    <3>3. place \in Places
      BY DEF Places
    <3>4. QED
      BY <2>1, <3>1, <3>2, <3>3, GotoType DEF TypeOK, Request, LeaseIds
  <2>4. QED
    BY <2>2, <2>3
<1>15. ASSUME NEW c \in Conns, ReadCopy(c)
       PROVE  TypeOK'
  <2>1. NoLocals \in Locals /\ "reply" \in Places
    BY DEF NoLocals, Locals, Places
  <2>2. QED
    BY <1>15, <2>1, GotoType DEF TypeOK, ReadCopy, LeaseIds
<1>16. ASSUME NEW c \in Conns, WritePayload(c)
       PROVE  TypeOK'
  <2>1. local[c] \in Locals /\ NoLocals \in Locals /\ "reply" \in Places
    BY DEF TypeOK, NoLocals, Locals, Places
  <2>2. memory' \in [0 .. SIZE - 1 -> Payloads \cup {0}]
    BY <1>16, <2>1, FillType DEF WritePayload, Locals
  <2>3. QED
    BY <1>16, <2>1, <2>2, GotoType DEF TypeOK, WritePayload, LeaseIds
<1>17. QED
  BY <1>1, <1>2, <1>3, <1>4, <1>5, <1>6, <1>7, <1>8, <1>9, <1>10, <1>11, <1>12,
     <1>13, <1>14, <1>15, <1>16
  DEF Next, Handler, Peer

(***************************************************************************)
(* Type correctness of the provider.                                       *)
(***************************************************************************)
THEOREM TypeCorrect == Spec => []TypeOK
<1>1. Init => TypeOK
  BY TypeInit
<1>2. TypeOK /\ [Next]_vars => TypeOK'
  BY TypeStep
<1>3. QED
  BY <1>1, <1>2, PTL DEF Spec

-----------------------------------------------------------------------------
(***************************************************************************)
(* The inductive invariant behind TableDisjoint.  Between its scan and its *)
(* insertion a BORROW handler holds no lock, so the invariant has to say   *)
(* that the offset it chose is still free: without a race nobody else adds *)
(* a lease in between, and leases only ever leave the table.               *)
(***************************************************************************)
Borrowing(c) == pc[c] \in {"scan", "insert"}

Candidate(c) == [offset |-> local[c].offset, length |-> local[c].length]

BorrowersBorrow == \A c \in Conns : Borrowing(c) => "BORROW" \in Issues[c]

ExtendsKnownLease ==
    \A c \in Conns : pc[c] = "extend" => local[c].lease_id \in LeaseIds

CandidatesFree ==
    \A c \in Conns :
      /\ Borrowing(c) => local[c].length \in 1 .. SIZE
      /\ pc[c] = "insert" =>
           /\ End(Candidate(c)) <= SIZE
           /\ \A i \in leases : Disjoint(Candidate(c), RegionOf(i))

LeasesFit ==
    \A i \in LeaseIds : lease[i].length > 0 /\ End(RegionOf(i)) <= SIZE

IInv ==
    /\ BorrowersBorrow
    /\ ExtendsKnownLease
    /\ CandidatesFree
    /\ LeasesFit
    /\ TableDisjoint

\* What every step but BorrowInsert does to the table: leases may leave it,
\* and no lease moves.
TableShrinks ==
    /\ leases' \subseteq leases
    /\ next_lease_id' = next_lease_id
    /\ \A i \in LeaseIds :
         lease'[i].offset = lease[i].offset /\ lease'[i].length = lease[i].length

LEMMA InitIInv == Init => IInv
  BY DEF Init, IInv, BorrowersBorrow, Borrowing, ExtendsKnownLease, CandidatesFree,
         LeasesFit, TableDisjoint, LeaseIds

(***************************************************************************)
(* A table that shrinks keeps the part of the invariant about leases.      *)
(***************************************************************************)
LEMMA ShrinkKeepsTable ==
  ASSUME TypeOK, IInv, TableShrinks
  PROVE  LeasesFit' /\ TableDisjoint'
<1>1. LeaseIds' = LeaseIds
  BY DEF TableShrinks, LeaseIds
<1>2. \A i \in LeaseIds : RegionOf(i)' = RegionOf(i)
  BY DEF TableShrinks, RegionOf
<1>3. LeasesFit'
  BY <1>1, <1>2 DEF IInv, LeasesFit, TableShrinks, RegionOf, End
<1>4. TableDisjoint'
  BY <1>2 DEF IInv, TableDisjoint, TableShrinks, TypeOK
<1>5. QED
  BY <1>3, <1>4

(***************************************************************************)
(* A thread that moves without choosing an offset, while the table shrinks *)
(* or stays, keeps the invariant.                                          *)
(***************************************************************************)
LEMMA QuietStep ==
  ASSUME TypeOK, IInv, TableShrinks,
         NEW c \in Conns, NEW place \in Places \ {"insert"}, NEW l \in Locals,
         Goto(c, place, l),
         place = "scan" => "BORROW" \in Issues[c] /\ l.length \in 1 .. SIZE,
         place = "extend" => l.lease_id \in LeaseIds
  PROVE  IInv'
<1>1. LeasesFit' /\ TableDisjoint'
  BY ShrinkKeepsTable
<1>2. LeaseIds' = LeaseIds
  BY DEF TableShrinks, LeaseIds
<1>3. \A i \in LeaseIds : RegionOf(i)' = RegionOf(i)
  BY DEF TableShrinks, RegionOf
<1>4. \A d \in Conns : /\ d = c => pc'[d] = place /\ local'[d] = l
                       /\ d # c => pc'[d] = pc[d] /\ local'[d] = local[d]
  BY DEF Goto, TypeOK
<1>5. BorrowersBorrow'
  BY <1>4 DEF IInv, BorrowersBorrow, Borrowing
<1>6. ExtendsKnownLease'
  BY <1>2, <1>4 DEF IInv, ExtendsKnownLease
<1>7. CandidatesFree'
  <2> SUFFICES ASSUME NEW d \in Conns
               PROVE  /\ Borrowing(d)' => local'[d].length \in 1 .. SIZE
                      /\ pc'[d] = "insert" =>
                           /\ End(Candidate(d)') <= SIZE
                           /\ \A i \in leases' : Disjoint(Candidate(d)', RegionOf(i)')
    BY DEF CandidatesFree, End, Disjoint
  <2>1. CASE d = c
    BY <1>4, <2>1 DEF Borrowing
  <2>2. CASE d # c
    <3>1. Candidate(d)' = Candidate(d)
      BY <1>4, <2>2 DEF Candidate
    <3>2. leases' \subseteq leases /\ leases \subseteq LeaseIds
      BY DEF TableShrinks, TypeOK
    <3>3. QED
      BY <1>3, <1>4, <2>2, <3>1, <3>2 DEF IInv, CandidatesFree, Borrowing
  <2>3. QED
    BY <2>1, <2>2
<1>8. QED
  BY <1>1, <1>5, <1>6, <1>7 DEF IInv

(***************************************************************************)
(* Time and stuttering move no thread.                                     *)
(***************************************************************************)
LEMMA IdleStep ==
  ASSUME TypeOK, IInv, Tick \/ UNCHANGED vars
  PROVE  IInv'
<1>1. TableShrinks
  <2>1. CASE Tick
    BY <2>1 DEF TableShrinks, Tick, TypeOK, LeaseObject
  <2>2. CASE UNCHANGED vars
    BY <2>2 DEF TableShrinks, vars
  <2>3. QED
    BY <2>1, <2>2
<1>2. pc' = pc /\ local' = local /\ leases' = leases
  BY DEF Tick, vars
<1>3. LeaseIds' = LeaseIds
  BY <1>1 DEF TableShrinks, LeaseIds
<1>4. \A i \in leases : RegionOf(i)' = RegionOf(i)
  BY <1>1 DEF TableShrinks, RegionOf, TypeOK
<1>5. CandidatesFree'
  BY <1>2, <1>4 DEF IInv, CandidatesFree, Candidate, Borrowing, Disjoint, End
<1>6. BorrowersBorrow' /\ ExtendsKnownLease'
  BY <1>2, <1>3 DEF IInv, BorrowersBorrow, Borrowing, ExtendsKnownLease
<1>7. QED
  BY <1>1, <1>5, <1>6, ShrinkKeepsTable DEF IInv

(***************************************************************************)
(* The scan: the offset it returns is free of every lease in the table.    *)
(***************************************************************************)
LEMMA ScanStep ==
  ASSUME TypeOK, IInv, NEW c \in Conns, BorrowScan(c)
  PROVE  IInv'
<1>1. TableShrinks
  BY DEF BorrowScan, TableShrinks
<1>2. CASE Fail(c)
  <2>1. "closed" \in Places \ {"insert"} /\ NoLocals \in Locals
    BY DEF Places, Locals, NoLocals
  <2>2. QED
    BY <1>1, <1>2, <2>1, QuietStep DEF Fail
<1>3. CASE ~Fail(c)
  <2>1. PICK p \in Cursors(TableRegions) :
          /\ FirstFit(p, local[c].length, TableRegions)
          /\ Goto(c, "insert", [local[c] EXCEPT !.offset = p])
    BY <1>3 DEF BorrowScan
  <2>2. UNCHANGED <<leases, lease, next_lease_id>>
    BY DEF BorrowScan
  <2>3. pc[c] = "scan" /\ "BORROW" \in Issues[c] /\ local[c].length \in 1 .. SIZE
    BY DEF BorrowScan, IInv, BorrowersBorrow, CandidatesFree, Borrowing
  <2>4. \A d \in Conns :
          /\ d = c => /\ pc'[d] = "insert"
                      /\ local'[d] = [local[c] EXCEPT !.offset = p]
          /\ d # c => pc'[d] = pc[d] /\ local'[d] = local[d]
    BY <2>1 DEF Goto, TypeOK
  <2>5. Candidate(c)' = [offset |-> p, length |-> local[c].length]
    BY <2>4 DEF Candidate, TypeOK, Locals
  <2>6. /\ p + local[c].length <= SIZE
        /\ \A i \in leases : End(RegionOf(i)) <= p
                             \/ p + local[c].length <= RegionOf(i).offset
    BY <2>1 DEF FirstFit, FreeAt, TableRegions
  <2>7. CandidatesFree'
    <3> SUFFICES ASSUME NEW d \in Conns
                 PROVE  /\ Borrowing(d)' => local'[d].length \in 1 .. SIZE
                        /\ pc'[d] = "insert" =>
                             /\ End(Candidate(d)') <= SIZE
                             /\ \A i \in leases' : Disjoint(Candidate(d)', RegionOf(i)')
      BY DEF CandidatesFree, End, Disjoint
    <3>1. CASE d = c
      <4>1. local'[d].length = local[c].length
        BY <2>4, <3>1 DEF TypeOK, Locals
      <4>2. \A i \in leases : RegionOf(i)' = RegionOf(i)
        BY <2>2 DEF RegionOf
      <4>3. QED
        BY <2>2, <2>3, <2>5, <2>6, <3>1, <4>1, <4>2 DEF End, Disjoint
    <3>2. CASE d # c
      BY <2>2, <2>4, <3>2 DEF IInv, CandidatesFree, Candidate, Borrowing, RegionOf
    <3>3. QED
      BY <3>1, <3>2
  <2>8. BorrowersBorrow' /\ ExtendsKnownLease'
    BY <2>2, <2>3, <2>4
    DEF IInv, BorrowersBorrow, Borrowing, ExtendsKnownLease, LeaseIds
  <2>9. QED
    BY <1>1, <2>7, <2>8, ShrinkKeepsTable DEF IInv
<1>4. QED
  BY <1>2, <1>3

(***************************************************************************)
(* The insertion: the offset chosen by the scan is still free, and no      *)
(* other thread holds an offset that the new lease could take away.        *)
(***************************************************************************)
LEMMA InsertStep ==
  ASSUME TypeOK, IInv, NoRace, NEW c \in Conns, BorrowInsert(c)
  PROVE  IInv'
<1>0. PICK n \in Nat \ {0} : n = next_lease_id
  BY DEF TypeOK
<1>1. /\ n \in Nat \ {0}
      /\ LeaseIds' = LeaseIds \cup {n}
      /\ n \notin LeaseIds
      /\ leases' = leases \cup {n}
      /\ leases \subseteq LeaseIds
  BY <1>0 DEF TypeOK, LeaseIds, BorrowInsert
<1>2. /\ \A i \in LeaseIds : lease'[i] = lease[i]
      /\ lease'[n].offset = local[c].offset
      /\ lease'[n].length = local[c].length
  BY <1>0, <1>1 DEF BorrowInsert, LeaseIds
<1>3. /\ \A i \in LeaseIds : RegionOf(i)' = RegionOf(i)
      /\ RegionOf(n)' = Candidate(c)
  BY <1>1, <1>2 DEF RegionOf, Candidate
<1>4. /\ local[c].length \in 1 .. SIZE
      /\ End(Candidate(c)) <= SIZE
      /\ \A i \in leases : Disjoint(Candidate(c), RegionOf(i))
  BY DEF IInv, CandidatesFree, Borrowing, BorrowInsert
<1>5. \A d \in Conns : /\ d = c => pc'[d] = "zero"
                       /\ d # c => pc'[d] = pc[d] /\ local'[d] = local[d]
  BY DEF BorrowInsert, Goto, TypeOK
<1>6. \A d \in Conns : d # c => pc[d] # "insert"
  BY DEF NoRace, BorrowInsert
<1>7. BorrowersBorrow' /\ CandidatesFree'
  BY <1>5, <1>6 DEF IInv, BorrowersBorrow, CandidatesFree, Borrowing
<1>8. ExtendsKnownLease'
  BY <1>1, <1>5 DEF IInv, ExtendsKnownLease
<1>9. LeasesFit'
  <2> SUFFICES ASSUME NEW i \in LeaseIds'
               PROVE  lease'[i].length > 0 /\ End(RegionOf(i)') <= SIZE
    BY DEF LeasesFit, End
  <2>1. CASE i = n
    BY <1>2, <1>3, <1>4, <2>1
  <2>2. CASE i \in LeaseIds
    BY <1>2, <1>3, <2>2 DEF IInv, LeasesFit
  <2>3. QED
    BY <1>1, <2>1, <2>2
<1>10. TableDisjoint'
  <2> SUFFICES ASSUME NEW i \in leases', NEW j \in leases', i # j
               PROVE  Disjoint(RegionOf(i)', RegionOf(j)')
    BY DEF TableDisjoint, Disjoint, End
  <2>1. CASE i \in leases /\ j \in leases
    BY <1>1, <1>3, <2>1 DEF IInv, TableDisjoint
  <2>2. CASE i = n /\ j \in leases
    BY <1>1, <1>3, <1>4, <2>2
  <2>3. CASE j = n /\ i \in leases
    <3>1. RegionOf(i)' = RegionOf(i) /\ RegionOf(j)' = Candidate(c)
      BY <1>1, <1>3, <2>3
    <3>2. Disjoint(Candidate(c), RegionOf(i))
      BY <1>4, <2>3
    <3>3. QED
      BY <3>1, <3>2 DEF Disjoint
  <2>4. QED
    BY <1>1, <2>1, <2>2, <2>3
<1>11. QED
  BY <1>7, <1>8, <1>9, <1>10 DEF IInv

(***************************************************************************)
(* Every step keeps the invariant, provided there is no race before it.    *)
(***************************************************************************)
LEMMA IInvStep ==
  ASSUME TypeOK, IInv, NoRace, [Next]_vars
  PROVE  IInv'
<1> USE ProviderAssumption, SizeAssumption
<1> DEFINE Quiet == Places \ {"insert"}
<1>a. /\ {"closed", "header", "scan", "zero", "lookup", "extend", "copy", "payload",
          "reply"} \subseteq Quiet
      /\ NoLocals \in Locals
  BY DEF Places, Locals, NoLocals
<1>1. CASE Tick \/ UNCHANGED vars
  BY <1>1, IdleStep
<1>2. ASSUME NEW c \in Conns, Accept(c) \/ Disconnect(c) \/ SendReply(c) \/ Ping(c)
                              \/ BorrowRefuse(c) \/ ReadCopy(c)
      PROVE  IInv'
  <2>1. TableShrinks
    BY <1>2 DEF Accept, Disconnect, SendReply, Ping, BorrowRefuse, ReadCopy, TableShrinks
  <2>2. PICK place \in {"closed", "header", "reply"} : Goto(c, place, NoLocals)
    BY <1>2 DEF Accept, Disconnect, SendReply, Ping, BorrowRefuse, ReadCopy, Fail
  <2>3. QED
    BY <1>a, <2>1, <2>2, QuietStep
<1>3. ASSUME NEW c \in Conns, Info(c) \/ Release(c)
      PROVE  IInv'
  <2>1. TableShrinks
    BY <1>3 DEF Info, Release, Cleanup, TableShrinks
  <2>2. PICK place \in {"closed", "reply"} : Goto(c, place, NoLocals)
    BY <1>3 DEF Info, Release, Fail
  <2>3. QED
    BY <1>a, <2>1, <2>2, QuietStep
<1>4. ASSUME NEW c \in Conns, BorrowCleanup(c)
      PROVE  IInv'
  <2>1. TableShrinks
    BY <1>4 DEF BorrowCleanup, Cleanup, TableShrinks
  <2>2. PICK requested \in Requests :
          /\ RoundUp(requested) \in 1 .. SIZE
          /\ Goto(c, "scan", [NoLocals EXCEPT !.length = RoundUp(requested)])
    BY <1>4 DEF BorrowCleanup
  <2>3. /\ [NoLocals EXCEPT !.length = RoundUp(requested)] \in Locals
        /\ [NoLocals EXCEPT !.length = RoundUp(requested)].length \in 1 .. SIZE
        /\ "BORROW" \in Issues[c]
    BY <1>4, <2>2 DEF NoLocals, Locals, BorrowCleanup, Receives
  <2>4. QED
    BY <1>a, <2>1, <2>2, <2>3, QuietStep
<1>5. ASSUME NEW c \in Conns, BorrowZero(c) \/ WritePayload(c)
      PROVE  IInv'
  <2>1. TableShrinks
    BY <1>5 DEF BorrowZero, WritePayload, TableShrinks
  <2>2. PICK l \in {NoLocals, local[c]} : Goto(c, "reply", l)
    BY <1>5 DEF BorrowZero, WritePayload
  <2>3. l \in Locals
    BY <1>a DEF TypeOK
  <2>4. QED
    BY <1>a, <2>1, <2>2, <2>3, QuietStep
<1>6. ASSUME NEW c \in Conns, KeepaliveCleanup(c)
      PROVE  IInv'
  <2>1. TableShrinks
    BY <1>6 DEF KeepaliveCleanup, Cleanup, TableShrinks
  <2>2. PICK i \in 1 .. MaxLeases : Goto(c, "lookup", [NoLocals EXCEPT !.lease_id = i])
    BY <1>6 DEF KeepaliveCleanup
  <2>3. [NoLocals EXCEPT !.lease_id = i] \in Locals
    BY DEF NoLocals, Locals
  <2>4. QED
    BY <1>a, <2>1, <2>2, <2>3, QuietStep
<1>7. ASSUME NEW c \in Conns, KeepaliveLookup(c)
      PROVE  IInv'
  <2>1. TableShrinks
    BY <1>7 DEF KeepaliveLookup, TableShrinks
  <2>2. local[c] \in Locals /\ leases \subseteq LeaseIds
    BY DEF TypeOK
  <2>3. CASE local[c].lease_id \in leases
    <3>1. Goto(c, "extend", local[c])
      BY <1>7, <2>3 DEF KeepaliveLookup
    <3>2. QED
      BY <1>a, <2>1, <2>2, <2>3, <3>1, QuietStep
  <2>4. CASE local[c].lease_id \notin leases
    <3>1. Goto(c, "closed", NoLocals)
      BY <1>7, <2>4 DEF KeepaliveLookup, Fail
    <3>2. QED
      BY <1>a, <2>1, <3>1, QuietStep
  <2>5. QED
    BY <2>3, <2>4
<1>8. ASSUME NEW c \in Conns, KeepaliveExtend(c)
      PROVE  IInv'
  <2>1. TableShrinks
    <3>1. lease' = [lease EXCEPT ![local[c].lease_id].expires_in = LEASE_SECONDS]
      BY <1>8 DEF KeepaliveExtend
    <3>2. lease \in [LeaseIds -> LeaseObject]
      BY DEF TypeOK
    <3>3. \A i \in LeaseIds :
            lease'[i].offset = lease[i].offset /\ lease'[i].length = lease[i].length
      BY <3>1, <3>2 DEF LeaseObject
    <3>4. QED
      BY <1>8, <3>3 DEF KeepaliveExtend, TableShrinks
  <2>2. Goto(c, "reply", NoLocals)
    BY <1>8 DEF KeepaliveExtend
  <2>3. QED
    BY <1>a, <2>1, <2>2, QuietStep
<1>9. ASSUME NEW c \in Conns, ReadHeader(c) \/ WriteHeader(c)
      PROVE  IInv'
  <2>1. PICK op \in {"READ", "WRITE"}, place \in {"copy", "payload"} : Request(c, op, place)
    BY <1>9 DEF ReadHeader, WriteHeader
  <2>2. TableShrinks
    BY <2>1 DEF Request, TableShrinks
  <2>3. CASE Fail(c)
    BY <1>a, <2>2, <2>3, QuietStep DEF Fail
  <2>4. CASE ~Fail(c)
    <3>1. PICK offset \in 0 .. SIZE + 1, length \in Requests, v \in Payloads :
            Goto(c, place, [lease_id |-> 0, offset |-> offset, length |-> length,
                            data |-> IF op = "WRITE" THEN v ELSE 0])
      BY <2>1, <2>4 DEF Request
    <3>2. [lease_id |-> 0, offset |-> offset, length |-> length,
           data |-> IF op = "WRITE" THEN v ELSE 0] \in Locals
      BY DEF Locals
    <3>3. QED
      BY <1>a, <2>2, <3>1, <3>2, QuietStep
  <2>5. QED
    BY <2>3, <2>4
<1>10. QED
  BY <1>1, <1>2, <1>3, <1>4, <1>5, <1>6, <1>7, <1>8, <1>9, ScanStep, InsertStep
  DEF Next, Handler, Peer

LEMMA CalmBehaviours == CalmSpec <=> Spec /\ []NoRace
<1>1. Init => NoRace
  BY DEF Init, NoRace
<1>2. NoRace /\ [Next /\ NoRace']_vars => NoRace'
  BY DEF vars, NoRace
<1>3. QED
  BY <1>1, <1>2, PTL DEF CalmSpec, Spec

LEMMA TableInvariant == CalmSpec => [](TypeOK /\ IInv /\ NoRace)
<1>1. Init => TypeOK /\ IInv
  BY TypeInit, InitIInv
<1>2. TypeOK /\ IInv /\ NoRace /\ [Next]_vars => TypeOK' /\ IInv'
  BY TypeStep, IInvStep
<1>3. QED
  BY <1>1, <1>2, CalmBehaviours, PTL DEF Spec

(***************************************************************************)
(* Without a race the leases in the table never overlap, however many      *)
(* connections borrow, keep alive, release, read and write: an overlap     *)
(* takes two places scanned and not yet inserted                           *)
(* (ramlink_memory_provider.py:54-73).                                     *)
(***************************************************************************)
THEOREM ProviderDisjoint == CalmSpec => []TableDisjoint
<1>1. IInv => TableDisjoint
  BY DEF IInv
<1>2. QED
  BY <1>1, TableInvariant, PTL

-----------------------------------------------------------------------------
(***************************************************************************)
(* A step either inserts one lease or takes some out of the table.         *)
(***************************************************************************)
LEMMA InsertOrShrink ==
  ASSUME TypeOK, [Next]_vars
  PROVE  TableShrinks \/ \E c \in Conns : BorrowInsert(c)
<1>1. CASE Tick
  BY <1>1 DEF Tick, TableShrinks, TypeOK, LeaseObject
<1>2. CASE UNCHANGED vars
  BY <1>2 DEF vars, TableShrinks
<1>3. ASSUME NEW c \in Conns, Handler(c) \/ Peer(c), ~BorrowInsert(c), ~KeepaliveExtend(c)
      PROVE  TableShrinks
  <2>1. leases' \subseteq leases
    BY <1>3 DEF Handler, Peer, SendReply, BorrowScan, BorrowZero, KeepaliveLookup, ReadCopy,
         Accept, Disconnect, Ping, Info, BorrowRefuse, BorrowCleanup, Release,
         KeepaliveCleanup, ReadHeader, WriteHeader, Request, WritePayload, Cleanup
  <2>2. UNCHANGED <<lease, next_lease_id>>
    BY <1>3 DEF Handler, Peer, SendReply, BorrowScan, BorrowZero, KeepaliveLookup, ReadCopy,
         Accept, Disconnect, Ping, Info, BorrowRefuse, BorrowCleanup, Release,
         KeepaliveCleanup, ReadHeader, WriteHeader, Request, WritePayload
  <2>3. QED
    BY <2>1, <2>2 DEF TableShrinks
<1>4. ASSUME NEW c \in Conns, KeepaliveExtend(c)
      PROVE  TableShrinks
  <2>1. lease' = [lease EXCEPT ![local[c].lease_id].expires_in = LEASE_SECONDS]
    BY <1>4 DEF KeepaliveExtend
  <2>2. lease \in [LeaseIds -> LeaseObject]
    BY DEF TypeOK
  <2>3. \A i \in LeaseIds :
          lease'[i].offset = lease[i].offset /\ lease'[i].length = lease[i].length
    BY <2>1, <2>2 DEF LeaseObject
  <2>4. QED
    BY <1>4, <2>3 DEF KeepaliveExtend, TableShrinks
<1>5. QED
  BY <1>1, <1>2, <1>3, <1>4 DEF Next

(***************************************************************************)
(* A lease that left the table never comes back, with any number of        *)
(* borrowers: ids are fresh, and a renewal touches the object only.        *)
(***************************************************************************)
THEOREM ProviderForgets == Spec => RemovedStaysRemoved
<1>1. TypeOK /\ [Next]_vars => [\A i \in LeaseIds : i \notin leases => i \notin leases']_vars
  <2> SUFFICES ASSUME TypeOK, [Next]_vars, NEW i \in LeaseIds, i \notin leases
               PROVE  i \notin leases'
    OBVIOUS
  <2>1. CASE TableShrinks
    BY <2>1 DEF TableShrinks
  <2>2. ASSUME NEW c \in Conns, BorrowInsert(c)
        PROVE  i \notin leases'
    BY <2>2 DEF BorrowInsert, LeaseIds, TypeOK
  <2>3. QED
    BY <2>1, <2>2, InsertOrShrink
<1>2. Spec => []TypeOK
  BY TypeCorrect
<1>3. QED
  BY <1>1, <1>2, PTL DEF Spec, RemovedStaysRemoved

(***************************************************************************)
(* Without a race the provider implements the abstract pool: the insertion *)
(* is the grant, every other step revokes what left the table.             *)
(***************************************************************************)
Holding(i) ==
    [lease_id |-> i, offset |-> lease[i].offset, length |-> lease[i].length]

Holdings == {Holding(i) : i \in leases}

LEMMA ShrinkRevokes ==
  ASSUME TypeOK, TableShrinks
  PROVE  Pool!Revoke
<1>1. \A i \in leases : Holding(i)' = Holding(i)
  BY DEF Holding, TableShrinks, TypeOK
<1>2. Holdings' \subseteq Holdings
  BY <1>1 DEF Holdings, TableShrinks
<1>3. QED
  BY <1>2 DEF Pool!Revoke, Holdings, Holding, TableShrinks

LEMMA InsertGrants ==
  ASSUME TypeOK, IInv, NEW c \in Conns, BorrowInsert(c)
  PROVE  Pool!Grant
<1>1. PICK n \in Nat \ {0} : n = next_lease_id
  BY DEF TypeOK
<1>2. /\ leases' = leases \cup {n}
      /\ next_lease_id' = n + 1
      /\ leases \subseteq LeaseIds
      /\ n \notin LeaseIds
  BY <1>1 DEF BorrowInsert, TypeOK, LeaseIds
<1>3. PICK p \in Nat, len \in 1 .. SIZE : p = local[c].offset /\ len = local[c].length
  BY DEF TypeOK, Locals, IInv, CandidatesFree, Borrowing, BorrowInsert
<1>4. /\ \A i \in leases : Holding(i)' = Holding(i)
      /\ Holding(n)' = [lease_id |-> n, offset |-> p, length |-> len]
  BY <1>1, <1>2, <1>3 DEF Holding, BorrowInsert, LeaseIds
<1>5. Holdings' = Holdings \cup {[lease_id |-> n, offset |-> p, length |-> len]}
  BY <1>2, <1>4 DEF Holdings
<1>6. /\ p + len <= SIZE
      /\ \A i \in leases : Disjoint(Candidate(c), RegionOf(i))
  BY <1>3 DEF IInv, CandidatesFree, BorrowInsert, Candidate, End
<1>7. FreeAt(p, len, Holdings)
  BY <1>3, <1>6 DEF FreeAt, Holdings, Holding, Disjoint, End, Candidate, RegionOf
<1>8. p \in 0 .. SIZE
  BY <1>6, SizeAssumption
<1>9. Pool!FreeAt(p, len, Holdings)
  BY <1>7 DEF FreeAt, Pool!FreeAt, End, Pool!End
<1>10. /\ (next_lease_id - 1) + 1 = n
       /\ (next_lease_id - 1)' = (next_lease_id - 1) + 1
  BY <1>1, <1>2
<1>11. QED
  BY <1>5, <1>8, <1>9, <1>10 DEF Pool!Grant, Holdings, Holding

(***************************************************************************)
(* The detailed provider implements the abstract pool.                     *)
(***************************************************************************)
THEOREM ProviderImplementsPool == CalmSpec => ImplementsPool
<1>1. Init => Pool!Init
  BY DEF Init, Pool!Init
<1>2. TypeOK /\ IInv /\ [Next]_vars => [Pool!Next]_Pool!poolVars
  BY InsertOrShrink, ShrinkRevokes, InsertGrants DEF Pool!Next
<1>3. QED
  BY <1>1, <1>2, TableInvariant, CalmBehaviours, PTL
  DEF Spec, ImplementsPool, Pool!Spec

-----------------------------------------------------------------------------
(***************************************************************************)
(* One borrower never races with itself, so its leases are disjoint and    *)
(* implement the pool, whatever the other connections send.                *)
(***************************************************************************)
THEOREM OneBorrowerPool ==
  ASSUME OneBorrower
  PROVE  Spec => []TableDisjoint /\ ImplementsPool
<1>1. Init => TypeOK /\ IInv
  BY TypeInit, InitIInv
<1>2. IInv => NoRace
  BY DEF OneBorrower, IInv, BorrowersBorrow, Borrowing, NoRace
<1>3. TypeOK /\ IInv /\ [Next]_vars => TypeOK' /\ IInv'
  BY <1>2, TypeStep, IInvStep
<1>4. Spec => CalmSpec
  BY <1>1, <1>2, <1>3, CalmBehaviours, PTL DEF Spec
<1>5. QED
  BY <1>4, ProviderDisjoint, ProviderImplementsPool, PTL

=============================================================================
