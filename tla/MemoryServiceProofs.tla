------------------------ MODULE MemoryServiceProofs ------------------------
(***************************************************************************)
(* Theorems about MemoryService, for any number of local clients, any      *)
(* buffer, any region, any other borrowers and any loss of the connection. *)
(***************************************************************************)
EXTENDS MemoryService, SequenceTheorems, TLAPS

-----------------------------------------------------------------------------
(***************************************************************************)
(* What an exchange leaves on the socket.  The invariant is Partial: what  *)
(* is unread never holds more than its first header announces, so that the *)
(* next exchange never reads past it into a third reply.                   *)
(***************************************************************************)
Partial(s) ==
    /\ s \in Seq(Units) /\ Len(s) <= 1 + BLOCK
    /\ s # <<>> /\ s[1].kind = "head" => s[1].n >= Len(s) - 1

\* A request of the service, as sent: transfers fit the region.
Sent(w) ==
    /\ w \in [op : {"READ", "WRITE", "KEEPALIVE"}, offset : Nat, length : Nat, base : Nat]
    /\ w.length <= BLOCK

LEMMA BlockNat == BLOCK \in Nat /\ BLOCK > 0 /\ SIZE \in Nat
  BY ServiceAssumption, SizeAssumption

\* The body of a reply: as many bytes as a READ asks for, else none.
LEMMA BodyShape ==
  ASSUME NEW w, Sent(w)
  PROVE  /\ Body(w) \in Seq(Units)
         /\ Len(Body(w)) <= Announced(w)
         /\ Announced(w) \in Nat /\ Announced(w) <= BLOCK
         /\ \A i \in 1 .. Len(Body(w)) : Body(w)[i].kind = "byte"
         /\ w.op = "READ" => Len(Body(w)) = w.length /\ Announced(w) = w.length
<1>1. CASE w.op = "READ"
  <2>1. Body(w) = [i \in 1 .. w.length |-> Byte("READ", w.offset + i - 1)]
    BY <1>1 DEF Body, Bytes
  <2>2. \A i \in 1 .. w.length : Byte("READ", w.offset + i - 1) \in Units
    BY DEF Byte, Units, Sent
  <2>3. Body(w) \in Seq(Units) /\ Len(Body(w)) = w.length
    BY <2>1, <2>2 DEF Sent
  <2>4. \A i \in 1 .. Len(Body(w)) : Body(w)[i].kind = "byte"
    BY <2>1, <2>3 DEF Byte, Sent
  <2> QED
    BY <1>1, <2>3, <2>4, BlockNat DEF Announced, Sent
<1>2. CASE w.op = "WRITE"
  <2>1. Body(w) = <<>> /\ Announced(w) = w.length
    BY <1>2 DEF Body, Announced
  <2> QED
    BY <1>2, <2>1, BlockNat DEF Sent
<1>3. CASE w.op = "KEEPALIVE"
  <2>1. Body(w) = <<>> /\ Announced(w) = 0
    BY <1>3 DEF Body, Announced
  <2> QED
    BY <1>3, <2>1, BlockNat
<1> QED
  BY <1>1, <1>2, <1>3 DEF Sent

\* A reply is its header and then bytes, no more of them than it announces.
LEMMA ReplyShape ==
  ASSUME NEW w, Sent(w)
  PROVE  /\ Reply(w) \in Seq(Units)
         /\ Len(Reply(w)) = 1 + Len(Body(w)) /\ Len(Reply(w)) \in 1 .. 1 + BLOCK
         /\ Reply(w)[1].kind = "head" /\ Reply(w)[1].n = Announced(w)
         /\ \A i \in 2 .. Len(Reply(w)) :
              Reply(w)[i] = Body(w)[i - 1] /\ Reply(w)[i].kind = "byte"
<1> DEFINE h == HeaderUnit(w.op, w.offset, Announced(w))
<1>1. h \in Units /\ h.kind = "head" /\ h.n = Announced(w)
  BY BodyShape DEF HeaderUnit, Units, Sent
<1>2. Reply(w) = <<h>> \o Body(w)
  BY DEF Reply
<1> HIDE DEF h
<1>3. <<h>> \in Seq(Units) /\ Len(<<h>>) = 1 /\ <<h>>[1] = h
  BY <1>1
<1>4. /\ Reply(w) \in Seq(Units) /\ Len(Reply(w)) = 1 + Len(Body(w))
      /\ \A i \in 1 .. Len(Reply(w)) :
           Reply(w)[i] = IF i <= 1 THEN <<h>>[i] ELSE Body(w)[i - 1]
  BY <1>2, <1>3, BodyShape, ConcatProperties
<1>5. Len(Body(w)) \in Nat
  BY BodyShape
<1> QED
  BY <1>1, <1>3, <1>4, <1>5, BodyShape, BlockNat

\* What is left of a reply, from any place on, is Partial.
LEMMA SuffixPartial ==
  ASSUME NEW w, Sent(w), NEW k \in 0 .. Len(Reply(w))
  PROVE  Partial(SubSeq(Reply(w), k + 1, Len(Reply(w))))
<1> DEFINE R == Reply(w)
           s == SubSeq(R, k + 1, Len(R))
<1>1. /\ R \in Seq(Units) /\ Len(R) \in 1 .. 1 + BLOCK
      /\ R[1].n >= Len(R) - 1 /\ \A i \in 2 .. Len(R) : R[i].kind = "byte"
  <2>1. Announced(w) >= Len(Body(w)) /\ Len(R) = 1 + Len(Body(w)) /\ Len(Body(w)) \in Nat
    BY BodyShape, ReplyShape
  <2> QED
    BY <2>1, ReplyShape, BodyShape
<1> HIDE DEF R
<1>2. \A i \in k + 1 .. Len(R) : R[i] \in Units
  BY <1>1
<1>3. k \in 0 .. Len(R)
  BY DEF R
<1>4. /\ s \in Seq(Units) /\ Len(s) = Len(R) - k
      /\ \A i \in 1 .. Len(R) - k : s[i] = R[k + i]
  <2>1. k + 1 \in Int /\ Len(R) \in Int
    BY <1>1, <1>3, BlockNat
  <2>2. /\ s \in Seq(Units) /\ Len(s) = IF k + 1 <= Len(R) THEN Len(R) - (k + 1) + 1 ELSE 0
        /\ \A i \in 1 .. Len(R) - (k + 1) + 1 : s[i] = R[k + 1 + i - 1]
    BY <1>2, <2>1, SubSeqProperties
  <2> QED
    BY <1>1, <1>3, <2>2, BlockNat
<1> HIDE DEF s
<1>5. CASE k = 0
  <2>1. s # <<>> => s[1] = R[1]
    BY <1>1, <1>4, <1>5, BlockNat
  <2> QED
    BY <1>1, <1>4, <1>5, <2>1, BlockNat DEF Partial, s, R
<1>6. CASE k > 0
  <2>1. s # <<>> => s[1] = R[k + 1] /\ k + 1 \in 2 .. Len(R)
    BY <1>1, <1>3, <1>4, <1>6, BlockNat
  <2>2. s # <<>> => s[1].kind = "byte"
    BY <1>1, <2>1
  <2> QED
    BY <1>1, <1>3, <1>4, <2>2, BlockNat DEF Partial, s, R
<1> QED
  BY <1>3, <1>5, <1>6, <1>1, BlockNat

\* A complete exchange takes all that was unread before it, and leaves a part
\* of the reply to its own request.
LEMMA RestPartial ==
  ASSUME NEW s, NEW w, Sent(w), Partial(s), Complete(s \o Reply(w))
  PROVE  Partial(Rest(s \o Reply(w)))
<1> DEFINE R == Reply(w)
           S == s \o R
<1>1. /\ R \in Seq(Units) /\ Len(R) \in 1 .. 1 + BLOCK /\ s \in Seq(Units)
      /\ Len(s) \in Nat
  BY ReplyShape DEF Partial
<1>2. /\ S \in Seq(Units) /\ Len(S) = Len(s) + Len(R)
      /\ \A i \in 1 .. Len(s) + Len(R) : S[i] = IF i <= Len(s) THEN s[i] ELSE R[i - Len(s)]
  BY <1>1, ConcatProperties
<1>3. S # <<>> /\ S[1].kind = "head" /\ Wanted(S) = 1 + S[1].n /\ Len(S) >= 1 + S[1].n
  BY DEF Complete, Wanted
<1>4. PICK n \in Nat : n = S[1].n
  <2>1. 1 \in 1 .. Len(S) /\ S[1] \in Units
    BY <1>1, <1>2, BlockNat
  <2> QED
    BY <2>1 DEF Units
<1>5. n + 1 >= Len(s)
  <2>1. CASE s # <<>>
    <3>1. S[1] = s[1]
      BY <1>1, <1>2, <2>1, BlockNat
    <3>2. s[1].n >= Len(s) - 1
      BY <1>3, <2>1, <3>1 DEF Partial
    <3> QED
      BY <1>1, <1>4, <3>1, <3>2
  <2>2. CASE s = <<>>
    BY <1>4, <2>2
  <2> QED
    BY <2>1, <2>2
<1>6. PICK k \in 0 .. Len(R) : k = n + 1 - Len(s)
  BY <1>1, <1>2, <1>3, <1>4, <1>5, BlockNat
<1>7. PICK a \in Nat, b \in Nat : a = n + 2 /\ b = Len(S)
  BY <1>1, <1>2
<1> HIDE DEF R, S
<1>8. Rest(S) = SubSeq(S, a, b)
  <2>1. Wanted(S) + 1 = a /\ Len(S) = b
    BY <1>3, <1>4, <1>7
  <2> QED
    BY <2>1, Zenon DEF Rest
<1>9. SubSeq(S, a, b) = SubSeq(R, k + 1, Len(R))
  <2>1. CASE k = Len(R)
    <3>1. a > b /\ k + 1 > Len(R) /\ k + 1 \in Int /\ Len(R) \in Int
      BY <1>1, <1>2, <1>6, <1>7, <2>1, BlockNat
    <3> QED
      BY <3>1, SubSeqEmpty
  <2>2. CASE k < Len(R)
    <3>1. /\ a \in Len(s) + 1 .. Len(s) + Len(R) /\ a - Len(s) = k + 1
          /\ b \in Len(s) + 1 .. Len(s) + Len(R) /\ b - Len(s) = Len(R)
      BY <1>1, <1>2, <1>6, <1>7, <2>2, BlockNat
    <3>2. SubSeq(s \o R, a, b) = SubSeq(R, a - Len(s), b - Len(s))
      BY <1>1, <3>1, SubSeqOfConcat2
    <3>3. S = s \o R
      BY DEF S
    <3> QED
      BY <3>1, <3>2, <3>3, Zenon
  <2> QED
    BY <1>1, <1>6, <2>1, <2>2, BlockNat
<1> QED
  BY <1>8, <1>9, SuffixPartial DEF R, S

\* An exchange that breaks off with nothing unread before it leaves a part of
\* the reply to its own request.
LEMMA LeftPartial ==
  ASSUME NEW w, Sent(w), NEW s \in LeftUnread(<<>> \o Reply(w))
  PROVE  Partial(s)
<1>1. <<>> \o Reply(w) = Reply(w)
  BY ReplyShape, ConcatEmptySeq
<1>2. PICK k \in 0 .. Len(Reply(w)) : s = SubSeq(Reply(w), k + 1, Len(Reply(w)))
  BY <1>1 DEF LeftUnread
<1> QED
  BY <1>2, SuffixPartial

\* With nothing unread before it, an exchange takes the body of its own reply.
LEMMA OwnBody ==
  ASSUME NEW w, Sent(w), w.op = "READ", Complete(<<>> \o Reply(w))
  PROVE  TakenBody(<<>> \o Reply(w)) = Body(w)
<1> DEFINE R == Reply(w)
           B == Body(w)
<1>1. /\ R \in Seq(Units) /\ Len(R) = 1 + Len(B) /\ R[1].kind = "head"
      /\ R[1].n = Len(B) /\ Len(B) \in Nat /\ B \in Seq(Units)
      /\ \A i \in 2 .. Len(R) : R[i] = B[i - 1]
  BY ReplyShape, BodyShape
<1>2. <<>> \o R = R
  BY <1>1, ConcatEmptySeq
<1>3. TakenBody(R) = SubSeq(R, 2, 1 + Len(B))
  BY <1>1, <1>2 DEF TakenBody, Wanted, Complete
<1> HIDE DEF R, B
<1> DEFINE T == SubSeq(R, 2, 1 + Len(B))
<1>4. \A i \in 2 .. 1 + Len(B) : R[i] \in Units
  BY <1>1
<1>5. 2 \in Int /\ 1 + Len(B) \in Int
  BY <1>1
<1>6. /\ T \in Seq(Units)
      /\ Len(T) = IF 2 <= 1 + Len(B) THEN 1 + Len(B) - 2 + 1 ELSE 0
      /\ \A i \in 1 .. 1 + Len(B) - 2 + 1 : T[i] = R[2 + i - 1]
  BY <1>4, <1>5, SubSeqProperties
<1> HIDE DEF T
<1>7. Len(T) = Len(B)
  BY <1>1, <1>6
<1>8. \A i \in 1 .. Len(B) : T[i] = B[i]
  BY <1>1, <1>6
<1>9. T = B
  BY <1>1, <1>6, <1>7, <1>8, SeqEqual
<1> QED
  BY <1>2, <1>3, <1>9 DEF T, R, B

\* ... and leaves nothing.
LEMMA OwnRest ==
  ASSUME NEW w, Sent(w), Complete(<<>> \o Reply(w))
  PROVE  Rest(<<>> \o Reply(w)) = <<>>
<1> DEFINE R == Reply(w)
<1>1. /\ R \in Seq(Units) /\ Len(R) = 1 + Len(Body(w)) /\ R[1].kind = "head"
      /\ R[1].n = Announced(w) /\ R # <<>>
  BY ReplyShape, BlockNat
<1>2. <<>> \o R = R
  BY <1>1, ConcatEmptySeq
<1>3. PICK n \in Nat : n = Announced(w) /\ Len(R) <= 1 + n /\ Len(R) \in Nat
  BY <1>1, BodyShape
<1> HIDE DEF R
<1>4. Rest(R) = SubSeq(R, 1 + n + 1, Len(R))
  BY <1>1, <1>3 DEF Rest, Wanted
<1>5. PICK a \in Int : a = 1 + n + 1 /\ a > Len(R)
  BY <1>3
<1>6. SubSeq(R, a, Len(R)) = <<>>
  BY <1>3, <1>5, SubSeqEmpty
<1> QED
  BY <1>2, <1>4, <1>5, <1>6 DEF R

-----------------------------------------------------------------------------
(***************************************************************************)
(* The inductive invariant.  What the four properties need beyond          *)
(* themselves: who holds the lock is in the locked part of its request,    *)
(* and nobody else is; a request that was checked stays in bounds, because *)
(* the region's length never changes again; the request on the wire is the *)
(* holder's, offset from the base it was computed with; and nothing is     *)
(* unread on a socket on which no second try has failed.                   *)
(***************************************************************************)
InLock == {"first", "reconnect", "second"}

LockDiscipline ==
    /\ \A t \in Clients :
         /\ pc[t] \in InLock \cup {"idle", "waiting"}
         /\ pc[t] \in InLock <=> lock = t
    /\ pc[Keeper] \in {"idle", "keepalive"}
    /\ pc[Keeper] = "keepalive" <=> lock = Keeper
    /\ pc[Main] \in {"starting", "serving", "releasing", "released", "exited"}
    /\ pc[Main] = "starting" => lock = Nobody /\ \A t \in Clients : pc[t] = "idle"

Checked(a) == a.op \in {"READ", "WRITE"} /\ a.length > 0 /\ a.offset + a.length <= BLOCK

AskedChecked == \A t \in Clients : pc[t] # "idle" => Checked(asked[t]) /\ length = BLOCK

WireOfHolder ==
    /\ lock \in Clients =>
         /\ wire.op \in {"READ", "WRITE"}
         /\ wire.base <= wire.offset /\ wire.offset + wire.length <= wire.base + BLOCK
    /\ lock = Keeper => wire.op = "KEEPALIVE" /\ wire.length = 0
    /\ lock = Nobody => wire.op = "none"

\* What the lock's holder asks for is what its caller asked for.
WireAsAsked ==
    \A t \in Clients : lock = t =>
      /\ wire.op = asked[t].op /\ wire.length = asked[t].length
      /\ wire.offset = wire.base + asked[t].offset

Socket ==
    /\ pool \subseteq Holding
    /\ sock \in {"none", "open", "lost"}
    /\ Partial(late)
    /\ abandoned \in BOOLEAN
    /\ abandoned \/ late = <<>>
    /\ lease_id \in Ids \cup {0}
    /\ base_offset \in Nat /\ length \in {0, BLOCK}
    /\ sock # "none" => length = BLOCK
    /\ LeaseRecordConsistent

ControlTyped ==
    /\ lock \in Clients \cup {Keeper, Nobody}
    /\ pc \in [Threads -> Places]
    /\ asked \in [Clients -> [op : {"none", "READ", "WRITE"}, offset : Nat, length : Nat]]
    /\ wire \in [op : {"none", "READ", "WRITE", "KEEPALIVE"}, offset : Nat, length : Nat,
                 base : Nat]
    /\ result \in {"none", "own", "other"}
    /\ releasing \in Ids \cup {0}

FreshAtSecond == \A t \in Clients : pc[t] = "second" => sock = "open" /\ late = <<>>

Control == ControlTyped /\ LockDiscipline /\ AskedChecked /\ WireOfHolder /\ WireAsAsked
           /\ FreshAtSecond

Inv == Socket /\ Control

LEMMA ThreadsDiffer ==
  /\ Keeper # Main /\ Keeper # Nobody /\ Main # Nobody
  /\ Keeper \notin Clients /\ Main \notin Clients /\ Nobody \notin Clients
  /\ Keeper \in Threads /\ Main \in Threads /\ Clients \subseteq Threads
<1>1. Keeper # Main /\ Keeper # Nobody /\ Main # Nobody
  BY DEF Keeper, Main, Nobody
<1> QED
  BY <1>1, ServiceAssumption DEF Threads

\* One thread moves.
LEMMA Moves ==
  ASSUME ControlTyped, NEW t \in Threads, NEW place \in Places, Move(t, place)
  PROVE  /\ pc' \in [Threads -> Places] /\ pc'[t] = place
         /\ \A u \in Threads : u # t => pc'[u] = pc[u]
  BY DEF ControlTyped, Move

LEMMA InvInit == Init => Inv
<1> SUFFICES ASSUME Init PROVE Inv
  OBVIOUS
<1>1. Partial(<<>>)
  BY BlockNat DEF Partial
<1>2. Socket
  BY <1>1 DEF Socket, Init, LeaseRecordConsistent
<1>3. ControlTyped
  BY DEF Init, ControlTyped, NoWire, NoAsk, Places
<1>4. \A t \in Threads : t # Main => pc[t] = "idle"
  BY DEF Init
<1>5. LockDiscipline /\ FreshAtSecond /\ AskedChecked
  BY <1>4, ThreadsDiffer DEF Init, LockDiscipline, InLock, FreshAtSecond, AskedChecked
<1>6. WireOfHolder /\ WireAsAsked
  BY ThreadsDiffer DEF Init, WireOfHolder, WireAsAsked, NoWire
<1> QED
  BY <1>2, <1>3, <1>5, <1>6 DEF Inv, Control

-----------------------------------------------------------------------------
(***************************************************************************)
(* What a step does to the socket and the service's record of its lease.   *)
(***************************************************************************)
\* Only the provider's table moves: a lease that is not this service's comes,
\* or leases go.
TableMoves ==
    /\ UNCHANGED service
    /\ \/ pool' \subseteq pool
       \/ \E r \in Holding : r.lease_id # lease_id /\ pool' = pool \cup {r}

\* The socket and the lease are given up.
GivenUp ==
    /\ sock' = "none" /\ late' = <<>> /\ lease_id' = 0 /\ abandoned' \in BOOLEAN
    /\ base_offset' \in {0, base_offset} /\ UNCHANGED <<length, pool>>

\* An exchange ends and the socket stays in use.
Exchanged ==
    /\ sock # "none" /\ sock' \in {"open", "lost"} /\ Partial(late')
    /\ abandoned' \in BOOLEAN /\ (abandoned' \/ late' = <<>>)
    /\ UNCHANGED <<lease_id, base_offset, length, pool>>

LEMMA GrantedHolding ==
  ASSUME Socket, NEW i \in Ids, NEW p \in Cursors(pool), NEW size \in Nat,
         NEW ours \in BOOLEAN, Granted(i, size, p, ours)
  PROVE  /\ p \in Nat
         /\ i # lease_id /\ \A r \in pool : r.lease_id # i
         /\ \E r \in Holding :
              /\ r.lease_id = i /\ r.offset = p /\ r.length = size /\ (ours => r.ours)
              /\ pool' = pool \cup {r}
<1>1. \A r \in pool : r.offset \in Nat /\ r.length \in Nat
  BY DEF Socket, Holding
<1>2. p \in Nat
  BY <1>1 DEF Cursors, End
<1>3. [lease_id |-> i, offset |-> p, length |-> size, ours |-> ours] \in Holding
  BY <1>2 DEF Holding
<1> QED
  BY <1>2, <1>3 DEF Granted, FreeIds

LEMMA BorrowRaisesTable == Socket /\ BorrowRaises => TableMoves
<1> SUFFICES ASSUME Socket, BorrowRaises PROVE TableMoves
  OBVIOUS
<1>1. CASE UNCHANGED pool
  BY <1>1 DEF BorrowRaises, TableMoves
<1>2. CASE \E i \in Ids, p \in Cursors(pool) : Granted(i, BLOCK, p, TRUE)
  <2>1. PICK i \in Ids, p \in Cursors(pool) : Granted(i, BLOCK, p, TRUE)
    BY <1>2
  <2> QED
    BY <2>1, GrantedHolding, BlockNat DEF BorrowRaises, TableMoves
<1> QED
  BY <1>1, <1>2 DEF BorrowRaises

\* While t holds the lock, what is on the wire has the form of a request.
LEMMA HolderSent ==
  ASSUME Inv, NEW t \in Clients \cup {Keeper}, lock = t
  PROVE  Sent(wire)
  BY BlockNat, ThreadsDiffer DEF Inv, Control, WireOfHolder, ControlTyped, Sent

LEMMA HolderHolds ==
  ASSUME Inv
  PROVE  /\ \A t \in Clients : pc[t] \in InLock => lock = t
         /\ pc[Keeper] = "keepalive" => lock = Keeper
  BY DEF Inv, Control, LockDiscipline

LEMMA ReturnsExchanged ==
  ASSUME Inv, NEW t \in Clients \cup {Keeper}, lock = t, Returns, UNCHANGED pool
  PROVE  Exchanged
<1>1. Partial(late')
  BY HolderSent, RestPartial DEF Returns, Stream, Inv, Socket
<1>2. ~abandoned => late' = <<>>
  BY HolderSent, OwnRest DEF Returns, Stream, Inv, Socket
<1> QED
  BY <1>1, <1>2 DEF Returns, Exchanged, Inv, Socket

LEMMA SocketKinds ==
  ASSUME Inv, Next
  PROVE  TableMoves \/ Borrow \/ GivenUp \/ Exchanged
<1> USE DEF Inv, Control
<1>1. CASE OtherBorrows
  <2>1. PICK size \in OtherBlocks, i \in Ids, p \in Cursors(pool) : Granted(i, size, p, FALSE)
    BY <1>1 DEF OtherBorrows
  <2> QED
    BY <1>1, <2>1, GrantedHolding, ServiceAssumption DEF OtherBorrows, TableMoves
<1>2. CASE LeaseEnds
  BY <1>2 DEF LeaseEnds, TableMoves
<1>3. CASE Start
  BY <1>3, BorrowRaisesTable DEF Start
<1>4. CASE ReleaseTake
  BY <1>4 DEF ReleaseTake, GivenUp
<1>5. CASE ReleaseSend
  BY <1>5 DEF ReleaseSend, TableMoves
<1>6. CASE Exit \/ KeepaliveTake
  BY <1>6 DEF Exit, KeepaliveTake, TableMoves
<1>7. CASE KeepaliveDone
  <2>1. lock = Keeper
    BY <1>7, HolderHolds DEF KeepaliveDone
  <2> QED
    BY <1>7, <2>1, ReturnsExchanged DEF KeepaliveDone
<1>8. CASE KeepaliveFails
  BY <1>8 DEF KeepaliveFails, MarkDisconnected, IdAfterLoss, GivenUp
<1>9. ASSUME NEW t \in Clients, Client(t)
      PROVE  TableMoves \/ Borrow \/ GivenUp \/ Exchanged
  <2>1. CASE Ask(t) \/ Take(t)
    BY <2>1 DEF Ask, Take, TableMoves
  <2>2. CASE Done(t)
    <3>1. lock = t
      BY <2>2, HolderHolds DEF Done, InLock
    <3> QED
      BY <2>2, <3>1, ReturnsExchanged DEF Done
  <2>3. CASE FirstFails(t)
    BY <2>3 DEF FirstFails, MarkDisconnected, IdAfterLoss, GivenUp
  <2>4. CASE Reconnect(t)
    BY <2>4, BorrowRaisesTable DEF Reconnect
  <2>5. CASE SecondFails(t)
    <3>1. Sent(wire)
      BY <2>5, HolderHolds, HolderSent DEF SecondFails, InLock
    <3>2. sock = "open" /\ late = <<>>
      BY <2>5 DEF SecondFails, FreshAtSecond
    <3>3. late' = <<>> \/ late' \in LeftUnread(<<>> \o Reply(wire))
      BY <2>5, <3>2, Zenon DEF SecondFails, RaisedLeavingSocket, Stream
    <3>4. Partial(<<>>)
      BY BlockNat DEF Partial
    <3>5. Partial(late')
      BY <3>1, <3>3, <3>4, LeftPartial, Zenon
    <3> QED
      BY <2>5, <3>2, <3>5 DEF SecondFails, RaisedLeavingSocket, Exchanged
  <2> QED
    BY <1>9, <2>1, <2>2, <2>3, <2>4, <2>5 DEF Client, Holder
<1> QED
  BY <1>1, <1>2, <1>3, <1>4, <1>5, <1>6, <1>7, <1>8, <1>9 DEF Next, MainStep, KeeperStep

\* Whatever a step does to the socket, the record of the lease stays true.
LEMMA SocketStep == Inv /\ [Next]_vars => Socket'
<1> SUFFICES ASSUME Inv, [Next]_vars PROVE Socket'
  OBVIOUS
<1> USE DEF Inv, Control
<1>1. CASE TableMoves
  <2>1. pool' \subseteq Holding
    BY <1>1 DEF TableMoves, Socket
  <2>2. LeaseRecordConsistent'
    BY <1>1 DEF TableMoves, Socket, LeaseRecordConsistent, service
  <2> QED
    BY <1>1, <2>1, <2>2 DEF TableMoves, Socket, service
<1>2. CASE Borrow
  <2>1. PICK i \in Ids, p \in Cursors(pool) :
          /\ Granted(i, BLOCK, p, TRUE)
          /\ sock' = "open" /\ late' = <<>> /\ abandoned' = FALSE
          /\ lease_id' = i /\ base_offset' = p /\ length' = BLOCK
    BY <1>2 DEF Borrow
  <2>2. PICK r \in Holding :
          /\ r.lease_id = i /\ r.offset = p /\ r.length = BLOCK /\ r.ours
          /\ pool' = pool \cup {r}
    <3>1. PICK ours \in BOOLEAN : ours = TRUE
      OBVIOUS
    <3>2. Granted(i, BLOCK, p, ours) /\ BLOCK \in Nat
      BY <2>1, <3>1, BlockNat
    <3>3. PICK r \in Holding :
            /\ r.lease_id = i /\ r.offset = p /\ r.length = BLOCK /\ (ours => r.ours)
            /\ pool' = pool \cup {r}
      BY <3>2, GrantedHolding
    <3> QED
      BY <3>1, <3>3
  <2>3. p \in Nat /\ \A q \in pool : q.lease_id # i
    BY <2>1, GrantedHolding, BlockNat
  <2>4. LeaseRecordConsistent'
    BY <2>1, <2>2, <2>3, ServiceAssumption DEF LeaseRecordConsistent
  <2>5. Partial(<<>>)
    BY BlockNat DEF Partial
  <2> QED
    BY <2>1, <2>2, <2>3, <2>4, <2>5 DEF Socket
<1>3. CASE GivenUp
  <2>1. \A r \in pool : r.lease_id # 0
    BY ServiceAssumption DEF Socket, Holding
  <2>2. LeaseRecordConsistent'
    BY <1>3, <2>1 DEF GivenUp, LeaseRecordConsistent
  <2>3. Partial(<<>>)
    BY BlockNat DEF Partial
  <2> QED
    BY <1>3, <2>2, <2>3 DEF GivenUp, Socket
<1>4. CASE Exchanged
  <2>1. LeaseRecordConsistent'
    BY <1>4 DEF Exchanged, Socket, LeaseRecordConsistent
  <2> QED
    BY <1>4, <2>1 DEF Exchanged, Socket
<1>5. CASE UNCHANGED vars
  BY <1>5 DEF vars, Socket, LeaseRecordConsistent, Partial, TableMoves, service
<1> QED
  BY <1>1, <1>2, <1>3, <1>4, <1>5, SocketKinds

\* The length of the region is set once and for all.
LEMMA LengthKept == Inv /\ [Next]_vars => length' = length \/ length' = BLOCK
  BY SocketKinds DEF TableMoves, Borrow, GivenUp, Exchanged, service, vars

-----------------------------------------------------------------------------
(***************************************************************************)
(* What a step does to the threads, by the way they move.                  *)
(***************************************************************************)
LEMMA HolderAlone ==
  ASSUME Inv, NEW t \in Clients \cup {Keeper, Nobody}, lock = t
  PROVE  \A u \in Clients : u # t => pc[u] \in {"idle", "waiting"}
  BY DEF Inv, Control, LockDiscipline

\* A request ends: its thread leaves the lock and its caller goes on.
LEMMA FinishControl ==
  ASSUME Inv, NEW t \in Clients, lock = t, NEW outcome \in {"none", "own", "other"},
         Finish(t, outcome), releasing' = releasing, length' = length \/ length' = BLOCK
  PROVE  Control'
<1> USE DEF Inv, Control
<1>1. /\ pc' \in [Threads -> Places] /\ pc'[t] = "idle"
      /\ \A u \in Threads : u # t => pc'[u] = pc[u]
  BY Moves, ThreadsDiffer DEF Finish, Unlock, Places
<1>2. \A u \in Clients : pc'[u] \in {"idle", "waiting"} /\ (u # t => pc'[u] = pc[u])
  BY <1>1, HolderAlone, ThreadsDiffer
<1>3. /\ lock' = Nobody /\ wire' = NoWire
      /\ asked' = [asked EXCEPT ![t] = NoAsk] /\ result' = outcome
  BY DEF Finish, Unlock
<1>4. ControlTyped'
  BY <1>1, <1>3 DEF ControlTyped, NoWire, NoAsk
<1>5. pc'[Keeper] = "idle" /\ pc'[Main] = pc[Main] /\ pc[Main] # "starting"
  BY <1>1, ThreadsDiffer DEF LockDiscipline
<1>6. LockDiscipline'
  BY <1>2, <1>3, <1>5, ThreadsDiffer DEF LockDiscipline, InLock
<1>7. AskedChecked'
  BY <1>1, <1>2, <1>3 DEF AskedChecked, ControlTyped
<1>8. WireOfHolder' /\ WireAsAsked'
  BY <1>3, ThreadsDiffer DEF WireOfHolder, WireAsAsked, NoWire
<1>9. FreshAtSecond'
  BY <1>2 DEF FreshAtSecond
<1> QED
  BY <1>4, <1>6, <1>7, <1>8, <1>9

\* A request goes on to its next exchange, with the lock and the offset it has.
LEMMA NextTryControl ==
  ASSUME Inv, NEW t \in Clients, lock = t, NEW place \in InLock, Move(t, place),
         place = "second" => sock' = "open" /\ late' = <<>>,
         UNCHANGED <<lock, asked, wire, result, releasing>>,
         length' = length \/ length' = BLOCK
  PROVE  Control'
<1> USE DEF Inv, Control
<1>1. /\ pc' \in [Threads -> Places] /\ pc'[t] = place
      /\ \A u \in Threads : u # t => pc'[u] = pc[u]
  BY Moves, ThreadsDiffer DEF Places, InLock
<1>2. \A u \in Clients : u # t => pc'[u] = pc[u] /\ pc'[u] \in {"idle", "waiting"}
  BY <1>1, HolderAlone, ThreadsDiffer
<1>3. ControlTyped'
  BY <1>1 DEF ControlTyped
<1>4. pc'[Keeper] = pc[Keeper] /\ pc'[Main] = pc[Main] /\ pc[Main] # "starting"
  BY <1>1, ThreadsDiffer DEF LockDiscipline
<1>5. LockDiscipline'
  BY <1>1, <1>2, <1>4, ThreadsDiffer DEF LockDiscipline, InLock
<1>6. AskedChecked'
  <2>1. pc[t] # "idle"
    BY DEF LockDiscipline, InLock
  <2> QED
    BY <1>1, <1>2, <2>1 DEF AskedChecked
<1>7. WireOfHolder' /\ WireAsAsked'
  BY DEF WireOfHolder, WireAsAsked
<1>8. FreshAtSecond'
  BY <1>1, <1>2 DEF FreshAtSecond
<1> QED
  BY <1>3, <1>5, <1>6, <1>7, <1>8

\* A local client asks; only its own place and request change.
LEMMA AskControl ==
  ASSUME Inv, NEW t \in Clients, Ask(t)
  PROVE  Control'
<1> USE DEF Inv, Control
<1>1. /\ pc' \in [Threads -> Places] /\ pc'[t] = "waiting"
      /\ \A u \in Threads : u # t => pc'[u] = pc[u]
  BY Moves, ThreadsDiffer DEF Ask, Places
<1>2. PICK r \in Ranges, op \in {"READ", "WRITE"} :
        /\ InBounds(r[1], r[2])
        /\ asked' = [asked EXCEPT ![t] = [op |-> op, offset |-> r[1], length |-> r[2]]]
  BY DEF Ask
<1>3. /\ r[1] \in Nat /\ r[2] \in Nat /\ r[2] > 0
  BY ServiceAssumption
<1>4. length = BLOCK /\ r[1] + r[2] <= BLOCK
  BY <1>2, <1>3, BlockNat DEF InBounds, Socket
<1>5. UNCHANGED <<lock, wire, result, releasing, sock, late, length>>
  BY DEF Ask, service
<1>6. ControlTyped'
  BY <1>1, <1>2, <1>3, <1>5 DEF ControlTyped
<1>7. pc'[Keeper] = pc[Keeper] /\ pc'[Main] = pc[Main] /\ pc[Main] # "starting"
  BY <1>1, ThreadsDiffer DEF Ask, Running
<1>8. LockDiscipline'
  BY <1>1, <1>5, <1>7, ThreadsDiffer DEF LockDiscipline, InLock, Ask
<1>9. asked'[t] = [op |-> op, offset |-> r[1], length |-> r[2]]
      /\ \A u \in Clients : u # t => asked'[u] = asked[u]
  BY <1>2 DEF ControlTyped
<1>10. Checked(asked'[t])
  BY <1>3, <1>4, <1>9 DEF Checked
<1>11. AskedChecked'
  BY <1>1, <1>4, <1>5, <1>9, <1>10, ThreadsDiffer DEF AskedChecked
<1>12. WireOfHolder' /\ FreshAtSecond'
  BY <1>1, <1>5, ThreadsDiffer DEF WireOfHolder, FreshAtSecond
<1>13. WireAsAsked'
  <2>1. lock # t
    BY DEF Ask, LockDiscipline, InLock
  <2> QED
    BY <1>5, <1>9, <2>1 DEF WireAsAsked
<1> QED
  BY <1>6, <1>8, <1>11, <1>12, <1>13

\* The lock is taken: the range on the wire is the checked one, moved by the
\* base offset of this moment.
LEMMA TakeControl ==
  ASSUME Inv, NEW t \in Clients, Take(t)
  PROVE  Control'
<1> USE DEF Inv, Control
<1>1. /\ pc' \in [Threads -> Places] /\ pc'[t] = "first"
      /\ \A u \in Threads : u # t => pc'[u] = pc[u]
  BY Moves, ThreadsDiffer DEF Take, Places
<1>2. lock = Nobody /\ lock' = t /\ pc[t] = "waiting"
  BY DEF Take
<1>3. wire' = [op |-> asked[t].op, offset |-> base_offset + asked[t].offset,
               length |-> asked[t].length, base |-> base_offset]
  BY DEF Take, Absolute
<1>4. UNCHANGED <<asked, releasing, sock, late, length>> /\ result' = "none"
  BY DEF Take, service
<1>5. /\ asked[t].op \in {"READ", "WRITE"} /\ asked[t].offset \in Nat
      /\ asked[t].length \in Nat /\ asked[t].offset + asked[t].length <= BLOCK
      /\ base_offset \in Nat
  BY <1>2 DEF AskedChecked, Checked, ControlTyped, Socket
<1>6. ControlTyped'
  BY <1>1, <1>2, <1>3, <1>4, <1>5 DEF ControlTyped
<1>7. pc'[Keeper] = pc[Keeper] /\ pc'[Main] = pc[Main] /\ pc[Main] # "starting"
  BY <1>1, ThreadsDiffer DEF Take, Running
<1>8. LockDiscipline'
  BY <1>1, <1>2, <1>7, ThreadsDiffer DEF LockDiscipline, InLock
<1>9. AskedChecked'
  BY <1>1, <1>2, <1>4, ThreadsDiffer DEF AskedChecked
<1>10. /\ wire'.op = asked[t].op /\ wire'.base = base_offset
       /\ wire'.offset = base_offset + asked[t].offset /\ wire'.length = asked[t].length
  BY <1>3
<1>11. WireOfHolder' /\ WireAsAsked'
  <2>1. WireOfHolder'
    BY <1>2, <1>5, <1>10, BlockNat, ThreadsDiffer DEF WireOfHolder
  <2>2. WireAsAsked'
    BY <1>2, <1>4, <1>10 DEF WireAsAsked
  <2> QED
    BY <2>1, <2>2
<1>12. FreshAtSecond'
  BY <1>1, <1>4, ThreadsDiffer DEF FreshAtSecond
<1> QED
  BY <1>6, <1>8, <1>9, <1>11, <1>12

\* The keepalive thread takes the lock, or gives it up again.
LEMMA KeeperControl ==
  ASSUME Inv, KeeperStep, length' = length \/ length' = BLOCK
  PROVE  Control'
<1> USE DEF Inv, Control
<1>1. CASE KeepaliveTake
  <2>1. /\ pc' \in [Threads -> Places] /\ pc'[Keeper] = "keepalive"
        /\ \A u \in Threads : u # Keeper => pc'[u] = pc[u]
    BY <1>1, Moves, ThreadsDiffer DEF KeepaliveTake, Places
  <2>2. /\ lock = Nobody /\ lock' = Keeper
        /\ UNCHANGED <<asked, result, releasing, sock, late, length>>
        /\ wire' = [op |-> "KEEPALIVE", offset |-> lease_id, length |-> 0, base |-> 0]
    BY <1>1 DEF KeepaliveTake, service
  <2>3. \A u \in Clients : pc'[u] = pc[u] /\ pc'[u] \in {"idle", "waiting"}
    BY <2>1, <2>2, HolderAlone, ThreadsDiffer
  <2>4. lease_id \in Nat
    BY ServiceAssumption DEF Socket
  <2>5. ControlTyped'
    BY <2>1, <2>2, <2>4 DEF ControlTyped
  <2>6. pc'[Main] = pc[Main] /\ pc[Main] # "starting"
    BY <1>1, <2>1, ThreadsDiffer DEF KeepaliveTake, Running
  <2>7. LockDiscipline'
    BY <2>1, <2>2, <2>3, <2>6, ThreadsDiffer DEF LockDiscipline, InLock
  <2>8. AskedChecked' /\ FreshAtSecond'
    BY <2>2, <2>3 DEF AskedChecked, FreshAtSecond
  <2>9. WireOfHolder' /\ WireAsAsked'
    BY <2>2, ThreadsDiffer DEF WireOfHolder, WireAsAsked
  <2> QED
    BY <2>5, <2>7, <2>8, <2>9
<1>2. CASE KeepaliveDone \/ KeepaliveFails
  <2>1. /\ pc[Keeper] = "keepalive" /\ Unlock(Keeper, "idle")
        /\ UNCHANGED <<asked, result, releasing>> /\ pc[Main] # "starting"
    BY <1>2 DEF KeepaliveDone, KeepaliveFails, Running
  <2>2. lock = Keeper /\ lock' = Nobody /\ wire' = NoWire
    BY <2>1, HolderHolds DEF Unlock
  <2>3. /\ pc' \in [Threads -> Places] /\ pc'[Keeper] = "idle"
        /\ \A u \in Threads : u # Keeper => pc'[u] = pc[u]
    BY <2>1, Moves, ThreadsDiffer DEF Unlock, Places
  <2>4. \A u \in Clients : pc'[u] = pc[u] /\ pc'[u] \in {"idle", "waiting"}
    BY <2>2, <2>3, HolderAlone, ThreadsDiffer
  <2>5. ControlTyped'
    BY <2>1, <2>2, <2>3 DEF ControlTyped, NoWire
  <2>6. LockDiscipline'
    BY <2>1, <2>2, <2>3, <2>4, ThreadsDiffer DEF LockDiscipline, InLock
  <2>7. AskedChecked' /\ FreshAtSecond'
    BY <2>1, <2>4 DEF AskedChecked, FreshAtSecond
  <2>8. WireOfHolder' /\ WireAsAsked'
    BY <2>2, ThreadsDiffer DEF WireOfHolder, WireAsAsked, NoWire
  <2> QED
    BY <2>5, <2>6, <2>7, <2>8
<1> QED
  BY <1>1, <1>2 DEF KeeperStep

\* main moves on; it changes the socket only while nobody is in the lock.
LEMMA MainControl ==
  ASSUME Inv, MainStep, length' = length \/ length' = BLOCK
  PROVE  Control'
<1> USE DEF Inv, Control
<1>1. PICK place \in {"serving", "exited", "releasing", "released"} : Move(Main, place)
  BY DEF MainStep, Start, ReleaseTake, ReleaseSend, Exit
<1>2. /\ pc' \in [Threads -> Places] /\ pc'[Main] = place
      /\ \A u \in Threads : u # Main => pc'[u] = pc[u]
  BY <1>1, Moves, ThreadsDiffer DEF Places
<1>3. UNCHANGED <<lock, asked, wire, result>> /\ releasing' \in {releasing, lease_id, 0}
  BY DEF MainStep, Start, ReleaseTake, ReleaseSend, Exit
<1>4. \A u \in Clients : pc'[u] = pc[u]
  BY <1>2, ThreadsDiffer
<1>5. ControlTyped'
  BY <1>2, <1>3 DEF ControlTyped, Socket
<1>6. LockDiscipline'
  BY <1>2, <1>3, <1>4, ThreadsDiffer DEF LockDiscipline
<1>7. AskedChecked' /\ WireOfHolder' /\ WireAsAsked'
  BY <1>3, <1>4 DEF AskedChecked, WireOfHolder, WireAsAsked
<1>8. CASE lock = Nobody
  <2>1. \A u \in Clients : pc[u] # "second"
    BY <1>8, HolderAlone, ThreadsDiffer
  <2> QED
    BY <1>4, <1>5, <1>6, <1>7, <2>1 DEF FreshAtSecond
<1>9. CASE lock # Nobody
  <2>1. UNCHANGED service
    BY <1>9, ThreadsDiffer DEF MainStep, Start, ReleaseTake, ReleaseSend, Exit, LockDiscipline
  <2> QED
    BY <1>4, <1>5, <1>6, <1>7, <2>1 DEF FreshAtSecond, service
<1> QED
  BY <1>8, <1>9

LEMMA ControlStep == Inv /\ [Next]_vars => Control'
<1> SUFFICES ASSUME Inv, [Next]_vars PROVE Control'
  OBVIOUS
<1>1. length' = length \/ length' = BLOCK
  BY LengthKept
<1>2. CASE OtherBorrows \/ LeaseEnds \/ UNCHANGED vars
  BY <1>2 DEF OtherBorrows, LeaseEnds, vars, service, Inv, Control, ControlTyped,
    LockDiscipline, AskedChecked, WireOfHolder, WireAsAsked, FreshAtSecond
<1>3. CASE MainStep \/ KeeperStep
  BY <1>1, <1>3, MainControl, KeeperControl
<1>4. ASSUME NEW t \in Clients, Client(t)
      PROVE  Control'
  <2>1. CASE Ask(t) \/ Take(t)
    BY <2>1, AskControl, TakeControl
  <2>2. CASE Holder(t)
    <3>1. lock = t
      BY <2>2, HolderHolds DEF Holder, Done, FirstFails, Reconnect, SecondFails, InLock
    <3>2. CASE Done(t)
      <4>1. PICK outcome \in {"none", "own", "other"} : Finish(t, outcome)
        BY <3>2 DEF Done, Outcome
      <4> QED
        BY <1>1, <3>1, <3>2, <4>1, FinishControl DEF Done
    <3>3. CASE FirstFails(t)
      BY <1>1, <3>1, <3>3, NextTryControl DEF FirstFails, AfterFirst, TriesAgain, InLock
    <3>4. CASE Reconnect(t)
      <4>1. CASE Borrow /\ Move(t, "second") /\ UNCHANGED <<lock, asked, wire, result>>
        BY <1>1, <3>1, <3>4, <4>1, NextTryControl DEF Reconnect, Borrow, InLock
      <4>2. CASE Finish(t, "none")
        BY <1>1, <3>1, <3>4, <4>2, FinishControl DEF Reconnect
      <4> QED
        BY <3>4, <4>1, <4>2 DEF Reconnect
    <3>5. CASE SecondFails(t)
      BY <1>1, <3>1, <3>5, FinishControl DEF SecondFails
    <3> QED
      BY <2>2, <3>2, <3>3, <3>4, <3>5 DEF Holder
  <2> QED
    BY <1>4, <2>1, <2>2 DEF Client
<1> QED
  BY <1>2, <1>3, <1>4 DEF Next

LEMMA ServiceInvariant == Spec => []Inv
<1>1. Inv /\ [Next]_vars => Inv'
  BY SocketStep, ControlStep DEF Inv
<1> QED
  BY <1>1, InvInit, PTL DEF Spec

-----------------------------------------------------------------------------
(***************************************************************************)
(* Every variable keeps its type; what is unread on the socket is never    *)
(* more than one reply (ramlink_memory_service.py:41-46, 127-133).         *)
(***************************************************************************)
THEOREM ServiceTypeCorrect == Spec => []TypeOK
<1>1. Inv => TypeOK
  BY DEF Inv, Control, Socket, ControlTyped, TypeOK, Partial
<1> QED
  BY <1>1, ServiceInvariant, PTL

(***************************************************************************)
(* The service's record of its lease is the provider's for as long as the  *)
(* provider has the lease: through every failure, reconnect, keepalive and *)
(* release, with any number of clients and other borrowers                 *)
(* (ramlink_memory_service.py:83-93, 99-125, 193-198).                     *)
(***************************************************************************)
THEOREM ServiceRecordConsistent == Spec => []LeaseRecordConsistent
<1>1. Inv => LeaseRecordConsistent
  BY DEF Inv, Socket
<1> QED
  BY <1>1, ServiceInvariant, PTL

(***************************************************************************)
(* A request leaves the borrowed region in one case only: the region moved *)
(* between the two tries, and the second sends the offset of the first     *)
(* (ramlink_memory_service.py:127-133, 148-155, 163-172).  Nothing else,   *)
(* whatever the interleaving, breaks the range check made without the lock.*)
(***************************************************************************)
THEOREM ServiceStaysInRegion == Spec => []OutsideOnlyWhenRegionMoved
<1>1. Inv => OutsideOnlyWhenRegionMoved
  <2> SUFFICES ASSUME Inv, Accessing, wire.base = base_offset PROVE Inside(wire)
    BY DEF OutsideOnlyWhenRegionMoved
  <2>1. length = BLOCK
    BY DEF Accessing, Inv, Socket
  <2>2. lock \in Clients
    BY ThreadsDiffer DEF Accessing, Inv, Control, ControlTyped, WireOfHolder
  <2> QED
    BY <2>1, <2>2 DEF Inside, Inv, Control, WireOfHolder
<1> QED
  BY <1>1, ServiceInvariant, PTL

\* An exchange that begins with nothing unread, at the base offset that the
\* range was computed with, gives a READ its own bytes.
LEMMA FreshOutcome ==
  ASSUME Inv, NEW t \in Clients, lock = t, ~abandoned, wire.base = base_offset,
         Complete(Stream)
  PROVE  Outcome(t, TakenBody(Stream)) # "other"
<1>1. late = <<>>
  BY DEF Inv, Socket
<1>2. Sent(wire) /\ wire.op \in {"READ", "WRITE"}
  BY HolderSent DEF Inv, Control, WireOfHolder
<1>3. Stream = <<>> \o Reply(wire)
  BY <1>1 DEF Stream
<1>4. CASE wire.op = "READ"
  <2>1. TakenBody(Stream) = Body(wire)
    BY <1>2, <1>3, <1>4, OwnBody, Zenon
  <2>2. Body(wire) = Bytes("READ", wire.offset, wire.length)
    BY <1>4 DEF Body
  <2>3. wire.length = asked[t].length /\ wire.offset = base_offset + asked[t].offset
    BY DEF Inv, Control, WireAsAsked
  <2>4. Body(wire) = OwnBytes(t)
    BY <2>2, <2>3 DEF OwnBytes, Absolute
  <2> HIDE DEF Stream
  <2> QED
    BY <1>4, <2>1, <2>4, Zenon DEF Outcome
<1>5. CASE wire.op = "WRITE"
  BY <1>5 DEF Outcome
<1> QED
  BY <1>2, <1>4, <1>5

LEMMA AnswerStep ==
  ASSUME Inv, [Next]_vars, NEW t \in Clients, pc[t] \in {"first", "second"},
         pc'[t] = "idle", result' = "other"
  PROVE  abandoned \/ wire.base # base_offset
<1> USE DEF Inv, Control
<1>1. lock = t /\ \A u \in Clients : u # t => pc[u] \in {"idle", "waiting"}
  BY HolderHolds, HolderAlone DEF InLock
<1>2. \A u \in Threads : u # t /\ (\E place : Move(u, place)) => pc'[t] = pc[t]
  BY ThreadsDiffer DEF Move, ControlTyped
<1>3. ~MainStep /\ ~KeeperStep
  <2>1. ~MainStep
    BY <1>2, ThreadsDiffer DEF MainStep, Start, ReleaseTake, ReleaseSend, Exit
  <2>2. ~KeeperStep
    BY <1>2, ThreadsDiffer DEF KeeperStep, KeepaliveTake, KeepaliveDone, KeepaliveFails, Unlock
  <2> QED
    BY <2>1, <2>2
<1>4. ~(OtherBorrows \/ LeaseEnds \/ UNCHANGED vars)
  BY DEF OtherBorrows, LeaseEnds, vars
<1>5. \A u \in Clients : Client(u) => u = t
  <2> SUFFICES ASSUME NEW u \in Clients, Client(u), u # t PROVE FALSE
    OBVIOUS
  <2>1. pc[u] \in {"idle", "waiting"} /\ lock # Nobody
    BY <1>1, ThreadsDiffer
  <2>2. Ask(u)
    BY <2>1 DEF Client, Take, Holder, Done, FirstFails, Reconnect, SecondFails
  <2> QED
    BY <1>2, <2>2, ThreadsDiffer DEF Ask
<1>6. Client(t)
  BY <1>3, <1>4, <1>5 DEF Next
<1>7. ~FirstFails(t)
  BY Moves, ThreadsDiffer DEF FirstFails, AfterFirst, TriesAgain, Places
<1>8. Done(t) \/ SecondFails(t)
  BY <1>6, <1>7 DEF Client, Ask, Take, Holder, Reconnect
<1>9. CASE Done(t)
  BY <1>1, <1>9, FreshOutcome DEF Done, Returns, Finish
<1>10. CASE SecondFails(t)
  BY <1>10 DEF SecondFails, Finish
<1> QED
  BY <1>8, <1>9, <1>10

(***************************************************************************)
(* A READ returns the bytes of its own range of the region now borrowed,   *)
(* unless the region moved between its two tries or a second try has       *)
(* failed before on the same socket, whatever the keepalive thread and the *)
(* other clients do (ramlink_memory_service.py:41-46, 99-109, 127-145,     *)
(* 152-157).                                                               *)
(***************************************************************************)
THEOREM ServiceOtherBytesForAReason == Spec => OtherBytesForAReason
<1>1. Inv /\ [Next]_vars =>
        [\A t \in Clients :
           pc[t] \in {"first", "second"} /\ pc'[t] = "idle" /\ result' = "other" =>
             abandoned \/ wire.base # base_offset]_vars
  BY AnswerStep
<1> QED
  BY <1>1, ServiceInvariant, PTL DEF Spec, OtherBytesForAReason

-----------------------------------------------------------------------------
(***************************************************************************)
(* The lock.  Whoever holds it makes an exchange, at most one reconnect    *)
(* and at most one more exchange, and until then no step of anyone else    *)
(* touches the socket or the lease: the keepalive thread, the release of   *)
(* main and the other clients wait for it.  LockReleased needs no more     *)
(* than that every exchange ends (ramlink_memory_service.py:111-125,       *)
(* 127-133, 135-145, 193-198).                                             *)
(***************************************************************************)
\* The exchanges with the provider that the holder of the lock may still make.
Exchanges ==
    CASE lock = Nobody             -> 0
      [] lock = Keeper             -> 1
      [] lock \notin {Nobody, Keeper} ->
           IF pc[lock] = "first" THEN 3 ELSE IF pc[lock] = "reconnect" THEN 2 ELSE 1

\* A step of the holder, and a step of anyone else.
Advances == Exchanges' < Exchanges /\ lock' \in {lock, Nobody}

Waits == UNCHANGED <<service, lock, Exchanges>>

LockAdvances == [][lock # Nobody => Advances \/ Waits]_vars

\* A client in the lock has an exchange to make; nothing is left without it.
LEMMA ExchangesOf ==
  ASSUME Inv
  PROVE  /\ lock = Keeper => Exchanges = 1
         /\ \A t \in Clients : lock = t =>
              /\ pc[t] \in InLock
              /\ Exchanges = IF pc[t] = "first" THEN 3 ELSE IF pc[t] = "reconnect" THEN 2 ELSE 1
<1>1. \A t \in Clients : lock = t => pc[t] \in InLock
  BY DEF Inv, Control, LockDiscipline
<1> QED
  BY <1>1, ThreadsDiffer DEF Exchanges

\* A request that ends leaves nothing to exchange.
LEMMA UnlockAdvances ==
  ASSUME Inv, NEW t \in Clients \cup {Keeper}, lock = t, lock' = Nobody
  PROVE  Advances
<1>1. Exchanges' = 0
  BY ThreadsDiffer DEF Exchanges
<1>2. Exchanges \in {1, 2, 3}
  BY ExchangesOf
<1> QED
  BY <1>1, <1>2 DEF Advances

\* The holder's next try is one exchange less.
LEMMA MoveAdvances ==
  ASSUME Inv, NEW t \in Clients, lock = t, UNCHANGED lock,
         \/ pc[t] = "first" /\ Move(t, "reconnect")
         \/ pc[t] = "reconnect" /\ Move(t, "second")
  PROVE  Advances
<1>1. \/ pc[t] = "first" /\ pc'[t] = "reconnect"
      \/ pc[t] = "reconnect" /\ pc'[t] = "second"
  BY Moves, ThreadsDiffer DEF Inv, Control, Places
<1>2. lock' = t /\ t \notin {Nobody, Keeper}
  BY ThreadsDiffer
<1>3. Exchanges' = IF pc'[t] = "first" THEN 3 ELSE IF pc'[t] = "reconnect" THEN 2 ELSE 1
  BY <1>2 DEF Exchanges
<1> QED
  BY <1>1, <1>3, ExchangesOf DEF Advances

\* A step that leaves the holder and the socket alone.
LEMMA OthersWait ==
  ASSUME UNCHANGED <<service, lock>>, lock \in Threads => pc'[lock] = pc[lock],
         lock \in Clients \cup {Keeper, Nobody}
  PROVE  Waits
<1>1. lock # Nobody => lock \in Threads
  BY ThreadsDiffer
<1>2. Exchanges' = Exchanges
  BY <1>1 DEF Exchanges
<1> QED
  BY <1>2 DEF Waits

\* The client that holds the lock.
LEMMA HolderAdvances ==
  ASSUME Inv, NEW t \in Clients, Holder(t)
  PROVE  lock = t /\ Advances
<1>1. lock = t
  BY HolderHolds DEF Holder, Done, FirstFails, Reconnect, SecondFails, InLock
<1>2. CASE Done(t)
  <2>1. lock' = Nobody
    BY <1>2 DEF Done, Finish, Unlock
  <2> QED
    BY <1>1, <2>1, UnlockAdvances
<1>3. CASE FirstFails(t)
  BY <1>1, <1>3, MoveAdvances DEF FirstFails, AfterFirst, TriesAgain
<1>4. CASE Reconnect(t)
  <2>1. CASE Move(t, "second") /\ UNCHANGED lock
    BY <1>1, <1>4, <2>1, MoveAdvances DEF Reconnect
  <2>2. CASE Finish(t, "none")
    BY <1>1, <2>2, UnlockAdvances DEF Finish, Unlock
  <2> QED
    BY <1>4, <2>1, <2>2 DEF Reconnect
<1>5. CASE SecondFails(t)
  BY <1>1, <1>5, UnlockAdvances DEF SecondFails, Finish, Unlock
<1> QED
  BY <1>1, <1>2, <1>3, <1>4, <1>5 DEF Holder

LEMMA LockStep ==
  ASSUME Inv, [Next]_vars, lock # Nobody
  PROVE  Advances \/ Waits
<1> USE DEF Inv, Control
<1>1. lock \in Clients \cup {Keeper, Nobody}
  BY DEF ControlTyped
<1>2. ASSUME NEW u \in Threads, NEW place \in Places, Move(u, place), u # lock,
             UNCHANGED <<service, lock>>
      PROVE  Waits
  BY <1>1, <1>2, Moves, OthersWait
<1>3. CASE OtherBorrows \/ LeaseEnds \/ UNCHANGED vars
  <2>1. UNCHANGED <<service, lock>> /\ pc' = pc
    BY <1>3 DEF OtherBorrows, LeaseEnds, vars, service
  <2> QED
    BY <1>1, <2>1, OthersWait
<1>4. CASE MainStep
  <2>1. ReleaseSend \/ Exit
    BY <1>4 DEF MainStep, Start, ReleaseTake, LockDiscipline
  <2>2. UNCHANGED <<service, lock>> /\ \E place \in Places : Move(Main, place)
    BY <2>1 DEF ReleaseSend, Exit, Places
  <2>3. Main # lock
    BY <1>1, ThreadsDiffer
  <2> QED
    BY <1>2, <2>2, <2>3, ThreadsDiffer
<1>5. CASE KeeperStep
  <2>1. KeepaliveDone \/ KeepaliveFails
    BY <1>5 DEF KeeperStep, KeepaliveTake
  <2>2. lock = Keeper /\ lock' = Nobody
    BY <2>1, HolderHolds DEF KeepaliveDone, KeepaliveFails, Unlock
  <2> QED
    BY <2>2, UnlockAdvances
<1>6. ASSUME NEW t \in Clients, Client(t)
      PROVE  Advances \/ Waits
  <2>1. CASE Ask(t)
    <3>1. UNCHANGED <<service, lock>> /\ Move(t, "waiting") /\ pc[t] = "idle"
      BY <2>1 DEF Ask
    <3>2. t # lock
      BY <3>1, ExchangesOf DEF InLock
    <3>3. "waiting" \in Places
      BY DEF Places
    <3> QED
      BY <1>2, <3>1, <3>2, <3>3, ThreadsDiffer
  <2>2. CASE Holder(t)
    BY <2>2, HolderAdvances
  <2> QED
    BY <1>6, <2>1, <2>2 DEF Client, Take
<1> QED
  BY <1>3, <1>4, <1>5, <1>6 DEF Next

\* Every request gives the lock up after at most three exchanges, in which
\* nobody else has the socket (ramlink_memory_service.py:111-145, 193-198).
THEOREM ServiceLockAdvances == Spec => LockAdvances
<1>1. Inv /\ [Next]_vars => [lock # Nobody => Advances \/ Waits]_vars
  BY LockStep
<1> QED
  BY <1>1, ServiceInvariant, PTL DEF Spec, LockAdvances

=============================================================================
