------------------------- MODULE AndroidCacheProofs -------------------------
(***************************************************************************)
(* Theorems about AndroidCache: for any page size, remote size and         *)
(* capacity, any data, and any loss of replies, connection and lease.      *)
(***************************************************************************)
EXTENDS AndroidCache, FiniteSetTheorems, SequenceTheorems, TLAPS

-----------------------------------------------------------------------------
\* The arithmetic of pages.

PageNumbers == 0 .. (RemoteSize \div PAGE) - 1

LEMMA Sizes0 == PAGE \in Nat /\ PAGE > 0 /\ RemoteSize \in Nat /\ RemoteSize > 0
  BY AndroidCacheAssumption

LEMMA DivMod ==
  ASSUME NEW b \in Nat
  PROVE  /\ b \div PAGE \in Nat /\ b % PAGE \in 0 .. PAGE - 1
         /\ b = (b \div PAGE) * PAGE + (b % PAGE)
  BY Sizes0, Z3

LEMMA ModDiv ==
  ASSUME NEW p \in Nat, NEW i \in 0 .. PAGE - 1
  PROVE  (p * PAGE + i) \div PAGE = p /\ (p * PAGE + i) % PAGE = i
  BY Sizes0, Z3

\* Multiplication by the page size keeps the order.
LEMMA Scale ==
  ASSUME NEW p \in Nat, NEW q \in Nat
  PROVE  /\ p * PAGE \in Nat
         /\ p <= q => p * PAGE <= q * PAGE
         /\ p < q => p * PAGE + PAGE <= q * PAGE
  BY Sizes0, Z3

\* The remote memory is made of whole pages.
LEMMA WholePages ==
  \E n \in Nat : n = RemoteSize \div PAGE /\ RemoteSize = n * PAGE
<1>1. /\ RemoteSize \div PAGE \in Nat /\ RemoteSize % PAGE = 0
      /\ RemoteSize = (RemoteSize \div PAGE) * PAGE + (RemoteSize % PAGE)
  BY Sizes0, DivMod, AndroidCacheAssumption
<1>2. PICK n \in Nat : n = RemoteSize \div PAGE
  BY <1>1
<1>3. n * PAGE \in Nat
  BY <1>2, Scale
<1>4. RemoteSize = n * PAGE
  BY <1>1, <1>2, <1>3
<1> QED
  BY <1>2, <1>4

\* A byte of the remote memory is a byte of a page, ...
LEMMA PageOfByte ==
  ASSUME NEW b \in Addresses
  PROVE  /\ b \div PAGE \in PageNumbers
         /\ b % PAGE \in 0 .. PAGE - 1
         /\ (b \div PAGE) * PAGE + (b % PAGE) = b
<1>1. b \in Nat /\ b < RemoteSize
  BY Sizes0 DEF Addresses
<1> DEFINE q == b \div PAGE
           i == b % PAGE
<1>2. q \in Nat /\ i \in 0 .. PAGE - 1 /\ b = q * PAGE + i
  BY <1>1, DivMod
<1>3. PICK n \in Nat : n = RemoteSize \div PAGE /\ RemoteSize = n * PAGE
  BY WholePages
<1> HIDE DEF q, i
<1>4. q < n
  <2> SUFFICES ASSUME n <= q PROVE FALSE
    BY <1>2, <1>3
  <2>1. n * PAGE <= q * PAGE /\ n * PAGE \in Nat /\ q * PAGE \in Nat
    BY <1>2, <1>3, Scale
  <2> QED
    BY <1>1, <1>2, <1>3, <2>1, Sizes0
<1>5. q \in PageNumbers
  BY <1>2, <1>3, <1>4 DEF PageNumbers
<1> QED
  BY <1>2, <1>5 DEF q, i

\* ... and a byte of a page is one of the remote memory.
LEMMA ByteOfPage ==
  ASSUME NEW p \in PageNumbers, NEW i \in 0 .. PAGE - 1
  PROVE  /\ p \in Nat /\ p * PAGE + i \in Addresses
         /\ (p * PAGE + i) \div PAGE = p /\ (p * PAGE + i) % PAGE = i
<1>1. PICK n \in Nat : n = RemoteSize \div PAGE /\ RemoteSize = n * PAGE
  BY WholePages
<1>2. p \in Nat /\ p < n
  BY <1>1 DEF PageNumbers
<1>3. p * PAGE \in Nat /\ p * PAGE + PAGE <= RemoteSize
  BY <1>1, <1>2, Scale
<1>4. p * PAGE + i \in Addresses
  BY <1>3, Sizes0 DEF Addresses
<1> QED
  BY <1>2, <1>4, ModDiv

-----------------------------------------------------------------------------
(***************************************************************************)
(* The OrderedDict: a list of the cached pages, each of them once.         *)
(***************************************************************************)
Lists(o, S) ==
    /\ o \in Seq(PageNumbers)
    /\ \A i, j \in 1 .. Len(o) : o[i] = o[j] => i = j
    /\ \A p : p \in S <=> \E i \in 1 .. Len(o) : o[i] = p

LEMMA ListsCardinality ==
  ASSUME NEW o, NEW S, Lists(o, S)
  PROVE  IsFiniteSet(S) /\ Cardinality(S) = Len(o)
<1>1. Len(o) \in Nat /\ o \in [1 .. Len(o) -> S]
  BY DEF Lists
<1>2. o \in Bijection(1 .. Len(o), S)
  BY <1>1 DEF Lists, Bijection, Injection, Surjection, IsInjective
<1>3. ExistsBijection(1 .. Len(o), S)
  BY <1>2 DEF ExistsBijection
<1>4. IsFiniteSet(1 .. Len(o)) /\ Cardinality(1 .. Len(o)) = Len(o)
  BY <1>1, FS_Interval
<1> QED
  BY <1>3, <1>4, FS_Bijection

LEMMA ListsAppend ==
  ASSUME NEW o, NEW S, Lists(o, S), NEW p \in PageNumbers, p \notin S
  PROVE  Lists(Append(o, p), S \cup {p}) /\ Len(Append(o, p)) = Len(o) + 1
<1>1. o \in Seq(PageNumbers) /\ Len(o) \in Nat
  BY DEF Lists
<1>2. /\ Append(o, p) \in Seq(PageNumbers) /\ Len(Append(o, p)) = Len(o) + 1
      /\ \A i \in 1 .. Len(o) : Append(o, p)[i] = o[i]
      /\ Append(o, p)[Len(o) + 1] = p
  BY <1>1, AppendProperties
<1> DEFINE a == Append(o, p)
<1> HIDE DEF a
<1>3. \A i \in 1 .. Len(o) : o[i] # p
  BY DEF Lists
<1>4. \A i \in 1 .. Len(a) : i \in 1 .. Len(o) \/ i = Len(o) + 1
  BY <1>1, <1>2 DEF a
<1>5. \A i, j \in 1 .. Len(a) : a[i] = a[j] => i = j
  BY <1>2, <1>3, <1>4 DEF Lists, a
<1>6. \A q : q \in S \cup {p} <=> \E i \in 1 .. Len(a) : a[i] = q
  BY <1>1, <1>2, <1>4 DEF Lists, a
<1> QED
  BY <1>2, <1>5, <1>6 DEF Lists, a

\* One entry is cut out.
LEMMA ListsCut ==
  ASSUME NEW o, NEW S, Lists(o, S), NEW k \in 1 .. Len(o)
  PROVE  /\ Lists(SubSeq(o, 1, k - 1) \o SubSeq(o, k + 1, Len(o)), S \ {o[k]})
         /\ Len(SubSeq(o, 1, k - 1) \o SubSeq(o, k + 1, Len(o))) = Len(o) - 1
<1> DEFINE n == Len(o)
           u == SubSeq(o, 1, k - 1)
           v == SubSeq(o, k + 1, n)
           cut == u \o v
<1>1. o \in Seq(PageNumbers) /\ n \in Nat /\ \A i \in 1 .. n : o[i] \in PageNumbers
  BY DEF Lists
<1>2. /\ u \in Seq(PageNumbers) /\ Len(u) = k - 1
      /\ \A i \in 1 .. k - 1 : u[i] = o[i]
  <2>1. \A i \in 1 .. k - 1 : o[i] \in PageNumbers
    BY <1>1
  <2>2. 1 \in Int /\ k - 1 \in Int
    OBVIOUS
  <2>3. /\ u \in Seq(PageNumbers) /\ Len(u) = IF 1 <= k - 1 THEN k - 1 - 1 + 1 ELSE 0
        /\ \A i \in 1 .. k - 1 - 1 + 1 : u[i] = o[1 + i - 1]
    BY <2>1, <2>2, SubSeqProperties
  <2> QED
    BY <1>1, <2>3
<1>3. /\ v \in Seq(PageNumbers) /\ Len(v) = n - k
      /\ \A i \in 1 .. n - k : v[i] = o[k + i]
  <2>1. \A i \in k + 1 .. n : o[i] \in PageNumbers
    BY <1>1
  <2>2. k + 1 \in Int /\ n \in Int
    BY <1>1
  <2>3. /\ v \in Seq(PageNumbers) /\ Len(v) = IF k + 1 <= n THEN n - (k + 1) + 1 ELSE 0
        /\ \A i \in 1 .. n - (k + 1) + 1 : v[i] = o[k + 1 + i - 1]
    BY <2>1, <2>2, SubSeqProperties
  <2> QED
    BY <1>1, <2>3
<1> HIDE DEF u, v
<1>4. /\ cut \in Seq(PageNumbers) /\ Len(cut) = Len(u) + Len(v)
      /\ \A i \in 1 .. Len(u) + Len(v) : cut[i] = IF i <= Len(u) THEN u[i] ELSE v[i - Len(u)]
  BY <1>2, <1>3, ConcatProperties
<1> HIDE DEF cut
<1>5. Len(cut) = n - 1
  BY <1>1, <1>2, <1>3, <1>4
<1>6. \A i \in 1 .. n - 1 : cut[i] = IF i < k THEN o[i] ELSE o[i + 1]
  <2> SUFFICES ASSUME NEW i \in 1 .. n - 1
               PROVE  cut[i] = IF i < k THEN o[i] ELSE o[i + 1]
    OBVIOUS
  <2>1. CASE i < k
    <3>1. i \in 1 .. Len(u) + Len(v) /\ i <= Len(u) /\ i \in 1 .. k - 1
      BY <1>1, <1>2, <1>3, <2>1
    <3>2. cut[i] = u[i]
      BY <1>4, <3>1
    <3> QED
      BY <1>2, <2>1, <3>1, <3>2
  <2>2. CASE ~(i < k)
    <3>1. PICK j \in 1 .. n - k : j = i - (k - 1) /\ k + j = i + 1
      BY <1>1, <2>2
    <3>2. i \in 1 .. Len(u) + Len(v) /\ ~(i <= Len(u)) /\ i - Len(u) = j
      BY <1>1, <1>2, <1>3, <2>2, <3>1
    <3>3. cut[i] = v[j]
      BY <1>4, <3>2
    <3>4. v[j] = o[k + j]
      BY <1>3
    <3> QED
      BY <2>2, <3>1, <3>3, <3>4
  <2> QED
    BY <2>1, <2>2
<1>7. \A i, j \in 1 .. n - 1 : cut[i] = cut[j] => i = j
  BY <1>1, <1>6 DEF Lists, n
<1>8. ASSUME NEW q
      PROVE  q \in S \ {o[k]} <=> \E i \in 1 .. n - 1 : cut[i] = q
  <2>1. ASSUME q \in S, q # o[k]
        PROVE  \E i \in 1 .. n - 1 : cut[i] = q
    <3>1. PICK j \in 1 .. n : o[j] = q
      BY <2>1 DEF Lists, n
    <3>2. CASE j < k
      BY <1>1, <1>6, <3>1, <3>2 DEF n
    <3>3. CASE j > k
      <4>1. j - 1 \in 1 .. n - 1 /\ ~(j - 1 < k) /\ j - 1 + 1 = j
        BY <1>1, <3>3
      <4> QED
        BY <1>6, <3>1, <4>1
    <3> QED
      BY <1>1, <2>1, <3>1, <3>2, <3>3
  <2>2. ASSUME NEW i \in 1 .. n - 1, cut[i] = q
        PROVE  q \in S /\ q # o[k]
    <3>1. PICK j \in 1 .. n : j # k /\ o[j] = q
      BY <1>1, <1>6, <2>2
    <3> QED
      BY <3>1 DEF Lists, n
  <2> QED
    BY <2>1, <2>2
<1> QED
  BY <1>4, <1>5, <1>7, <1>8 DEF Lists, n, cut, u, v

-----------------------------------------------------------------------------
(***************************************************************************)
(* The inductive invariant.  Shape holds whatever becomes of the lease and *)
(* the connection.  Honest says what the cache and the socket hold while   *)
(* the lease lasts and no reply was late: no write gets past its first     *)
(* page, because its reply announces bytes that never come, and what a     *)
(* read has gathered is what the array holds.                              *)
(***************************************************************************)
Requests ==
    [kind : {"idle", "read", "write"}, offset : Nat, length : Nat, data : Seq(Values)]

RequestOK ==
    /\ request \in Requests
    /\ request.offset + request.length <= RemoteSize
    /\ request.kind = "write" => Len(request.data) = request.length
    /\ request.kind # "write" => request.data = <<>>
    /\ request.kind = "idle" => request = Store!Idle
    /\ done \in 0 .. request.length

OrderOK ==
    /\ Lists(order, DOMAIN pages) /\ Len(order) <= Capacity

Shape == RequestOK /\ OrderOK

PageOK(cached) == cached \in [0 .. PAGE - 1 -> Values]

PagesOK ==
    /\ remote \in [Addresses -> Values]
    /\ \A p \in DOMAIN pages : PageOK(pages[p])
    /\ sock = "open" => \A p \in DOMAIN pages : pages[p] = PageOf(remote, p)

SoFar ==
    /\ request.kind = "write" => done = 0
    /\ request.kind # "read" => out = <<>>
    /\ out \in Seq(Values)
    /\ request.kind = "read" =>
         Len(out) = done /\ \A k \in 1 .. done : out[k] = contents[request.offset + k - 1]

Honest == Undisturbed => late = <<>> /\ PagesOK /\ SoFar

Inv == Shape /\ Honest

\* A lease that ended and a reply that was late are never undone.
LEMMA UndisturbedBefore == [Next]_vars /\ Undisturbed' => Undisturbed
  BY DEF Next, LeaseEnds, OtherBorrows, StartRead, StartWrite, Start, Step, LoadPage,
     LoadRaises, ReadPage, WritePage, WriteRaises, Return, Close, Returns, Raises, Undisturbed,
     vars

-----------------------------------------------------------------------------
\* The order of eviction.

LEMMA CachedNumbers == OrderOK => DOMAIN pages \subseteq PageNumbers
  BY DEF OrderOK, Lists

\* A cached page becomes the most recently used one.
LEMMA UsedOrder ==
  ASSUME OrderOK, NEW p \in DOMAIN pages
  PROVE  /\ Lists(Append(Remaining(p), p), DOMAIN pages)
         /\ Len(Append(Remaining(p), p)) = Len(order)
<1>1. DOMAIN order = 1 .. Len(order) /\ Len(order) \in Nat /\ Lists(order, DOMAIN pages)
  BY DEF OrderOK, Lists
<1> DEFINE k == CHOOSE j \in DOMAIN order : order[j] = p
<1>2. k \in 1 .. Len(order) /\ order[k] = p
  BY <1>1 DEF Lists
<1>3. Remaining(p) = SubSeq(order, 1, k - 1) \o SubSeq(order, k + 1, Len(order))
  BY DEF Remaining
<1> HIDE DEF k
<1>4. Lists(Remaining(p), DOMAIN pages \ {p}) /\ Len(Remaining(p)) = Len(order) - 1
  <2>1. Lists(Remaining(p), DOMAIN pages \ {order[k]}) /\ Len(Remaining(p)) = Len(order) - 1
    <3>1. /\ Lists(SubSeq(order, 1, k - 1) \o SubSeq(order, k + 1, Len(order)),
                   DOMAIN pages \ {order[k]})
          /\ Len(SubSeq(order, 1, k - 1) \o SubSeq(order, k + 1, Len(order))) = Len(order) - 1
      BY <1>1, <1>2, ListsCut
    <3> QED
      BY <1>3, <3>1, Zenon
  <2> QED
    BY <1>2, <2>1
<1>5. p \in PageNumbers /\ p \notin DOMAIN pages \ {p}
      /\ (DOMAIN pages \ {p}) \cup {p} = DOMAIN pages
  BY CachedNumbers
<1>6. /\ Lists(Append(Remaining(p), p), (DOMAIN pages \ {p}) \cup {p})
      /\ Len(Append(Remaining(p), p)) = Len(Remaining(p)) + 1
  BY <1>4, <1>5, ListsAppend
<1> QED
  BY <1>1, <1>4, <1>5, <1>6

\* A page is inserted, and room is made: for itself there always is some.
LEMMA EvictedOrder ==
  ASSUME OrderOK, NEW p \in PageNumbers, p \notin DOMAIN pages
  PROVE  LET o == Evicted(Append(order, p))
         IN  \E S \in SUBSET (DOMAIN pages \cup {p}) :
               p \in S /\ Lists(o, S) /\ Len(o) <= Capacity
<1>1. PICK a : a = Append(order, p)
  OBVIOUS
<1>2. /\ Lists(a, DOMAIN pages \cup {p}) /\ Len(a) = Len(order) + 1
      /\ Len(order) \in Nat /\ a[Len(a)] = p
  <2>1. Lists(a, DOMAIN pages \cup {p}) /\ Len(a) = Len(order) + 1
    BY <1>1, ListsAppend DEF OrderOK
  <2>2. order \in Seq(PageNumbers)
    BY DEF OrderOK, Lists
  <2>3. a[Len(order) + 1] = p
    BY <1>1, <2>2, AppendProperties
  <2> QED
    BY <2>1, <2>2, <2>3
<1> DEFINE Room(o) == \E S \in SUBSET (DOMAIN pages \cup {p}) :
                        p \in S /\ Lists(o, S) /\ Len(o) <= Capacity
<1> SUFFICES Room(Evicted(a))
  BY <1>1
<1>3. Capacity \in Nat /\ Capacity >= 1 /\ Len(order) <= Capacity
  BY AndroidCacheAssumption DEF OrderOK
<1>4. CASE Len(a) <= Capacity
  <2>1. Evicted(a) = a
    BY <1>2, <1>3, <1>4 DEF Evicted
  <2> QED
    BY <1>1, <1>2, <1>4, <2>1
<1>5. CASE Len(a) > Capacity
  <2>1. Len(a) - Capacity + 1 = 2 /\ Len(a) >= 2 /\ Len(a) - 1 = Capacity /\ Len(a) \in Nat
    BY <1>2, <1>3, <1>5
  <2>2. Evicted(a) = SubSeq(a, 2, Len(a))
    BY <1>5, <2>1 DEF Evicted
  <2>3. SubSeq(a, 1, 1 - 1) \o SubSeq(a, 1 + 1, Len(a)) = SubSeq(a, 2, Len(a))
    <3>1. a \in Seq(PageNumbers)
      BY <1>2 DEF Lists
    <3>2. \A i \in 1 .. 0 : a[i] \in PageNumbers
      OBVIOUS
    <3>3. SubSeq(a, 1, 0) \in Seq(PageNumbers) /\ Len(SubSeq(a, 1, 0)) = 0
      BY <3>2, SubSeqProperties
    <3>4. SubSeq(a, 1, 0) = <<>>
      BY <3>3, EmptySeq
    <3>5. SubSeq(a, 2, Len(a)) \in Seq(PageNumbers)
      BY <2>1, <3>1, SubSeqProperties
    <3> QED
      BY <3>4, <3>5, ConcatEmptySeq
  <2>4. /\ Lists(SubSeq(a, 2, Len(a)), (DOMAIN pages \cup {p}) \ {a[1]})
        /\ Len(SubSeq(a, 2, Len(a))) = Len(a) - 1
    <3>1. 1 \in 1 .. Len(a)
      BY <2>1
    <3>2. /\ Lists(SubSeq(a, 1, 1 - 1) \o SubSeq(a, 1 + 1, Len(a)),
                   (DOMAIN pages \cup {p}) \ {a[1]})
          /\ Len(SubSeq(a, 1, 1 - 1) \o SubSeq(a, 1 + 1, Len(a))) = Len(a) - 1
      BY <1>2, <3>1, ListsCut
    <3> QED
      BY <2>3, <3>2
  <2>5. a[1] # p
    BY <1>2, <2>1 DEF Lists
  <2> DEFINE S == (DOMAIN pages \cup {p}) \ {a[1]}
  <2>6. S \in SUBSET (DOMAIN pages \cup {p}) /\ p \in S
    BY <2>5
  <2>7. Lists(Evicted(a), S)
    BY <2>2, <2>4, Zenon
  <2>8. Len(Evicted(a)) <= Capacity
    <3>1. Len(SubSeq(a, 2, Len(a))) <= Capacity
      BY <1>3, <2>1, <2>4
    <3> QED
      BY <2>2, <3>1
  <2> QED
    BY <2>6, <2>7, <2>8, Zenon
<1> QED
  BY <1>2, <1>3, <1>4, <1>5

-----------------------------------------------------------------------------
(***************************************************************************)
(* One exchange on a socket with nothing left to read: the reply to READ   *)
(* is taken whole, the reply to WRITE never is.                            *)
(***************************************************************************)
LEMMA UnitOfByte ==
  ASSUME NEW p, NEW v
  PROVE  /\ [Byte("READ", p) EXCEPT !.n = v].kind = "byte"
         /\ [Byte("READ", p) EXCEPT !.n = v].n = v
  BY DEF Byte

LEMMA ReadReplyShape ==
  ASSUME NEW p
  PROVE  /\ \E U : ReadReply(p) \in Seq(U)
         /\ Len(ReadReply(p)) = 1 + PAGE
         /\ ReadReply(p)[1] = HeaderUnit("READ", p, PAGE)
         /\ \A i \in 1 .. PAGE : /\ ReadReply(p)[i + 1].kind = "byte"
                                 /\ ReadReply(p)[i + 1].n = PageOf(remote, p)[i - 1]
<1> DEFINE head == HeaderUnit("READ", p, PAGE)
           unit(i) == [Byte("READ", p) EXCEPT !.n = PageOf(remote, p)[i - 1]]
           sent == [i \in 1 .. PAGE |-> unit(i)]
           U == {head} \cup {unit(i) : i \in 1 .. PAGE}
<1>1. ReadReply(p) = <<head>> \o sent
  BY DEF ReadReply
<1>2. \A i \in 1 .. PAGE : unit(i).kind = "byte" /\ unit(i).n = PageOf(remote, p)[i - 1]
  BY UnitOfByte
<1> HIDE DEF unit, head
<1>3. PAGE \in Nat /\ <<head>> \in Seq(U) /\ Len(<<head>>) = 1 /\ <<head>>[1] = head
  BY Sizes0
<1>4. sent \in Seq(U) /\ Len(sent) = PAGE /\ \A i \in 1 .. PAGE : sent[i] = unit(i)
  BY <1>3
<1> HIDE DEF sent, U
<1>5. /\ <<head>> \o sent \in Seq(U) /\ Len(<<head>> \o sent) = Len(<<head>>) + Len(sent)
      /\ \A i \in 1 .. Len(<<head>>) + Len(sent) :
           (<<head>> \o sent)[i] = IF i <= Len(<<head>>) THEN <<head>>[i]
                                                         ELSE sent[i - Len(<<head>>)]
  BY <1>3, <1>4, ConcatProperties
<1>6. PICK s : s = <<head>> \o sent
  OBVIOUS
<1>7. /\ s \in Seq(U) /\ Len(s) = 1 + PAGE /\ s[1] = head
      /\ \A i \in 1 .. PAGE : s[i + 1] = unit(i)
  <2>1. Len(s) = 1 + PAGE /\ s[1] = head
    BY <1>3, <1>4, <1>5, <1>6
  <2>2. ASSUME NEW i \in 1 .. PAGE
        PROVE  s[i + 1] = unit(i)
    <3>1. i + 1 \in 1 .. Len(<<head>>) + Len(sent) /\ ~(i + 1 <= Len(<<head>>))
          /\ i + 1 - Len(<<head>>) = i
      BY <1>3, <1>4
    <3>2. s[i + 1] = sent[i]
      BY <1>5, <1>6, <3>1
    <3> QED
      BY <1>4, <3>2
  <2> QED
    BY <1>5, <1>6, <2>1, <2>2
<1>8. ReadReply(p) = s
  BY <1>1, <1>6, Zenon
<1> QED
  BY <1>2, <1>7, <1>8 DEF head

LEMMA NothingToTake == ~Complete(<<>>)
  BY DEF Complete

LEMMA ReadReturns ==
  ASSUME late = <<>>, NEW p, NEW served, Returns(served, ReadReply(p))
  PROVE  /\ served /\ late' = <<>> /\ sock' = sock /\ timely' = timely
         /\ PageIn(TakenBody(Stream(served, ReadReply(p)))) = PageOf(remote, p)
<1>1. served
  BY NothingToTake DEF Returns, Stream
<1>2. PICK s : s = ReadReply(p)
  OBVIOUS
<1>3. PICK U : s \in Seq(U)
  BY <1>2, ReadReplyShape
<1>4. /\ PAGE \in Nat /\ Len(s) = 1 + PAGE /\ s[1] = HeaderUnit("READ", p, PAGE)
      /\ \A i \in 1 .. PAGE : s[i + 1].kind = "byte" /\ s[i + 1].n = PageOf(remote, p)[i - 1]
  BY <1>2, ReadReplyShape, Sizes0
<1>5. Stream(served, ReadReply(p)) = s
  <2>1. <<>> \o s = s
    BY <1>3, ConcatEmptySeq
  <2> QED
    BY <1>1, <1>2, <2>1 DEF Stream
<1>6. Wanted(s) = 1 + PAGE
  <2>1. s # <<>>
    BY <1>3, <1>4
  <2> QED
    BY <1>4, <2>1 DEF Wanted, HeaderUnit
<1>7. Rest(s) = <<>>
  <2>1. \A i \in 1 + PAGE + 1 .. 1 + PAGE : s[i] \in U
    BY <1>4
  <2>2. SubSeq(s, 1 + PAGE + 1, 1 + PAGE) \in Seq(U)
        /\ Len(SubSeq(s, 1 + PAGE + 1, 1 + PAGE)) = 0
    BY <1>4, <2>1, SubSeqProperties
  <2>3. SubSeq(s, 1 + PAGE + 1, 1 + PAGE) = <<>>
    BY <2>2, EmptySeq
  <2> QED
    BY <1>4, <1>6, <2>3 DEF Rest
<1>8. late' = <<>> /\ sock' = sock /\ timely' = timely
  BY <1>1, <1>5, <1>7 DEF Returns, SocketAfter
<1>9. PageIn(TakenBody(s)) = PageOf(remote, p)
  <2>1. PICK t : t = TakenBody(s)
    OBVIOUS
  <2>2. t = SubSeq(s, 2, 1 + PAGE)
    BY <1>6, <2>1 DEF TakenBody
  <2>3. \A i \in 1 .. PAGE : t[i] = s[i + 1]
    <3>1. PICK n \in Nat : n = 1 + PAGE
      BY <1>4
    <3>2. \A i \in 2 .. n : s[i] \in U
      BY <1>3, <1>4, <3>1
    <3>3. \A i \in 1 .. n - 2 + 1 : SubSeq(s, 2, n)[i] = s[2 + i - 1]
      BY <3>2, SubSeqProperties
    <3> QED
      BY <1>4, <2>2, <3>1, <3>3
  <2>4. ASSUME NEW i \in 0 .. PAGE - 1
        PROVE  (IF t[i + 1].kind = "byte" THEN t[i + 1].n ELSE Junk) = PageOf(remote, p)[i]
    <3>1. PICK j \in 1 .. PAGE : j = i + 1 /\ j - 1 = i
      BY <1>4
    <3>2. t[j].kind = "byte" /\ t[j].n = PageOf(remote, p)[j - 1]
      BY <1>4, <2>3
    <3> QED
      BY <3>1, <3>2
  <2>5. PageIn(t) = [i \in 0 .. PAGE - 1 |-> PageOf(remote, p)[i]]
    BY <2>4 DEF PageIn
  <2>6. PageOf(remote, p) = [i \in 0 .. PAGE - 1 |-> PageOf(remote, p)[i]]
    BY DEF PageOf
  <2> QED
    BY <2>1, <2>5, <2>6
<1> QED
  BY <1>1, <1>5, <1>8, <1>9

\* No write returns: its reply announces the page that it does not send.
LEMMA WriteNeverReturns ==
  ASSUME late = <<>>, NEW p, NEW served, Returns(served, WriteReply(p))
  PROVE  FALSE
<1>1. served
  BY NothingToTake DEF Returns, Stream
<1>2. PICK s : s = WriteReply(p)
  OBVIOUS
<1>3. s = <<HeaderUnit("WRITE", p, PAGE)>> /\ Len(s) = 1 /\ s[1] = HeaderUnit("WRITE", p, PAGE)
  BY <1>2 DEF WriteReply
<1>4. <<>> \o s = s
  BY <1>3, ConcatEmptySeq
<1>5. Complete(s)
  BY <1>1, <1>2, <1>4 DEF Returns, Stream
<1>6. Wanted(s) = 1 + PAGE
  BY <1>3 DEF Wanted, HeaderUnit
<1> QED
  BY <1>3, <1>5, <1>6, Sizes0 DEF Complete

-----------------------------------------------------------------------------
(***************************************************************************)
(* The bytes that callers see, and the place where the operation is.       *)
(***************************************************************************)
LEMMA ContentsByte ==
  ASSUME NEW b \in Addresses
  PROVE  contents[b] = IF b \div PAGE \in DOMAIN pages THEN pages[b \div PAGE][b % PAGE]
                                                       ELSE remote[b]
  BY DEF contents

LEMMA ContentsByteNext ==
  ASSUME NEW b \in Addresses
  PROVE  contents'[b] = IF b \div PAGE \in DOMAIN pages'
                        THEN pages'[b \div PAGE][b % PAGE] ELSE remote'[b]
  BY DEF contents

\* The byte b in the page of the remote array.
LEMMA PageOfAt ==
  ASSUME NEW array, NEW b \in Addresses
  PROVE  PageOf(array, b \div PAGE)[b % PAGE] = array[b]
<1>1. PICK p, i : p = b \div PAGE /\ i = (b % PAGE)
  OBVIOUS
<1>2. i \in 0 .. PAGE - 1 /\ p * PAGE + i = b
  BY <1>1, PageOfByte
<1>3. PageOf(array, p)[i] = array[p * PAGE + i]
  BY <1>2 DEF PageOf
<1> QED
  BY <1>1, <1>2, <1>3

LEMMA CleanContents ==
  (\A p \in DOMAIN pages : pages[p] = PageOf(remote, p))
    => \A b \in Addresses : contents[b] = remote[b]
  BY ContentsByte, PageOfAt

LEMMA CleanContentsNext ==
  (\A p \in DOMAIN pages' : pages'[p] = PageOf(remote', p))
    => \A b \in Addresses : contents'[b] = remote'[b]
  BY ContentsByteNext, PageOfAt

LEMMA SameContents == pages' = pages /\ remote' = remote => contents' = contents
  BY DEF contents

LEMMA EqualContents ==
  (\A b \in Addresses : contents'[b] = contents[b]) => contents' = contents
  BY DEF contents

LEMMA PageType ==
  ASSUME remote \in [Addresses -> Values], NEW p \in PageNumbers
  PROVE  PageOK(PageOf(remote, p))
<1>1. \A i \in 0 .. PAGE - 1 : remote[p * PAGE + i] \in Values
  BY ByteOfPage
<1> QED
  BY <1>1 DEF PageOf, PageOK

LEMMA PositionOK ==
  ASSUME RequestOK, done < request.length
  PROVE  /\ request.offset + done \in Addresses /\ PageNo \in PageNumbers
         /\ Inside \in 0 .. PAGE - 1 /\ PageNo * PAGE + Inside = request.offset + done
         /\ Count \in 1 .. request.length - done /\ Inside + Count <= PAGE
         /\ request.offset \in Nat /\ request.length \in Nat /\ done \in Nat
<1>1. /\ request.offset \in Nat /\ request.length \in Nat /\ done \in Nat
      /\ request.offset + request.length <= RemoteSize
  BY DEF RequestOK, Requests
<1>2. request.offset + done \in Addresses
  BY <1>1, Sizes0 DEF Addresses
<1>3. /\ PageNo \in PageNumbers /\ Inside \in 0 .. PAGE - 1
      /\ PageNo * PAGE + Inside = request.offset + done
  BY <1>2, PageOfByte DEF PageNo, Inside
<1> HIDE DEF PageNo, Inside
<1>4. Count \in 1 .. request.length - done /\ Inside + Count <= PAGE
  BY <1>1, <1>3, Sizes0 DEF Count
<1> QED
  BY <1>1, <1>2, <1>3, <1>4

LEMMA PatchedType ==
  ASSUME RequestOK, request.kind = "write", done < request.length, NEW data, PageOK(data)
  PROVE  PageOK(Patched(data))
<1>1. /\ Inside \in 0 .. PAGE - 1 /\ Count \in 1 .. request.length - done
      /\ request.length \in Nat /\ done \in Nat
  BY PositionOK
<1>2. DOMAIN data = 0 .. PAGE - 1
  BY DEF PageOK
<1>3. ASSUME NEW i \in 0 .. PAGE - 1, i \in Inside .. Inside + Count - 1
      PROVE  request.data[done + (i - Inside) + 1] \in Values
  <2>1. done + (i - Inside) + 1 \in 1 .. request.length
    BY <1>1, <1>3, Sizes0
  <2>2. request.data \in Seq(Values) /\ Len(request.data) = request.length
    BY DEF RequestOK, Requests
  <2> QED
    BY <2>1, <2>2
<1> QED
  BY <1>2, <1>3 DEF PageOK, Patched

LEMMA TakenType ==
  ASSUME RequestOK, done < request.length, NEW data, PageOK(data)
  PROVE  Taken(data) \in Seq(Values) /\ Len(Taken(data)) = Count
<1>1. /\ Inside \in 0 .. PAGE - 1 /\ Count \in Nat /\ Inside + Count <= PAGE
  BY PositionOK
<1>2. \A i \in 1 .. Count : data[Inside + i - 1] \in Values
  <2> SUFFICES ASSUME NEW i \in 1 .. Count PROVE data[Inside + i - 1] \in Values
    OBVIOUS
  <2>1. Inside + i - 1 \in 0 .. PAGE - 1
    BY <1>1, Sizes0
  <2> QED
    BY <2>1 DEF PageOK
<1> QED
  BY <1>1, <1>2 DEF Taken

-----------------------------------------------------------------------------
(***************************************************************************)
(* What holds however the lease and the connection fare.                   *)
(***************************************************************************)
LEMMA NoValues == <<>> \in Seq(Values) /\ Len(<<>>) = 0
  OBVIOUS

LEMMA FinishRequest ==
  ASSUME NEW result, Finish(result)
  PROVE  RequestOK' /\ SoFar' /\ request'.kind = "idle"
<1>1. /\ request' = [kind |-> "idle", offset |-> 0, length |-> 0, data |-> <<>>]
      /\ done' = 0 /\ out' = <<>>
  BY DEF Finish, Store!Idle
<1>2. /\ request'.kind = "idle" /\ request'.offset = 0 /\ request'.length = 0
      /\ request'.data = <<>> /\ request' = (Store!Idle)'
  BY <1>1 DEF Store!Idle
<1>3. RequestOK'
  BY <1>1, <1>2, NoValues, Sizes0 DEF RequestOK, Requests
<1>4. SoFar'
  BY <1>1, <1>2, NoValues DEF SoFar
<1> QED
  BY <1>2, <1>3, <1>4

LEMMA StartRequest ==
  ASSUME StartRead \/ StartWrite
  PROVE  RequestOK' /\ SoFar' /\ request = Store!Idle /\ answer' = Store!NoAnswer
         /\ request'.kind # "idle" /\ InRange(request'.offset, request'.length)
         /\ UNCHANGED <<remote, owner, sock, late, order, pages, timely>>
<1>1. PICK kind \in {"read", "write"}, offset \in Nat, length \in Nat, data \in Seq(Values) :
        /\ IF kind = "write" THEN Len(data) = length ELSE data = <<>>
        /\ Start(kind, offset, length, data)
  <2>1. Addresses \subseteq Nat /\ ReadLengths \subseteq Nat /\ Writes \subseteq Seq(Values)
    BY AndroidCacheAssumption DEF Addresses
  <2>2. CASE StartRead
    BY <2>1, <2>2, NoValues DEF StartRead
  <2>3. CASE StartWrite
    <3>1. PICK offset \in Addresses, w \in Writes : Start("write", offset, Len(w), w)
      BY <2>3 DEF StartWrite
    <3>2. w \in Seq(Values) /\ Len(w) \in Nat /\ offset \in Nat
      BY <2>1
    <3> QED
      BY <3>1, <3>2
  <2> QED
    BY <2>2, <2>3
<1>2. /\ request = Store!Idle /\ offset + length <= RemoteSize
      /\ request' = [kind |-> kind, offset |-> offset, length |-> length, data |-> data]
      /\ done' = 0 /\ out' = <<>> /\ answer' = Store!NoAnswer
      /\ UNCHANGED <<remote, owner, sock, late, order, pages, timely>>
  BY <1>1 DEF Start, InRange
<1>3. /\ request'.kind = kind /\ request'.offset = offset /\ request'.length = length
      /\ request'.data = data
  BY <1>2
<1>4. RequestOK'
  BY <1>1, <1>2, <1>3, NoValues DEF RequestOK, Requests
<1>5. SoFar'
  <2>1. Len(out') = 0 /\ out' \in Seq(Values) /\ \A k \in 1 .. done' : FALSE
    BY <1>2, NoValues
  <2> QED
    BY <1>2, <2>1 DEF SoFar
<1> QED
  BY <1>1, <1>2, <1>3, <1>4, <1>5 DEF InRange

LEMMA ShapeStep ==
  ASSUME Shape, [Next]_vars
  PROVE  Shape'
<1> USE DEF Shape
<1>1. CASE LeaseEnds \/ OtherBorrows \/ Close \/ UNCHANGED vars
  <2>1. UNCHANGED <<order, pages, request, done>>
    BY <1>1 DEF LeaseEnds, OtherBorrows, Close, vars
  <2> QED
    BY <2>1 DEF RequestOK, OrderOK
<1>2. CASE StartRead \/ StartWrite
  BY <1>2, StartRequest DEF OrderOK
<1>3. CASE LoadPage
  <2>1. PageNo \in PageNumbers /\ PageNo \notin DOMAIN pages
    BY <1>3, PositionOK DEF LoadPage, Missing, Turn
  <2>2. PICK S : Lists(order', S) /\ Len(order') <= Capacity
    BY <1>3, <2>1, EvictedOrder DEF LoadPage
  <2>3. DOMAIN pages' = {order'[i] : i \in DOMAIN order'}
    BY <1>3 DEF LoadPage
  <2>4. DOMAIN order' = 1 .. Len(order')
    BY <2>2 DEF Lists
  <2>5. Lists(order', DOMAIN pages')
    BY <2>2, <2>3, <2>4 DEF Lists
  <2>6. RequestOK'
    BY <1>3 DEF LoadPage, RequestOK
  <2> QED
    BY <2>2, <2>5, <2>6 DEF OrderOK
<1>4. CASE LoadRaises
  BY <1>4, FinishRequest DEF LoadRaises, OrderOK
<1>5. CASE ReadPage \/ WritePage
  <2>1. /\ done < request.length /\ PageNo \in DOMAIN pages
        /\ order' = Append(Remaining(PageNo), PageNo) /\ DOMAIN pages' = DOMAIN pages
        /\ done' = done + Count /\ request' = request
    BY <1>5 DEF ReadPage, WritePage, Turn, Patch
  <2>2. OrderOK'
    BY <2>1, UsedOrder DEF OrderOK
  <2>3. done' \in 0 .. request.length
    BY <2>1, PositionOK
  <2> QED
    BY <2>1, <2>2, <2>3 DEF RequestOK
<1>6. CASE WriteRaises
  <2>1. order' = order /\ DOMAIN pages' = DOMAIN pages /\ Finish(Store!Error)
    BY <1>6 DEF WriteRaises, Patch
  <2> QED
    BY <2>1, FinishRequest DEF OrderOK
<1>7. CASE Return
  <2>1. Finish([ok |-> TRUE, data |-> out]) /\ order' = order /\ pages' = pages
    BY <1>7 DEF Return
  <2> QED
    BY <2>1, FinishRequest DEF OrderOK
<1> QED
  BY <1>1, <1>2, <1>3, <1>4, <1>5, <1>6, <1>7 DEF Next, Step

-----------------------------------------------------------------------------
(***************************************************************************)
(* What holds while the lease lasts and replies are in time.  The steps    *)
(* that change the cache or the remote memory, one by one.                 *)
(***************************************************************************)
LEMMA LoadHonest ==
  ASSUME Inv, Undisturbed, LoadPage
  PROVE  late' = <<>> /\ PagesOK' /\ remote' = remote /\ contents' = contents
<1>1. late = <<>> /\ PagesOK /\ OrderOK /\ RequestOK
  BY DEF Inv, Shape, Honest
<1>2. PICK p : p = PageNo
  OBVIOUS
<1>3. PICK served \in {FALSE, Served} :
        /\ Returns(served, ReadReply(p))
        /\ pages' = [q \in {order'[i] : i \in DOMAIN order'} |->
                       IF q = p THEN PageIn(TakenBody(Stream(served, ReadReply(p))))
                                ELSE pages[q]]
  BY <1>2 DEF LoadPage
<1>4. /\ served /\ late' = <<>> /\ sock' = sock
      /\ PageIn(TakenBody(Stream(served, ReadReply(p)))) = PageOf(remote, p)
  BY <1>1, <1>3, ReadReturns
<1>5. sock = "open" /\ remote' = remote
  BY <1>3, <1>4 DEF Served, LoadPage
<1>6. p \in PageNumbers /\ p \notin DOMAIN pages
  BY <1>1, <1>2, PositionOK DEF LoadPage, Missing, Turn
<1>7. {order'[i] : i \in DOMAIN order'} \subseteq DOMAIN pages \cup {p}
  <2>1. PICK S \in SUBSET (DOMAIN pages \cup {p}) : Lists(order', S)
    BY <1>1, <1>2, <1>6, EvictedOrder DEF LoadPage
  <2> QED
    BY <2>1 DEF Lists
<1>8. \A q \in DOMAIN pages' : pages'[q] = PageOf(remote, q)
  BY <1>1, <1>3, <1>4, <1>5, <1>7 DEF PagesOK
<1>9. \A q \in DOMAIN pages' : PageOK(pages'[q])
  <2>1. DOMAIN pages' \subseteq PageNumbers
    BY <1>1, <1>3, <1>6, <1>7, CachedNumbers
  <2> QED
    BY <1>1, <1>8, <2>1, PageType DEF PagesOK
<1>10. PagesOK'
  BY <1>1, <1>5, <1>8, <1>9 DEF PagesOK, PageOK
<1>11. contents' = contents
  <2>1. \A b \in Addresses : contents'[b] = remote[b]
    BY <1>5, <1>8, CleanContentsNext
  <2>2. \A b \in Addresses : contents[b] = remote[b]
    BY <1>1, <1>5, CleanContents DEF PagesOK
  <2> QED
    BY <2>1, <2>2, EqualContents
<1> QED
  BY <1>4, <1>5, <1>10, <1>11

LEMMA ReadHonest ==
  ASSUME Inv, Undisturbed, ReadPage
  PROVE  SoFar'
<1>1. PagesOK /\ SoFar /\ RequestOK
  BY DEF Inv, Shape, Honest
<1>2. PICK page, inside, n : page = PageNo /\ inside = Inside /\ n = Count
  OBVIOUS
<1>3. PICK taken : taken = Taken(pages[page])
  OBVIOUS
<1>4. /\ request.kind = "read" /\ done < request.length /\ page \in DOMAIN pages
      /\ out' = out \o taken /\ done' = done + n /\ request' = request
      /\ contents' = contents
  BY <1>2, <1>3, SameContents DEF ReadPage, Turn
<1>5. PICK position : position = request.offset + done
  OBVIOUS
<1>6. /\ position \in Nat /\ page \in PageNumbers /\ inside \in Nat
      /\ page * PAGE + inside = position /\ n \in Nat /\ inside + n <= PAGE
      /\ request.offset \in Nat /\ done \in Nat
  BY <1>1, <1>2, <1>4, <1>5, PositionOK DEF Addresses
<1>7. PICK start \in Nat : start = page * PAGE /\ start + inside = position
  BY <1>6, Scale DEF PageNumbers
<1>8. taken \in Seq(Values) /\ Len(taken) = n
  BY <1>1, <1>2, <1>3, <1>4, TakenType DEF PagesOK
<1>9. out \in Seq(Values) /\ Len(out) = done
  BY <1>1, <1>4 DEF SoFar
<1>10. /\ out' \in Seq(Values) /\ Len(out') = done + n
       /\ \A k \in 1 .. done + n : out'[k] = IF k <= done THEN out[k] ELSE taken[k - done]
  <2>1. /\ out \o taken \in Seq(Values) /\ Len(out \o taken) = Len(out) + Len(taken)
        /\ \A k \in 1 .. Len(out) + Len(taken) :
             (out \o taken)[k] = IF k <= Len(out) THEN out[k] ELSE taken[k - Len(out)]
    BY <1>8, <1>9, ConcatProperties
  <2> QED
    BY <1>4, <1>8, <1>9, <2>1
<1>11. ASSUME NEW j \in 1 .. n
       PROVE  taken[j] = contents[position + j - 1]
  <2>1. taken[j] = pages[page][inside + j - 1]
    BY <1>2, <1>3 DEF Taken
  <2>2. PICK i \in 0 .. PAGE - 1 : i = inside + j - 1
    BY <1>6, Sizes0
  <2>3. PICK b \in Addresses : b = page * PAGE + i /\ b \div PAGE = page /\ (b % PAGE) = i
    BY <1>6, ByteOfPage
  <2>4. b = position + j - 1
    BY <1>6, <1>7, <2>2, <2>3
  <2>5. contents[b] = pages[page][i]
    BY <1>4, <2>3, ContentsByte
  <2> QED
    BY <2>1, <2>2, <2>4, <2>5
<1>12. ASSUME NEW k \in 1 .. done + n, k <= done
       PROVE  out'[k] = contents[request.offset + k - 1]
  <2>1. out'[k] = out[k] /\ k \in 1 .. done
    BY <1>6, <1>10, <1>12
  <2> QED
    BY <1>1, <1>4, <2>1 DEF SoFar
<1>13. ASSUME NEW k \in 1 .. done + n, ~(k <= done)
       PROVE  out'[k] = contents[request.offset + k - 1]
  <2>1. PICK j \in 1 .. n : k = done + j /\ k - done = j
    <3>1. k - done \in 1 .. n /\ k = done + (k - done)
      BY <1>6, <1>13
    <3> QED
      BY <3>1
  <2>2. out'[k] = taken[j]
    BY <1>10, <1>13, <2>1
  <2>3. position + j - 1 = request.offset + k - 1
    BY <1>5, <1>6, <2>1
  <2> QED
    BY <1>11, <2>2, <2>3
<1>14. \A k \in 1 .. done + n : out'[k] = contents[request.offset + k - 1]
  BY <1>12, <1>13
<1> QED
  BY <1>4, <1>10, <1>14 DEF SoFar

\* A write that raises leaves the cached page as the caller wants it, and if the
\* connection is still up, the remote page too.
LEMMA WriteHonest ==
  ASSUME Inv, Undisturbed, timely', WriteRaises
  PROVE  late' = <<>> /\ PagesOK'
<1>1. late = <<>> /\ PagesOK /\ SoFar /\ OrderOK /\ RequestOK
  BY DEF Inv, Shape, Honest
<1>2. PICK p, cached : p = PageNo /\ cached = Patched(pages[PageNo])
  OBVIOUS
<1>3. /\ p \in DOMAIN pages /\ p \in PageNumbers
      /\ request.kind = "write" /\ done < request.length
      /\ pages' = [pages EXCEPT ![p] = cached]
  BY <1>1, <1>2, CachedNumbers DEF WriteRaises, Turn, Patch
<1>4. PICK served \in {FALSE, Served} :
        /\ Raises(served, WriteReply(p))
        /\ remote' = IF served THEN Stored ELSE remote
  BY <1>2 DEF WriteRaises
<1>5. late' = <<>> /\ (sock' = "open" => served /\ sock = "open")
  BY <1>4 DEF Raises, SocketAfter, Served
<1>6. PageOK(cached) /\ PageOK(pages[p])
  BY <1>1, <1>2, <1>3, PatchedType DEF PagesOK
<1>7. Stored = [b \in Addresses |-> IF b \div PAGE = p THEN cached[b % PAGE] ELSE remote[b]]
  BY <1>2 DEF Stored
<1>8. Stored \in [Addresses -> Values]
  <2>1. ASSUME NEW b \in Addresses
        PROVE  cached[b % PAGE] \in Values /\ remote[b] \in Values
    <3>1. PICK i \in 0 .. PAGE - 1 : i = (b % PAGE)
      BY PageOfByte
    <3> QED
      BY <1>1, <1>6, <3>1 DEF PagesOK, PageOK
  <2> QED
    BY <1>7, <2>1
<1>9. remote' \in [Addresses -> Values]
  BY <1>1, <1>4, <1>8 DEF PagesOK
<1>10. DOMAIN pages' = DOMAIN pages
       /\ \A q \in DOMAIN pages : pages'[q] = IF q = p THEN cached ELSE pages[q]
  BY <1>3
<1>11. \A q \in DOMAIN pages' : PageOK(pages'[q])
  BY <1>1, <1>6, <1>10 DEF PagesOK
<1>12. ASSUME sock' = "open", NEW q \in DOMAIN pages
       PROVE  pages'[q] = PageOf(remote', q)
  <2>1. remote' = Stored /\ q \in PageNumbers
    BY <1>1, <1>4, <1>5, <1>12, CachedNumbers
  <2>2. ASSUME NEW i \in 0 .. PAGE - 1
        PROVE  Stored[q * PAGE + i] = pages'[q][i]
    <3>1. PICK b \in Addresses : b = q * PAGE + i /\ b \div PAGE = q /\ (b % PAGE) = i
      BY <2>1, ByteOfPage
    <3>2. Stored[b] = IF q = p THEN cached[i] ELSE remote[b]
      BY <1>7, <3>1
    <3>3. pages[q][i] = remote[b]
      <4>1. pages[q] = PageOf(remote, q)
        BY <1>1, <1>5, <1>12 DEF PagesOK
      <4> QED
        BY <3>1, <4>1 DEF PageOf
    <3> QED
      BY <1>10, <3>1, <3>2, <3>3
  <2>3. pages'[q] = [i \in 0 .. PAGE - 1 |-> pages'[q][i]]
    BY <1>10, <1>11 DEF PageOK
  <2>4. PageOf(Stored, q) = [i \in 0 .. PAGE - 1 |-> pages'[q][i]]
    BY <2>2 DEF PageOf
  <2> QED
    BY <2>1, <2>3, <2>4
<1> QED
  BY <1>5, <1>9, <1>10, <1>11, <1>12 DEF PagesOK, PageOK

LEMMA HonestStep ==
  ASSUME Inv, [Next]_vars
  PROVE  Honest'
<1> SUFFICES ASSUME Undisturbed' PROVE (late = <<>> /\ PagesOK /\ SoFar)'
  BY DEF Honest
<1>1. Undisturbed
  BY UndisturbedBefore
<1>2. late = <<>> /\ PagesOK /\ SoFar /\ RequestOK /\ timely'
  BY <1>1 DEF Inv, Shape, Honest, Undisturbed
<1>3. CASE LeaseEnds \/ OtherBorrows
  BY <1>3 DEF LeaseEnds, OtherBorrows, Undisturbed
<1>4. CASE StartRead \/ StartWrite
  BY <1>2, <1>4, StartRequest DEF PagesOK
<1>5. CASE LoadPage
  <2>1. request' = request /\ done' = done /\ out' = out
    BY <1>5 DEF LoadPage
  <2> QED
    BY <1>1, <1>2, <1>5, <2>1, LoadHonest DEF SoFar
<1>6. CASE LoadRaises
  <2>1. /\ pages' = pages /\ remote' = remote /\ Finish(Store!Error)
    BY <1>6 DEF LoadRaises
  <2>2. late' = <<>> /\ (sock' = "open" => sock = "open")
    BY <1>2, <1>6 DEF LoadRaises, Raises, SocketAfter
  <2> QED
    BY <1>2, <2>1, <2>2, FinishRequest DEF PagesOK
<1>7. CASE ReadPage
  <2>1. UNCHANGED <<remote, sock, late, pages>>
    BY <1>7 DEF ReadPage
  <2> QED
    BY <1>1, <1>2, <1>7, <2>1, ReadHonest DEF PagesOK
<1>8. CASE WritePage
  BY <1>2, <1>8, WriteNeverReturns DEF WritePage
<1>9. CASE WriteRaises
  <2>1. Finish(Store!Error)
    BY <1>9 DEF WriteRaises
  <2> QED
    BY <1>1, <1>2, <1>9, <2>1, WriteHonest, FinishRequest
<1>10. CASE Return
  <2>1. /\ Finish([ok |-> TRUE, data |-> out])
        /\ UNCHANGED <<remote, sock, late, pages>>
    BY <1>10 DEF Return
  <2> QED
    BY <1>2, <2>1, FinishRequest DEF PagesOK
<1>11. CASE Close
  <2>1. /\ late' = <<>> /\ sock' = "closed"
        /\ UNCHANGED <<remote, pages, request, done, out>>
    BY <1>11 DEF Close
  <2> QED
    BY <1>2, <2>1, SameContents DEF PagesOK, SoFar
<1>12. CASE UNCHANGED vars
  BY <1>2, <1>12, SameContents DEF PagesOK, SoFar, vars
<1> QED
  BY <1>3, <1>4, <1>5, <1>6, <1>7, <1>8, <1>9, <1>10, <1>11, <1>12 DEF Next, Step

LEMMA InitInv == Init => Inv
<1> SUFFICES ASSUME Init PROVE Inv
  OBVIOUS
<1>1. request = [kind |-> "idle", offset |-> 0, length |-> 0, data |-> <<>>]
  BY DEF Init, Store!Idle
<1>2. request.kind = "idle" /\ request.offset = 0 /\ request.length = 0 /\ request.data = <<>>
  BY <1>1
<1>3. RequestOK
  BY <1>1, <1>2, NoValues, Sizes0 DEF Init, RequestOK, Requests
<1>4. order = <<>> /\ DOMAIN pages = {}
  BY DEF Init
<1>5. OrderOK
  BY <1>4, AndroidCacheAssumption DEF OrderOK, Lists
<1>6. PagesOK
  BY <1>4, AndroidCacheAssumption DEF Init, PagesOK
<1>7. SoFar
  BY <1>2, NoValues DEF Init, SoFar
<1> QED
  BY <1>3, <1>5, <1>6, <1>7 DEF Init, Inv, Shape, Honest

LEMMA CacheInvariant == Spec => []Inv
<1>1. Inv /\ [Next]_vars => Inv'
  BY ShapeStep, HonestStep DEF Inv
<1> QED
  BY <1>1, InitInv, PTL DEF Spec

(***************************************************************************)
(* The pages cached are as many as the order of eviction lists, and no     *)
(* more than the capacity, whatever fails (remote_cache.py:73-79, 92-99).  *)
(***************************************************************************)
THEOREM AndroidStaysBounded == Spec => []CacheBounded
<1>1. Inv => CacheBounded
  <2> SUFFICES ASSUME OrderOK PROVE CacheBounded
    BY DEF Inv, Shape
  <2>1. Lists(order, DOMAIN pages) /\ Len(order) <= Capacity
    BY DEF OrderOK
  <2>2. Cardinality(DOMAIN pages) = Len(order)
    BY <2>1, ListsCardinality
  <2>3. DOMAIN order = 1 .. Len(order)
    BY <2>1 DEF Lists
  <2>4. {order[i] : i \in 1 .. Len(order)} = DOMAIN pages
    <3>1. \A p : p \in DOMAIN pages <=> \E i \in 1 .. Len(order) : order[i] = p
      BY <2>1, Zenon DEF Lists
    <3> QED
      BY <3>1, Zenon
  <2>5. {order[i] : i \in DOMAIN order} = DOMAIN pages
    BY <2>3, <2>4, Zenon
  <2> QED
    BY <2>1, <2>2, <2>5 DEF CacheBounded
<1> QED
  BY <1>1, CacheInvariant, PTL

(***************************************************************************)
(* While the lease lasts, the connection is up and replies are in time,    *)
(* the cached pages are the remote ones: a write that raised for want of a *)
(* body has nevertheless been stored (remote_cache.py:41, 123-126).        *)
(***************************************************************************)
THEOREM AndroidWritesThrough == Spec => []WrittenThrough
<1>1. Inv => WrittenThrough
  BY DEF Inv, Honest, PagesOK, WrittenThrough
<1> QED
  BY <1>1, CacheInvariant, PTL

-----------------------------------------------------------------------------
(***************************************************************************)
(* The steps of the cache are those of the byte store.                     *)
(***************************************************************************)
\* Nothing is written.
LEMMA NothingStored ==
  contents = Store!Overwrite(contents, request.offset, request.data, 0)
    \/ request.offset \notin Nat
<1> SUFFICES ASSUME request.offset \in Nat
             PROVE  contents = Store!Overwrite(contents, request.offset, request.data, 0)
  OBVIOUS
<1>1. \A b \in Addresses : b \notin request.offset .. request.offset + 0 - 1
  BY DEF Addresses
<1>2. contents = [b \in Addresses |-> contents[b]] /\ DOMAIN contents = Addresses
  BY DEF contents
<1> QED
  BY <1>1, <1>2 DEF Store!Overwrite

\* A write that raises has changed its first page, from where it begins.
LEMMA WriteRaisesStore ==
  ASSUME Inv, Undisturbed, WriteRaises
  PROVE  \E k \in 0 .. Len(request.data) :
           contents' = Store!Overwrite(contents, request.offset, request.data, k)
<1>1. PagesOK /\ SoFar /\ OrderOK /\ RequestOK
  BY DEF Inv, Shape, Honest
<1>2. PICK page, inside, n, cached :
        page = PageNo /\ inside = Inside /\ n = Count /\ cached = Patched(pages[PageNo])
  OBVIOUS
<1>3. /\ page \in DOMAIN pages /\ request.kind = "write" /\ done < request.length
      /\ pages' = [pages EXCEPT ![page] = cached] /\ remote' \in {Stored, remote}
  BY <1>2 DEF WriteRaises, Turn, Patch
<1>4. PICK offset, data : offset = request.offset /\ data = request.data
  OBVIOUS
<1>5. /\ offset \in Nat /\ done = 0 /\ page \in PageNumbers /\ inside \in Nat
      /\ page * PAGE + inside = offset /\ n \in 1 .. request.length /\ inside + n <= PAGE
      /\ Len(data) = request.length /\ request.length \in Nat
  <2>1. done = 0 /\ Len(data) = request.length
    BY <1>1, <1>3, <1>4 DEF SoFar, RequestOK
  <2>2. /\ request.offset + done \in Addresses /\ page \in PageNumbers
        /\ inside \in 0 .. PAGE - 1 /\ page * PAGE + inside = request.offset + done
        /\ n \in 1 .. request.length - done /\ inside + n <= PAGE
        /\ request.offset \in Nat /\ request.length \in Nat
    BY <1>1, <1>2, <1>3, PositionOK
  <2> QED
    BY <1>4, <2>1, <2>2
<1>6. PICK start \in Nat : start = page * PAGE /\ start + inside = offset
  <2>1. page \in Nat /\ page * PAGE \in Nat
    BY <1>5, Scale DEF PageNumbers
  <2> QED
    BY <1>5, <2>1
<1>7. ASSUME NEW b \in Addresses
      PROVE  contents'[b] = IF b \in offset .. offset + n - 1 THEN data[b - offset + 1]
                                                              ELSE contents[b]
  <2>1. PICK q, i : q = b \div PAGE /\ i = (b % PAGE)
    OBVIOUS
  <2>2. q \in Nat /\ i \in 0 .. PAGE - 1 /\ q * PAGE + i = b
    BY <2>1, PageOfByte DEF PageNumbers
  <2>3. /\ contents[b] = IF q \in DOMAIN pages THEN pages[q][i] ELSE remote[b]
        /\ contents'[b] = IF q \in DOMAIN pages' THEN pages'[q][i] ELSE remote'[b]
    BY <2>1, ContentsByte, ContentsByteNext
  <2>4. CASE q = page
    <3>1. contents'[b] = cached[i] /\ contents[b] = pages[page][i]
      BY <1>3, <2>3, <2>4
    <3>2. DOMAIN pages[page] = 0 .. PAGE - 1
      BY <1>1, <1>3 DEF PagesOK, PageOK
    <3>3. cached[i] = IF i \in inside .. inside + n - 1
                      THEN data[0 + (i - inside) + 1] ELSE pages[page][i]
      BY <1>2, <1>4, <1>5, <2>2, <3>2 DEF Patched
    <3>4. start + i = b
      BY <1>6, <2>2, <2>4
    <3>5. /\ i \in inside .. inside + n - 1 <=> b \in offset .. offset + n - 1
          /\ 0 + (i - inside) + 1 = b - offset + 1
      <4>1. n \in Nat /\ i \in Nat /\ inside \in Nat /\ start \in Nat
            /\ b = start + i /\ offset = start + inside
        BY <1>5, <1>6, <2>2, <3>4
      <4> QED
        BY <4>1
    <3> QED
      BY <3>1, <3>3, <3>5, Zenon
  <2>5. CASE q # page
    <3>1. contents'[b] = contents[b]
      <4>1. remote'[b] = remote[b]
        BY <1>2, <1>3, <2>1, <2>5 DEF Stored
      <4> QED
        BY <1>3, <2>3, <2>5, <4>1
    <3>2. b \notin offset .. offset + n - 1
      <4> SUFFICES ASSUME b \in offset .. offset + n - 1 PROVE FALSE
        OBVIOUS
      <4>1. PICK j \in 0 .. PAGE - 1 : j = b - start /\ start + j = b
        <5>1. b - start \in 0 .. PAGE - 1 /\ start + (b - start) = b
          BY <1>5, <1>6, Sizes0
        <5> QED
          BY <5>1
      <4>2. b \div PAGE = page
        BY <1>5, <1>6, <4>1, ByteOfPage
      <4> QED
        BY <2>1, <2>5, <4>2
    <3> QED
      BY <3>1, <3>2
  <2> QED
    BY <2>4, <2>5
<1>8. contents' = Store!Overwrite(contents, request.offset, request.data, n)
  <2>1. contents' = [b \in Addresses |-> contents'[b]] /\ DOMAIN contents = Addresses
    BY DEF contents
  <2> QED
    BY <1>4, <1>7, <2>1 DEF Store!Overwrite
<1>9. n \in 0 .. Len(request.data)
  BY <1>4, <1>5
<1> QED
  BY <1>8, <1>9

LEMMA StoreStep ==
  ASSUME Inv, Undisturbed, [Next]_vars
  PROVE  Store!Next \/ UNCHANGED Store!storeVars
<1>1. late = <<>> /\ PagesOK /\ SoFar /\ RequestOK
  BY DEF Inv, Shape, Honest
<1>2. CASE LeaseEnds \/ Close \/ UNCHANGED vars
  <2>1. UNCHANGED <<remote, pages, request, answer>>
    BY <1>2 DEF LeaseEnds, Close, vars
  <2> QED
    BY <2>1, SameContents DEF Store!storeVars
<1>3. CASE OtherBorrows
  BY <1>3 DEF OtherBorrows, Undisturbed
<1>4. CASE StartRead \/ StartWrite
  <2>1. /\ request = Store!Idle /\ answer' = Store!NoAnswer /\ request'.kind # "idle"
        /\ InRange(request'.offset, request'.length) /\ UNCHANGED <<remote, pages>>
    BY <1>4, StartRequest
  <2>2. request.kind = "idle"
    BY <2>1 DEF Store!Idle
  <2>3. Store!Ask
    BY <2>1, <2>2, SameContents DEF Store!Ask, InRange
  <2> QED
    BY <2>3 DEF Store!Next
<1>5. CASE LoadPage
  <2>1. request' = request /\ answer' = answer
    BY <1>5 DEF LoadPage
  <2> QED
    BY <1>5, <2>1, LoadHonest DEF Store!storeVars
<1>6. CASE LoadRaises
  <2>1. /\ request.kind # "idle" /\ contents' = contents
        /\ request' = Store!Idle /\ answer' = Store!Error
    BY <1>6, SameContents DEF LoadRaises, Missing, Turn, Finish
  <2>2. request.offset \in Nat /\ request.data \in Seq(Values) /\ 0 \in 0 .. Len(request.data)
    BY <1>1 DEF RequestOK, Requests
  <2>3. contents' = Store!Overwrite(contents, request.offset, request.data, 0)
    BY <2>1, <2>2, NothingStored
  <2>4. Store!Fail
    BY <2>1, <2>2, <2>3 DEF Store!Fail
  <2> QED
    BY <2>4 DEF Store!Next
<1>7. CASE ReadPage
  <2>1. UNCHANGED <<remote, pages, request, answer>>
    BY <1>7 DEF ReadPage
  <2> QED
    BY <2>1, SameContents DEF Store!storeVars
<1>8. CASE WritePage
  BY <1>1, <1>8, WriteNeverReturns DEF WritePage
<1>9. CASE WriteRaises
  <2>1. request.kind # "idle" /\ request' = Store!Idle /\ answer' = Store!Error
    BY <1>9 DEF WriteRaises, Turn, Finish
  <2>2. Store!Fail
    BY <1>9, <2>1, WriteRaisesStore DEF Store!Fail
  <2> QED
    BY <2>2 DEF Store!Next
<1>10. CASE Return
  <2>1. /\ request.kind # "idle" /\ done = request.length /\ contents' = contents
        /\ request' = Store!Idle /\ answer' = [ok |-> TRUE, data |-> out]
    BY <1>10, SameContents DEF Return, Finish
  <2>2. request.offset \in Nat /\ request.length \in Nat
    BY <1>1 DEF RequestOK, Requests
  <2>3. request.kind = "write" =>
          contents = Store!Overwrite(contents, request.offset, request.data, request.length)
    BY <1>1, <2>1, <2>2, NothingStored DEF SoFar
  <2>4. out = IF request.kind = "read"
              THEN Store!Slice(contents, request.offset, request.length) ELSE <<>>
    <3>1. ASSUME request.kind = "read"
          PROVE  out = Store!Slice(contents, request.offset, request.length)
      <4>1. /\ out \in Seq(Values) /\ Len(out) = request.length
            /\ \A k \in 1 .. request.length : out[k] = contents[request.offset + k - 1]
        BY <1>1, <2>1, <3>1 DEF SoFar
      <4> QED
        BY <2>2, <4>1 DEF Store!Slice
    <3> QED
      BY <1>1, <3>1 DEF SoFar
  <2>5. Store!Succeed
    BY <2>1, <2>3, <2>4 DEF Store!Succeed
  <2> QED
    BY <2>5 DEF Store!Next
<1> QED
  BY <1>2, <1>3, <1>4, <1>5, <1>6, <1>7, <1>8, <1>9, <1>10 DEF Next, Step

LEMMA StoreInit == Init => Store!Init
<1> SUFFICES ASSUME Init PROVE Store!Init
  OBVIOUS
<1>1. remote \in [Addresses -> Values] /\ DOMAIN pages = {}
  BY AndroidCacheAssumption DEF Init
<1>2. contents \in [Addresses -> Values]
  BY <1>1 DEF contents
<1> QED
  BY <1>2 DEF Init, Store!Init, Addresses

(***************************************************************************)
(* While the lease lasts and no reply was late, the cache is an array of   *)
(* bytes that only writes change, for any number of pages and whatever the *)
(* loss of the connection interrupts (remote_cache.py:81-127).             *)
(***************************************************************************)
THEOREM AndroidImplementsStore == Spec => ImplementsStore
<1>1. Inv /\ [Next]_vars => [Undisturbed => Store!Next]_(Store!storeVars)
  BY StoreStep
<1> QED
  BY <1>1, StoreInit, CacheInvariant, PTL DEF Spec, ImplementsStore

=============================================================================
