-------------------------- MODULE PageCacheProofs --------------------------
(***************************************************************************)
(* Theorems about PageCache, used by itself (Spec) or by MemoryApi         *)
(* (ApiSpec): for any page size, remote size and capacity, any data, and   *)
(* any failures of the local API.                                          *)
(***************************************************************************)
EXTENDS MemoryApi, FiniteSetTheorems, SequenceTheorems, TLAPS

-----------------------------------------------------------------------------
\* The arithmetic of pages.

LEMMA Sizes0 == PAGE_SIZE \in Nat /\ PAGE_SIZE > 0 /\ RemoteSize \in Nat /\ RemoteSize > 0
  BY CacheAssumption

LEMMA DivMod ==
  ASSUME NEW b \in Nat
  PROVE  /\ b \div PAGE_SIZE \in Nat /\ b % PAGE_SIZE \in 0 .. PAGE_SIZE - 1
         /\ b = (b \div PAGE_SIZE) * PAGE_SIZE + (b % PAGE_SIZE)
  BY Sizes0, Z3

LEMMA ModDiv ==
  ASSUME NEW p \in Nat, NEW i \in 0 .. PAGE_SIZE - 1
  PROVE  (p * PAGE_SIZE + i) \div PAGE_SIZE = p /\ (p * PAGE_SIZE + i) % PAGE_SIZE = i
  BY Sizes0, Z3

\* Multiplication by the page size keeps the order.
LEMMA Scale ==
  ASSUME NEW p \in Nat, NEW q \in Nat
  PROVE  /\ p * PAGE_SIZE \in Nat
         /\ p <= q => p * PAGE_SIZE <= q * PAGE_SIZE
         /\ p < q => p * PAGE_SIZE + PAGE_SIZE <= q * PAGE_SIZE
  BY Sizes0, Z3
\* A byte of the remote memory is a byte of a page, ...
LEMMA PageOfByte ==
  ASSUME NEW b \in Bytes
  PROVE  /\ b \div PAGE_SIZE \in PageNumbers
         /\ b % PAGE_SIZE \in 0 .. PageLength(b \div PAGE_SIZE) - 1
         /\ (b \div PAGE_SIZE) * PAGE_SIZE + (b % PAGE_SIZE) = b
<1>1. b \in Nat /\ b <= RemoteSize - 1 /\ RemoteSize - 1 \in Nat
  BY Sizes0 DEF Bytes
<1> DEFINE q == b \div PAGE_SIZE
           i == b % PAGE_SIZE
<1>2. q \in Nat /\ i \in 0 .. PAGE_SIZE - 1 /\ b = q * PAGE_SIZE + i
  BY <1>1, DivMod
<1>3. PICK last \in Nat : last = (RemoteSize - 1) \div PAGE_SIZE
  BY <1>1, DivMod
<1>4. RemoteSize - 1 < last * PAGE_SIZE + PAGE_SIZE
  <2>1. /\ RemoteSize - 1 = last * PAGE_SIZE + ((RemoteSize - 1) % PAGE_SIZE)
        /\ (RemoteSize - 1) % PAGE_SIZE \in 0 .. PAGE_SIZE - 1
    BY <1>1, <1>3, DivMod
  <2> QED
    BY <2>1, <1>3, Scale, Sizes0
<1> HIDE DEF q, i
<1>5. q <= last
  <2> SUFFICES ASSUME last < q PROVE FALSE
    BY <1>2, <1>3
  <2>1. last * PAGE_SIZE + PAGE_SIZE <= q * PAGE_SIZE
    BY <1>2, <1>3, Scale
  <2>2. last * PAGE_SIZE \in Nat /\ q * PAGE_SIZE \in Nat
    BY <1>2, <1>3, Scale
  <2> QED
    BY <1>1, <1>2, <1>4, <2>1, <2>2, Sizes0
<1>6. q \in PageNumbers
  BY <1>2, <1>3, <1>5 DEF PageNumbers
<1>7. i \in 0 .. PageLength(q) - 1
  <2>1. q * PAGE_SIZE \in Nat
    BY <1>2, Scale
  <2> QED
    BY <1>1, <1>2, <2>1, Sizes0 DEF PageLength
<1> QED
  BY <1>2, <1>6, <1>7 DEF q, i

\* ... and a byte of a page is one of the remote memory.
LEMMA ByteOfPage ==
  ASSUME NEW p \in PageNumbers
  PROVE  /\ p \in Nat /\ PageLength(p) \in 1 .. PAGE_SIZE
         /\ \A i \in 0 .. PageLength(p) - 1 :
              /\ p * PAGE_SIZE + i \in Bytes
              /\ (p * PAGE_SIZE + i) \div PAGE_SIZE = p
              /\ (p * PAGE_SIZE + i) % PAGE_SIZE = i
<1>1. RemoteSize - 1 \in Nat
  BY Sizes0
<1>2. PICK last \in Nat : last = (RemoteSize - 1) \div PAGE_SIZE
  BY <1>1, DivMod
<1>3. p \in Nat /\ p <= last
  BY <1>2 DEF PageNumbers
<1>4. last * PAGE_SIZE <= RemoteSize - 1
  <2>1. /\ RemoteSize - 1 = last * PAGE_SIZE + ((RemoteSize - 1) % PAGE_SIZE)
        /\ (RemoteSize - 1) % PAGE_SIZE \in 0 .. PAGE_SIZE - 1
    BY <1>1, <1>2, DivMod
  <2> QED
    BY <2>1, <1>2, Scale, Sizes0
<1>5. PICK start \in Nat : start = p * PAGE_SIZE /\ start <= RemoteSize - 1
  <2>1. p * PAGE_SIZE \in Nat /\ last * PAGE_SIZE \in Nat /\ p * PAGE_SIZE <= last * PAGE_SIZE
    BY <1>2, <1>3, Scale
  <2> QED
    BY <1>1, <1>4, <2>1
<1>6. PageLength(p) = IF PAGE_SIZE <= RemoteSize - start THEN PAGE_SIZE ELSE RemoteSize - start
  BY <1>5 DEF PageLength
<1>7. PageLength(p) \in 1 .. PAGE_SIZE /\ PageLength(p) <= RemoteSize - start
  BY <1>5, <1>6, Sizes0
<1>8. ASSUME NEW i \in 0 .. PageLength(p) - 1
      PROVE  /\ p * PAGE_SIZE + i \in Bytes
             /\ (p * PAGE_SIZE + i) \div PAGE_SIZE = p
             /\ (p * PAGE_SIZE + i) % PAGE_SIZE = i
  <2>1. i \in 0 .. PAGE_SIZE - 1
    BY <1>7, Sizes0
  <2>2. start + i \in Bytes
    BY <1>5, <1>7, Sizes0 DEF Bytes
  <2> QED
    BY <1>3, <1>5, <2>1, <2>2, ModDiv
<1> QED
  BY <1>3, <1>7, <1>8

-----------------------------------------------------------------------------
(***************************************************************************)
(* The OrderedDict: a list of the cached pages, each of them once.         *)
(***************************************************************************)
Lists(o, S) ==
    /\ o \in Seq(PageNumbers)
    /\ \A i, j \in 1 .. Len(o) : o[i] = o[j] => i = j
    /\ \A p : p \in S <=> \E i \in 1 .. Len(o) : o[i] = p

LEMMA ListsCardinality ==
  ASSUME NEW o, NEW S, Lists(o, S)
  PROVE  IsFiniteSet(S) /\ Cardinality(S) = Len(o)
<1>1. Len(o) \in Nat /\ o \in [1 .. Len(o) -> S]
  BY DEF Lists
<1>2. o \in Bijection(1 .. Len(o), S)
  BY <1>1 DEF Lists, Bijection, Injection, Surjection, IsInjective
<1>3. ExistsBijection(1 .. Len(o), S)
  BY <1>2 DEF ExistsBijection
<1>4. IsFiniteSet(1 .. Len(o)) /\ Cardinality(1 .. Len(o)) = Len(o)
  BY <1>1, FS_Interval
<1> QED
  BY <1>3, <1>4, FS_Bijection

LEMMA ListsAppend ==
  ASSUME NEW o, NEW S, Lists(o, S), NEW p \in PageNumbers, p \notin S
  PROVE  Lists(Append(o, p), S \cup {p}) /\ Len(Append(o, p)) = Len(o) + 1
<1>1. o \in Seq(PageNumbers) /\ Len(o) \in Nat
  BY DEF Lists
<1>2. /\ Append(o, p) \in Seq(PageNumbers) /\ Len(Append(o, p)) = Len(o) + 1
      /\ \A i \in 1 .. Len(o) : Append(o, p)[i] = o[i]
      /\ Append(o, p)[Len(o) + 1] = p
  BY <1>1, AppendProperties
<1> DEFINE a == Append(o, p)
<1> HIDE DEF a
<1>3. \A i \in 1 .. Len(o) : o[i] # p
  BY DEF Lists
<1>4. \A i \in 1 .. Len(a) : i \in 1 .. Len(o) \/ i = Len(o) + 1
  BY <1>1, <1>2 DEF a
<1>5. \A i, j \in 1 .. Len(a) : a[i] = a[j] => i = j
  BY <1>2, <1>3, <1>4 DEF Lists, a
<1>6. \A q : q \in S \cup {p} <=> \E i \in 1 .. Len(a) : a[i] = q
  BY <1>1, <1>2, <1>4 DEF Lists, a
<1> QED
  BY <1>2, <1>5, <1>6 DEF Lists, a

\* One entry is cut out.
LEMMA ListsCut ==
  ASSUME NEW o, NEW S, Lists(o, S), NEW k \in 1 .. Len(o)
  PROVE  /\ Lists(SubSeq(o, 1, k - 1) \o SubSeq(o, k + 1, Len(o)), S \ {o[k]})
         /\ Len(SubSeq(o, 1, k - 1) \o SubSeq(o, k + 1, Len(o))) = Len(o) - 1
<1> DEFINE n == Len(o)
           u == SubSeq(o, 1, k - 1)
           v == SubSeq(o, k + 1, n)
           cut == u \o v
<1>1. o \in Seq(PageNumbers) /\ n \in Nat /\ \A i \in 1 .. n : o[i] \in PageNumbers
  BY DEF Lists
<1>2. /\ u \in Seq(PageNumbers) /\ Len(u) = k - 1
      /\ \A i \in 1 .. k - 1 : u[i] = o[i]
  <2>1. \A i \in 1 .. k - 1 : o[i] \in PageNumbers
    BY <1>1
  <2>2. 1 \in Int /\ k - 1 \in Int
    OBVIOUS
  <2>3. /\ u \in Seq(PageNumbers) /\ Len(u) = IF 1 <= k - 1 THEN k - 1 - 1 + 1 ELSE 0
        /\ \A i \in 1 .. k - 1 - 1 + 1 : u[i] = o[1 + i - 1]
    BY <2>1, <2>2, SubSeqProperties
  <2> QED
    BY <1>1, <2>3
<1>3. /\ v \in Seq(PageNumbers) /\ Len(v) = n - k
      /\ \A i \in 1 .. n - k : v[i] = o[k + i]
  <2>1. \A i \in k + 1 .. n : o[i] \in PageNumbers
    BY <1>1
  <2>2. k + 1 \in Int /\ n \in Int
    BY <1>1
  <2>3. /\ v \in Seq(PageNumbers) /\ Len(v) = IF k + 1 <= n THEN n - (k + 1) + 1 ELSE 0
        /\ \A i \in 1 .. n - (k + 1) + 1 : v[i] = o[k + 1 + i - 1]
    BY <2>1, <2>2, SubSeqProperties
  <2> QED
    BY <1>1, <2>3
<1> HIDE DEF u, v
<1>4. /\ cut \in Seq(PageNumbers) /\ Len(cut) = Len(u) + Len(v)
      /\ \A i \in 1 .. Len(u) + Len(v) : cut[i] = IF i <= Len(u) THEN u[i] ELSE v[i - Len(u)]
  BY <1>2, <1>3, ConcatProperties
<1> HIDE DEF cut
<1>5. Len(cut) = n - 1
  BY <1>1, <1>2, <1>3, <1>4
<1>6. \A i \in 1 .. n - 1 : cut[i] = IF i < k THEN o[i] ELSE o[i + 1]
  <2> SUFFICES ASSUME NEW i \in 1 .. n - 1
               PROVE  cut[i] = IF i < k THEN o[i] ELSE o[i + 1]
    OBVIOUS
  <2>1. CASE i < k
    <3>1. i \in 1 .. Len(u) + Len(v) /\ i <= Len(u) /\ i \in 1 .. k - 1
      BY <1>1, <1>2, <1>3, <2>1
    <3>2. cut[i] = u[i]
      BY <1>4, <3>1
    <3> QED
      BY <1>2, <2>1, <3>1, <3>2
  <2>2. CASE ~(i < k)
    <3>1. PICK j \in 1 .. n - k : j = i - (k - 1) /\ k + j = i + 1
      BY <1>1, <2>2
    <3>2. i \in 1 .. Len(u) + Len(v) /\ ~(i <= Len(u)) /\ i - Len(u) = j
      BY <1>1, <1>2, <1>3, <2>2, <3>1
    <3>3. cut[i] = v[j]
      BY <1>4, <3>2
    <3>4. v[j] = o[k + j]
      BY <1>3
    <3> QED
      BY <2>2, <3>1, <3>3, <3>4
  <2> QED
    BY <2>1, <2>2
<1>7. \A i, j \in 1 .. n - 1 : cut[i] = cut[j] => i = j
  BY <1>1, <1>6 DEF Lists, n
<1>8. ASSUME NEW q
      PROVE  q \in S \ {o[k]} <=> \E i \in 1 .. n - 1 : cut[i] = q
  <2>1. ASSUME q \in S, q # o[k]
        PROVE  \E i \in 1 .. n - 1 : cut[i] = q
    <3>1. PICK j \in 1 .. n : o[j] = q
      BY <2>1 DEF Lists, n
    <3>2. CASE j < k
      BY <1>1, <1>6, <3>1, <3>2 DEF n
    <3>3. CASE j > k
      <4>1. j - 1 \in 1 .. n - 1 /\ ~(j - 1 < k) /\ j - 1 + 1 = j
        BY <1>1, <3>3
      <4> QED
        BY <1>6, <3>1, <4>1
    <3> QED
      BY <1>1, <2>1, <3>1, <3>2, <3>3
  <2>2. ASSUME NEW i \in 1 .. n - 1, cut[i] = q
        PROVE  q \in S /\ q # o[k]
    <3>1. PICK j \in 1 .. n : j # k /\ o[j] = q
      BY <1>1, <1>6, <2>2
    <3> QED
      BY <3>1 DEF Lists, n
  <2> QED
    BY <2>1, <2>2
<1> QED
  BY <1>4, <1>5, <1>7, <1>8 DEF Lists, n, cut, u, v

-----------------------------------------------------------------------------
(***************************************************************************)
(* The inductive invariant.  Beyond the two properties of the runs, it     *)
(* says which pages a flush in progress has made equal to the remote       *)
(* bytes, and that the operation under way stays inside its range.         *)
(***************************************************************************)
PageOK(p, cached) == cached \in [0 .. PageLength(p) - 1 -> Values]

CacheOK ==
    /\ max_pages \in Nat \ {0}
    /\ remote \in [Bytes -> Values]
    /\ Lists(order, DOMAIN pages) /\ Len(order) <= max_pages
    /\ \A p \in DOMAIN pages : PageOK(p, pages[p])
    /\ flushed \subseteq dirty /\ dirty \subseteq DOMAIN pages
    /\ \A p \in DOMAIN pages : p \in dirty \ flushed \/ pages[p] = Fetch(p)

RequestOK ==
    /\ request \in [kind : {"idle", "read", "write", "flush"}, offset : Nat, length : Nat,
                    data : Seq(Values)]
    /\ request.offset + request.length <= RemoteSize
    /\ request.kind = "write" => Len(request.data) = request.length
    /\ request.kind # "write" => request.data = <<>>
    /\ request.kind = "idle" => request = Idle
    /\ done \in 0 .. request.length
    /\ request.kind # "flush" => flushed = {}
    /\ out \in Seq(Values) /\ (request.kind = "read" => Len(out) = done)
    /\ request.kind # "read" => out = <<>>
    /\ answer \in [ok : BOOLEAN, data : Seq(Values)]

Inv == CacheOK /\ RequestOK

\* A byte of a page in the remote array.
LEMMA FetchType ==
  ASSUME remote \in [Bytes -> Values], NEW p \in PageNumbers
  PROVE  PageOK(p, Fetch(p))
<1>1. \A i \in 0 .. PageLength(p) - 1 : remote[p * PAGE_SIZE + i] \in Values
  BY ByteOfPage
<1> QED
  BY <1>1 DEF Fetch, PageOK

LEMMA CachedNumbers == CacheOK => DOMAIN pages \subseteq PageNumbers
  BY DEF CacheOK, Lists

\* _load_page finds p: only the order changes.
LEMMA HitOrder ==
  ASSUME CacheOK, NEW p \in DOMAIN pages
  PROVE  /\ Lists(Append(Remaining(p), p), DOMAIN pages)
         /\ Len(Append(Remaining(p), p)) = Len(order)
<1>1. DOMAIN order = 1 .. Len(order) /\ Len(order) \in Nat /\ Lists(order, DOMAIN pages)
  BY DEF CacheOK, Lists
<1> DEFINE k == CHOOSE j \in DOMAIN order : order[j] = p
<1>2. k \in 1 .. Len(order) /\ order[k] = p
  BY <1>1 DEF Lists
<1>3. Remaining(p) = SubSeq(order, 1, k - 1) \o SubSeq(order, k + 1, Len(order))
  BY DEF Remaining
<1> HIDE DEF k
<1>4. Lists(Remaining(p), DOMAIN pages \ {p}) /\ Len(Remaining(p)) = Len(order) - 1
  <2>1. Lists(Remaining(p), DOMAIN pages \ {order[k]}) /\ Len(Remaining(p)) = Len(order) - 1
    <3>1. /\ Lists(SubSeq(order, 1, k - 1) \o SubSeq(order, k + 1, Len(order)),
                   DOMAIN pages \ {order[k]})
          /\ Len(SubSeq(order, 1, k - 1) \o SubSeq(order, k + 1, Len(order))) = Len(order) - 1
      BY <1>1, <1>2, ListsCut
    <3> QED
      BY <1>3, <3>1, Zenon
  <2> QED
    BY <1>2, <2>1
<1>5. p \in PageNumbers /\ p \notin DOMAIN pages \ {p}
      /\ (DOMAIN pages \ {p}) \cup {p} = DOMAIN pages
  BY CachedNumbers
<1>6. /\ Lists(Append(Remaining(p), p), (DOMAIN pages \ {p}) \cup {p})
      /\ Len(Append(Remaining(p), p)) = Len(Remaining(p)) + 1
  BY <1>4, <1>5, ListsAppend
<1> QED
  BY <1>1, <1>4, <1>5, <1>6

\* _load_page does not find p: the victim leaves the order.
LEMMA VictimOrder ==
  ASSUME CacheOK
  PROVE  LET rest == IF Victims = {} THEN order ELSE Tail(order)
         IN  /\ Lists(rest, DOMAIN pages \ Victims) /\ Len(rest) < max_pages
             /\ Victims \subseteq DOMAIN pages
             /\ Victims # {} => Victims = {Head(order)} /\ Cardinality(DOMAIN pages) = max_pages
<1>1. /\ Len(order) \in Nat /\ Lists(order, DOMAIN pages) /\ Len(order) <= max_pages
      /\ max_pages \in Nat \ {0} /\ order \in Seq(PageNumbers)
  BY DEF CacheOK, Lists
<1>2. CASE Len(order) < max_pages
  <2>1. Victims = {}
    BY <1>1, <1>2 DEF Victims
  <2> QED
    BY <1>1, <1>2, <2>1
<1>3. CASE Len(order) >= max_pages
  <2>1. Victims = {Head(order)} /\ Len(order) = max_pages /\ order # <<>>
    BY <1>1, <1>3 DEF Victims
  <2>2. Head(order) = order[1] /\ 1 \in 1 .. Len(order)
    BY <1>1, <2>1
  <2>3. Head(order) \in DOMAIN pages
    BY <1>1, <2>2 DEF Lists
  <2>4. Tail(order) = SubSeq(order, 2, Len(order))
    BY <1>1, <2>1, TailIsSubSeq
  <2>5. SubSeq(order, 1, 0) = <<>>
    BY SubSeqEmpty
  <2>6. Tail(order) \in Seq(PageNumbers)
    BY <1>1, <2>1, HeadTailProperties
  <2>7. <<>> \o Tail(order) = Tail(order)
    BY <2>6, ConcatEmptySeq
  <2>8. PICK k \in 1 .. Len(order) : k = 1 /\ k - 1 = 0 /\ k + 1 = 2
    BY <2>2
  <2>9. Lists(Tail(order), DOMAIN pages \ {order[1]}) /\ Len(Tail(order)) = Len(order) - 1
    <3>1. /\ Lists(SubSeq(order, 1, k - 1) \o SubSeq(order, k + 1, Len(order)),
                   DOMAIN pages \ {order[k]})
          /\ Len(SubSeq(order, 1, k - 1) \o SubSeq(order, k + 1, Len(order))) = Len(order) - 1
      BY <1>1, ListsCut
    <3>2. SubSeq(order, 1, k - 1) \o SubSeq(order, k + 1, Len(order)) = Tail(order)
      BY <2>4, <2>5, <2>7, <2>8, Zenon
    <3> QED
      BY <2>8, <3>1, <3>2, Zenon
  <2>10. Cardinality(DOMAIN pages) = max_pages
    BY <1>1, <2>1, ListsCardinality
  <2> QED
    BY <1>1, <2>1, <2>2, <2>3, <2>9, <2>10
<1> QED
  BY <1>1, <1>2, <1>3

\* What _load_page(p) makes of the cache.  It never writes to the remote memory:
\* a dirty victim has left self.pages when _flush_page looks for it.
LoadOK(l, p) ==
    /\ Lists(l.order, DOMAIN l.pages) /\ Len(l.order) <= max_pages
    /\ p \in DOMAIN l.pages /\ DOMAIN l.pages \subseteq DOMAIN pages \cup {p}
    /\ \A q \in DOMAIN l.pages :
         /\ PageOK(q, l.pages[q])
         /\ l.pages[q] = IF q \in DOMAIN pages THEN pages[q] ELSE Fetch(q)
    /\ l.dirty = dirty \cap DOMAIN l.pages
    /\ l.remote = remote
    /\ \/ DOMAIN pages \subseteq DOMAIN l.pages
       \/ p \notin DOMAIN pages /\ Cardinality(DOMAIN pages) = max_pages

LEMMA LoadedOK ==
  ASSUME CacheOK, NEW p \in PageNumbers
  PROVE  LoadOK(Loaded(p), p)
<1>1. CASE p \in DOMAIN pages
  <2>1. PICK l : l = Hit(p)
    OBVIOUS
  <2>2. /\ l.order = Append(Remaining(p), p) /\ l.pages = pages /\ l.dirty = dirty
        /\ l.remote = remote
    BY <2>1 DEF Hit
  <2>3. Lists(l.order, DOMAIN pages) /\ Len(l.order) = Len(order)
    BY <1>1, <2>2, HitOrder
  <2>4. LoadOK(l, p)
    BY <1>1, <2>2, <2>3 DEF LoadOK, CacheOK
  <2> QED
    BY <1>1, <2>1, <2>4 DEF Loaded
<1>2. CASE p \notin DOMAIN pages
  <2>1. PICK l : l = Miss(p)
    OBVIOUS
  <2>2. PICK kept : kept = Without(pages, Victims)
    OBVIOUS
  <2>3. /\ DOMAIN kept = DOMAIN pages \ Victims
        /\ \A q \in DOMAIN kept : kept[q] = pages[q]
    BY <2>2 DEF Without
  <2>4. PICK rest : rest = IF Victims = {} THEN order ELSE Tail(order)
    OBVIOUS
  <2>5. /\ Lists(rest, DOMAIN kept) /\ Len(rest) < max_pages
        /\ Victims \subseteq DOMAIN pages
        /\ Victims # {} => Victims = {Head(order)} /\ Cardinality(DOMAIN pages) = max_pages
    BY <2>3, <2>4, VictimOrder
  <2>6. /\ l.order = Append(rest, p)
        /\ l.pages = [q \in DOMAIN kept \cup {p} |-> IF q = p THEN Fetch(p) ELSE kept[q]]
        /\ l.dirty = dirty \ Victims
        /\ l.remote = IF Victims \cap dirty = {} THEN remote
                      ELSE FlushPage(Head(order), kept, remote)
    BY <2>1, <2>2, <2>4 DEF Miss, DirtyWithout
  <2>7. l.remote = remote
    BY <2>3, <2>5, <2>6 DEF FlushPage
  <2>8. DOMAIN l.pages = DOMAIN kept \cup {p} /\ p \notin DOMAIN kept
    BY <1>2, <2>3, <2>6
  <2>9. Lists(l.order, DOMAIN l.pages) /\ Len(l.order) = Len(rest) + 1
    BY <2>5, <2>6, <2>8, ListsAppend
  <2>10. Len(l.order) <= max_pages
    BY <2>5, <2>9 DEF CacheOK, Lists
  <2>11. ASSUME NEW q \in DOMAIN l.pages
         PROVE  /\ PageOK(q, l.pages[q])
                /\ l.pages[q] = IF q \in DOMAIN pages THEN pages[q] ELSE Fetch(q)
    <3>1. CASE q = p
      BY <1>2, <2>6, <2>8, <3>1, FetchType DEF CacheOK
    <3>2. CASE q # p
      BY <2>3, <2>6, <2>8, <3>2 DEF CacheOK
    <3> QED
      BY <3>1, <3>2
  <2>12. l.dirty = dirty \cap DOMAIN l.pages
    BY <1>2, <2>3, <2>6, <2>8 DEF CacheOK
  <2>13. DOMAIN pages \subseteq DOMAIN l.pages \/ Cardinality(DOMAIN pages) = max_pages
    BY <2>3, <2>5, <2>8
  <2>14. LoadOK(l, p)
    BY <1>2, <2>3, <2>7, <2>8, <2>9, <2>10, <2>11, <2>12, <2>13 DEF LoadOK
  <2> QED
    BY <1>2, <2>1, <2>14 DEF Loaded
<1> QED
  BY <1>1, <1>2

-----------------------------------------------------------------------------
\* The position of the loop of read and write.
LEMMA PositionOK ==
  ASSUME Inv, done < request.length
  PROVE  /\ Position \in Bytes /\ Page \in PageNumbers
         /\ Inside \in 0 .. PageLength(Page) - 1 /\ Page * PAGE_SIZE + Inside = Position
         /\ Count \in 1 .. request.length - done /\ Inside + Count <= PageLength(Page)
         /\ PageLength(Page) \in Nat
<1>1. /\ request.offset \in Nat /\ request.length \in Nat /\ done \in Nat
      /\ request.offset + request.length <= RemoteSize
  BY DEF Inv, RequestOK
<1>2. Position \in Bytes
  BY <1>1, Sizes0 DEF Position, Bytes
<1>3. /\ Page \in PageNumbers /\ Inside \in 0 .. PageLength(Page) - 1
      /\ Page * PAGE_SIZE + Inside = Position
  BY <1>2, PageOfByte DEF Page, Inside
<1>4. PageLength(Page) \in Nat
  BY <1>3, ByteOfPage, Sizes0
<1> HIDE DEF Page, Inside
<1>5. Count \in 1 .. request.length - done /\ Inside + Count <= PageLength(Page)
  BY <1>1, <1>3, <1>4 DEF Count
<1> QED
  BY <1>2, <1>3, <1>4, <1>5

-----------------------------------------------------------------------------
(***************************************************************************)
(* The steps of the cache: an operation that any caller may start, within  *)
(* the remote memory, and the steps of PageCache.                          *)
(***************************************************************************)
LegalStart ==
    \E kind \in {"read", "write", "flush"}, offset \in Nat, length \in Nat, data \in Seq(Values) :
      /\ IF kind = "write" THEN Len(data) = length ELSE data = <<>>
      /\ Start(kind, offset, length, data)

CacheNext == LegalStart \/ Step

\* Fetch depends on the remote array alone.
LEMMA FetchSame == remote' = remote => \A p : Fetch(p)' = Fetch(p)
  BY DEF Fetch

LEMMA NoValues == <<>> \in Seq(Values) /\ Len(<<>>) = 0
  OBVIOUS

LEMMA StartStep ==
  ASSUME Inv, LegalStart
  PROVE  Inv'
<1>1. PICK kind \in {"read", "write", "flush"}, offset \in Nat, length \in Nat,
           data \in Seq(Values) :
        /\ IF kind = "write" THEN Len(data) = length ELSE data = <<>>
        /\ Start(kind, offset, length, data)
  BY DEF LegalStart
<1>2. /\ request = Idle /\ offset + length <= RemoteSize
      /\ request' = [kind |-> kind, offset |-> offset, length |-> length, data |-> data]
      /\ done' = 0 /\ flushed' = {} /\ out' = <<>>
      /\ answer' = [ok |-> TRUE, data |-> <<>>]
      /\ UNCHANGED cacheVars
  BY <1>1 DEF Start, Store!NoAnswer
<1>3. /\ request'.kind = kind /\ request'.offset = offset /\ request'.length = length
      /\ request'.data = data
  BY <1>2
<1>4. RequestOK'
  BY <1>1, <1>2, <1>3, NoValues DEF RequestOK
<1>5. flushed = {}
  BY <1>2 DEF Inv, RequestOK, Idle, Store!Idle
<1>6. CacheOK'
  BY <1>2, <1>5, FetchSame DEF Inv, CacheOK, cacheVars
<1> QED
  BY <1>4, <1>6 DEF Inv

\* An operation ends, with an answer of the right kind.
LEMMA FinishRequest ==
  ASSUME NEW result \in [ok : BOOLEAN, data : Seq(Values)], Finish(result)
  PROVE  RequestOK' /\ flushed' = {}
<1>1. /\ request' = [kind |-> "idle", offset |-> 0, length |-> 0, data |-> <<>>]
      /\ done' = 0 /\ flushed' = {} /\ out' = <<>> /\ answer' = result
  BY DEF Finish, Idle, Store!Idle
<1>2. /\ request'.kind = "idle" /\ request'.offset = 0 /\ request'.length = 0
      /\ request'.data = <<>> /\ request' = Idle'
  BY <1>1 DEF Idle, Store!Idle
<1> QED
  BY <1>1, <1>2, NoValues, Sizes0 DEF RequestOK

LEMMA ErrorType ==
  Store!Error \in [ok : BOOLEAN, data : Seq(Values)]
  /\ Store!NoAnswer \in [ok : BOOLEAN, data : Seq(Values)]
  BY NoValues DEF Store!Error, Store!NoAnswer

\* The cache as it is, with a flush or without.
LEMMA CacheStays ==
  ASSUME CacheOK, UNCHANGED cacheVars, flushed = {}, flushed' = {}
  PROVE  CacheOK'
  BY FetchSame DEF CacheOK, cacheVars

\* _load_page alone.
LEMMA CacheLoads ==
  ASSUME CacheOK, flushed = {}, flushed' = {}, NEW p \in PageNumbers, Become(Loaded(p))
  PROVE  CacheOK'
<1>1. PICK l : l = Loaded(p)
  OBVIOUS
<1>2. LoadOK(l, p)
  BY <1>1, LoadedOK
<1>3. /\ order' = l.order /\ pages' = l.pages /\ dirty' = l.dirty /\ remote' = l.remote
      /\ max_pages' = max_pages
  BY <1>1 DEF Become
<1>4. ASSUME NEW q \in DOMAIN pages'
      PROVE  q \in dirty' \/ pages'[q] = Fetch(q)'
  <2>1. Fetch(q)' = Fetch(q)
    BY <1>2, <1>3, FetchSame DEF LoadOK
  <2>2. CASE q \in DOMAIN pages
    BY <1>2, <1>3, <2>1, <2>2 DEF LoadOK, CacheOK
  <2>3. CASE q \notin DOMAIN pages
    BY <1>2, <1>3, <2>1, <2>3 DEF LoadOK
  <2> QED
    BY <2>2, <2>3
<1> QED
  BY <1>2, <1>3, <1>4 DEF CacheOK, LoadOK

LEMMA StartedKind == Inv /\ request.kind # "flush" => flushed = {}
  BY DEF Inv, RequestOK

LEMMA LoadFailsStep ==
  ASSUME Inv, LoadFails
  PROVE  Inv'
<1>1. flushed = {}
  BY StartedKind DEF LoadFails
<1>2. RequestOK' /\ flushed' = {}
  BY ErrorType, FinishRequest DEF LoadFails
<1> QED
  BY <1>1, <1>2, CacheStays DEF Inv, LoadFails

LEMMA TakenType ==
  ASSUME Inv, done < request.length, NEW data, PageOK(Page, data)
  PROVE  Taken(data) \in Seq(Values) /\ Len(Taken(data)) = Count
<1>1. /\ Inside \in 0 .. PageLength(Page) - 1 /\ Count \in Nat
      /\ Inside + Count <= PageLength(Page) /\ PageLength(Page) \in Nat
  BY PositionOK DEF Inv, RequestOK
<1>2. \A i \in 1 .. Count : data[Inside + i - 1] \in Values
  <2> TAKE i \in 1 .. Count
  <2>1. Inside + i - 1 \in 0 .. PageLength(Page) - 1
    BY <1>1
  <2> QED
    BY <2>1 DEF PageOK
<1>3. Taken(data) \in [1 .. Count -> Values]
  BY <1>2 DEF Taken
<1> QED
  BY <1>1, <1>3

LEMMA ReadPageStep ==
  ASSUME Inv, ReadPage
  PROVE  Inv'
<1>1. PICK l : l = Loaded(Page)
  OBVIOUS
<1>2. /\ request.kind = "read" /\ done < request.length /\ Become(Loaded(Page))
      /\ out' = out \o Taken(l.pages[Page]) /\ done' = done + Count
      /\ request' = request /\ flushed' = flushed /\ answer' = answer
  BY <1>1 DEF ReadPage
<1>3. Page \in PageNumbers /\ Count \in 1 .. request.length - done
  BY <1>2, PositionOK
<1>4. flushed = {} /\ flushed' = {}
  BY <1>2, StartedKind
<1>5. CacheOK'
  BY <1>2, <1>3, <1>4, CacheLoads DEF Inv
<1>6. PageOK(Page, l.pages[Page])
  BY <1>1, <1>3, LoadedOK DEF Inv, LoadOK
<1>7. Taken(l.pages[Page]) \in Seq(Values) /\ Len(Taken(l.pages[Page])) = Count
  BY <1>2, <1>6, TakenType
<1>8. out' \in Seq(Values) /\ Len(out') = done'
  BY <1>2, <1>7 DEF Inv, RequestOK
<1>9. done' \in 0 .. request.length
  BY <1>2, <1>3 DEF Inv, RequestOK
<1>10. RequestOK'
  BY <1>2, <1>4, <1>8, <1>9 DEF Inv, RequestOK, Idle
<1> QED
  BY <1>5, <1>10 DEF Inv

\* The bytes of a write are bytes.
LEMMA PatchedType ==
  ASSUME Inv, request.kind = "write", done < request.length, NEW data, PageOK(Page, data)
  PROVE  PageOK(Page, Patched(data))
<1>1. /\ Inside \in 0 .. PageLength(Page) - 1 /\ Count \in 1 .. request.length - done
      /\ PageLength(Page) \in Nat /\ request.length \in Nat /\ done \in Nat
  BY PositionOK DEF Inv, RequestOK
<1>2. DOMAIN data = 0 .. PageLength(Page) - 1
  BY DEF PageOK
<1>3. ASSUME NEW i \in 0 .. PageLength(Page) - 1, i \in Inside .. Inside + Count - 1
      PROVE  request.data[done + (i - Inside) + 1] \in Values
  <2>1. done + (i - Inside) + 1 \in 1 .. request.length
    BY <1>1, <1>3
  <2>2. request.data \in Seq(Values) /\ Len(request.data) = request.length
    BY DEF Inv, RequestOK
  <2> QED
    BY <2>1, <2>2
<1> QED
  BY <1>2, <1>3 DEF PageOK, Patched

LEMMA MarkedDirtyFields ==
  ASSUME NEW p, NEW l, l = Loaded(p)
  PROVE  /\ MarkedDirty(l).order = l.order /\ MarkedDirty(l).remote = l.remote
         /\ MarkedDirty(l).pages = [l.pages EXCEPT ![Page] = Patched(@)]
         /\ MarkedDirty(l).dirty = l.dirty \cup {Page}
<1>1. DOMAIN l = {"order", "pages", "dirty", "remote"}
  BY DEF Loaded, Hit, Miss
<1> QED
  BY <1>1 DEF MarkedDirty

LEMMA WritePageStep ==
  ASSUME Inv, WritePage
  PROVE  Inv'
<1>1. PICK l : l = Loaded(Page)
  OBVIOUS
<1>2. PICK page : page = Page
  OBVIOUS
<1>3. /\ request.kind = "write" /\ done < request.length /\ Become(MarkedDirty(l))
      /\ done' = done + Count
      /\ request' = request /\ flushed' = flushed /\ out' = out /\ answer' = answer
  BY <1>1 DEF WritePage
<1>4. page \in PageNumbers /\ Count \in 1 .. request.length - done
  BY <1>2, <1>3, PositionOK
<1>5. flushed = {} /\ flushed' = {}
  BY <1>3, StartedKind
<1>6. /\ order' = l.order /\ remote' = l.remote /\ max_pages' = max_pages
      /\ pages' = [l.pages EXCEPT ![page] = Patched(@)]
      /\ dirty' = l.dirty \cup {page}
  BY <1>1, <1>2, <1>3, MarkedDirtyFields DEF Become
<1>7. LoadOK(l, page)
  BY <1>1, <1>2, <1>4, LoadedOK DEF Inv
<1>8. /\ DOMAIN pages' = DOMAIN l.pages /\ pages'[page] = Patched(l.pages[page])
      /\ \A q \in DOMAIN pages' : q # page => pages'[q] = l.pages[q]
  BY <1>6, <1>7 DEF LoadOK
<1>9. PageOK(page, Patched(l.pages[page]))
  BY <1>2, <1>3, <1>7, PatchedType DEF LoadOK
<1>10. \A q \in DOMAIN pages' : PageOK(q, pages'[q])
  BY <1>7, <1>8, <1>9 DEF LoadOK
<1>11. (\A q \in DOMAIN pages : PageOK(q, pages[q]))'
  BY <1>10 DEF PageOK, PageLength
<1>12. ASSUME NEW q \in DOMAIN pages'
       PROVE  q \in dirty' \/ pages'[q] = Fetch(q)'
  <2>1. Fetch(q)' = Fetch(q)
    BY <1>6, <1>7, FetchSame DEF LoadOK
  <2>2. CASE q = page
    BY <1>6, <2>2
  <2>3. CASE q # page /\ q \in DOMAIN pages
    <3>1. pages'[q] = pages[q]
      BY <1>7, <1>8, <2>3 DEF LoadOK
    <3>2. q \in dirty \/ pages[q] = Fetch(q)
      BY <2>3 DEF Inv, CacheOK
    <3> QED
      BY <1>6, <1>7, <1>8, <2>1, <3>1, <3>2 DEF LoadOK
  <2>4. CASE q # page /\ q \notin DOMAIN pages
    BY <1>7, <1>8, <2>1, <2>4 DEF LoadOK
  <2> QED
    BY <2>2, <2>3, <2>4
<1>13. CacheOK'
  <2>1. Lists(order, DOMAIN pages)' /\ Len(order') <= max_pages'
    BY <1>6, <1>7, <1>8 DEF LoadOK, Lists, PageNumbers
  <2>2. dirty' \subseteq DOMAIN pages'
    BY <1>6, <1>7, <1>8 DEF LoadOK
  <2>3. remote' \in [Bytes -> Values] /\ max_pages' \in Nat \ {0}
    BY <1>6, <1>7 DEF LoadOK, Inv, CacheOK
  <2> QED
    BY <1>5, <1>11, <1>12, <2>1, <2>2, <2>3 DEF CacheOK
<1>14. done' \in 0 .. request.length
  BY <1>3, <1>4 DEF Inv, RequestOK
<1>15. RequestOK'
  BY <1>3, <1>5, <1>14 DEF Inv, RequestOK, Idle
<1> QED
  BY <1>13, <1>15 DEF Inv

LEMMA ReturnStep ==
  ASSUME Inv, Return
  PROVE  Inv'
<1>1. flushed = {}
  BY StartedKind DEF Return
<1>2. [ok |-> TRUE, data |-> out] \in [ok : BOOLEAN, data : Seq(Values)]
  BY DEF Inv, RequestOK
<1>3. RequestOK' /\ flushed' = {}
  BY <1>2, FinishRequest DEF Return
<1> QED
  BY <1>1, <1>3, CacheStays DEF Inv, Return

\* _flush_page(p) makes the remote bytes of p the cached ones, and changes no other page.
LEMMA FlushedPage ==
  ASSUME CacheOK, NEW p \in DOMAIN pages, remote' = FlushPage(p, pages, remote)
  PROVE  /\ remote' \in [Bytes -> Values]
         /\ Fetch(p)' = pages[p]
         /\ \A q \in PageNumbers : q # p => Fetch(q)' = Fetch(q)
<1>1. remote' = [b \in Bytes |-> IF b \div PAGE_SIZE = p THEN pages[p][b % PAGE_SIZE]
                                 ELSE remote[b]]
  BY DEF FlushPage
<1>2. p \in PageNumbers /\ pages[p] \in [0 .. PageLength(p) - 1 -> Values]
      /\ remote \in [Bytes -> Values]
  BY CachedNumbers DEF CacheOK, PageOK
<1>3. remote' \in [Bytes -> Values]
  <2>1. ASSUME NEW b \in Bytes, b \div PAGE_SIZE = p
        PROVE  pages[p][b % PAGE_SIZE] \in Values
    BY <1>2, <2>1, PageOfByte
  <2> QED
    BY <1>1, <1>2, <2>1
<1>4. ASSUME NEW q \in PageNumbers, NEW i \in 0 .. PageLength(q) - 1
      PROVE  remote'[q * PAGE_SIZE + i] = IF q = p THEN pages[p][i]
                                          ELSE remote[q * PAGE_SIZE + i]
  <2>1. PICK b \in Bytes : b = q * PAGE_SIZE + i /\ b \div PAGE_SIZE = q
                           /\ (b % PAGE_SIZE) = i
    BY ByteOfPage
  <2>2. remote'[b] = IF b \div PAGE_SIZE = p THEN pages[p][b % PAGE_SIZE] ELSE remote[b]
    BY <1>1
  <2> QED
    BY <2>1, <2>2, Zenon
<1>5. \A q : Fetch(q)' = [i \in 0 .. PageLength(q) - 1 |-> remote'[q * PAGE_SIZE + i]]
  BY DEF Fetch, PageLength
<1>6. Fetch(p)' = pages[p]
  BY <1>2, <1>4, <1>5
<1>7. ASSUME NEW q \in PageNumbers, q # p
      PROVE  Fetch(q)' = Fetch(q)
  BY <1>4, <1>5, <1>7 DEF Fetch
<1> QED
  BY <1>3, <1>6, <1>7

LEMMA FlushOneStep ==
  ASSUME Inv, FlushOne
  PROVE  Inv'
<1>1. PICK p \in dirty \ flushed : /\ remote' = FlushPage(p, pages, remote)
                                   /\ flushed' = flushed \cup {p}
  BY DEF FlushOne
<1>2. /\ request.kind = "flush"
      /\ UNCHANGED <<max_pages, order, pages, dirty, request, done, out, answer>>
  BY DEF FlushOne
<1>3. p \in DOMAIN pages
  BY DEF Inv, CacheOK
<1>4. /\ remote' \in [Bytes -> Values] /\ Fetch(p)' = pages[p]
      /\ \A q \in PageNumbers : q # p => Fetch(q)' = Fetch(q)
  BY <1>1, <1>3, FlushedPage DEF Inv
<1>5. ASSUME NEW q \in DOMAIN pages
      PROVE  q \in dirty' \ flushed' \/ pages'[q] = Fetch(q)'
  BY <1>1, <1>2, <1>4, CachedNumbers DEF Inv, CacheOK
<1>6. CacheOK'
  BY <1>1, <1>2, <1>4, <1>5 DEF Inv, CacheOK
<1>7. RequestOK'
  BY <1>2 DEF Inv, RequestOK, Idle
<1> QED
  BY <1>6, <1>7 DEF Inv

LEMMA FlushFailsStep ==
  ASSUME Inv, FlushFails
  PROVE  Inv'
<1>1. PICK p \in dirty \ flushed : remote' \in {remote, FlushPage(p, pages, remote)}
  BY DEF FlushFails
<1>2. Finish(Store!Error) /\ UNCHANGED <<max_pages, order, pages, dirty>>
  BY DEF FlushFails
<1>3. RequestOK' /\ flushed' = {}
  BY <1>2, ErrorType, FinishRequest
<1>4. p \in DOMAIN pages
  BY DEF Inv, CacheOK
<1>5. /\ remote' \in [Bytes -> Values]
      /\ \A q \in PageNumbers : q # p => Fetch(q)' = Fetch(q)
  <2>1. CASE remote' = remote
    BY <2>1, FetchSame DEF Inv, CacheOK
  <2>2. CASE remote' = FlushPage(p, pages, remote)
    BY <1>4, <2>2, FlushedPage DEF Inv
  <2> QED
    BY <1>1, <2>1, <2>2
<1>6. ASSUME NEW q \in DOMAIN pages
      PROVE  q \in dirty \/ pages[q] = Fetch(q)'
  BY <1>5, CachedNumbers DEF Inv, CacheOK
<1>7. CacheOK'
  BY <1>2, <1>3, <1>5, <1>6 DEF Inv, CacheOK
<1> QED
  BY <1>3, <1>7 DEF Inv

LEMMA FlushDoneStep ==
  ASSUME Inv, FlushDone
  PROVE  Inv'
<1>1. /\ flushed = dirty /\ dirty' = {} /\ Finish(Store!NoAnswer)
      /\ UNCHANGED <<max_pages, remote, order, pages>>
  BY DEF FlushDone
<1>2. RequestOK' /\ flushed' = {}
  BY <1>1, ErrorType, FinishRequest
<1>3. CacheOK'
  BY <1>1, <1>2, FetchSame DEF Inv, CacheOK
<1> QED
  BY <1>2, <1>3 DEF Inv

LEMMA CacheNextInv ==
  ASSUME Inv, CacheNext \/ UNCHANGED vars
  PROVE  Inv'
<1>1. CASE UNCHANGED vars
  BY <1>1, FetchSame DEF Inv, CacheOK, RequestOK, Idle, vars
<1> QED
  BY <1>1, StartStep, LoadFailsStep, ReadPageStep, WritePageStep, ReturnStep, FlushOneStep,
     FlushFailsStep, FlushDoneStep DEF CacheNext, Step

-----------------------------------------------------------------------------
(***************************************************************************)
(* Both specifications take steps of the cache only.                       *)
(***************************************************************************)
LEMMA InitInv == Init => Inv
<1> SUFFICES ASSUME Init PROVE Inv
  OBVIOUS
<1>1. CacheOK
  <2>1. /\ max_pages \in Nat \ {0} /\ remote \in [Bytes -> Values] /\ order = <<>>
        /\ DOMAIN pages = {} /\ dirty = {} /\ flushed = {}
    BY CacheAssumption DEF Init
  <2> QED
    BY <2>1 DEF CacheOK, Lists
<1>2. request = [kind |-> "idle", offset |-> 0, length |-> 0, data |-> <<>>]
  BY DEF Init, Idle, Store!Idle
<1>3. request.kind = "idle" /\ request.offset = 0 /\ request.length = 0 /\ request.data = <<>>
  BY <1>2
<1>4. RequestOK
  BY <1>2, <1>3, NoValues, ErrorType, Sizes0 DEF Init, RequestOK
<1> QED
  BY <1>1, <1>4 DEF Inv

LEMMA StartsAreLegal ==
  StartRead \/ StartWrite \/ StartFlush => LegalStart
<1>1. ASSUME StartRead PROVE LegalStart
  <2>1. PICK offset \in Bytes, n \in ReadLengths : Start("read", offset, n, <<>>)
    BY <1>1 DEF StartRead
  <2>2. offset \in Nat /\ n \in Nat
    BY CacheAssumption DEF Bytes
  <2> QED
    BY <2>1, <2>2, NoValues DEF LegalStart
<1>2. ASSUME StartWrite PROVE LegalStart
  <2>1. PICK offset \in Bytes, w \in Writes : Start("write", offset, Len(w), w)
    BY <1>2 DEF StartWrite
  <2>2. offset \in Nat /\ w \in Seq(Values) /\ Len(w) \in Nat
    BY CacheAssumption DEF Bytes
  <2> QED
    BY <2>1, <2>2 DEF LegalStart
<1>3. ASSUME StartFlush PROVE LegalStart
  BY <1>3, NoValues DEF StartFlush, LegalStart
<1> QED
  BY <1>1, <1>2, <1>3

LEMMA NextIsCacheNext == Next => CacheNext
  BY StartsAreLegal DEF Next, CacheNext

\* The regions, and the fill or close() under way.  After the flush of a close()
\* that returned, nothing is dirty until the close() is over.
ApiOK ==
    /\ next_offset \in Nat
    /\ regions \in Seq([offset : Nat, size : Nat \ {0}, closed : BOOLEAN])
    /\ call.op \in {"none", "fill", "close"}
    /\ call.op = "fill" =>
         /\ call.region \in DOMAIN regions /\ call.value \in FillValues
         /\ call.pos \in 1 .. regions[call.region].size
    /\ call.op = "close" =>
         /\ request.kind \in {"idle", "flush"}
         /\ request.kind = "idle" /\ answer.ok => dirty = {}

LEMMA RegionType ==
  ASSUME ApiOK, NEW i \in DOMAIN regions
  PROVE  /\ regions[i] \in [offset : Nat, size : Nat \ {0}, closed : BOOLEAN]
         /\ regions[i].offset \in Nat /\ regions[i].size \in Nat \ {0}
         /\ 0 \in 0 .. regions[i].size - 1
         /\ Closed(regions[i]) \in [offset : Nat, size : Nat \ {0}, closed : BOOLEAN]
<1>1. regions \in Seq([offset : Nat, size : Nat \ {0}, closed : BOOLEAN])
  BY DEF ApiOK
<1>2. i \in 1 .. Len(regions)
  BY <1>1, LenProperties
<1>3. regions[i] \in [offset : Nat, size : Nat \ {0}, closed : BOOLEAN]
  BY <1>1, <1>2, ElementOfSeq
<1>4. regions[i].offset \in Nat /\ regions[i].size \in Nat \ {0}
  BY <1>3
<1>5. 0 \in 0 .. regions[i].size - 1
  BY <1>4
<1>6. Closed(regions[i]) \in [offset : Nat, size : Nat \ {0}, closed : BOOLEAN]
  BY <1>3 DEF Closed
<1> QED
  BY <1>3, <1>4, <1>5, <1>6

LEMMA ChunkType ==
  ASSUME NEW left \in Nat \ {0}
  PROVE  ChunkLength(left) \in 1 .. left
  BY ApiAssumption DEF ChunkLength

LEMMA WriteChunkLegal ==
  ASSUME ApiOK, NEW i \in DOMAIN regions, NEW value \in FillValues,
         NEW pos \in 0 .. regions[i].size - 1, WriteChunk(i, value, pos)
  PROVE  /\ LegalStart /\ call'.op = "fill" /\ call'.region = i /\ call'.value = value
         /\ call'.pos = pos + ChunkLength(regions[i].size - pos)
         /\ call'.pos \in 1 .. regions[i].size
         /\ UNCHANGED <<next_offset, regions>>
<1>1. regions[i].offset \in Nat /\ regions[i].size \in Nat \ {0}
  BY RegionType
<1>2. PICK n \in 1 .. regions[i].size - pos : n = ChunkLength(regions[i].size - pos)
  BY <1>1, ChunkType
<1>3. /\ Start("write", regions[i].offset + pos, n, [k \in 1 .. n |-> value])
      /\ call' = [op |-> "fill", region |-> i, value |-> value, pos |-> pos + n]
      /\ UNCHANGED <<next_offset, regions>>
  BY <1>2 DEF WriteChunk
<1>4. value \in Values /\ n \in Nat
  BY <1>1, <1>2, ApiAssumption
<1>5. [k \in 1 .. n |-> value] \in Seq(Values) /\ Len([k \in 1 .. n |-> value]) = n
  <2>1. [k \in 1 .. n |-> value] \in [1 .. n -> Values]
    BY <1>4
  <2> QED
    BY <1>4, <2>1
<1>6. regions[i].offset + pos \in Nat
  BY <1>1
<1>7. LegalStart
  BY <1>3, <1>4, <1>5, <1>6 DEF LegalStart
<1> QED
  BY <1>1, <1>2, <1>3, <1>7

LEMMA InitApiInv == InitApi => Inv /\ ApiOK
  BY InitInv DEF InitApi, ApiOK, NoCall

LEMMA IdleKind == request = Idle => request.kind = "idle"
  BY DEF Idle, Store!Idle

LEMMA NextApiInv ==
  ASSUME Inv, ApiOK, [NextApi]_<<vars, apiVars>>
  PROVE  /\ CacheNext \/ UNCHANGED vars
         /\ ApiOK'
<1>1. CASE Allocate
  <2>1. PICK size \in Sizes :
          /\ regions' = Append(regions,
                               [offset |-> next_offset, size |-> size, closed |-> FALSE])
          /\ next_offset' = NextOffset(size)
    BY <1>1 DEF Allocate
  <2>2. size \in Nat \ {0} /\ call = NoCall /\ UNCHANGED <<vars, call>>
    BY <1>1, ApiAssumption DEF Allocate, Ready
  <2>3. call'.op = "none"
    BY <2>2 DEF NoCall
  <2> QED
    BY <2>1, <2>2, <2>3 DEF ApiOK, NextOffset
<1>2. CASE Access \/ Flush
  <2>1. LegalStart /\ UNCHANGED apiVars /\ call.op = "none"
    BY <1>2, StartsAreLegal DEF Access, Flush, Ready, NoCall
  <2> QED
    BY <2>1 DEF CacheNext, ApiOK, apiVars
<1>3. CASE StartFill
  <2>1. PICK i \in DOMAIN regions, value \in FillValues : WriteChunk(i, value, 0)
    BY <1>3 DEF StartFill
  <2>2. 0 \in 0 .. regions[i].size - 1
    BY RegionType
  <2>3. /\ LegalStart /\ call'.op = "fill" /\ call'.region = i /\ call'.value = value
        /\ call'.pos \in 1 .. regions[i].size /\ UNCHANGED <<next_offset, regions>>
    BY <2>1, <2>2, WriteChunkLegal
  <2> QED
    BY <2>3 DEF CacheNext, ApiOK
<1>4. CASE CloseRegion
  <2>1. PICK i \in DOMAIN regions : regions' = [regions EXCEPT ![i] = Closed(@)]
    BY <1>4 DEF CloseRegion
  <2>2. UNCHANGED <<vars, next_offset, call>> /\ call.op = "none"
    BY <1>4 DEF CloseRegion, Ready, NoCall
  <2>3. Closed(regions[i]) \in [offset : Nat, size : Nat \ {0}, closed : BOOLEAN]
    BY RegionType
  <2>4. regions' \in Seq([offset : Nat, size : Nat \ {0}, closed : BOOLEAN])
    BY <2>1, <2>3 DEF ApiOK
  <2> QED
    BY <2>2, <2>4 DEF ApiOK
<1>5. CASE StartClose
  <2>1. StartFlush /\ call'.op = "close" /\ UNCHANGED <<next_offset, regions>>
    BY <1>5 DEF StartClose, NoCall
  <2>2. request'.kind = "flush"
    BY <2>1 DEF StartFlush, Start
  <2> QED
    BY <2>1, <2>2, StartsAreLegal DEF CacheNext, ApiOK
<1>6. CASE CacheStep
  <2>1. Step /\ UNCHANGED apiVars
    BY <1>6 DEF CacheStep
  <2>2. ASSUME call.op = "close"
        PROVE  /\ request'.kind \in {"idle", "flush"}
               /\ request'.kind = "idle" /\ answer'.ok => dirty' = {}
    <3>1. request.kind \in {"idle", "flush"}
      BY <2>2 DEF ApiOK
    <3>2. FlushOne \/ FlushFails \/ FlushDone
      BY <2>1, <3>1 DEF Step, LoadFails, ReadPage, WritePage, Return
    <3>3. CASE FlushOne
      BY <3>3 DEF FlushOne
    <3>4. CASE FlushFails
      BY <3>4 DEF FlushFails, Finish, Idle, Store!Idle, Store!Error
    <3>5. CASE FlushDone
      BY <3>5 DEF FlushDone, Finish, Idle, Store!Idle
    <3> QED
      BY <3>2, <3>3, <3>4, <3>5
  <2> QED
    BY <2>1, <2>2 DEF CacheNext, ApiOK, apiVars
<1>7. CASE NextChunk
  <2>1. /\ call.op = "fill" /\ call.pos # regions[call.region].size
        /\ WriteChunk(call.region, call.value, call.pos)
    BY <1>7 DEF NextChunk, ChunkOver, Filled
  <2>2. /\ call.region \in DOMAIN regions /\ call.value \in FillValues
        /\ call.pos \in 0 .. regions[call.region].size - 1
    <3>1. /\ call.region \in DOMAIN regions /\ call.value \in FillValues
          /\ call.pos \in 1 .. regions[call.region].size
      BY <2>1 DEF ApiOK
    <3>2. regions[call.region].size \in Nat
      BY <3>1, RegionType
    <3> QED
      BY <2>1, <3>1, <3>2
  <2>3. /\ LegalStart /\ call'.op = "fill" /\ call'.region = call.region
        /\ call'.value = call.value
        /\ call'.pos \in 1 .. regions[call.region].size /\ UNCHANGED <<next_offset, regions>>
    BY <2>1, <2>2, WriteChunkLegal
  <2> QED
    BY <2>2, <2>3 DEF CacheNext, ApiOK
<1>8. CASE FillEnds
  BY <1>8 DEF FillEnds, NoCall, ApiOK
<1>9. CASE EndClose
  <2>1. /\ regions' = AfterFlush /\ call' = NoCall /\ UNCHANGED <<vars, next_offset>>
    BY <1>9 DEF EndClose
  <2>2. regions' \in Seq([offset : Nat, size : Nat \ {0}, closed : BOOLEAN])
    <3>1. \A i \in DOMAIN regions :
            Closed(regions[i]) \in [offset : Nat, size : Nat \ {0}, closed : BOOLEAN]
      BY RegionType
    <3>2. DOMAIN regions = 1 .. Len(regions) /\ Len(regions) \in Nat
      BY DEF ApiOK
    <3>3. [i \in DOMAIN regions |-> Closed(regions[i])]
            \in [1 .. Len(regions) -> [offset : Nat, size : Nat \ {0}, closed : BOOLEAN]]
      BY <3>1, <3>2
    <3>4. [i \in DOMAIN regions |-> Closed(regions[i])]
            \in Seq([offset : Nat, size : Nat \ {0}, closed : BOOLEAN])
      BY <3>2, <3>3
    <3> QED
      BY <2>1, <3>4 DEF ApiOK, AfterFlush
  <2> QED
    BY <2>1, <2>2 DEF ApiOK, NoCall
<1>10. CASE UNCHANGED <<vars, apiVars>>
  BY <1>10 DEF ApiOK, vars, apiVars
<1> QED
  BY <1>1, <1>2, <1>3, <1>4, <1>5, <1>6, <1>7, <1>8, <1>9, <1>10 DEF NextApi, CallStep

LEMMA CacheInvariant == Spec => []Inv
<1>1. Inv /\ [Next]_vars => Inv'
  BY NextIsCacheNext, CacheNextInv
<1> QED
  BY InitInv, <1>1, PTL DEF Spec

LEMMA ApiInvariant == ApiSpec => [](Inv /\ ApiOK)
<1>1. Inv /\ ApiOK /\ [NextApi]_<<vars, apiVars>> => (Inv /\ ApiOK)'
  BY NextApiInv, CacheNextInv
<1> QED
  BY InitApiInv, <1>1, PTL DEF ApiSpec

-----------------------------------------------------------------------------
(***************************************************************************)
(* The state invariants, of the cache alone and under the application API. *)
(***************************************************************************)
LEMMA InvTypeOK == Inv => TypeOK
  BY CachedNumbers DEF Inv, CacheOK, RequestOK, TypeOK, Lists, PageOK, Store!Kinds

LEMMA InvBounded == Inv => CacheBounded
<1> SUFFICES ASSUME Inv PROVE CacheBounded
  OBVIOUS
<1>1. Lists(order, DOMAIN pages) /\ Len(order) <= max_pages /\ dirty \subseteq DOMAIN pages
  BY DEF Inv, CacheOK
<1>2. Cardinality(DOMAIN pages) = Len(order)
  BY <1>1, ListsCardinality
<1>3. {order[i] : i \in 1 .. Len(order)} = DOMAIN pages
  <2>1. \A p : p \in {order[i] : i \in 1 .. Len(order)} <=> p \in DOMAIN pages
    BY <1>1 DEF Lists
  <2> QED
    BY <2>1
<1> QED
  BY <1>1, <1>2, <1>3 DEF CacheBounded

LEMMA InvClean == Inv => CleanMatches
  BY DEF Inv, CacheOK, CleanMatches

(***************************************************************************)
(* Every variable keeps its type, whatever operations are called and       *)
(* whichever of their calls to the local API fail.                         *)
(***************************************************************************)
THEOREM CacheTypeCorrect == (Spec => []TypeOK) /\ (ApiSpec => []TypeOK)
  BY CacheInvariant, ApiInvariant, InvTypeOK, PTL

(***************************************************************************)
(* The cache never holds more pages than max_pages, the OrderedDict lists  *)
(* each of them once, and self.dirty names cached pages only               *)
(* (ramlink_cache_manager.py:105-118).                                     *)
(***************************************************************************)
THEOREM CacheStaysBounded == (Spec => []CacheBounded) /\ (ApiSpec => []CacheBounded)
  BY CacheInvariant, ApiInvariant, InvBounded, PTL

(***************************************************************************)
(* A cached page that is not dirty equals the remote bytes, after any      *)
(* number of evictions, failed flushes and half-done writes                *)
(* (ramlink_cache_manager.py:102, 149, 154-158).                           *)
(***************************************************************************)
THEOREM CleanPagesMatch == (Spec => []CleanMatches) /\ (ApiSpec => []CleanMatches)
  BY CacheInvariant, ApiInvariant, InvClean, PTL

-----------------------------------------------------------------------------
\* What the callers see, byte by byte.

LEMMA ContentsType ==
  ASSUME CacheOK
  PROVE  /\ contents \in [Bytes -> Values]
         /\ \A b \in Bytes : contents[b] = IF b \div PAGE_SIZE \in DOMAIN pages
                                           THEN pages[b \div PAGE_SIZE][b % PAGE_SIZE]
                                           ELSE remote[b]
<1>1. ASSUME NEW b \in Bytes, b \div PAGE_SIZE \in DOMAIN pages
      PROVE  pages[b \div PAGE_SIZE][b % PAGE_SIZE] \in Values
  <2>1. b % PAGE_SIZE \in 0 .. PageLength(b \div PAGE_SIZE) - 1
    BY PageOfByte
  <2>2. pages[b \div PAGE_SIZE] \in [0 .. PageLength(b \div PAGE_SIZE) - 1 -> Values]
    BY <1>1 DEF CacheOK, PageOK
  <2> QED
    BY <2>1, <2>2, Zenon
<1>2. \A b \in Bytes : remote[b] \in Values
  BY DEF CacheOK
<1> QED
  BY <1>1, <1>2 DEF contents, View

\* The byte b of a fetched page.
LEMMA FetchByte ==
  ASSUME NEW b \in Bytes
  PROVE  Fetch(b \div PAGE_SIZE)[b % PAGE_SIZE] = remote[b]
<1>1. PICK p, i : p = b \div PAGE_SIZE /\ i = (b % PAGE_SIZE)
  OBVIOUS
<1>2. i \in 0 .. PageLength(p) - 1 /\ p * PAGE_SIZE + i = b
  BY <1>1, PageOfByte
<1>3. Fetch(p)[i] = remote[p * PAGE_SIZE + i]
  BY <1>2 DEF Fetch
<1> QED
  BY <1>1, <1>2, <1>3

\* With nothing dirty, the remote memory holds all that the cache does.
LEMMA AllClean ==
  ASSUME CacheOK, dirty = {}
  PROVE  contents = remote
<1>1. ASSUME NEW b \in Bytes
      PROVE  contents[b] = remote[b]
  <2>1. CASE b \div PAGE_SIZE \in DOMAIN pages
    <3>1. pages[b \div PAGE_SIZE] = Fetch(b \div PAGE_SIZE)
      BY <2>1 DEF CacheOK
    <3> QED
      BY <2>1, <3>1, FetchByte, ContentsType
  <2>2. CASE b \div PAGE_SIZE \notin DOMAIN pages
    BY <2>2, ContentsType
  <2> QED
    BY <2>1, <2>2
<1> QED
  BY <1>1, ContentsType DEF CacheOK

(***************************************************************************)
(* close() closes the regions only when the remote memory holds all that   *)
(* the cache does: after a flush that raised, they stay open               *)
(* (ramlink_memory_api.py:219-222).                                        *)
(***************************************************************************)
THEOREM ApiClosesAfterFlush == ApiSpec => CloseAfterFlush
<1>1. Inv /\ ApiOK /\ [NextApi]_<<vars, apiVars>>
        => [call.op = "close" /\ regions' # regions
              => remote = contents /\ dirty = {}]_regions
  <2> SUFFICES ASSUME Inv, ApiOK, [NextApi]_<<vars, apiVars>>, call.op = "close",
                      regions' # regions
               PROVE  remote = contents /\ dirty = {}
    OBVIOUS
  <2>1. EndClose
    BY DEF NextApi, CallStep, Allocate, Access, Flush, StartFill, CloseRegion, StartClose,
       CacheStep, NextChunk, WriteChunk, ChunkOver, FillEnds, Ready, NoCall, apiVars
  <2>2. answer.ok /\ request = Idle
    BY <2>1 DEF EndClose, AfterFlush
  <2>3. dirty = {}
    BY <2>2, IdleKind DEF ApiOK
  <2> QED
    BY <2>3, AllClean DEF Inv
<1> QED
  BY <1>1, ApiInvariant, PTL DEF ApiSpec, CloseAfterFlush

-----------------------------------------------------------------------------
\* A page that is loaded or evicted changes what callers see only if it was dirty.
LEMMA LoadSpares ==
  ASSUME CacheOK, flushed = {}, NEW p \in PageNumbers, NEW l, LoadOK(l, p), NEW b \in Bytes,
         b \div PAGE_SIZE \notin dirty \/ b \div PAGE_SIZE \in DOMAIN l.pages
  PROVE  (IF b \div PAGE_SIZE \in DOMAIN l.pages
          THEN l.pages[b \div PAGE_SIZE][b % PAGE_SIZE] ELSE remote[b]) = contents[b]
<1>1. PICK q, i : q = b \div PAGE_SIZE /\ i = (b % PAGE_SIZE)
  OBVIOUS
<1>2. /\ contents[b] = IF q \in DOMAIN pages THEN pages[q][i] ELSE remote[b]
      /\ Fetch(q)[i] = remote[b]
  BY <1>1, ContentsType, FetchByte
<1>3. CASE q \in DOMAIN l.pages
  <2>1. l.pages[q] = IF q \in DOMAIN pages THEN pages[q] ELSE Fetch(q)
    BY <1>3 DEF LoadOK
  <2> QED
    BY <1>1, <1>2, <1>3, <2>1
<1>4. CASE q \notin DOMAIN l.pages
  <2>1. q \in DOMAIN pages => pages[q] = Fetch(q)
    BY <1>1, <1>4 DEF CacheOK
  <2> QED
    BY <1>1, <1>2, <1>4, <2>1
<1> QED
  BY <1>1, <1>3, <1>4

LEMMA ContentsNext ==
  ASSUME NEW b \in Bytes
  PROVE  contents'[b] = IF b \div PAGE_SIZE \in DOMAIN pages'
                        THEN pages'[b \div PAGE_SIZE][b % PAGE_SIZE] ELSE remote'[b]
  BY DEF contents, View

\* A byte of the page that is written, before and after it.
LEMMA PatchedByte ==
  ASSUME Inv, request.kind = "write", done < request.length, NEW data, PageOK(Page, data),
         NEW b \in Bytes, b \div PAGE_SIZE = Page
  PROVE  Patched(data)[b % PAGE_SIZE] = IF b \in Position .. Position + Count - 1
                                        THEN request.data[done + (b - Position) + 1]
                                        ELSE data[b % PAGE_SIZE]
<1>1. PICK page, inside, position, n :
        page = Page /\ inside = Inside /\ position = Position /\ n = Count
  OBVIOUS
<1>2. /\ position \in Nat /\ page \in PageNumbers /\ inside \in Nat
      /\ page * PAGE_SIZE + inside = position /\ n \in Nat
      /\ PageLength(page) \in Nat /\ inside + n <= PageLength(page)
  BY <1>1, PositionOK DEF Bytes, Inv, RequestOK
<1>3. PICK start \in Nat : start = page * PAGE_SIZE /\ start + inside = position
  BY <1>2, Scale, ByteOfPage
<1>4. PICK i \in 0 .. PageLength(page) - 1 : i = (b % PAGE_SIZE) /\ start + i = b
  BY <1>1, <1>3, PageOfByte
<1>5. DOMAIN data = 0 .. PageLength(page) - 1
  BY <1>1 DEF PageOK
<1>6. /\ i \in inside .. inside + n - 1 <=> b \in position .. position + n - 1
      /\ i - inside = b - position
  BY <1>2, <1>3, <1>4
<1>7. Patched(data)[i] = IF i \in inside .. inside + n - 1
                         THEN request.data[done + (i - inside) + 1] ELSE data[i]
  BY <1>1, <1>4, <1>5 DEF Patched
<1> QED
  BY <1>1, <1>4, <1>6, <1>7, Zenon

\* What ReadPage does to the bytes callers see.
LEMMA ReadSpares ==
  ASSUME Inv, ReadPage, NEW b \in Bytes,
         b \div PAGE_SIZE \notin dirty \/ b \div PAGE_SIZE \in DOMAIN pages'
  PROVE  contents'[b] = contents[b]
<1>1. PICK l : l = Loaded(Page)
  OBVIOUS
<1>2. pages' = l.pages /\ remote' = l.remote /\ flushed = {} /\ done < request.length
  BY <1>1, StartedKind DEF ReadPage, Become
<1>3. Page \in PageNumbers
  BY <1>2, PositionOK
<1>4. LoadOK(l, Page)
  BY <1>1, <1>3, LoadedOK DEF Inv
<1>5. (IF b \div PAGE_SIZE \in DOMAIN l.pages
       THEN l.pages[b \div PAGE_SIZE][b % PAGE_SIZE] ELSE remote[b]) = contents[b]
  BY <1>2, <1>3, <1>4, LoadSpares DEF Inv
<1> QED
  BY <1>2, <1>4, <1>5, ContentsNext DEF LoadOK

\* What WritePage does to them.
LEMMA WriteSpares ==
  ASSUME Inv, WritePage, NEW b \in Bytes,
         b \div PAGE_SIZE \notin dirty \/ b \div PAGE_SIZE \in DOMAIN pages'
  PROVE  contents'[b] = IF b \in Position .. Position + Count - 1
                        THEN request.data[done + (b - Position) + 1] ELSE contents[b]
<1>1. PICK l : l = Loaded(Page)
  OBVIOUS
<1>2. PICK page : page = Page
  OBVIOUS
<1>3. /\ pages' = [l.pages EXCEPT ![page] = Patched(@)] /\ remote' = l.remote
      /\ flushed = {} /\ request.kind = "write" /\ done < request.length
  BY <1>1, <1>2, StartedKind, MarkedDirtyFields DEF WritePage, Become
<1>4. page \in PageNumbers
  BY <1>2, <1>3, PositionOK
<1>5. LoadOK(l, page)
  BY <1>1, <1>2, <1>4, LoadedOK DEF Inv
<1>6. DOMAIN pages' = DOMAIN l.pages /\ page \in DOMAIN l.pages
  BY <1>3, <1>5 DEF LoadOK
<1>7. PICK q, i : q = b \div PAGE_SIZE /\ i = (b % PAGE_SIZE)
  OBVIOUS
<1>8. (IF q \in DOMAIN l.pages THEN l.pages[q][i] ELSE remote[b]) = contents[b]
  BY <1>3, <1>4, <1>5, <1>6, <1>7, LoadSpares DEF Inv
<1>9. contents'[b] = IF q \in DOMAIN pages' THEN pages'[q][i] ELSE remote[b]
  BY <1>3, <1>5, <1>7, ContentsNext DEF LoadOK
<1>10. CASE q = page
  <2>1. PageOK(page, l.pages[page])
    BY <1>5 DEF LoadOK
  <2>2. Patched(l.pages[page])[i] = IF b \in Position .. Position + Count - 1
                                    THEN request.data[done + (b - Position) + 1]
                                    ELSE l.pages[page][i]
    BY <1>2, <1>3, <1>7, <1>10, <2>1, PatchedByte
  <2>3. contents'[b] = Patched(l.pages[page])[i] /\ contents[b] = l.pages[page][i]
    BY <1>3, <1>6, <1>8, <1>9, <1>10
  <2> QED
    BY <2>2, <2>3, Zenon
<1>11. CASE q # page
  <2>1. b \notin Position .. Position + Count - 1
    <3>1. PICK position, n, inside :
            position = Position /\ n = Count /\ inside = Inside
      OBVIOUS
    <3>2. /\ position \in Nat /\ n \in Nat /\ inside \in Nat
          /\ page * PAGE_SIZE + inside = position
          /\ PageLength(page) \in 1 .. PAGE_SIZE /\ inside + n <= PageLength(page)
      BY <1>2, <1>3, <1>4, <3>1, PositionOK, ByteOfPage DEF Bytes, Inv, RequestOK
    <3>3. PICK start \in Nat : start = page * PAGE_SIZE /\ start + inside = position
      BY <1>4, <3>2, Scale, ByteOfPage
    <3> SUFFICES ASSUME b \in position .. position + n - 1 PROVE FALSE
      BY <3>1
    <3>4. PICK j \in 0 .. PageLength(page) - 1 : b = start + j
      <4>1. PICK len \in Nat : len = PageLength(page)
        BY <3>2, Sizes0
      <4>2. b \in Nat /\ start <= b /\ b <= start + inside + n - 1 /\ inside + n <= len
        BY <3>2, <3>3, <4>1
      <4>3. b - start \in 0 .. len - 1 /\ b = start + (b - start)
        BY <3>2, <4>2
      <4> QED
        BY <4>1, <4>3
    <3>5. (page * PAGE_SIZE + j) \div PAGE_SIZE = page
      BY <1>4, ByteOfPage
    <3> QED
      BY <1>7, <1>11, <3>3, <3>4, <3>5
  <2>2. contents'[b] = contents[b]
    <3>1. q \in DOMAIN l.pages => pages'[q] = l.pages[q]
      BY <1>3, <1>11
    <3> QED
      BY <1>6, <1>8, <1>9, <3>1, Zenon
  <2> QED
    BY <2>1, <2>2, Zenon
<1> QED
  BY <1>10, <1>11

\* Writing a page back is nothing callers see.
LEMMA FlushSpares ==
  ASSUME CacheOK, NEW p \in DOMAIN pages, remote' \in {remote, FlushPage(p, pages, remote)},
         pages' = pages
  PROVE  contents' = contents
<1>1. ASSUME NEW b \in Bytes, b \div PAGE_SIZE \notin DOMAIN pages
      PROVE  remote'[b] = remote[b]
  BY <1>1 DEF FlushPage
<1>2. contents = [b \in Bytes |-> IF b \div PAGE_SIZE \in DOMAIN pages
                                  THEN pages[b \div PAGE_SIZE][b % PAGE_SIZE] ELSE remote[b]]
  BY DEF contents, View
<1>3. contents' = [b \in Bytes |-> IF b \div PAGE_SIZE \in DOMAIN pages
                                  THEN pages[b \div PAGE_SIZE][b % PAGE_SIZE] ELSE remote'[b]]
  BY DEF contents, View
<1> QED
  BY <1>1, <1>2, <1>3

LEMMA SameContents == pages' = pages /\ remote' = remote => contents' = contents
  BY DEF contents, View

LEMMA WriteRange ==
  ASSUME Inv, request.kind = "write", done < request.length
  PROVE  Position .. Position + Count - 1 \subseteq Written
<1>1. /\ Count \in 1 .. request.length - done /\ request.offset \in Nat
      /\ request.length \in Nat /\ done \in Nat
  BY PositionOK DEF Inv, RequestOK
<1> HIDE DEF Count
<1> QED
  BY <1>1 DEF Written, Position

LEMMA LossStep ==
  ASSUME Inv, CacheNext \/ UNCHANGED vars, NEW b \in Bytes \ Written,
         contents'[b] # contents[b]
  PROVE  b \div PAGE_SIZE \in dirty \ DOMAIN pages'
<1>1. CASE LegalStart
  BY <1>1, SameContents DEF LegalStart, Start, cacheVars
<1>2. CASE UNCHANGED vars
  BY <1>2, SameContents DEF vars
<1>3. CASE LoadFails \/ Return
  BY <1>3, SameContents DEF LoadFails, Return, cacheVars
<1>4. CASE ReadPage
  BY <1>4, ReadSpares
<1>5. CASE WritePage
  <2>1. b \notin Position .. Position + Count - 1
    BY <1>5, WriteRange DEF WritePage
  <2> QED
    BY <1>5, <2>1, WriteSpares
<1>6. CASE FlushOne \/ FlushFails
  <2>1. PICK p \in dirty : remote' \in {remote, FlushPage(p, pages, remote)}
    BY <1>6 DEF FlushOne, FlushFails
  <2>2. p \in DOMAIN pages /\ pages' = pages
    BY <1>6 DEF FlushOne, FlushFails, Inv, CacheOK
  <2> QED
    BY <2>1, <2>2, FlushSpares DEF Inv
<1>7. CASE FlushDone
  BY <1>7, SameContents DEF FlushDone
<1> QED
  BY <1>1, <1>2, <1>3, <1>4, <1>5, <1>6, <1>7 DEF CacheNext, Step

(***************************************************************************)
(* Outside the range of the write under way no byte changes its value,     *)
(* except those of a dirty page that is evicted                            *)
(* (ramlink_cache_manager.py:105-112).                                     *)
(***************************************************************************)
THEOREM CacheLosesDirtyOnly ==
  (Spec => LossOnlyByDirtyEviction) /\ (ApiSpec => LossOnlyByDirtyEviction)
<1>1. Inv /\ [Next]_vars
        => [\A b \in Bytes \ Written :
              contents'[b] # contents[b] => b \div PAGE_SIZE \in dirty \ DOMAIN pages']_vars
  BY NextIsCacheNext, LossStep
<1>2. Inv /\ ApiOK /\ [NextApi]_<<vars, apiVars>>
        => [\A b \in Bytes \ Written :
              contents'[b] # contents[b] => b \div PAGE_SIZE \in dirty \ DOMAIN pages']_vars
  BY NextApiInv, LossStep
<1>3. Spec => LossOnlyByDirtyEviction
  BY <1>1, CacheInvariant, PTL DEF Spec, LossOnlyByDirtyEviction
<1>4. ApiSpec => LossOnlyByDirtyEviction
  BY <1>2, ApiInvariant, PTL DEF ApiSpec, LossOnlyByDirtyEviction
<1> QED
  BY <1>3, <1>4

-----------------------------------------------------------------------------
(***************************************************************************)
(* The part of OperationsEnd that needs no fairness.  Left bounds the      *)
(* turns that the operation under way still takes: the bytes not handled   *)
(* yet, or the dirty pages not written yet, and the return.  Every step    *)
(* that is taken while there is one decreases it: the loops advance at     *)
(* page boundaries, in the short last page and whatever is evicted, and    *)
(* writing pages makes no page dirty                                       *)
(* (ramlink_cache_manager.py:127-134, 143-158).                            *)
(***************************************************************************)
Left ==
    CASE request.kind \in {"read", "write"} -> 1 + request.length - done
      [] request.kind = "flush" -> 1 + Cardinality(dirty \ flushed)
      [] request.kind = "idle" -> 0

OperationsAdvance == [][request.kind # "idle" => Left \in Nat /\ Left' < Left]_vars

LEMMA UnwrittenFinite ==
  ASSUME Inv
  PROVE  IsFiniteSet(dirty \ flushed) /\ Cardinality(dirty \ flushed) \in Nat
<1>1. Lists(order, DOMAIN pages) /\ dirty \ flushed \subseteq DOMAIN pages
  BY DEF Inv, CacheOK
<1>2. IsFiniteSet(DOMAIN pages)
  BY <1>1, ListsCardinality
<1>3. IsFiniteSet(dirty \ flushed)
  BY <1>1, <1>2, FS_Subset
<1> QED
  BY <1>3, FS_CardinalityType

LEMMA LeftPositive ==
  ASSUME Inv, request.kind # "idle"
  PROVE  Left \in Nat /\ Left > 0
<1>1. CASE request.kind \in {"read", "write"}
  <2>1. Left = 1 + request.length - done
    BY <1>1 DEF Left
  <2>2. request.length \in Nat /\ done \in 0 .. request.length
    BY DEF Inv, RequestOK
  <2> QED
    BY <2>1, <2>2
<1>2. CASE request.kind = "flush"
  <2>1. Left = 1 + Cardinality(dirty \ flushed)
    BY <1>2 DEF Left
  <2> QED
    BY <2>1, UnwrittenFinite
<1> QED
  BY <1>1, <1>2 DEF Inv, RequestOK

LEMMA StepAdvances ==
  ASSUME Inv, Step
  PROVE  request.kind # "idle" /\ Left' < Left
<1>1. request.kind # "idle"
  BY DEF Step, LoadFails, ReadPage, WritePage, Return, FlushOne, FlushFails, FlushDone
<1>2. CASE LoadFails \/ Return \/ FlushFails \/ FlushDone
  <2>1. request'.kind = "idle"
    BY <1>2 DEF LoadFails, Return, FlushFails, FlushDone, Finish, Idle, Store!Idle
  <2>2. Left' = 0
    BY <2>1 DEF Left
  <2> QED
    BY <1>1, <2>2, LeftPositive
<1>3. CASE ReadPage \/ WritePage
  <2>1. /\ request.kind \in {"read", "write"} /\ done < request.length
        /\ request' = request /\ done' = done + Count
    BY <1>3 DEF ReadPage, WritePage
  <2>2. Left = 1 + request.length - done /\ Left' = 1 + request.length - done'
    BY <2>1 DEF Left
  <2>3. PICK n \in Nat \ {0} : n = Count
    BY <2>1, PositionOK DEF Inv, RequestOK
  <2>4. request.length \in Nat /\ done \in Nat
    BY DEF Inv, RequestOK
  <2> QED
    BY <1>1, <2>1, <2>2, <2>3, <2>4
<1>4. CASE FlushOne
  <2>1. PICK p \in dirty \ flushed : flushed' = flushed \cup {p}
    BY <1>4 DEF FlushOne
  <2>2. request.kind = "flush" /\ request' = request /\ dirty' = dirty
    BY <1>4 DEF FlushOne
  <2>3. dirty' \ flushed' = (dirty \ flushed) \ {p}
    BY <2>1, <2>2
  <2>4. Cardinality((dirty \ flushed) \ {p}) = Cardinality(dirty \ flushed) - 1
    BY <2>1, UnwrittenFinite, FS_RemoveElement
  <2>5. /\ Left = 1 + Cardinality(dirty \ flushed)
        /\ Left' = 1 + Cardinality((dirty \ flushed) \ {p})
    BY <2>2, <2>3 DEF Left
  <2> QED
    BY <1>1, <2>4, <2>5, UnwrittenFinite
<1> QED
  BY <1>1, <1>2, <1>3, <1>4 DEF Step

\* Nothing but a step of the operation happens while it is under way.
LEMMA StepsAdvance ==
  ASSUME Inv, CacheNext, request.kind # "idle"
  PROVE  Left \in Nat /\ Left' < Left
<1>1. ~LegalStart
  BY IdleKind DEF LegalStart, Start
<1> QED
  BY <1>1, LeftPositive, StepAdvances DEF CacheNext

\* Every step of an operation, in the cache and under the application API, has
\* fewer bytes or dirty pages left to handle (ramlink_cache_manager.py:127-158).
THEOREM CacheAdvances == (Spec => OperationsAdvance) /\ (ApiSpec => OperationsAdvance)
<1>1. Inv /\ [Next]_vars => [request.kind # "idle" => Left \in Nat /\ Left' < Left]_vars
  BY NextIsCacheNext, StepsAdvance
<1>2. Inv /\ ApiOK /\ [NextApi]_<<vars, apiVars>>
        => [request.kind # "idle" => Left \in Nat /\ Left' < Left]_vars
  BY NextApiInv, StepsAdvance
<1>3. Spec => OperationsAdvance
  BY <1>1, CacheInvariant, PTL DEF Spec, OperationsAdvance
<1>4. ApiSpec => OperationsAdvance
  BY <1>2, ApiInvariant, PTL DEF ApiSpec, OperationsAdvance
<1> QED
  BY <1>3, <1>4

-----------------------------------------------------------------------------
(***************************************************************************)
(* A cache with room for every page never evicts, and then implements the  *)
(* byte store.                                                             *)
(***************************************************************************)
LEMMA FitsKeeps ==
  ASSUME CacheOK, Fits, NEW p \in PageNumbers, NEW l, LoadOK(l, p)
  PROVE  DOMAIN pages \subseteq DOMAIN l.pages
<1> SUFFICES ASSUME p \notin DOMAIN pages, Cardinality(DOMAIN pages) = max_pages
             PROVE  FALSE
  BY DEF LoadOK
<1>1. RemoteSize - 1 \in Nat /\ max_pages \in Nat
  BY Sizes0 DEF CacheOK
<1>2. PICK last \in Nat : last = (RemoteSize - 1) \div PAGE_SIZE
  BY <1>1, DivMod
<1>3. last * PAGE_SIZE <= RemoteSize - 1
  <2>1. /\ RemoteSize - 1 = last * PAGE_SIZE + ((RemoteSize - 1) % PAGE_SIZE)
        /\ (RemoteSize - 1) % PAGE_SIZE \in 0 .. PAGE_SIZE - 1
    BY <1>1, <1>2, DivMod
  <2> QED
    BY <2>1, <1>2, Scale, Sizes0
<1>4. last < max_pages
  <2> SUFFICES ASSUME max_pages <= last PROVE FALSE
    BY <1>1, <1>2
  <2>1. max_pages * PAGE_SIZE <= last * PAGE_SIZE
    BY <1>1, <1>2, Scale
  <2>2. max_pages * PAGE_SIZE \in Nat /\ last * PAGE_SIZE \in Nat
    BY <1>1, <1>2, Scale
  <2> QED
    BY <1>1, <1>3, <2>1, <2>2, Sizes0 DEF Fits
<1>5. IsFiniteSet(PageNumbers) /\ Cardinality(PageNumbers) = last + 1
  <2>1. PageNumbers = 0 .. last /\ 0 \in Int /\ last \in Int
    BY <1>2 DEF PageNumbers
  <2>2. IsFiniteSet(0 .. last)
        /\ Cardinality(0 .. last) = IF 0 > last THEN 0 ELSE last - 0 + 1
    BY <2>1, FS_Interval
  <2> QED
    BY <1>2, <2>1, <2>2
<1>6. DOMAIN pages \cup {p} \subseteq PageNumbers /\ IsFiniteSet(DOMAIN pages)
  BY CachedNumbers, ListsCardinality DEF CacheOK
<1>7. Cardinality(DOMAIN pages \cup {p}) = Cardinality(DOMAIN pages) + 1
  BY <1>6, FS_AddElement
<1>8. Cardinality(DOMAIN pages \cup {p}) <= last + 1
  BY <1>5, <1>6, FS_Subset
<1>9. max_pages + 1 <= last + 1
  BY <1>7, <1>8
<1> QED
  BY <1>1, <1>2, <1>4, <1>9

\* Every cached page stays, whatever the step.
LEMMA FitsPages ==
  ASSUME Inv, Fits, ReadPage \/ WritePage
  PROVE  DOMAIN pages \subseteq DOMAIN pages'
<1>1. PICK l : l = Loaded(Page)
  OBVIOUS
<1>2. done < request.length
  BY DEF ReadPage, WritePage
<1>3. Page \in PageNumbers
  BY <1>2, PositionOK
<1>4. LoadOK(l, Page)
  BY <1>1, <1>3, LoadedOK DEF Inv
<1>5. DOMAIN pages \subseteq DOMAIN l.pages
  BY <1>3, <1>4, FitsKeeps DEF Inv
<1>6. CASE ReadPage
  BY <1>1, <1>5, <1>6 DEF ReadPage, Become
<1>7. CASE WritePage
  <2>1. pages' = [l.pages EXCEPT ![Page] = Patched(@)]
    BY <1>1, <1>7, MarkedDirtyFields DEF WritePage, Become
  <2> QED
    BY <1>5, <2>1
<1> QED
  BY <1>6, <1>7

\* The effect of a step on what callers see.
LEMMA FitsContents ==
  ASSUME Inv, Fits, CacheNext \/ UNCHANGED vars
  PROVE  /\ Fits'
         /\ ~WritePage => contents' = contents
         /\ WritePage => \A b \in Bytes :
              contents'[b] = IF b \in Position .. Position + Count - 1
                             THEN request.data[done + (b - Position) + 1] ELSE contents[b]
<1>1. max_pages' = max_pages
  BY DEF CacheNext, LegalStart, Start, Step, LoadFails, ReadPage, WritePage, Return, FlushOne,
     FlushFails, FlushDone, Become, cacheVars, vars
<1>2. ASSUME ReadPage \/ WritePage, NEW b \in Bytes
      PROVE  b \div PAGE_SIZE \notin dirty \/ b \div PAGE_SIZE \in DOMAIN pages'
  BY <1>2, FitsPages DEF Inv, CacheOK
<1>3. ASSUME ~WritePage
      PROVE  contents' = contents
  <2>1. CASE ReadPage
    <3>1. \A b \in Bytes : contents'[b] = contents[b]
      BY <1>2, <2>1, ReadSpares
    <3> QED
      BY <3>1 DEF contents, View
  <2>2. CASE FlushOne \/ FlushFails
    <3>1. PICK p \in dirty : remote' \in {remote, FlushPage(p, pages, remote)}
      BY <2>2 DEF FlushOne, FlushFails
    <3>2. p \in DOMAIN pages /\ pages' = pages
      BY <2>2 DEF FlushOne, FlushFails, Inv, CacheOK
    <3> QED
      BY <3>1, <3>2, FlushSpares DEF Inv
  <2>3. CASE ~ReadPage /\ ~FlushOne /\ ~FlushFails
    <3>1. pages' = pages /\ remote' = remote
      BY <1>3, <2>3 DEF CacheNext, LegalStart, Start, Step, LoadFails, Return, FlushDone,
         cacheVars, vars
    <3> QED
      BY <3>1, SameContents
  <2> QED
    BY <2>1, <2>2, <2>3
<1> QED
  BY <1>1, <1>2, <1>3, WriteSpares DEF Fits

(***************************************************************************)
(* What the loops of read and write have done so far.                      *)
(***************************************************************************)
SoFar ==
    Fits =>
      /\ request.kind = "write" =>
           \A k \in 1 .. done : contents[request.offset + k - 1] = request.data[k]
      /\ request.kind = "read" =>
           \A k \in 1 .. done : out[k] = contents[request.offset + k - 1]

LEMMA FitsSame ==
  ASSUME CacheNext \/ UNCHANGED vars
  PROVE  Fits' <=> Fits
<1>1. max_pages' = max_pages
  BY DEF CacheNext, LegalStart, Start, Step, LoadFails, ReadPage, WritePage, Return, FlushOne,
     FlushFails, FlushDone, Become, cacheVars, vars
<1> QED
  BY <1>1 DEF Fits

\* What a read takes from a cached page is what callers see there.
LEMMA ReadSoFar ==
  ASSUME Inv, Inv', SoFar, Fits, ReadPage
  PROVE  \A k \in 1 .. done' : out'[k] = contents'[request'.offset + k - 1]
<1>1. PICK l : l = Loaded(Page)
  OBVIOUS
<1>2. PICK page, inside, position, n :
        page = Page /\ inside = Inside /\ position = Position /\ n = Count
  OBVIOUS
<1>3. PICK taken : taken = Taken(l.pages[page])
  OBVIOUS
<1>4. /\ request.kind = "read" /\ done < request.length /\ pages' = l.pages
      /\ out' = out \o taken /\ done' = done + n /\ request' = request
  BY <1>1, <1>2, <1>3 DEF ReadPage, Become
<1>5. /\ position \in Bytes /\ page \in PageNumbers /\ inside \in Nat
      /\ page * PAGE_SIZE + inside = position /\ n \in Nat
      /\ PageLength(page) \in Nat /\ inside + n <= PageLength(page)
  BY <1>2, <1>4, PositionOK DEF Inv, RequestOK
<1>6. PICK start \in Nat : start = page * PAGE_SIZE /\ start + inside = position
  BY <1>5, Scale, ByteOfPage
<1>7. LoadOK(l, page)
  BY <1>1, <1>2, <1>5, LoadedOK DEF Inv
<1>8. taken \in Seq(Values) /\ Len(taken) = n
  BY <1>2, <1>3, <1>4, <1>7, TakenType DEF LoadOK
<1>9. /\ out \in Seq(Values) /\ Len(out) = done /\ done \in Nat
      /\ request.offset \in Nat /\ position = request.offset + done
  BY <1>2, <1>4 DEF Inv, RequestOK, Position
<1>10. \A k \in 1 .. done + n : out'[k] = IF k <= done THEN out[k] ELSE taken[k - done]
  <2>1. \A k \in 1 .. Len(out) + Len(taken) :
          (out \o taken)[k] = IF k <= Len(out) THEN out[k] ELSE taken[k - Len(out)]
    BY <1>8, <1>9, ConcatProperties
  <2> QED
    BY <1>4, <1>8, <1>9, <2>1
<1>11. contents' = contents
  BY <1>4, FitsContents DEF CacheNext, Step, WritePage
<1>12. ASSUME NEW k \in 1 .. done
       PROVE  out'[k] = contents'[request.offset + k - 1]
  <2>1. out'[k] = out[k]
    BY <1>5, <1>9, <1>10
  <2> QED
    BY <1>4, <1>11, <2>1 DEF SoFar
<1>13. ASSUME NEW j \in 1 .. n
       PROVE  taken[j] = contents'[position + j - 1]
  <2>1. taken[j] = l.pages[page][inside + j - 1]
    BY <1>2, <1>3 DEF Taken
  <2>2. PICK i \in 0 .. PageLength(page) - 1 : i = inside + j - 1
    BY <1>5
  <2>3. PICK b \in Bytes : /\ b = page * PAGE_SIZE + i /\ b \div PAGE_SIZE = page
                           /\ (b % PAGE_SIZE) = i
    BY <1>5, ByteOfPage
  <2>4. b = position + j - 1
    BY <1>5, <1>6, <2>2, <2>3
  <2>5. contents'[b] = l.pages[page][i]
    BY <1>4, <1>7, <2>3, ContentsNext DEF LoadOK
  <2> QED
    BY <2>1, <2>2, <2>4, <2>5
<1>14. ASSUME NEW k \in 1 .. done + n, ~(k <= done)
       PROVE  out'[k] = contents'[request.offset + k - 1]
  <2>1. PICK j \in 1 .. n : k = done + j /\ k - done = j
    <3>1. k - done \in 1 .. n /\ k = done + (k - done)
      BY <1>5, <1>9, <1>14
    <3> QED
      BY <3>1
  <2>2. out'[k] = taken[j]
    BY <1>10, <1>14, <2>1
  <2>3. position + j - 1 = request.offset + k - 1
    BY <1>9, <2>1
  <2> QED
    BY <1>13, <2>2, <2>3
<1>15. \A k \in 1 .. done + n : k \in 1 .. done \/ ~(k <= done)
  BY <1>5, <1>9
<1>16. \A k \in 1 .. done + n : out'[k] = contents'[request.offset + k - 1]
  BY <1>12, <1>14, <1>15
<1> QED
  BY <1>4, <1>16

LEMMA WriteSoFar ==
  ASSUME Inv, SoFar, Fits, WritePage
  PROVE  \A k \in 1 .. done' : contents'[request'.offset + k - 1] = request'.data[k]
<1>1. PICK position, n : position = Position /\ n = Count
  OBVIOUS
<1>2. /\ request.kind = "write" /\ done < request.length /\ done' = done + n
      /\ request' = request
  BY <1>1 DEF WritePage
<1>3. /\ request.offset \in Nat /\ request.length \in Nat /\ done \in Nat
      /\ request.offset + request.length <= RemoteSize
      /\ n \in 1 .. request.length - done /\ position = request.offset + done
  BY <1>1, <1>2, PositionOK DEF Inv, RequestOK, Position
<1>4. \A b \in Bytes : contents'[b] = IF b \in position .. position + n - 1
                                      THEN request.data[done + (b - position) + 1]
                                      ELSE contents[b]
  BY <1>1, FitsContents DEF CacheNext, Step
<1>5. ASSUME NEW k \in 1 .. done + n
      PROVE  contents'[request.offset + k - 1] = request.data[k]
  <2>1. PICK b \in Bytes : b = request.offset + k - 1
    BY <1>3, Sizes0 DEF Bytes
  <2>2. CASE k <= done
    <3>1. b \notin position .. position + n - 1
      BY <1>3, <2>1, <2>2
    <3>2. k \in 1 .. done
      BY <1>3, <2>2
    <3> QED
      BY <1>2, <1>4, <2>1, <3>1, <3>2 DEF SoFar
  <2>3. CASE ~(k <= done)
    <3>1. b \in position .. position + n - 1 /\ done + (b - position) + 1 = k
      BY <1>3, <2>1, <2>3
    <3> QED
      BY <1>4, <2>1, <3>1
  <2> QED
    BY <2>2, <2>3
<1> QED
  BY <1>2, <1>5

LEMMA SoFarStep ==
  ASSUME Inv, Inv', SoFar, CacheNext \/ UNCHANGED vars
  PROVE  SoFar'
<1> SUFFICES ASSUME Fits PROVE SoFar'
  BY FitsSame DEF SoFar
<1>1. CASE LegalStart
  <2>1. done' = 0
    BY <1>1 DEF LegalStart, Start
  <2> QED
    BY <2>1 DEF SoFar
<1>2. CASE LoadFails \/ Return \/ FlushFails \/ FlushDone
  <2>1. request'.kind = "idle"
    BY <1>2 DEF LoadFails, Return, FlushFails, FlushDone, Finish, Idle, Store!Idle
  <2> QED
    BY <2>1 DEF SoFar
<1>3. CASE FlushOne
  BY <1>3 DEF FlushOne, SoFar
<1>4. CASE ReadPage
  <2>1. request'.kind = "read"
    BY <1>4 DEF ReadPage
  <2> QED
    BY <1>4, <2>1, ReadSoFar DEF SoFar
<1>5. CASE WritePage
  <2>1. request'.kind = "write"
    BY <1>5 DEF WritePage
  <2> QED
    BY <1>5, <2>1, WriteSoFar DEF SoFar
<1>6. CASE UNCHANGED vars
  <2>1. request' = request /\ done' = done /\ out' = out /\ contents' = contents
    BY <1>6, SameContents DEF vars
  <2> QED
    BY <2>1 DEF SoFar
<1> QED
  BY <1>1, <1>2, <1>3, <1>4, <1>5, <1>6 DEF CacheNext, Step

-----------------------------------------------------------------------------
\* The steps of the store.

LEMMA WrittenPrefix ==
  ASSUME Inv, request.kind = "write", NEW k \in 0 .. request.length, NEW after \in [Bytes -> Values],
         \A b \in Bytes : after[b] = IF b \in request.offset .. request.offset + k - 1
                                     THEN request.data[b - request.offset + 1] ELSE contents[b]
  PROVE  after = Store!Overwrite(contents, request.offset, request.data, k)
<1>1. DOMAIN contents = Bytes
  BY ContentsType DEF Inv
<1> QED
  BY <1>1 DEF Store!Overwrite

LEMMA NothingWritten ==
  ASSUME Inv
  PROVE  contents = Store!Overwrite(contents, request.offset, request.data, 0)
<1>1. contents \in [Bytes -> Values] /\ request.offset \in Nat
  BY ContentsType DEF Inv, RequestOK
<1>2. \A b \in Bytes : b \notin request.offset .. request.offset + 0 - 1
  BY <1>1 DEF Bytes
<1> QED
  BY <1>1, <1>2 DEF Store!Overwrite

\* A failed operation is a failure of the store that wrote nothing more.
LEMMA StoreFails ==
  ASSUME Inv, request.kind # "idle", contents' = contents, Finish(Store!Error)
  PROVE  Store!Fail
<1>1. contents' = Store!Overwrite(contents, request.offset, request.data, 0)
  BY NothingWritten
<1>2. 0 \in 0 .. Len(request.data)
  BY DEF Inv, RequestOK
<1> QED
  BY <1>1, <1>2 DEF Store!Fail, Finish, Idle

LEMMA StoreStep ==
  ASSUME Inv, Inv', SoFar, Fits, CacheNext \/ UNCHANGED vars
  PROVE  Store!Next \/ UNCHANGED Store!storeVars
<1>1. /\ ~WritePage => contents' = contents
      /\ WritePage => \A b \in Bytes :
           contents'[b] = IF b \in Position .. Position + Count - 1
                          THEN request.data[done + (b - Position) + 1] ELSE contents[b]
  BY FitsContents
<1>2. CASE LegalStart
  <2>1. PICK kind \in {"read", "write", "flush"}, offset \in Nat, length \in Nat,
             data \in Seq(Values) : Start(kind, offset, length, data)
    BY <1>2 DEF LegalStart
  <2>2. contents' = contents
    BY <2>1, SameContents DEF Start, cacheVars
  <2>3. Store!Ask
    BY <2>1, <2>2, IdleKind DEF Store!Ask, Start
  <2> QED
    BY <2>3 DEF Store!Next
<1>3. CASE LoadFails
  BY <1>1, <1>3, StoreFails DEF LoadFails, WritePage, cacheVars, Store!Next, Finish, Idle,
     Store!Idle
<1>4. CASE ReadPage
  BY <1>1, <1>4 DEF ReadPage, WritePage, Store!storeVars
<1>5. CASE WritePage
  <2>1. PICK position, n : position = Position /\ n = Count
    OBVIOUS
  <2>2. /\ request.kind = "write" /\ done < request.length
        /\ request' = request /\ answer' = answer
    BY <1>5 DEF WritePage
  <2>3. /\ request.offset \in Nat /\ request.length \in Nat /\ done \in Nat
        /\ n \in 1 .. request.length - done /\ position = request.offset + done
    BY <2>1, <2>2, PositionOK DEF Inv, RequestOK, Position
  <2>4. PICK k \in 0 .. request.length : k = done + n
    BY <2>3
  <2>5. ASSUME NEW b \in Bytes
        PROVE  contents'[b] = IF b \in request.offset .. request.offset + k - 1
                              THEN request.data[b - request.offset + 1] ELSE contents[b]
    <3>1. contents'[b] = IF b \in position .. position + n - 1
                         THEN request.data[done + (b - position) + 1] ELSE contents[b]
      BY <1>1, <1>5, <2>1
    <3>2. CASE b \in position .. position + n - 1
      <4>1. b \in request.offset .. request.offset + k - 1
            /\ done + (b - position) + 1 = b - request.offset + 1
        BY <2>3, <2>4, <3>2
      <4> QED
        BY <3>1, <3>2, <4>1
    <3>3. CASE b \in request.offset .. request.offset + done - 1
      <4>1. PICK i \in 1 .. done : i = b - request.offset + 1 /\ request.offset + i - 1 = b
        <5>1. /\ b - request.offset + 1 \in 1 .. done
              /\ request.offset + (b - request.offset + 1) - 1 = b
          BY <2>3, <3>3
        <5> QED
          BY <5>1
      <4>2. contents[b] = request.data[i]
        BY <2>2, <4>1 DEF SoFar
      <4>3. b \in request.offset .. request.offset + k - 1 /\ b \notin position .. position + n - 1
        BY <2>3, <2>4, <3>3
      <4> QED
        BY <3>1, <4>1, <4>2, <4>3
    <3>4. CASE b \notin position .. position + n - 1
               /\ b \notin request.offset .. request.offset + done - 1
      <4>1. b \notin request.offset .. request.offset + k - 1
        BY <2>3, <2>4, <3>4 DEF Bytes
      <4> QED
        BY <3>1, <3>4, <4>1
    <3> QED
      BY <3>2, <3>3, <3>4
  <2>6. contents' \in [Bytes -> Values]
    <3>1. Inv => contents \in [Bytes -> Values]
      BY ContentsType DEF Inv
    <3>2. \A b \in Bytes : contents'[b] \in Values
      <4> TAKE b \in Bytes
      <4>1. contents[b] \in Values
        BY <3>1
      <4>2. CASE b \in request.offset .. request.offset + k - 1
        <5>1. b - request.offset + 1 \in 1 .. request.length
          BY <2>3, <2>4, <4>2
        <5>2. request.data \in Seq(Values) /\ Len(request.data) = request.length
          BY <2>2 DEF Inv, RequestOK
        <5>3. request.data[b - request.offset + 1] \in Values
          BY <5>1, <5>2
        <5> QED
          BY <2>5, <4>2, <5>3
      <4> QED
        BY <2>5, <4>1, <4>2
    <3> QED
      BY <3>2 DEF contents, View
  <2>7. contents' = Store!Overwrite(contents, request.offset, request.data, k)
    BY <2>2, <2>5, <2>6, WrittenPrefix
  <2>8. Store!WriteSome
    BY <2>2, <2>7 DEF Store!WriteSome
  <2> QED
    BY <2>8 DEF Store!Next
<1>6. CASE Return
  <2>1. /\ request.kind \in {"read", "write"} /\ done = request.length /\ contents' = contents
        /\ request' = Idle /\ answer' = [ok |-> TRUE, data |-> out]
    BY <1>1, <1>6 DEF Return, WritePage, Finish, Idle, Store!Idle
  <2>2. request.offset \in Nat /\ request.length \in Nat /\ out \in Seq(Values)
    BY DEF Inv, RequestOK
  <2>3. CASE request.kind = "read"
    <3>1. /\ Len(out) = request.length
          /\ \A k \in 1 .. request.length : out[k] = contents[request.offset + k - 1]
      BY <2>1, <2>3 DEF Inv, RequestOK, SoFar
    <3>2. out = Store!Slice(contents, request.offset, request.length)
      BY <2>2, <3>1 DEF Store!Slice
    <3>3. Store!Succeed
      BY <2>1, <2>3, <3>2 DEF Store!Succeed, Idle
    <3> QED
      BY <3>3 DEF Store!Next
  <2>4. CASE request.kind = "write"
    <3>1. ASSUME NEW b \in Bytes
          PROVE  contents[b] = IF b \in request.offset .. request.offset + request.length - 1
                               THEN request.data[b - request.offset + 1] ELSE contents[b]
      <4>1. ASSUME b \in request.offset .. request.offset + request.length - 1
            PROVE  contents[b] = request.data[b - request.offset + 1]
        <5>1. PICK i \in 1 .. request.length :
                i = b - request.offset + 1 /\ request.offset + i - 1 = b
          <6>1. /\ b - request.offset + 1 \in 1 .. request.length
                /\ request.offset + (b - request.offset + 1) - 1 = b
            BY <2>2, <4>1
          <6> QED
            BY <6>1
        <5> QED
          BY <2>1, <2>4, <5>1 DEF SoFar
      <4> QED
        BY <4>1
    <3>2. contents \in [Bytes -> Values] /\ request.length \in 0 .. request.length
      BY <2>2, ContentsType DEF Inv
    <3>3. contents = Store!Overwrite(contents, request.offset, request.data, request.length)
      BY <2>4, <3>1, <3>2, WrittenPrefix
    <3>4. out = <<>>
      BY <2>4 DEF Inv, RequestOK
    <3>5. Store!Succeed
      BY <2>1, <2>4, <3>3, <3>4 DEF Store!Succeed, Idle
    <3> QED
      BY <3>5 DEF Store!Next
  <2> QED
    BY <2>1, <2>3, <2>4
<1>7. CASE FlushOne
  BY <1>1, <1>7 DEF FlushOne, WritePage, Store!storeVars
<1>8. CASE FlushFails
  BY <1>1, <1>8, StoreFails DEF FlushFails, WritePage, Store!Next
<1>9. CASE FlushDone
  BY <1>1, <1>9 DEF FlushDone, WritePage, Finish, Idle, Store!Next, Store!Succeed,
     Store!NoAnswer
<1>10. CASE UNCHANGED vars
  <2>1. contents' = contents
    BY <1>10, SameContents DEF vars
  <2> QED
    BY <1>10, <2>1 DEF vars, Store!storeVars
<1> QED
  BY <1>2, <1>3, <1>4, <1>5, <1>6, <1>7, <1>8, <1>9, <1>10 DEF CacheNext, Step

LEMMA StoreInit == Init => Store!Init /\ SoFar
<1> SUFFICES ASSUME Init PROVE Store!Init /\ SoFar
  OBVIOUS
<1>1. contents \in [Bytes -> Values]
  BY InitInv, ContentsType DEF Inv
<1>2. request.kind = "idle"
  BY IdleKind DEF Init
<1> QED
  BY <1>1, <1>2 DEF Init, Store!Init, Idle, SoFar, Bytes

(***************************************************************************)
(* A cache that never has to evict implements the byte store: a read       *)
(* returns the bytes of one moment, a successful write is complete, a      *)
(* failed one wrote a prefix, and flush changes nothing the caller sees.   *)
(***************************************************************************)
THEOREM CacheImplementsStore == (Spec => ImplementsStore) /\ (ApiSpec => ImplementsStore)
<1>1. Inv /\ SoFar /\ [Next]_vars => SoFar' /\ [Fits => Store!Next]_(Store!storeVars)
  BY NextIsCacheNext, CacheNextInv, SoFarStep, StoreStep
<1>2. Inv /\ ApiOK /\ SoFar /\ [NextApi]_<<vars, apiVars>>
        => SoFar' /\ [Fits => Store!Next]_(Store!storeVars)
  BY NextApiInv, CacheNextInv, SoFarStep, StoreStep
<1>3. Spec => ImplementsStore
  BY <1>1, StoreInit, CacheInvariant, PTL DEF Spec, ImplementsStore
<1>4. InitApi => Init
  BY DEF InitApi
<1>5. ApiSpec => ImplementsStore
  BY <1>2, <1>4, StoreInit, ApiInvariant, PTL DEF ApiSpec, ImplementsStore
<1> QED
  BY <1>3, <1>5

-----------------------------------------------------------------------------
(***************************************************************************)
(* The regions.  Together with the invariant of the cache, what makes      *)
(* MemoryApi implement RegionStore: the regions follow each other, nothing *)
(* has been written beyond them, and a write or fill stays within its own. *)
(***************************************************************************)
RegionsApart ==
    /\ next_offset <= RemoteSize
    /\ \A i \in DOMAIN regions : regions[i].offset + regions[i].size <= next_offset
    /\ \A i, j \in DOMAIN regions :
         i < j => regions[i].offset + regions[i].size <= regions[j].offset

FreshIsZero == Fits => \A b \in Bytes : b >= next_offset => contents[b] = 0

WritesWithin ==
    /\ request.kind = "write" /\ call.op # "fill" =>
         \E i \in DOMAIN regions : ~regions[i].closed /\ WithinRegion(regions[i], request)
    /\ call.op = "fill" =>
         /\ request.kind \in {"idle", "write"}
         /\ request.kind = "write" => WithinRegion(regions[call.region], request)

\* The bytes of region r from its start to `last` have value v.
HoldsUpTo(r, last, v) == \A b \in Bytes : r.offset <= b /\ b < last => contents[b] = v

FillSoFar ==
    Fits /\ call.op = "fill" =>
      /\ request.kind = "write" =>
           /\ request.offset + request.length = regions[call.region].offset + call.pos
           /\ \A k \in 1 .. request.length : request.data[k] = call.value
           /\ HoldsUpTo(regions[call.region], request.offset, call.value)
      /\ request.kind = "idle" /\ answer.ok =>
           HoldsUpTo(regions[call.region], regions[call.region].offset + call.pos, call.value)

RegionInv == RegionsApart /\ FreshIsZero /\ WritesWithin /\ FillSoFar

LEMMA RegionBytes ==
  ASSUME ApiOK, RegionsApart, NEW i \in DOMAIN regions, NEW k \in 1 .. regions[i].size
  PROVE  regions[i].offset + k - 1 \in Bytes
<1>1. /\ regions[i].offset \in Nat /\ regions[i].size \in Nat /\ next_offset \in Nat
      /\ regions[i].offset + regions[i].size <= next_offset /\ next_offset <= RemoteSize
  BY RegionType DEF RegionsApart, ApiOK
<1> QED
  BY <1>1, Sizes0 DEF Bytes

LEMMA InitRegionInv == InitApi => RegionInv
<1> SUFFICES ASSUME InitApi PROVE RegionInv
  OBVIOUS
<1>1. /\ Init /\ next_offset = 0 /\ regions = <<>> /\ call.op = "none"
      /\ request.kind = "idle" /\ pages = [p \in {} |-> 0] /\ remote = [b \in Bytes |-> 0]
  BY IdleKind DEF InitApi, Init, NoCall
<1>2. RegionsApart
  BY <1>1, Sizes0 DEF RegionsApart
<1>3. \A b \in Bytes : contents[b] = 0
  BY <1>1 DEF contents, View
<1> QED
  BY <1>1, <1>2, <1>3 DEF RegionInv, FreshIsZero, WritesWithin, FillSoFar

\* Regions keep their places when they are closed, or when nothing happens to them.
SamePlaces ==
    /\ DOMAIN regions' = DOMAIN regions
    /\ \A i \in DOMAIN regions :
         regions'[i].offset = regions[i].offset /\ regions'[i].size = regions[i].size
    /\ next_offset' = next_offset

LEMMA ApartSame == RegionsApart /\ SamePlaces => RegionsApart'
  BY DEF RegionsApart, SamePlaces

LEMMA ZeroSame ==
  ASSUME FreshIsZero, Fits' <=> Fits, contents' = contents, next_offset' = next_offset
  PROVE  FreshIsZero'
  BY DEF FreshIsZero

\* allocate.
LEMMA AllocateRegions ==
  ASSUME Inv, ApiOK, RegionInv, Allocate
  PROVE  RegionInv'
<1>1. PICK size \in Sizes :
        /\ next_offset + size <= RemoteSize
        /\ regions' = Append(regions, [offset |-> next_offset, size |-> size, closed |-> FALSE])
        /\ next_offset' = next_offset + size
  BY DEF Allocate, NextOffset
<1>2. /\ size \in Nat \ {0} /\ next_offset \in Nat /\ call.op = "none" /\ request.kind = "idle"
      /\ UNCHANGED <<vars, call>>
  BY ApiAssumption, IdleKind DEF Allocate, Ready, NoCall, ApiOK
<1>. PICK new : new = [offset |-> next_offset, size |-> size, closed |-> FALSE]
  OBVIOUS
<1>3. /\ new = [offset |-> next_offset, size |-> size, closed |-> FALSE]
      /\ new.offset = next_offset /\ new.size = size
  OBVIOUS
<1>4. /\ regions \in Seq([offset : Nat, size : Nat \ {0}, closed : BOOLEAN])
      /\ new \in [offset : Nat, size : Nat \ {0}, closed : BOOLEAN]
      /\ Len(regions) \in Nat /\ DOMAIN regions = 1 .. Len(regions)
  BY <1>2, <1>3 DEF ApiOK
<1>5. /\ DOMAIN regions' = 1 .. Len(regions) + 1 /\ regions'[Len(regions) + 1] = new
      /\ \A i \in DOMAIN regions : regions'[i] = regions[i]
  <2>1. regions' = Append(regions, new)
    BY <1>1, <1>3
  <2> QED
    BY <1>4, <2>1, AppendProperties
<1>6. \A i \in DOMAIN regions : regions[i].offset \in Nat /\ regions[i].size \in Nat
  BY RegionType
<1>7. RegionsApart'
  <2>1. \A i \in DOMAIN regions' : i \in DOMAIN regions \/ i = Len(regions) + 1
    BY <1>4, <1>5
  <2>2. \A i \in DOMAIN regions' : regions'[i].offset + regions'[i].size <= next_offset'
    BY <1>1, <1>2, <1>3, <1>5, <1>6, <2>1 DEF RegionInv, RegionsApart
  <2>3. ASSUME NEW i \in DOMAIN regions', NEW j \in DOMAIN regions', i < j
        PROVE  regions'[i].offset + regions'[i].size <= regions'[j].offset
    <3>1. CASE j \in DOMAIN regions
      <4>1. i \in DOMAIN regions
        BY <1>4, <1>5, <2>3, <3>1
      <4> QED
        BY <1>5, <2>3, <3>1, <4>1 DEF RegionInv, RegionsApart
    <3>2. CASE j = Len(regions) + 1
      <4>1. i \in DOMAIN regions
        BY <1>4, <1>5, <2>3, <3>2
      <4> QED
        BY <1>3, <1>5, <3>2, <4>1 DEF RegionInv, RegionsApart
    <3> QED
      BY <2>1, <3>1, <3>2
  <2> QED
    BY <1>1, <2>2, <2>3 DEF RegionsApart
<1>8. contents' = contents /\ (Fits' <=> Fits)
  BY <1>2, SameContents, FitsSame DEF vars
<1>9. FreshIsZero'
  <2>1. \A b \in Bytes : b >= next_offset' => b >= next_offset
    BY <1>1, <1>2 DEF Bytes
  <2> QED
    BY <1>8, <2>1 DEF RegionInv, FreshIsZero
<1> QED
  BY <1>2, <1>7, <1>9 DEF RegionInv, WritesWithin, FillSoFar, vars

\* A write that a fill starts continues where the last one ended.
LEMMA ChunkRegions ==
  ASSUME Inv, ApiOK, RegionInv, NEW i \in DOMAIN regions, NEW value \in FillValues,
         NEW pos \in 0 .. regions[i].size - 1, WriteChunk(i, value, pos),
         Fits => HoldsUpTo(regions[i], regions[i].offset + pos, value)
  PROVE  RegionInv'
<1>1. regions[i].offset \in Nat /\ regions[i].size \in Nat \ {0}
  BY RegionType
<1>2. PICK n \in 1 .. regions[i].size - pos : n = ChunkLength(regions[i].size - pos)
  BY <1>1, ChunkType
<1>3. /\ Start("write", regions[i].offset + pos, n, [k \in 1 .. n |-> value])
      /\ call' = [op |-> "fill", region |-> i, value |-> value, pos |-> pos + n]
      /\ UNCHANGED <<next_offset, regions>>
  BY <1>2 DEF WriteChunk
<1>4. /\ request'.kind = "write" /\ request'.offset = regions[i].offset + pos
      /\ request'.length = n /\ request'.data = [k \in 1 .. n |-> value]
      /\ call'.op = "fill" /\ call'.region = i /\ call'.value = value /\ call'.pos = pos + n
      /\ UNCHANGED cacheVars
  BY <1>3 DEF Start
<1>5. contents' = contents /\ (Fits' <=> Fits)
  BY <1>4, SameContents DEF cacheVars, Fits
<1>6. RegionsApart' /\ FreshIsZero'
  BY <1>3, <1>5, ApartSame, ZeroSame DEF RegionInv, SamePlaces
<1>7. WithinRegion(regions[i], request)'
  BY <1>1, <1>2, <1>3, <1>4 DEF WithinRegion
<1>8. request'.offset + request'.length = regions[i].offset + call'.pos
  BY <1>1, <1>2, <1>4
<1>9. Fits' => HoldsUpTo(regions[call.region], request.offset, call.value)'
  BY <1>3, <1>4, <1>5 DEF HoldsUpTo
<1>10. WritesWithin'
  BY <1>3, <1>4, <1>7 DEF WritesWithin
<1>11. \A k \in 1 .. n : request'.data[k] = value
  BY <1>4
<1>12. FillSoFar'
  BY <1>3, <1>4, <1>8, <1>9, <1>11 DEF FillSoFar
<1> QED
  BY <1>6, <1>10, <1>12 DEF RegionInv

\* close() of a region or of them all.
LEMMA CloseRegions ==
  ASSUME RegionInv, SamePlaces, UNCHANGED vars, request.kind # "write", call'.op # "fill"
  PROVE  RegionInv'
<1>1. contents' = contents /\ (Fits' <=> Fits) /\ request' = request
  BY SameContents DEF vars, Fits
<1>2. RegionsApart' /\ FreshIsZero'
  BY <1>1, ApartSame, ZeroSame DEF RegionInv, SamePlaces
<1> QED
  BY <1>1, <1>2 DEF RegionInv, WritesWithin, FillSoFar

\* A step of the cache.
LEMMA CacheStepRegions ==
  ASSUME Inv, Inv', SoFar, ApiOK, RegionInv, CacheStep
  PROVE  RegionInv'
<1>1. Step /\ CacheNext /\ UNCHANGED apiVars /\ (Fits' <=> Fits)
  BY FitsSame DEF CacheStep, CacheNext
<1>2. next_offset' = next_offset /\ regions' = regions /\ call' = call
  BY <1>1 DEF apiVars
<1>3. RegionsApart'
  BY <1>2 DEF RegionInv, RegionsApart
<1>4. request' = request \/ (request'.kind = "idle" /\ request' = Idle)
  BY <1>1, IdleKind DEF Step, LoadFails, ReadPage, WritePage, Return, FlushOne, FlushFails,
     FlushDone, Finish, Idle, Store!Idle
<1>5. WritesWithin'
  BY <1>2, <1>4 DEF RegionInv, WritesWithin, WithinRegion
<1>6. ASSUME Fits
      PROVE  \/ contents' = contents
             \/ /\ WritePage /\ request.kind = "write" /\ request' = request
                /\ \A b \in Bytes : b \notin Written => contents'[b] = contents[b]
  <2>1. CASE ~WritePage
    BY <1>1, <1>6, <2>1, FitsContents
  <2>2. CASE WritePage
    <3>1. request.kind = "write" /\ done < request.length /\ request' = request
      BY <2>2 DEF WritePage
    <3>2. \A b \in Bytes : b \notin Written => b \notin Position .. Position + Count - 1
      BY <3>1, WriteRange
    <3> QED
      BY <1>1, <1>6, <2>2, <3>1, <3>2, FitsContents
  <2> QED
    BY <2>1, <2>2
<1>7. ASSUME request.kind = "write"
      PROVE  \E i \in DOMAIN regions :
               /\ WithinRegion(regions[i], request)
               /\ \A b \in Written : b \in Nat /\ request.offset <= b /\ b < next_offset
  <2>1. PICK i \in DOMAIN regions : WithinRegion(regions[i], request)
    BY <1>7 DEF RegionInv, WritesWithin, ApiOK
  <2>2. /\ request.offset + request.length <= next_offset /\ request.offset \in Nat
        /\ request.length \in Nat /\ next_offset \in Nat
    <3>1. request.offset + request.length <= regions[i].offset + regions[i].size
      BY <2>1 DEF WithinRegion
    <3>2. regions[i].offset + regions[i].size <= next_offset
      BY DEF RegionInv, RegionsApart
    <3>3. regions[i].offset \in Nat /\ regions[i].size \in Nat
      BY RegionType
    <3>4. request.offset \in Nat /\ request.length \in Nat /\ next_offset \in Nat
      BY DEF Inv, RequestOK, ApiOK
    <3> QED
      BY <3>1, <3>2, <3>3, <3>4
  <2>3. \A b \in Written : b \in Nat /\ request.offset <= b /\ b < next_offset
    BY <1>7, <2>2 DEF Written
  <2> QED
    BY <2>1, <2>3
<1>8. FreshIsZero'
  <2> SUFFICES ASSUME Fits, NEW b \in Bytes, b >= next_offset
               PROVE  contents'[b] = 0
    BY <1>1, <1>2 DEF FreshIsZero
  <2>1. contents[b] = 0
    BY DEF RegionInv, FreshIsZero
  <2>2. request.kind = "write" => b \notin Written
    BY <1>7 DEF Bytes, ApiOK
  <2> QED
    BY <1>6, <2>1, <2>2
<1>9. FillSoFar'
  <2> SUFFICES ASSUME Fits, call.op = "fill"
               PROVE  FillSoFar'
    BY <1>1, <1>2 DEF FillSoFar
  <2> DEFINE r == regions[call.region]
  <2>1. request.kind \in {"idle", "write"}
    BY DEF RegionInv, WritesWithin
  <2>2. request.kind = "write" /\ (LoadFails \/ WritePage \/ Return)
    BY <1>1, <2>1 DEF Step, LoadFails, ReadPage, WritePage, Return, FlushOne, FlushFails,
       FlushDone
  <2>3. /\ request.offset + request.length = r.offset + call.pos
        /\ \A k \in 1 .. request.length : request.data[k] = call.value
        /\ HoldsUpTo(r, request.offset, call.value)
    BY <2>2 DEF RegionInv, FillSoFar
  <2>4. CASE LoadFails
    <3>1. request'.kind = "idle" /\ ~answer'.ok
      BY <2>4 DEF LoadFails, Finish, Idle, Store!Idle, Store!Error
    <3> QED
      BY <3>1 DEF FillSoFar
  <2>5. CASE WritePage
    <3>1. request' = request
      BY <2>5 DEF WritePage
    <3>2. ASSUME NEW b \in Bytes, r.offset <= b, b < request.offset
          PROVE  contents'[b] = call.value
      <4>1. b \notin Written
        BY <1>7, <2>2, <3>2 DEF Inv, RequestOK, Bytes
      <4>2. contents[b] = call.value
        BY <2>3, <3>2 DEF HoldsUpTo
      <4> QED
        BY <1>6, <4>1, <4>2
    <3>3. HoldsUpTo(r, request.offset, call.value)'
      BY <1>2, <3>1, <3>2 DEF HoldsUpTo
    <3> QED
      BY <1>2, <2>2, <2>3, <3>1, <3>3 DEF FillSoFar
  <2>6. CASE Return
    <3>1. request'.kind = "idle" /\ done = request.length /\ contents' = contents
      BY <2>6, SameContents DEF Return, Finish, Idle, Store!Idle, cacheVars
    <3>2. ASSUME NEW b \in Bytes, r.offset <= b, b < r.offset + call.pos
          PROVE  contents[b] = call.value
      <4>1. CASE b < request.offset
        BY <2>3, <3>2, <4>1 DEF HoldsUpTo
      <4>2. CASE ~(b < request.offset)
        <5>1. PICK k \in 1 .. request.length :
                k = b - request.offset + 1 /\ request.offset + k - 1 = b
          <6>1. PICK first, n \in Nat : first = request.offset /\ n = request.length
            BY DEF Inv, RequestOK
          <6>2. b \in Nat /\ first <= b /\ b < first + n
            BY <2>3, <3>2, <4>2, <6>1 DEF Bytes
          <6>3. b - first + 1 \in 1 .. n /\ first + (b - first + 1) - 1 = b
            BY <6>2
          <6> QED
            BY <6>1, <6>3
        <5>2. contents[b] = request.data[k]
          BY <2>2, <3>1, <5>1 DEF SoFar
        <5> QED
          BY <2>3, <5>2
      <4> QED
        BY <4>1, <4>2
    <3>3. HoldsUpTo(r, r.offset + call.pos, call.value)'
      BY <1>2, <3>1, <3>2 DEF HoldsUpTo
    <3> QED
      BY <1>2, <3>1, <3>3 DEF FillSoFar
  <2> QED
    BY <2>2, <2>4, <2>5, <2>6
<1> QED
  BY <1>3, <1>5, <1>8, <1>9 DEF RegionInv

LEMMA NextRegionInv ==
  ASSUME Inv, Inv', SoFar, ApiOK, RegionInv, [NextApi]_<<vars, apiVars>>
  PROVE  RegionInv'
<1>1. CASE Allocate
  BY <1>1, AllocateRegions
<1>2. CASE Access
  <2>1. PICK i \in DOMAIN regions : ~regions[i].closed /\ WithinRegion(regions[i], request')
    BY <1>2 DEF Access
  <2>2. LegalStart /\ UNCHANGED apiVars /\ call.op = "none"
    BY <1>2, StartsAreLegal DEF Access, Ready, NoCall
  <2>3. contents' = contents /\ (Fits' <=> Fits)
    BY <2>2, SameContents DEF LegalStart, Start, cacheVars, Fits
  <2>4. RegionsApart' /\ FreshIsZero' /\ call'.op = "none" /\ regions' = regions
    BY <2>2, <2>3, ApartSame, ZeroSame DEF RegionInv, SamePlaces, apiVars
  <2>5. WithinRegion(regions[i], request)'
    BY <2>1, <2>4 DEF WithinRegion
  <2> QED
    BY <2>1, <2>4, <2>5 DEF RegionInv, WritesWithin, FillSoFar
<1>3. CASE Flush \/ StartClose
  <2>1. StartFlush /\ next_offset' = next_offset /\ regions' = regions
        /\ call'.op \in {"none", "close"}
    BY <1>3 DEF Flush, StartClose, Ready, NoCall, apiVars
  <2>2. request'.kind = "flush" /\ UNCHANGED cacheVars
    BY <2>1 DEF StartFlush, Start
  <2>3. contents' = contents /\ (Fits' <=> Fits)
    BY <2>2, SameContents DEF cacheVars, Fits
  <2>4. RegionsApart' /\ FreshIsZero'
    BY <2>1, <2>3, ApartSame, ZeroSame DEF RegionInv, SamePlaces
  <2> QED
    BY <2>1, <2>2, <2>4 DEF RegionInv, WritesWithin, FillSoFar
<1>4. CASE StartFill
  <2>1. PICK i \in DOMAIN regions, value \in FillValues : WriteChunk(i, value, 0)
    BY <1>4 DEF StartFill
  <2>2. 0 \in 0 .. regions[i].size - 1 /\ regions[i].offset \in Nat
    BY RegionType
  <2>3. HoldsUpTo(regions[i], regions[i].offset + 0, value)
    BY <2>2 DEF HoldsUpTo, Bytes
  <2> QED
    BY <2>1, <2>2, <2>3, ChunkRegions
<1>5. CASE CloseRegion
  <2>1. PICK i \in DOMAIN regions : regions' = [regions EXCEPT ![i] = Closed(@)]
    BY <1>5 DEF CloseRegion
  <2>2. UNCHANGED <<vars, next_offset, call>> /\ call.op = "none" /\ request.kind = "idle"
    BY <1>5, IdleKind DEF CloseRegion, Ready, NoCall
  <2>3. regions[i] \in [offset : Nat, size : Nat \ {0}, closed : BOOLEAN]
    BY RegionType
  <2>4. Closed(regions[i]).offset = regions[i].offset /\ Closed(regions[i]).size = regions[i].size
    BY <2>3 DEF Closed
  <2>5. SamePlaces
    BY <2>1, <2>2, <2>4 DEF SamePlaces
  <2> QED
    BY <2>2, <2>5, CloseRegions
<1>6. CASE CacheStep
  BY <1>6, CacheStepRegions
<1>7. CASE NextChunk
  <2>1. /\ call.op = "fill" /\ call.pos # regions[call.region].size
        /\ WriteChunk(call.region, call.value, call.pos) /\ answer.ok /\ request = Idle
    BY <1>7 DEF NextChunk, ChunkOver, Filled
  <2>2. /\ call.region \in DOMAIN regions /\ call.value \in FillValues
        /\ call.pos \in 1 .. regions[call.region].size
    BY <2>1 DEF ApiOK
  <2>3. call.pos \in 0 .. regions[call.region].size - 1
    BY <2>1, <2>2, RegionType
  <2>4. Fits => HoldsUpTo(regions[call.region], regions[call.region].offset + call.pos, call.value)
    BY <2>1, IdleKind DEF RegionInv, FillSoFar
  <2> QED
    BY <2>1, <2>2, <2>3, <2>4, ChunkRegions
<1>8. CASE FillEnds
  <2>1. /\ UNCHANGED <<vars, next_offset, regions>> /\ call'.op = "none"
        /\ request.kind = "idle"
    BY <1>8, IdleKind DEF FillEnds, ChunkOver, NoCall
  <2>2. SamePlaces
    BY <2>1 DEF SamePlaces
  <2> QED
    BY <2>1, <2>2, CloseRegions
<1>9. CASE EndClose
  <2>1. /\ regions' = AfterFlush /\ call'.op = "none" /\ UNCHANGED <<vars, next_offset>>
        /\ request.kind = "idle"
    BY <1>9, IdleKind DEF EndClose, NoCall
  <2>2. \A i \in DOMAIN regions : Closed(regions[i]).offset = regions[i].offset
                                  /\ Closed(regions[i]).size = regions[i].size
    <3> TAKE i \in DOMAIN regions
    <3>1. regions[i] \in [offset : Nat, size : Nat \ {0}, closed : BOOLEAN]
      BY RegionType
    <3> QED
      BY <3>1 DEF Closed
  <2>3. SamePlaces
    BY <2>1, <2>2 DEF SamePlaces, AfterFlush
  <2> QED
    BY <2>1, <2>3, CloseRegions
<1>10. CASE UNCHANGED <<vars, apiVars>>
  <2>1. /\ UNCHANGED vars /\ request' = request /\ answer' = answer /\ next_offset' = next_offset
        /\ regions' = regions /\ call' = call
    BY <1>10 DEF vars, apiVars
  <2>2. contents' = contents /\ (Fits' <=> Fits)
    BY <2>1, SameContents DEF vars, Fits
  <2>3. RegionsApart' /\ FreshIsZero'
    BY <2>1, <2>2, ApartSame, ZeroSame DEF RegionInv, SamePlaces
  <2> QED
    BY <2>1, <2>2, <2>3 DEF RegionInv, WritesWithin, FillSoFar, HoldsUpTo, WithinRegion
<1> QED
  BY <1>1, <1>2, <1>3, <1>4, <1>5, <1>6, <1>7, <1>8, <1>9, <1>10 DEF NextApi, CallStep

RegionIInv == Inv /\ ApiOK /\ SoFar /\ RegionInv

LEMMA RegionInvariant == ApiSpec => []RegionIInv
<1>1. InitApi => RegionIInv
  BY InitApiInv, StoreInit, InitRegionInv DEF InitApi, RegionIInv
<1>2. RegionIInv /\ [NextApi]_<<vars, apiVars>> => RegionIInv'
  BY NextApiInv, CacheNextInv, SoFarStep, NextRegionInv DEF RegionIInv
<1> QED
  BY <1>1, <1>2, PTL DEF ApiSpec

(***************************************************************************)
(* A fill that returns has set every byte of its region, in chunks that    *)
(* end and begin anywhere in a page (ramlink_memory_api.py:148-158).       *)
(***************************************************************************)
THEOREM ApiFillFills == ApiSpec => FillFills
<1>1. RegionIInv /\ [NextApi]_<<vars, apiVars>>
        => [call.op = "fill" /\ call'.op = "none" /\ answer.ok /\ Fits
              => \A k \in DOMAIN BytesOf(regions[call.region]) :
                   BytesOf(regions[call.region])[k] = call.value]_call
  <2> SUFFICES ASSUME RegionIInv, NextApi, call.op = "fill", call'.op = "none", answer.ok, Fits,
                      NEW k \in DOMAIN BytesOf(regions[call.region])
               PROVE  BytesOf(regions[call.region])[k] = call.value
    BY DEF apiVars
  <2>1. FillEnds
    BY DEF NextApi, CallStep, Allocate, Access, Flush, StartFill, CloseRegion, StartClose,
       CacheStep, NextChunk, WriteChunk, EndClose, Ready, NoCall, apiVars
  <2>2. request.kind = "idle" /\ call.pos = regions[call.region].size
    BY <2>1, IdleKind DEF FillEnds, ChunkOver, Filled
  <2>3. PICK i \in DOMAIN regions : i = call.region
    BY DEF RegionIInv, ApiOK
  <2>4. k \in 1 .. regions[i].size /\ BytesOf(regions[i])[k] = contents[regions[i].offset + k - 1]
    BY <2>3 DEF BytesOf
  <2>5. PICK b \in Bytes : b = regions[i].offset + k - 1
    BY <2>4, RegionBytes DEF RegionIInv, RegionInv
  <2>6. regions[i].offset <= b /\ b < regions[i].offset + call.pos
    BY <2>2, <2>3, <2>4, <2>5, RegionType DEF RegionIInv
  <2>7. contents[b] = call.value
    BY <2>2, <2>3, <2>5, <2>6 DEF RegionIInv, RegionInv, FillSoFar, HoldsUpTo
  <2> QED
    BY <2>3, <2>4, <2>5, <2>7
<1> QED
  BY <1>1, RegionInvariant, PTL DEF ApiSpec, FillFills

-----------------------------------------------------------------------------
(***************************************************************************)
(* The regions as RegionStore sees them.                                   *)
(***************************************************************************)
Shown == [i \in DOMAIN regions |->
            [data |-> BytesOf(regions[i]), closed |-> regions[i].closed]]

LEMMA ShownShape ==
  ASSUME ApiOK
  PROVE  /\ DOMAIN Shown = DOMAIN regions /\ Len(Shown) = Len(regions) /\ Len(Shown) \in Nat
         /\ DOMAIN regions = 1 .. Len(regions)
         /\ \A i \in DOMAIN regions :
              Shown[i] = [data |-> BytesOf(regions[i]), closed |-> regions[i].closed]
<1>1. regions \in Seq([offset : Nat, size : Nat \ {0}, closed : BOOLEAN])
  BY DEF ApiOK
<1>2. Len(regions) \in Nat /\ DOMAIN regions = 1 .. Len(regions)
  BY <1>1
<1>3. PICK n \in Nat : n = Len(regions)
  BY <1>2
<1>4. PICK S : \A i \in DOMAIN regions :
                 [data |-> BytesOf(regions[i]), closed |-> regions[i].closed] \in S
  <2>1. \A i \in DOMAIN regions :
          [data |-> BytesOf(regions[i]), closed |-> regions[i].closed]
            \in {[data |-> BytesOf(regions[j]), closed |-> regions[j].closed]
                   : j \in DOMAIN regions}
    OBVIOUS
  <2> QED
    BY <2>1
<1>5. Shown \in [1 .. n -> S]
  BY <1>2, <1>3, <1>4 DEF Shown
<1>6. Shown \in Seq(S) /\ Len(Shown) = n
  BY <1>5
<1> QED
  BY <1>2, <1>3, <1>6 DEF Shown

LEMMA ShownSame ==
  regions' = regions /\ contents' = contents => Shown' = Shown
  BY DEF Shown, BytesOf

\* The region that Target names.
LEMMA TargetKinds ==
  ASSUME RegionIInv
  PROVE  /\ call.op = "fill" => Target = call.region /\ Target \in DOMAIN regions
         /\ call.op # "fill" /\ request.kind = "write" =>
              Target \in DOMAIN regions /\ ~regions[Target].closed
         /\ request.kind = "write" => WithinRegion(regions[Target], request)
         /\ call.op # "fill" /\ request.kind # "write" => Target = 0
<1>1. CASE call.op = "fill"
  BY <1>1 DEF Target, RegionIInv, ApiOK, RegionInv, WritesWithin
<1>2. CASE call.op # "fill" /\ request.kind = "write"
  <2>1. \E i \in DOMAIN regions : ~regions[i].closed /\ WithinRegion(regions[i], request)
    BY <1>2 DEF RegionIInv, RegionInv, WritesWithin
  <2>2. Target = CHOOSE i \in DOMAIN regions :
                   ~regions[i].closed /\ WithinRegion(regions[i], request)
    BY <1>2 DEF Target
  <2> QED
    BY <1>2, <2>1, <2>2
<1>3. CASE call.op # "fill" /\ request.kind # "write"
  BY <1>3 DEF Target
<1> QED
  BY <1>1, <1>2, <1>3

LEMMA TargetSame ==
  request' = request /\ call' = call /\ regions' = regions => Target' = Target
  BY DEF Target, WithinRegion

LEMMA TargetNonzero == RegionIInv /\ Target \in DOMAIN regions => Target # 0
  BY ShownShape DEF RegionIInv

\* The bytes of two regions are not the same.
LEMMA Disjoint ==
  ASSUME ApiOK, RegionsApart, NEW i \in DOMAIN regions, NEW j \in DOMAIN regions, i # j,
         NEW k \in 1 .. regions[j].size,
         regions[i].offset <= regions[j].offset + k - 1,
         regions[j].offset + k - 1 < regions[i].offset + regions[i].size
  PROVE  FALSE
<1>1. /\ regions[i].offset \in Nat /\ regions[i].size \in Nat
      /\ regions[j].offset \in Nat /\ regions[j].size \in Nat
  BY RegionType
<1>2. i \in Int /\ j \in Int
  BY ShownShape
<1>3. \/ regions[i].offset + regions[i].size <= regions[j].offset
      \/ regions[j].offset + regions[j].size <= regions[i].offset
  BY <1>2 DEF RegionsApart
<1> QED
  BY <1>1, <1>3

LEMMA DataReplaced ==
  ASSUME NEW r, NEW d, NEW c, NEW n, r = [data |-> d, closed |-> c]
  PROVE  [r EXCEPT !.data = n] = [data |-> n, closed |-> c]
  OBVIOUS

LEMMA ClosedReplaced ==
  ASSUME NEW r, NEW d, NEW c, NEW t, r = [data |-> d, closed |-> c]
  PROVE  [r EXCEPT !.closed = t] = [data |-> d, closed |-> t]
  OBVIOUS

\* A turn of the write loop changes the region it is about, and no other.
LEMMA ChangeShown ==
  ASSUME RegionIInv, RegionIInv', Fits, CacheNext, WritePage, UNCHANGED apiVars
  PROVE  Regions!Change
<1>1. request' = request /\ call' = call /\ regions' = regions /\ request.kind = "write"
  BY DEF WritePage, apiVars
<1>2. PICK i \in DOMAIN regions : i = Target /\ WithinRegion(regions[i], request)
  BY <1>1, TargetKinds DEF RegionIInv, RegionInv, WritesWithin
<1>3. Target' = Target /\ Target # 0
  BY <1>1, <1>2, TargetSame, TargetNonzero
<1> DEFINE new == BytesOf(regions[i])'
<1>4. DOMAIN new = DOMAIN BytesOf(regions[i])
  BY <1>1 DEF BytesOf
<1>5. ASSUME NEW k \in DOMAIN new
      PROVE  new[k] \in Values
  <2>1. k \in 1 .. regions[i].size /\ new[k] = contents'[regions[i].offset + k - 1]
    BY <1>1, <1>5 DEF BytesOf
  <2>2. PICK b \in Bytes : b = regions[i].offset + k - 1
    BY <2>1, RegionBytes DEF RegionIInv, RegionInv
  <2>3. contents'[b] \in Values
    <3>1. CASE b \in Position .. Position + Count - 1
      <4>1. contents'[b] = request.data[done + (b - Position) + 1]
        BY <3>1, FitsContents DEF RegionIInv
      <4>2. /\ done < request.length /\ Count \in 1 .. request.length - done
            /\ done \in Nat /\ request.length \in Nat /\ Position \in Int
        BY PositionOK DEF WritePage, RegionIInv, Inv, RequestOK, Bytes
      <4>3. done + (b - Position) + 1 \in 1 .. request.length
        BY <3>1, <4>2 DEF Bytes
      <4>4. request.data \in Seq(Values) /\ Len(request.data) = request.length
        BY <1>1 DEF RegionIInv, Inv, RequestOK
      <4> QED
        BY <4>1, <4>3, <4>4
    <3>2. CASE b \notin Position .. Position + Count - 1
      <4>1. contents'[b] = contents[b]
        BY <3>2, FitsContents DEF RegionIInv
      <4> QED
        BY <4>1, ContentsType DEF RegionIInv, Inv
    <3> QED
      BY <3>1, <3>2
  <2> QED
    BY <2>1, <2>2, <2>3
<1>6. ASSUME NEW j \in DOMAIN regions, j # i
      PROVE  BytesOf(regions[j])' = BytesOf(regions[j])
  <2>1. ASSUME NEW k \in 1 .. regions[j].size
        PROVE  contents'[regions[j].offset + k - 1] = contents[regions[j].offset + k - 1]
    <3>1. PICK b \in Bytes : b = regions[j].offset + k - 1
      BY RegionBytes DEF RegionIInv, RegionInv
    <3>2. b \notin Written
      <4> SUFFICES ASSUME b \in Written PROVE FALSE
        OBVIOUS
      <4>1. PICK first, n \in Nat : first = request.offset /\ n = request.length
        BY DEF RegionIInv, Inv, RequestOK
      <4>2. b \in Nat /\ first <= b /\ b < first + n
        BY <1>1, <4>1 DEF Written, Bytes
      <4>3. regions[i].offset <= first /\ first + n <= regions[i].offset + regions[i].size
        BY <1>2, <4>1 DEF WithinRegion
      <4>4. regions[i].offset \in Nat /\ regions[i].size \in Nat
        BY RegionType DEF RegionIInv
      <4>5. regions[i].offset <= b /\ b < regions[i].offset + regions[i].size
        BY <4>1, <4>2, <4>3, <4>4
      <4> QED
        BY <1>6, <3>1, <4>5, Disjoint DEF RegionIInv, RegionInv
    <3>3. b \notin Position .. Position + Count - 1
      BY <3>2, WriteRange DEF RegionIInv, WritePage
    <3> QED
      BY <3>1, <3>3, FitsContents DEF RegionIInv
  <2> QED
    BY <1>1, <2>1 DEF BytesOf
<1> HIDE DEF new
<1>7. Shown' = [Shown EXCEPT ![i].data = new]
  <2>1. DOMAIN Shown' = DOMAIN regions /\ DOMAIN Shown = DOMAIN regions
    BY <1>1 DEF Shown
  <2>2. ASSUME NEW j \in DOMAIN regions
        PROVE  Shown'[j] = [data |-> IF j = i THEN new ELSE BytesOf(regions[j]),
                            closed |-> regions[j].closed]
    BY <1>1, <1>6 DEF Shown, new
  <2>3. \A j \in DOMAIN regions :
          Shown[j] = [data |-> BytesOf(regions[j]), closed |-> regions[j].closed]
    BY DEF Shown
  <2>4. ASSUME NEW after, after = [Shown EXCEPT ![i].data = new]
        PROVE  after = [j \in DOMAIN regions |->
                          [data |-> IF j = i THEN new ELSE BytesOf(regions[j]),
                           closed |-> regions[j].closed]]
    <3>1. DOMAIN after = DOMAIN regions /\ \A j \in DOMAIN regions : j # i => after[j] = Shown[j]
      BY <2>1, <2>4
    <3>2. after[i] = [Shown[i] EXCEPT !.data = new]
      BY <2>1, <2>4
    <3>3. [Shown[i] EXCEPT !.data = new] = [data |-> new, closed |-> regions[i].closed]
      <4>1. PICK r, d, c : r = Shown[i] /\ d = BytesOf(regions[i]) /\ c = regions[i].closed
        OBVIOUS
      <4>2. r = [data |-> d, closed |-> c]
        BY <2>3, <4>1, Zenon
      <4>3. [r EXCEPT !.data = new] = [data |-> new, closed |-> c]
        BY <4>2, DataReplaced
      <4> QED
        BY <4>1, <4>3, Zenon
    <3>4. after = [j \in DOMAIN regions |-> after[j]]
      BY <2>1, <2>4
    <3> QED
      BY <2>3, <3>1, <3>2, <3>3, <3>4
  <2>5. Shown' = [j \in DOMAIN regions |-> Shown'[j]]
    BY <1>1 DEF Shown
  <2> QED
    BY <2>2, <2>4, <2>5
<1>8. /\ DOMAIN new = DOMAIN Shown[i].data /\ Shown'[i].data = new
      /\ \A k \in DOMAIN new : new[k] \in Values
  BY <1>1, <1>4, <1>5 DEF Shown, new
<1> QED
  BY <1>2, <1>3, <1>7, <1>8 DEF Regions!Change, Shown

Lengths == Len(Shown) = Len(regions) /\ DOMAIN regions = 1 .. Len(regions)

LEMMA ShownLengths == ApiOK => Lengths
  BY ShownShape DEF Lengths

LEMMA ShownLengthsNext == ApiOK' => Lengths'
  BY ShownLengths, PTL

\* allocate adds a region of zeros.
LEMMA AllocateShown ==
  ASSUME RegionIInv, RegionIInv', Fits, Allocate
  PROVE  Regions!Allocate
<1>1. PICK size \in Sizes :
        /\ regions' = Append(regions, [offset |-> next_offset, size |-> size, closed |-> FALSE])
        /\ next_offset' = next_offset + size
  BY DEF Allocate, NextOffset
<1>2. /\ size \in Nat \ {0} /\ next_offset \in Nat /\ call.op = "none"
      /\ request.kind = "idle" /\ request' = request /\ call' = call
      /\ UNCHANGED vars
  BY ApiAssumption, IdleKind DEF Allocate, Ready, NoCall, RegionIInv, ApiOK, vars
<1> PICK new : new = [offset |-> next_offset, size |-> size, closed |-> FALSE]
  OBVIOUS
<1>3. /\ new \in [offset : Nat, size : Nat \ {0}, closed : BOOLEAN]
      /\ new.offset = next_offset /\ new.size = size /\ ~new.closed
  BY <1>2
<1>4. PICK n \in Nat : n = Len(regions) /\ DOMAIN regions = 1 .. n
  BY ShownShape DEF RegionIInv
<1>5. /\ DOMAIN regions' = 1 .. n + 1 /\ regions'[n + 1] = new /\ Len(regions') = n + 1
      /\ \A i \in DOMAIN regions : regions'[i] = regions[i]
  <2>1. regions' = Append(regions, new)
    BY <1>1
  <2>2. regions \in Seq([offset : Nat, size : Nat \ {0}, closed : BOOLEAN])
    BY DEF RegionIInv, ApiOK
  <2> QED
    BY <1>3, <1>4, <2>1, <2>2, AppendProperties
<1>6. contents' = contents
  BY <1>2, SameContents DEF vars
<1>7. Target = 0 /\ Target' = 0
  BY <1>2, TargetKinds DEF Target
<1>8. Len(Shown) = n /\ DOMAIN Shown = 1 .. n
  BY <1>4, ShownShape DEF RegionIInv
<1>9. Len(Shown') = n + 1
  BY <1>5, ShownLengthsNext DEF RegionIInv, Lengths
<1>10. ASSUME NEW i \in DOMAIN regions
       PROVE  Shown'[i] = Shown[i]
  <2>1. regions'[i] = regions[i] /\ i \in DOMAIN regions'
    BY <1>4, <1>5
  <2>2. BytesOf(regions[i])' = BytesOf(regions[i])
    BY <1>6, <2>1 DEF BytesOf
  <2>3. Shown'[i] = [data |-> BytesOf(regions[i])', closed |-> regions'[i].closed]
    BY <2>1 DEF Shown
  <2> QED
    BY <2>1, <2>2, <2>3 DEF Shown
<1>11. /\ n + 1 \in DOMAIN regions' /\ DOMAIN regions' = 1 .. n + 1
       /\ Shown'[n + 1] = [data |-> [k \in 1 .. size |-> contents[next_offset + k - 1]],
                           closed |-> new.closed]
  <2>1. n + 1 \in DOMAIN regions'
    BY <1>4, <1>5
  <2>2. Shown'[n + 1] = [data |-> BytesOf(regions[n + 1])', closed |-> regions'[n + 1].closed]
    BY <2>1, <1>4 DEF Shown, BytesOf
  <2>3. BytesOf(regions[n + 1])' = [k \in 1 .. size |-> contents[next_offset + k - 1]]
    BY <1>3, <1>4, <1>5, <1>6 DEF BytesOf
  <2> QED
    BY <1>5, <2>1, <2>2, <2>3
<1>12. ASSUME NEW k \in 1 .. size
       PROVE  contents[next_offset + k - 1] = 0
  <2>1. next_offset + size <= RemoteSize
    BY <1>1 DEF RegionIInv, RegionInv, RegionsApart
  <2>2. next_offset + k - 1 \in Bytes /\ next_offset + k - 1 >= next_offset
    BY <1>2, <2>1, Sizes0 DEF Bytes
  <2> QED
    BY <2>2 DEF RegionIInv, RegionInv, FreshIsZero
<1>13. /\ ~Shown'[n + 1].closed
       /\ \A k \in DOMAIN Shown'[n + 1].data : Shown'[n + 1].data[k] = 0
  BY <1>3, <1>11, <1>12
<1>14. /\ Target = 0 /\ Len(Shown') = Len(Shown) + 1
       /\ \A i \in DOMAIN Shown : Shown'[i] = Shown[i]
       /\ ~Shown'[Len(Shown) + 1].closed
       /\ \A k \in DOMAIN Shown'[Len(Shown) + 1].data : Shown'[Len(Shown) + 1].data[k] = 0
       /\ Target' = Target
  BY <1>4, <1>7, <1>8, <1>9, <1>10, <1>13
<1> QED
  BY <1>14, Zenon DEF Regions!Allocate, Shown

\* A write of the application or of a fill begins on an open region.
LEMMA BeginShown ==
  ASSUME RegionIInv, RegionIInv', (Access /\ StartWrite) \/ StartFill
  PROVE  Regions!Begin
<1>1. /\ call.op = "none" /\ request.kind = "idle" /\ regions' = regions
      /\ UNCHANGED cacheVars /\ request'.kind = "write"
  BY IdleKind DEF Access, StartWrite, StartFill, WriteChunk, Start, Ready, NoCall, apiVars
<1>2. Target = 0
  BY <1>1, TargetKinds
<1>3. Shown' = Shown
  BY <1>1, SameContents, ShownSame DEF cacheVars
<1>4. Target' \in DOMAIN regions /\ ~regions[Target'].closed
  <2>1. CASE Access /\ StartWrite
    <3>1. call'.op = "none"
      BY <1>1, <2>1 DEF Access, apiVars
    <3>2. \E i \in DOMAIN regions : ~regions[i].closed /\ WithinRegion(regions[i], request')
      BY <2>1 DEF Access
    <3>3. Target' = CHOOSE i \in DOMAIN regions :
                      ~regions[i].closed /\ WithinRegion(regions[i], request')
      BY <1>1, <3>1 DEF Target, WithinRegion
    <3> QED
      BY <3>2, <3>3
  <2>2. CASE StartFill
    <3>1. PICK i \in DOMAIN regions : ~regions[i].closed /\ call'.op = "fill" /\ call'.region = i
      BY <2>2 DEF StartFill, WriteChunk
    <3> QED
      BY <3>1 DEF Target
  <2> QED
    BY <2>1, <2>2
<1>5. Target' \in DOMAIN Shown /\ ~Shown[Target'].closed
  BY <1>4 DEF Shown
<1> QED
  BY <1>2, <1>3, <1>5, Zenon DEF Regions!Begin, Shown

\* A region is closed, or all of them.
LEMMA CloseShown ==
  ASSUME RegionIInv, UNCHANGED vars, request.kind = "idle", call.op # "fill", call'.op # "fill",
         DOMAIN regions' = DOMAIN regions,
         \A i \in DOMAIN regions : regions'[i] \in {regions[i], Closed(regions[i])}
  PROVE  Regions!Close
<1>1. Target = 0 /\ Target' = 0
  BY TargetKinds DEF Target, vars
<1>2. contents' = contents
  BY SameContents DEF vars
<1>3. DOMAIN Shown' = DOMAIN Shown /\ DOMAIN Shown = DOMAIN regions
  BY DEF Shown
<1>4. ASSUME NEW i \in DOMAIN regions
      PROVE  Shown'[i] \in {Shown[i], [Shown[i] EXCEPT !.closed = TRUE]}
  <2>1. PICK r, after : r = regions[i] /\ after = regions'[i]
    OBVIOUS
  <2>2. /\ r \in [offset : Nat, size : Nat \ {0}, closed : BOOLEAN]
        /\ after = r \/ after = [r EXCEPT !.closed = TRUE]
    BY <2>1, RegionType DEF RegionIInv, Closed
  <2>3. /\ after.offset = r.offset /\ after.size = r.size
        /\ after.closed = r.closed \/ after.closed = TRUE
    BY <2>2
  <2>4. PICK d, c : d = BytesOf(r) /\ c = r.closed
    OBVIOUS
  <2>5. Shown[i] = [data |-> d, closed |-> c]
    BY <2>1, <2>4 DEF Shown
  <2>6. Shown'[i] = [data |-> d, closed |-> after.closed]
    <3>1. BytesOf(regions[i])' = d
      BY <1>2, <2>1, <2>3, <2>4 DEF BytesOf
    <3> QED
      BY <2>1, <3>1 DEF Shown
  <2>7. [Shown[i] EXCEPT !.closed = TRUE] = [data |-> d, closed |-> TRUE]
    <3>1. PICK t, s : t \in BOOLEAN /\ t = TRUE /\ s = Shown[i]
      OBVIOUS
    <3>2. s = [data |-> d, closed |-> c]
      BY <2>5, <3>1, Zenon
    <3>3. [s EXCEPT !.closed = t] = [data |-> d, closed |-> t]
      BY <3>2, ClosedReplaced
    <3> QED
      BY <3>1, <3>3, Zenon
  <2>8. CASE after.closed = r.closed
    BY <2>4, <2>5, <2>6, <2>8, Zenon
  <2>9. CASE after.closed = TRUE
    BY <2>6, <2>7, <2>9, Zenon
  <2> QED
    BY <2>3, <2>8, <2>9
<1>5. \A i \in DOMAIN Shown : Shown'[i] \in {Shown[i], [Shown[i] EXCEPT !.closed = TRUE]}
  BY <1>3, <1>4
<1> QED
  BY <1>1, <1>3, <1>5, Zenon DEF Regions!Close, Shown

\* The steps that show nothing, and those that end a write or a fill.
LEMMA StillShown ==
  ASSUME regions' = regions, contents' = contents
  PROVE  /\ Target' = Target => UNCHANGED <<Shown, Target>>
         /\ Target # 0 /\ Target' = 0 => Regions!End
<1>1. Shown' = Shown
  BY ShownSame
<1> QED
  BY <1>1, Zenon DEF Regions!End, Shown

LEMMA RegionsStep ==
  ASSUME RegionIInv, RegionIInv', Fits, [NextApi]_<<vars, apiVars>>
  PROVE  Regions!Next \/ UNCHANGED <<Shown, Target>>
<1>1. CASE Allocate
  BY <1>1, AllocateShown DEF Regions!Next
<1>2. CASE (Access /\ StartWrite) \/ StartFill
  BY <1>2, BeginShown DEF Regions!Next
<1>3. CASE (Access /\ StartRead) \/ Flush \/ StartClose
  <2>1. /\ call.op = "none" /\ request.kind = "idle" /\ regions' = regions /\ call'.op # "fill"
        /\ UNCHANGED cacheVars /\ request'.kind # "write"
    BY <1>3, IdleKind DEF Access, StartRead, Flush, StartClose, StartFlush, Start, Ready, NoCall,
       apiVars
  <2>2. Target = 0 /\ Target' = 0
    BY <2>1, TargetKinds DEF Target
  <2> QED
    BY <2>1, <2>2, SameContents, StillShown DEF cacheVars
<1>4. CASE CloseRegion
  <2>1. PICK i \in DOMAIN regions : regions' = [regions EXCEPT ![i] = Closed(@)]
    BY <1>4 DEF CloseRegion
  <2>2. UNCHANGED <<vars, call>> /\ call.op = "none" /\ request.kind = "idle"
    BY <1>4, IdleKind DEF CloseRegion, Ready, NoCall
  <2> QED
    BY <2>1, <2>2, CloseShown DEF Regions!Next
<1>5. CASE EndClose
  <2>1. /\ regions' = AfterFlush /\ call.op = "close" /\ call'.op = "none" /\ UNCHANGED vars
        /\ request.kind = "idle"
    BY <1>5, IdleKind DEF EndClose, NoCall
  <2>2. DOMAIN regions' = DOMAIN regions
        /\ \A i \in DOMAIN regions : regions'[i] \in {regions[i], Closed(regions[i])}
    BY <2>1 DEF AfterFlush
  <2> QED
    BY <2>1, <2>2, CloseShown DEF Regions!Next
<1>6. CASE NextChunk
  <2>1. /\ call.op = "fill" /\ call'.op = "fill" /\ call'.region = call.region
        /\ regions' = regions /\ UNCHANGED cacheVars
    BY <1>6 DEF NextChunk, ChunkOver, WriteChunk, Start
  <2>2. Target' = Target
    BY <2>1 DEF Target
  <2> QED
    BY <2>1, <2>2, SameContents, StillShown DEF cacheVars
<1>7. CASE FillEnds
  <2>1. /\ call.op = "fill" /\ call'.op = "none" /\ regions' = regions /\ UNCHANGED vars
        /\ request.kind = "idle" /\ request' = request
    BY <1>7, IdleKind DEF FillEnds, ChunkOver, NoCall, vars
  <2>2. Target # 0 /\ Target' = 0
    BY <2>1, TargetKinds, TargetNonzero DEF Target
  <2> QED
    BY <2>1, <2>2, SameContents, StillShown DEF vars, Regions!Next
<1>8. CASE CacheStep
  <2>1. Step /\ CacheNext /\ UNCHANGED apiVars /\ regions' = regions /\ call' = call
    BY <1>8 DEF CacheStep, CacheNext, apiVars
  <2>2. CASE WritePage
    BY <2>1, <2>2, ChangeShown DEF Regions!Next
  <2>3. CASE ~WritePage
    <3>1. contents' = contents
      BY <2>1, <2>3, FitsContents DEF RegionIInv
    <3>2. CASE request' = request
      BY <2>1, <3>1, <3>2, TargetSame, StillShown
    <3>3. CASE request' = Idle
      <4>1. request'.kind = "idle"
        BY <3>3, IdleKind DEF Idle, Store!Idle
      <4>2. CASE call.op = "fill"
        <5>1. Target' = Target
          BY <2>1, <4>2 DEF Target
        <5> QED
          BY <2>1, <3>1, <5>1, StillShown
      <4>3. CASE call.op # "fill" /\ request.kind = "write"
        <5>1. Target # 0 /\ Target' = 0
          BY <2>1, <4>1, <4>3, TargetKinds, TargetNonzero DEF Target
        <5> QED
          BY <2>1, <3>1, <5>1, StillShown DEF Regions!Next
      <4>4. CASE call.op # "fill" /\ request.kind # "write"
        <5>1. Target = 0 /\ Target' = 0
          BY <2>1, <4>1, <4>4, TargetKinds DEF Target
        <5> QED
          BY <2>1, <3>1, <5>1, StillShown
      <4> QED
        BY <4>2, <4>3, <4>4
    <3>4. request' = request \/ request' = Idle
      BY <2>1 DEF Step, LoadFails, ReadPage, WritePage, Return, FlushOne, FlushFails, FlushDone,
         Finish, Idle
    <3> QED
      BY <3>2, <3>3, <3>4
  <2> QED
    BY <2>2, <2>3
<1>9. CASE UNCHANGED <<vars, apiVars>>
  <2>1. /\ UNCHANGED vars /\ request' = request /\ regions' = regions /\ call' = call
    BY <1>9 DEF vars, apiVars
  <2> QED
    BY <2>1, SameContents, TargetSame, StillShown DEF vars
<1>10. NextApi => \/ Allocate \/ (Access /\ StartWrite) \/ (Access /\ StartRead) \/ Flush
                  \/ StartFill \/ CloseRegion \/ StartClose \/ CacheStep \/ NextChunk
                  \/ FillEnds \/ EndClose
  BY DEF NextApi, CallStep, Access
<1> QED
  BY <1>1, <1>2, <1>3, <1>4, <1>5, <1>6, <1>7, <1>8, <1>9, <1>10

LEMMA RegionsInit == InitApi => Regions!Init
<1> SUFFICES ASSUME InitApi PROVE Regions!Init
  OBVIOUS
<1>1. regions = <<>> /\ Target = 0
  BY IdleKind DEF InitApi, Init, NoCall, Target
<1>2. Shown = <<>>
  BY <1>1 DEF Shown
<1> QED
  BY <1>1, <1>2, Zenon DEF Regions!Init, Shown

(***************************************************************************)
(* With a cache that never evicts, the regions are what RegionStore says:  *)
(* a fresh region is zero, a call changes its own region alone, and a      *)
(* closed region keeps its bytes, although regions share pages             *)
(* (ramlink_memory_api.py:134-146, 187-196).                               *)
(***************************************************************************)
THEOREM ApiImplementsRegions == ApiSpec => ImplementsRegions
<1>1. RegionIInv /\ RegionIInv' /\ [NextApi]_<<vars, apiVars>>
        => [Fits => Regions!Next]_(Regions!regionVars)
  BY RegionsStep DEF Regions!regionVars, Shown
<1> QED
  BY <1>1, RegionsInit, RegionInvariant, PTL DEF ApiSpec, ImplementsRegions

=============================================================================
