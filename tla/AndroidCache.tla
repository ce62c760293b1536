---------------------------- MODULE AndroidCache ----------------------------
(***************************************************************************)
(* RemoteCache of android/termux/remote_cache.py: a write-through cache of *)
(* pages over memory borrowed from the Windows provider, on one socket.    *)
(*                                                                         *)
(* Nothing renews the lease, so it ends some day; the provider serves an   *)
(* access to bytes that are in anybody's lease and closes the connection   *)
(* otherwise.  The lock is held from the first page of an operation to the *)
(* last; a step is one exchange, or the use of one cached page.  A page is *)
(* a transfer of its own, shorter than MAX_BLOCK.                          *)
(***************************************************************************)
EXTENDS Integers, Sequences, FiniteSets

INSTANCE RmlReplies WITH SectorBytes <- 1

CONSTANTS
    PAGE,           \* bytes in a page
    RemoteSize,     \* bytes borrowed, a multiple of PAGE
    Capacity,       \* pages in the cache
    Values,         \* the values a byte can have, 0 among them
    Junk,           \* a byte of what was no page when it was sent
    Writes,         \* the byte sequences callers write
    ReadLengths,    \* the lengths they read
    MaxLate         \* bound: units left unread on the socket

ASSUME AndroidCacheAssumption ==
    /\ PAGE \in Nat \ {0}
    /\ RemoteSize \in Nat \ {0} /\ RemoteSize % PAGE = 0
    /\ Capacity \in Nat \ {0}
    /\ 0 \in Values /\ Junk \notin Values
    /\ Writes \subseteq Seq(Values) /\ ReadLengths \subseteq Nat
    /\ MaxLate \in Nat

VARIABLES
    remote,     \* the bytes borrowed
    owner,      \* who has a lease on them: "us", "other" or "nobody"
    sock,       \* "open", "ended" by the provider or the network, or "closed"
    late,       \* units of earlier replies still unread on it, oldest first
    order,      \* the keys of self.pages, least recently used first
    pages,      \* pages[p]: the bytes cached for page p
    request,    \* the operation that holds the lock
    done,       \* the bytes it has handled
    out,        \* what a read has gathered so far
    answer,     \* what the last operation returned or raised
    timely      \* no reply has come after its request had given up

vars == <<remote, owner, sock, late, order, pages, request, done, out, answer, timely>>

Addresses == 0 .. RemoteSize - 1

PageOf(array, p) == [i \in 0 .. PAGE - 1 |-> array[p * PAGE + i]]

\* The array this cache stands for: cached bytes over the remote ones.
contents ==
    [b \in Addresses |-> IF b \div PAGE \in DOMAIN pages THEN pages[b \div PAGE][b % PAGE]
                     ELSE remote[b]]

Store == INSTANCE ByteStore

\* The constructor has connected and borrowed.
Init ==
    /\ remote = [b \in Addresses |-> 0] /\ owner = "us"
    /\ sock = "open" /\ late = <<>> /\ timely = TRUE
    /\ order = <<>> /\ pages = [p \in {} |-> 0]
    /\ request = Store!Idle /\ done = 0 /\ out = <<>> /\ answer = Store!NoAnswer

-----------------------------------------------------------------------------
\* The lease ends, and another borrower gets the block, cleared, and may lose it.
LeaseEnds ==
    /\ owner' = "nobody" /\ owner # "nobody"
    /\ UNCHANGED <<remote, sock, late, order, pages, request, done, out, answer, timely>>

OtherBorrows ==
    /\ owner = "nobody" /\ owner' = "other"
    /\ remote' = [b \in Addresses |-> 0]
    /\ UNCHANGED <<sock, late, order, pages, request, done, out, answer, timely>>

-----------------------------------------------------------------------------
(* One exchange: request() sends, and takes what comes.                    *)

\* The provider receives all of the request and finds a lease.
Served == sock = "open" /\ owner # "nobody"

\* What is on the socket for request() to read.
Stream(served, reply) == IF served THEN late \o reply ELSE late

SocketAfter(served) == IF served THEN sock ELSE "ended"

\* It returns with the first reply that is complete.
Returns(served, reply) ==
    /\ Complete(Stream(served, reply))
    /\ late' = Rest(Stream(served, reply))
    /\ sock' = SocketAfter(served)
    /\ UNCHANGED timely

\* It raises: time is up, the magic is wrong, or the connection is lost.
Raises(served, reply) ==
    /\ \/ late' \in LeftUnread(Stream(served, reply)) /\ sock' = SocketAfter(served)
       \/ late' = <<>> /\ sock' = "ended"
    /\ Len(late') <= MaxLate
    /\ timely' = (timely /\ late' = <<>>)

\* A reply to READ carries the page, each unit the byte it stands for.
ReadReply(p) ==
    <<HeaderUnit("READ", p, PAGE)>>
      \o [i \in 1 .. PAGE |-> [Byte("READ", p) EXCEPT !.n = PageOf(remote, p)[i - 1]]]

\* A reply to WRITE announces the page it has stored, and does not send it.
WriteReply(p) == <<HeaderUnit("WRITE", p, PAGE)>>

\* The page that a body is taken for.
PageIn(body) ==
    [i \in 0 .. PAGE - 1 |-> IF body[i + 1].kind = "byte" THEN body[i + 1].n ELSE Junk]

-----------------------------------------------------------------------------
InRange(offset, length) == offset + length <= RemoteSize

\* The range passes the check and the lock is taken.
Start(kind, offset, length, data) ==
    /\ request = Store!Idle /\ sock # "closed"
    /\ InRange(offset, length)
    /\ request' = [kind |-> kind, offset |-> offset, length |-> length, data |-> data]
    /\ done' = 0 /\ out' = <<>> /\ answer' = Store!NoAnswer
    /\ UNCHANGED <<remote, owner, sock, late, order, pages, timely>>

StartRead == \E offset \in Addresses, n \in ReadLengths : Start("read", offset, n, <<>>)

StartWrite == \E offset \in Addresses, w \in Writes : Start("write", offset, Len(w), w)

Finish(result) ==
    /\ request' = Store!Idle /\ done' = 0 /\ out' = <<>> /\ answer' = result

PageNo == (request.offset + done) \div PAGE

Inside == (request.offset + done) % PAGE

\* min(length, PAGE - inside)
Count ==
    LET left == request.length - done
    IN  IF left <= PAGE - Inside THEN left ELSE PAGE - Inside

\* The keys without p, which is one of them.
Remaining(p) ==
    LET i == CHOOSE j \in DOMAIN order : order[j] = p
    IN  SubSeq(order, 1, i - 1) \o SubSeq(order, i + 1, Len(order))

Turn == request.kind # "idle" /\ done < request.length

Missing == Turn /\ PageNo \notin DOMAIN pages

\* Mutant of Evicted: room is made while there are more pages than fit by two.
EvictedLate(keys) == IF Len(keys) > Capacity + 1 THEN Tail(keys) ELSE keys

\* The keys that stay when the oldest are popped while there are too many.
Evicted(keys) ==
    IF Len(keys) > Capacity THEN SubSeq(keys, Len(keys) - Capacity + 1, Len(keys)) ELSE keys

\* load_page: the page is inserted first, and then room is made.
LoadPage ==
    /\ Missing
    /\ \E served \in {FALSE, Served} :
         /\ Returns(served, ReadReply(PageNo))
         /\ order' = Evicted(Append(order, PageNo))
         /\ LET data == PageIn(TakenBody(Stream(served, ReadReply(PageNo))))
            IN  pages' = [q \in {order'[i] : i \in DOMAIN order'} |->
                            IF q = PageNo THEN data ELSE pages[q]]
    /\ UNCHANGED <<remote, owner, request, done, out, answer>>

LoadRaises ==
    /\ Missing
    /\ \E served \in {FALSE, Served} : Raises(served, ReadReply(PageNo))
    /\ Finish(Store!Error)
    /\ UNCHANGED <<remote, owner, order, pages>>

\* Mutant of Taken: the bytes are taken from the start of the page.
TakenFromStart(data) == [i \in 1 .. Count |-> data[i - 1]]

\* page[inside:inside + n]
Taken(data) == [i \in 1 .. Count |-> data[Inside + i - 1]]

ReadPage ==
    /\ Turn /\ request.kind = "read" /\ PageNo \in DOMAIN pages
    /\ out' = out \o Taken(pages[PageNo])
    /\ order' = Append(Remaining(PageNo), PageNo)
    /\ done' = done + Count
    /\ UNCHANGED <<remote, owner, sock, late, pages, request, answer, timely>>

\* The cached bytes after page[inside:inside + n] = data[pos:pos + n].
Patched(data) ==
    [i \in DOMAIN data |-> IF i \in Inside .. Inside + Count - 1
                           THEN request.data[done + (i - Inside) + 1] ELSE data[i]]

Patch == pages' = [pages EXCEPT ![PageNo] = Patched(@)]

\* Mutant of Stored: the page is sent before the caller's bytes are in it.
StoredBefore == remote

\* remote_write: the provider stores the whole page.
Stored ==
    [b \in Addresses |-> IF b \div PAGE = PageNo THEN Patched(pages[PageNo])[b % PAGE]
                     ELSE remote[b]]

WritePage ==
    /\ Turn /\ request.kind = "write" /\ PageNo \in DOMAIN pages
    /\ Patch
    /\ \E served \in {FALSE, Served} :
         /\ Returns(served, WriteReply(PageNo))
         /\ remote' = IF served THEN Stored ELSE remote
    /\ order' = Append(Remaining(PageNo), PageNo)
    /\ done' = done + Count
    /\ UNCHANGED <<owner, request, out, answer>>

\* The cached page keeps the caller's bytes, stored or not.
WriteRaises ==
    /\ Turn /\ request.kind = "write" /\ PageNo \in DOMAIN pages
    /\ Patch
    /\ \E served \in {FALSE, Served} :
         /\ Raises(served, WriteReply(PageNo))
         /\ remote' = IF served THEN Stored ELSE remote
    /\ Finish(Store!Error)
    /\ UNCHANGED <<owner, order>>

Return ==
    /\ request.kind # "idle" /\ done = request.length
    /\ Finish([ok |-> TRUE, data |-> out])
    /\ UNCHANGED <<remote, owner, sock, late, order, pages, timely>>

\* close(): RELEASE is sent, and whatever goes wrong is ignored.
Close ==
    /\ request = Store!Idle /\ sock # "closed"
    /\ sock' = "closed" /\ late' = <<>>
    /\ owner' \in {owner} \cup (IF owner = "us" /\ sock = "open" THEN {"nobody"} ELSE {})
    /\ UNCHANGED <<remote, order, pages, request, done, out, answer, timely>>

Step == LoadPage \/ LoadRaises \/ ReadPage \/ WritePage \/ WriteRaises \/ Return

Next == LeaseEnds \/ OtherBorrows \/ StartRead \/ StartWrite \/ Step \/ Close

Spec == Init /\ [][Next]_vars

-----------------------------------------------------------------------------
(***************************************************************************)
(* The cache never holds more pages than its capacity, once load_page has  *)
(* made room, and each of them has its place in the order of eviction      *)
(* (remote_cache.py:73-79, 92-99, 117-126).                                *)
(***************************************************************************)
CacheBounded ==
    /\ Cardinality(DOMAIN pages) <= Capacity
    /\ Len(order) = Cardinality(DOMAIN pages)
    /\ {order[i] : i \in DOMAIN order} = DOMAIN pages

Undisturbed == owner = "us" /\ timely

(***************************************************************************)
(* While the lease lasts, the connection is up and no reply was late, the  *)
(* cached pages are the remote ones, although every write of theirs raised *)
(* for want of the body its reply announces (remote_cache.py:41, 123-126). *)
(***************************************************************************)
WrittenThrough ==
    Undisturbed /\ sock = "open" => \A p \in DOMAIN pages : pages[p] = PageOf(remote, p)

(***************************************************************************)
(* While the lease lasts and no reply was late, the cache implements the   *)
(* byte store, on a connection that may be lost at any time: a read that   *)
(* returns has the bytes of one moment, those of the pages that a failed   *)
(* write left in the cache included (remote_cache.py:81-127).              *)
(***************************************************************************)
ImplementsStore == Store!Init /\ [][Undisturbed => Store!Next]_(Store!storeVars)

=============================================================================
