------------------------------ MODULE PageCache ------------------------------
(***************************************************************************)
(* RemoteMemoryCache of clients/windows/ramlink_cache_manager.py: fixed    *)
(* size pages of remote memory kept in an OrderedDict, written back when   *)
(* flushed, evicted least recently used first.                             *)
(*                                                                         *)
(* An operation holds self.lock from its first page to its last, so at     *)
(* most one is under way and the callers waiting for the lock have no      *)
(* state.  A step handles one page, with the call to the local API it      *)
(* makes; such a call may raise, and a write that raises may have been     *)
(* carried out (the reply was lost) or not.                                *)
(***************************************************************************)
EXTENDS Integers, Sequences, FiniteSets

CONSTANTS
    PAGE_SIZE,      \* bytes in a page
    RemoteSize,     \* bytes of remote memory
    Capacities,     \* values of capacity // page_size; below 1 the constructor raises
    Values,         \* the values a byte can have, 0 among them
    Writes,         \* the byte sequences callers write
    ReadLengths     \* the lengths callers read

ASSUME CacheAssumption ==
    /\ PAGE_SIZE \in Nat \ {0}
    /\ RemoteSize \in Nat \ {0}
    /\ Capacities \subseteq Nat \ {0}
    /\ 0 \in Values
    /\ Writes \subseteq Seq(Values)
    /\ ReadLengths \subseteq Nat

VARIABLES
    max_pages,
    remote,     \* the bytes of the region behind the local API
    order,      \* the keys of self.pages, least recently used first
    pages,      \* pages[p]: the bytes cached for page p
    dirty,      \* self.dirty
    request,    \* the operation that holds the lock
    done,       \* the bytes a read or write has handled
    flushed,    \* the pages a flush has written
    out,        \* what a read has gathered so far
    answer      \* what the last operation returned or raised

vars == <<max_pages, remote, order, pages, dirty, request, done, flushed, out, answer>>

cacheVars == <<max_pages, remote, order, pages, dirty>>

Bytes == 0 .. RemoteSize - 1

\* The array this cache stands for: cached bytes over the remote ones.
View(cached, array) ==
    [b \in Bytes |-> IF b \div PAGE_SIZE \in DOMAIN cached
                     THEN cached[b \div PAGE_SIZE][b % PAGE_SIZE]
                     ELSE array[b]]

contents == View(pages, remote)

Store == INSTANCE ByteStore

Idle == Store!Idle

Init ==
    /\ max_pages \in Capacities
    /\ remote = [b \in Bytes |-> 0]
    /\ order = <<>>
    /\ pages = [p \in {} |-> 0]
    /\ dirty = {}
    /\ request = Idle
    /\ done = 0
    /\ flushed = {}
    /\ out = <<>>
    /\ answer = Store!NoAnswer

-----------------------------------------------------------------------------
PageLength(p) ==
    IF PAGE_SIZE <= RemoteSize - p * PAGE_SIZE THEN PAGE_SIZE ELSE RemoteSize - p * PAGE_SIZE

\* api.read of one page.
Fetch(p) == [i \in 0 .. PageLength(p) - 1 |-> remote[p * PAGE_SIZE + i]]

\* Mutant of FlushPage: the remote keeps what it had.
FlushPageNever(p, cached, array) == array

\* The remote array after _flush_page(p), which looks p up among the pages
\* cached at that moment and writes nothing when it is not there.
FlushPage(p, cached, array) ==
    IF p \in DOMAIN cached
    THEN [b \in Bytes |-> IF b \div PAGE_SIZE = p THEN cached[p][b % PAGE_SIZE] ELSE array[b]]
    ELSE array

\* The order without p, which stands in it once.
Remaining(p) ==
    LET i == CHOOSE j \in DOMAIN order : order[j] = p
    IN  SubSeq(order, 1, i - 1) \o SubSeq(order, i + 1, Len(order))

\* popitem(last=False), when the cache is full.
Victims == IF Len(order) >= max_pages THEN {Head(order)} ELSE {}

Without(cached, S) == [q \in DOMAIN cached \ S |-> cached[q]]

\* _load_page: a hit makes p the most recently used page.
Hit(p) ==
    [order |-> Append(Remaining(p), p), pages |-> pages, dirty |-> dirty, remote |-> remote]

\* Mutant of DirtyWithout: the evicted page stays in self.dirty.
DirtyWithoutNone(S) == dirty

\* self.dirty.discard of the victim.
DirtyWithout(S) == dirty \ S

\* _load_page: a miss reads p, and makes room for it.  The victim has left
\* self.pages by the time _flush_page looks for it.
Miss(p) ==
    LET kept == Without(pages, Victims)
    IN  [order  |-> Append(IF Victims = {} THEN order ELSE Tail(order), p),
         pages  |-> [q \in DOMAIN kept \cup {p} |-> IF q = p THEN Fetch(p) ELSE kept[q]],
         dirty  |-> DirtyWithout(Victims),
         remote |-> IF Victims \cap dirty = {} THEN remote
                    ELSE FlushPage(Head(order), kept, remote)]

\* _load_page.
Loaded(p) == IF p \in DOMAIN pages THEN Hit(p) ELSE Miss(p)

-----------------------------------------------------------------------------
\* _check passes and the lock is taken; a range that fails it changes nothing.
Start(kind, offset, length, data) ==
    /\ request = Idle
    /\ offset + length <= RemoteSize
    /\ request' = [kind |-> kind, offset |-> offset, length |-> length, data |-> data]
    /\ done' = 0
    /\ flushed' = {}
    /\ out' = <<>>
    /\ answer' = Store!NoAnswer
    /\ UNCHANGED cacheVars

StartRead == \E offset \in Bytes, n \in ReadLengths : Start("read", offset, n, <<>>)

StartWrite == \E offset \in Bytes, w \in Writes : Start("write", offset, Len(w), w)

StartFlush == Start("flush", 0, 0, <<>>)

\* The operation ends and gives up the lock.
Finish(result) ==
    /\ request' = Idle
    /\ done' = 0
    /\ flushed' = {}
    /\ out' = <<>>
    /\ answer' = result

\* The position the loop of read / write has reached.
Position == request.offset + done

Page == Position \div PAGE_SIZE

Inside == Position % PAGE_SIZE

\* Mutant of Count: the last byte of a page is left for the next turn.
CountShort ==
    LET left == request.length - done
        room == PageLength(Page) - Inside - 1
    IN  IF left <= room THEN left ELSE room

\* min(length, len(data) - inside)
Count ==
    LET left == request.length - done
        room == PageLength(Page) - Inside
    IN  IF left <= room THEN left ELSE room

\* The page is not cached and api.read raises.
LoadFails ==
    /\ request.kind \in {"read", "write"} /\ done < request.length
    /\ Page \notin DOMAIN pages
    /\ Finish(Store!Error)
    /\ UNCHANGED cacheVars

\* self.pages, its order, self.dirty and the remote array become those of l.
Become(l) ==
    /\ order' = l.order /\ pages' = l.pages /\ dirty' = l.dirty /\ remote' = l.remote
    /\ UNCHANGED max_pages

\* Mutant of Taken: the bytes are taken from the start of the page.
TakenFromStart(data) == [i \in 1 .. Count |-> data[i - 1]]

\* data[inside:inside+n]
Taken(data) == [i \in 1 .. Count |-> data[Inside + i - 1]]

ReadPage ==
    /\ request.kind = "read" /\ done < request.length
    /\ LET l == Loaded(Page) IN Become(l) /\ out' = out \o Taken(l.pages[Page])
    /\ done' = done + Count
    /\ UNCHANGED <<request, flushed, answer>>

\* The cached bytes of p after page_data[inside:inside+n] = data[pos:pos+n].
Patched(data) ==
    [i \in DOMAIN data |-> IF i \in Inside .. Inside + Count - 1
                           THEN request.data[done + (i - Inside) + 1] ELSE data[i]]

\* Mutant of MarkedDirty: the page is not marked dirty.
MarkedClean(l) == [l EXCEPT !.pages[Page] = Patched(@)]

\* Mutant of MarkedDirty: self.dirty gets the byte offset.
MarkedOffset(l) == [l EXCEPT !.pages[Page] = Patched(@), !.dirty = @ \cup {Position}]

MarkedDirty(l) == [l EXCEPT !.pages[Page] = Patched(@), !.dirty = @ \cup {Page}]

\* move_to_end leaves the page where _load_page has just put it.
WritePage ==
    /\ request.kind = "write" /\ done < request.length
    /\ Become(MarkedDirty(Loaded(Page)))
    /\ done' = done + Count
    /\ UNCHANGED <<request, flushed, out, answer>>

\* read or write leaves its loop and returns.
Return ==
    /\ request.kind \in {"read", "write"} /\ done = request.length
    /\ Finish([ok |-> TRUE, data |-> out])
    /\ UNCHANGED cacheVars

\* flush writes the dirty pages in the order the set gives them.
FlushOne ==
    /\ request.kind = "flush"
    /\ \E p \in dirty \ flushed :
         /\ remote' = FlushPage(p, pages, remote)
         /\ flushed' = flushed \cup {p}
    /\ UNCHANGED <<max_pages, order, pages, dirty, request, done, out, answer>>

\* api.write raises, its effect done or not; no page is marked clean.
FlushFails ==
    /\ request.kind = "flush"
    /\ \E p \in dirty \ flushed :
         remote' \in {remote, FlushPage(p, pages, remote)}
    /\ Finish(Store!Error)
    /\ UNCHANGED <<max_pages, order, pages, dirty>>

FlushDone ==
    /\ request.kind = "flush" /\ flushed = dirty
    /\ dirty' = {}
    /\ Finish(Store!NoAnswer)
    /\ UNCHANGED <<max_pages, remote, order, pages>>

Step == LoadFails \/ ReadPage \/ WritePage \/ Return \/ FlushOne \/ FlushFails \/ FlushDone

Next == StartRead \/ StartWrite \/ StartFlush \/ Step

Spec == Init /\ [][Next]_vars

\* The thread inside an operation runs on; the local API answers or times out.
FairSpec == Spec /\ WF_vars(Step)

-----------------------------------------------------------------------------
PageNumbers == 0 .. (RemoteSize - 1) \div PAGE_SIZE

TypeOK ==
    /\ remote \in [Bytes -> Values]
    /\ order \in Seq(PageNumbers)
    /\ DOMAIN pages \subseteq PageNumbers
    /\ \A p \in DOMAIN pages : pages[p] \in [0 .. PageLength(p) - 1 -> Values]
    /\ dirty \subseteq PageNumbers
    /\ request.kind \in Store!Kinds
    /\ answer.ok \in BOOLEAN

(***************************************************************************)
(* The cache never holds more than capacity // page_size pages, the        *)
(* OrderedDict lists each of them once, and self.dirty names cached pages  *)
(* only: flush never meets a dirty page whose bytes are gone               *)
(* (ramlink_cache_manager.py:105-110, 115-118).                            *)
(***************************************************************************)
CacheBounded ==
    /\ Cardinality(DOMAIN pages) <= max_pages
    /\ Len(order) = Cardinality(DOMAIN pages)
    /\ {order[i] : i \in 1 .. Len(order)} = DOMAIN pages
    /\ dirty \subseteq DOMAIN pages

(***************************************************************************)
(* A cached page that is not dirty equals the remote bytes, after any      *)
(* number of evictions, failed flushes and half-done writes: so the remote *)
(* memory holds everything when flush returns and nothing is dirty         *)
(* (ramlink_cache_manager.py:102, 149, 154-158).                           *)
(***************************************************************************)
CleanMatches ==
    \A p \in DOMAIN pages \ dirty : pages[p] = Fetch(p)

Written == IF request.kind = "write"
           THEN request.offset .. request.offset + request.length - 1 ELSE {}

(***************************************************************************)
(* Outside the range of the write under way no byte changes its value,     *)
(* except those of a dirty page that is evicted: a failed operation, a     *)
(* flush and the eviction of a clean page lose nothing                     *)
(* (ramlink_cache_manager.py:105-112).                                     *)
(***************************************************************************)
LossOnlyByDirtyEviction ==
    [][\A b \in Bytes \ Written :
         contents'[b] # contents[b]
           => b \div PAGE_SIZE \in dirty \ DOMAIN pages']_vars

(***************************************************************************)
(* Bytes change only where the write under way puts them: what has been    *)
(* written "through the cache" is what is read "back through the cache"    *)
(* (clients/windows/ACTIVE_CACHE.md:43-44).                                *)
(***************************************************************************)
OnlyWritesChangeContents ==
    [][\A b \in Bytes \ Written : contents'[b] = contents[b]]_vars

\* Every page of the remote memory finds a place in the cache.
Fits == max_pages * PAGE_SIZE >= RemoteSize

(***************************************************************************)
(* A cache that never has to evict (Fits) implements the byte store: a     *)
(* read returns the bytes of one moment, a successful write is complete, a *)
(* failed one wrote a prefix, flush changes nothing the caller can see.    *)
(***************************************************************************)
ImplementsStore == Store!Init /\ [][Fits => Store!Next]_(Store!storeVars)

(***************************************************************************)
(* Every operation ends: the loops of read and write advance by at least   *)
(* one byte per page, at page boundaries and in a short last page          *)
(* (ramlink_cache_manager.py:127-134, 143-152).                            *)
(***************************************************************************)
OperationsEnd == request.kind # "idle" ~> request.kind = "idle"

=============================================================================
