# RAM-Link: TLA+ models, checks and proofs

RAM-Link lends RAM between a phone and a PC over a small TCP protocol (RML1).
This directory models the parts of it that keep shared or distributed state,
checks them with TLC on small instances, and proves with TLAPS, for every
instance, the safety properties of both providers, the framing, the memory service, its
local API, the page cache, the application API and the Android borrower's cache, and the
single steps behind part of the liveness properties.

Paths below are relative to `src/`.

## 1. The system

| Component | State | Operations | Talks to |
|---|---|---|---|
| Android provider, `android/termux/server.py` | buffer, lease table, next id; one thread per connection | INFO, PING, BORROW, RELEASE, KEEPALIVE, READ, WRITE, BLOCK_* | borrowers over RML1 |
| Windows provider, `clients/windows/ramlink_memory_provider.py` | the same | the same without BLOCK_* | borrowers over RML1 |
| Memory service, `clients/windows/ramlink_memory_service.py` (RemoteMemory) | socket, lease id, base offset, length, lock | borrow, keepalive, reconnect, read, write, release | a provider; local API clients |
| Local API, same file (LocalApi) | one thread per connection | HELLO, SIZE, STATUS, READ, WRITE in text | RemoteMemory |
| Page cache, `clients/windows/ramlink_cache_manager.py` | pages in LRU order, dirty set, lock | read, write, flush, load, evict | local API |
| Application API, `clients/windows/ramlink_memory_api.py` | regions, bump pointer, a page cache without a lock | allocate, read, write, fill, flush, close | local API |
| Android borrower cache, `android/termux/remote_cache.py` | socket, lease, LRU pages (write-through) | read, write, close | Windows provider |
| Android borrower, `android/termux/client.py` | one socket shared by two threads | borrow, write, read, keepalive, release | Windows provider |
| Windows client, block device test, sustained test | a socket | one request at a time | Android provider |
| Dokan adapter, `clients/windows/dokan/ramlink_dokan.cpp` | none of its own | read, write, size of RAMLINK.BIN | local API |
| Discovery, build scripts, workflow | none | | |

What makes it hard:

* **Interleaving.** Handlers take `lease_lock` several times per request and give
  it up in between: the scan for a free region and the insertion of the lease
  are separate sections, as are the lookup and the renewal of a KEEPALIVE.
* **Time.** Leases expire by the clock, between any two steps of a handler.
* **Failure.** Connections are lost at any point; the service retries a failed
  request once on a freshly borrowed region; leases outlive connections.
* **Framing.** Nothing but byte counts separates replies on a connection; what a
  header announces and what is sent are separate decisions of the provider.
* **Caching** over memory that may be replaced behind the cache, and remote calls
  that fail half way.

What makes each component correct:

* Providers: live leases never overlap, ids are never shared, no live lease is
  lost, expired space becomes available, a block is zero when it is granted, and
  data is stored only while its lease is alive.
* Framing: every request returns, with its own reply, and leaves the connection in step.
* Memory service: its record of the lease matches the provider's, its accesses
  stay in its region, reads return the bytes of their range of it, the lock is always given up,
  a lost lease is replaced, and nothing is held after release.
* Local API: payloads are passed on whole, a call that returns was served by RemoteMemory,
  a call that is within the limits fails only for a reason, no handler hangs.
* Caches: contents change only by writes, clean pages equal the remote bytes,
  flush makes the remote current, loops end, the bound on pages holds.
* Application API: regions are zero at first, change by calls on themselves only,
  and close only when everything is in the remote memory.

## 2. Modules

| Module | Models | Kind |
|---|---|---|
| `LeaseRegions` | sector rounding and first fit, shared by both providers | operators |
| `FirstFitLoop` | the loop of `find_free_region`, turn by turn | operators, checked against `FirstFit` in every state of `server_borrowers` and proved equal to it |
| `RegionPool` | a pool of disjoint regions with fresh ids | abstract specification |
| `RamServer` | the Android provider | state machine, refines `RegionPool` |
| `RamProvider` | the Windows provider | state machine, refines `RegionPool` |
| `RmlReplies` | what is announced, sent and taken for each operation | operators |
| `RmlConnection` | the threads of a borrower in `request()`, on one socket, against the server's loop | state machine over `RmlReplies` |
| `MemoryService` | RemoteMemory and its threads, with the provider's leases and replies | state machine over `LeaseRegions` and `RmlReplies` |
| `LocalApi` | the local API of the service, one call at a time on each connection, and its callers | state machine |
| `ByteStore` | an array of bytes only writes change | abstract specification |
| `PageCache` | RemoteMemoryCache | state machine, refines `ByteStore` |
| `RegionStore` | regions that only calls on themselves change | abstract specification |
| `MemoryApi` | RAMLinkMemory and MemoryRegion over their page cache | extends `PageCache`, refines `RegionStore` |
| `AndroidCache` | RemoteCache of the Android borrower, its socket and its lease | state machine over `RmlReplies`, refines `ByteStore` |
| `MC*` | values of the constants | model checking |
| `RamProviderProofs`, `RamServerProofs`, `RegionPoolProofs`, `MemoryServiceProofs`, `LocalApiProofs`, `PageCacheProofs` (with `MemoryApi`), `AndroidCacheProofs`, `RmlConnectionProofs` | | proofs |

Definitions whose name ends with a difference (`TickBelowZero`, `MarkedClean`,
...), marked "Mutant of", are not part of the specifications:
each is a plausible error in the definition after it, and the property it is
paired with in `PROJECT.json` fails when it is put in its place.

### Providers (`RamServer`, `RamProvider`)

`pc[c]` and `local[c]` are the program counter and local variables of the thread
that serves connection slot `c`; a slot can be reused, which stands for a new
connection. A step is one locked section, or one wait for the peer. The locks
are never nested nor held across a wait, so they need no variable. `lease[i]` is
the Lease object with id `i`, kept even after it leaves the dictionary, because
a KEEPALIVE may still hold it; `leases` is the set of keys. `expires_in` is the
time left, cut off at 0, and `Tick` passes one unit of time; lookups with
`alive()` compare it with 0. Peers may send any operation in `Issues[c]` with any
argument in range or just out of it. The values of memory are kept, so that the
zeroing of a block can be observed; the value a READ returns is not.

The two providers differ in ways that matter: the Android server places blocks
against live leases only, the Windows provider against every lease in its table.
That is why a late KEEPALIVE from a second connection can revive a lease over
another one in `RamServer` (section 4) and why `RamProvider` is proved safe from it.

Neither provider keeps leases apart in all circumstances: a place is scanned in one
locked section and its lease inserted in another. `NoRace` names the circumstances in
which they do, and `CalmSpec` has the behaviours of `Spec` in which it holds:

* `RamProvider`: no two BORROWs have both scanned and not yet inserted;
* `RamServer`: while a scanned place waits for its lease, no other handler is
  `Unsettled`, that is, has scanned a place too, has inserted a lease that ran out
  before its block was zeroed, or has looked up for KEEPALIVE a lease that ran out since.

Each of the three is needed: without the first TLC finds overlapping leases, without the
second a block zeroed under another lease, and without the third a lease that is revived
over another one. Nothing else is asked of the connections, of which any number may
borrow, renew, release and access what they like.

### Framing (`RmlReplies`, `RmlConnection`)

A header is one unit and a data byte one unit of a stream. `Announced` is the
length in a reply's header, `Body` what is sent after it, `Payload` what a borrower sends
with a request and `Expected` how many bytes of it the provider receives. Of a reply all
borrowers check the magic; `ramlink_client.py` refuses a READ of another length too
(`Refused`), which a thread of the model may do or not. Replies of fixed contents count as one byte, a sector as
`SectorBytes` bytes. The connection is not lost and peers send valid requests,
so that what goes wrong is a matter of framing alone.

`client[t]` says where thread t is in `request()`; its two `sendall` calls are two
steps, so that another thread can come between them, as the keepalive thread of
`client.py` can. `split` and `mixed` record, for the properties only, that a header was
sent between another thread's header and its payload, and that a thread received
beside another one or after another one had raised. A thread that raises stops.

### Memory service (`MemoryService`)

Threads are the keepalive loop, `main`, and the local API's threads. `lock` is
`self.lock`; `pc[t]` follows a request through its first attempt, the reconnect
and the second attempt. `pool` is the provider's table, which may drop any
lease at any time (it expired) and serves other borrowers. `late` holds the units of
earlier replies not yet read from the socket. An exchange on the socket is one step;
its request reaches the provider whole, or the connection counts as lost.
`rml_request` returns as soon as the stream holds a complete reply, whosever it
is, exactly as the code does. The local API refuses transfers above `MAX_TRANSFER`
(245), so a read or write is one exchange: the loops at 152 and 167 turn once. Because a WRITE's reply announces a body that is
not sent, a write on a fresh connection never returns in this model either; it returns
only on what an earlier request left to be read.

`result` compares what a read returns with its range of the region borrowed when it
returns (`OwnBytes`, `Outcome`), not with what it put on the wire: a second try sends the
offset computed from the lost region (133). `abandoned` records, for that property only,
that a second try has failed on the socket in use.

### Local API (`LocalApi`)

`caller[c]` and `handler[c]` are the two ends of one connection. How much of the payload
`conn.recv(4096)` returns with the command line is chosen freely: from nothing to all that
was sent. A payload consists of blanks and other bytes, which is all that `line.split()`
can tell. RemoteMemory is outside: its calls return or raise, and may take longer than the
caller waits. The module has no memory, because the outcome of a call does not tell what
happened to it: a WRITE returns on whatever reply comes (`ramlink_memory_service.py:127-133`),
and the region may have been replaced by a fresh one. That is left to `MemoryService`.

### Caches and the application API (`PageCache`, `MemoryApi`, `AndroidCache`)

An operation holds the lock from start to end (`MemoryApi`: there is one thread), so
only one is under way. A step handles one page. In `PageCache` a remote call may
raise; a write that raises may have taken effect; the region below stays the same
one. `Capacities` lets one run have a cache that evicts and one that never does; `Fits` tells
them apart in the properties. `MemoryApi` adds the bump pointer, the regions
and the calls that take several operations (`fill`, `close`); its cache is a copy of
`ramlink_cache_manager.py`'s without the lock, so it extends `PageCache`.

In `AndroidCache` a step is an exchange on the socket. `owner` says who has a
lease on the borrowed block: it ends at any time, because nothing renews it, and then
another borrower may get the block, cleared. `late` holds units of earlier replies,
as in `MemoryService`; `timely` records that there never were any. A unit of a body
carries the byte it stands for, so that a reply taken for another one shows in the pages.

## 3. Runs

Passing runs:

| Run | Instance | Shows |
|---|---|---|
| `server_all` | two connections sending every operation, without a race | type correctness; live leases never overlap; no live lease is lost but by RELEASE; zeroing a block spares other leases; the server implements `RegionPool` |
| `server_borrowers` | two borrowers whose handlers interleave, races included, retrying after lost connections | leases are whole sectors inside the buffer; two handlers never hand out one id; the scan is first fit and misses no gap, over overlapping leases too; orphaned leases do not block borrowers for ever |
| `provider_all` | two connections sending every operation, without a race | type correctness; the table never overlaps, though a late KEEPALIVE may revive an expired lease; a removed lease stays removed; refinement of `RegionPool`; a borrower that retries is granted leases unless KEEPALIVEs go on for ever |
| `rml_all` | every operation from one thread, KEEPALIVE from a second one on the same socket | the server takes payload for a header only if one thread sent into the other's request; while they do not receive at the same time, requests other than writes and block transfers return, and a request that returns has its own reply, even after a BLOCK_READ left bytes unread |
| `memory_all` | regions over two or three cached pages for three pages of remote memory | bounds, clean pages equal the remote (so that a flush that returns makes the remote current), only the eviction of a dirty page loses data, the loops end; without eviction, refinement of `ByteStore` and `RegionStore`, failing remote calls included, and fills that are complete; `close` closes regions only after a flush that returned |
| `local_all` | two calls at a time, payloads with and without blanks, lengths up to one above the limit | RemoteMemory is given whole payloads only, whatever came with the command line and whoever gave up; a call that returns was served; a legal call raises only for a reason; handlers end |
| `android_all` | one cached page for two, a lease that ends, late replies | bounds; while the lease lasts and replies are in time, cached pages equal the remote ones and the cache refines `ByteStore` |
| `service_all` | a local client that keeps asking, keepalive, release, another borrower, a network that fails | the record of the lease is the provider's; an access is outside the region only on a retry after the region moved; a READ returns other bytes than those of its range only then, or on a socket where a second try had failed: neither a KEEPALIVE that failed nor what was left before a reconnect gets in its way; the lock is given up; a lost lease is replaced, unless the other borrower never stops borrowing |

`server_all` and `provider_all` run `Spec` (`RetrySpec`) with the steps of `CalmSpec`
as an action constraint, which gives the same behaviours as `CalmSpec`, of which the
theorems speak.

Runs that show a disagreement between the code and what the repository says
(`findings` in `PROJECT.json` quotes it):

| Run | Behaviour |
|---|---|
| `server_race` | two BORROWs scan before either inserts: overlapping leases |
| `rml_write` | the borrower waits for the body a WRITE reply announces |
| `local_write` | payload received with its command line is dropped, and a legal WRITE fails |
| `cache_lost` | a dirty page evicted without being written |

### Bounds

* Providers: two connections are enough for every race in the code (each
  involves two handlers). Two leases (`MaxLeases`) in a buffer of two sectors let
  a block be granted, lost and granted again and let two leases coexist;
  `server_borrowers` has three leases of one sector in a buffer of three, so that the scan
  meets gaps between leases and leases that overlap (its borrowers send BORROW and
  RELEASE only, which is all that moves leases about). A lease lasts two ticks, so that it can be
  fresh, about to expire, and expired.
* Sectors of two bytes: sizes that round up, fit exactly and do
  not fit; offsets one past the end.
* Framing: lengths 0 to 3; two bytes per sector is the smallest
  size that differs from one; two threads, as in `client.py`.
* Page cache and application API: five bytes in pages of two (a short last page); two or
  three cached pages; a write of two bytes at any offset stays in a page or crosses a
  boundary; regions of two, three or five bytes share pages or take everything; fill
  in chunks of two ends with a chunk of one in a region of three or five, and crosses pages
  in a region that begins inside one. An empty write at the boundary of two regions is among
  the writes.
* Local API: two connections (calls may overlap and a handler may outlive its call),
  a region of two bytes, a limit of two, commands inside and past both.
* Android cache: two pages of two bytes, one cached: every miss but the first evicts;
  `MaxLate` = 3, one whole reply to a READ of a page.
* Service: a local client and the keepalive thread, which compete for the lock and the
  socket (a second client adds no other kind of step, and the safety properties are proved
  for any number), a region of half the buffer, another borrower whose blocks of a quarter
  make the region move by one, and three lease ids (ids are reused when nobody knows them
  any more). What is left unread on the socket needs no bound: it never exceeds one reply.

`CHECK_DEADLOCK FALSE` appears only where the program may stop: the service
process exits, a borrower's script ends when a request raises, and a closed
`AndroidCache` does nothing more. The other components never stop.

### Fairness

* Providers: handlers that wait for no peer are scheduled (`WF` on `Handler(c)`)
  and the clock advances. Nothing obliges a peer. `server_borrowers` and `provider_all` add
  peers that reconnect, borrowers that retry (`SF` on a BORROW that can be sent again and
  again; in `provider_all` one connection that does so is enough) and, in the latter, peers
  that send the payloads they announce; these are assumptions on the callers, not on the
  provider. `provider_all`'s safety properties do not need them.
* Framing: both loops run and the network delivers.
* Caches and application API: a thread inside an operation runs on, since remote
  calls time out (30 s in `ramlink_cache_manager.py` and `ramlink_memory_api.py`).
  `AndroidCache` has no liveness property and no fairness.
* Local API: callers time out and close; RemoteMemory answers or raises, because
  its own sockets have time-outs.
* Service: every exchange ends, since sockets have a 20 s timeout. `service_all`
  adds a client that keeps asking, leases that expire when nobody renews
  them, and a reconnect that succeeds if it can succeed again and again.

## 4. What the models contain and no run states

While the code was read and the models explored, other behaviours turned up that
differ from what one would expect. The models of the first four contain them;
no passing run can state their absence.

* `server.py:222-223`: KEEPALIVE renews the object found in an earlier locked
  section. If the lease expired in between and its block was granted again, two
  live leases overlap. This needs a second connection; `NoRace` excludes it.
* `server.py:149`: READ and WRITE are not tied to leases, so a block may be
  written by another connection between its zeroing and the reply.
* `ramlink_memory_provider.py:67,69`: the same window between scan and insertion
  as in the Android provider; `NoRace` excludes it.
* `ramlink_memory_provider.py:113`: a payload is stored however long ago the
  lease it was checked against expired.
* `ramlink_memory_service.py:133`: the retry after a reconnect sends the offset computed
  from the base of the lost region, which may lie in another borrower's one
  (`OutsideOnlyWhenRegionMoved` says that this is the only way out of the region,
  although `protocol/ramlink_protocol.md:11` knows of none). A READ that is retried so
  returns other bytes than it asked for, without an error.
* `ramlink_memory_service.py:133`: after a second try that timed out the socket
  stays in use, and its late reply is taken for the answer to the next READ of
  the same length (`OtherBytesForAReason` names these two ways to other bytes, and says
  that there is no third); a WRITE, whose own reply never completes, returns OK on such a
  reply only. A request after `release()` borrows a region again.
* `server.py:270`: BLOCK_READ announces sectors and sends bytes.
* `ramlink_memory_service.py:257`: the caller waits 30 s, the service may retry for
  longer: a payload may be stored after its caller was told that it failed, and
  over a later WRITE that was acknowledged.
* `remote_cache.py:70`: the Windows provider's reply to WRITE announces a body it does not send
  (`ramlink_memory_provider.py:115`), so every `write()` of RemoteCache raises once its
  first page has been stored; the cached page is right nevertheless (`WrittenThrough`).
  `client.py:50` meets the same reply.
* `remote_cache.py:50`: without KEEPALIVE the lease ends after 120 s; then reads
  fail, or return another borrower's bytes, and writes go to its block.
* `client.py:42`: a KEEPALIVE sent while the main thread is in a request may take
  its reply, or fall into its payload (`split`, `mixed`).
* `ramlink_memory_service.py:112-113`: pages cached before a reconnect of the service
  are served afterwards; neither cache is told.

## 5. Proofs

TLAPS checks every safety property of the passing runs, invariants, action properties and
refinements, for every value of the constants that satisfies the modules' `ASSUME`s: any
buffer, sector, page and region size, number of connections, clients, threads and leases,
data and mix of operations. `PROJECT.json` lists the theorems.

Where the code does not keep leases apart (section 4), the theorems say under which
condition it does: disjointness, the zeroing and the refinement of `RegionPool` are
theorems of `CalmSpec`, that is, as long as `NoRace` holds. What holds in races too is
proved of `Spec`: types, the form and the ids of the leases, the loss of leases, the scan.
One deployment is proved to be free of races, so that the same follows for every behaviour
of it: `OneBorrowerPool`, where one connection sends BORROW (`OneBorrower`) to the Windows
provider. The Android borrowers are such: `client.py:35` and `remote_cache.py:50` send one
BORROW on their only connection and never reconnect. Nothing of the kind holds of an Android
server under one memory service: after a time-out the service reconnects while the handler
of its old connection may still be in BORROW or KEEPALIVE.

| Module | Proved | Inductive invariant, and why it is needed |
|---|---|---|
| `RegionPoolProofs` | `RegionPool`'s regions never meet, its ids are distinct | `PInv` |
| `RamProviderProofs` | types; a removed lease never returns; without a race the table is disjoint and implements `RegionPool`, with any number of borrowers | `IInv`: a handler between scan and insertion holds a candidate that must meet no lease; it is the only one there, and the table only shrinks meanwhile; a KEEPALIVE extends a lease that was granted |
| `RamServerProofs` | first fit is the lowest free place, or none when there is none; the loop of `find_free_region` returns it, and so in every state of the server; types; leases are whole sectors inside the buffer, ids are handed out once, a live lease leaves only by RELEASE; without a race live leases are disjoint, zeroing spares them, and `RegionPool` is implemented | `GrantInv`: candidates are whole sectors, and a handler that has entered its lease has its own id below `next_lease_id`. `PoolInv`: disjointness of the leases *held*, that is alive or found alive by a KEEPALIVE that has not extended them yet, and of these from the candidate |
| `MemoryServiceProofs` | types, the lease record, accesses inside the region unless it moved, reads of other bytes only then or after a second try that failed on the socket; the lock is given up after at most three exchanges, in which nobody else touches the socket | `Socket`: what is unread never holds more than its first header announces (`Partial`), so that an exchange cannot read into a third reply; `Control`: only the holder of the lock is between two steps, the request on the wire is its own, and the second try begins on a fresh socket; nothing is left unread on a socket unless it was `abandoned`, and what a first try sends is what its client asked |
| `LocalApiProofs` | all three safety properties | `Inv` accounts for each unit of the payload: still to be received, or swallowed with the command line; a handler gets past `recv_all` only if none was swallowed |
| `PageCacheProofs` | types, bounds, clean pages equal the remote, data is lost only with a dirty victim, a cache that never evicts implements `ByteStore`, every step of an operation leaves less to do; of `MemoryApi`: `close` follows a flush, `fill` is complete, the regions implement `RegionStore` | `Inv`: the order lists the cached pages once, what an operation has done so far stays within its request; `SoFar`: a read under way has collected what the contents hold (they do not change under it); `ApiOK`, `RegionInv`: regions lie apart and below `next_offset`, what lies above is zero, a write under way stays in its region, and a fill has set everything up to its position |
| `AndroidCacheProofs` | bounds; while lease and replies are in time, cached pages equal the remote and `ByteStore` is implemented | `Shape`, and `Honest`: nothing unread on the socket, cached pages equal the remote, a read has collected what is there, and no write gets past its first page, because its reply announces a body that is not sent |
| `RmlConnectionProofs` | the server stays in step; plain requests return their own replies, never wait for a server that waits for them, and raise only over a byte that was left unread | `InStep`: behind every header in the stream comes its own payload, every byte is part of a message or of the payload the server waits for, and only the last message may be short, by the payload that one thread owes. `Matched`: with nobody in another's way, at most one request is unanswered, that of the one thread that receives; what is on its way to it is what a BLOCK_READ left, all of it bytes, and then the reply, or the rest of the body |

The refinement proofs go step by step: every step is one of the abstract specification's
or leaves its variables alone. For the providers, everything but the insertion of
a lease shrinks or keeps the table (`Revoke`), and the insertion is a `Grant`.
For the caches, the operation takes effect at its last page or its last remote call.
`MemoryApi` extends `PageCache`, so that `Inv` and the step lemmas are proved once, for
`CacheNext`, the steps of the cache under either specification.

The loop of `find_free_region` needs an induction over the sorted leases, and the prover
has none over data. The proof takes the least number of turns at which a claim about the
cursor fails, which exists because a set of naturals that is not empty has a least element,
and shows that the turn before it would fail as well (`SetInduction`, `LeastElement`). The
claim (`LoopInv`): either a gap has been found, and it is the first fit, or the cursor
stands behind all the leases visited and nothing fits below it.

TLC checked every inductive invariant on the runs' instances before it was proved.
Attempts that told something about the models:

* `RamServer`: the proof of disjointness needs three conditions on the other handlers, and
  not that they borrow over one connection: that is how `Unsettled` was found, and dropping
  any of its parts gives a counterexample.
* `RamProvider`: scanning against the whole table makes a late KEEPALIVE harmless, so that
  only scans that wait at once are a race.
* `MemoryApi`: an empty write at the place where two regions meet belongs to the open one; the
  refinement mapping (`Target`) could name the closed one, and its run had no empty write.
* `MemoryService` needed no bound on what is left unread on a socket: `Partial` shows that
  it never exceeds one reply.

Only model-checked are the liveness properties, since fairness and ENABLED are outside the
reach of the prover. For three of them the steps they rest on are proved, and TLC's part
is that fair steps add up:

| Property | Proved | Left to TLC |
|---|---|---|
| `LockReleased` | `ServiceLockAdvances`: no more than three exchanges under the lock, undone by nobody | the exchanges end |
| `OperationsEnd` | `CacheAdvances`: every step of an operation leaves fewer bytes or dirty pages | the steps are taken |
| `PlainRequestsReturn` | `ConnectionPlainNeverStarves`, `ConnectionRaisesOnlyOverLeftovers`: no mutual waiting, no time-out | server and network run on |
| `BorrowEventuallyGranted`, `BorrowersGetRoom`, `LeaseRecovered`, `HandlersEnd` | | all of it |

## 6. Not modelled, and the plan

Left out for good:

* discovery of the phone (a parallel port scan without state), user menus, the
  measuring script, counters and status texts, build scripts;
* the Dokan callbacks: `rl_read` and `rl_write` are loops of calls to the local API
  without a state of their own (a failure after the first chunk is reported as
  no bytes at all); the calls themselves are callers of `LocalApi`;
* two application threads on one `RAMLinkMemory`: nothing in the repository does it, and
  `_Cache` promises nothing to them;
* a region replaced under a cache: no property of the caches survives it (section 4).

The models of the plan are written, and so are the proofs of their safety properties,
with races and without. What could be added are the transfers of `block_device_test.py`,
which split into several requests.
