----------------------------- MODULE MemoryApi -----------------------------
(***************************************************************************)
(* RAMLinkMemory and MemoryRegion of clients/windows/ramlink_memory_api.py,*)
(* used by one thread, as its main() does.  Regions are carved out of the  *)
(* remote memory by a pointer that only moves up; all of them go through   *)
(* one _Cache, which is RemoteMemoryCache without its lock: PageCache.     *)
(***************************************************************************)
EXTENDS PageCache

CONSTANTS
    Sizes,          \* the sizes applications allocate
    MAX_TRANSFER,   \* the chunk of fill
    FillValues      \* the values they fill regions with

ASSUME ApiAssumption ==
    /\ Sizes \subseteq Nat \ {0}
    /\ MAX_TRANSFER \in Nat \ {0}
    /\ FillValues \subseteq Values

VARIABLES
    next_offset,
    regions,        \* self.regions
    call            \* the fill or close() under way

apiVars == <<next_offset, regions, call>>

NoCall == [op |-> "none", region |-> 0, value |-> 0, pos |-> 0]

InitApi ==
    /\ Init
    /\ next_offset = 0
    /\ regions = <<>>
    /\ call = NoCall

\* The application is about to make a call.
Ready == request = Idle /\ call = NoCall

-----------------------------------------------------------------------------
\* Mutant of NextOffset: regions start on the page after the last full one.
NextOffsetPage(size) == next_offset + (size \div PAGE_SIZE) * PAGE_SIZE

NextOffset(size) == next_offset + size

Allocate ==
    /\ Ready
    /\ \E size \in Sizes :
         /\ next_offset + size <= RemoteSize
         /\ regions' = Append(regions, [offset |-> next_offset, size |-> size, closed |-> FALSE])
         /\ next_offset' = NextOffset(size)
    /\ UNCHANGED <<vars, call>>

\* MemoryRegion._check, in offsets of the remote memory.
WithinRegion(r, q) == r.offset <= q.offset /\ q.offset + q.length <= r.offset + r.size

\* A read or write of an open region, which passes both checks.
Access ==
    /\ Ready
    /\ StartRead \/ StartWrite
    /\ \E i \in DOMAIN regions : ~regions[i].closed /\ WithinRegion(regions[i], request')
    /\ UNCHANGED apiVars

Flush == Ready /\ StartFlush /\ UNCHANGED apiVars

-----------------------------------------------------------------------------
\* n = min(left, MAX_TRANSFER)
ChunkLength(left) == IF left <= MAX_TRANSFER THEN left ELSE MAX_TRANSFER

\* The next write of fill(value) on region i, pos bytes into it.
WriteChunk(i, value, pos) ==
    LET n == ChunkLength(regions[i].size - pos)
    IN  /\ Start("write", regions[i].offset + pos, n, [k \in 1 .. n |-> value])
        /\ call' = [op |-> "fill", region |-> i, value |-> value, pos |-> pos + n]
        /\ UNCHANGED <<next_offset, regions>>

StartFill ==
    /\ Ready
    /\ \E i \in DOMAIN regions, value \in FillValues :
         ~regions[i].closed /\ WriteChunk(i, value, 0)

\* The write of the last chunk is over.
ChunkOver == call.op = "fill" /\ request = Idle

\* Mutant of Filled: a last chunk shorter than MAX_TRANSFER is forgotten.
FilledWholeChunks == call.pos + MAX_TRANSFER > regions[call.region].size

Filled == call.pos = regions[call.region].size

NextChunk == ChunkOver /\ answer.ok /\ ~Filled /\ WriteChunk(call.region, call.value, call.pos)

FillEnds ==
    /\ ChunkOver /\ (Filled \/ ~answer.ok)
    /\ call' = NoCall
    /\ UNCHANGED <<vars, next_offset, regions>>

-----------------------------------------------------------------------------
Closed(r) == [r EXCEPT !.closed = TRUE]

\* MemoryRegion.close()
CloseRegion ==
    /\ Ready
    /\ \E i \in DOMAIN regions : regions' = [regions EXCEPT ![i] = Closed(@)]
    /\ UNCHANGED <<vars, next_offset, call>>

\* RAMLinkMemory.close() flushes first ...
StartClose ==
    /\ Ready
    /\ StartFlush
    /\ call' = [NoCall EXCEPT !.op = "close"]
    /\ UNCHANGED <<next_offset, regions>>

\* Mutant of AfterFlush: the regions are closed whatever the flush did.
AfterFlushAlways == [i \in DOMAIN regions |-> Closed(regions[i])]

\* ... and closes the regions only if flush returned.
AfterFlush == IF answer.ok THEN [i \in DOMAIN regions |-> Closed(regions[i])] ELSE regions

EndClose ==
    /\ call.op = "close" /\ request = Idle
    /\ regions' = AfterFlush
    /\ call' = NoCall
    /\ UNCHANGED <<vars, next_offset>>

CacheStep == Step /\ UNCHANGED apiVars

CallStep == CacheStep \/ NextChunk \/ FillEnds \/ EndClose

NextApi == Allocate \/ Access \/ Flush \/ StartFill \/ CloseRegion \/ StartClose \/ CallStep

\* The thread inside a call runs on; the local API answers or times out.
ApiSpec == InitApi /\ [][NextApi]_<<vars, apiVars>> /\ WF_<<vars, apiVars>>(CallStep)

-----------------------------------------------------------------------------
BytesOf(r) == [k \in 1 .. r.size |-> contents[r.offset + k - 1]]

\* The region that the write or fill under way is about; an empty write at the edge
\* of two regions lies within both, and was made on an open one.
Target ==
    IF call.op = "fill" THEN call.region
    ELSE IF request.kind = "write"
         THEN CHOOSE i \in DOMAIN regions :
                ~regions[i].closed /\ WithinRegion(regions[i], request)
         ELSE 0

Regions == INSTANCE RegionStore WITH
    store  <- [i \in DOMAIN regions |->
                 [data |-> BytesOf(regions[i]), closed |-> regions[i].closed]],
    target <- Target

(***************************************************************************)
(* With a cache that never evicts, the regions are what RegionStore says,  *)
(* although they share pages, and are neither aligned to them nor erased:  *)
(* a fresh region is zero, a call changes its own region alone, and a      *)
(* closed region keeps its bytes, because allocate never hands out a byte  *)
(* twice (ramlink_memory_api.py:134-146, 187-196).                         *)
(***************************************************************************)
ImplementsRegions ==
    Regions!Init /\ [][Fits => Regions!Next]_(Regions!regionVars)

(***************************************************************************)
(* close() closes the regions only when the remote memory holds all that   *)
(* the cache does; when its flush raises, they stay open, so that the      *)
(* application can read, or close again (ramlink_memory_api.py:219-222).   *)
(***************************************************************************)
CloseAfterFlush ==
    [][call.op = "close" /\ regions' # regions => remote = contents /\ dirty = {}]_regions

(***************************************************************************)
(* A fill that returns has set every byte of its region, in chunks that    *)
(* end and begin anywhere in a page, if no page had to be evicted          *)
(* (ramlink_memory_api.py:148-158).                                        *)
(***************************************************************************)
FillFills ==
    [][call.op = "fill" /\ call'.op = "none" /\ answer.ok /\ Fits
         => \A k \in DOMAIN BytesOf(regions[call.region]) :
              BytesOf(regions[call.region])[k] = call.value]_call

=============================================================================
