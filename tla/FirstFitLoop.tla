---------------------------- MODULE FirstFitLoop ----------------------------
(***************************************************************************)
(* find_free_region (server.py) and free_region (ramlink_memory_provider)  *)
(* as the loop they are: the leases sorted by offset, a cursor that moves  *)
(* past each of them, and an early return at the first gap that is large   *)
(* enough.                                                                 *)
(***************************************************************************)
EXTENDS LeaseRegions, Sequences, FiniteSets

\* The loop's None.
None == -1

\* What sorted(S, key=...) can return: each element once, the keys ascending.
SortedBy(S, key) ==
    {s \in [1 .. Cardinality(S) -> S] :
       /\ \A x \in S : \E j \in DOMAIN s : s[j] = x
       /\ \A j, k \in DOMAIN s : j < k => key[s[j]] <= key[s[k]]}

\* Mutant of Visit: the cursor without max().
VisitNoMax(length, acc, region) ==
    CASE acc.found # None -> acc
      [] acc.found = None /\ acc.cursor + length <= region.offset ->
           [acc EXCEPT !.found = acc.cursor]
      [] OTHER -> [acc EXCEPT !.cursor = End(region)]

\* One turn of `for lease in leases`; `found` holds the value of an early return.
Visit(length, acc, region) ==
    CASE acc.found # None -> acc
      [] acc.found = None /\ acc.cursor + length <= region.offset ->
           [acc EXCEPT !.found = acc.cursor]
      [] OTHER ->
           [acc EXCEPT !.cursor = IF End(region) > @ THEN End(region) ELSE @]

\* Turns(length, regions)[n]: cursor and result after the first n turns.
Turns(length, regions) ==
    LET acc[n \in 0 .. Len(regions)] ==
          IF n = 0 THEN [cursor |-> 0, found |-> None]
          ELSE Visit(length, acc[n - 1], regions[n])
    IN  acc

FindFreeRegion(length, regions) ==
    LET acc == Turns(length, regions)[Len(regions)]
    IN  CASE acc.found # None -> acc.found
          [] acc.found = None /\ acc.cursor + length <= SIZE -> acc.cursor
          [] OTHER -> None

=============================================================================
