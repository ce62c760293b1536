---------------------------- MODULE LeaseRegions ----------------------------
(***************************************************************************)
(* The arithmetic of leased regions, shared by the two RML1 providers      *)
(* (android/termux/server.py and clients/windows/ramlink_memory_provider.py*)
(* carry their own copies of the same code).                               *)
(*                                                                         *)
(* A provider owns one buffer of SIZE bytes.  A region is a record with an *)
(* offset and a length; find_free_region / free_region choose the offset   *)
(* of a new region by first fit over the leases in force.                  *)
(***************************************************************************)
EXTENDS Integers

CONSTANTS SIZE,         \* len(self.memory), in bytes
          SECTOR_SIZE   \* 512 in the code

ASSUME SizeAssumption ==
    /\ SECTOR_SIZE \in Nat \ {0}
    /\ SIZE \in Nat \ {0}
    /\ SIZE % SECTOR_SIZE = 0

Region == [offset : Nat, length : Nat]

End(r) == r.offset + r.length

\* Mutant of RoundUp: the length stays as requested.
RoundNone(requested) == requested

\* borrow() rounds the requested byte count up to whole sectors.
RoundUp(requested) ==
    ((requested + SECTOR_SIZE - 1) \div SECTOR_SIZE) * SECTOR_SIZE

Disjoint(r, s) == End(r) <= s.offset \/ End(s) <= r.offset

\* [p, p+length) lies in the buffer and meets no region of S.
FreeAt(p, length, S) ==
    /\ p + length <= SIZE
    /\ \A r \in S : End(r) <= p \/ p + length <= r.offset

\* The values `cursor` can take: the start of the buffer and the ends of leases.
Cursors(S) == {0} \cup {End(r) : r \in S}

(***************************************************************************)
(* What the loop of find_free_region returns: the lowest cursor at which   *)
(* the new region fits.  FirstFitLoop checks this declarative form against *)
(* the loop itself.                                                        *)
(***************************************************************************)
FirstFit(p, length, S) ==
    /\ p \in Cursors(S)
    /\ FreeAt(p, length, S)
    /\ \A q \in Cursors(S) : FreeAt(q, length, S) => p <= q

\* The loop's `return None`.
NoFit(length, S) == \A q \in Cursors(S) : ~FreeAt(q, length, S)

=============================================================================
