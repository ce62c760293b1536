----------------------------- MODULE RegionPool -----------------------------
(***************************************************************************)
(* What protocol/ramlink_protocol.md promises of a provider: it owns one   *)
(* buffer and grants non-overlapping regions of it, each under a new lease *)
(* id; a region that has been given up never comes back under its old id.  *)
(* The state is the set of regions in force and the number of leases       *)
(* granted so far.                                                         *)
(***************************************************************************)
EXTENDS LeaseRegions

VARIABLES pool,     \* the regions in force, each with the id of its lease
          granted   \* how many leases have been granted: ids are 1..granted

poolVars == <<pool, granted>>

Holding == [lease_id : Nat \ {0}, offset : Nat, length : Nat]

Init == pool = {} /\ granted = 0

Grant ==
    \E offset \in 0 .. SIZE, length \in 1 .. SIZE :
      /\ FreeAt(offset, length, pool)
      /\ granted' = granted + 1
      /\ pool' = pool \cup {[lease_id |-> granted + 1,
                             offset |-> offset, length |-> length]}

\* Any number of leases end together: when time passes, several expire at once.
Revoke ==
    /\ pool' \in SUBSET pool
    /\ UNCHANGED granted

Next == Grant \/ Revoke

Spec == Init /\ [][Next]_poolVars

(***************************************************************************)
(* The regions in force lie in the buffer, never meet, and no two of them  *)
(* carry the same lease id: what a borrower relies on when it writes to    *)
(* its block (protocol/ramlink_protocol.md:10).                            *)
(***************************************************************************)
PoolDisjoint ==
    /\ \A r \in pool : End(r) <= SIZE /\ r.lease_id <= granted
    /\ \A r, s \in pool : r # s => Disjoint(r, s) /\ r.lease_id # s.lease_id

=============================================================================
