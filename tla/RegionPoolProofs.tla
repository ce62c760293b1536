-------------------------- MODULE RegionPoolProofs --------------------------
(***************************************************************************)
(* The promise of the abstract pool, for every buffer size: its regions    *)
(* never meet.  Whatever implements RegionPool inherits it.                *)
(***************************************************************************)
EXTENDS RegionPool, TLAPS

\* The pool holds regions with natural offsets and lengths.
PoolTyped == pool \subseteq Holding /\ granted \in Nat

PInv == PoolTyped /\ PoolDisjoint

LEMMA PoolInit == Init => PInv
  BY DEF Init, PInv, PoolTyped, PoolDisjoint

\* Granting adds one region that meets none of the others.
LEMMA PoolGrant == PInv /\ Grant => PInv'
<1> SUFFICES ASSUME PInv, Grant PROVE PInv'
  OBVIOUS
<1> SIZE \in Nat
  BY SizeAssumption
<1>1. PICK offset \in 0 .. SIZE, length \in 1 .. SIZE :
        /\ FreeAt(offset, length, pool)
        /\ granted' = granted + 1
        /\ pool' = pool \cup {[lease_id |-> granted + 1,
                               offset |-> offset, length |-> length]}
  BY DEF Grant
<1>2. PICK new : new = [lease_id |-> granted + 1, offset |-> offset, length |-> length]
  OBVIOUS
<1>3. /\ new \in Holding /\ new.lease_id = granted + 1 /\ End(new) <= SIZE
      /\ pool' = pool \cup {new}
  BY <1>1, <1>2 DEF FreeAt, End, Holding, PInv, PoolTyped
<1>4. \A r \in pool : Disjoint(r, new) /\ Disjoint(new, r)
  BY <1>1, <1>2 DEF FreeAt, Disjoint, End
<1>5. \A r \in pool : r.lease_id <= granted /\ r.lease_id \in Nat /\ End(r) <= SIZE
  BY DEF PInv, PoolTyped, PoolDisjoint, Holding
<1>6. PoolTyped'
  BY <1>1, <1>3 DEF PInv, PoolTyped
<1>7. \A r \in pool' : End(r) <= SIZE /\ r.lease_id <= granted'
  BY <1>1, <1>3, <1>5 DEF PInv, PoolTyped
<1>8. \A r \in pool : r.lease_id # new.lease_id
  BY <1>3, <1>5 DEF PInv, PoolTyped
<1>9. \A r, s \in pool' : r # s => Disjoint(r, s) /\ r.lease_id # s.lease_id
  BY <1>3, <1>4, <1>8 DEF PInv, PoolDisjoint
<1> QED
  BY <1>6, <1>7, <1>9 DEF PInv, PoolDisjoint

LEMMA PoolRevoke == PInv /\ Revoke => PInv'
  BY DEF PInv, PoolTyped, PoolDisjoint, Revoke

(***************************************************************************)
(* The regions in force lie in the buffer, never meet, and carry distinct  *)
(* lease ids: "grants non-overlapping leased regions"                      *)
(* (protocol/ramlink_protocol.md:10), for any buffer and any number of     *)
(* leases.                                                                 *)
(***************************************************************************)
THEOREM PoolKeepsPromise == Spec => []PoolDisjoint
<1>1. PInv /\ [Next]_poolVars => PInv'
  <2> SUFFICES ASSUME PInv, [Next]_poolVars PROVE PInv'
    OBVIOUS
  <2>1. CASE Grant
    BY <2>1, PoolGrant
  <2>2. CASE Revoke
    BY <2>2, PoolRevoke
  <2>3. CASE UNCHANGED poolVars
    BY <2>3 DEF poolVars, PInv, PoolTyped, PoolDisjoint
  <2> QED
    BY <2>1, <2>2, <2>3 DEF Next
<1>2. PInv => PoolDisjoint
  BY DEF PInv
<1> QED
  BY PoolInit, <1>1, <1>2, PTL DEF Spec

=============================================================================
