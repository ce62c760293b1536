---------------------------- MODULE RegionStore ----------------------------
(***************************************************************************)
(* What an application expects of RAMLinkMemory: regions that are zero     *)
(* when they are allocated, that change only by calls on themselves, and   *)
(* never again once they are closed.                                       *)
(***************************************************************************)
EXTENDS Integers, Sequences

CONSTANT Values     \* the values a byte can have, 0 among them

VARIABLES store,    \* store[i]: the bytes of region i, and whether it is closed
          target    \* the region the call under way writes to, or 0

regionVars == <<store, target>>

Init ==
    /\ store = <<>>
    /\ target = 0

Allocate ==
    /\ target = 0
    /\ Len(store') = Len(store) + 1
    /\ \A i \in DOMAIN store : store'[i] = store[i]
    /\ LET new == store'[Len(store) + 1]
       IN  ~new.closed /\ \A k \in DOMAIN new.data : new.data[k] = 0
    /\ UNCHANGED target

Begin ==
    /\ target = 0 /\ target' \in DOMAIN store
    /\ ~store[target'].closed
    /\ UNCHANGED store

Change ==
    /\ target # 0
    /\ LET new == store'[target].data
       IN  /\ DOMAIN new = DOMAIN store[target].data
           /\ \A k \in DOMAIN new : new[k] \in Values
           /\ store' = [store EXCEPT ![target].data = new]
    /\ UNCHANGED target

End ==
    /\ target # 0 /\ target' = 0
    /\ UNCHANGED store

Close ==
    /\ target = 0
    /\ DOMAIN store' = DOMAIN store
    /\ \A i \in DOMAIN store :
         store'[i] \in {store[i], [store[i] EXCEPT !.closed = TRUE]}
    /\ UNCHANGED target

Next == Allocate \/ Begin \/ Change \/ End \/ Close

=============================================================================
