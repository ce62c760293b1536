----------------------------- MODULE MCRamServer -----------------------------
(***************************************************************************)
(* Small instances of RamServer: which operations each connection sends.   *)
(***************************************************************************)
EXTENDS RamServer

CONSTANTS c1, c2

\* Every connection sends every operation.
Everything == [c \in Conns |-> Ops]

\* Borrowers that never renew: their leases expire or are released.
NoRenewal == [c \in Conns |-> {"BORROW", "RELEASE"}]

\* The steps of CalmSpec, as a constraint on those of Spec.
Calm == NoRace'

=============================================================================
