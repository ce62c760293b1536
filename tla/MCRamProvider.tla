---------------------------- MODULE MCRamProvider ----------------------------
(* Small instances of RamProvider: which operations each connection sends. *)
EXTENDS RamProvider

CONSTANTS c1, c2

\* Every connection sends every operation.
Everything == [c \in Conns |-> Ops]

\* The steps of CalmSpec, as a constraint on those of Spec.
Calm == NoRace'

=============================================================================
