-------------------------- MODULE MCMemoryService --------------------------
(***************************************************************************)
(* Values for model checking MemoryService.                                *)
(***************************************************************************)
EXTENDS MemoryService

CONSTANT c1

\* The whole region, its second byte, and a range one byte past its end.
TestRanges == {<<0, 2>>, <<1, 1>>, <<1, 2>>}

=============================================================================
