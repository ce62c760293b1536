---------------------------- MODULE MCMemoryApi ----------------------------
(***************************************************************************)
(* Values for model checking MemoryApi: five bytes in pages of two, so     *)
(* that the last page is short, regions that share pages or take all, and  *)
(* writes that cross page boundaries, or are empty.                        *)
(***************************************************************************)
EXTENDS MemoryApi

SmallWrites == {<<1, 1>>, <<>>}

=============================================================================
