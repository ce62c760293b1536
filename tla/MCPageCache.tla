---------------------------- MODULE MCPageCache ----------------------------
(***************************************************************************)
(* Values for model checking PageCache: five bytes in pages of two, so     *)
(* that the last page is short, and writes that cross page boundaries.     *)
(***************************************************************************)
EXTENDS PageCache

SmallWrites == {<<1>>, <<0, 1>>, <<1, 0, 1>>}

=============================================================================
