--------------------------- MODULE MCAndroidCache ---------------------------
(***************************************************************************)
(* Values for model checking AndroidCache: writes that stay in a page and  *)
(* that cross into the next one.                                           *)
(***************************************************************************)
EXTENDS AndroidCache

SmallWrites == {<<1>>, <<0, 1>>}

=============================================================================
