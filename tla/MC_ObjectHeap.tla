--------------------------- MODULE MC_ObjectHeap ---------------------------
(***************************************************************************)
(* The object heap for TLC: sizes on both sides of the last slot, of a big *)
(* object (255 slots) and of a page.                                       *)
(***************************************************************************)
EXTENDS ObjectHeap

AllFormats  == {1, 3, OF_INDEXABLE_64, OF_INDEXABLE_32, OF_INDEXABLE_16,
                OF_INDEXABLE_8, OF_MIXED_OBJECT}
WideFormats == {OF_INDEXABLE_32, OF_INDEXABLE_16}
=============================================================================
