------------------------- MODULE MCStaticAllocator -------------------------
(* Small instances of StaticAllocator for TLC. *)
EXTENDS StaticAllocator

Short   == {1, 2, 3}
=============================================================================
