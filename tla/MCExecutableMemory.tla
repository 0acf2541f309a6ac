------------------------- MODULE MCExecutableMemory -------------------------
(***************************************************************************)
(* Pages of 32 bytes, blocks of 12: code that ends before, at and after an *)
(* alignment boundary, fills a page exactly, and needs two pages.          *)
(***************************************************************************)
EXTENDS ExecutableMemory

MCLengths == {1, 12, 15, 16, 17, 32, 33}
MCGarbage == {0, 24}
=============================================================================
