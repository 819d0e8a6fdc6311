----------------------------- MODULE MCCacheSync -----------------------------
(***************************************************************************)
(* CacheSync on three packages, foo-1-x-1, foo-2-x-1 and tin-1-x-1, and on *)
(* two of different names.                                                 *)
(***************************************************************************)
EXTENDS CacheSync

MCPackages == 1..3
MCTwo == 1..2
MCDistinct == <<1, 2>>
MCNames == <<1, 1, 2>>
=============================================================================
