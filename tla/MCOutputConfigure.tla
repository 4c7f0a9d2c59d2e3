-------------------------- MODULE MCOutputConfigure --------------------------
(***************************************************************************)
(* OutputConfigure with two sizes of the host, one of which is wider than  *)
(* high and one square, next to a third that the output starts with.       *)
(***************************************************************************)
EXTENDS OutputConfigure

MCSizes == {<<2, 1>>, <<2, 2>>}
MCInitialSize == <<3, 1>>
=============================================================================
