--------------------------- MODULE MCOutputPointer ---------------------------
(* OutputPointer with looks for the model checker: two that differ in the    *)
(* hotspot alone, the first of which differs from NoLook in the image alone. *)
EXTENDS OutputPointer

MCNoLook == [image |-> "none", hotspot |-> "h0"]
MCLooks ==
  {[image |-> "a", hotspot |-> "h0"], [image |-> "a", hotspot |-> "h1"]}
=============================================================================
