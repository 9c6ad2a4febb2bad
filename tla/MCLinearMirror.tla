--------------------------- MODULE MCLinearMirror ---------------------------
(* Small instances of the mirror with Linear.                               *)
EXTENDS LinearMirrorProps
=============================================================================
