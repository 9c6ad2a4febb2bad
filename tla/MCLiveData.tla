---------------------------- MODULE MCLiveData ----------------------------
(* Small instances of the way from a write to the screens.                  *)
EXTENDS LiveDataProps
=============================================================================
