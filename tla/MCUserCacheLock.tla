--------------------------- MODULE MCUserCacheLock ---------------------------
(* Model-checking instances of the user map's lock. *)
EXTENDS UserCacheLock, TLC
=============================================================================
