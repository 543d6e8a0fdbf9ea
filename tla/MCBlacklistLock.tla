----------------------------- MODULE MCBlacklistLock -----------------------------
(* Small instances of BlacklistLock for TLC. *)
EXTENDS BlacklistLock, TLC

ActorSymmetry == Permutations(Actors)
=============================================================================
