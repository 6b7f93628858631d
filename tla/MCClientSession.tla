-------------------------- MODULE MCClientSession --------------------------
(* ClientSession for TLC: pages and users are interchangeable. *)
EXTENDS ClientSession, TLC

Interchangeable == Permutations(Pages) \cup Permutations(Users)
============================================================================
