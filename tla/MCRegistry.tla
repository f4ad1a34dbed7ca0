----------------------------- MODULE MCRegistry -----------------------------
(* Instances of Registry for TLC. *)
EXTENDS Registry, TLC

CONSTANTS c1, c2, boss, jane, ann, bob, chief, demo, L1, L2, LDemo, LBlank

ClientSymmetry == Permutations(Clients)

\* What changes accounts, profiles, and results that exist.
AccountOperations == {"create", "createAdmin", "update", "setStatus", "delete", "amend", "discard"}

\* What adds results, and what changes or removes athletes under them.
ResultOperations == {"record", "update", "delete", "purge", "seed"}
=============================================================================
