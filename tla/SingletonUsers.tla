--------------------------- MODULE SingletonUsers ---------------------------
(* Who uses the singleton of Ex2/Task3.c.                                        *)
EXTENDS Naturals, FiniteSets

CONSTANTS
  User,         \* the threads: 50 in the code
  Fields,       \* fields 1..Fields, set in that order (a, b, c, d: 4)
  None          \* NULL, and: nobody

ASSUME SingletonAssumption == Fields \in Nat \ {0} /\ None \notin User
=============================================================================
