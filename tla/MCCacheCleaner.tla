--------------------------- MODULE MCCacheCleaner ---------------------------
(* Small instances of CacheCleaner for TLC.                                 *)
EXTENDS CacheCleaner

CONSTANTS a, b, c

TwoMonths == {"2024-01", "2024-02"}
ThreeFiles == [m \in TwoMonths |-> IF m = "2024-01" THEN {a, b} ELSE {c}]

=============================================================================
