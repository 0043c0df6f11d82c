-------------------------- MODULE MCSearchService --------------------------
(* Small instances of SearchService for TLC.                                *)
EXTENDS SearchService, TLC

CONSTANTS h1, h2

TwoHandlers == {h1, h2}
Symmetric == Permutations(TwoHandlers)

=============================================================================
