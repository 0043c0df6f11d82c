---------------------------- MODULE MCFileAccess ----------------------------
(* A small instance of FileAccess for TLC.                                  *)
EXTENDS FileAccess

CONSTANTS c1, c2, c3

ThreeCalls == {c1, c2, c3}
OneReader == {c3}

=============================================================================
