----------------------------- MODULE MCLifecycle -----------------------------
(* Small instances of Lifecycle for TLC.                                    *)
EXTENDS Lifecycle

AllEvents == {"prepare", "spawn", "exit", "listen", "index", "signal", "deadline"}

=============================================================================
