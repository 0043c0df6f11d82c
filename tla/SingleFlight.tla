---------------------------- MODULE SingleFlight ----------------------------
(***************************************************************************)
(* What the thumbnail service promises about the generation of thumbnails,  *)
(* without channels, locks or files: a key is claimed by at most one caller *)
(* at a time, a claimed key is worked on by at most one actor, once, and is *)
(* released by that actor and nobody else.  A claim that no actor takes up  *)
(* (its task was dropped by a shutdown) is kept until everything is reset.  *)
(***************************************************************************)
CONSTANTS Keys, Actors, NoActor

VARIABLES
    claimed,    (* the keys somebody is responsible for                    *)
    actor       (* actor[k]: who works on k                                *)

flightVars == <<claimed, actor>>

FlightInit ==
    /\ claimed = {}
    /\ actor = [k \in Keys |-> NoActor]

Claim(k) ==
    /\ k \notin claimed
    /\ claimed' = claimed \cup {k}
    /\ UNCHANGED actor

(* An actor has one key at a time.                                          *)
Work(k, a) ==
    /\ k \in claimed
    /\ actor[k] = NoActor
    /\ \A other \in Keys : actor[other] # a
    /\ actor' = [actor EXCEPT ![k] = a]
    /\ UNCHANGED claimed

Settle(k) ==
    /\ actor[k] # NoActor
    /\ claimed' = claimed \ {k}
    /\ actor' = [actor EXCEPT ![k] = NoActor]

Reset ==
    /\ claimed' = {}
    /\ actor' = [k \in Keys |-> NoActor]

FlightNext ==
    \/ \E k \in Keys : Claim(k) \/ Settle(k) \/ \E a \in Actors : Work(k, a)
    \/ Reset

FlightSpec == FlightInit /\ [][FlightNext]_flightVars

=============================================================================
