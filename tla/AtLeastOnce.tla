---------------------------- MODULE AtLeastOnce ----------------------------
(***************************************************************************)
(* What a Kafka consumer that commits by hand promises: a message is       *)
(* acknowledged only once it, and everything before it, was delivered;     *)
(* until then it may be delivered again.                                   *)
(***************************************************************************)
EXTENDS Integers

VARIABLES produced,   \* messages 1..produced exist
          delivered,  \* those that reached their destination
          acked       \* messages 1..acked are never read again

vars == <<produced, delivered, acked>>

Init == produced = 0 /\ delivered = {} /\ acked = 0

Produce == produced' = produced + 1 /\ UNCHANGED <<delivered, acked>>

Deliver == /\ \E n \in (acked + 1)..produced : delivered' = delivered \cup {n}
           /\ UNCHANGED <<produced, acked>>

Acknowledge == /\ acked' >= acked
               /\ 1..acked' \subseteq delivered
               /\ UNCHANGED <<produced, delivered>>

Next == Produce \/ Deliver \/ Acknowledge

Spec == Init /\ [][Next]_vars
=============================================================================
