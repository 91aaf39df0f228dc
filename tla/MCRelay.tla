------------------------------ MODULE MCRelay ------------------------------
(* Commands of three classes; the values of the others are given by the cfg. *)
EXTENDS Relay

MCClass == [c \in Commands |-> CASE c = "PING" -> "ping" [] c = "say" -> "blacklisted"
                                 [] c = "foo" -> "unknown" [] OTHER -> "known"]
MCWord == [c \in Commands |-> c]
============================================================================
