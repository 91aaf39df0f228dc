-------------------------- MODULE MCPlayerRoster --------------------------
(* PlayerRoster on small instances: the values are given by the cfg files. *)
EXTENDS PlayerRoster
============================================================================
