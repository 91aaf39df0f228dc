---------------------------- MODULE MCModeration ----------------------------
(* Two clients behind one address; one has a hardware id that the log tells,  *)
(* the other has no steam id, but a host name that look-ups find.             *)
EXTENDS Moderation

CONSTANTS c1, c2

MCIdentity == [c \in Clients |-> IF c = c1 THEN {"steam", "ip", "hwid"} ELSE {"ip", "host"}]
MCAddBanNames == {{"host"}, {"hwid"}}
MCAddExemptionNames == {{"ip"}}
=============================================================================
