--------------------------- MODULE MCRconSession ---------------------------
(* RconSession on small instances: the values are given by the cfg files.  *)
EXTENDS RconSession
============================================================================
