------------------------------- MODULE MCGame -------------------------------
EXTENDS Game

MCPublic == DefaultPublic
MCBlank  == DefaultBlank
MCDeeds  == [t \in Topics |-> CASE t = "deaths" -> 2 [] t = "vote" -> 2 [] OTHER -> 1]
MCConnects == [t \in Topics |-> IF t \in {"end", "web"} THEN 2 ELSE 1]
=============================================================================
