----------------------------- MODULE MCCommands -----------------------------
EXTENDS Commands

MCServerList == <<"pub", "war">>
MCChannels == {"#pub", "#staff", "#off"}
MCChannelType == "#pub" :> 1 @@ "#staff" :> 2 @@ "#off" :> 9
MCPublicType == "pub" :> 1 @@ "war" :> 1
MCAdminType == "pub" :> 2 @@ "war" :> 3
MCRotation == "pub" :> <<"islands", "botany">> @@ "war" :> <<"walls", "field">>
MCPersons == {"p1", "p2", "b1", "w1"}
Person(s, n, i, b) == [server |-> s, name |-> n, id |-> i, bot |-> b]
MCWho == "p1" :> Person("pub", "bob", 1, FALSE) @@ "p2" :> Person("pub", "bobby", 2, FALSE)
         @@ "b1" :> Person("war", "bot", 3, TRUE) @@ "w1" :> Person("war", "bob", 1, FALSE)
MCLevels == "p1" :> {2} @@ "p2" :> {0, 2} @@ "b1" :> {0} @@ "w1" :> {0}
MCTexts == {"bob", "bobby", "bot", "pid2", "1d"}
MCPartOf == "bob" :> {"bob", "bobby"} @@ "bobby" :> {"bobby"} @@ "bot" :> {"bot", "botany"}
            @@ "pid2" :> {"pid2"} @@ "1d" :> {"1d"}
MCIdIn == [t \in MCTexts |-> IF t = "pid2" THEN 2 ELSE 0]
MCSpan == [t \in MCTexts |-> IF t = "1d" THEN 9 ELSE 0]
MCWarnAction == -1
MCUsers == {"guest", "admin"}
MCUserAccess == "guest" :> 0 @@ "admin" :> 5
Set(cmd, where, level) == [cmd |-> cmd, in |-> where, level |-> level]
MCSettings == <<Set("team2", "any", 0), Set("kill", "#pub", 0), Set("warn", "#pub", -1), Set("phasebots", "#staff", -1),
                Set("reconnect", "#pub", -1), Set("playerinfo", "2", 1), Set("team2", "any", -1), Set("kill", "#pub", 5)>>
MCGameAccess == <<"pub", "smode">> :> 2 @@ <<"pub", "pamsg">> :> -1
MCPrefixed == "#pub" :> {} @@ "#staff" :> {"admin"} @@ "#off" :> {"guest"}
Building(n, g, s) == [name |-> n, group |-> g, strip |-> s]
MCBuildings == "pub" :> <<Building("wf", "gdi", FALSE), Building("strip1", "nod", TRUE),
                          Building("hand", "nod", FALSE), Building("strip2", "nod", TRUE)>> @@ "war" :> <<>>
MCBans == <<[ip |-> "1", hwid |-> "h", rdns |-> "r", steam |-> "s", name |-> "bob", banner |-> "op", active |-> "yes"]>>
MCExemptions == <<[ip |-> "1", steam |-> "s", setter |-> "op", active |-> "yes"]>>
=============================================================================
