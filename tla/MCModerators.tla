---------------------------- MODULE MCModerators ----------------------------
(* Identifiers as RenX.HybridUUID makes them: bob has no Steam, and so is      *)
(* known by his name, which eve, who has Steam, has taken as well.             *)
EXTENDS Moderators

MCWho == [bob |-> [steam |-> "", ip |-> "2", name |-> "bob"],
          eve |-> [steam |-> "E", ip |-> "3", name |-> "bob"]]
MCPersons == DOMAIN MCWho
MCUUIDs == {"SE", "Nbob"}
MCUUID(steam, name) == IF steam # "" THEN "S" \o steam ELSE "N" \o name

Level(access, lockIP) ==
  [access |-> access, lockSteam |-> TRUE, lockIP |-> lockIP, lockName |-> FALSE,
   kickLockMismatch |-> TRUE, autoAuthSteam |-> TRUE, autoAuthIP |-> FALSE]
MCGroups == <<Level(0, FALSE), Level(3, TRUE), Level(5, FALSE)>>
MCInitSections ==
  [u \in {"Nbob"} |-> [group |-> 2, steam |-> "", ip |-> "2", name |-> "bob", own |-> [access |-> 2]]]
MCUserAccess == [halfop |-> 3, admin |-> 5]
MCUsers == DOMAIN MCUserAccess
=============================================================================
