------------------------------ MODULE MCGnssNmea ------------------------------
(***************************************************************************)
(* Values for model checking GnssNmea.                                     *)
(***************************************************************************)
EXTENDS GnssNmea

(* Fixes in three and in two dimensions, at rest, without speed, and none. *)
Accuracies == {"horizontalAccuracy", "verticalAccuracy"}

Fix3D == [active |-> TRUE,
          has |-> {"speed", "bearing", "altitude"} \union Accuracies]
Fix2D == [active |-> TRUE, has |-> {"speed", "bearing", "horizontalAccuracy"}]
AtRest == [active |-> TRUE, has |-> {"speed", "altitude"} \union Accuracies]
NoSpeed == [active |-> TRUE, has |-> {"altitude"} \union Accuracies]
NoFix == [active |-> FALSE, has |-> {"horizontalAccuracy"}]

MCFixes == {Fix3D, Fix2D, AtRest, NoSpeed, NoFix}

(* Groups of up to three satellites where a sentence holds two, so groups  *)
(* of one and of two sentences, with numbers of every range of the code.   *)
Group(system, svids) == [system |-> system, svids |-> svids]

MCGroups ==
    {Group("GPS", <<5, 33, 193>>), Group("GPS", <<5, 158>>),
     Group("GLONASS", <<65, 0, 0>>), Group("GLONASS", <<66>>),
     Group("GLONASS", <<>>),
     Group("GALILEO", <<7>>), Group("BEIDOU", <<9, 10, 11>>)}

MCUsedGroups ==
    {Group("GPS", {5, 33}), Group("GPS", {}), Group("GLONASS", {65})}
=============================================================================
