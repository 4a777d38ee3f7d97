---------------------------- MODULE GnssSatellites ----------------------------
(***************************************************************************)
(* What the GSV and GSA sentences leave in mSatellites and                 *)
(* mSatellitesUsedInFix, and the satellite status reported from them       *)
(* (GnssHwTTY.cpp).  A receiver describes the satellites of one system in  *)
(* a group of GSV sentences; any sentence may be lost on the way.          *)
(***************************************************************************)
EXTENDS Integers, Sequences, SequencesExt

CONSTANTS Groups,       \* what a receiver may say in one group: a system
                        \* and the numbers of its satellites
          UsedGroups,   \* the same of one GSA sentence
          PerSentence,  \* satellites in one GSV sentence, 4 in the code
          SVS_COUNT,    \* room in mSvStatus, 64 in the code
          Statuses,     \* values mMajorGnssStatus may have
          GsaFields,    \* values mGsaFieldsNumber may have
          Digits,       \* first digits a dilution of precision may have
          MaxGroups, MaxLost  \* bounds

gsaFieldsNumberNMEAv41 == 19
gsaFieldsNumberNMEAv23 == 18

ASSUME SizesAssumption == {PerSentence, SVS_COUNT} \subseteq Nat \ {0}

Systems == <<"GPS", "GLONASS", "GALILEO", "BEIDOU", "ANY">>  \* SatelliteType
SystemSet == {Systems[i] : i \in 1 .. Len(Systems)}

(* The receiver numbers the satellites of GLONASS from 65, one that it does*)
(* not know is empty and read as 0; all numbers of NMEA end at 200.        *)
NumbersOf(system) == IF system = "GLONASS" THEN {0} \union 65 .. 96 ELSE 0 .. 200

ASSUME GroupsAssumption ==
    /\ \A group \in Groups : \E system \in SystemSet :
         group \in [system : {system}, svids : Seq(NumbersOf(system))]
    /\ UsedGroups \subseteq [system : SystemSet, svids : SUBSET Nat]

VARIABLES mSatellites, mSatellitesUsedInFix, glonass_fcn, mMajorGnssStatus,
          mGsaFieldsNumber, mSvStatus,
          incoming,   \* sentences of the group on its way
          lastGroup,  \* of each system: what the receiver said last
          lastGsa,    \* the last GSA with each of the digits 1 to 4 in its
                      \* last field
          groups, lost

configVars == <<mMajorGnssStatus, mGsaFieldsNumber>>
satelliteVars == <<mSatellites, mSatellitesUsedInFix, glonass_fcn, configVars,
          mSvStatus, incoming, lastGroup, lastGsa, groups, lost>>

NoneOf(default) == [system \in SystemSet |-> default]

(* The receiver has been configured; only one of u-blox 7, which gets no   *)
(* second system, speaks NMEA 2.3.                                         *)
SatellitesInit ==
    /\ mSatellites = NoneOf(<<>>) /\ mSatellitesUsedInFix = NoneOf({})
    /\ glonass_fcn = 0
    /\ mMajorGnssStatus \in Statuses /\ mGsaFieldsNumber \in GsaFields
    /\ mGsaFieldsNumber = gsaFieldsNumberNMEAv23 => mMajorGnssStatus = "GPS_ONLY"
    /\ mSvStatus = <<>>
    /\ incoming = <<>>
    /\ lastGroup = NoneOf(<<>>)
    /\ lastGsa = [id \in 1 .. 4 |-> [system |-> Systems[id], svids |-> {}]]
    /\ groups = 0 /\ lost = 0

-----------------------------------------------------------------------------
(* The receiver.  A system without satellites has one sentence without any.*)

SentencesOf(group) ==
    LET total == IF group.svids = <<>> THEN 1
                 ELSE (Len(group.svids) + PerSentence - 1) \div PerSentence
    IN [idx \in 1 .. total |->
          [system |-> group.system, sentences |-> total, idx |-> idx,
           num |-> Len(group.svids),
           svids |-> SubSeq(group.svids, (idx - 1) * PerSentence + 1,
                            IF idx = total THEN Len(group.svids)
                            ELSE idx * PerSentence)]]

Describe(group) ==
    /\ incoming = <<>> /\ groups < MaxGroups
    /\ groups' = groups + 1
    /\ incoming' = SentencesOf(group)
    /\ lastGroup' = [lastGroup EXCEPT ![group.system] = group.svids]
    /\ UNCHANGED <<mSatellites, mSatellitesUsedInFix, glonass_fcn,
                   configVars, mSvStatus, lastGsa, lost>>

Lose ==
    /\ incoming # <<>> /\ lost < MaxLost
    /\ incoming' = Tail(incoming)
    /\ lost' = lost + 1
    /\ UNCHANGED <<mSatellites, mSatellitesUsedInFix, glonass_fcn,
                   configVars, mSvStatus, lastGroup, lastGsa, groups>>

-----------------------------------------------------------------------------
(* GSV.                                                                    *)

(* Systems that the first sentence of a group, of any system, clears: no   *)
(* status clears none when it is not one of the three.                     *)
Excluded ==
    CASE mMajorGnssStatus = "GPS_GLONASS" -> {"BEIDOU"}
      [] mMajorGnssStatus = "GPS_BEIDOU" -> {"GLONASS"}
      [] mMajorGnssStatus = "GPS_ONLY" -> {"GLONASS", "BEIDOU"}
      [] OTHER -> {}

(* GPS_ONLY clears the lists but goes on with the sentence.                *)
Ignored(system) ==
    mMajorGnssStatus \in {"GPS_GLONASS", "GPS_BEIDOU"} /\ system \in Excluded

Cleared(lists, systems, none) ==
    [system \in SystemSet |-> IF system \in systems THEN none ELSE lists[system]]

Sbas(svid) == IF svid \in 33 .. 64 THEN svid + 87 ELSE svid + 31

(* Constellation and svid that Android gets for a number of a talker.      *)
Constellation(system, svid) ==
    IF system = "GPS" /\ svid \in 1 .. 32 THEN "GPS"
    ELSE IF system = "GALILEO" /\ svid \in 1 .. 36 THEN "GALILEO"
    ELSE IF system \in {"GLONASS", "BEIDOU"} THEN system
    ELSE IF svid \in 33 .. 64 \union 152 .. 158 THEN "SBAS"
    ELSE IF svid \in 193 .. 197 THEN "QZSS" ELSE "UNKNOWN"

Svid(system, svid, fcn) ==
    CASE Constellation(system, svid) = "GLONASS" ->
           IF svid # 0 THEN svid - 64 ELSE fcn
      [] Constellation(system, svid) = "SBAS" -> Sbas(svid)
      [] OTHER -> svid

(* glonass_fcn after the satellites before a part: each GLONASS satellite  *)
(* without a number takes the next channel, and 0 follows 105.             *)
Channel(fcn, svids, part) ==
    (fcn + Cardinality({p \in 1 .. part - 1 : svids[p] = 0})) % 106

(* What is pushed for the satellites of a sentence.  A satellite that is   *)
(* marked as used is erased from the used ones.  "number" is the sentence's*)
(* own number, kept to say which satellite this is.                        *)
Pushed(system, svids, used, fcn) ==
    [part \in 1 .. Len(svids) |->
       [constellation |-> Constellation(system, svids[part]),
        svid |-> Svid(system, svids[part], Channel(fcn, svids, part)),
        used |-> /\ svids[part] \in used
                 /\ \A p \in 1 .. part - 1 : svids[p] # svids[part],
        number |-> svids[part]]]

(* Satellites of the sentence that there is room for.                      *)
Parts(gsv) ==
    LET room == SVS_COUNT - (gsv.idx - 1) * PerSentence
    IN IF Len(gsv.svids) <= room THEN gsv.svids ELSE SubSeq(gsv.svids, 1, room)

(* The lists one after another.                                            *)
AllOf(lists) == lists["GPS"] \o lists["GLONASS"] \o lists["GALILEO"]
                \o lists["BEIDOU"] \o lists["ANY"]

(* As many satellites as there is room for, and one more.                  *)
ReportPastRoom(lists) ==
    LET all == AllOf(lists)
    IN IF Len(all) > SVS_COUNT THEN SubSeq(all, 1, SVS_COUNT + 1) ELSE all

(* The loops end at SVS_COUNT by setting both of their counters past the   *)
(* end; the list they then ask for its size is not one of mSatellites, and *)
(* any size ends them.                                                     *)
Report(lists) ==
    LET all == AllOf(lists)
    IN IF Len(all) > SVS_COUNT THEN SubSeq(all, 1, SVS_COUNT) ELSE all

(* Lists, used lists and channel before the satellites of a sentence are   *)
(* pushed, in a reader that never clears the list of the group itself.     *)
OpenedKeepingList(gsv) ==
    IF gsv.idx # 1
    THEN [lists |-> mSatellites, used |-> mSatellitesUsedInFix,
          fcn |-> glonass_fcn]
    ELSE [lists |-> Cleared(mSatellites, Excluded, <<>>),
          used |-> Cleared(mSatellitesUsedInFix, Excluded, {}),
          fcn |-> IF gsv.system = "GLONASS" THEN 93 ELSE glonass_fcn]

(* The first sentence of a group clears its list.                          *)
Opened(gsv) ==
    IF gsv.idx # 1
    THEN [lists |-> mSatellites, used |-> mSatellitesUsedInFix,
          fcn |-> glonass_fcn]
    ELSE [lists |-> Cleared(mSatellites, Excluded \union {gsv.system}, <<>>),
          used |-> Cleared(mSatellitesUsedInFix, Excluded, {}),
          fcn |-> IF gsv.system = "GLONASS" THEN 93 ELSE glonass_fcn]

xxGSV ==
    /\ incoming # <<>>
    /\ incoming' = Tail(incoming)
    /\ LET gsv == Head(incoming)
       IN IF gsv.idx = 1 /\ Ignored(gsv.system)
          THEN /\ mSatellites' = Cleared(mSatellites, Excluded, <<>>)
               /\ mSatellitesUsedInFix' = Cleared(mSatellitesUsedInFix, Excluded, {})
               /\ UNCHANGED <<glonass_fcn, mSvStatus>>
          ELSE LET opened == Opened(gsv)
                   parts == Parts(gsv)
               IN /\ mSatellites' =
                       [opened.lists EXCEPT ![gsv.system] =
                          @ \o Pushed(gsv.system, parts, opened.used[gsv.system],
                                      opened.fcn)]
                  /\ mSatellitesUsedInFix' =
                       [opened.used EXCEPT ![gsv.system] = @ \ ToSet(parts)]
                  /\ glonass_fcn' = IF gsv.system = "GLONASS"
                                    THEN Channel(opened.fcn, parts, Len(parts) + 1)
                                    ELSE opened.fcn
                  /\ mSvStatus' = IF gsv.sentences = gsv.idx
                                  THEN Report(mSatellites') ELSE mSvStatus
    /\ UNCHANGED <<configVars, lastGroup, lastGsa, groups, lost>>

-----------------------------------------------------------------------------
(* GSA.  The last field of NMEA 4.1 names the system; that of 2.3 is a     *)
(* dilution of precision, whose first digit may be any.                    *)
SystemIds(gsa) ==
    IF mGsaFieldsNumber = gsaFieldsNumberNMEAv41
    THEN {id \in 1 .. 4 : Systems[id] = gsa.system}
    ELSE Digits

(* The used satellites are added to those of the sentence before.          *)
GsaAdds(gsa, id) ==
    IF id \in 1 .. 4
    THEN [mSatellitesUsedInFix EXCEPT ![Systems[id]] = @ \union gsa.svids]
    ELSE mSatellitesUsedInFix

UsedOf(gsa, id) ==
    IF id \in 1 .. 4
    THEN [mSatellitesUsedInFix EXCEPT ![Systems[id]] = gsa.svids]
    ELSE mSatellitesUsedInFix

GxGSA(gsa) ==
    /\ incoming = <<>>
    /\ \E id \in SystemIds(gsa) :
         /\ mSatellitesUsedInFix' = UsedOf(gsa, id)
         /\ lastGsa' = IF id \in 1 .. 4 THEN [lastGsa EXCEPT ![id] = gsa]
                       ELSE lastGsa
    /\ UNCHANGED <<mSatellites, glonass_fcn, configVars, mSvStatus, incoming,
                   lastGroup, groups, lost>>

SatellitesNext ==
    \/ \E group \in Groups : Describe(group)
    \/ Lose \/ xxGSV
    \/ \E gsa \in UsedGroups : GxGSA(gsa)

-----------------------------------------------------------------------------
(* Numbers fit the byte that Android gives them.  The report never holds   *)
(* more than mSvStatus has room for, whatever sentences are lost and       *)
(* however many satellites the lists have gathered.                        *)
SatellitesTypeOK ==
    /\ Len(mSvStatus) <= SVS_COUNT
    /\ glonass_fcn \in 0 .. 105
    /\ \A system \in SystemSet :
         /\ \A i \in DOMAIN mSatellites[system] :
              /\ mSatellites[system][i].svid \in 0 .. 200
              /\ mSatellites[system][i].constellation \in
                   {"GPS", "SBAS", "QZSS", "GLONASS", "GALILEO", "BEIDOU", "UNKNOWN"}
         /\ mSatellitesUsedInFix[system] \subseteq Nat

(* A number of the last GSA taken for a system, which in NMEA 4.1 was one  *)
(* of the system.                                                          *)
UsedByLastGsa(system, number) ==
    \E id \in 1 .. 4 :
      /\ Systems[id] = system
      /\ number \in lastGsa[id].svids
      /\ mGsaFieldsNumber = gsaFieldsNumberNMEAv41 => lastGsa[id].system = system

(* A satellite is marked as used in the fix only when the last GSA that    *)
(* was taken for one of its system used it, whatever groups and fixes came *)
(* between; so no satellite of an earlier fix stays.  In NMEA 4.1 that was *)
(* a GSA of its own system.  In NMEA 2.3, where the code takes a digit of  *)
(* the dilution of precision for the system, it may be that of any system: *)
(* UsedIsOfOwnSystem below does not hold then.                             *)
UsedIsOfLastFix ==
    [][incoming # <<>> /\ lost' = lost =>
         LET gsv == Head(incoming)
             old == IF gsv.idx = 1 THEN 0 ELSE Len(mSatellites[gsv.system])
             list == mSatellites'[gsv.system]
         IN \A i \in old + 1 .. Len(list) :
              list[i].used => UsedByLastGsa(gsv.system, list[i].number)]_incoming

(* While no sentence is lost, the list of a system that the receiver may   *)
(* use is its last group from the start, and all of it between two groups: *)
(* nothing is left of the groups before, nothing is there twice.           *)
ListIsLastGroup ==
    lost = 0 => \A system \in SystemSet \ Excluded :
        LET numbers == [i \in DOMAIN mSatellites[system] |->
                          mSatellites[system][i].number]
        IN \/ incoming = <<>> /\ numbers = lastGroup[system]
           \/ incoming # <<>> /\ Head(incoming).system = system
              /\ (Head(incoming).idx = 1 \/ IsPrefix(numbers, lastGroup[system]))
           \/ incoming # <<>> /\ Head(incoming).system # system
              /\ numbers = lastGroup[system]

(* "Values must be in the range of" (GnssHwTTY.cpp): the numbers Android   *)
(* gets for each constellation.                                            *)
SvidRange ==
    [GPS |-> 1 .. 32, SBAS |-> 120 .. 151 \union 183 .. 192,
     GLONASS |-> 1 .. 24 \union 93 .. 106, QZSS |-> 193 .. 200,
     GALILEO |-> 1 .. 36, BEIDOU |-> 1 .. 37]

SvidInRange ==
    \A i \in DOMAIN mSvStatus :
        mSvStatus[i].constellation # "UNKNOWN" =>
            mSvStatus[i].svid \in SvidRange[mSvStatus[i].constellation]

(* "Make sure that GLONASS messages are not handled when BEIDOU is active  *)
(* and vice versa" (GnssHwTTY.cpp).                                        *)
ExcludedIsNotHandled ==
    \A i \in DOMAIN mSvStatus :
        /\ mMajorGnssStatus = "GPS_GLONASS" =>
             mSvStatus[i].constellation # "BEIDOU"
        /\ mMajorGnssStatus = "GPS_BEIDOU" =>
             mSvStatus[i].constellation # "GLONASS"

(* "GSA is expected to have 19 parts" (GnssHwTTY.cpp), the last of which   *)
(* is the system: the used satellites of a system are of that system.      *)
UsedIsOfOwnSystem ==
    \A id \in 1 .. 4 :
        mSatellitesUsedInFix[Systems[id]] # {} => lastGsa[id].system = Systems[id]
=============================================================================
