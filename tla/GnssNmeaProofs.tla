---------------------------- MODULE GnssNmeaProofs ----------------------------
(***************************************************************************)
(* Proofs about the location and the satellite lists that the NMEA         *)
(* handlers build, for any kinds of fix and groups a receiver may send and *)
(* any number of epochs, dropped sentences and groups.                     *)
(***************************************************************************)
EXTENDS GnssNmea, FiniteSetTheorems, SequenceTheorems, TLAPS

(* Epochs are numbers, and nothing is known of an epoch that is not over.  *)
EpochsInv ==
    /\ epoch \in Nat /\ lastVoid \in 0 .. epoch
    /\ heard \in [{"RMC", "GGA", "PUBX00"} -> 0 .. epoch]
    /\ mGnssLocation \in [Fields -> Nat]

(* A field is absent or of the last parsed sentence of its kind, whether   *)
(* the location is reported or not: each handler assigns all its fields.   *)
FieldsAreHeard ==
    \A field \in Fields :
        Has(mGnssLocation, field) =>
            mGnssLocation[field] = heard[SentenceOf(field)]

(* The strengthening that every step keeps.                                *)
LocationInv ==
    EpochsInv /\ FieldsAreHeard /\ NothingOutlivesVoid /\ FieldsAreOfLastSentences
-----------------------------------------------------------------------------
(* An action of the location gives each field of a sentence that it parsed *)
(* the epoch or nothing, and keeps or clears all others.                   *)
LEMMA WithFieldsGives ==
  ASSUME EpochsInv, NEW fields
  PROVE  /\ WithFields(mGnssLocation, fields) \in [Fields -> Nat]
         /\ \A field \in Fields :
              WithFields(mGnssLocation, fields)[field] \in
                IF field \in fields THEN {Absent, epoch}
                ELSE {mGnssLocation[field]}
BY DEF EpochsInv, WithFields, Absent

(* The same for the location of an active fix: all fields of RMC are set   *)
(* or cleared.                                                             *)
LEMMA ActiveGives ==
  ASSUME EpochsInv
  PROVE  /\ Active \in [Fields -> Nat]
         /\ \A field \in Fields :
              Active[field] \in IF SentenceOf(field) = "RMC" THEN {Absent, epoch}
                                ELSE {mGnssLocation[field]}
<1> DEFINE located == [mGnssLocation EXCEPT !.position = epoch]
           moving == WithFields(located, {"speed", "bearing"})
<1>1. /\ located \in [Fields -> Nat] /\ located["position"] = epoch
      /\ \A field \in Fields \ {"position"} : located[field] = mGnssLocation[field]
  BY DEF EpochsInv, Fields
<1>2. /\ moving \in [Fields -> Nat]
      /\ moving["position"] = epoch
      /\ moving["speed"] \in {Absent, epoch} /\ moving["bearing"] \in {Absent, epoch}
      /\ \A field \in Fields \ {"position", "speed", "bearing"} :
           moving[field] = mGnssLocation[field]
  BY <1>1 DEF EpochsInv, WithFields, Absent, Fields
<1>3. Active = [moving EXCEPT !.speedAccuracy = epoch]
  BY DEF Active
<1>4. \A field \in Fields : SentenceOf(field) = "RMC" <=>
        field \in {"position", "speed", "speedAccuracy", "bearing"}
  BY DEF SentenceOf, Fields
<1>5. epoch \in Nat
  BY DEF EpochsInv
<1> HIDE DEF moving
<1>6. Active \in [Fields -> Nat]
  BY <1>2, <1>3, <1>5
<1>7. ASSUME NEW field \in Fields
      PROVE  Active[field] \in IF SentenceOf(field) = "RMC" THEN {Absent, epoch}
                               ELSE {mGnssLocation[field]}
  BY <1>2, <1>3, <1>4, <1>7 DEF Fields
<1>8. QED
  BY <1>6, <1>7

(* A sentence that gives its own fields this epoch or nothing, and keeps   *)
(* the others, keeps every field as it was heard and none from before the  *)
(* fix was last lost.                                                      *)
LEMMA ParsedFields ==
  ASSUME EpochsInv, FieldsAreHeard, NothingOutlivesVoid,
         NEW sentence \in {"RMC", "GGA", "PUBX00"}, Parse(sentence),
         mGnssLocation' \in [Fields -> Nat],
         \A field \in Fields :
           mGnssLocation'[field] \in
             IF SentenceOf(field) = sentence THEN {Absent, epoch}
             ELSE {mGnssLocation[field]},
         lastVoid' = lastVoid
  PROVE  EpochsInv' /\ FieldsAreHeard' /\ NothingOutlivesVoid'
<1>1. /\ epoch' = epoch /\ heard' = [heard EXCEPT ![sentence] = epoch]
      /\ \A field \in Fields : SentenceOf(field) \in {"RMC", "GGA", "PUBX00"}
  BY DEF Parse, SentenceOf
<1>2. EpochsInv'
  BY <1>1 DEF EpochsInv
<1>3. FieldsAreHeard'
  BY <1>1 DEF FieldsAreHeard, EpochsInv, Has
<1>4. NothingOutlivesVoid'
  BY <1>1 DEF NothingOutlivesVoid, EpochsInv, Has
<1>5. QED
  BY <1>2, <1>3, <1>4

(* Every step of the location keeps its invariant.                         *)
LEMMA LocationStep ==
  ASSUME LocationInv, LocationNext
  PROVE  LocationInv'
<1> USE DEF LocationInv
<1>1. ASSUME NEW f \in Fixes, NextEpoch(f)
      PROVE  LocationInv'
  BY <1>1 DEF NextEpoch, EpochsInv, FieldsAreHeard, NothingOutlivesVoid,
              FieldsAreOfLastSentences, Has
<1>2. CASE Drop \/ StartOrStop
  BY <1>2 DEF Drop, StartOrStop, EpochsInv, FieldsAreHeard, NothingOutlivesVoid,
              FieldsAreOfLastSentences, Has
<1>3. CASE GxRMC
  <2>1. EpochsInv' /\ FieldsAreHeard' /\ NothingOutlivesVoid'
    <3>1. CASE fix.active
      BY <1>3, <3>1, ActiveGives, ParsedFields DEF GxRMC
    <3>2. CASE ~fix.active
      <4>1. /\ mGnssLocation' = [field \in Fields |-> 0] /\ lastVoid' = epoch
            /\ epoch' = epoch /\ heard' = [heard EXCEPT !["RMC"] = epoch]
        BY <1>3, <3>2 DEF GxRMC, Void, NoLocation, Absent, Parse
      <4>2. QED
        BY <4>1 DEF EpochsInv, FieldsAreHeard, NothingOutlivesVoid, Has, Absent
    <3>3. QED
      BY <3>1, <3>2
  <2>2. FieldsAreOfLastSentences'
    <3>1. CASE UNCHANGED reports
      BY <3>1 DEF FieldsAreOfLastSentences, Has
    <3>2. CASE reports' = {[location |-> mGnssLocation', fix |-> fix,
                            heard |-> heard']}
      BY <2>1, <3>2 DEF FieldsAreHeard, FieldsAreOfLastSentences, Has
    <3>3. QED
      BY <1>3, <3>1, <3>2 DEF GxRMC
  <2>3. QED
    BY <2>1, <2>2
<1>4. CASE GxGGA
  <2>1. \A field \in Fields : SentenceOf(field) = "GGA" <=> field \in {"altitude"}
    BY DEF SentenceOf, Fields
  <2>2. EpochsInv' /\ FieldsAreHeard' /\ NothingOutlivesVoid'
    BY <1>4, <2>1, WithFieldsGives, ParsedFields DEF GxGGA
  <2>3. FieldsAreOfLastSentences'
    BY <1>4 DEF GxGGA, FieldsAreOfLastSentences, Has
  <2>4. QED
    BY <2>2, <2>3
<1>5. CASE PUBX00
  <2>1. \A field \in Fields : SentenceOf(field) = "PUBX00" <=>
          field \in {"horizontalAccuracy", "verticalAccuracy"}
    BY DEF SentenceOf, Fields
  <2>2. EpochsInv' /\ FieldsAreHeard' /\ NothingOutlivesVoid'
    BY <1>5, <2>1, WithFieldsGives, ParsedFields DEF PUBX00
  <2>3. FieldsAreOfLastSentences'
    BY <1>5 DEF PUBX00, FieldsAreOfLastSentences, Has
  <2>4. QED
    BY <2>2, <2>3
<1>6. QED
  BY <1>1, <1>2, <1>3, <1>4, <1>5 DEF LocationNext

(* The invariant of the location holds whatever the receiver sends.        *)
THEOREM LocationInvariant == Spec => []LocationInv
<1>1. Init => LocationInv
  BY DEF Init, LocationInit, LocationInv, EpochsInv, FieldsAreHeard, Absent,
         NothingOutlivesVoid, FieldsAreOfLastSentences, NoLocation, Has
<1>2. LocationInv /\ [Next]_vars => LocationInv'
  <2>1. LocationInv /\ UNCHANGED locationVars => LocationInv'
    BY DEF LocationInv, locationVars, EpochsInv, FieldsAreHeard,
           NothingOutlivesVoid, FieldsAreOfLastSentences, Has
  <2>2. QED
    BY <2>1, LocationStep DEF Next, vars
<1>3. QED
  BY <1>1, <1>2, PTL DEF Spec

(* Nothing measured before the fix was last lost is part of a location.    *)
THEOREM LocationIsSinceVoid == Spec => []NothingOutlivesVoid
<1>1. LocationInv => NothingOutlivesVoid
  BY DEF LocationInv
<1>2. QED
  BY <1>1, LocationInvariant, PTL

(* A field of a reported location is what the last parsed sentence of its  *)
(* kind gave, whatever was dropped.                                        *)
THEOREM ReportIsOfLastSentences == Spec => []FieldsAreOfLastSentences
<1>1. LocationInv => FieldsAreOfLastSentences
  BY DEF LocationInv
<1>2. QED
  BY <1>1, LocationInvariant, PTL

-----------------------------------------------------------------------------
(* The satellites.                                                         *)

Constellations ==
    {"GPS", "SBAS", "QZSS", "GLONASS", "GALILEO", "BEIDOU", "UNKNOWN"}

(* What a list holds of a satellite, what the line holds of a sentence.    *)
Satellite == [constellation : Constellations, svid : 0 .. 200,
              used : BOOLEAN, number : 0 .. 200]
Sentence == [system : SystemSet, sentences : Nat, idx : Nat \ {0}, num : Nat,
             svids : Seq(0 .. 200)]

(* Types, and the two facts the prover's types cannot say: the numbers of  *)
(* a sentence are those of its system, and the status has room for its     *)
(* satellites.                                                             *)
SatelliteTypes ==
    /\ mSatellites \in [SystemSet -> Seq(Satellite)]
    /\ mSatellitesUsedInFix \in [SystemSet -> SUBSET Nat]
    /\ glonass_fcn \in 0 .. 105 /\ lost \in Nat
    /\ mSvStatus \in Seq(Satellite) /\ Len(mSvStatus) <= SVS_COUNT
    /\ incoming \in Seq(Sentence)
    /\ \A j \in 1 .. Len(incoming) :
         incoming[j].svids \in Seq(NumbersOf(incoming[j].system))
-----------------------------------------------------------------------------
(* Systems and the numbers of their satellites.                            *)
LEMMA SystemsAre == SystemSet = {"GPS", "GLONASS", "GALILEO", "BEIDOU", "ANY"}
<1>1. /\ Len(Systems) = 5
      /\ Systems[1] = "GPS" /\ Systems[2] = "GLONASS" /\ Systems[3] = "GALILEO"
      /\ Systems[4] = "BEIDOU" /\ Systems[5] = "ANY"
  BY DEF Systems
<1>2. 1 .. 5 = {1, 2, 3, 4, 5}
  OBVIOUS
<1> HIDE DEF Systems
<1>3. QED
  BY <1>1, <1>2 DEF SystemSet

(* A channel is one of 106, however many satellites have no number.        *)
LEMMA ChannelInRange ==
  ASSUME NEW fcn \in Nat, NEW svids, NEW part \in Nat
  PROVE  Channel(fcn, svids, part) \in 0 .. 105
<1> DEFINE unknown == {p \in 1 .. part - 1 : svids[p] = 0}
<1>1. IsFiniteSet(1 .. part - 1)
  BY FS_Interval
<1>2. Cardinality(unknown) \in Nat
  BY <1>1, FS_Subset, FS_CardinalityType
<1>3. QED
  BY <1>2 DEF Channel

(* What is pushed: a satellite for each number of the sentence, in their   *)
(* order, marked as used only when its number was among the used ones, and *)
(* with a number that Android can hold.                                    *)
LEMMA PushedGives ==
  ASSUME NEW system \in SystemSet, NEW svids \in Seq(NumbersOf(system)),
         NEW used, NEW fcn \in 0 .. 105
  PROVE  /\ Pushed(system, svids, used, fcn) \in Seq(Satellite)
         /\ Len(Pushed(system, svids, used, fcn)) = Len(svids)
         /\ \A part \in 1 .. Len(svids) :
              LET satellite == Pushed(system, svids, used, fcn)[part]
              IN /\ satellite.number = svids[part]
                 /\ satellite.used => svids[part] \in used
<1> DEFINE satellite(part) ==
             [constellation |-> Constellation(system, svids[part]),
              svid |-> Svid(system, svids[part], Channel(fcn, svids, part)),
              used |-> /\ svids[part] \in used
                       /\ \A p \in 1 .. part - 1 : svids[p] # svids[part],
              number |-> svids[part]]
<1>1. ASSUME NEW part \in 1 .. Len(svids)
      PROVE  satellite(part) \in Satellite
  <2>1. Channel(fcn, svids, part) \in 0 .. 105
    <3>1. part \in Nat /\ fcn \in Nat
      BY LenProperties
    <3>2. QED
      BY <3>1, ChannelInRange
  <2>2. svids[part] \in NumbersOf(system)
    BY ElementOfSeq
  <2>3. svids[part] \in 0 .. 200
    BY <2>2 DEF NumbersOf
  <2>4. Constellation(system, svids[part]) \in Constellations
    BY SystemsAre DEF Constellation, Constellations
  <2>5. Svid(system, svids[part], Channel(fcn, svids, part)) \in 0 .. 200
    <3>1. CASE Constellation(system, svids[part]) = "GLONASS"
      <4>1. system = "GLONASS"
        BY <3>1 DEF Constellation
      <4>2. QED
        BY <2>1, <2>2, <3>1, <4>1 DEF Svid, NumbersOf
    <3>2. CASE Constellation(system, svids[part]) = "SBAS"
      <4>1. svids[part] \in 33 .. 64 \union 152 .. 158
        BY <3>2, SystemsAre DEF Constellation
      <4>2. \A n \in 33 .. 64 \union 152 .. 158 : Sbas(n) \in 0 .. 200
        BY DEF Sbas
      <4>3. QED
        BY <3>2, <4>1, <4>2 DEF Svid
    <3>3. CASE Constellation(system, svids[part]) \notin {"GLONASS", "SBAS"}
      BY <2>3, <3>3 DEF Svid
    <3>4. QED
      BY <3>1, <3>2, <3>3
  <2>6. QED
    BY <2>3, <2>4, <2>5 DEF Satellite
<1>2. Len(svids) \in Nat
  BY LenProperties
<1>3. Pushed(system, svids, used, fcn) =
        [part \in 1 .. Len(svids) |-> satellite(part)]
  BY DEF Pushed
<1> HIDE DEF satellite
<1>4. [part \in 1 .. Len(svids) |-> satellite(part)] \in Seq(Satellite)
  BY <1>1, <1>2, IsASeq
<1>5. Len(Pushed(system, svids, used, fcn)) = Len(svids)
  BY <1>2, <1>3, <1>4
<1>6. ASSUME NEW part \in 1 .. Len(svids)
      PROVE  /\ satellite(part).number = svids[part]
             /\ satellite(part).used => svids[part] \in used
  BY DEF satellite
<1>7. QED
  BY <1>3, <1>4, <1>5, <1>6

(* A report is of satellites of the lists, as many as there is room for.   *)
LEMMA ReportFits ==
  ASSUME NEW lists \in [SystemSet -> Seq(Satellite)]
  PROVE  Report(lists) \in Seq(Satellite) /\ Len(Report(lists)) <= SVS_COUNT
<1>1. SVS_COUNT \in Nat \ {0}
  BY SizesAssumption
<1>2. AllOf(lists) \in Seq(Satellite)
  BY SystemsAre, ConcatProperties DEF AllOf
<1> DEFINE all == AllOf(lists)
<1>3. Len(all) \in Nat
  BY <1>2, LenProperties
<1> HIDE DEF all
<1>4. CASE Len(all) > SVS_COUNT
  <2>1. \A j \in 1 .. SVS_COUNT : all[j] \in Satellite
    BY <1>1, <1>2, <1>3, <1>4, ElementOfSeq DEF all
  <2>2. /\ SubSeq(all, 1, SVS_COUNT) \in Seq(Satellite)
        /\ Len(SubSeq(all, 1, SVS_COUNT)) = SVS_COUNT
    BY <1>1, <2>1, SubSeqProperties
  <2>3. QED
    BY <1>1, <1>4, <2>2 DEF Report, all
<1>5. CASE Len(all) <= SVS_COUNT
  BY <1>1, <1>2, <1>3, <1>5 DEF Report, all
<1>6. QED
  BY <1>1, <1>3, <1>4, <1>5

-----------------------------------------------------------------------------
(* A group on its way.                                                     *)

Group(system, svids) == [system |-> system, svids |-> svids]

(* Where the part of a group ends that its first k sentences describe.     *)
PartEnd(svids, total, k) == IF k = total THEN Len(svids) ELSE k * PerSentence

(* A group of n satellites has a sentence for each PerSentence of them:    *)
(* all but the last are full.                                              *)
LEMMA SentencesHold ==
  ASSUME NEW n \in Nat \ {0}
  PROVE  LET total == (n + PerSentence - 1) \div PerSentence
         IN /\ total \in Nat \ {0}
            /\ (total - 1) * PerSentence <= n
            /\ \A k \in Nat : k < total => k * PerSentence <= n
<1> DEFINE total == (n + PerSentence - 1) \div PerSentence
<1>1. PerSentence \in Nat \ {0}
  BY SizesAssumption
<1>2. /\ total \in Int
      /\ total * PerSentence <= n + PerSentence - 1
      /\ n + PerSentence - 1 < total * PerSentence + PerSentence
  BY <1>1
<1> HIDE DEF total
<1>3. total >= 1
  BY <1>1, <1>2
<1>4. ASSUME NEW k \in Nat, k < total
      PROVE  k * PerSentence <= n
  BY <1>1, <1>2, <1>4
<1>5. (total - 1) * PerSentence <= n
  BY <1>2, <1>3, <1>4
<1>6. QED
  BY <1>2, <1>3, <1>4, <1>5 DEF total

(* The sentences of a group are in order and cut its numbers into adjacent *)
(* parts.                                                                  *)
LEMMA SentencesGive ==
  ASSUME NEW system \in SystemSet, NEW svids \in Seq(NumbersOf(system)),
         NEW all, all = SentencesOf(Group(system, svids))
  PROVE  /\ all \in Seq(Sentence) /\ Len(all) \in Nat \ {0}
         /\ \A k \in 1 .. Len(all) :
              /\ all[k].system = system /\ all[k].idx = k
              /\ all[k].svids \in Seq(NumbersOf(system))
         /\ \A k \in 1 .. Len(all) :
              /\ (k - 1) * PerSentence \in 0 .. Len(svids)
              /\ PartEnd(svids, Len(all), k) \in
                   (k - 1) * PerSentence .. Len(svids)
              /\ all[k].svids = SubSeq(svids, (k - 1) * PerSentence + 1,
                                       PartEnd(svids, Len(all), k))
              /\ Len(all[k].svids) = PartEnd(svids, Len(all), k)
                                     - (k - 1) * PerSentence
<1> DEFINE n == Len(svids)
           total == IF svids = <<>> THEN 1
                    ELSE (n + PerSentence - 1) \div PerSentence
           sentence(k) ==
             [system |-> system, sentences |-> total, idx |-> k, num |-> n,
              svids |-> SubSeq(svids, (k - 1) * PerSentence + 1,
                               IF k = total THEN n ELSE k * PerSentence)]
<1>1. PerSentence \in Nat \ {0} /\ n \in Nat
  BY SizesAssumption, LenProperties
<1>2. all = [k \in 1 .. total |-> sentence(k)]
  BY DEF SentencesOf, Group
<1>3. /\ total \in Nat \ {0}
      /\ (total - 1) * PerSentence <= n
      /\ \A k \in Nat : k < total => k * PerSentence <= n
  <2>1. CASE svids = <<>>
    <3>1. total = 1
      BY <2>1
    <3>2. \A k \in Nat : k < 1 => k * PerSentence = 0
      BY <1>1
    <3>3. (1 - 1) * PerSentence = 0
      BY <1>1
    <3>4. QED
      BY <1>1, <3>1, <3>2, <3>3
  <2>2. CASE svids # <<>>
    <3>1. n \in Nat \ {0}
      BY <2>2, EmptySeq
    <3>2. total = (n + PerSentence - 1) \div PerSentence
      BY <2>2
    <3> HIDE DEF total
    <3>3. QED
      BY <3>1, <3>2, SentencesHold
  <2>3. QED
    BY <2>1, <2>2
<1>4. ASSUME NEW k \in 1 .. total
      PROVE  LET from == (k - 1) * PerSentence
                 to == IF k = total THEN n ELSE k * PerSentence
             IN /\ from \in 0 .. n /\ to \in from .. n
                /\ SubSeq(svids, from + 1, to) \in Seq(NumbersOf(system))
                /\ Len(SubSeq(svids, from + 1, to)) = to - from
  <2> DEFINE from == (k - 1) * PerSentence
             to == IF k = total THEN n ELSE k * PerSentence
  <2> HIDE DEF n, total
  <2>1. from \in Nat /\ k * PerSentence = from + PerSentence
    BY <1>1, <1>3
  <2>2. from <= n
    BY <1>1, <1>3
  <2>3. to \in from .. n
    <3>1. CASE k = total
      BY <1>1, <2>1, <2>2, <3>1
    <3>2. CASE k # total
      <4>1. k < total /\ k \in Nat
        BY <1>3, <3>2
      <4>2. k * PerSentence <= n
        BY <1>3, <4>1
      <4>3. QED
        BY <1>1, <2>1, <3>2, <4>2
    <3>3. QED
      BY <3>1, <3>2
  <2> HIDE DEF from, to
  <2>4. \A j \in from + 1 .. to : svids[j] \in NumbersOf(system)
    BY <1>1, <2>1, <2>3, ElementOfSeq DEF n
  <2>5. from + 1 \in Int /\ to \in Int
    BY <1>1, <2>1, <2>3
  <2>6. /\ SubSeq(svids, from + 1, to) \in Seq(NumbersOf(system))
        /\ Len(SubSeq(svids, from + 1, to)) = to - from
    BY <1>1, <2>1, <2>3, <2>4, <2>5, SubSeqProperties
  <2>7. QED
    BY <2>1, <2>2, <2>3, <2>6, <1>1 DEF from, to
<1>5. ASSUME NEW k \in 1 .. total
      PROVE  sentence(k) \in Sentence
  <2> DEFINE part == sentence(k).svids
  <2>1. part \in Seq(NumbersOf(system))
    BY <1>4
  <2>2. NumbersOf(system) \subseteq 0 .. 200
    BY DEF NumbersOf
  <2> HIDE DEF part
  <2>3. part \in Seq(0 .. 200)
    BY <2>1, <2>2, SeqMonotonic
  <2> USE DEF part
  <2>4. k \in Nat \ {0} /\ total \in Nat
    BY <1>3
  <2>5. QED
    BY <1>1, <2>3, <2>4 DEF Sentence
<1>6. all \in Seq(Sentence)
  <2> HIDE DEF sentence, total
  <2>1. QED
    BY <1>2, <1>3, <1>5, IsASeq
<1>7. Len(all) = total
  <2> HIDE DEF sentence, total
  <2>1. QED
    BY <1>2, <1>3, <1>6
<1>8. ASSUME NEW k \in 1 .. total
      PROVE  /\ all[k].system = system /\ all[k].idx = k
             /\ all[k].svids = SubSeq(svids, (k - 1) * PerSentence + 1,
                                      PartEnd(svids, Len(all), k))
  <2> HIDE DEF sentence, total
  <2>1. all[k] = sentence(k)
    BY <1>2
  <2>2. /\ sentence(k).system = system /\ sentence(k).idx = k
        /\ sentence(k).svids = SubSeq(svids, (k - 1) * PerSentence + 1,
                                      IF k = total THEN n ELSE k * PerSentence)
    BY DEF sentence
  <2>3. QED
    BY <1>7, <2>1, <2>2 DEF PartEnd
<1>9. QED
  <2> HIDE DEF total, sentence
  <2>1. ASSUME NEW k \in 1 .. Len(all)
        PROVE  /\ (k - 1) * PerSentence \in 0 .. Len(svids)
               /\ PartEnd(svids, Len(all), k) \in
                    (k - 1) * PerSentence .. Len(svids)
               /\ all[k].svids \in Seq(NumbersOf(system))
               /\ Len(all[k].svids) = PartEnd(svids, Len(all), k)
                                      - (k - 1) * PerSentence
    BY <1>4, <1>7, <1>8 DEF PartEnd
  <2>2. QED
    BY <1>3, <1>6, <1>7, <1>8, <2>1

-----------------------------------------------------------------------------
(* What a GSV sentence does to the lists.                                  *)

(* The sentence at hand has a type and the numbers of its system.          *)
LEMMA SentenceAtHand ==
  ASSUME SatelliteTypes, incoming # <<>>
  PROVE  /\ Head(incoming) \in Sentence
         /\ Head(incoming).system \in SystemSet
         /\ Head(incoming).idx \in Nat \ {0}
         /\ Head(incoming).svids \in Seq(NumbersOf(Head(incoming).system))
         /\ Tail(incoming) \in Seq(Sentence)
         /\ Len(Tail(incoming)) = Len(incoming) - 1
         /\ \A j \in 1 .. Len(Tail(incoming)) :
              /\ j + 1 \in 1 .. Len(incoming)
              /\ Tail(incoming)[j] = incoming[j + 1]
<1>1. incoming \in Seq(Sentence)
  BY DEF SatelliteTypes
<1>2. /\ Head(incoming) \in Sentence
      /\ Tail(incoming) \in Seq(Sentence)
      /\ Len(Tail(incoming)) = Len(incoming) - 1
      /\ \A j \in 1 .. Len(Tail(incoming)) : Tail(incoming)[j] = incoming[j + 1]
  BY <1>1, HeadTailProperties
<1>3. /\ 1 \in 1 .. Len(incoming) /\ Head(incoming) = incoming[1]
      /\ Len(incoming) \in Nat
  BY <1>1, EmptySeq
<1>4. Head(incoming).system \in SystemSet /\ Head(incoming).idx \in Nat \ {0}
  BY <1>2 DEF Sentence
<1>5. Head(incoming).svids \in Seq(NumbersOf(Head(incoming).system))
  BY <1>3 DEF SatelliteTypes
<1>6. QED
  BY <1>2, <1>3, <1>4, <1>5

(* The satellites of a sentence that there is room for are of its system.  *)
LEMMA PartsGive ==
  ASSUME NEW gsv, gsv.idx \in Nat \ {0}, NEW S, gsv.svids \in Seq(S)
  PROVE  Parts(gsv) \in Seq(S)
<1> DEFINE room == SVS_COUNT - (gsv.idx - 1) * PerSentence
<1>1. room \in Int /\ Len(gsv.svids) \in Nat
  BY SizesAssumption, LenProperties
<1> HIDE DEF room
<1>2. CASE Len(gsv.svids) > room
  <2>1. \A j \in 1 .. room : gsv.svids[j] \in S
    BY <1>1, <1>2, ElementOfSeq
  <2>2. SubSeq(gsv.svids, 1, room) \in Seq(S)
    BY <1>1, <2>1, SubSeqProperties
  <2>3. QED
    BY <1>1, <1>2, <2>2 DEF Parts, room
<1>3. CASE Len(gsv.svids) <= room
  BY <1>3 DEF Parts, room
<1>4. QED
  BY <1>1, <1>2, <1>3

(* Opening a group clears lists and keeps the others.                      *)
LEMMA OpenedGives ==
  ASSUME SatelliteTypes, NEW gsv, gsv.idx \in Nat \ {0},
         gsv.system \in SystemSet
  PROVE  LET opened == Opened(gsv)
         IN /\ opened.lists \in [SystemSet -> Seq(Satellite)]
            /\ opened.used \in [SystemSet -> SUBSET Nat]
            /\ opened.fcn \in 0 .. 105
            /\ \A system \in SystemSet :
                 /\ opened.used[system] \subseteq mSatellitesUsedInFix[system]
                 /\ system \notin Excluded =>
                      opened.lists[system] =
                        IF gsv.idx = 1 /\ system = gsv.system THEN <<>>
                        ELSE mSatellites[system]
                 /\ gsv.idx = 1 /\ system = gsv.system =>
                      opened.lists[system] = <<>>
                 /\ gsv.idx # 1 => opened.lists[system] = mSatellites[system]
<1> USE DEF SatelliteTypes
<1>1. CASE gsv.idx # 1
  BY <1>1 DEF Opened
<1>2. CASE gsv.idx = 1
  <2>1. /\ <<>> \in Seq(Satellite) /\ {} \in SUBSET Nat
        /\ 93 \in 0 .. 105
    BY EmptySeq
  <2>2. /\ Opened(gsv).lists =
             Cleared(mSatellites, Excluded \union {gsv.system}, <<>>)
        /\ Opened(gsv).used = Cleared(mSatellitesUsedInFix, Excluded, {})
        /\ Opened(gsv).fcn \in {93, glonass_fcn}
    BY <1>2 DEF Opened
  <2> HIDE DEF Opened
  <2>3. QED
    BY <1>2, <2>1, <2>2 DEF Cleared
<1>3. QED
  BY <1>1, <1>2

(* A sentence that is not ignored adds what is pushed to the list of its   *)
(* system, and takes used ones away.                                       *)
LEMMA SentenceGives ==
  ASSUME SatelliteTypes, xxGSV,
         ~(Head(incoming).idx = 1 /\ Ignored(Head(incoming).system))
  PROVE  LET gsv == Head(incoming)
             opened == Opened(gsv)
             parts == Parts(gsv)
             pushed == Pushed(gsv.system, parts, opened.used[gsv.system],
                              opened.fcn)
         IN /\ pushed \in Seq(Satellite) /\ Len(pushed) = Len(parts)
            /\ \A part \in 1 .. Len(parts) :
                 /\ pushed[part].number = parts[part]
                 /\ pushed[part].used =>
                      parts[part] \in mSatellitesUsedInFix[gsv.system]
            /\ mSatellites' = [opened.lists EXCEPT ![gsv.system] = @ \o pushed]
            /\ mSatellites' \in [SystemSet -> Seq(Satellite)]
            /\ mSatellitesUsedInFix' \in [SystemSet -> SUBSET Nat]
            /\ \A system \in SystemSet :
                 mSatellitesUsedInFix'[system] \subseteq
                   mSatellitesUsedInFix[system]
            /\ glonass_fcn' \in 0 .. 105
            /\ mSvStatus' \in {mSvStatus, Report(mSatellites')}
<1> DEFINE gsv == Head(incoming)
           opened == Opened(gsv)
           parts == Parts(gsv)
           pushed == Pushed(gsv.system, parts, opened.used[gsv.system],
                            opened.fcn)
<1>1. /\ gsv.system \in SystemSet /\ gsv.idx \in Nat \ {0}
      /\ parts \in Seq(NumbersOf(gsv.system)) /\ Len(parts) \in Nat
  BY SentenceAtHand, PartsGive, LenProperties DEF xxGSV
<1>2. /\ opened.lists \in [SystemSet -> Seq(Satellite)]
      /\ opened.used \in [SystemSet -> SUBSET Nat]
      /\ opened.fcn \in 0 .. 105
      /\ \A system \in SystemSet :
           opened.used[system] \subseteq mSatellitesUsedInFix[system]
  BY <1>1, OpenedGives
<1>3. /\ mSatellites' = [opened.lists EXCEPT ![gsv.system] = @ \o pushed]
      /\ mSatellitesUsedInFix' =
           [opened.used EXCEPT ![gsv.system] = @ \ ToSet(parts)]
      /\ glonass_fcn' = IF gsv.system = "GLONASS"
                        THEN Channel(opened.fcn, parts, Len(parts) + 1)
                        ELSE opened.fcn
      /\ mSvStatus' = IF gsv.sentences = gsv.idx
                      THEN Report(mSatellites') ELSE mSvStatus
  BY DEF xxGSV
<1> HIDE DEF gsv, opened, parts
<1>4. /\ pushed \in Seq(Satellite) /\ Len(pushed) = Len(parts)
      /\ \A part \in 1 .. Len(parts) :
           /\ pushed[part].number = parts[part]
           /\ pushed[part].used => parts[part] \in opened.used[gsv.system]
  <2> DEFINE system == gsv.system
             used == opened.used[gsv.system]
             fcn == opened.fcn
  <2>1. system \in SystemSet /\ parts \in Seq(NumbersOf(system))
        /\ fcn \in 0 .. 105
    BY <1>1, <1>2
  <2> HIDE DEF system, used, fcn
  <2>2. /\ Pushed(system, parts, used, fcn) \in Seq(Satellite)
        /\ Len(Pushed(system, parts, used, fcn)) = Len(parts)
        /\ \A part \in 1 .. Len(parts) :
             /\ Pushed(system, parts, used, fcn)[part].number = parts[part]
             /\ Pushed(system, parts, used, fcn)[part].used => parts[part] \in used
    BY <2>1, PushedGives
  <2>3. QED
    BY <2>2 DEF system, used, fcn
<1> HIDE DEF pushed
<1>5. mSatellites' \in [SystemSet -> Seq(Satellite)]
  BY <1>1, <1>2, <1>3, <1>4, ConcatProperties
<1>6. /\ mSatellitesUsedInFix' \in [SystemSet -> SUBSET Nat]
      /\ \A system \in SystemSet :
           mSatellitesUsedInFix'[system] \subseteq mSatellitesUsedInFix[system]
  BY <1>1, <1>2, <1>3
<1>7. glonass_fcn' \in 0 .. 105
  <2>1. Len(parts) + 1 \in Nat
    BY <1>1
  <2> DEFINE fcn == opened.fcn
  <2>4. fcn \in 0 .. 105
    BY <1>2
  <2> HIDE DEF fcn
  <2>5. fcn \in Nat
    BY <2>4
  <2> USE DEF fcn
  <2>2. Channel(opened.fcn, parts, Len(parts) + 1) \in 0 .. 105
    BY <2>1, <2>5, ChannelInRange
  <2>3. QED
    BY <1>2, <1>3, <2>2
<1>8. QED
  BY <1>1, <1>2, <1>3, <1>4, <1>5, <1>6, <1>7 DEF gsv, opened, parts, pushed

(* A group that a receiver may send is a system and numbers of it.         *)
LEMMA GroupsAre ==
  ASSUME NEW group \in Groups
  PROVE  /\ group = Group(group.system, group.svids)
         /\ group.system \in SystemSet
         /\ group.svids \in Seq(NumbersOf(group.system))
<1>1. PICK system \in SystemSet :
        group \in [system : {system}, svids : Seq(NumbersOf(system))]
  BY GroupsAssumption
<1>2. QED
  BY <1>1 DEF Group

(* Every step keeps the types of what the handlers hold.                   *)
LEMMA SatelliteTypesStep ==
  ASSUME SatelliteTypes, SatellitesNext
  PROVE  SatelliteTypes'
<1> USE DEF SatelliteTypes
<1>1. ASSUME NEW group \in Groups, Describe(group)
      PROVE  SatelliteTypes'
  <2> DEFINE all == SentencesOf(Group(group.system, group.svids))
  <2>1. incoming' = all
    BY <1>1, GroupsAre DEF Describe
  <2>2. all \in Seq(Sentence) /\ \A k \in 1 .. Len(all) :
          all[k].svids \in Seq(NumbersOf(all[k].system))
    <3> DEFINE system == group.system
               svids == group.svids
    <3>1. system \in SystemSet /\ svids \in Seq(NumbersOf(system))
      BY GroupsAre
    <3> HIDE DEF system, svids
    <3> DEFINE sentences == SentencesOf(Group(system, svids))
    <3>0. sentences = SentencesOf(Group(system, svids))
      OBVIOUS
    <3> HIDE DEF sentences
    <3>2. /\ sentences \in Seq(Sentence) /\ Len(sentences) \in Nat \ {0}
          /\ \A k \in 1 .. Len(sentences) :
               /\ sentences[k].system = system /\ sentences[k].idx = k
               /\ sentences[k].svids \in Seq(NumbersOf(system))
      BY <3>0, <3>1, SentencesGive
    <3>3. \A k \in 1 .. Len(sentences) :
            sentences[k].svids \in Seq(NumbersOf(sentences[k].system))
      BY <3>2
    <3>4. QED
      BY <3>2, <3>3 DEF system, svids, sentences
  <2> HIDE DEF all
  <2>3. QED
    BY <1>1, <2>1, <2>2 DEF Describe
<1>2. CASE Lose
  BY <1>2, SentenceAtHand DEF Lose
<1>3. CASE xxGSV
  <2>1. /\ lost' = lost
        /\ incoming' \in Seq(Sentence)
        /\ \A j \in 1 .. Len(incoming') :
             incoming'[j].svids \in Seq(NumbersOf(incoming'[j].system))
    BY <1>3, SentenceAtHand DEF xxGSV
  <2>2. CASE Head(incoming).idx = 1 /\ Ignored(Head(incoming).system)
    <3>1. /\ mSatellites' = Cleared(mSatellites, Excluded, <<>>)
          /\ mSatellitesUsedInFix' = Cleared(mSatellitesUsedInFix, Excluded, {})
          /\ glonass_fcn' = glonass_fcn /\ mSvStatus' = mSvStatus
      BY <1>3, <2>2 DEF xxGSV
    <3>2. <<>> \in Seq(Satellite) /\ {} \in SUBSET Nat
      BY EmptySeq
    <3>3. QED
      BY <2>1, <3>1, <3>2 DEF Cleared
  <2>3. CASE ~(Head(incoming).idx = 1 /\ Ignored(Head(incoming).system))
    <3>1. /\ mSatellites' \in [SystemSet -> Seq(Satellite)]
          /\ mSatellitesUsedInFix' \in [SystemSet -> SUBSET Nat]
          /\ glonass_fcn' \in 0 .. 105
          /\ mSvStatus' \in {mSvStatus, Report(mSatellites')}
      BY <1>3, <2>3, SentenceGives
    <3>2. mSvStatus' \in Seq(Satellite) /\ Len(mSvStatus') <= SVS_COUNT
      BY <3>1, ReportFits
    <3>3. QED
      BY <2>1, <3>1, <3>2
  <2>4. QED
    BY <2>2, <2>3
<1>4. ASSUME NEW gsa \in UsedGroups, GxGSA(gsa)
      PROVE  SatelliteTypes'
  <2>1. PICK id \in SystemIds(gsa) : mSatellitesUsedInFix' = UsedOf(gsa, id)
    BY <1>4 DEF GxGSA
  <2>2. gsa.svids \in SUBSET Nat
    BY GroupsAssumption
  <2>3. mSatellitesUsedInFix' \in [SystemSet -> SUBSET Nat]
    BY <2>1, <2>2 DEF UsedOf
  <2>4. QED
    BY <1>4, <2>3 DEF GxGSA
<1>5. QED
  BY <1>1, <1>2, <1>3, <1>4 DEF SatellitesNext

(* The types of the satellites hold throughout.                            *)
LEMMA SatelliteTypesHold == Spec => []SatelliteTypes
<1>1. Init => SatelliteTypes
  <2>1. <<>> \in Seq(Satellite) /\ <<>> \in Seq(Sentence) /\ Len(<<>>) = 0
    BY EmptySeq
  <2>2. QED
    BY <2>1, SizesAssumption DEF Init, SatellitesInit, SatelliteTypes, NoneOf
<1>2. SatelliteTypes /\ [Next]_vars => SatelliteTypes'
  <2>1. SatelliteTypes /\ UNCHANGED satelliteVars => SatelliteTypes'
    BY DEF SatelliteTypes, satelliteVars
  <2>2. QED
    BY <2>1, SatelliteTypesStep DEF Next, vars
<1>3. QED
  BY <1>1, <1>2, PTL DEF Spec

(* The report never holds more than there is room for, and every satellite *)
(* has a constellation and a number that Android can hold.                 *)
THEOREM SatellitesTypeCorrect == Spec => []SatellitesTypeOK
<1>1. SatelliteTypes => SatellitesTypeOK
  <2> SUFFICES ASSUME SatelliteTypes
               PROVE  SatellitesTypeOK
    OBVIOUS
  <2>1. ASSUME NEW system \in SystemSet, NEW j \in DOMAIN mSatellites[system]
        PROVE  mSatellites[system][j] \in Satellite
    <3>1. mSatellites[system] \in Seq(Satellite)
      BY DEF SatelliteTypes
    <3>2. QED
      BY <3>1, ElementOfSeq
  <2>2. QED
    BY <2>1 DEF SatelliteTypes, SatellitesTypeOK, Satellite, Constellations
<1>2. QED
  BY <1>1, SatelliteTypesHold, PTL

-----------------------------------------------------------------------------
(* The used ones.                                                          *)

(* What a system has of used ones was in that GSA: GSV only erases.        *)
UsedAreOfLastGsa ==
    /\ lastGsa \in [1 .. 4 -> [system : SystemSet, svids : SUBSET Nat]]
    /\ \A system \in SystemSet : \A number \in mSatellitesUsedInFix[system] :
         UsedByLastGsa(system, number)

(* Every step keeps that, whatever a GSA has in its last field.            *)
LEMMA UsedStep ==
  ASSUME SatelliteTypes, UsedAreOfLastGsa, SatellitesNext
  PROVE  UsedAreOfLastGsa'
<1> USE DEF UsedAreOfLastGsa
<1>1. CASE Lose \/ \E group \in Groups : Describe(group)
  BY <1>1 DEF Lose, Describe, UsedByLastGsa, configVars
<1>2. CASE xxGSV
  <2>1. UNCHANGED <<lastGsa, mGsaFieldsNumber>>
    BY <1>2 DEF xxGSV, configVars
  <2>2. \A system \in SystemSet :
          mSatellitesUsedInFix'[system] \subseteq mSatellitesUsedInFix[system]
    <3>1. CASE Head(incoming).idx = 1 /\ Ignored(Head(incoming).system)
      <4>1. mSatellitesUsedInFix' = Cleared(mSatellitesUsedInFix, Excluded, {})
        BY <1>2, <3>1 DEF xxGSV
      <4>2. QED
        BY <4>1 DEF Cleared
    <3>2. CASE ~(Head(incoming).idx = 1 /\ Ignored(Head(incoming).system))
      BY <1>2, <3>2, SentenceGives
    <3>3. QED
      BY <3>1, <3>2
  <2>3. QED
    BY <2>1, <2>2 DEF UsedByLastGsa
<1>3. ASSUME NEW gsa \in UsedGroups, GxGSA(gsa)
      PROVE  UsedAreOfLastGsa'
  <2>1. PICK id \in SystemIds(gsa) :
          /\ mSatellitesUsedInFix' = UsedOf(gsa, id)
          /\ lastGsa' = IF id \in 1 .. 4 THEN [lastGsa EXCEPT ![id] = gsa]
                        ELSE lastGsa
    BY <1>3 DEF GxGSA
  <2>2. gsa \in [system : SystemSet, svids : SUBSET Nat]
    BY GroupsAssumption
  <2>3. mGsaFieldsNumber' = mGsaFieldsNumber
    BY <1>3 DEF GxGSA, configVars
  <2>4. CASE id \notin 1 .. 4
    BY <2>1, <2>3, <2>4 DEF UsedOf, UsedByLastGsa
  <2>5. CASE id \in 1 .. 4
    <3> DEFINE own == Systems[id]
    <3>1. /\ mSatellitesUsedInFix' = [mSatellitesUsedInFix EXCEPT ![own] = gsa.svids]
          /\ lastGsa' = [lastGsa EXCEPT ![id] = gsa]
      BY <2>1, <2>5 DEF UsedOf
    <3>2. mGsaFieldsNumber = gsaFieldsNumberNMEAv41 => gsa.system = own
      BY <2>1 DEF SystemIds
    <3>3. own = Systems[id]
      OBVIOUS
    <3> HIDE DEF own
    <3>4. lastGsa' \in [1 .. 4 -> [system : SystemSet, svids : SUBSET Nat]]
      BY <2>2, <3>1
    <3>5. lastGsa'[id] = gsa
      BY <2>5, <3>1
    <3>6. ASSUME NEW system \in SystemSet,
                 NEW number \in mSatellitesUsedInFix'[system]
          PROVE  UsedByLastGsa(system, number)'
      <4>1. CASE system = own
        <5>1. number \in gsa.svids
          BY <3>1, <3>6, <4>1 DEF SatelliteTypes
        <5>2. QED
          BY <2>3, <2>5, <3>2, <3>3, <3>5, <4>1, <5>1 DEF UsedByLastGsa
      <4>2. CASE system # own
        <5>1. number \in mSatellitesUsedInFix[system]
          BY <3>1, <3>6, <4>2 DEF SatelliteTypes
        <5>2. PICK k \in 1 .. 4 :
                /\ Systems[k] = system
                /\ number \in lastGsa[k].svids
                /\ mGsaFieldsNumber = gsaFieldsNumberNMEAv41 =>
                     lastGsa[k].system = system
          BY <5>1 DEF UsedByLastGsa
        <5>3. k # id
          BY <3>3, <4>2, <5>2
        <5>4. lastGsa'[k] = lastGsa[k]
          BY <3>1, <5>3
        <5>5. QED
          BY <2>3, <5>2, <5>4 DEF UsedByLastGsa
      <4>3. QED
        BY <4>1, <4>2
    <3>7. QED
      BY <3>4, <3>6
  <2>6. QED
    BY <2>4, <2>5
<1>4. QED
  BY <1>1, <1>2, <1>3 DEF SatellitesNext

(* A sentence marks as used what the last GSA taken for its system used.   *)
LEMMA SentenceMarksUsed ==
  ASSUME SatelliteTypes, UsedAreOfLastGsa, xxGSV
  PROVE  LET gsv == Head(incoming)
             old == IF gsv.idx = 1 THEN 0 ELSE Len(mSatellites[gsv.system])
             list == mSatellites'[gsv.system]
         IN \A i \in old + 1 .. Len(list) :
              list[i].used => UsedByLastGsa(gsv.system, list[i].number)
<1> DEFINE gsv == Head(incoming)
           old == IF gsv.idx = 1 THEN 0 ELSE Len(mSatellites[gsv.system])
           list == mSatellites'[gsv.system]
<1>1. gsv.system \in SystemSet /\ gsv.idx \in Nat \ {0}
  BY SentenceAtHand DEF xxGSV
<1>2. CASE gsv.idx = 1 /\ Ignored(gsv.system)
  <2>1. mSatellites' = Cleared(mSatellites, Excluded, <<>>)
    BY <1>2 DEF xxGSV
  <2>2. list = <<>> /\ old = 0
    BY <1>1, <1>2, <2>1 DEF Cleared, Ignored
  <2>3. Len(list) = 0
    BY <2>2, EmptySeq
  <2> HIDE DEF list, old
  <2>4. QED
    BY <2>2, <2>3 DEF list, old
<1>3. CASE ~(gsv.idx = 1 /\ Ignored(gsv.system))
  <2> DEFINE opened == Opened(gsv)
             parts == Parts(gsv)
             pushed == Pushed(gsv.system, parts, opened.used[gsv.system],
                              opened.fcn)
             before == opened.lists[gsv.system]
  <2>1. /\ pushed \in Seq(Satellite) /\ Len(pushed) = Len(parts)
        /\ \A part \in 1 .. Len(parts) :
             /\ pushed[part].number = parts[part]
             /\ pushed[part].used =>
                  parts[part] \in mSatellitesUsedInFix[gsv.system]
        /\ mSatellites' = [opened.lists EXCEPT ![gsv.system] = @ \o pushed]
    BY <1>3, SentenceGives
  <2>2. opened.lists \in [SystemSet -> Seq(Satellite)]
    BY <1>1, OpenedGives
  <2>3. before = IF gsv.idx = 1 THEN <<>> ELSE mSatellites[gsv.system]
    BY <1>1, OpenedGives
  <2> HIDE DEF gsv, opened, parts, pushed
  <2>4. list = before \o pushed /\ before \in Seq(Satellite)
    BY <1>1, <2>1, <2>2
  <2>5. Len(before) = old
    BY <2>3, EmptySeq
  <2> HIDE DEF list, old, before
  <2>6. old \in Nat
    BY <2>4, <2>5, LenProperties
  <2>7. /\ Len(list) = old + Len(pushed)
        /\ \A i \in 1 .. old + Len(pushed) :
             list[i] = IF i <= old THEN before[i] ELSE pushed[i - old]
    <3>1. pushed \in Seq(Satellite)
      BY <2>1
    <3>2. /\ Len(before \o pushed) = Len(before) + Len(pushed)
          /\ \A i \in 1 .. Len(before) + Len(pushed) :
               (before \o pushed)[i] = IF i <= Len(before) THEN before[i]
                                       ELSE pushed[i - Len(before)]
      BY <2>4, <3>1, ConcatProperties
    <3>3. QED
      BY <2>4, <2>5, <3>2
  <2>8. ASSUME NEW i \in old + 1 .. Len(list), list[i].used
        PROVE  UsedByLastGsa(gsv.system, list[i].number)
    <3>1. /\ Len(pushed) \in Nat
          /\ i - old \in 1 .. Len(pushed) /\ list[i] = pushed[i - old]
      BY <2>1, <2>6, <2>7, LenProperties
    <3>2. list[i].number \in mSatellitesUsedInFix[gsv.system]
      BY <2>1, <2>8, <3>1
    <3>3. QED
      BY <1>1, <3>2 DEF UsedAreOfLastGsa
  <2>9. QED
    BY <2>8 DEF gsv, list, old
<1>4. QED
  BY <1>2, <1>3

(* A satellite is marked as used only when the last GSA taken for its      *)
(* system used it, whatever sentences are lost: in NMEA 4.1 a GSA of the   *)
(* system, in NMEA 2.3 one with its digit in the dilution of precision.    *)
THEOREM UsedIsOfItsFix == Spec => UsedIsOfLastFix
<1>1. Init => UsedAreOfLastGsa
  <2> SUFFICES ASSUME Init
               PROVE  UsedAreOfLastGsa
    OBVIOUS
  <2>1. \A id \in 1 .. 4 : Systems[id] \in SystemSet
    BY DEF Systems, SystemSet
  <2>2. lastGsa \in [1 .. 4 -> [system : SystemSet, svids : SUBSET Nat]]
    BY <2>1 DEF Init, SatellitesInit
  <2>3. \A system \in SystemSet : mSatellitesUsedInFix[system] = {}
    BY DEF Init, SatellitesInit, NoneOf
  <2>4. QED
    BY <2>2, <2>3 DEF UsedAreOfLastGsa
<1>2. UsedAreOfLastGsa /\ SatelliteTypes /\ [Next]_vars => UsedAreOfLastGsa'
  <2>1. UsedAreOfLastGsa /\ UNCHANGED satelliteVars => UsedAreOfLastGsa'
    BY DEF UsedAreOfLastGsa, UsedByLastGsa, satelliteVars, configVars
  <2>2. QED
    BY <2>1, UsedStep DEF Next, vars
<1> DEFINE Marked ==
      incoming # <<>> /\ lost' = lost =>
         LET gsv == Head(incoming)
             old == IF gsv.idx = 1 THEN 0 ELSE Len(mSatellites[gsv.system])
             list == mSatellites'[gsv.system]
         IN \A i \in old + 1 .. Len(list) :
              list[i].used => UsedByLastGsa(gsv.system, list[i].number)
<1>3. UsedAreOfLastGsa /\ SatelliteTypes /\ [Next]_vars => [Marked]_incoming
  <2> SUFFICES ASSUME UsedAreOfLastGsa, SatelliteTypes, Next,
                      incoming' # incoming
               PROVE  Marked
    BY DEF vars, satelliteVars
  <2>1. SatellitesNext
    BY DEF Next, satelliteVars
  <2>2. CASE xxGSV
    BY <2>2, SentenceMarksUsed
  <2>3. CASE \E group \in Groups : Describe(group)
    BY <2>3 DEF Describe
  <2>4. CASE Lose
    BY <2>4 DEF Lose, SatelliteTypes
  <2>5. CASE \E gsa \in UsedGroups : GxGSA(gsa)
    BY <2>5 DEF GxGSA
  <2>6. QED
    BY <2>1, <2>2, <2>3, <2>4, <2>5 DEF SatellitesNext
<1>4. QED
  BY <1>1, <1>2, <1>3, SatelliteTypesHold, PTL DEF Spec, UsedIsOfLastFix

-----------------------------------------------------------------------------
(* The groups.                                                             *)

(* The numbers of a list.                                                  *)
Numbers(list) == [j \in DOMAIN list |-> list[j].number]

(* The history has numbers of its systems, no more than there is room for. *)
LastGroupTypes ==
    /\ lastGroup \in [SystemSet -> Seq(0 .. 200)]
    /\ \A system \in SystemSet :
         /\ lastGroup[system] \in Seq(NumbersOf(system))
         /\ Len(lastGroup[system]) <= SVS_COUNT

(* What is on its way is the rest of the last group of one system.         *)
RestOfGroup ==
    incoming # <<>> =>
        LET system == Head(incoming).system
            k == Head(incoming).idx
            all == SentencesOf(Group(system, lastGroup[system]))
        IN /\ k \in 1 .. Len(all)
           /\ Len(incoming) = Len(all) - k + 1
           /\ \A j \in 1 .. Len(incoming) : incoming[j] = all[k - 1 + j]

(* The list of a system in use is what the sentences handled so far        *)
(* described: all of its last group, or of a group on its way the whole    *)
(* sentences before.                                                       *)
ListsAgree ==
    \A system \in SystemSet \ Excluded :
        IF incoming # <<>> /\ Head(incoming).system = system
        THEN Head(incoming).idx = 1 \/
             Numbers(mSatellites[system]) =
               SubSeq(lastGroup[system], 1, (Head(incoming).idx - 1) * PerSentence)
        ELSE Numbers(mSatellites[system]) = lastGroup[system]

GroupsInv == LastGroupTypes /\ RestOfGroup /\ ListsAgree

(* A lost sentence leaves a gap in a list until its next group: what the   *)
(* lists hold is known while none is lost.                                 *)
UntilLost == LastGroupTypes /\ (lost = 0 => GroupsInv)
-----------------------------------------------------------------------------
(* The numbers of a list with satellites added are its numbers with theirs *)
(* added.                                                                  *)
LEMMA NumbersOfConcat ==
  ASSUME NEW list \in Seq(Satellite), NEW pushed \in Seq(Satellite),
         NEW svids \in Seq(0 .. 200), Len(pushed) = Len(svids),
         \A j \in 1 .. Len(svids) : pushed[j].number = svids[j]
  PROVE  /\ Numbers(list) \in Seq(0 .. 200)
         /\ Numbers(list \o pushed) = Numbers(list) \o svids
<1>1. ASSUME NEW s \in Seq(Satellite)
      PROVE  /\ Numbers(s) \in Seq(0 .. 200) /\ Len(Numbers(s)) = Len(s)
             /\ \A j \in 1 .. Len(s) : Numbers(s)[j] = s[j].number
  <2> DEFINE number(j) == s[j].number
  <2>1. Len(s) \in Nat /\ DOMAIN s = 1 .. Len(s)
    BY LenProperties
  <2>2. \A j \in 1 .. Len(s) : number(j) \in 0 .. 200
    <3>1. \A j \in 1 .. Len(s) : s[j] \in Satellite
      BY ElementOfSeq
    <3>2. QED
      BY <3>1 DEF Satellite
  <2>3. Numbers(s) = [j \in 1 .. Len(s) |-> number(j)]
    BY <2>1 DEF Numbers
  <2> HIDE DEF number
  <2>4. Numbers(s) \in Seq(0 .. 200)
    BY <2>1, <2>2, <2>3, IsASeq
  <2>5. Len(Numbers(s)) = Len(s)
    BY <2>1, <2>3, <2>4
  <2>6. QED
    BY <2>3, <2>4, <2>5 DEF number
<1>2. /\ list \o pushed \in Seq(Satellite)
      /\ Len(list \o pushed) = Len(list) + Len(pushed)
      /\ \A j \in 1 .. Len(list) + Len(pushed) :
           (list \o pushed)[j] = IF j <= Len(list) THEN list[j]
                                 ELSE pushed[j - Len(list)]
  BY ConcatProperties
<1>3. /\ Numbers(list) \o svids \in Seq(0 .. 200)
      /\ Len(Numbers(list) \o svids) = Len(list) + Len(svids)
      /\ \A j \in 1 .. Len(list) + Len(svids) :
           (Numbers(list) \o svids)[j] = IF j <= Len(list) THEN Numbers(list)[j]
                                         ELSE svids[j - Len(list)]
  <2>1. Numbers(list) \in Seq(0 .. 200) /\ Len(Numbers(list)) = Len(list)
    BY <1>1
  <2> DEFINE numbers == Numbers(list)
  <2> HIDE DEF numbers
  <2>2. numbers \in Seq(0 .. 200) /\ Len(numbers) = Len(list)
    BY <2>1 DEF numbers
  <2>3. /\ numbers \o svids \in Seq(0 .. 200)
        /\ Len(numbers \o svids) = Len(numbers) + Len(svids)
        /\ \A j \in 1 .. Len(numbers) + Len(svids) :
             (numbers \o svids)[j] = IF j <= Len(numbers) THEN numbers[j]
                                     ELSE svids[j - Len(numbers)]
    BY <2>2, ConcatProperties
  <2>4. QED
    BY <2>2, <2>3 DEF numbers
<1>4. Len(list) \in Nat /\ Len(svids) \in Nat
  BY LenProperties
<1>5. ASSUME NEW j \in 1 .. Len(list) + Len(svids)
      PROVE  Numbers(list \o pushed)[j] = (Numbers(list) \o svids)[j]
  <2>1. Numbers(list \o pushed)[j] = (list \o pushed)[j].number
    BY <1>1, <1>2
  <2>2. CASE j <= Len(list)
    <3>1. j \in 1 .. Len(list)
      BY <1>4, <2>2
    <3>2. Numbers(list)[j] = list[j].number
      BY <1>1, <3>1
    <3>3. QED
      BY <1>2, <1>3, <2>1, <2>2, <3>2
  <2>3. CASE ~(j <= Len(list))
    <3>1. j - Len(list) \in 1 .. Len(svids)
      BY <1>4, <2>3
    <3>2. QED
      BY <1>2, <1>3, <2>1, <2>3, <3>1
  <2>4. QED
    BY <2>2, <2>3
<1>6. /\ Numbers(list \o pushed) \in Seq(0 .. 200)
      /\ Len(Numbers(list \o pushed)) = Len(list) + Len(svids)
  BY <1>1, <1>2
<1>7. Numbers(list \o pushed) = Numbers(list) \o svids
  BY <1>3, <1>5, <1>6, SeqEqual
<1>8. QED
  BY <1>1, <1>7

(* The last group of a system is one that the receiver may send.           *)
LEMMA LastGroupStep ==
  ASSUME \A group \in Groups : Len(group.svids) <= SVS_COUNT,
         LastGroupTypes, SatellitesNext
  PROVE  LastGroupTypes'
<1>1. ASSUME NEW group \in Groups, Describe(group)
      PROVE  LastGroupTypes'
  <2> DEFINE system == group.system
             svids == group.svids
  <2>1. /\ system \in SystemSet /\ svids \in Seq(NumbersOf(system))
        /\ lastGroup' = [lastGroup EXCEPT ![system] = svids]
        /\ Len(svids) <= SVS_COUNT
    BY <1>1, GroupsAre DEF Describe
  <2> HIDE DEF system, svids
  <2>2. NumbersOf(system) \subseteq 0 .. 200
    BY DEF NumbersOf
  <2>3. svids \in Seq(0 .. 200)
    BY <2>1, <2>2, SeqMonotonic
  <2>4. QED
    BY <2>1, <2>3 DEF LastGroupTypes
<1>2. CASE Lose \/ xxGSV \/ \E gsa \in UsedGroups : GxGSA(gsa)
  BY <1>2 DEF Lose, xxGSV, GxGSA, LastGroupTypes
<1>3. QED
  BY <1>1, <1>2 DEF SatellitesNext

(* A group is described from its first sentence on.                        *)
LEMMA DescribeKeepsGroups ==
  ASSUME \A g \in Groups : Len(g.svids) <= SVS_COUNT,
         SatelliteTypes, GroupsInv, NEW group \in Groups, Describe(group)
  PROVE  GroupsInv'
<1> DEFINE system == group.system
           svids == group.svids
           all == SentencesOf(Group(system, svids))
<1>1. /\ system \in SystemSet /\ svids \in Seq(NumbersOf(system))
      /\ group = Group(system, svids) /\ Len(svids) <= SVS_COUNT
  BY GroupsAre
<1>2. /\ incoming = <<>> /\ incoming' = all
      /\ lastGroup' = [lastGroup EXCEPT ![system] = svids]
      /\ mSatellites' = mSatellites /\ mMajorGnssStatus' = mMajorGnssStatus
      /\ lost' = lost
  BY <1>1 DEF Describe, configVars
<1>3. all = SentencesOf(Group(system, svids))
  OBVIOUS
<1> HIDE DEF system, svids, all
<1>4. /\ all \in Seq(Sentence) /\ Len(all) \in Nat \ {0}
      /\ \A k \in 1 .. Len(all) :
           /\ all[k].system = system /\ all[k].idx = k
           /\ all[k].svids \in Seq(NumbersOf(system))
  BY <1>1, <1>3, SentencesGive
<1>5. 1 \in 1 .. Len(all)
  BY <1>4
<1>6. /\ all # <<>> /\ Head(all) = all[1]
      /\ Head(all).system = system /\ Head(all).idx = 1
  BY <1>4, <1>5, EmptySeq
<1>7. LastGroupTypes'
  BY LastGroupStep DEF GroupsInv, SatellitesNext
<1>8. RestOfGroup'
  <2>1. lastGroup'[system] = svids
    BY <1>1, <1>2 DEF GroupsInv, LastGroupTypes
  <2>2. Len(all) = Len(all) - 1 + 1 /\ \A j \in 1 .. Len(all) : 1 - 1 + j = j
    BY <1>4
  <2>3. QED
    BY <1>2, <1>3, <1>5, <1>6, <2>1, <2>2 DEF RestOfGroup
<1>9. ListsAgree'
  <2>1. Excluded' = Excluded
    BY <1>2 DEF Excluded
  <2>2. ASSUME NEW s \in SystemSet \ Excluded, s # system
        PROVE  Numbers(mSatellites[s]) = lastGroup'[s]
    BY <1>1, <1>2, <2>2 DEF GroupsInv, ListsAgree, LastGroupTypes
  <2>3. QED
    BY <1>2, <1>6, <2>1, <2>2 DEF ListsAgree
<1>10. QED
  BY <1>7, <1>8, <1>9 DEF GroupsInv

(* A sentence of a group describes what the ones before left out.          *)
LEMMA SentenceKeepsGroups ==
  ASSUME SatelliteTypes, GroupsInv, xxGSV
  PROVE  GroupsInv'
<1> DEFINE gsv == Head(incoming)
           system == gsv.system
           k == gsv.idx
           svids == lastGroup[system]
           all == SentencesOf(Group(system, svids))
           from == (k - 1) * PerSentence
           to == PartEnd(svids, Len(all), k)
<1>1. /\ incoming # <<>> /\ incoming' = Tail(incoming)
      /\ UNCHANGED <<mMajorGnssStatus, lastGroup, lost>>
  BY DEF xxGSV, configVars
<1>2. /\ system \in SystemSet /\ k \in Nat \ {0}
      /\ Tail(incoming) \in Seq(Sentence)
      /\ Len(Tail(incoming)) = Len(incoming) - 1
      /\ \A j \in 1 .. Len(Tail(incoming)) : Tail(incoming)[j] = incoming[j + 1]
      /\ incoming \in Seq(Sentence) /\ Len(incoming) \in Nat \ {0}
      /\ gsv = incoming[1]
  BY <1>1, SentenceAtHand, EmptySeq DEF SatelliteTypes
<1>3. /\ svids \in Seq(NumbersOf(system)) /\ svids \in Seq(0 .. 200)
      /\ Len(svids) <= SVS_COUNT /\ Len(svids) \in Nat
  BY <1>2, LenProperties DEF GroupsInv, LastGroupTypes
<1>4. /\ k \in 1 .. Len(all)
      /\ Len(incoming) = Len(all) - k + 1
      /\ \A j \in 1 .. Len(incoming) : incoming[j] = all[k - 1 + j]
  BY <1>1 DEF GroupsInv, RestOfGroup
<1>5. all = SentencesOf(Group(system, svids))
  OBVIOUS
<1>20. gsv.system = system /\ gsv.idx = k /\ svids = lastGroup[system]
  OBVIOUS
<1> HIDE DEF all, system, k, svids
<1>6. /\ all \in Seq(Sentence) /\ Len(all) \in Nat \ {0}
      /\ \A n \in 1 .. Len(all) :
           /\ all[n].system = system /\ all[n].idx = n
           /\ all[n].svids \in Seq(NumbersOf(system))
      /\ \A n \in 1 .. Len(all) :
           /\ (n - 1) * PerSentence \in 0 .. Len(svids)
           /\ PartEnd(svids, Len(all), n) \in (n - 1) * PerSentence .. Len(svids)
           /\ all[n].svids = SubSeq(svids, (n - 1) * PerSentence + 1,
                                    PartEnd(svids, Len(all), n))
           /\ Len(all[n].svids) = PartEnd(svids, Len(all), n)
                                  - (n - 1) * PerSentence
  <2>1. system \in SystemSet /\ svids \in Seq(NumbersOf(system))
    BY <1>2, <1>3
  <2>2. QED
    BY <1>5, <2>1, SentencesGive
<1>7. gsv = all[k]
  <2>1. 1 \in 1 .. Len(incoming) /\ k - 1 + 1 = k
    BY <1>2
  <2>2. QED
    BY <1>2, <1>4, <2>1
<1> HIDE DEF gsv
<1>8. /\ from \in 0 .. Len(svids) /\ to \in from .. Len(svids)
      /\ gsv.svids = SubSeq(svids, from + 1, to)
      /\ Len(gsv.svids) = to - from
  BY <1>4, <1>6, <1>7
<1> HIDE DEF from, to
<1>9. LastGroupTypes'
  BY <1>1 DEF GroupsInv, LastGroupTypes
<1>10. ASSUME incoming' # <<>>
       PROVE  /\ k + 1 \in 1 .. Len(all) /\ Len(incoming') = Len(all) - k
              /\ Head(incoming').system = system /\ Head(incoming').idx = k + 1
              /\ \A j \in 1 .. Len(incoming') : incoming'[j] = all[k + j]
  <2>1. Len(incoming') \in Nat \ {0} /\ Head(incoming') = incoming'[1]
    BY <1>1, <1>2, <1>10, EmptySeq
  <2>2. Len(incoming') = Len(all) - k /\ k + 1 \in 1 .. Len(all)
    <3>1. /\ Len(incoming') = Len(incoming) - 1 /\ Len(incoming') \in Nat \ {0}
          /\ Len(incoming) = Len(all) - k + 1
          /\ k \in Nat \ {0} /\ Len(all) \in Nat
      BY <1>1, <1>2, <1>4, <1>6, <2>1
    <3>2. QED
      BY <3>1
  <2>3. ASSUME NEW j \in 1 .. Len(incoming')
        PROVE  incoming'[j] = all[k + j]
    <3>1. j + 1 \in 1 .. Len(incoming) /\ k - 1 + (j + 1) = k + j
      BY <1>1, <1>2, <2>1
    <3>2. incoming[j + 1] = all[k + j]
      BY <1>4, <3>1
    <3>3. QED
      BY <1>1, <1>2, <3>2
  <2>4. Head(incoming') = all[k + 1]
    BY <2>1, <2>3
  <2>5. QED
    BY <1>6, <2>2, <2>3, <2>4
<1>11. RestOfGroup'
  <2>1. ASSUME incoming' # <<>>
        PROVE  LET s == Head(incoming').system
                   n == Head(incoming').idx
                   sentences == SentencesOf(Group(s, lastGroup'[s]))
               IN /\ n \in 1 .. Len(sentences)
                  /\ Len(incoming') = Len(sentences) - n + 1
                  /\ \A j \in 1 .. Len(incoming') :
                       incoming'[j] = sentences[n - 1 + j]
    <3>1. SentencesOf(Group(system, lastGroup'[system])) = all
      BY <1>1, <1>5, <1>20
    <3>2. Len(incoming') = Len(all) - (k + 1) + 1
      BY <1>2, <1>6, <1>10, <2>1
    <3>3. k + 1 \in 1 .. Len(all)
      BY <1>10, <2>1
    <3>4. Head(incoming').system = system /\ Head(incoming').idx = k + 1
      BY <1>10, <2>1
    <3> DEFINE n == k + 1
    <3>5. /\ Head(incoming').idx = n /\ n \in 1 .. Len(all)
          /\ Len(incoming') = Len(all) - n + 1
          /\ \A j \in 1 .. Len(incoming') : incoming'[j] = all[n - 1 + j]
      <4>1. Head(incoming').idx = n /\ n \in 1 .. Len(all)
        BY <3>3, <3>4
      <4>2. Len(incoming') = Len(all) - n + 1
        BY <3>2
      <4>3. ASSUME NEW j \in 1 .. Len(incoming')
            PROVE  incoming'[j] = all[n - 1 + j]
        <5>1. n - 1 + j = k + j
          BY <1>2
        <5>2. QED
          BY <1>10, <2>1, <5>1
      <4>4. QED
        BY <4>1, <4>2, <4>3
    <3> HIDE DEF n
    <3>6. QED
      BY <3>1, <3>4, <3>5
  <2>2. QED
    BY <2>1 DEF RestOfGroup
<1>12. ASSUME system \notin Excluded
       PROVE  Numbers(mSatellites'[system]) = SubSeq(svids, 1, to)
  <2> DEFINE opened == Opened(gsv)
             parts == Parts(gsv)
             pushed == Pushed(gsv.system, parts, opened.used[gsv.system],
                              opened.fcn)
             before == opened.lists[system]
  <2>1. ~(gsv.idx = 1 /\ Ignored(gsv.system))
    BY <1>12, <1>20 DEF Ignored
  <2>2. /\ pushed \in Seq(Satellite) /\ Len(pushed) = Len(parts)
        /\ \A part \in 1 .. Len(parts) : pushed[part].number = parts[part]
        /\ mSatellites' = [opened.lists EXCEPT ![gsv.system] = @ \o pushed]
    BY <2>1, SentenceGives DEF gsv
  <2>3. /\ opened.lists \in [SystemSet -> Seq(Satellite)]
        /\ before = IF k = 1 THEN <<>> ELSE mSatellites[system]
    BY <1>2, <1>12, <1>20, OpenedGives
  <2>4. parts = gsv.svids
    <3>1. from = (gsv.idx - 1) * PerSentence /\ SVS_COUNT \in Nat
      BY <1>20, SizesAssumption DEF from
    <3>2. Len(gsv.svids) <= SVS_COUNT - from
      BY <1>3, <1>8, <3>1
    <3>3. QED
      BY <3>1, <3>2 DEF Parts
  <2> HIDE DEF opened, parts, pushed
  <2>5. mSatellites'[system] = before \o pushed /\ before \in Seq(Satellite)
    BY <1>2, <1>20, <2>2, <2>3
  <2> HIDE DEF before
  <2>6. parts \in Seq(0 .. 200)
    <3>1. \A j \in from + 1 .. to : svids[j] \in 0 .. 200
      <4>1. from + 1 .. to \subseteq 1 .. Len(svids)
        BY <1>3, <1>8
      <4>2. QED
        BY <1>3, <4>1, ElementOfSeq
    <3>2. from + 1 \in Int /\ to \in Int
      BY <1>3, <1>8
    <3>3. QED
      BY <1>8, <2>4, <3>1, <3>2, SubSeqProperties
  <2>7. Numbers(before \o pushed) = Numbers(before) \o parts
    BY <2>2, <2>5, <2>6, NumbersOfConcat
  <2>8. Numbers(before) = SubSeq(svids, 1, from)
    <3>1. CASE k = 1
      <4>1. from = 0
        BY <3>1, SizesAssumption DEF from
      <4>2. Numbers(before) = <<>>
        BY <2>3, <3>1 DEF Numbers
      <4>3. QED
        BY <4>1, <4>2, SubSeqEmpty
    <3>2. CASE k # 1
      BY <1>1, <1>2, <1>12, <1>20, <2>3, <3>2 DEF GroupsInv, ListsAgree, from, gsv
    <3>3. QED
      BY <3>1, <3>2
  <2>9. SubSeq(svids, 1, from) \o SubSeq(svids, from + 1, to)
          = SubSeq(svids, 1, to)
    <3>1. /\ 1 \in 1 .. Len(svids) + 1 /\ from \in 1 - 1 .. Len(svids)
          /\ to \in from .. Len(svids)
      BY <1>3, <1>8
    <3>2. QED
      BY <1>3, <3>1, ConcatAdjacentSubSeq
  <2>10. QED
    BY <1>8, <2>4, <2>5, <2>7, <2>8, <2>9
<1>13. ASSUME NEW s \in SystemSet \ Excluded, s # system
       PROVE  mSatellites'[s] = mSatellites[s]
  <2>1. CASE gsv.idx = 1 /\ Ignored(gsv.system)
    <3>1. mSatellites' = Cleared(mSatellites, Excluded, <<>>)
      BY <2>1 DEF xxGSV, gsv
    <3>2. QED
      BY <3>1 DEF Cleared
  <2>2. CASE ~(gsv.idx = 1 /\ Ignored(gsv.system))
    <3> DEFINE lists == Opened(gsv).lists
               added == lists[gsv.system] \o
                          Pushed(gsv.system, Parts(gsv),
                                 Opened(gsv).used[gsv.system], Opened(gsv).fcn)
    <3>1. mSatellites' = [lists EXCEPT ![gsv.system] = added]
      BY <2>2, SentenceGives DEF gsv
    <3>2. lists \in [SystemSet -> Seq(Satellite)] /\ lists[s] = mSatellites[s]
      BY <1>2, <1>13, <1>20, OpenedGives
    <3> HIDE DEF lists, added
    <3>3. QED
      BY <1>13, <1>20, <3>1, <3>2
  <2>3. QED
    BY <2>1, <2>2
<1>14. ListsAgree'
  <2>1. Excluded' = Excluded
    BY <1>1 DEF Excluded
  <2>2. ASSUME NEW s \in SystemSet \ Excluded
        PROVE  IF incoming' # <<>> /\ Head(incoming').system = s
               THEN Head(incoming').idx = 1 \/
                    Numbers(mSatellites'[s]) =
                      SubSeq(lastGroup'[s], 1, (Head(incoming').idx - 1) * PerSentence)
               ELSE Numbers(mSatellites'[s]) = lastGroup'[s]
    <3>1. CASE s # system
      <4>1. Numbers(mSatellites[s]) = lastGroup[s]
        BY <1>1, <1>20, <2>2, <3>1 DEF GroupsInv, ListsAgree, gsv
      <4>2. mSatellites'[s] = mSatellites[s]
        BY <1>13, <3>1
      <4>3. QED
        BY <1>1, <1>10, <3>1, <4>1, <4>2
    <3>2. CASE s = system /\ incoming' # <<>>
      <4>1. k # Len(all) /\ k + 1 - 1 = k
        BY <1>2, <1>6, <1>10, <3>2
      <4>2. to = k * PerSentence
        BY <4>1 DEF to, PartEnd
      <4>3. QED
        <5>1. Head(incoming').idx - 1 = k /\ Head(incoming').system = s
          <6>1. Head(incoming').idx = k + 1 /\ Head(incoming').system = s
            BY <1>10, <3>2
          <6>2. QED
            BY <1>2, <6>1
        <5>2. Numbers(mSatellites'[s]) = SubSeq(lastGroup'[s], 1, k * PerSentence)
          BY <1>1, <1>12, <1>20, <2>2, <3>2, <4>2
        <5>3. QED
          BY <3>2, <5>1, <5>2
    <3>3. CASE s = system /\ incoming' = <<>>
      <4>1. k = Len(all)
        <5>1. Len(Tail(incoming)) = 0
          BY <1>1, <3>3, EmptySeq
        <5>2. Len(incoming) \in Nat /\ Len(incoming) - 1 = 0
          BY <1>2, <5>1
        <5>3. Len(incoming) = 1
          BY <5>2
        <5>4. 1 = Len(all) - k + 1 /\ k \in Nat /\ Len(all) \in Nat
          BY <1>2, <1>4, <1>6, <5>3
        <5>5. QED
          BY <5>4
      <4>2. to = Len(svids)
        BY <4>1 DEF to, PartEnd
      <4>3. SubSeq(svids, 1, to) = svids
        BY <1>3, <4>2, SubSeqFull
      <4>4. QED
        BY <1>1, <1>12, <1>20, <2>2, <3>3, <4>3
    <3>4. QED
      BY <3>1, <3>2, <3>3
  <2>3. QED
    BY <1>1, <2>1, <2>2 DEF ListsAgree
<1>15. QED
  BY <1>9, <1>11, <1>14 DEF GroupsInv

(* Every step keeps what is known of the lists.                            *)
LEMMA GroupsStep ==
  ASSUME \A group \in Groups : Len(group.svids) <= SVS_COUNT,
         SatelliteTypes, UntilLost, SatellitesNext
  PROVE  UntilLost'
<1> USE DEF UntilLost
<1>1. LastGroupTypes'
  BY LastGroupStep
<1>2. ASSUME NEW group \in Groups, Describe(group)
      PROVE  UntilLost'
  <2>1. lost' = lost
    BY <1>2 DEF Describe
  <2>2. QED
    BY <1>1, <1>2, <2>1, DescribeKeepsGroups
<1>3. CASE Lose
  BY <1>1, <1>3 DEF Lose, SatelliteTypes
<1>4. CASE xxGSV
  <2>1. lost' = lost
    BY <1>4 DEF xxGSV
  <2>2. QED
    BY <1>1, <1>4, <2>1, SentenceKeepsGroups
<1>5. ASSUME NEW gsa \in UsedGroups, GxGSA(gsa)
      PROVE  UntilLost'
  <2>1. UNCHANGED <<mSatellites, mMajorGnssStatus, incoming, lastGroup, lost>>
    BY <1>5 DEF GxGSA, configVars
  <2>2. GroupsInv => GroupsInv'
    BY <2>1 DEF GroupsInv, LastGroupTypes, RestOfGroup, ListsAgree, Excluded
  <2>3. QED
    BY <1>1, <2>1, <2>2
<1>6. QED
  BY <1>2, <1>3, <1>4, <1>5 DEF SatellitesNext

(* While no sentence is lost, the list of a system in use is its last      *)
(* group, nothing of older groups and nothing twice: for groups that       *)
(* mSvStatus has room for.                                                 *)
THEOREM ListsAreLastGroups ==
  ASSUME \A group \in Groups : Len(group.svids) <= SVS_COUNT
  PROVE  Spec => []ListIsLastGroup
<1>1. Init => UntilLost
  <2> SUFFICES ASSUME Init
               PROVE  LastGroupTypes /\ RestOfGroup /\ ListsAgree
    BY DEF UntilLost, GroupsInv
  <2>1. /\ \A system \in SystemSet : mSatellites[system] = <<>>
        /\ lastGroup = [system \in SystemSet |-> <<>>] /\ incoming = <<>>
    BY DEF Init, SatellitesInit, NoneOf
  <2>2. LastGroupTypes
    <3>1. /\ Len(<<>>) = 0 /\ <<>> \in Seq(0 .. 200)
          /\ \A system \in SystemSet : <<>> \in Seq(NumbersOf(system))
      BY EmptySeq
    <3>2. QED
      BY <2>1, <3>1, SizesAssumption DEF LastGroupTypes
  <2>3. Numbers(<<>>) = <<>>
    BY DEF Numbers
  <2>4. QED
    BY <2>1, <2>2, <2>3 DEF RestOfGroup, ListsAgree
<1>2. UntilLost /\ SatelliteTypes /\ [Next]_vars => UntilLost'
  <2>1. UntilLost /\ UNCHANGED satelliteVars => UntilLost'
    BY DEF UntilLost, GroupsInv, LastGroupTypes, RestOfGroup, ListsAgree,
           Excluded, satelliteVars, configVars
  <2>2. QED
    BY <2>1, GroupsStep DEF Next, vars
<1>3. UntilLost /\ SatelliteTypes => ListIsLastGroup
  <2> SUFFICES ASSUME UntilLost, SatelliteTypes, lost = 0,
                      NEW system \in SystemSet \ Excluded
               PROVE  LET numbers == Numbers(mSatellites[system])
                      IN \/ incoming = <<>> /\ numbers = lastGroup[system]
                         \/ /\ incoming # <<>> /\ Head(incoming).system = system
                            /\ \/ Head(incoming).idx = 1
                               \/ IsPrefix(numbers, lastGroup[system])
                         \/ /\ incoming # <<>> /\ Head(incoming).system # system
                            /\ numbers = lastGroup[system]
    BY DEF ListIsLastGroup, Numbers
  <2> DEFINE numbers == Numbers(mSatellites[system])
             k == Head(incoming).idx
             from == (k - 1) * PerSentence
             svids == lastGroup[system]
  <2>1. GroupsInv
    BY DEF UntilLost
  <2>2. CASE ~(incoming # <<>> /\ Head(incoming).system = system)
    BY <2>1, <2>2 DEF GroupsInv, ListsAgree
  <2>3. CASE incoming # <<>> /\ Head(incoming).system = system
    <3>1. CASE k = 1
      BY <2>3, <3>1
    <3>2. CASE k # 1
      <4>1. numbers = SubSeq(svids, 1, from)
        BY <2>1, <2>3, <3>2 DEF GroupsInv, ListsAgree
      <4>2. svids \in Seq(NumbersOf(system)) /\ Len(svids) \in Nat
        BY <2>1, LenProperties DEF GroupsInv, LastGroupTypes
      <4>3. from \in 0 .. Len(svids)
        <5> DEFINE all == SentencesOf(Group(system, svids))
        <5>1. k \in 1 .. Len(all)
          BY <2>1, <2>3 DEF GroupsInv, RestOfGroup
        <5>2. all = SentencesOf(Group(system, svids))
          OBVIOUS
        <5> HIDE DEF all, svids
        <5>3. \A n \in 1 .. Len(all) :
                (n - 1) * PerSentence \in 0 .. Len(svids)
          BY <4>2, <5>2, SentencesGive
        <5>4. QED
          BY <5>1, <5>3
      <4> HIDE DEF numbers, from, svids
      <4>4. \A j \in 1 .. from : svids[j] \in NumbersOf(system)
        BY <4>2, <4>3, ElementOfSeq
      <4>5. Len(numbers) = from
        BY <4>1, <4>3, <4>4, SubSeqProperties
      <4>6. SubSeq(numbers, 1, from) = numbers
        <5>1. numbers \in Seq(NumbersOf(system))
          BY <4>1, <4>3, <4>4, SubSeqProperties
        <5>2. QED
          BY <4>5, <5>1, SubSeqFull
      <4>7. IsPrefix(numbers, svids)
        BY <4>1, <4>2, <4>3, <4>5, <4>6 DEF IsPrefix
      <4>8. QED
        BY <2>3, <4>7 DEF numbers, svids
    <3>3. QED
      BY <3>1, <3>2
  <2>4. QED
    BY <2>2, <2>3
<1>4. QED
  BY <1>1, <1>2, <1>3, SatelliteTypesHold, PTL DEF Spec
=============================================================================
