----------------------------- MODULE GnssLocation -----------------------------
(***************************************************************************)
(* How mGnssLocation grows out of the sentences of many epochs             *)
(* (GnssHwTTY.cpp).  Each second a receiver sends RMC, GGA and PUBX,00 of  *)
(* one epoch; any may be lost or damaged.  The RMC handler reports the     *)
(* location as it then is.  A value is the epoch it was measured in.       *)
(***************************************************************************)
EXTENDS Integers, Sequences

CONSTANTS Fixes,     \* kinds of fix: what the sentences of an epoch carry
          MaxEpochs  \* bound

Fields == {"position", "speed", "speedAccuracy", "bearing", "altitude",
           "horizontalAccuracy", "verticalAccuracy"}

(* A fix has a status and the fields its sentences give.                   *)
ASSUME FixesAssumption == Fixes \subseteq [active : BOOLEAN, has : SUBSET Fields]

Absent == 0  \* the value of a field whose flag is not set

VARIABLES mGnssLocation, \* a field: the epoch of its value, or Absent
          mEnabled,
          epoch, fix,    \* the epoch and its fix
          toSend,        \* sentences of the epoch still to come
          heard,         \* of each sentence: the last epoch it was parsed in
          lastVoid,      \* the last epoch whose RMC said V, and was parsed
          reports        \* none, or the last location reported and its fix

locationVars == <<mGnssLocation, mEnabled, epoch, fix, toSend, heard, lastVoid, reports>>

(* Order of the sentences of an epoch.                                     *)
Sentences == <<"RMC", "GGA", "PUBX00">>

SentenceOf(field) ==
    CASE field \in {"position", "speed", "speedAccuracy", "bearing"} -> "RMC"
      [] field = "altitude" -> "GGA"
      [] OTHER -> "PUBX00"

NoLocation == [field \in Fields |-> Absent]
Has(location, field) == location[field] # Absent

LocationInit ==
    /\ mGnssLocation = NoLocation
    /\ mEnabled = FALSE
    /\ epoch = 0 /\ fix = (CHOOSE f \in Fixes : TRUE) /\ toSend = <<>>
    /\ heard = [s \in {"RMC", "GGA", "PUBX00"} |-> 0]
    /\ lastVoid = 0
    /\ reports = {}

-----------------------------------------------------------------------------
NextEpoch(f) ==
    /\ toSend = <<>> /\ epoch < MaxEpochs
    /\ epoch' = epoch + 1
    /\ fix' = f
    /\ toSend' = Sentences
    /\ UNCHANGED <<mGnssLocation, mEnabled, heard, lastVoid, reports>>

(* No CRC, a wrong one, or a wrong number of parts: the message is dropped.*)
Drop ==
    /\ toSend # <<>>
    /\ toSend' = Tail(toSend)
    /\ UNCHANGED <<mGnssLocation, mEnabled, epoch, fix, heard, lastVoid, reports>>

Parse(sentence) ==
    /\ toSend # <<>> /\ Head(toSend) = sentence
    /\ toSend' = Tail(toSend)
    /\ heard' = [heard EXCEPT ![sentence] = epoch]
    /\ UNCHANGED <<mEnabled, epoch, fix>>

(* A location with the fields of a sentence of this epoch: those it gives  *)
(* are set, those it leaves empty are kept.                                *)
WithFieldsKept(location, fields) ==
    [field \in Fields |-> IF field \in fields \intersect fix.has THEN epoch
                          ELSE location[field]]

(* Those it gives are set, those it leaves empty are cleared.              *)
WithFields(location, fields) ==
    [field \in Fields |-> IF field \in fields
                          THEN IF field \in fix.has THEN epoch ELSE Absent
                          ELSE location[field]]

(* A void fix that leaves the location as it is.                           *)
VoidKept == mGnssLocation

(* A void fix invalidates all of the location, also what other sentences   *)
(* gave.                                                                   *)
Void == NoLocation

(* The location of an active fix; the last assignments of the handler give *)
(* it a speed accuracy whether it has a speed or not.                      *)
Active ==
    [WithFields([mGnssLocation EXCEPT !.position = epoch], {"speed", "bearing"})
        EXCEPT !.speedAccuracy = epoch]

ProvideLocation(location) ==
    /\ ~Has(location, "speed") \/ Has(location, "bearing")
    /\ Has(location, "altitude")

(* The gate may be open or closed: see GnssMeasurement.                    *)
GxRMC ==
    /\ Parse("RMC")
    /\ mGnssLocation' = IF fix.active THEN Active ELSE Void
    /\ lastVoid' = IF fix.active THEN lastVoid ELSE epoch
    /\ \/ /\ fix.active /\ mEnabled /\ ProvideLocation(mGnssLocation')
          /\ reports' = {[location |-> mGnssLocation', fix |-> fix,
                          heard |-> heard']}
       \/ UNCHANGED reports

GxGGA ==
    /\ Parse("GGA")
    /\ mGnssLocation' = WithFields(mGnssLocation, {"altitude"})
    /\ UNCHANGED <<lastVoid, reports>>

PUBX00 ==
    /\ Parse("PUBX00")
    /\ mGnssLocation' = WithFields(mGnssLocation,
                                   {"horizontalAccuracy", "verticalAccuracy"})
    /\ UNCHANGED <<lastVoid, reports>>

StartOrStop ==
    /\ mEnabled' = ~mEnabled
    /\ UNCHANGED <<mGnssLocation, epoch, fix, toSend, heard, lastVoid, reports>>

LocationNext ==
    \/ \E f \in Fixes : NextEpoch(f)
    \/ Drop \/ GxRMC \/ GxGGA \/ PUBX00 \/ StartOrStop

-----------------------------------------------------------------------------
(* A speed or a bearing goes with a position.                              *)
LocationTypeOK ==
    /\ mGnssLocation \in [Fields -> 0 .. epoch]
    /\ mEnabled \in BOOLEAN
    /\ fix \in Fixes /\ lastVoid \in 0 .. epoch
    /\ \A field \in Fields :
         SentenceOf(field) = "RMC" /\ Has(mGnssLocation, field)
           => Has(mGnssLocation, "position")

(* Nothing that was measured before the fix was last lost is part of a     *)
(* location: what a void RMC invalidates, of its own fields or of those of *)
(* other sentences, stays absent until it is measured again.               *)
NothingOutlivesVoid ==
    \A field \in Fields :
        Has(mGnssLocation, field) => mGnssLocation[field] >= lastVoid

(* A field of a reported location is what the last parsed sentence of its  *)
(* kind gave, whatever was dropped and in whichever epochs the sentence    *)
(* left the field empty: the location mixes epochs, but no older ones.     *)
FieldsAreOfLastSentences ==
    \A r \in reports : \A field \in Fields :
        Has(r.location, field) => r.location[field] = r.heard[SentenceOf(field)]

(* "Provide location only for 3D fix (has altitude)" (GnssHwTTY.cpp).      *)
OnlyFor3DFix == \A r \in reports : "altitude" \in r.fix.has

(* "Provide location only if speed and bearing (course over ground) are    *)
(* provided simultaneously" (GnssHwTTY.cpp).                               *)
OnlyWithSpeedAndBearing ==
    \A r \in reports :
        Has(r.location, "speed") /\ Has(r.location, "bearing")
=============================================================================
