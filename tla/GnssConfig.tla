------------------------------ MODULE GnssConfig ------------------------------
(***************************************************************************)
(* The UBX-CFG-GNSS message of ConfigGnssUblox8: a header and an entry per *)
(* navigation system, and PrepareGnssConfig, which pokes minimum channels  *)
(* and enable flags into it at computed offsets.                           *)
(***************************************************************************)
EXTENDS Integers, Sequences

SPG201 == 201
SPG301 == 301
OtherFirmware == 0

HeaderSize == 8
EntrySize == 8  \* of the message, whatever the code computes with

GnssId == [GPS |-> 0, SBAS |-> 1, GALILEO |-> 2, BEIDOU |-> 3, IMES |-> 4,
           QZSS |-> 5, GLONASS |-> 6]

(* The entries of the two messages: gnssId, minimum channels, enabled.     *)
Entry(system, min, enable) ==
    [id |-> GnssId[system], min |-> min, enable |-> enable]

EntriesSpg2 == <<Entry("GPS", 8, 1), Entry("SBAS", 1, 1), Entry("BEIDOU", 0, 0),
                 Entry("QZSS", 0, 1), Entry("GLONASS", 0, 0)>>

EntriesSpg3 == <<Entry("GPS", 8, 1), Entry("SBAS", 1, 1), Entry("GALILEO", 4, 1),
                 Entry("BEIDOU", 0, 0), Entry("IMES", 0, 0),
                 Entry("QZSS", 0, 1), Entry("GLONASS", 0, 0)>>

EntriesOf(firmware) == IF firmware = SPG201 THEN EntriesSpg2 ELSE EntriesSpg3

(* The bytes of a message: of a header byte and of the fields that no one  *)
(* sets only their place matters.                                          *)
Bytes(entries) ==
    [offset \in 0 .. HeaderSize + EntrySize * Len(entries) - 1 |->
        IF offset < HeaderSize THEN "header"
        ELSE LET entry == entries[offset \div EntrySize]
             IN CASE offset % EntrySize = 0 -> entry.id
                  [] offset % EntrySize = 1 -> entry.min
                  [] offset % EntrySize = 4 -> entry.enable
                  [] OTHER -> "other"]

(* What the code computes its offsets from.                                *)
CfgGnss(firmware) ==
    IF firmware = SPG201
    THEN [entrySize |-> 6, SBAS |-> 2, BEIDOU |-> 3, GLONASS |-> 5]
    ELSE [entrySize |-> 8, SBAS |-> 2, BEIDOU |-> 4, GLONASS |-> 7]

CFG_GNSS_MIN == 1
CFG_GNSS_ENB == 4

(* Offsets of the fields counted from the end of an entry's gnssId.        *)
OffsetAfterId(firmware, system, field) ==
    CfgGnss(firmware).entrySize * CfgGnss(firmware)[system] + field + 1

Offset(firmware, system, field) ==
    CfgGnss(firmware).entrySize * CfgGnss(firmware)[system] + field

Poke(msg, firmware, system, min, enable) ==
    [msg EXCEPT ![Offset(firmware, system, CFG_GNSS_MIN)] = min,
                ![Offset(firmware, system, CFG_GNSS_ENB)] = enable]

PrepareGnssConfig(firmware, secmajor, sbas) ==
    LET msg == Bytes(EntriesOf(firmware))
        withSbas == IF sbas = "DISABLE" THEN Poke(msg, firmware, "SBAS", 0, 0)
                    ELSE msg
    IN IF secmajor \in {"GLONASS", "BEIDOU"}
       THEN Poke(withSbas, firmware, secmajor, 8, 1)
       ELSE withSbas

MajorGnssStatus(secmajor) ==
    CASE secmajor = "GLONASS" -> "GPS_GLONASS"
      [] secmajor = "BEIDOU" -> "GPS_BEIDOU"
      [] OTHER -> "GPS_ONLY"

(* The systems a receiver turns on for such a message: of an entry it      *)
(* takes what it finds where an id and a flag belong.                      *)
SystemsOn(msg) ==
    {system \in DOMAIN GnssId :
        \E n \in 1 .. 7 :
            LET entry == EntrySize * n
            IN /\ entry + CFG_GNSS_ENB \in DOMAIN msg
               /\ msg[entry] = GnssId[system]
               /\ msg[entry + CFG_GNSS_ENB] = 1}
=============================================================================
