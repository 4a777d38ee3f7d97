------------------------------ MODULE GnssHwInit ------------------------------
(***************************************************************************)
(* From start() to a configured receiver (GnssHwTTY.cpp).  start() opens   *)
(* the tty and runs the init thread, which asks for the firmware version   *)
(* and sends its configuration, one message at a time: send, read the tty  *)
(* until the ACK, send again, give up by ending the process.  Then the     *)
(* handle thread takes over reading.  Requests and answers may be lost;    *)
(* answers may come after the wait for them has ended.                     *)
(***************************************************************************)
EXTENDS GnssConfig

CONSTANTS Boards,       \* kingfisher, salvator
          Buses,        \* what may be on the USB bus, in the order of its
                        \* directories, see DeviceKinds
          Firmwares,    \* of the receiver
          SecMajors, Sbas,  \* the two properties
          Rejected,     \* sets of messages a receiver may answer with NACK
          RetriesCnt,   \* mUbxRetriesCnt, 5 in the code
          MayFallSilent,\* whether a receiver may stop sending altogether
          MaxFaults     \* bound: messages lost, waits ended by time

(* Devices by vendor and product.                                          *)
UbloxKinds == {"ublox7", "ublox8", "ubloxOther"}
DeviceKinds == UbloxKinds \union {"foreign"}

ASSUME BusAssumption == \A bus \in Buses : bus \in Seq(DeviceKinds)
ASSUME RetriesAssumption == RetriesCnt \in Nat \ {0}

VARIABLES up, board, mFd, mEnabled, mIsUbloxDevice, mUbxGeneration,
          init,      \* where the init thread is
          step,      \* the configuration message it is at
          tries,     \* of the message at hand
          mUbxFirmwareVersion, mMajorGnssStatus, mRmcFieldsNumber,
          handle,    \* the handle thread
          requests,  \* on their way to the receiver
          answers,   \* on their way to the tty
          receiver,  \* firmware, what it rejects, talking, its configuration
          properties,\* ro.boot.gps.secmajor and ro.boot.gps.sbas
          faults

hostVars == <<up, board, mFd, mEnabled, mIsUbloxDevice, mUbxGeneration>>
initVars == <<init, step, tries, mUbxFirmwareVersion, mMajorGnssStatus,
              mRmcFieldsNumber>>
vars == <<hostVars, initVars, handle, requests, answers, receiver, properties,
          faults>>

(* The first u-blox device on the bus, if there is one.                    *)
ScanUsbDevices(bus) ==
    {bus[n] : n \in {k \in DOMAIN bus :
                       /\ bus[k] \in UbloxKinds
                       /\ \A m \in 1 .. k - 1 : bus[m] \notin UbloxKinds}}

(* The configuration messages.  All that set the rate of a message have    *)
(* the same class and id, which is all that an ACK names.                  *)
Rates == {"pubx", "gll", "vtg", "clock", "timegps", "status", "rmc", "measx"}
Key(msg) == IF msg \in Rates THEN "CFG-MSG" ELSE msg

PollCommonMessages ==
    <<"nav5", "pubx", "gll", "vtg", "clock", "timegps", "status", "rmc">>

InitUblox7Gen == <<"clear", "nmea23", "gnss">> \o PollCommonMessages

(* A firmware that is neither SPG 2.01 nor SPG 3.01 gets no CFG-GNSS.      *)
InitUblox8Gen ==
    <<"clear", "nmea41">>
    \o (IF mUbxFirmwareVersion \in {SPG201, SPG301} THEN <<"gnss">> ELSE <<>>)
    \o PollCommonMessages \o <<"measx">>

Steps == IF mUbxGeneration = "ublox7" THEN InitUblox7Gen ELSE InitUblox8Gen

FieldsOf(msg) == IF msg = "nmea41" THEN 14 ELSE 13

(* The receiver's configuration before any message.                        *)
Default == [applied |-> {}, nmea |-> "default", systems |-> {"GPS"}]

Stopped ==
    /\ mEnabled = FALSE
    /\ step = 1 /\ tries = 0
    /\ mUbxFirmwareVersion = OtherFirmware
    /\ mMajorGnssStatus = "unset" /\ mRmcFieldsNumber = 0
    /\ handle = "none"
    /\ requests = <<>> /\ answers = <<>>

(* The constructor opens the tty of a kingfisher board itself.             *)
Constructed ==
    /\ up = TRUE
    /\ mIsUbloxDevice = (board = "kingfisher")
    /\ mFd = (board = "kingfisher")
    /\ mUbxGeneration = IF board = "kingfisher" THEN "ublox8" ELSE "unset"
    /\ init = IF board = "kingfisher" THEN "reset" ELSE "none"

Init ==
    /\ board \in Boards
    /\ Stopped /\ Constructed
    /\ \E firmware \in Firmwares, rejects \in Rejected :
         receiver = [firmware |-> firmware, rejects |-> rejects,
                     talking |-> TRUE, config |-> Default]
    /\ properties \in [secmajor : SecMajors, sbas : Sbas]
    /\ faults = 0

-----------------------------------------------------------------------------
(* The binder thread.                                                      *)

RunWorkerThreads(generation) ==
    /\ mIsUbloxDevice' = TRUE
    /\ mUbxGeneration' = generation
    /\ init' = "reset"

(* A device found once is never looked for again.  The tty is opened       *)
(* before the bus is scanned, and stays open when the scan finds nothing;  *)
(* it is taken to be that of the device found.                             *)
Start(tty, bus) ==
    LET found == ScanUsbDevices(bus)
    IN /\ up
       /\ IF mIsUbloxDevice
          THEN /\ mEnabled' = TRUE
               /\ UNCHANGED <<mFd, mIsUbloxDevice, mUbxGeneration, init>>
          ELSE /\ mFd' = tty
               /\ mEnabled' = (tty /\ found # {})
               /\ IF mEnabled'
                  THEN \E generation \in found : RunWorkerThreads(generation)
                  ELSE UNCHANGED <<mIsUbloxDevice, mUbxGeneration, init>>
       /\ UNCHANGED <<up, board, step, tries, mUbxFirmwareVersion,
                      mMajorGnssStatus, mRmcFieldsNumber, handle, requests,
                      answers, receiver, properties, faults>>

Stop ==
    /\ up
    /\ mEnabled' = FALSE
    /\ UNCHANGED <<up, board, mFd, mIsUbloxDevice, mUbxGeneration, initVars,
                   handle, requests, answers, receiver, properties, faults>>

-----------------------------------------------------------------------------
(* The init thread.                                                        *)

UBX_Send(msg) == requests' = Append(requests, msg)

(* UBX_CriticalProtocolError: CHECK ends the process.                      *)
CriticalProtocolError ==
    /\ up' = FALSE
    /\ UNCHANGED <<init, step, tries>>

(* The handle thread is set up with the init thread.                       *)
ResetAndRead ==
    /\ up /\ init = "reset"
    /\ init' = "poll"
    /\ handle' = "reading"
    /\ UBX_Send("reset")
    /\ UNCHANGED <<hostVars, step, tries, mUbxFirmwareVersion,
                   mMajorGnssStatus, mRmcFieldsNumber, answers, receiver,
                   properties, faults>>

ResetOnStart ==
    /\ up /\ init = "reset"
    /\ init' = "poll"
    /\ UBX_Send("reset")
    /\ UNCHANGED <<hostVars, step, tries, mUbxFirmwareVersion,
                   mMajorGnssStatus, mRmcFieldsNumber, handle, answers,
                   receiver, properties, faults>>

PollMonVer ==
    /\ up /\ init = "poll" /\ tries < RetriesCnt
    /\ init' = "waitver"
    /\ tries' = tries + 1
    /\ UBX_Send("monver")
    /\ UNCHANGED <<hostVars, step, mUbxFirmwareVersion, mMajorGnssStatus,
                   mRmcFieldsNumber, handle, answers, receiver, properties,
                   faults>>

(* MON-VER is awaited; anything else in the tty is read over.              *)
WaitMonVer ==
    /\ up /\ init = "waitver" /\ answers # <<>>
    /\ answers' = Tail(answers)
    /\ IF Head(answers).kind = "monver"
       THEN /\ mUbxFirmwareVersion' = receiver.firmware
            /\ init' = "generation"
            /\ tries' = 0
       ELSE UNCHANGED <<mUbxFirmwareVersion, init, tries>>
    /\ UNCHANGED <<hostVars, step, mMajorGnssStatus, mRmcFieldsNumber, handle,
                   requests, receiver, properties, faults>>

(* A u-blox receiver of another generation ends the process.               *)
SelectGeneration ==
    /\ up /\ init = "generation"
    /\ IF mUbxGeneration \in {"ublox7", "ublox8"}
       THEN init' = "send" /\ UNCHANGED <<up, step, tries>>
       ELSE CriticalProtocolError
    /\ UNCHANGED <<board, mFd, mEnabled, mIsUbloxDevice, mUbxGeneration,
                   mUbxFirmwareVersion, mMajorGnssStatus, mRmcFieldsNumber,
                   handle, requests, answers, receiver, properties, faults>>

(* PrepareGnssConfig runs before its message is sent for the first time.   *)
SendConfigMajor ==
    IF Steps[step] = "gnss" /\ tries = 0
    THEN mMajorGnssStatus' = IF mUbxGeneration = "ublox7" THEN "GPS_ONLY"
                             ELSE MajorGnssStatus(properties.secmajor)
    ELSE UNCHANGED mMajorGnssStatus

(* A message is sent again without a count.                                *)
SendForever ==
    /\ up /\ init = "send"
    /\ init' = "waitack"
    /\ UBX_Send(Steps[step])
    /\ SendConfigMajor
    /\ UNCHANGED <<hostVars, step, tries, mUbxFirmwareVersion,
                   mRmcFieldsNumber, handle, answers, receiver, properties,
                   faults>>

SendConfig ==
    /\ up /\ init = "send" /\ tries < RetriesCnt
    /\ init' = "waitack"
    /\ tries' = tries + 1
    /\ UBX_Send(Steps[step])
    /\ SendConfigMajor
    /\ UNCHANGED <<hostVars, step, mUbxFirmwareVersion, mRmcFieldsNumber,
                   handle, answers, receiver, properties, faults>>

GiveUp ==
    /\ up /\ init \in {"poll", "send"} /\ tries = RetriesCnt
    /\ CriticalProtocolError
    /\ UNCHANGED <<board, mFd, mEnabled, mIsUbloxDevice, mUbxGeneration,
                   mUbxFirmwareVersion, mMajorGnssStatus, mRmcFieldsNumber,
                   handle, requests, answers, receiver, properties, faults>>

(* An ACK of any message.                                                  *)
AcksAny(answer) == answer.kind = "ack"

Acks(answer) == answer.kind = "ack" /\ answer.key = Key(Steps[step])

(* The length of sentences is set with the protocol that was acknowledged. *)
NextStep ==
    /\ step' = step + 1
    /\ tries' = 0
    /\ init' = IF step = Len(Steps) THEN "setup" ELSE "send"
    /\ mRmcFieldsNumber' = IF Steps[step] \in {"nmea23", "nmea41"}
                           THEN FieldsOf(Steps[step]) ELSE mRmcFieldsNumber

(* A NACK, or the ACK of another message, ends the wait without success;   *)
(* a MON-VER is read over.                                                 *)
WaitAck ==
    /\ up /\ init = "waitack" /\ answers # <<>>
    /\ answers' = Tail(answers)
    /\ CASE Head(answers).kind = "monver" ->
              UNCHANGED <<init, step, tries, mRmcFieldsNumber>>
         [] Acks(Head(answers)) -> NextStep
         [] OTHER -> /\ init' = "send"
                     /\ UNCHANGED <<step, tries, mRmcFieldsNumber>>
    /\ UNCHANGED <<hostVars, mUbxFirmwareVersion, mMajorGnssStatus, handle,
                   requests, receiver, properties, faults>>

(* The five seconds are looked at after each byte that read() returns, so  *)
(* they end a wait only while the receiver sends something.  An answer     *)
(* that is arriving may be cut.                                            *)
Timeout ==
    /\ up /\ init \in {"waitver", "waitack"}
    /\ receiver.talking /\ faults < MaxFaults
    /\ faults' = faults + 1
    /\ init' = IF init = "waitver" THEN "poll" ELSE "send"
    /\ answers' \in {answers} \union
                    IF answers = <<>> THEN {} ELSE {Tail(answers)}
    /\ UNCHANGED <<hostVars, step, tries, mUbxFirmwareVersion,
                   mMajorGnssStatus, mRmcFieldsNumber, handle, requests,
                   receiver, properties>>

(* Nothing on its way is left to wait for: the wait ends by time.          *)
TimeoutIdle ==
    /\ up /\ init \in {"waitver", "waitack"}
    /\ receiver.talking /\ requests = <<>> /\ answers = <<>>
    /\ init' = IF init = "waitver" THEN "poll" ELSE "send"
    /\ UNCHANGED <<hostVars, step, tries, mUbxFirmwareVersion,
                   mMajorGnssStatus, mRmcFieldsNumber, handle, requests,
                   answers, receiver, properties, faults>>

SetUpHandleThread ==
    /\ up /\ init = "setup"
    /\ init' = "done"
    /\ handle' = "reading"
    /\ UNCHANGED <<hostVars, step, tries, mUbxFirmwareVersion,
                   mMajorGnssStatus, mRmcFieldsNumber, requests, answers,
                   receiver, properties, faults>>

(* The handle thread reads over what is left of the handshake; a read      *)
(* error parks it until somebody opens the device.                         *)
HandleRead ==
    /\ up /\ handle = "reading" /\ answers # <<>>
    /\ answers' = Tail(answers)
    /\ UNCHANGED <<hostVars, initVars, handle, requests, receiver, properties,
                   faults>>

HandleReadError ==
    /\ up /\ handle = "reading"
    /\ handle' = "parked"
    /\ mFd' = FALSE
    /\ UNCHANGED <<up, board, mEnabled, mIsUbloxDevice, mUbxGeneration,
                   initVars, requests, answers, receiver, properties, faults>>

-----------------------------------------------------------------------------
(* The receiver answers its requests in their order.                       *)

Apply(config, msg) ==
    CASE msg = "clear" -> [Default EXCEPT !.applied = {"clear"}]
      [] msg \in {"nmea23", "nmea41"} ->
           [config EXCEPT !.nmea = msg, !.applied = @ \union {msg}]
      [] msg = "gnss" ->
           [config EXCEPT
              !.systems = IF mUbxGeneration = "ublox7" THEN {"GPS", "SBAS", "QZSS"}
                          ELSE SystemsOn(PrepareGnssConfig(
                                 mUbxFirmwareVersion, properties.secmajor,
                                 properties.sbas)),
              !.applied = @ \union {msg}]
      [] OTHER -> [config EXCEPT !.applied = @ \union {msg}]

Answer(msg) ==
    CASE msg = "reset" -> <<>>
      [] msg = "monver" -> <<[kind |-> "monver", key |-> "MON-VER"]>>
      [] OTHER -> <<[kind |-> IF msg \in receiver.rejects THEN "nack" ELSE "ack",
                     key |-> Key(msg)]>>

ReceiverAnswers ==
    /\ up /\ requests # <<>> /\ receiver.talking
    /\ requests' = Tail(requests)
    /\ answers' = answers \o Answer(Head(requests))
    /\ receiver' = IF Head(requests) \in {"reset", "monver"} \union receiver.rejects
                   THEN receiver
                   ELSE [receiver EXCEPT !.config = Apply(@, Head(requests))]
    /\ UNCHANGED <<hostVars, initVars, handle, properties, faults>>

LoseRequest ==
    /\ up /\ requests # <<>> /\ faults < MaxFaults
    /\ faults' = faults + 1
    /\ requests' = Tail(requests)
    /\ UNCHANGED <<hostVars, initVars, handle, answers, receiver, properties>>

LoseAnswer ==
    /\ up /\ answers # <<>> /\ faults < MaxFaults
    /\ faults' = faults + 1
    /\ answers' = Tail(answers)
    /\ UNCHANGED <<hostVars, initVars, handle, requests, receiver, properties>>

FallSilent ==
    /\ MayFallSilent /\ receiver.talking
    /\ receiver' = [receiver EXCEPT !.talking = FALSE]
    /\ UNCHANGED <<hostVars, initVars, handle, requests, answers, properties,
                   faults>>

(* init starts the service again; the tty is flushed when it is opened,    *)
(* the receiver keeps its configuration.                                   *)
Restart ==
    /\ ~up
    /\ up' = TRUE /\ board' = board
    /\ mIsUbloxDevice' = (board = "kingfisher") /\ mFd' = (board = "kingfisher")
    /\ mUbxGeneration' = IF board = "kingfisher" THEN "ublox8" ELSE "unset"
    /\ init' = IF board = "kingfisher" THEN "reset" ELSE "none"
    /\ mEnabled' = FALSE /\ step' = 1 /\ tries' = 0
    /\ mUbxFirmwareVersion' = OtherFirmware
    /\ mMajorGnssStatus' = "unset" /\ mRmcFieldsNumber' = 0
    /\ handle' = "none" /\ requests' = <<>> /\ answers' = <<>>
    /\ UNCHANGED <<receiver, properties, faults>>

-----------------------------------------------------------------------------
InitThread ==
    \/ ResetOnStart \/ PollMonVer \/ WaitMonVer \/ SelectGeneration
    \/ SendConfig \/ GiveUp \/ WaitAck \/ TimeoutIdle \/ SetUpHandleThread

Next ==
    \/ \E tty \in BOOLEAN, bus \in Buses : Start(tty, bus)
    \/ Stop \/ InitThread \/ Timeout
    \/ HandleRead \/ HandleReadError
    \/ ReceiverAnswers \/ LoseRequest \/ LoseAnswer \/ FallSilent
    \/ Restart

(* The init thread runs, and a receiver that talks answers.                *)
Spec == Init /\ [][Next]_vars
FairSpec == Spec /\ WF_vars(InitThread) /\ WF_vars(ReceiverAnswers)

-----------------------------------------------------------------------------
(* No message is sent more often than mUbxRetriesCnt allows, no step lies  *)
(* past the last one, and only a u-blox device is configured.              *)
TypeOK ==
    /\ {up, mFd, mEnabled, mIsUbloxDevice} \subseteq BOOLEAN
    /\ init \in {"none", "reset", "poll", "waitver", "generation", "send",
                 "waitack", "setup", "done"}
    /\ step \in 1 .. 13
    /\ tries \in 0 .. RetriesCnt
    /\ handle \in {"none", "reading", "parked"}
    /\ mRmcFieldsNumber \in {0, 13, 14}
    /\ mUbxGeneration \in {"unset", "ublox7", "ublox8", "ubloxOther"}

(* The receiver uses a second system just when the parsers filter by it.   *)
(* PrepareGnssConfig misses the flags in the message of SPG 2.01, whose    *)
(* receiver uses neither, whatever the parsers expect: SecondSystemEnabled *)
(* below does not hold then.                                               *)
Uses(system, major) ==
    system \in receiver.config.systems <=>
        mMajorGnssStatus = major /\ receiver.firmware # SPG201

(* The handle thread reads only when the init thread has read its last     *)
(* answer.  Then the receiver speaks the protocol the parsers expect and   *)
(* never uses a second navigation system they filter out; with any but SPG *)
(* 2.01 it does use the one they filter by.  All this whatever was lost,   *)
(* repeated or rejected on the way and whatever an earlier process left.   *)
(* The parsers do have a system to filter by, but for a firmware of        *)
(* neither known version: there is nothing to agree on then.               *)
ConfigurationAgrees ==
    up /\ handle = "reading" =>
        /\ init = "done"
        /\ receiver.config.nmea =
             IF mRmcFieldsNumber = 14 THEN "nmea41" ELSE "nmea23"
        /\ IF mMajorGnssStatus = "unset"
           THEN receiver.firmware \notin {SPG201, SPG301}
           ELSE Uses("GLONASS", "GPS_GLONASS") /\ Uses("BEIDOU", "GPS_BEIDOU")

(* "enable GLONASS" (GnssHwTTY.cpp): a receiver that was told to use a     *)
(* second system uses it.                                                  *)
SecondSystemEnabled ==
    up /\ handle = "reading" /\ mMajorGnssStatus = "GPS_GLONASS" =>
        "GLONASS" \in receiver.config.systems

(* "No ACK received even during retries, give up" (GnssHwTTY.cpp): the     *)
(* init thread goes on to the next message only when the receiver has      *)
(* acknowledged, so applied, the one before.                               *)
AckedIsApplied ==
    [][up /\ step' = step + 1 => Steps[step] \in receiver.config.applied]_vars

(* The same for the messages that have a class and id of their own.        *)
OwnAckIsApplied ==
    [][up /\ step' = step + 1 =>
         \/ Steps[step] \in Rates
         \/ Steps[step] \in receiver.config.applied]_vars

(* The init thread ends its work and the handle thread reads, or it ends   *)
(* the process, which init starts again; only a receiver that falls silent *)
(* can hold it, in a read() that no time limit ends.                       *)
InitEnds ==
    init = "reset" ~> (handle = "reading" \/ ~up \/ ~receiver.talking)
=============================================================================
