--------------------------- MODULE GnssHwInitProofs ---------------------------
(***************************************************************************)
(* Proofs about the start-up of the receiver, for any number of retries    *)
(* and of messages lost, late or rejected, and any number of restarts.     *)
(***************************************************************************)
EXTENDS GnssHwInit, SequenceTheorems, TLAPS

Early == {"reset", "monver"}
Protocols == {"nmea23", "nmea41"}
ConfigMessages ==
    {"clear", "nmea23", "nmea41", "gnss", "nav5", "pubx", "gll", "vtg",
     "clock", "timegps", "status", "rmc", "measx"}
Messages == Early \union ConfigMessages
Answers == [kind : {"monver", "ack", "nack"},
            key : {"MON-VER", "CFG-MSG"} \union ConfigMessages]

Handshake == {"none", "reset", "poll", "waitver", "generation"}
Configuring == {"send", "waitack"}
Configured == {"setup", "done"}

Configs == [applied : SUBSET ConfigMessages, nmea : {"default"} \union Protocols,
            systems : SUBSET DOMAIN GnssId]
Receivers == [firmware : Firmwares, rejects : Rejected, talking : BOOLEAN,
              config : Configs]

(* What the receiver has yet to take, and what it has acknowledged and the *)
(* tty has not been read up to.                                            *)
Pending == {requests[n] : n \in DOMAIN requests}
Acked == {answers[n].key : n \in {m \in DOMAIN answers :
                                    answers[m].kind = "ack"}}

(* What this process tells the receiver.                                   *)
Protocol == IF mUbxGeneration = "ublox7" THEN "nmea23" ELSE "nmea41"
TellsSystems ==
    mUbxGeneration = "ublox7" \/ mUbxFirmwareVersion \in {SPG201, SPG301}
Told ==
    IF mUbxGeneration = "ublox7" THEN {"GPS", "SBAS", "QZSS"}
    ELSE SystemsOn(PrepareGnssConfig(mUbxFirmwareVersion, properties.secmajor,
                                     properties.sbas))
ToldMajor == IF mUbxGeneration = "ublox7" THEN "GPS_ONLY"
             ELSE MajorGnssStatus(properties.secmajor)

Types ==
    /\ up \in BOOLEAN /\ mIsUbloxDevice \in BOOLEAN
    /\ init \in Handshake \union Configuring \union Configured
    /\ step \in Nat \ {0} /\ tries \in Nat
    /\ handle \in {"none", "reading", "parked"}
    /\ requests \in Seq(Messages) /\ answers \in Seq(Answers)
    /\ receiver \in Receivers

(* The init thread is started once, for a device of a known generation     *)
(* when it configures it, and the handle thread comes after it.            *)
Phases ==
    /\ mIsUbloxDevice <=> init # "none"
    /\ handle # "none" => init = "done"
    /\ init \in Configuring \union Configured =>
         /\ mUbxGeneration \in {"ublox7", "ublox8"}
         /\ mUbxFirmwareVersion = receiver.firmware
    /\ init = "generation" => mUbxFirmwareVersion = receiver.firmware
    /\ init \in Handshake => step = 1
    /\ init \in Configuring => step <= Len(Steps)
    /\ init \in Configured => step > Len(Steps)

(* Nothing that configures the receiver is sent before a "clear".          *)
ClearFirst ==
    \A j, k \in DOMAIN requests :
       k < j /\ requests[j] = "clear" => requests[k] \in Early \union {"clear"}

(* So nothing else is acknowledged while a "clear" is pending.             *)
Pipeline ==
    /\ ClearFirst
    /\ "clear" \in Pending => Acked \subseteq {"clear"}
    /\ init \in Handshake => Pending \subseteq Early /\ Acked = {}
    /\ step = 1 => /\ Pending \subseteq Early \union {"clear"}
                   /\ Acked \subseteq {"clear"}
    /\ step > 2 => "clear" \notin Pending
    /\ Pending \intersect Protocols \subseteq {Protocol}

(* What is acknowledged is applied, and what this process has not told the *)
(* receiver is not, once the "clear" is: it keeps the configuration over a *)
(* restart of the process.                                                 *)
Applied ==
    LET config == receiver.config
    IN /\ Acked \ {"CFG-MSG"} \subseteq config.applied
       /\ step > 1 \/ "clear" \in Acked =>
            /\ config.applied \intersect Protocols \subseteq {Protocol}
            /\ Protocol \in config.applied => config.nmea = Protocol
            /\ "gnss" \in config.applied => config.systems = Told
       /\ step > 2 => Protocol \in config.applied
       /\ step > 3 /\ TellsSystems => "gnss" \in config.applied

(* What the parsers go by.                                                 *)
Remembered ==
    /\ mRmcFieldsNumber = IF step > 2 THEN FieldsOf(Protocol) ELSE 0
    /\ init = "waitack" => tries > 0
    /\ IF TellsSystems /\ (step > 3 \/ (step = 3 /\ tries > 0))
       THEN mMajorGnssStatus = ToldMajor ELSE mMajorGnssStatus = "unset"

(* The strengthening that every step keeps.                                *)
IInv == Types /\ Phases /\ Pipeline /\ Applied /\ Remembered
-----------------------------------------------------------------------------
(* The configuration messages in their order.                              *)
LEMMA StepsAre ==
  /\ Len(Steps) \in Nat /\ Len(Steps) > 3 /\ Len(Steps) <= 12
  /\ Steps[1] = "clear" /\ Steps[2] = Protocol
  /\ TellsSystems => Steps[3] = "gnss"
  /\ \A n \in 1 .. Len(Steps) :
       /\ Steps[n] \in ConfigMessages
       /\ n > 1 => Steps[n] # "clear"
       /\ Steps[n] \in Protocols => n = 2
       /\ Steps[n] = "gnss" => TellsSystems /\ n = 3
<1> DEFINE later == {"nav5", "pubx", "gll", "vtg", "clock", "timegps",
                     "status", "rmc", "measx"}
           poll == PollCommonMessages
           first == CASE mUbxGeneration = "ublox7" -> <<"clear", "nmea23", "gnss">>
                      [] OTHER -> IF TellsSystems
                                  THEN <<"clear", "nmea41", "gnss">>
                                  ELSE <<"clear", "nmea41">>
           last == IF mUbxGeneration = "ublox7" THEN poll
                   ELSE poll \o <<"measx">>
<1>1. poll \in Seq(later) /\ Len(poll) = 8
  BY DEF PollCommonMessages
<1>2. last \in Seq(later) /\ Len(last) \in Nat /\ Len(last) >= 8
      /\ Len(last) <= IF mUbxGeneration = "ublox7" THEN 8 ELSE 9
  <2>1. <<"measx">> \in Seq(later) /\ Len(<<"measx">>) = 1
    OBVIOUS
  <2> HIDE DEF poll, later
  <2>2. /\ poll \o <<"measx">> \in Seq(later)
        /\ Len(poll \o <<"measx">>) = Len(poll) + Len(<<"measx">>)
    BY <1>1, <2>1, ConcatProperties
  <2>3. QED
    BY <1>1, <2>1, <2>2
<1>3. /\ first \in Seq(ConfigMessages)
      /\ Len(first) \in {2, 3}
      /\ Len(first) = 3 <=> TellsSystems
      /\ first[1] = "clear" /\ first[2] = Protocol
      /\ TellsSystems => first[3] = "gnss"
  <2>1. CASE mUbxGeneration = "ublox7"
    BY <2>1 DEF Protocol, TellsSystems, ConfigMessages
  <2>2. CASE mUbxGeneration # "ublox7" /\ TellsSystems
    <3>1. first = <<"clear", "nmea41", "gnss">>
      BY <2>2
    <3>2. QED
      BY <2>2, <3>1 DEF Protocol, ConfigMessages
  <2>3. CASE mUbxGeneration # "ublox7" /\ ~TellsSystems
    <3>1. first = <<"clear", "nmea41">>
      BY <2>3
    <3>2. QED
      BY <2>3, <3>1 DEF Protocol, ConfigMessages
  <2>4. QED
    BY <2>1, <2>2, <2>3
<1>4. Steps = first \o last
  <2>1. CASE mUbxGeneration = "ublox7"
    BY <2>1 DEF Steps, InitUblox7Gen
  <2>2. CASE mUbxGeneration # "ublox7" /\ TellsSystems
    BY <2>2 DEF Steps, InitUblox8Gen, TellsSystems, PollCommonMessages
  <2>3. CASE mUbxGeneration # "ublox7" /\ ~TellsSystems
    BY <2>3 DEF Steps, InitUblox8Gen, TellsSystems, PollCommonMessages
  <2>4. QED
    BY <2>1, <2>2, <2>3
<1>5. later \subseteq ConfigMessages
  BY DEF ConfigMessages
<1>6. \A m \in later : m # "clear" /\ m # "gnss" /\ m \notin Protocols
  BY DEF Protocols
<1> HIDE DEF first, last, later, poll
<1>7. /\ Len(Steps) = Len(first) + Len(last)
      /\ \A n \in 1 .. Len(first) + Len(last) :
           Steps[n] = IF n <= Len(first) THEN first[n] ELSE last[n - Len(first)]
  <2>1. last \in Seq(ConfigMessages)
    BY <1>2, <1>5
  <2>2. QED
    BY <1>3, <1>4, <2>1, ConcatProperties
<1>8. ASSUME NEW n \in 1 .. Len(Steps), n > Len(first)
      PROVE  Steps[n] \in later
  <2>1. n - Len(first) \in 1 .. Len(last)
    BY <1>2, <1>3, <1>7, <1>8
  <2>2. Steps[n] = last[n - Len(first)]
    BY <1>2, <1>3, <1>7, <1>8
  <2>3. QED
    BY <1>2, <2>1, <2>2, ElementOfSeq
<1>9. /\ Steps[1] = "clear" /\ Steps[2] = Protocol
      /\ TellsSystems => Steps[3] = "gnss"
  BY <1>2, <1>3, <1>7
<1>10. Protocol \in Protocols
  BY DEF Protocol, Protocols
<1>11. Protocol # "gnss" /\ Protocol # "clear"
  BY DEF Protocol
<1>12. ASSUME NEW n \in 1 .. Len(Steps)
       PROVE  /\ Steps[n] \in ConfigMessages
              /\ n > 1 => Steps[n] # "clear"
              /\ Steps[n] \in Protocols => n = 2
              /\ Steps[n] = "gnss" => TellsSystems /\ n = 3
  <2>1. n > Len(first) \/ n = 1 \/ n = 2 \/ (n = 3 /\ TellsSystems)
    BY <1>2, <1>3, <1>7
  <2>2. CASE n > Len(first)
    BY <1>5, <1>6, <1>8, <2>2
  <2>3. CASE n = 1
    BY <1>9, <2>3 DEF Protocols, ConfigMessages
  <2>4. CASE n = 2
    BY <1>9, <1>10, <1>11, <2>4 DEF Protocols, ConfigMessages
  <2>5. CASE n = 3 /\ TellsSystems
    BY <1>9, <2>5 DEF Protocols, ConfigMessages
  <2>6. QED
    BY <2>1, <2>2, <2>3, <2>4, <2>5
<1>13. Len(Steps) \in Nat /\ Len(Steps) > 3 /\ Len(Steps) <= 12
  BY <1>2, <1>3, <1>7
<1>14. QED
  BY <1>9, <1>12, <1>13

(* What is left of a queue was in it.                                      *)
LEMMA TailIsLater ==
  ASSUME NEW S, NEW s \in Seq(S), s # <<>>
  PROVE  /\ Tail(s) \in Seq(S)
         /\ Len(Tail(s)) \in Nat /\ Len(s) = Len(Tail(s)) + 1
         /\ 1 \in DOMAIN s /\ Head(s) = s[1] /\ Head(s) \in S
         /\ \A n \in DOMAIN Tail(s) : n + 1 \in DOMAIN s /\ Tail(s)[n] = s[n + 1]
<1>1. Len(s) \in Nat /\ Len(s) # 0 /\ DOMAIN s = 1 .. Len(s)
  BY EmptySeq, LenProperties
<1>2. /\ Tail(s) \in Seq(S) /\ Len(Tail(s)) = Len(s) - 1
      /\ \A n \in 1 .. Len(s) - 1 : Tail(s)[n] = s[n + 1]
      /\ Head(s) = s[1]
  OBVIOUS
<1>3. DOMAIN Tail(s) = 1 .. Len(s) - 1
  BY <1>2, LenProperties
<1>4. s[1] \in S
  BY <1>1, ElementOfSeq
<1>5. QED
  BY <1>1, <1>2, <1>3, <1>4

(* An answer that is taken or lost acknowledges nothing any more.          *)
LEMMA FewerAnswers ==
  ASSUME answers \in Seq(Answers), answers # <<>>, answers' = Tail(answers)
  PROVE  /\ answers' \in Seq(Answers)
         /\ Acked' \subseteq Acked
         /\ Head(answers) \in Answers
         /\ Head(answers).kind = "ack" => Head(answers).key \in Acked
BY TailIsLater DEF Acked

(* A request that is taken or lost is pending no more.                     *)
LEMMA FewerRequests ==
  ASSUME requests \in Seq(Messages), requests # <<>>, ClearFirst,
         requests' = Tail(requests)
  PROVE  /\ requests' \in Seq(Messages)
         /\ Pending' \subseteq Pending
         /\ Head(requests) \in Pending /\ Head(requests) \in Messages
         /\ ClearFirst'
         /\ "clear" \in Pending' => Head(requests) \in Early \union {"clear"}
<1>1. /\ Tail(requests) \in Seq(Messages) /\ Len(Tail(requests)) \in Nat
      /\ 1 \in DOMAIN requests /\ Head(requests) = requests[1]
      /\ Head(requests) \in Messages
      /\ \A n \in DOMAIN Tail(requests) :
           n + 1 \in DOMAIN requests /\ Tail(requests)[n] = requests[n + 1]
  BY TailIsLater
<1>2. DOMAIN Tail(requests) = 1 .. Len(Tail(requests))
  BY <1>1, LenProperties
<1>3. ASSUME NEW j \in DOMAIN Tail(requests), NEW k \in DOMAIN Tail(requests),
             k < j, Tail(requests)[j] = "clear"
      PROVE  Tail(requests)[k] \in Early \union {"clear"}
  <2>1. k + 1 < j + 1 /\ j \in Nat /\ k \in Nat
    BY <1>2, <1>3
  <2>2. QED
    BY <1>1, <1>3, <2>1 DEF ClearFirst
<1>4. ASSUME NEW j \in DOMAIN Tail(requests), Tail(requests)[j] = "clear"
      PROVE  requests[1] \in Early \union {"clear"}
  <2>1. 1 < j + 1
    BY <1>2
  <2>2. QED
    BY <1>1, <1>4, <2>1 DEF ClearFirst
<1>5. QED
  BY <1>1, <1>3, <1>4 DEF Pending, ClearFirst

(* A request that is sent is pending, after all others.                    *)
LEMMA OneRequestMore ==
  ASSUME requests \in Seq(Messages), ClearFirst, NEW msg \in Messages,
         msg = "clear" => Pending \subseteq Early \union {"clear"},
         requests' = Append(requests, msg)
  PROVE  /\ requests' \in Seq(Messages)
         /\ Pending' = Pending \union {msg}
         /\ ClearFirst'
<1> DEFINE n == Len(requests)
           sent == Append(requests, msg)
<1>1. /\ n \in Nat /\ sent \in Seq(Messages)
      /\ DOMAIN requests = 1 .. n /\ DOMAIN sent = 1 .. n + 1
      /\ sent[n + 1] = msg
      /\ \A k \in 1 .. n : sent[k] = requests[k]
  BY LenProperties
<1> HIDE DEF sent, n
<1>2. ASSUME NEW j \in DOMAIN sent, NEW k \in DOMAIN sent,
             k < j, sent[j] = "clear"
      PROVE  sent[k] \in Early \union {"clear"}
  <2>1. k \in 1 .. n /\ sent[k] = requests[k] /\ k \in DOMAIN requests
    BY <1>1, <1>2
  <2>2. CASE j = n + 1
    BY <1>1, <1>2, <2>1, <2>2 DEF Pending
  <2>3. CASE j # n + 1
    <3>1. j \in 1 .. n
      BY <1>1, <2>3
    <3>2. QED
      BY <1>1, <1>2, <2>1, <3>1 DEF ClearFirst
  <2>4. QED
    BY <2>2, <2>3
<1>3. {sent[k] : k \in DOMAIN sent} = Pending \union {msg}
  <2>1. \A k \in DOMAIN sent : sent[k] \in Pending \union {msg}
    <3> SUFFICES ASSUME NEW k \in DOMAIN sent
                 PROVE  sent[k] \in Pending \union {msg}
      OBVIOUS
    <3>1. k = n + 1 \/ k \in 1 .. n
      BY <1>1
    <3>2. QED
      BY <1>1, <3>1 DEF Pending
  <2>2. n + 1 \in DOMAIN sent /\ \A k \in DOMAIN requests : k \in DOMAIN sent
    BY <1>1
  <2>3. QED
    BY <1>1, <2>1, <2>2 DEF Pending
<1>4. requests' = sent
  BY DEF sent
<1>5. QED
  BY <1>1, <1>2, <1>3, <1>4 DEF Pending, ClearFirst

(* The receiver answers a request once, and acknowledges what it applies.  *)
LEMMA AnswerGives ==
  ASSUME answers \in Seq(Answers), NEW msg \in Messages,
         answers' = answers \o Answer(msg)
  PROVE  /\ answers' \in Seq(Answers)
         /\ Acked' \subseteq Acked \union
              IF msg \in Early \union receiver.rejects THEN {} ELSE {Key(msg)}
<1> DEFINE given == Answer(msg)
           both == answers \o given
           acked == {n \in DOMAIN both : both[n].kind = "ack"}
<1>1. /\ given \in Seq(Answers) /\ Len(given) \in {0, 1}
      /\ Len(given) = 1 =>
           /\ given[1].kind \in {"ack", "nack", "monver"}
           /\ given[1].kind = "ack" =>
                msg \notin Early \union receiver.rejects /\ given[1].key = Key(msg)
  <2>1. CASE msg = "reset"
    BY <2>1 DEF Answer
  <2>2. CASE msg = "monver"
    <3>1. [kind |-> "monver", key |-> "MON-VER"] \in Answers
      BY DEF Answers
    <3>2. QED
      BY <2>2, <3>1 DEF Answer
  <2>3. CASE msg \in ConfigMessages
    <3> DEFINE kind == IF msg \in receiver.rejects THEN "nack" ELSE "ack"
    <3>1. Key(msg) \in {"CFG-MSG"} \union ConfigMessages
      BY <2>3 DEF Key
    <3>2. msg # "reset" /\ msg # "monver"
      BY <2>3 DEF ConfigMessages
    <3>3. given = <<[kind |-> kind, key |-> Key(msg)]>>
      BY <3>2 DEF Answer
    <3>4. [kind |-> kind, key |-> Key(msg)] \in Answers
      BY <3>1 DEF Answers
    <3> HIDE DEF given
    <3>5. QED
      BY <3>2, <3>3, <3>4 DEF Early
  <2>4. QED
    BY <2>1, <2>2, <2>3 DEF Messages, Early
<1> HIDE DEF given
<1>2. /\ both \in Seq(Answers) /\ Len(both) = Len(answers) + Len(given)
      /\ \A n \in 1 .. Len(answers) + Len(given) :
           both[n] = IF n <= Len(answers) THEN answers[n]
                     ELSE given[n - Len(answers)]
  BY <1>1, ConcatProperties
<1>3. /\ Len(answers) \in Nat /\ DOMAIN answers = 1 .. Len(answers)
      /\ DOMAIN both = 1 .. Len(answers) + Len(given)
  BY <1>2, LenProperties
<1> HIDE DEF both
<1>4. ASSUME NEW n \in DOMAIN both, both[n].kind = "ack"
      PROVE  \/ n \in DOMAIN answers /\ both[n] = answers[n]
             \/ /\ msg \notin Early \union receiver.rejects
                /\ both[n].key = Key(msg)
  <2>1. CASE n <= Len(answers)
    BY <1>2, <1>3, <1>4, <2>1
  <2>2. CASE ~(n <= Len(answers))
    <3>1. n - Len(answers) = 1 /\ Len(given) = 1
      <4>1. n \in 1 .. Len(answers) + Len(given)
        BY <1>3
      <4>2. Len(given) = 0 \/ Len(given) = 1
        BY <1>1
      <4>3. Len(given) # 0
        BY <1>3, <2>2, <4>1
      <4>4. Len(given) = 1
        BY <4>2, <4>3
      <4>5. n \in 1 .. Len(answers) + 1
        BY <4>1, <4>4
      <4>6. n = Len(answers) + 1
        BY <1>3, <2>2, <4>5
      <4>7. QED
        BY <1>3, <4>4, <4>6
    <3>2. both[n] = given[1]
      BY <1>2, <1>3, <1>4, <2>2, <3>1
    <3>3. QED
      BY <1>1, <1>4, <3>1, <3>2
  <2>3. QED
    BY <2>1, <2>2
<1>5. answers' = both
  BY DEF both, given
<1>6. QED
  BY <1>2, <1>4, <1>5 DEF Acked

-----------------------------------------------------------------------------
(* What this process tells the receiver follows from what it has found.    *)
LEMMA SameProcess ==
  ASSUME UNCHANGED <<mUbxGeneration, mUbxFirmwareVersion, properties>>
  PROVE  /\ Steps' = Steps /\ Protocol' = Protocol
         /\ TellsSystems' <=> TellsSystems
         /\ Told' = Told /\ ToldMajor' = ToldMajor
<1>1. Steps' = Steps
  BY DEF Steps, InitUblox7Gen, InitUblox8Gen
<1>2. Told' = Told
  BY DEF Told
<1>3. QED
  BY <1>1, <1>2 DEF Protocol, TellsSystems, ToldMajor

(* A step that takes from the pipeline and leaves the rest alone.          *)
LEMMA PipelineKept ==
  ASSUME Pipeline, Applied,
         UNCHANGED <<step, mUbxGeneration, mUbxFirmwareVersion, properties>>,
         receiver'.config = receiver.config,
         Pending' \subseteq Pending, Acked' \subseteq Acked, ClearFirst',
         init' \in Handshake => init \in Handshake
  PROVE  Pipeline' /\ Applied'
<1>1. /\ Protocol' = Protocol /\ Told' = Told
      /\ TellsSystems' <=> TellsSystems
  BY SameProcess
<1>2. Pipeline'
  BY <1>1 DEF Pipeline, Handshake, Early, Protocols
<1>3. Applied'
  BY <1>1 DEF Applied, Protocols
<1>4. QED
  BY <1>2, <1>3

(* What the parsers go by changes only with the init thread.               *)
LEMMA RememberedKept ==
  ASSUME Remembered,
         UNCHANGED <<step, tries, mRmcFieldsNumber, mMajorGnssStatus,
                     mUbxGeneration, mUbxFirmwareVersion, properties>>,
         init' = "waitack" => init = "waitack"
  PROVE  Remembered'
<1>1. /\ Protocol' = Protocol /\ ToldMajor' = ToldMajor
      /\ TellsSystems' <=> TellsSystems
  BY SameProcess
<1>2. QED
  BY <1>1 DEF Remembered, FieldsOf

-----------------------------------------------------------------------------
(* Steps that take a request or an answer away, or leave both queues alone *)
(* and the configuration messages where they are.                          *)
Bystander ==
    \/ Stop \/ SelectGeneration \/ GiveUp \/ TimeoutIdle \/ SetUpHandleThread
    \/ Timeout \/ HandleRead \/ HandleReadError \/ LoseRequest \/ LoseAnswer
    \/ FallSilent \/ UNCHANGED vars

LEMMA BystanderTakes ==
  ASSUME Types, ClearFirst, Bystander
  PROVE  /\ requests' \in Seq(Messages) /\ answers' \in Seq(Answers)
         /\ Pending' \subseteq Pending /\ Acked' \subseteq Acked /\ ClearFirst'
<1>1. \/ UNCHANGED <<requests, answers>>
      \/ answers # <<>> /\ answers' = Tail(answers) /\ requests' = requests
      \/ requests # <<>> /\ requests' = Tail(requests) /\ answers' = answers
  <2>1. CASE \/ Stop \/ SelectGeneration \/ GiveUp \/ TimeoutIdle
             \/ SetUpHandleThread \/ HandleReadError \/ FallSilent
             \/ UNCHANGED vars
    BY <2>1 DEF Stop, SelectGeneration, GiveUp, TimeoutIdle, SetUpHandleThread,
                HandleReadError, FallSilent, vars, CriticalProtocolError
  <2>2. CASE HandleRead \/ LoseAnswer \/ Timeout \/ LoseRequest
    BY <2>2 DEF HandleRead, LoseAnswer, Timeout, LoseRequest
  <2>3. QED
    BY <2>1, <2>2 DEF Bystander
<1>2. CASE UNCHANGED <<requests, answers>>
  BY <1>2 DEF Types, Pending, Acked, ClearFirst
<1>3. CASE answers # <<>> /\ answers' = Tail(answers) /\ requests' = requests
  <2>1. /\ answers' \in Seq(Answers) /\ Acked' \subseteq Acked
    BY <1>3, FewerAnswers DEF Types
  <2>2. requests' \in Seq(Messages) /\ Pending' = Pending /\ ClearFirst'
    BY <1>3 DEF Types, Pending, ClearFirst
  <2>3. QED
    BY <2>1, <2>2
<1>4. CASE requests # <<>> /\ requests' = Tail(requests) /\ answers' = answers
  <2>1. requests' \in Seq(Messages) /\ Pending' \subseteq Pending /\ ClearFirst'
    BY <1>4, FewerRequests DEF Types
  <2>2. answers' \in Seq(Answers) /\ Acked' = Acked
    BY <1>4 DEF Types, Acked
  <2>3. QED
    BY <2>1, <2>2
<1>5. QED
  BY <1>1, <1>2, <1>3, <1>4

LEMMA BystanderKeeps ==
  ASSUME Types, Bystander
  PROVE  /\ UNCHANGED <<step, tries, mRmcFieldsNumber, mMajorGnssStatus,
                        mIsUbloxDevice, mUbxGeneration, mUbxFirmwareVersion,
                        properties>>
         /\ receiver' \in Receivers /\ receiver'.config = receiver.config
         /\ receiver'.firmware = receiver.firmware
         /\ up' \in BOOLEAN
<1>1. receiver \in Receivers /\ up \in BOOLEAN
  BY DEF Types
<1>2. CASE Stop \/ HandleRead \/ HandleReadError \/ LoseRequest \/ LoseAnswer
  BY <1>1, <1>2 DEF Stop, HandleRead, HandleReadError, LoseRequest, LoseAnswer,
                    hostVars, initVars
<1>3. CASE FallSilent
  <2>1. receiver' = [receiver EXCEPT !.talking = FALSE]
    BY <1>3 DEF FallSilent
  <2>2. /\ receiver' \in Receivers /\ receiver'.config = receiver.config
        /\ receiver'.firmware = receiver.firmware
    BY <1>1, <2>1 DEF Receivers
  <2>3. QED
    BY <1>1, <1>3, <2>2 DEF FallSilent, hostVars, initVars
<1>4. CASE SelectGeneration \/ GiveUp
  BY <1>1, <1>4 DEF SelectGeneration, GiveUp, CriticalProtocolError
<1>5. CASE TimeoutIdle \/ Timeout \/ SetUpHandleThread
  BY <1>1, <1>5 DEF TimeoutIdle, Timeout, SetUpHandleThread, hostVars
<1>6. CASE UNCHANGED vars
  BY <1>1, <1>6 DEF vars, hostVars, initVars
<1>7. QED
  BY <1>2, <1>3, <1>4, <1>5, <1>6 DEF Bystander

LEMMA BystanderMoves ==
  ASSUME Bystander
  PROVE  /\ \/ init' = init
            \/ /\ init = "generation" /\ init' = "send"
               /\ mUbxGeneration \in {"ublox7", "ublox8"}
            \/ init = "waitver" /\ init' = "poll"
            \/ init = "waitack" /\ init' = "send"
            \/ init = "setup" /\ init' = "done"
         /\ \/ handle' = handle
            \/ handle = "reading" /\ handle' = "parked"
            \/ init' = "done" /\ handle' = "reading"
<1>1. CASE \/ Stop \/ HandleRead \/ HandleReadError \/ LoseRequest
           \/ LoseAnswer \/ FallSilent
  BY <1>1 DEF Stop, HandleRead, HandleReadError, LoseRequest, LoseAnswer,
              FallSilent, initVars
<1>2. CASE SelectGeneration \/ GiveUp
  BY <1>2 DEF SelectGeneration, GiveUp, CriticalProtocolError
<1>3. CASE TimeoutIdle \/ Timeout \/ SetUpHandleThread
  BY <1>3 DEF TimeoutIdle, Timeout, SetUpHandleThread
<1>4. CASE UNCHANGED vars
  BY <1>4 DEF vars, initVars
<1>5. QED
  BY <1>1, <1>2, <1>3, <1>4 DEF Bystander

LEMMA BystanderStep ==
  ASSUME IInv, Bystander
  PROVE  IInv'
<1> USE DEF Handshake, Configuring, Configured
<1>1. Types /\ Phases /\ Pipeline /\ Applied /\ Remembered /\ ClearFirst
  BY DEF IInv, Pipeline
<1>2. /\ requests' \in Seq(Messages) /\ answers' \in Seq(Answers)
      /\ Pending' \subseteq Pending /\ Acked' \subseteq Acked /\ ClearFirst'
  BY <1>1, BystanderTakes
<1>3. /\ UNCHANGED <<step, tries, mRmcFieldsNumber, mMajorGnssStatus,
                     mIsUbloxDevice, mUbxGeneration, mUbxFirmwareVersion,
                     properties>>
      /\ receiver' \in Receivers /\ receiver'.config = receiver.config
      /\ receiver'.firmware = receiver.firmware
      /\ up' \in BOOLEAN
  BY <1>1, BystanderKeeps
<1>4. /\ \/ init' = init
         \/ /\ init = "generation" /\ init' = "send"
            /\ mUbxGeneration \in {"ublox7", "ublox8"}
         \/ init = "waitver" /\ init' = "poll"
         \/ init = "waitack" /\ init' = "send"
         \/ init = "setup" /\ init' = "done"
      /\ \/ handle' = handle
         \/ handle = "reading" /\ handle' = "parked"
         \/ init' = "done" /\ handle' = "reading"
  BY BystanderMoves
<1>5. /\ Steps' = Steps
      /\ Len(Steps) \in Nat /\ Len(Steps) > 3
  BY <1>3, SameProcess, StepsAre
<1>6. Types'
  BY <1>1, <1>2, <1>3, <1>4 DEF Types
<1>7. Phases'
  <2>1. step \in Nat
    BY <1>1 DEF Types
  <2>2. QED
    BY <1>1, <1>3, <1>4, <1>5, <2>1 DEF Phases
<1>8. Pipeline' /\ Applied'
  BY <1>1, <1>2, <1>3, <1>4, PipelineKept
<1>9. Remembered'
  BY <1>1, <1>3, <1>4, RememberedKept
<1>10. QED
  BY <1>6, <1>7, <1>8, <1>9 DEF IInv

-----------------------------------------------------------------------------
(* Until the configuration begins nothing is pending that configures.      *)
LEMMA InHandshake ==
  ASSUME init' \in Handshake, step' = 1, requests' \in Seq(Messages),
         Pending' \subseteq Early, Acked' = {},
         mRmcFieldsNumber' = 0, mMajorGnssStatus' = "unset"
  PROVE  Pipeline' /\ Applied' /\ Remembered'
<1>1. ClearFirst'
  BY DEF ClearFirst, Pending, Early
<1>2. Pipeline'
  BY <1>1 DEF Pipeline, Early, Protocols
<1>3. Applied'
  BY DEF Applied
<1>4. Remembered'
  BY DEF Remembered, Handshake
<1>5. QED
  BY <1>2, <1>3, <1>4

LEMMA StartStep ==
  ASSUME IInv, NEW tty \in BOOLEAN, NEW bus \in Buses, Start(tty, bus)
  PROVE  IInv'
<1> USE DEF Handshake, Configuring, Configured
<1>1. Types /\ Phases /\ Pipeline /\ Applied /\ Remembered
  BY DEF IInv
<1>2. UNCHANGED <<step, tries, mUbxFirmwareVersion, mMajorGnssStatus,
                  mRmcFieldsNumber, handle, requests, answers, receiver,
                  properties, up>>
  BY DEF Start
<1>3. Pending' = Pending /\ Acked' = Acked /\ (ClearFirst' <=> ClearFirst)
  BY <1>2 DEF Pending, Acked, ClearFirst
<1>4. CASE UNCHANGED <<mIsUbloxDevice, mUbxGeneration, init>>
  <2>1. Types'
    BY <1>1, <1>2, <1>4 DEF Types
  <2>2. Phases'
    BY <1>1, <1>2, <1>4, SameProcess DEF Phases
  <2>3. Pipeline' /\ Applied'
    BY <1>1, <1>2, <1>3, <1>4, PipelineKept DEF Pipeline
  <2>4. Remembered'
    BY <1>1, <1>2, <1>4, RememberedKept
  <2>5. QED
    BY <2>1, <2>2, <2>3, <2>4 DEF IInv
<1>5. CASE ~mIsUbloxDevice /\ mIsUbloxDevice' = TRUE /\ init' = "reset"
  <2>1. init = "none" /\ step = 1 /\ handle = "none"
    BY <1>1, <1>5 DEF Phases, Types
  <2>2. Types'
    BY <1>1, <1>2, <1>5 DEF Types
  <2>3. Phases'
    BY <1>2, <1>5, <2>1 DEF Phases
  <2>4. Pending \subseteq Early /\ Acked = {}
    BY <1>1, <2>1 DEF Pipeline
  <2>5. mRmcFieldsNumber = 0 /\ mMajorGnssStatus = "unset"
    BY <1>1, <2>1 DEF Remembered
  <2>6. Pipeline' /\ Applied' /\ Remembered'
    BY <1>1, <1>2, <1>3, <1>5, <2>1, <2>4, <2>5, InHandshake DEF Types
  <2>7. QED
    BY <2>2, <2>3, <2>6 DEF IInv
<1>6. QED
  BY <1>4, <1>5 DEF Start, RunWorkerThreads

(* The reset and the poll of the version.                                  *)
LEMMA PollStep ==
  ASSUME IInv, ResetOnStart \/ PollMonVer
  PROVE  IInv'
<1> USE DEF Handshake, Configuring, Configured
<1>1. Types /\ Phases /\ Pipeline /\ Applied /\ Remembered /\ ClearFirst
  BY DEF IInv, Pipeline
<1>2. /\ UNCHANGED <<up, mIsUbloxDevice, step, mUbxFirmwareVersion,
                     mMajorGnssStatus, mRmcFieldsNumber, handle, answers,
                     receiver>>
      /\ init \in {"reset", "poll"} /\ init' \in {"poll", "waitver"}
      /\ tries' \in {tries, tries + 1}
      /\ \E msg \in Early : requests' = Append(requests, msg)
  BY DEF ResetOnStart, PollMonVer, hostVars, UBX_Send, Early
<1>3. PICK msg \in Early : requests' = Append(requests, msg)
  BY <1>2
<1>4. step = 1 /\ Pending \subseteq Early /\ Acked = {} /\ handle = "none"
      /\ mRmcFieldsNumber = 0 /\ mMajorGnssStatus = "unset"
  <2>1. step = 1 /\ Pending \subseteq Early /\ Acked = {}
    BY <1>1, <1>2 DEF Phases, Pipeline
  <2>2. handle = "none"
    BY <1>1, <1>2 DEF Phases
  <2>3. mRmcFieldsNumber = 0 /\ mMajorGnssStatus = "unset"
    BY <1>1, <2>1 DEF Remembered
  <2>4. QED
    BY <2>1, <2>2, <2>3
<1>5. requests' \in Seq(Messages) /\ Pending' = Pending \union {msg}
  <2>1. msg \in Messages /\ msg # "clear"
    BY DEF Messages, Early
  <2>2. QED
    BY <1>1, <1>3, <2>1, OneRequestMore DEF Types
<1>6. Types'
  BY <1>1, <1>2, <1>5 DEF Types
<1>7. Phases'
  BY <1>1, <1>2, <1>4 DEF Phases
<1>8. Acked' = {} /\ Pending' \subseteq Early
  BY <1>2, <1>4, <1>5 DEF Acked
<1>9. Pipeline' /\ Applied' /\ Remembered'
  BY <1>2, <1>4, <1>5, <1>8, InHandshake
<1>10. QED
  BY <1>6, <1>7, <1>9 DEF IInv

LEMMA WaitMonVerStep ==
  ASSUME IInv, WaitMonVer
  PROVE  IInv'
<1> USE DEF Handshake, Configuring, Configured
<1>1. Types /\ Phases /\ Pipeline /\ Applied /\ Remembered /\ ClearFirst
  BY DEF IInv, Pipeline
<1>2. /\ UNCHANGED <<up, mIsUbloxDevice, step, mMajorGnssStatus,
                     mRmcFieldsNumber, handle, requests, receiver>>
      /\ init = "waitver"
      /\ \/ init' = "waitver" /\ tries' = tries
         \/ init' = "generation" /\ tries' = 0
            /\ mUbxFirmwareVersion' = receiver.firmware
      /\ answers # <<>> /\ answers' = Tail(answers)
  BY DEF WaitMonVer, hostVars
<1>3. step = 1 /\ Pending \subseteq Early /\ Acked = {} /\ handle = "none"
      /\ mRmcFieldsNumber = 0 /\ mMajorGnssStatus = "unset"
  <2>1. step = 1 /\ Pending \subseteq Early /\ Acked = {}
    BY <1>1, <1>2 DEF Phases, Pipeline
  <2>2. handle = "none"
    BY <1>1, <1>2 DEF Phases
  <2>3. mRmcFieldsNumber = 0 /\ mMajorGnssStatus = "unset"
    BY <1>1, <2>1 DEF Remembered
  <2>4. QED
    BY <2>1, <2>2, <2>3
<1>4. answers' \in Seq(Answers) /\ Acked' = {}
  BY <1>1, <1>2, <1>3, FewerAnswers DEF Types
<1>5. requests' \in Seq(Messages) /\ Pending' \subseteq Early
  BY <1>1, <1>2, <1>3 DEF Types, Pending
<1>6. Types'
  BY <1>1, <1>2, <1>4, <1>5 DEF Types
<1>7. Phases'
  BY <1>1, <1>2, <1>3 DEF Phases
<1>8. Pipeline' /\ Applied' /\ Remembered'
  BY <1>2, <1>3, <1>4, <1>5, InHandshake
<1>9. QED
  BY <1>6, <1>7, <1>8 DEF IInv

(* The receiver keeps its configuration, the process forgets all it knew.  *)
LEMMA RestartStep ==
  ASSUME IInv, Restart
  PROVE  IInv'
<1> USE DEF Handshake, Configuring, Configured
<1>1. receiver \in Receivers /\ receiver' = receiver
  BY DEF Restart, IInv, Types
<1>2. /\ up' = TRUE /\ mIsUbloxDevice' = (board = "kingfisher")
      /\ init' = IF board = "kingfisher" THEN "reset" ELSE "none"
      /\ step' = 1 /\ tries' = 0 /\ handle' = "none"
      /\ mRmcFieldsNumber' = 0 /\ mMajorGnssStatus' = "unset"
      /\ requests' = <<>> /\ answers' = <<>>
  BY DEF Restart
<1>3. /\ requests' \in Seq(Messages) /\ answers' \in Seq(Answers)
      /\ Pending' = {} /\ Acked' = {}
  BY <1>2 DEF Pending, Acked
<1>4. Types'
  BY <1>1, <1>2, <1>3 DEF Types
<1>5. Phases'
  BY <1>2 DEF Phases
<1>6. Pipeline' /\ Applied' /\ Remembered'
  BY <1>2, <1>3, InHandshake
<1>7. QED
  BY <1>4, <1>5, <1>6 DEF IInv

-----------------------------------------------------------------------------
(* The configuration goes one message at a time.                           *)
LEMMA SendConfigStep ==
  ASSUME IInv, SendConfig
  PROVE  IInv'
<1> USE DEF Handshake, Configuring, Configured
<1> DEFINE msg == Steps[step]
<1>1. Types /\ Phases /\ Pipeline /\ Applied /\ Remembered /\ ClearFirst
  BY DEF IInv, Pipeline
<1>2. /\ UNCHANGED <<up, mIsUbloxDevice, mUbxGeneration, step, handle,
                     mUbxFirmwareVersion, mRmcFieldsNumber, answers, receiver,
                     properties>>
      /\ init = "send" /\ init' = "waitack"
      /\ tries' = tries + 1
      /\ requests' = Append(requests, msg)
      /\ SendConfigMajor
  BY DEF SendConfig, hostVars, UBX_Send
<1>3. /\ step \in Nat /\ step >= 1 /\ tries \in Nat
      /\ step \in 1 .. Len(Steps) /\ Len(Steps) \in Nat
  BY <1>1, <1>2, StepsAre DEF Types, Phases
<1>4. /\ msg \in ConfigMessages /\ msg \in Messages
      /\ step = 1 => msg = "clear"
      /\ step > 1 => msg # "clear"
      /\ step = 2 => msg = Protocol
      /\ msg \in Protocols => step = 2
      /\ msg = "gnss" => TellsSystems /\ step = 3
      /\ TellsSystems /\ step = 3 => msg = "gnss"
  BY <1>3, StepsAre DEF Messages
<1>5. /\ Steps' = Steps /\ Protocol' = Protocol /\ Told' = Told
      /\ ToldMajor' = ToldMajor /\ (TellsSystems' <=> TellsSystems)
  BY <1>2, SameProcess
<1> HIDE DEF msg
<1>6. /\ requests' \in Seq(Messages)
      /\ Pending' = Pending \union {msg}
      /\ ClearFirst'
  <2>1. msg = "clear" => Pending \subseteq Early \union {"clear"}
    BY <1>1, <1>3, <1>4 DEF Pipeline
  <2>2. QED
    BY <1>1, <1>2, <1>4, <2>1, OneRequestMore DEF Types
<1>7. answers' \in Seq(Answers) /\ Acked' = Acked
  BY <1>1, <1>2 DEF Types, Acked
<1>8. Types'
  BY <1>1, <1>2, <1>3, <1>6, <1>7 DEF Types
<1>9. Phases'
  BY <1>1, <1>2, <1>5 DEF Phases
<1>10. Pipeline'
  <2>1. "clear" \in Pending' => Acked' \subseteq {"clear"}
    BY <1>1, <1>3, <1>4, <1>6, <1>7 DEF Pipeline
  <2>2. step' = 1 => /\ Pending' \subseteq Early \union {"clear"}
                     /\ Acked' \subseteq {"clear"}
    BY <1>1, <1>2, <1>4, <1>6, <1>7 DEF Pipeline
  <2>3. step' > 2 => "clear" \notin Pending'
    BY <1>1, <1>2, <1>3, <1>4, <1>6 DEF Pipeline
  <2>4. Pending' \intersect Protocols \subseteq {Protocol'}
    BY <1>1, <1>4, <1>5, <1>6 DEF Pipeline
  <2>5. init' \notin Handshake
    BY <1>2
  <2>6. QED
    BY <1>6, <2>1, <2>2, <2>3, <2>4, <2>5, <1>5 DEF Pipeline, Early, Protocols
<1>11. Applied'
  BY <1>1, <1>2, <1>5, <1>7 DEF Applied, Protocols
<1>12. Remembered'
  <2>1. CASE msg = "gnss" /\ tries = 0
    <3>1. mMajorGnssStatus' = ToldMajor
      BY <1>2, <2>1 DEF SendConfigMajor, ToldMajor, msg
    <3>2. QED
      BY <1>1, <1>2, <1>3, <1>4, <1>5, <2>1, <3>1 DEF Remembered, FieldsOf
  <2>2. CASE ~(msg = "gnss" /\ tries = 0)
    <3>1. mMajorGnssStatus' = mMajorGnssStatus
      BY <1>2, <2>2 DEF SendConfigMajor, msg
    <3>2. TellsSystems /\ step = 3 => tries > 0
      BY <1>3, <1>4, <2>2
    <3>3. QED
      BY <1>1, <1>2, <1>3, <1>5, <3>1, <3>2 DEF Remembered, FieldsOf
  <2>3. QED
    BY <2>1, <2>2
<1>13. QED
  BY <1>8, <1>9, <1>10, <1>11, <1>12 DEF IInv

(* An answer that is not the ACK of the message at hand.                   *)
LEMMA WaitOnStep ==
  ASSUME IInv, WaitAck, ~(Head(answers).kind # "monver" /\ Acks(Head(answers)))
  PROVE  IInv'
<1> USE DEF Handshake, Configuring, Configured
<1>1. Types /\ Phases /\ Pipeline /\ Applied /\ Remembered /\ ClearFirst
  BY DEF IInv, Pipeline
<1>2. /\ UNCHANGED <<up, mIsUbloxDevice, mUbxGeneration, mUbxFirmwareVersion,
                     mMajorGnssStatus, handle, requests, receiver, properties>>
      /\ init = "waitack"
      /\ answers # <<>> /\ answers' = Tail(answers)
  BY DEF WaitAck, hostVars
<1>3. UNCHANGED <<step, tries, mRmcFieldsNumber>> /\ init' \in {"waitack", "send"}
  BY <1>2 DEF WaitAck, Acks
<1>4. answers' \in Seq(Answers) /\ Acked' \subseteq Acked
  BY <1>1, <1>2, FewerAnswers DEF Types
<1>5. requests' \in Seq(Messages) /\ Pending' = Pending /\ ClearFirst'
  BY <1>1, <1>2 DEF Types, Pending, ClearFirst
<1>6. Types'
  BY <1>1, <1>2, <1>3, <1>4, <1>5 DEF Types
<1>7. Phases'
  BY <1>1, <1>2, <1>3, SameProcess DEF Phases
<1>8. Pipeline' /\ Applied'
  BY <1>1, <1>2, <1>3, <1>4, <1>5, PipelineKept
<1>9. Remembered'
  BY <1>1, <1>2, <1>3, RememberedKept
<1>10. QED
  BY <1>6, <1>7, <1>8, <1>9 DEF IInv

(* The ACK of the message at hand, which tells of the receiver.            *)
LEMMA AckGives ==
  ASSUME IInv, WaitAck, Head(answers).kind # "monver", Acks(Head(answers))
  PROVE  /\ Key(Steps[step]) \in Acked
         /\ step \in 1 .. Len(Steps)
         /\ NextStep
<1> USE DEF Handshake, Configuring, Configured
<1>1. init = "waitack" /\ answers # <<>> /\ answers' = Tail(answers)
  BY DEF WaitAck
<1>2. Head(answers).kind = "ack" /\ Head(answers).key = Key(Steps[step])
  BY DEF Acks
<1>3. Head(answers).key \in Acked
  BY <1>1, <1>2, FewerAnswers DEF IInv, Types
<1>4. step \in 1 .. Len(Steps)
  BY <1>1, StepsAre DEF IInv, Types, Phases
<1>5. NextStep
  BY DEF WaitAck
<1>6. QED
  BY <1>2, <1>3, <1>4, <1>5

(* A message that has a class and id of its own is acknowledged only when  *)
(* it is applied.                                                          *)
LEMMA OwnAckGives ==
  ASSUME IInv, step \in 1 .. Len(Steps), Key(Steps[step]) \in Acked,
         Steps[step] \notin Rates
  PROVE  /\ Steps[step] \in Acked
         /\ Steps[step] \in receiver.config.applied
<1>1. Key(Steps[step]) = Steps[step]
  BY DEF Key
<1>2. Steps[step] # "CFG-MSG"
  BY StepsAre DEF ConfigMessages
<1>3. QED
  BY <1>1, <1>2 DEF IInv, Applied

LEMMA AckStep ==
  ASSUME IInv, WaitAck, Head(answers).kind # "monver", Acks(Head(answers))
  PROVE  IInv'
<1> USE DEF Handshake, Configuring, Configured
<1> DEFINE msg == Steps[step]
<1>1. Types /\ Phases /\ Pipeline /\ Applied /\ Remembered /\ ClearFirst
  BY DEF IInv, Pipeline
<1>2. /\ UNCHANGED <<up, mIsUbloxDevice, mUbxGeneration, mUbxFirmwareVersion,
                     mMajorGnssStatus, handle, requests, receiver, properties>>
      /\ init = "waitack"
      /\ answers # <<>> /\ answers' = Tail(answers)
  BY DEF WaitAck, hostVars
<1>3. /\ step' = step + 1 /\ tries' = 0
      /\ init' = IF step = Len(Steps) THEN "setup" ELSE "send"
      /\ mRmcFieldsNumber' = IF msg \in Protocols
                             THEN FieldsOf(msg) ELSE mRmcFieldsNumber
      /\ step \in 1 .. Len(Steps) /\ Len(Steps) \in Nat /\ step \in Nat
  BY AckGives, StepsAre DEF NextStep, Protocols
<1>4. /\ step = 1 => msg = "clear"
      /\ step = 2 => msg = Protocol
      /\ msg \in Protocols => step = 2
      /\ TellsSystems /\ step = 3 => msg = "gnss"
  BY <1>3, StepsAre
<1>5. /\ Steps' = Steps /\ Protocol' = Protocol /\ Told' = Told
      /\ ToldMajor' = ToldMajor /\ (TellsSystems' <=> TellsSystems)
  BY <1>2, SameProcess
<1>6. msg \in {"clear", "gnss"} \union Protocols =>
        msg \in Acked /\ msg \in receiver.config.applied
  BY AckGives, OwnAckGives DEF Rates, Protocols
<1>7. Protocol \in Protocols /\ Protocol # "clear"
  BY DEF Protocol, Protocols
<1> HIDE DEF msg
<1>8. answers' \in Seq(Answers) /\ Acked' \subseteq Acked
  BY <1>1, <1>2, FewerAnswers DEF Types
<1>9. requests' \in Seq(Messages) /\ Pending' = Pending /\ ClearFirst'
  BY <1>1, <1>2 DEF Types, Pending, ClearFirst
<1>10. Types'
  BY <1>1, <1>2, <1>3, <1>8, <1>9 DEF Types
<1>11. Phases'
  BY <1>1, <1>2, <1>3, <1>5 DEF Phases
<1>12. Pipeline'
  <2>1. step' # 1 /\ init' \notin Handshake
    BY <1>3
  <2>2. step' > 2 => "clear" \notin Pending'
    <3>1. CASE step > 2
      BY <1>1, <1>9, <3>1 DEF Pipeline
    <3>2. CASE step = 2
      BY <1>1, <1>4, <1>6, <1>7, <1>9, <3>2 DEF Pipeline
    <3>3. CASE step = 1
      BY <1>3, <3>3
    <3>4. QED
      BY <1>3, <3>1, <3>2, <3>3
  <2>3. QED
    BY <1>1, <1>5, <1>8, <1>9, <2>1, <2>2 DEF Pipeline, Early, Protocols
<1>13. Applied'
  <2>1. step > 1 \/ "clear" \in Acked
    BY <1>3, <1>4, <1>6
  <2>2. step' > 2 => Protocol \in receiver.config.applied
    BY <1>1, <1>3, <1>4, <1>6, <1>7 DEF Applied
  <2>3. step' > 3 /\ TellsSystems => "gnss" \in receiver.config.applied
    BY <1>1, <1>3, <1>4, <1>6 DEF Applied
  <2>4. receiver' = receiver
    BY <1>2
  <2>5. QED
    BY <1>1, <1>5, <1>8, <2>1, <2>2, <2>3, <2>4 DEF Applied, Protocols
<1>14. Remembered'
  <2>1. mRmcFieldsNumber' = IF step' > 2 THEN FieldsOf(Protocol) ELSE 0
    BY <1>1, <1>3, <1>4, <1>7 DEF Remembered
  <2>2. init' # "waitack"
    BY <1>3
  <2>3. tries > 0
    BY <1>1, <1>2 DEF Remembered
  <2>4. IF TellsSystems /\ step' > 3
        THEN mMajorGnssStatus' = ToldMajor ELSE mMajorGnssStatus' = "unset"
    BY <1>1, <1>2, <1>3, <2>3 DEF Remembered
  <2>5. (TellsSystems /\ (step > 3 \/ (step = 3 /\ tries > 0)))'
          <=> TellsSystems /\ step' > 3
    BY <1>3, <1>5
  <2>6. FieldsOf(Protocol)' = FieldsOf(Protocol)
    BY <1>5 DEF FieldsOf
  <2>7. QED
    BY <1>5, <2>1, <2>2, <2>4, <2>5, <2>6 DEF Remembered
<1>15. QED
  BY <1>10, <1>11, <1>12, <1>13, <1>14 DEF IInv

-----------------------------------------------------------------------------
(* What a message does to the receiver's configuration.                    *)
LEMMA ApplyGives ==
  ASSUME NEW config \in Configs, NEW msg \in ConfigMessages
  PROVE  /\ Apply(config, msg) \in Configs
         /\ msg = "clear" => Apply(config, msg).applied = {"clear"}
         /\ msg # "clear" =>
              Apply(config, msg).applied = config.applied \union {msg}
         /\ msg \in Protocols => Apply(config, msg).nmea = msg
         /\ msg \notin Protocols \union {"clear"} =>
              Apply(config, msg).nmea = config.nmea
         /\ msg = "gnss" => Apply(config, msg).systems = Told
         /\ msg \notin {"clear", "gnss"} =>
              Apply(config, msg).systems = config.systems
<1> USE DEF Configs
<1>1. CASE msg = "clear"
  <2>1. Apply(config, msg) = [applied |-> {"clear"}, nmea |-> "default",
                              systems |-> {"GPS"}]
    BY <1>1 DEF Apply, Default
  <2>2. {"clear"} \in SUBSET ConfigMessages /\ {"GPS"} \in SUBSET DOMAIN GnssId
    BY DEF ConfigMessages, GnssId
  <2>3. QED
    BY <1>1, <2>1, <2>2 DEF Protocols
<1>2. CASE msg \in Protocols
  <2>1. Apply(config, msg) = [config EXCEPT !.nmea = msg,
                                            !.applied = @ \union {msg}]
    BY <1>2 DEF Apply, Protocols
  <2>2. /\ config.applied \in SUBSET ConfigMessages
        /\ config.systems \in SUBSET DOMAIN GnssId
    OBVIOUS
  <2>3. Apply(config, msg) = [applied |-> config.applied \union {msg},
                              nmea |-> msg, systems |-> config.systems]
    BY <2>1
  <2>4. msg \in {"default"} \union Protocols
    BY <1>2
  <2>5. config.applied \union {msg} \in SUBSET ConfigMessages
    BY <2>2
  <2>6. Apply(config, msg) \in Configs
    BY <2>2, <2>3, <2>4, <2>5
  <2>7. msg # "clear" /\ msg # "gnss"
    BY <1>2 DEF Protocols
  <2>8. QED
    BY <1>2, <2>3, <2>6, <2>7
<1>3. CASE msg = "gnss"
  <2>1. Apply(config, msg) = [config EXCEPT !.systems = Told,
                                            !.applied = @ \union {msg}]
    BY <1>3 DEF Apply, Told
  <2>2. Told \in SUBSET DOMAIN GnssId
    BY DEF Told, SystemsOn, GnssId
  <2>3. QED
    BY <1>3, <2>1, <2>2 DEF Protocols
<1>4. CASE msg \notin {"clear", "gnss"} \union Protocols
  <2>1. Apply(config, msg) = [config EXCEPT !.applied = @ \union {msg}]
    BY <1>4 DEF Apply, Protocols
  <2>2. QED
    BY <1>4, <2>1
<1>5. QED
  BY <1>1, <1>2, <1>3, <1>4

(* A request that the receiver takes and turns down, or that is not about  *)
(* its configuration.                                                      *)
LEMMA AnswerOnlyStep ==
  ASSUME IInv, ReceiverAnswers, Head(requests) \in Early \union receiver.rejects
  PROVE  IInv'
<1> USE DEF Handshake, Configuring, Configured
<1>1. Types /\ Phases /\ Pipeline /\ Applied /\ Remembered /\ ClearFirst
  BY DEF IInv, Pipeline
<1>2. /\ UNCHANGED <<up, mIsUbloxDevice, mUbxGeneration, mUbxFirmwareVersion,
                     mMajorGnssStatus, mRmcFieldsNumber, handle, init, step,
                     tries, receiver, properties>>
      /\ requests # <<>> /\ requests' = Tail(requests)
      /\ answers' = answers \o Answer(Head(requests))
  BY DEF ReceiverAnswers, hostVars, initVars, Early
<1>3. /\ requests' \in Seq(Messages) /\ Pending' \subseteq Pending
      /\ ClearFirst' /\ Head(requests) \in Messages
  BY <1>1, <1>2, FewerRequests DEF Types
<1>4. answers' \in Seq(Answers) /\ Acked' \subseteq Acked
  BY <1>1, <1>2, <1>3, AnswerGives DEF Types
<1>5. Types'
  BY <1>1, <1>2, <1>3, <1>4 DEF Types
<1>6. Phases'
  BY <1>1, <1>2, SameProcess DEF Phases
<1>7. Pipeline' /\ Applied'
  BY <1>1, <1>2, <1>3, <1>4, PipelineKept
<1>8. Remembered'
  BY <1>1, <1>2, RememberedKept
<1>9. QED
  BY <1>5, <1>6, <1>7, <1>8 DEF IInv

(* A request that configures the receiver.                                 *)
LEMMA ApplyStep ==
  ASSUME IInv, ReceiverAnswers, Head(requests) \notin Early \union receiver.rejects
  PROVE  IInv'
<1> USE DEF Handshake, Configuring, Configured
<1> DEFINE msg == Head(requests)
           config == receiver.config
           new == Apply(config, msg)
<1>1. Types /\ Phases /\ Pipeline /\ Applied /\ Remembered /\ ClearFirst
  BY DEF IInv, Pipeline
<1>2. /\ UNCHANGED <<up, mIsUbloxDevice, mUbxGeneration, mUbxFirmwareVersion,
                     mMajorGnssStatus, mRmcFieldsNumber, handle, init, step,
                     tries, properties>>
      /\ requests # <<>> /\ requests' = Tail(requests)
      /\ answers' = answers \o Answer(msg)
      /\ receiver' = [receiver EXCEPT !.config = Apply(@, msg)]
  BY DEF ReceiverAnswers, hostVars, initVars, Early
<1>3. /\ requests' \in Seq(Messages) /\ Pending' \subseteq Pending
      /\ ClearFirst' /\ msg \in Messages /\ msg \in Pending
      /\ "clear" \in Pending' => msg \in Early \union {"clear"}
  BY <1>1, <1>2, FewerRequests DEF Types
<1>4. msg \in ConfigMessages /\ msg \notin Early
  BY <1>3 DEF Messages
<1>5. answers' \in Seq(Answers) /\ Acked' \subseteq Acked \union {Key(msg)}
  BY <1>1, <1>2, <1>3, AnswerGives DEF Types
<1>6. receiver \in Receivers /\ config \in Configs
  BY <1>1 DEF Types, Receivers
<1>7. /\ new \in Configs
      /\ msg = "clear" => new.applied = {"clear"}
      /\ msg # "clear" => new.applied = config.applied \union {msg}
      /\ msg \in Protocols => new.nmea = msg
      /\ msg \notin Protocols \union {"clear"} => new.nmea = config.nmea
      /\ msg = "gnss" => new.systems = Told
      /\ msg \notin {"clear", "gnss"} => new.systems = config.systems
  BY <1>4, <1>6, ApplyGives
<1>8. /\ receiver' \in Receivers /\ receiver'.config = new
      /\ receiver'.firmware = receiver.firmware
  <2>1. receiver' = [receiver EXCEPT !.config = new]
    BY <1>2
  <2> HIDE DEF new
  <2>2. QED
    BY <1>6, <1>7, <2>1 DEF Receivers
<1> HIDE DEF new
<1>9. init \notin Handshake /\ (step = 1 => msg = "clear")
  BY <1>1, <1>3, <1>4 DEF Pipeline
<1>10. /\ Steps' = Steps /\ Protocol' = Protocol /\ Told' = Told
       /\ ToldMajor' = ToldMajor /\ (TellsSystems' <=> TellsSystems)
  BY <1>2, SameProcess
<1>11. /\ Key(msg) \in {msg, "CFG-MSG"}
       /\ msg = "clear" => Key(msg) = "clear"
  BY DEF Key, Rates
<1>12. Protocol \in Protocols /\ "clear" \notin Protocols /\ "gnss" \notin Protocols
  BY DEF Protocol, Protocols
<1>13. Types'
  BY <1>1, <1>2, <1>3, <1>5, <1>8 DEF Types
<1>14. Phases'
  BY <1>1, <1>2, <1>8, <1>10 DEF Phases
<1>15. msg = "clear" => Acked' \subseteq {"clear"} /\ step <= 2
  <2>1. step \in Nat
    BY <1>1 DEF Types
  <2>2. QED
    BY <1>1, <1>3, <1>5, <1>11, <2>1 DEF Pipeline
<1>16. Pipeline'
  <2>1. "clear" \in Pending' => Acked' \subseteq {"clear"}
    BY <1>3, <1>4, <1>15
  <2>2. step = 1 => Acked' \subseteq {"clear"}
    BY <1>9, <1>15
  <2>3. QED
    BY <1>1, <1>2, <1>3, <1>9, <1>10, <2>1, <2>2
    DEF Pipeline, Early, Protocols
<1>17. Applied'
  <2>1. CASE msg = "clear"
    <3>1. new.applied = {"clear"} /\ Acked' \subseteq {"clear"}
      BY <1>7, <1>15, <2>1
    <3>2. ~(step > 2)
      BY <1>1, <1>15, <2>1 DEF Types
    <3>3. ~(step > 3)
      BY <1>1, <1>15, <2>1 DEF Types
    <3>4. QED
      BY <1>2, <1>8, <1>10, <1>12, <3>1, <3>2, <3>3 DEF Applied
  <2>2. CASE msg # "clear"
    <3>1. step > 1
      BY <1>1, <1>9, <2>2 DEF Types
    <3>2. /\ new.applied = config.applied \union {msg}
          /\ Acked' \ {"CFG-MSG"} \subseteq new.applied
      BY <1>1, <1>5, <1>7, <1>11, <2>2 DEF Applied
    <3>3. msg \in Protocols => msg = Protocol
      BY <1>1, <1>3 DEF Pipeline
    <3>4. /\ new.applied \intersect Protocols \subseteq {Protocol}
          /\ Protocol \in new.applied => new.nmea = Protocol
          /\ "gnss" \in new.applied => new.systems = Told
      <4>1. /\ config.applied \intersect Protocols \subseteq {Protocol}
            /\ Protocol \in config.applied => config.nmea = Protocol
            /\ "gnss" \in config.applied => config.systems = Told
        BY <1>1, <3>1 DEF Applied
      <4>2. Protocol \in new.applied => new.nmea = Protocol
        BY <1>7, <1>12, <2>2, <3>2, <3>3, <4>1
      <4>3. "gnss" \in new.applied => new.systems = Told
        BY <1>7, <2>2, <3>2, <4>1
      <4>4. QED
        BY <3>2, <3>3, <4>1, <4>2, <4>3
    <3>5. /\ step > 2 => Protocol \in new.applied
          /\ step > 3 /\ TellsSystems => "gnss" \in new.applied
      BY <1>1, <3>2 DEF Applied
    <3>6. QED
      BY <1>2, <1>8, <1>10, <3>2, <3>4, <3>5 DEF Applied, Protocols
  <2>3. QED
    BY <2>1, <2>2
<1>18. Remembered'
  BY <1>1, <1>2, RememberedKept
<1>19. QED
  BY <1>13, <1>14, <1>16, <1>17, <1>18 DEF IInv

LEMMA InitHolds ==
  ASSUME Init
  PROVE  IInv
<1> USE DEF Handshake, Configuring, Configured
<1>1. receiver \in Receivers
  <2>1. PICK firmware \in Firmwares, rejects \in Rejected :
          receiver = [firmware |-> firmware, rejects |-> rejects,
                      talking |-> TRUE, config |-> Default]
    BY DEF Init
  <2>2. Default \in Configs
    BY DEF Default, Configs, GnssId
  <2>3. QED
    BY <2>1, <2>2 DEF Receivers
<1>2. /\ up = TRUE /\ mIsUbloxDevice = (board = "kingfisher")
      /\ init = IF board = "kingfisher" THEN "reset" ELSE "none"
      /\ step = 1 /\ tries = 0 /\ handle = "none"
      /\ mRmcFieldsNumber = 0 /\ mMajorGnssStatus = "unset"
      /\ requests = <<>> /\ answers = <<>>
  BY DEF Init, Stopped, Constructed
<1>3. /\ requests \in Seq(Messages) /\ answers \in Seq(Answers)
      /\ Pending = {} /\ Acked = {} /\ ClearFirst
  BY <1>2 DEF Pending, Acked, ClearFirst
<1>4. Types
  BY <1>1, <1>2, <1>3 DEF Types
<1>5. Phases
  BY <1>2 DEF Phases
<1>6. Pipeline /\ Applied /\ Remembered
  BY <1>2, <1>3 DEF Pipeline, Applied, Remembered
<1>7. QED
  BY <1>4, <1>5, <1>6 DEF IInv

(* The inductive invariant holds whatever is lost, late or turned down and *)
(* however often the process ends.                                         *)
THEOREM Invariant == Spec => []IInv
<1>1. Init => IInv
  BY InitHolds
<1>2. IInv /\ [Next]_vars => IInv'
  <2> SUFFICES ASSUME IInv, [Next]_vars
               PROVE  IInv'
    OBVIOUS
  <2>1. CASE \E tty \in BOOLEAN, bus \in Buses : Start(tty, bus)
    BY <2>1, StartStep
  <2>2. CASE Bystander
    BY <2>2, BystanderStep
  <2>3. CASE ResetOnStart \/ PollMonVer
    BY <2>3, PollStep
  <2>4. CASE WaitMonVer
    BY <2>4, WaitMonVerStep
  <2>5. CASE SendConfig
    BY <2>5, SendConfigStep
  <2>6. CASE WaitAck
    BY <2>6, WaitOnStep, AckStep
  <2>7. CASE ReceiverAnswers
    BY <2>7, AnswerOnlyStep, ApplyStep
  <2>8. CASE Restart
    BY <2>8, RestartStep
  <2>9. QED
    BY <2>1, <2>2, <2>3, <2>4, <2>5, <2>6, <2>7, <2>8
    DEF Next, InitThread, Bystander
<1>3. QED
  BY <1>1, <1>2, PTL DEF Spec

(* The types, with the bounds on retries and steps.                        *)
LEMMA TypeStep ==
  ASSUME IInv, IInv', TypeOK, [Next]_vars
  PROVE  TypeOK'
<1> USE DEF TypeOK, hostVars, initVars
<1>1. /\ up' \in BOOLEAN /\ mIsUbloxDevice' \in BOOLEAN
      /\ init' \in {"none", "reset", "poll", "waitver", "generation", "send",
                    "waitack", "setup", "done"}
      /\ handle' \in {"none", "reading", "parked"}
      /\ mRmcFieldsNumber' \in {0, 13, 14}
  BY DEF IInv, Types, Remembered, FieldsOf, Handshake, Configuring, Configured
<1>2. mFd' \in BOOLEAN /\ mEnabled' \in BOOLEAN
      /\ mUbxGeneration' \in {"unset", "ublox7", "ublox8", "ubloxOther"}
  <2>1. ASSUME NEW tty \in BOOLEAN, NEW bus \in Buses, Start(tty, bus)
        PROVE  /\ mFd' \in BOOLEAN /\ mEnabled' \in BOOLEAN
               /\ mUbxGeneration' \in {"unset", "ublox7", "ublox8", "ubloxOther"}
    <3>1. ScanUsbDevices(bus) \subseteq UbloxKinds
      BY DEF ScanUsbDevices
    <3>2. QED
      BY <2>1, <3>1 DEF Start, RunWorkerThreads, UbloxKinds
  <2>2. CASE \/ Stop \/ HandleReadError \/ SelectGeneration \/ GiveUp \/ Restart
    BY <2>2 DEF Stop, HandleReadError, SelectGeneration, GiveUp, Restart
  <2>3. CASE UNCHANGED <<mFd, mEnabled, mUbxGeneration>>
    BY <2>3
  <2>4. QED
    BY <2>1, <2>2, <2>3
    DEF Next, InitThread, vars, ResetOnStart, PollMonVer, WaitMonVer, SendConfig,
        WaitAck, TimeoutIdle, SetUpHandleThread, Timeout, HandleRead,
        ReceiverAnswers, LoseRequest, LoseAnswer, FallSilent
<1>3. tries' \in 0 .. RetriesCnt
  <2>1. CASE PollMonVer \/ SendConfig
    BY <2>1, RetriesAssumption DEF PollMonVer, SendConfig
  <2>2. CASE tries' \in {0, tries}
    BY <2>2, RetriesAssumption
  <2>3. QED
    BY <2>1, <2>2
    DEF Next, InitThread, vars, Start, Stop, ResetOnStart, WaitMonVer,
        SelectGeneration, GiveUp, CriticalProtocolError, WaitAck, NextStep,
        TimeoutIdle, SetUpHandleThread, Timeout, HandleRead, HandleReadError,
        ReceiverAnswers, LoseRequest, LoseAnswer, FallSilent, Restart
<1>4. step' \in 1 .. 13
  <2>1. CASE step' = step + 1 /\ init = "waitack"
    <3>1. step <= Len(Steps) /\ Len(Steps) \in Nat /\ Len(Steps) <= 12
      BY <2>1, StepsAre DEF IInv, Phases, Configuring
    <3>2. QED
      BY <2>1, <3>1
  <2>2. CASE step' \in {1, step}
    BY <2>2
  <2>3. QED
    BY <2>1, <2>2
    DEF Next, InitThread, vars, Start, Stop, ResetOnStart, PollMonVer, WaitMonVer,
        SelectGeneration, SendConfig, GiveUp, CriticalProtocolError, WaitAck,
        NextStep, TimeoutIdle, SetUpHandleThread, Timeout, HandleRead,
        HandleReadError, ReceiverAnswers, LoseRequest, LoseAnswer, FallSilent,
        Restart
<1>5. QED
  BY <1>1, <1>2, <1>3, <1>4

(* A message is sent mUbxRetriesCnt times at most and no step lies past    *)
(* the last one, whatever is lost and however often the process ends.      *)
THEOREM TypeCorrect == Spec => []TypeOK
<1>1. ASSUME Init
      PROVE  TypeOK
  <2>1. /\ mFd \in BOOLEAN /\ mEnabled \in BOOLEAN
        /\ up \in BOOLEAN /\ mIsUbloxDevice \in BOOLEAN
    BY <1>1 DEF Init, Stopped, Constructed
  <2>2. /\ init \in {"none", "reset"} /\ handle = "none"
        /\ mUbxGeneration \in {"ublox8", "unset"}
    BY <1>1 DEF Init, Stopped, Constructed
  <2>3. step = 1 /\ tries = 0 /\ mRmcFieldsNumber = 0 /\ RetriesCnt \in Nat
    BY <1>1, RetriesAssumption DEF Init, Stopped
  <2>4. QED
    BY <2>1, <2>2, <2>3 DEF TypeOK
<1>2. IInv /\ IInv' /\ TypeOK /\ [Next]_vars => TypeOK'
  BY TypeStep
<1>3. QED
  BY <1>1, <1>2, Invariant, PTL DEF Spec

(* The init thread passes a message with a class and id of its own only    *)
(* when the receiver has applied it: OwnAckIsApplied holds.                *)
THEOREM AckMeansApplied == Spec => OwnAckIsApplied
<1> DEFINE Passed == up /\ step' = step + 1 =>
                       \/ Steps[step] \in Rates
                       \/ Steps[step] \in receiver.config.applied
<1>1. IInv /\ [Next]_vars => [Passed]_vars
  <2> SUFFICES ASSUME IInv, Next, up, step' = step + 1, Steps[step] \notin Rates
               PROVE  Steps[step] \in receiver.config.applied
    OBVIOUS
  <2>1. step \in Nat \ {0} /\ step' # step /\ step' # 1
    BY DEF IInv, Types
  <2>2. ~Bystander
    BY <2>1, BystanderKeeps DEF IInv
  <2>3. ~WaitMonVer /\ ~ReceiverAnswers /\ ~Restart /\ ~ResetOnStart
        /\ ~PollMonVer /\ ~SendConfig
    BY <2>1 DEF WaitMonVer, ReceiverAnswers, Restart, ResetOnStart, PollMonVer,
                SendConfig, initVars
  <2>4. ASSUME NEW tty \in BOOLEAN, NEW bus \in Buses
        PROVE  ~Start(tty, bus)
    BY <2>1 DEF Start
  <2>5. WaitAck
    BY <2>2, <2>3, <2>4 DEF Next, InitThread, Bystander
  <2>6. Head(answers).kind # "monver" /\ Acks(Head(answers))
    BY <2>1, <2>5 DEF WaitAck, Acks
  <2>7. QED
    BY <2>5, <2>6, AckGives, OwnAckGives
<1>2. QED
  BY <1>1, Invariant, PTL DEF Spec, OwnAckIsApplied

-----------------------------------------------------------------------------
(* A message of the layout of SPG 3.01: an entry of each system in the     *)
(* order of their ids.                                                     *)
Laid(msg) ==
    /\ DOMAIN msg = 0 .. 63
    /\ msg[8] = 0 /\ msg[16] = 1 /\ msg[24] = 2 /\ msg[32] = 3
    /\ msg[40] = 4 /\ msg[48] = 5 /\ msg[56] = 6

(* A receiver turns a second system on for the flag of its own entry.      *)
LEMMA OwnFlag ==
  ASSUME NEW msg, Laid(msg)
  PROVE  /\ "GLONASS" \in SystemsOn(msg) <=> msg[60] = 1
         /\ "BEIDOU" \in SystemsOn(msg) <=> msg[36] = 1
<1>1. \A n \in 1 .. 7 : msg[8 * n] = n - 1 /\ 8 * n + 4 \in DOMAIN msg
  <2> SUFFICES ASSUME NEW n \in 1 .. 7
               PROVE  msg[8 * n] = n - 1 /\ 8 * n + 4 \in DOMAIN msg
    OBVIOUS
  <2>1. n = 1 \/ n = 2 \/ n = 3 \/ n = 4 \/ n = 5 \/ n = 6 \/ n = 7
    OBVIOUS
  <2>2. QED
    BY <2>1 DEF Laid
<1>2. /\ "GLONASS" \in DOMAIN GnssId /\ GnssId["GLONASS"] = 6
      /\ "BEIDOU" \in DOMAIN GnssId /\ GnssId["BEIDOU"] = 3
  BY DEF GnssId
<1>3. ASSUME NEW system \in DOMAIN GnssId
      PROVE  system \in SystemsOn(msg) <=>
               \E n \in 1 .. 7 : n - 1 = GnssId[system] /\ msg[8 * n + 4] = 1
  BY <1>1 DEF SystemsOn, EntrySize, CFG_GNSS_ENB
<1>4. "GLONASS" \in SystemsOn(msg) <=> msg[60] = 1
  <2>1. \A n \in 1 .. 7 : n - 1 = 6 <=> n = 7
    OBVIOUS
  <2>2. 8 * 7 + 4 = 60 /\ 7 \in 1 .. 7
    OBVIOUS
  <2>3. QED
    BY <1>2, <1>3, <2>1, <2>2
<1>5. "BEIDOU" \in SystemsOn(msg) <=> msg[36] = 1
  <2>1. \A n \in 1 .. 7 : n - 1 = 3 <=> n = 4
    OBVIOUS
  <2>2. 8 * 4 + 4 = 36 /\ 4 \in 1 .. 7
    OBVIOUS
  <2>3. QED
    BY <1>2, <1>3, <2>1, <2>2
<1>6. QED
  BY <1>4, <1>5

(* As it is compiled in, the message of SPG 3.01 has both of them off.     *)
LEMMA CompiledIn ==
  LET msg == Bytes(EntriesSpg3) IN Laid(msg) /\ msg[36] = 0 /\ msg[60] = 0
<1> DEFINE entries == EntriesSpg3
           msg == Bytes(entries)
<1>1. /\ Len(entries) = 7
      /\ entries[1].id = 0 /\ entries[2].id = 1 /\ entries[3].id = 2
      /\ entries[4].id = 3 /\ entries[5].id = 4 /\ entries[6].id = 5
      /\ entries[7].id = 6 /\ entries[4].enable = 0 /\ entries[7].enable = 0
  BY DEF EntriesSpg3, Entry, GnssId
<1> HIDE DEF entries
<1>2. DOMAIN msg = 0 .. 63
  BY <1>1 DEF Bytes, HeaderSize, EntrySize
<1>3. \A n \in 1 .. 7 : msg[8 * n] = entries[n].id
  <2> SUFFICES ASSUME NEW n \in 1 .. 7
               PROVE  msg[8 * n] = entries[n].id
    OBVIOUS
  <2>1. /\ 8 * n \in 0 .. 63 /\ ~(8 * n < 8)
        /\ (8 * n) \div 8 = n /\ (8 * n) % 8 = 0
    OBVIOUS
  <2>2. QED
    BY <1>1, <2>1 DEF Bytes, HeaderSize, EntrySize
<1>4. \A n \in 1 .. 7 : msg[8 * n + 4] = entries[n].enable
  <2> SUFFICES ASSUME NEW n \in 1 .. 7
               PROVE  msg[8 * n + 4] = entries[n].enable
    OBVIOUS
  <2>1. /\ 8 * n + 4 \in 0 .. 63 /\ ~(8 * n + 4 < 8)
        /\ (8 * n + 4) \div 8 = n /\ (8 * n + 4) % 8 = 4
    OBVIOUS
  <2>2. QED
    BY <1>1, <2>1 DEF Bytes, HeaderSize, EntrySize
<1> HIDE DEF msg
<1>5. /\ msg[8] = 0 /\ msg[16] = 1 /\ msg[24] = 2 /\ msg[32] = 3
      /\ msg[40] = 4 /\ msg[48] = 5 /\ msg[56] = 6
  <2>1. /\ msg[8 * 1] = 0 /\ msg[8 * 2] = 1 /\ msg[8 * 3] = 2
        /\ msg[8 * 4] = 3 /\ msg[8 * 5] = 4 /\ msg[8 * 6] = 5
        /\ msg[8 * 7] = 6
    BY <1>1, <1>3
  <2>2. QED
    BY <2>1
<1>6. msg[36] = 0 /\ msg[60] = 0
  <2>1. msg[8 * 4 + 4] = 0 /\ msg[8 * 7 + 4] = 0
    BY <1>1, <1>4
  <2>2. QED
    BY <2>1
<1>7. QED
  BY <1>2, <1>5, <1>6 DEF Laid, msg, entries

(* A poke reaches the flag of the system it is meant for and no other.     *)
LEMMA PokeGives ==
  ASSUME NEW msg, Laid(msg), NEW firmware, firmware # SPG201,
         NEW system \in {"SBAS", "BEIDOU", "GLONASS"}, NEW min, NEW enable
  PROVE  LET poked == Poke(msg, firmware, system, min, enable)
         IN /\ Laid(poked)
            /\ poked[36] = IF system = "BEIDOU" THEN enable ELSE msg[36]
            /\ poked[60] = IF system = "GLONASS" THEN enable ELSE msg[60]
<1> DEFINE poked == Poke(msg, firmware, system, min, enable)
           at == CASE system = "SBAS" -> 16
                   [] system = "BEIDOU" -> 32
                   [] OTHER -> 56
<1>1. /\ Offset(firmware, system, CFG_GNSS_MIN) = at + 1
      /\ Offset(firmware, system, CFG_GNSS_ENB) = at + 4
  <2>1. /\ CfgGnss(firmware).entrySize = 8 /\ CfgGnss(firmware)["SBAS"] = 2
        /\ CfgGnss(firmware)["BEIDOU"] = 4 /\ CfgGnss(firmware)["GLONASS"] = 7
    BY DEF CfgGnss
  <2>2. QED
    BY <2>1 DEF Offset, CFG_GNSS_MIN, CFG_GNSS_ENB
<1>2. at \in {16, 32, 56} /\ at + 1 \in 0 .. 63 /\ at + 4 \in 0 .. 63
  OBVIOUS
<1>3. DOMAIN poked = 0 .. 63
  BY DEF Laid, Poke
<1>4. \A n \in 0 .. 63 : poked[n] = IF n = at + 4 THEN enable
                                   ELSE IF n = at + 1 THEN min ELSE msg[n]
  <2>1. poked = [[msg EXCEPT ![at + 1] = min] EXCEPT ![at + 4] = enable]
    BY <1>1 DEF Poke
  <2> HIDE DEF at, poked
  <2> DEFINE once == [msg EXCEPT ![at + 1] = min]
  <2>2. DOMAIN once = 0 .. 63
    BY DEF Laid
  <2>3. \A n \in 0 .. 63 : once[n] = IF n = at + 1 THEN min ELSE msg[n]
    BY DEF Laid
  <2>4. poked = [once EXCEPT ![at + 4] = enable]
    BY <2>1
  <2> HIDE DEF once
  <2>5. \A n \in 0 .. 63 : poked[n] = IF n = at + 4 THEN enable ELSE once[n]
    BY <2>2, <2>4
  <2>6. QED
    BY <2>3, <2>5
<1>5. /\ at = 32 <=> system = "BEIDOU"
      /\ at = 56 <=> system = "GLONASS"
  OBVIOUS
<1> HIDE DEF poked, at
<1>6. \A n \in {8, 16, 24, 32, 40, 48, 56} : poked[n] = msg[n]
  <2> SUFFICES ASSUME NEW n \in {8, 16, 24, 32, 40, 48, 56}
               PROVE  poked[n] = msg[n]
    OBVIOUS
  <2>1. n \in 0 .. 63 /\ n # at + 4 /\ n # at + 1
    BY <1>2
  <2>2. QED
    BY <1>4, <2>1
<1>7. Laid(poked)
  BY <1>3, <1>6 DEF Laid
<1>8. poked[36] = IF system = "BEIDOU" THEN enable ELSE msg[36]
  <2>1. (36 = at + 4 <=> at = 32) /\ 36 # at + 1 /\ 36 \in 0 .. 63
    BY <1>2
  <2>2. QED
    BY <1>4, <1>5, <2>1
<1>9. poked[60] = IF system = "GLONASS" THEN enable ELSE msg[60]
  <2>1. (60 = at + 4 <=> at = 56) /\ 60 # at + 1 /\ 60 \in 0 .. 63
    BY <1>2
  <2>2. QED
    BY <1>4, <1>5, <2>1
<1>10. QED
  BY <1>7, <1>8, <1>9 DEF poked

(* So what the firmware is told is what the parsers filter by.             *)
LEMMA ToldAgrees ==
  ASSUME NEW firmware, firmware # SPG201, NEW secmajor, NEW sbas
  PROVE  LET systems == SystemsOn(PrepareGnssConfig(firmware, secmajor, sbas))
             major == MajorGnssStatus(secmajor)
         IN /\ major \in {"GPS_GLONASS", "GPS_BEIDOU", "GPS_ONLY"}
            /\ "GLONASS" \in systems <=> major = "GPS_GLONASS"
            /\ "BEIDOU" \in systems <=> major = "GPS_BEIDOU"
<1> DEFINE msg == Bytes(EntriesSpg3)
           withSbas == IF sbas = "DISABLE" THEN Poke(msg, firmware, "SBAS", 0, 0)
                       ELSE msg
           told == IF secmajor \in {"GLONASS", "BEIDOU"}
                   THEN Poke(withSbas, firmware, secmajor, 8, 1)
                   ELSE withSbas
<1>1. PrepareGnssConfig(firmware, secmajor, sbas) = told
  BY DEF PrepareGnssConfig, EntriesOf
<1>2. Laid(msg) /\ msg[36] = 0 /\ msg[60] = 0
  BY CompiledIn
<1> HIDE DEF msg
<1>3. Laid(withSbas) /\ withSbas[36] = 0 /\ withSbas[60] = 0
  <2>1. CASE sbas = "DISABLE"
    BY <1>2, <2>1, PokeGives
  <2>2. CASE sbas # "DISABLE"
    BY <1>2, <2>2
  <2>3. QED
    BY <2>1, <2>2
<1> HIDE DEF withSbas
<1>4. /\ Laid(told)
      /\ told[36] = IF secmajor = "BEIDOU" THEN 1 ELSE 0
      /\ told[60] = IF secmajor = "GLONASS" THEN 1 ELSE 0
  <2>1. CASE secmajor \in {"GLONASS", "BEIDOU"}
    <3>1. /\ secmajor \in {"SBAS", "BEIDOU", "GLONASS"}
          /\ told = Poke(withSbas, firmware, secmajor, 8, 1)
      BY <2>1
    <3> HIDE DEF told
    <3>2. /\ Laid(told)
          /\ told[36] = IF secmajor = "BEIDOU" THEN 1 ELSE withSbas[36]
          /\ told[60] = IF secmajor = "GLONASS" THEN 1 ELSE withSbas[60]
      BY ONLY <1>3, <3>1, PokeGives, firmware # SPG201
    <3>3. QED
      BY <1>3, <3>2
  <2>2. CASE secmajor \notin {"GLONASS", "BEIDOU"}
    BY <1>3, <2>2
  <2>3. QED
    BY <2>1, <2>2
<1> HIDE DEF told
<1>5. /\ "GLONASS" \in SystemsOn(told) <=> secmajor = "GLONASS"
      /\ "BEIDOU" \in SystemsOn(told) <=> secmajor = "BEIDOU"
  BY <1>4, OwnFlag
<1>6. QED
  BY <1>1, <1>5 DEF MajorGnssStatus

(* The message of SPG 2.01 has five entries, those of the second systems   *)
(* turned off.                                                             *)
LaidSpg2(msg) ==
    /\ DOMAIN msg = 0 .. 47
    /\ msg[8] = 0 /\ msg[16] \in {0, 1} /\ msg[24] = 3 /\ msg[32] = 5
    /\ msg[40] = 6 /\ msg[28] = 0 /\ msg[44] = 0

(* A receiver uses no second system for such a message.                    *)
LEMMA NoSecondSystem ==
  ASSUME NEW msg, LaidSpg2(msg)
  PROVE  "GLONASS" \notin SystemsOn(msg) /\ "BEIDOU" \notin SystemsOn(msg)
<1>1. GnssId["GLONASS"] = 6 /\ GnssId["BEIDOU"] = 3
  BY DEF GnssId
<1>2. ASSUME NEW system \in {"GLONASS", "BEIDOU"}, NEW n \in 1 .. 7,
             8 * n + 4 \in DOMAIN msg, msg[8 * n] = GnssId[system]
      PROVE  msg[8 * n + 4] # 1
  <2>1. n = 1 \/ n = 2 \/ n = 3 \/ n = 4 \/ n = 5
    BY <1>2 DEF LaidSpg2
  <2>2. CASE n = 1 \/ n = 2 \/ n = 4
    BY <1>1, <1>2, <2>2 DEF LaidSpg2
  <2>3. CASE n = 3 \/ n = 5
    BY <2>3 DEF LaidSpg2
  <2>4. QED
    BY <2>1, <2>2, <2>3
<1>3. QED
  BY <1>2 DEF SystemsOn, EntrySize, CFG_GNSS_ENB

(* It is compiled in like that.                                            *)
LEMMA CompiledInSpg2 == LaidSpg2(Bytes(EntriesSpg2))
<1> DEFINE entries == EntriesSpg2
           msg == Bytes(entries)
<1>1. /\ Len(entries) = 5
      /\ entries[1].id = 0 /\ entries[2].id = 1 /\ entries[3].id = 3
      /\ entries[4].id = 5 /\ entries[5].id = 6
      /\ entries[3].enable = 0 /\ entries[5].enable = 0
  BY DEF EntriesSpg2, Entry, GnssId
<1> HIDE DEF entries
<1>2. DOMAIN msg = 0 .. 47
  BY <1>1 DEF Bytes, HeaderSize, EntrySize
<1>3. ASSUME NEW n \in 1 .. 5
      PROVE  msg[8 * n] = entries[n].id /\ msg[8 * n + 4] = entries[n].enable
  <2>1. /\ 8 * n \in 0 .. 47 /\ ~(8 * n < 8)
        /\ (8 * n) \div 8 = n /\ (8 * n) % 8 = 0
    OBVIOUS
  <2>2. /\ 8 * n + 4 \in 0 .. 47 /\ ~(8 * n + 4 < 8)
        /\ (8 * n + 4) \div 8 = n /\ (8 * n + 4) % 8 = 4
    OBVIOUS
  <2>3. QED
    BY <1>1, <2>1, <2>2 DEF Bytes, HeaderSize, EntrySize
<1> HIDE DEF msg
<1>4. /\ msg[8 * 1] = 0 /\ msg[8 * 2] = 1 /\ msg[8 * 3] = 3
      /\ msg[8 * 4] = 5 /\ msg[8 * 5] = 6
      /\ msg[8 * 3 + 4] = 0 /\ msg[8 * 5 + 4] = 0
  BY <1>1, <1>3
<1>5. /\ msg[8] = 0 /\ msg[16] = 1 /\ msg[24] = 3 /\ msg[32] = 5
      /\ msg[40] = 6 /\ msg[28] = 0 /\ msg[44] = 0
  BY <1>4
<1>6. QED
  BY <1>2, <1>5 DEF LaidSpg2, msg, entries

(* A poke reaches no flag of a second system there: the offsets are of     *)
(* entries of six bytes.                                                   *)
LEMMA PokeMisses ==
  ASSUME NEW msg, LaidSpg2(msg), NEW min, NEW enable,
         NEW system \in {"SBAS", "BEIDOU", "GLONASS"},
         system = "SBAS" => enable = 0
  PROVE  LaidSpg2(Poke(msg, SPG201, system, min, enable))
<1> DEFINE poked == Poke(msg, SPG201, system, min, enable)
           at == CASE system = "SBAS" -> 12
                   [] system = "BEIDOU" -> 18
                   [] OTHER -> 30
           once == [msg EXCEPT ![at + 1] = min]
<1>1. poked = [once EXCEPT ![at + 4] = enable]
  <2>1. /\ CfgGnss(SPG201).entrySize = 6 /\ CfgGnss(SPG201)["SBAS"] = 2
        /\ CfgGnss(SPG201)["BEIDOU"] = 3 /\ CfgGnss(SPG201)["GLONASS"] = 5
    BY DEF CfgGnss
  <2>2. /\ Offset(SPG201, system, CFG_GNSS_MIN) = at + 1
        /\ Offset(SPG201, system, CFG_GNSS_ENB) = at + 4
    BY <2>1 DEF Offset, CFG_GNSS_MIN, CFG_GNSS_ENB
  <2>3. QED
    BY <2>2 DEF Poke
<1>2. at \in {12, 18, 30} /\ (at = 12 => enable = 0)
  OBVIOUS
<1> HIDE DEF poked, at
<1>3. DOMAIN once = 0 .. 47 /\ DOMAIN poked = 0 .. 47
  BY <1>1 DEF LaidSpg2
<1>4. \A n \in 0 .. 47 : once[n] = IF n = at + 1 THEN min ELSE msg[n]
  BY DEF LaidSpg2
<1> HIDE DEF once
<1>5. \A n \in 0 .. 47 : poked[n] = IF n = at + 4 THEN enable ELSE once[n]
  BY <1>1, <1>3
<1>6. \A n \in {8, 24, 28, 32, 40, 44} : poked[n] = msg[n]
  BY <1>2, <1>4, <1>5
<1>7. poked[16] \in {0, 1}
  <2>1. CASE at = 12
    BY <1>2, <1>5, <2>1
  <2>2. CASE at # 12
    <3>1. poked[16] = msg[16]
      BY <1>2, <1>4, <1>5, <2>2
    <3>2. QED
      BY <3>1 DEF LaidSpg2
  <2>3. QED
    BY <2>1, <2>2
<1>8. LaidSpg2(poked)
  BY <1>3, <1>6, <1>7 DEF LaidSpg2
<1>9. QED
  BY <1>8 DEF poked

(* So a receiver with SPG 2.01 is never told to use a second system.       *)
LEMMA ToldSpg2 ==
  ASSUME NEW secmajor, NEW sbas
  PROVE  LET systems == SystemsOn(PrepareGnssConfig(SPG201, secmajor, sbas))
         IN "GLONASS" \notin systems /\ "BEIDOU" \notin systems
<1> DEFINE msg == Bytes(EntriesSpg2)
           withSbas == IF sbas = "DISABLE" THEN Poke(msg, SPG201, "SBAS", 0, 0)
                       ELSE msg
           told == IF secmajor \in {"GLONASS", "BEIDOU"}
                   THEN Poke(withSbas, SPG201, secmajor, 8, 1)
                   ELSE withSbas
<1>1. PrepareGnssConfig(SPG201, secmajor, sbas) = told
  BY DEF PrepareGnssConfig, EntriesOf
<1>2. LaidSpg2(msg)
  BY CompiledInSpg2
<1> HIDE DEF msg
<1>3. LaidSpg2(withSbas)
  BY <1>2, PokeMisses
<1> HIDE DEF withSbas
<1>4. LaidSpg2(told)
  BY <1>3, PokeMisses
<1> HIDE DEF told
<1>5. QED
  BY <1>1, <1>4, NoSecondSystem

(* ConfigurationAgrees holds for every receiver: when the handle thread    *)
(* reads, the receiver does what the parsers go by, and one with SPG 2.01, *)
(* whose message the code pokes at the wrong offsets, uses no second       *)
(* system, whatever the parsers filter by.                                 *)
THEOREM ConfigurationIsAgreed == Spec => []ConfigurationAgrees
<1>1. IInv => ConfigurationAgrees
  <2> SUFFICES ASSUME IInv, up, handle = "reading"
               PROVE  /\ init = "done"
                      /\ receiver.config.nmea =
                           IF mRmcFieldsNumber = 14 THEN "nmea41" ELSE "nmea23"
                      /\ IF mMajorGnssStatus = "unset"
                         THEN receiver.firmware \notin {SPG201, SPG301}
                         ELSE /\ Uses("GLONASS", "GPS_GLONASS")
                              /\ Uses("BEIDOU", "GPS_BEIDOU")
    BY DEF ConfigurationAgrees
  <2>1. Types /\ Phases /\ Applied /\ Remembered
    BY DEF IInv
  <2>2. /\ init = "done" /\ step \in Nat /\ step > Len(Steps)
        /\ mUbxGeneration \in {"ublox7", "ublox8"}
        /\ mUbxFirmwareVersion = receiver.firmware
    BY <2>1 DEF Types, Phases, Configuring, Configured, Receivers
  <2>3. step > 3 /\ step > 2 /\ step > 1
    BY <2>2, StepsAre
  <2>4. /\ receiver.config.nmea = Protocol
        /\ mRmcFieldsNumber = FieldsOf(Protocol)
    BY <2>1, <2>3 DEF Applied, Remembered
  <2>5. receiver.config.nmea = IF mRmcFieldsNumber = 14 THEN "nmea41" ELSE "nmea23"
    BY <2>4 DEF Protocol, FieldsOf
  <2>6. CASE TellsSystems
    <3>1. receiver.config.systems = Told /\ mMajorGnssStatus = ToldMajor
      BY <2>1, <2>3, <2>6 DEF Applied, Remembered
    <3>2. CASE mUbxGeneration = "ublox7"
      BY <2>2, <2>5, <3>1, <3>2 DEF Told, ToldMajor, Uses
    <3>3. CASE mUbxGeneration # "ublox7" /\ mUbxFirmwareVersion # SPG201
      <4>1. /\ ToldMajor # "unset"
            /\ "GLONASS" \in Told <=> ToldMajor = "GPS_GLONASS"
            /\ "BEIDOU" \in Told <=> ToldMajor = "GPS_BEIDOU"
        BY <3>3, ToldAgrees DEF Told, ToldMajor
      <4>2. QED
        BY <2>2, <2>5, <3>1, <3>3, <4>1 DEF Uses
    <3>4. CASE mUbxGeneration # "ublox7" /\ mUbxFirmwareVersion = SPG201
      <4>1. "GLONASS" \notin Told /\ "BEIDOU" \notin Told
        BY <3>4, ToldSpg2 DEF Told
      <4>2. ToldMajor # "unset"
        BY <3>4 DEF ToldMajor, MajorGnssStatus
      <4>3. QED
        BY <2>2, <2>5, <3>1, <3>4, <4>1, <4>2 DEF Uses
    <3>5. QED
      BY <3>2, <3>3, <3>4
  <2>7. CASE ~TellsSystems
    <3>1. mMajorGnssStatus = "unset"
      BY <2>1, <2>7 DEF Remembered
    <3>2. receiver.firmware \notin {SPG201, SPG301}
      BY <2>2, <2>7 DEF TellsSystems
    <3>3. QED
      BY <2>2, <2>5, <3>1, <3>2
  <2>8. QED
    BY <2>6, <2>7
<1>2. QED
  BY <1>1, Invariant, PTL
=============================================================================
