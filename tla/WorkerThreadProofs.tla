-------------------------- MODULE WorkerThreadProofs --------------------------
(***************************************************************************)
(* The ring between the tty thread and a worker, for every size and every  *)
(* set of messages: get() never returns nullptr to the worker, and the     *)
(* ring implements LossyFifo.                                              *)
(***************************************************************************)
EXTENDS WorkerThread, SequenceTheorems, TLAPS


(* (i + 1) % size_, without the remainder.                                 *)
LEMMA AfterStep ==
    ASSUME NEW i \in Slots
    PROVE  /\ After(i) = IF i = Size - 1 THEN 0 ELSE i + 1
           /\ After(i) \in Slots /\ After(i) # i
<1>1. CASE i = Size - 1
  BY <1>1, SizeAssumption DEF After, Slots
<1>2. CASE i # Size - 1
  BY <1>2, SizeAssumption DEF After, Slots
<1>. QED
  BY <1>1, <1>2

(* How many messages wait, and in which slots.                             *)
LEMMA CountFacts ==
    ASSUME NEW h \in Slots, NEW t \in Slots
    PROVE  /\ CountOf(h, t) \in 0 .. Size - 1
           /\ CountOf(h, t) = 0 <=> h = t
           /\ CountOf(h, t) = Size - 1 <=> After(h) = t
           /\ \A i \in 0 .. Size - 1 : SlotOf(t, i) \in Slots
           /\ \A i, j \in 0 .. Size - 1 : SlotOf(t, i) = SlotOf(t, j) => i = j
           /\ SlotOf(t, 0) = t /\ SlotOf(t, CountOf(h, t)) = h
<1>. USE SizeAssumption DEF Slots
<1>1. CountOf(h, t) \in 0 .. Size - 1 /\ (CountOf(h, t) = 0 <=> h = t)
  BY DEF CountOf
<1>2. CountOf(h, t) = Size - 1 <=> After(h) = t
  BY AfterStep DEF CountOf
<1>3. \A i \in 0 .. Size - 1 : SlotOf(t, i) \in Slots
  BY DEF SlotOf
<1>4. \A i, j \in 0 .. Size - 1 : SlotOf(t, i) = SlotOf(t, j) => i = j
  BY DEF SlotOf
<1>5. SlotOf(t, 0) = t /\ SlotOf(t, CountOf(h, t)) = h
  BY DEF SlotOf, CountOf
<1>. QED
  BY <1>1, <1>2, <1>3, <1>4, <1>5

LEMMA ContentsType ==
    ASSUME NEW b \in [Slots -> Values], NEW h \in Slots, NEW t \in Slots
    PROVE  /\ ContentsOf(b, h, t) \in Seq(Values)
           /\ Len(ContentsOf(b, h, t)) = CountOf(h, t)
           /\ \A i \in 1 .. CountOf(h, t) :
                ContentsOf(b, h, t)[i] = b[SlotOf(t, i - 1)]
<1>1. CountOf(h, t) \in 0 .. Size - 1
  BY CountFacts
<1>2. \A i \in 1 .. CountOf(h, t) : b[SlotOf(t, i - 1)] \in Values
  <2>. SUFFICES ASSUME NEW i \in 1 .. CountOf(h, t)
                PROVE  SlotOf(t, i - 1) \in Slots
    OBVIOUS
  <2>1. i - 1 \in 0 .. Size - 1
    BY <1>1, SizeAssumption
  <2>. QED
    BY <2>1, CountFacts
<1>. QED
  BY <1>1, <1>2, SizeAssumption DEF ContentsOf

(* Writing the head's slot and moving the head appends.                    *)
LEMMA AppendContents ==
    ASSUME NEW b \in [Slots -> Values], NEW h \in Slots, NEW t \in Slots,
           NEW v \in Values, After(h) # t
    PROVE  ContentsOf([b EXCEPT ![h] = v], After(h), t)
             = Append(ContentsOf(b, h, t), v)
<1>. DEFINE c == [b EXCEPT ![h] = v]
            n == CountOf(h, t)
<1>1. n \in 0 .. Size - 1 /\ n # Size - 1 /\ n \in Nat
  BY CountFacts, SizeAssumption
<1>2. /\ c \in [Slots -> Values] /\ After(h) \in Slots
      /\ After(h) = IF h = Size - 1 THEN 0 ELSE h + 1
  BY AfterStep
<1>3. CountOf(After(h), t) = n + 1
  BY <1>2, SizeAssumption DEF CountOf, Slots
<1>. HIDE DEF n
<1>4. ASSUME NEW i \in 1 .. n + 1
      PROVE  c[SlotOf(t, i - 1)] = Append(ContentsOf(b, h, t), v)[i]
  <2>1. /\ ContentsOf(b, h, t) \in Seq(Values) /\ Len(ContentsOf(b, h, t)) = n
        /\ \A j \in 1 .. n : ContentsOf(b, h, t)[j] = b[SlotOf(t, j - 1)]
    BY ContentsType DEF n
  <2>2. SlotOf(t, n) = h
    BY CountFacts DEF n
  <2>3. CASE i = n + 1
    <3>1. Append(ContentsOf(b, h, t), v)[n + 1] = v
      BY <2>1, AppendProperties
    <3>. QED
      BY <2>2, <2>3, <3>1, <1>1
  <2>4. CASE i # n + 1
    <3>1. i \in 1 .. n /\ i - 1 \in 0 .. Size - 1 /\ i - 1 # n
      BY <2>4, <1>1, SizeAssumption
    <3>2. SlotOf(t, i - 1) # h /\ SlotOf(t, i - 1) \in Slots
      BY <1>1, <2>2, <3>1, CountFacts
    <3>3. Append(ContentsOf(b, h, t), v)[i] = ContentsOf(b, h, t)[i]
      BY <2>1, <3>1
    <3>. QED
      BY <2>1, <3>1, <3>2, <3>3
  <2>. QED
    BY <2>3, <2>4
<1>. HIDE DEF c
<1>5. /\ ContentsOf(c, After(h), t) \in Seq(Values)
      /\ Len(ContentsOf(c, After(h), t)) = n + 1
      /\ \A i \in 1 .. n + 1 :
           ContentsOf(c, After(h), t)[i] = c[SlotOf(t, i - 1)]
  BY <1>2, <1>3, ContentsType
<1>6. /\ Append(ContentsOf(b, h, t), v) \in Seq(Values)
      /\ Len(Append(ContentsOf(b, h, t), v)) = n + 1
  BY ContentsType DEF n
<1>7. ContentsOf(c, After(h), t) = Append(ContentsOf(b, h, t), v)
  BY <1>4, <1>5, <1>6, SeqEqual
<1>. QED
  BY <1>7 DEF c

(* Moving the tail takes the oldest message away.                          *)
LEMMA TailContents ==
    ASSUME NEW b \in [Slots -> Values], NEW h \in Slots, NEW t \in Slots, h # t
    PROVE  /\ ContentsOf(b, h, t) # <<>>
           /\ Head(ContentsOf(b, h, t)) = b[t]
           /\ ContentsOf(b, h, After(t)) = Tail(ContentsOf(b, h, t))
<1>. DEFINE n == CountOf(h, t)
<1>1. n \in 1 .. Size - 1 /\ n \in Nat
  BY CountFacts, SizeAssumption
<1>2. /\ ContentsOf(b, h, t) \in Seq(Values) /\ Len(ContentsOf(b, h, t)) = n
      /\ \A i \in 1 .. n : ContentsOf(b, h, t)[i] = b[SlotOf(t, i - 1)]
  BY ContentsType
<1>3. After(t) \in Slots /\ After(t) = IF t = Size - 1 THEN 0 ELSE t + 1
  BY AfterStep
<1>4. CountOf(h, After(t)) = n - 1 /\ After(t) \in Slots
  BY <1>3, SizeAssumption DEF CountOf, Slots
<1>5. \A i \in 1 .. Size - 1 : SlotOf(After(t), i - 1) = SlotOf(t, i)
  BY <1>3, SizeAssumption DEF SlotOf, Slots
<1>6. /\ ContentsOf(b, h, After(t)) \in Seq(Values)
      /\ Len(ContentsOf(b, h, After(t))) = n - 1
      /\ \A i \in 1 .. n - 1 :
           ContentsOf(b, h, After(t))[i] = b[SlotOf(After(t), i - 1)]
  BY <1>4, ContentsType
<1>. HIDE DEF n
<1>7. ContentsOf(b, h, t) # <<>> /\ Head(ContentsOf(b, h, t)) = b[t]
  BY <1>1, <1>2, CountFacts
<1>8. /\ Tail(ContentsOf(b, h, t)) \in Seq(Values)
      /\ Len(Tail(ContentsOf(b, h, t))) = n - 1
      /\ \A i \in 1 .. n - 1 :
           Tail(ContentsOf(b, h, t))[i] = ContentsOf(b, h, t)[i + 1]
  BY <1>1, <1>2, <1>7
<1>9. ASSUME NEW i \in 1 .. n - 1
      PROVE  ContentsOf(b, h, After(t))[i] = Tail(ContentsOf(b, h, t))[i]
  <2>1. i + 1 \in 1 .. n /\ i \in 1 .. Size - 1 /\ (i + 1) - 1 = i
    BY <1>1, SizeAssumption
  <2>. QED
    BY <2>1, <1>2, <1>5, <1>6, <1>8
<1>. QED
  BY <1>6, <1>7, <1>8, <1>9, SeqEqual

(* What the worker knows of the ring at each of its points: nobody but the *)
(* worker takes messages out, so a ring seen with one stays with one.  The *)
(* slot it holds is the one before the tail until the ring overruns.       *)
IInv ==
    /\ TypeOK
    /\ worker = "loaded" /\ head_ = tail_ => seen[2] = head_
    /\ worker = "get" => head_ # tail_
    /\ held # NoSlot <=> worker = "parse"
    /\ held # NoSlot => tail_ = After(held) \/ tail_ = After(head_)

LEMMA InitIInv == Init => IInv
  BY SizeAssumption
     DEF Init, IInv, TypeOK, RingInit, RingTypeOK, Slots, NoSlot, WorkerPoints,
         Indices

LEMMA PutType ==
    ASSUME RingTypeOK, NEW v \in Values, Put(v)
    PROVE  RingTypeOK' /\ head_' # tail_'
<1>1. /\ After(head_) \in Slots /\ After(head_) # head_
      /\ After(tail_) \in Slots /\ After(tail_) # tail_
  BY AfterStep DEF RingTypeOK
<1>. QED
  BY <1>1 DEF Put, RingTypeOK

LEMMA NextIInv == IInv /\ [Next]_vars => IInv'
<1>. SUFFICES ASSUME IInv, [Next]_vars PROVE IInv'
  OBVIOUS
<1>. USE DEF IInv, TypeOK, ringVars
<1>1. CASE LoadOne
  BY <1>1 DEF LoadOne, RingTypeOK, Value, WorkerPoints, Indices
<1>2. CASE LoadOther
  <2>1. PICK index \in Indices \ {seen[1]} :
          worker' = IF Value(index) = seen[2] THEN "lock" ELSE "get"
    BY <1>2 DEF LoadOther
  <2>2. Value(index) = head_ \/ Value(index) = tail_
    BY DEF Value
  <2>. QED
    BY <1>2, <2>1, <2>2 DEF LoadOther, RingTypeOK, WorkerPoints
<1>3. CASE GetMessage
  <2>1. head_ # tail_ /\ After(tail_) \in Slots
    BY <1>3, AfterStep DEF GetMessage, RingTypeOK
  <2>2. held' = tail_ /\ tail_' = After(tail_) /\ worker' = "parse"
        /\ UNCHANGED <<buf_, head_, seen, reader>>
    BY <1>3, <2>1 DEF GetMessage, Get
  <2>3. NoSlot \notin Slots
    BY SizeAssumption DEF NoSlot, Slots
  <2>. QED
    BY <2>1, <2>2, <2>3 DEF RingTypeOK, WorkerPoints
<1>4. CASE ParseMessage
  BY <1>4 DEF ParseMessage, RingTypeOK, WorkerPoints
<1>5. CASE BeginWait
  BY <1>5 DEF BeginWait, RingTypeOK, WorkerPoints
<1>6. CASE SpuriousWakeup
  BY <1>6 DEF SpuriousWakeup, RingTypeOK, WorkerPoints
<1>7. CASE \E v \in Values : PutMessage(v)
  <2>1. PICK v \in Values : PutMessage(v)
    BY <1>7
  <2>2. RingTypeOK' /\ head_' # tail_'
    BY <2>1, PutType DEF PutMessage
  <2>3. held' # NoSlot => tail_' = After(held)' \/ tail_' = After(head_)'
    BY <2>1 DEF PutMessage, Put, After
  <2>. QED
    BY <2>1, <2>2, <2>3 DEF PutMessage, Put
<1>8. CASE Notify
  BY <1>8 DEF Notify, RingTypeOK, WorkerPoints
<1>9. CASE UNCHANGED vars
  BY <1>9 DEF vars, RingTypeOK
<1>. QED
  BY <1>1, <1>2, <1>3, <1>4, <1>5, <1>6, <1>7, <1>8, <1>9
     DEF Next, WorkerStep, ReaderStep

THEOREM Invariant == Spec => []IInv
  BY InitIInv, NextIInv, PTL DEF Spec

(* Every variable keeps its type.                                          *)
THEOREM TypeCorrect == Spec => []TypeOK
<1>1. IInv => TypeOK
  BY DEF IInv
<1>. QED
  BY <1>1, Invariant, PTL

(* The worker's get() never returns nullptr, although empty() looks at the *)
(* two indices one after the other and without the mutex.                  *)
THEOREM WorkerHasMessage == Spec => []ParseHasMessage
<1>1. IInv => ParseHasMessage
  BY DEF IInv, ParseHasMessage
<1>. QED
  BY <1>1, Invariant, PTL

(* The ring implements LossyFifo: every step is one of its steps or leaves *)
(* its variables alone.                                                    *)
Current == IF held = NoSlot THEN NoValue ELSE buf_[held]

LEMMA InitFifo == Init => Fifo!Init
<1>. SUFFICES ASSUME Init PROVE Fifo!Init
  OBVIOUS
<1>1. head_ \in Slots /\ CountOf(0, 0) = 0
  BY SizeAssumption DEF Init, RingInit, Slots, CountOf
<1>2. Contents = <<>>
  <2>1. Contents \in Seq(Values) /\ Len(Contents) = 0
    BY <1>1, ContentsType DEF Contents, Init, RingInit
  <2>. QED
    BY <2>1
<1>. QED
  BY <1>2 DEF Init, RingInit, Fifo!Init

LEMMA NextFifo ==
    IInv /\ [Next]_vars => [Fifo!Next]_<<Contents, Current>>
<1>. SUFFICES ASSUME IInv, [Next]_vars
              PROVE  [Fifo!Next]_<<Contents, Current>>
  OBVIOUS
<1>. USE DEF IInv, TypeOK
<1>1. ASSUME UNCHANGED ringVars PROVE UNCHANGED <<Contents, Current>>
  BY <1>1 DEF ringVars, Contents, Current
<1>2. CASE GetMessage
  <2>1. head_ # tail_ /\ held = NoSlot
    BY <1>2 DEF GetMessage
  <2>2. /\ Contents # <<>> /\ Head(Contents) = buf_[tail_]
        /\ ContentsOf(buf_, head_, After(tail_)) = Tail(Contents)
    BY <2>1, TailContents DEF Contents, RingTypeOK
  <2>3. held' = tail_ /\ Contents' = ContentsOf(buf_, head_, After(tail_))
        /\ buf_' = buf_
    BY <1>2, <2>1 DEF GetMessage, Get, Contents
  <2>4. NoSlot \notin Slots
    BY SizeAssumption DEF NoSlot, Slots
  <2>5. Fifo!Take
    BY <2>1, <2>2, <2>3, <2>4 DEF Fifo!Take, RingTypeOK
  <2>. QED
    BY <2>5 DEF Fifo!Next
<1>3. CASE ParseMessage
  <2>1. held \in Slots /\ buf_[held] \in Values
    BY <1>3 DEF ParseMessage, RingTypeOK
  <2>2. held # NoSlot /\ held' = NoSlot /\ Contents' = Contents
    BY <1>3 DEF ParseMessage, Contents
  <2>3. Fifo!Finish
    BY <2>1, <2>2, NoValueAssumption DEF Fifo!Finish
  <2>. QED
    BY <2>3 DEF Fifo!Next
<1>4. CASE \E v \in Values : PutMessage(v)
  <2>1. PICK v \in Values : PutMessage(v)
    BY <1>4
  <2>2. /\ buf_ \in [Slots -> Values] /\ head_ \in Slots /\ tail_ \in Slots
        /\ held \in Slots \union {NoSlot} /\ held' = held
        /\ buf_' = [buf_ EXCEPT ![head_] = v] /\ head_' = After(head_)
    BY <2>1 DEF PutMessage, Put, RingTypeOK
  <2>3. Len(Contents) = Count /\ Count \in 0 .. Size - 1
    <3>1. Len(Contents) = Count
      BY <2>2, ContentsType DEF Contents, Count
    <3>2. Count \in 0 .. Size - 1
      BY <2>2, CountFacts DEF Count
    <3>. QED
      BY <3>1, <3>2
  <2>4. CASE After(head_) # tail_
    <3>1. tail_' = tail_
      BY <2>1, <2>4 DEF PutMessage, Put
    <3>2. Contents' = Append(Contents, v)
      BY <2>2, <2>4, <3>1, AppendContents DEF Contents
    <3>3. Count < Size - 1
      BY <2>2, <2>3, <2>4, CountFacts, SizeAssumption DEF Count
    <3>4. held # NoSlot => held # head_ /\ held \in Slots
      BY <2>2, <2>4
    <3>5. Current' = Current
      BY <2>2, <3>4 DEF Current
    <3>6. Fifo!Arrive(v)
      BY <2>3, <3>2, <3>3, <3>5 DEF Fifo!Arrive, Current
    <3>. QED
      BY <3>6 DEF Fifo!Next
  <2>5. CASE After(head_) = tail_
    <3>1. tail_' = After(tail_)
      BY <2>1, <2>5 DEF PutMessage, Put
    <3>2. head_ # tail_ /\ Count = Size - 1
      BY <2>2, <2>5, AfterStep, CountFacts DEF Count
    <3>3. /\ Contents # <<>> /\ After(tail_) \in Slots /\ After(tail_) # tail_
          /\ ContentsOf(buf_, head_, After(tail_)) = Tail(Contents)
      BY <2>2, <3>2, TailContents, AfterStep DEF Contents
    <3>4. Contents' = Append(Tail(Contents), v)
      <4>1. After(head_) # After(tail_)
        BY <2>5, <3>3
      <4>2. ContentsOf([buf_ EXCEPT ![head_] = v], After(head_), After(tail_))
              = Append(ContentsOf(buf_, head_, After(tail_)), v)
        BY <2>2, <3>3, <4>1, AppendContents
      <4>3. Contents' = ContentsOf([buf_ EXCEPT ![head_] = v], After(head_),
                                   After(tail_))
        BY <2>2, <3>1 DEF Contents
      <4>. QED
        BY <3>3, <4>2, <4>3
    <3>5. Current' = Current \/ (Current # NoValue /\ Current' = v)
      BY <2>2, NoValueAssumption DEF Current
    <3>6. Fifo!Overrun(v)
      BY <2>3, <3>2, <3>4, <3>5 DEF Fifo!Overrun, Current
    <3>. QED
      BY <3>6 DEF Fifo!Next
  <2>. QED
    BY <2>4, <2>5
<1>5. CASE LoadOne \/ LoadOther \/ BeginWait \/ SpuriousWakeup \/ Notify
  BY <1>1, <1>5 DEF LoadOne, LoadOther, BeginWait, SpuriousWakeup, Notify
<1>6. CASE UNCHANGED vars
  BY <1>1, <1>6 DEF vars
<1>. QED
  BY <1>2, <1>3, <1>4, <1>5, <1>6 DEF Next, WorkerStep, ReaderStep

(* The ring and its worker implement LossyFifo.                            *)
THEOREM RingIsLossyFifo == Spec => FifoSpec
<1>1. Init => Fifo!Init
  BY InitFifo
<1>2. IInv /\ [Next]_vars => [Fifo!Next]_<<Contents, Current>>
  BY NextFifo
<1>. QED
  BY <1>1, <1>2, Invariant, PTL DEF Spec, FifoSpec, Fifo!Spec, Current
=============================================================================
