----------------------------- MODULE RSCanProofs -----------------------------
(***************************************************************************)
(* Theorems about RSCan, for every set of frames, every counter width and  *)
(* every bound.                                                            *)
(***************************************************************************)
EXTENDS RSCan, SequenceTheorems, TLAPS

LEMMA Running ==
  ASSUME TypeOK
  PROVE  setting.running \subseteq Machine /\ select_vcan_mode \in BOOLEAN
BY RSCanAssumption DEF TypeOK, Setting, select_vcan_mode

LEMMA LoopIs ==
  ASSUME TypeOK
  PROVE  loop \in Seq(Register) /\ Len(loop) \in Nat /\ 1 \in 1 .. Len(loop)
<1>1. loop \in Seq(Register) /\ loop # <<>>
  BY RSCanAssumption DEF TypeOK, loop, Setting
<1> QED
  BY <1>1, EmptySeq

LEMMA PanicType ==
  ASSUME TypeOK, Panic, UNCHANGED setting
  PROVE  TypeOK'
BY DEF TypeOK, Panic, firmware, loop

LEMMA AdvanceType ==
  ASSUME TypeOK, NEW m \in Machine, NEW now \in Assembled, Advance(m, now)
  PROVE  /\ at' \in [Machine -> 1 .. Len(loop)]
         /\ got' \in [Machine -> Assembled]
         /\ received' \in Seq(Assembled)
<1>1. Len(loop) \in Nat /\ at[m] \in 1 .. Len(loop)
  BY LoopIs DEF TypeOK
<1>2. NothingYet \in Assembled
  BY DEF NothingYet, Assembled
<1>3. CASE at[m] < Len(loop)
  <2>1. /\ at' = [at EXCEPT ![m] = @ + 1]
        /\ got' = [got EXCEPT ![m] = now]
        /\ received' = received
    BY <1>3 DEF Advance
  <2>2. at[m] + 1 \in 1 .. Len(loop)
    BY <1>1, <1>3
  <2> QED
    BY <2>1, <2>2 DEF TypeOK
<1>4. CASE ~(at[m] < Len(loop))
  <2>1. /\ at' = [at EXCEPT ![m] = 1]
        /\ got' = [got EXCEPT ![m] = NothingYet]
        /\ received' = Append(received, now)
    BY <1>4 DEF Advance
  <2>2. 1 \in 1 .. Len(loop)
    BY LoopIs
  <2> QED
    BY <1>2, <2>1, <2>2 DEF TypeOK
<1> QED
  BY <1>3, <1>4

LEMMA SourceType ==
  ASSUME TypeOK, Source # <<>>
  PROVE  Head(Source) \in Traffic
<1>1. Source \in Seq(Traffic)
  BY SeqMonotonic DEF TypeOK, Source, QueuedFrame
<1> QED
  BY <1>1, HeadTailProperties

LEMMA ConsumeType ==
  ASSUME TypeOK, Source # <<>>, Consume
  PROVE  /\ data_queue' \in Seq(QueuedFrame) /\ socket' \in Seq(Traffic)
         /\ poisoned' \in BOOLEAN
         /\ rfsts0' \in [Machine -> [empty : BOOLEAN, unread : 0 .. CounterMax]]
BY HeadTailProperties DEF TypeOK, Source, Consume

LEMMA ReadRFSTS0Type ==
  ASSUME TypeOK, UNCHANGED setting, NEW m \in Machine, ReadRFSTS0(m)
  PROVE  TypeOK'
<1> DEFINE unread == Len(data_queue)
<1>1. unread \in Nat /\ got[m] \in Assembled
  BY DEF TypeOK
<1>2. CASE Panic
  BY <1>2, PanicType
<1>3. CASE /\ unread <= CounterMax
           /\ rfsts0' = [rfsts0 EXCEPT ![m] = [empty |-> unread <= 0, unread |-> unread]]
           /\ IF unread <= 0 THEN Again(m) ELSE Advance(m, got[m])
           /\ UNCHANGED controller
  <2>1. rfsts0' \in [Machine -> [empty : BOOLEAN, unread : 0 .. CounterMax]]
    BY <1>1, <1>3, RSCanAssumption DEF TypeOK
  <2>2. CASE Again(m)
    <3>1. at' \in [Machine -> 1 .. Len(loop)]
      BY <2>2, LoopIs DEF Again, TypeOK
    <3> QED
      BY <1>3, <2>1, <2>2, <3>1 DEF Again, TypeOK, controller, loop
  <2>3. CASE Advance(m, got[m])
    BY <1>1, <1>3, <2>1, <2>3, AdvanceType DEF TypeOK, controller, loop
  <2> QED
    BY <1>3, <2>2, <2>3
<1> QED
  BY <1>1, <1>2, <1>3, RSCanAssumption DEF ReadRFSTS0, Poll

LEMMA AccessType ==
  ASSUME TypeOK, UNCHANGED setting, NEW m \in Machine, Access(m)
  PROVE  TypeOK'
<1>0. got[m] \in Assembled
  BY DEF TypeOK
<1>1. CASE ReadRFSTS0(m)
  BY <1>1, ReadRFSTS0Type
<1>2. CASE ReadRFPTR0(m)
  BY <1>0, <1>2, PanicType, AdvanceType DEF ReadRFPTR0, TypeOK, controller, loop
<1>3. CASE ReadRFID0(m)
  <2>1. ASSUME Source # <<>>
        PROVE  [got[m] EXCEPT !.id = IdWord(Head(Source))] \in Assembled
    BY <1>0, <2>1, SourceType, RSCanAssumption DEF IdWord, Assembled, Frame
  <2> QED
    BY <1>3, <2>1, PanicType, AdvanceType, ConsumeType DEF ReadRFID0, TypeOK, loop
<1>4. CASE ReadRFDF(m)
  <2>1. CASE Panic
    BY <2>1, PanicType
  <2>2. CASE Source # <<>> /\ Head(Source).hi # Short
             /\ Fetch(m, Head(Source)) /\ Consume
    <3>1. /\ [got[m] EXCEPT !.lo = Head(Source).lo] \in Assembled
          /\ [got[m] EXCEPT !.hi = Head(Source).hi] \in Assembled
      BY <1>0, <2>2, SourceType, RSCanAssumption DEF Assembled, Frame
    <3> QED
      BY <2>2, <3>1, AdvanceType, ConsumeType DEF Fetch, TypeOK, loop
  <2> QED
    BY <1>4, <2>1, <2>2 DEF ReadRFDF
<1>5. CASE WriteRFPCTR0(m)
  <2>1. CASE Panic
    BY <2>1, PanicType
  <2>2. CASE /\ data_queue # <<>>
             /\ data_queue' = Tail(data_queue)
             /\ Advance(m, got[m])
             /\ UNCHANGED <<socket, poisoned, rfsts0>>
    <3>1. Tail(data_queue) \in Seq(QueuedFrame)
      BY <2>2, HeadTailProperties DEF TypeOK
    <3> QED
      BY <1>0, <2>2, <3>1, AdvanceType DEF TypeOK, loop
  <2> QED
    BY <1>5, <2>1, <2>2 DEF WriteRFPCTR0
<1>6. CASE AccessInert(m) \/ WriteTMC0(m)
  <2>1. CASE Panic
    BY <2>1, PanicType
  <2>2. CASE Advance(m, got[m]) /\ UNCHANGED <<controller, rfsts0>>
    BY <1>0, <2>2, AdvanceType DEF TypeOK, controller, loop
  <2> QED
    BY <1>6, <2>1, <2>2 DEF AccessInert, WriteTMC0
<1> QED
  BY <1>1, <1>2, <1>3, <1>4, <1>5, <1>6 DEF Access

(* Registers and frames keep their types; RFMC holds the count it is given *)
(* because a count that does not fit panics before it is stored.           *)
THEOREM TypeCorrect == Spec => []TypeOK
<1>1. Init => TypeOK
  <2>1. 0 \in 0 .. CounterMax
    BY RSCanAssumption
  <2>2. NothingYet \in Assembled
    BY DEF NothingYet, Assembled
  <2>3. <<>> \in Seq(QueuedFrame) /\ <<>> \in Seq(Traffic) /\ <<>> \in Seq(Assembled)
    OBVIOUS
  <2>4. [empty |-> FALSE, unread |-> 0] \in [empty : BOOLEAN, unread : 0 .. CounterMax]
    BY <2>1
  <2>5. Init => rfsts0 \in [Machine -> [empty : BOOLEAN, unread : 0 .. CounterMax]]
    BY <2>4 DEF Init
  <2>6. Init => at \in [Machine -> 1 .. Len(loop)] /\ got \in [Machine -> Assembled]
    <3>1. Init => loop \in Seq(Register) /\ loop # <<>>
      BY RSCanAssumption DEF Init, loop, Setting
    <3>2. Init => 1 \in 1 .. Len(loop)
      BY <3>1, EmptySeq
    <3> QED
      BY <2>2, <3>2 DEF Init
  <2> QED
    BY <2>3, <2>5, <2>6 DEF Init, TypeOK
<1>2. TypeOK /\ [Next]_vars => TypeOK'
  <2> SUFFICES ASSUME TypeOK, [Next]_vars PROVE TypeOK'
    OBVIOUS
  <2>1. CASE UNCHANGED vars
    BY <2>1 DEF vars, loop, TypeOK
  <2>2. CASE Next
    <3>0. UNCHANGED setting
      BY <2>2 DEF Next
    <3>1. ASSUME NEW m \in setting.running, Access(m) PROVE TypeOK'
      BY <3>0, <3>1, AccessType, Running
    <3>2. ASSUME NEW f \in QueuedFrame, Enqueue(f) PROVE TypeOK'
      BY <3>0, <3>2 DEF Enqueue, TypeOK, firmware, loop
    <3>3. ASSUME NEW id \in BadId, EnqueueBadId(id) PROVE TypeOK'
      BY <3>0, <3>3, PanicType DEF EnqueueBadId
    <3>4. CASE HostDequeue
      BY <3>0, <3>4, HeadTailProperties DEF HostDequeue, TypeOK, firmware, loop
    <3>5. CASE HostClear
      <4>1. data_queue' \in Seq(QueuedFrame)
        BY <3>5 DEF HostClear
      <4>2. UNCHANGED <<socket, poisoned, rfsts0, at, got, received>> /\ UNCHANGED loop
        BY <3>0, <3>5 DEF HostClear, firmware, loop
      <4> QED
        BY <3>0, <4>1, <4>2 DEF TypeOK, loop
    <3>6. ASSUME NEW f \in Traffic, Arrive(f) PROVE TypeOK'
      <4>1. socket' \in Seq(Traffic)
        BY <3>6, AppendProperties DEF Arrive, TypeOK
      <4>2. UNCHANGED <<data_queue, poisoned, rfsts0, at, got, received>> /\ UNCHANGED loop
        BY <3>0, <3>6 DEF Arrive, firmware, loop
      <4> QED
        BY <3>0, <4>1, <4>2 DEF TypeOK, loop
    <3> QED
      BY <2>2, <3>1, <3>2, <3>3, <3>4, <3>5, <3>6 DEF Next
  <2> QED
    BY <2>1, <2>2
<1> QED
  BY <1>1, <1>2, PTL DEF Spec
-----------------------------------------------------------------------------
(* Queued mode with one reader is a mailbox.                               *)

\* What a read of register reg leaves in the frame g that is assembled: a
\* field of the oldest message.
Known(reg, g) ==
  /\ reg = "RFID0" => g.id = IdWord(Head(data_queue))
  /\ reg = "RFDF00" => g.lo = Head(data_queue).lo
  /\ reg = "RFDF10" => g.hi = Head(data_queue).hi

\* Past the poll there is a message, and what machine m has assembled so far
\* are fields of it: the host only appends behind it, and nobody else removes
\* it.
Round(m) ==
  /\ at[m] > 1 => data_queue # <<>>
  /\ \A i \in 1 .. at[m] - 1 : Known(loop[i], got[m])

Rounds == \A m \in setting.running : Round(m)

\* How everything is set up does not change.
LEMMA SettingFixed ==
  ASSUME UNCHANGED setting
  PROVE  /\ loop' = loop /\ select_vcan_mode' = select_vcan_mode
         /\ OneReader' <=> OneReader
BY DEF OneReader, ReceivesOne, loop, select_vcan_mode

LEMMA QueuedSetting ==
  ASSUME OneReader, TypeOK
  PROVE  /\ ReceivesOne(loop) /\ Len(loop) \in Nat /\ Len(loop) > 1
         /\ Source = data_queue /\ ~select_vcan_mode
<1>1. ReceivesOne(loop) /\ Len(loop) \in Nat /\ 1 \in 1 .. Len(loop)
  BY LoopIs DEF OneReader
<1>2. Len(loop) # 1
  BY <1>1 DEF ReceivesOne
<1>3. Len(loop) > 1
  BY <1>1, <1>2
<1>4. ~select_vcan_mode /\ Source = data_queue
  BY DEF OneReader, Source
<1> QED
  BY <1>1, <1>3, <1>4

\* Where in the round a register is accessed.
LEMMA Place ==
  ASSUME OneReader, TypeOK, NEW m \in Machine
  PROVE  /\ at[m] \in 1 .. Len(loop)
         /\ loop[at[m]] = "RFPCTR0" <=> at[m] = Len(loop)
         /\ at[m] = 1 => loop[at[m]] = "RFSTS0"
<1>1. at[m] \in 1 .. Len(loop)
  BY DEF TypeOK
<1>2. at[m] < Len(loop) => at[m] \in 1 .. Len(loop) - 1
  BY <1>1, QueuedSetting
<1> QED
  BY <1>1, <1>2, QueuedSetting DEF ReceivesOne

\* An access inside the round that leaves the queue alone, knows what it read
\* and forgets nothing, keeps the invariant.
LEMMA StepOn ==
  ASSUME OneReader, TypeOK, NEW m \in Machine, Round(m), data_queue # <<>>,
         UNCHANGED <<setting, data_queue>>,
         NEW now, Advance(m, now), loop[at[m]] # "RFPCTR0",
         Known(loop[at[m]], now),
         \A reg \in Register : Known(reg, got[m]) => Known(reg, now)
  PROVE  Round(m)' /\ UNCHANGED <<data_queue, received>>
<1>1. at[m] \in 1 .. Len(loop) /\ at[m] < Len(loop)
  BY Place, QueuedSetting
<1>2. at'[m] = at[m] + 1 /\ got'[m] = now /\ received' = received
  BY <1>1 DEF Advance, TypeOK
<1>3. ASSUME NEW i \in 1 .. at'[m] - 1
      PROVE  Known(loop[i], now)
  <2>1. i \in 1 .. at[m] - 1 \/ i = at[m]
    BY <1>1, <1>2, <1>3
  <2>2. loop[i] \in Register
    BY <1>1, <2>1, LoopIs
  <2> QED
    BY <2>1, <2>2 DEF Round
<1>4. \A i \in 1 .. at'[m] - 1 : Known(loop[i], got[m])'
  BY <1>2, <1>3 DEF Known, loop
<1> QED
  BY <1>2, <1>4 DEF Round, loop

\* A panic stops the controller and the firmware where they are.
LEMMA PanicRounds ==
  ASSUME Rounds, Panic, UNCHANGED setting
  PROVE  Rounds' /\ UNCHANGED <<data_queue, received>>
BY DEF Rounds, Round, Known, Panic, firmware, loop

LEMMA PollStep ==
  ASSUME OneReader, TypeOK, UNCHANGED setting,
         NEW m \in Machine, Round(m), ReadRFSTS0(m), ~Panic
  PROVE  Round(m)' /\ UNCHANGED <<data_queue, received>>
<1> DEFINE unread == Len(data_queue)
<1>1. unread \in Nat /\ loop[at[m]] = "RFSTS0" /\ UNCHANGED data_queue
  BY DEF ReadRFSTS0, Poll, TypeOK, Accesses, controller
<1>2. CASE unread <= 0 /\ Again(m)
  <2>1. at'[m] = 1 /\ UNCHANGED received
    BY <1>2 DEF Again, TypeOK
  <2> QED
    BY <1>1, <2>1 DEF Round
<1>3. CASE ~(unread <= 0) /\ Advance(m, got[m])
  <2>1. data_queue # <<>>
    BY <1>3, EmptySeq DEF TypeOK
  <2> QED
    BY <1>1, <1>3, <2>1, StepOn DEF Known
<1> QED
  BY <1>2, <1>3 DEF ReadRFSTS0, Poll

LEMMA IdStep ==
  ASSUME OneReader, TypeOK, UNCHANGED setting,
         NEW m \in Machine, Round(m), ReadRFID0(m), ~Panic
  PROVE  Round(m)' /\ UNCHANGED <<data_queue, received>>
<1> DEFINE now == [got[m] EXCEPT !.id = IdWord(Head(data_queue))]
<1>1. /\ loop[at[m]] = "RFID0" /\ data_queue # <<>>
      /\ Advance(m, now) /\ UNCHANGED data_queue
  BY QueuedSetting DEF ReadRFID0, Accesses, Consume
<1>2. /\ now.id = IdWord(Head(data_queue))
      /\ now.lo = got[m].lo /\ now.hi = got[m].hi
  BY DEF TypeOK, Assembled
<1>3. /\ Known(loop[at[m]], now)
      /\ \A reg \in Register : Known(reg, got[m]) => Known(reg, now)
  BY <1>1, <1>2 DEF Known
<1> QED
  BY <1>1, <1>3, StepOn

LEMMA DataStep ==
  ASSUME OneReader, TypeOK, UNCHANGED setting,
         NEW m \in Machine, Round(m), ReadRFDF(m), ~Panic
  PROVE  Round(m)' /\ UNCHANGED <<data_queue, received>>
<1> DEFINE low == [got[m] EXCEPT !.lo = Head(data_queue).lo]
           high == [got[m] EXCEPT !.hi = Head(data_queue).hi]
<1>1. /\ data_queue # <<>> /\ UNCHANGED data_queue
      /\ \/ loop[at[m]] = "RFDF00" /\ Advance(m, low)
         \/ loop[at[m]] = "RFDF10" /\ Advance(m, high)
  BY QueuedSetting DEF ReadRFDF, Fetch, Accesses, Consume
<1>2. /\ low.lo = Head(data_queue).lo /\ low.id = got[m].id /\ low.hi = got[m].hi
      /\ high.hi = Head(data_queue).hi /\ high.id = got[m].id /\ high.lo = got[m].lo
  BY DEF TypeOK, Assembled
<1>3. \A reg \in Register :
        Known(reg, got[m]) => Known(reg, low) /\ Known(reg, high)
  BY <1>2 DEF Known
<1>4. Known("RFDF00", low) /\ Known("RFDF10", high)
  BY <1>2 DEF Known
<1> QED
  BY <1>1, <1>3, <1>4, StepOn

\* The accesses that neither read a field nor remove a message.
LEMMA IdleStep ==
  ASSUME OneReader, TypeOK, UNCHANGED setting, NEW m \in Machine, Round(m),
         ReadRFPTR0(m) \/ AccessInert(m) \/ WriteTMC0(m), ~Panic
  PROVE  Round(m)' /\ UNCHANGED <<data_queue, received>>
<1>1. /\ loop[at[m]] \in {"RFPTR0", "TMC0"} \cup Inert
      /\ Advance(m, got[m]) /\ UNCHANGED data_queue
  BY DEF ReadRFPTR0, AccessInert, WriteTMC0, Accesses, controller
<1>2. loop[at[m]] \notin {"RFSTS0", "RFID0", "RFDF00", "RFDF10", "RFPCTR0"}
  BY <1>1 DEF Inert
<1>3. data_queue # <<>>
  <2>1. at[m] # 1
    BY <1>2, Place
  <2> QED
    BY <2>1, Place DEF Round
<1>4. Known(loop[at[m]], got[m])
  BY <1>2 DEF Known
<1> QED
  BY <1>1, <1>2, <1>3, <1>4, StepOn

-----------------------------------------------------------------------------
(* The queue as the firmware sees it.                                       *)

SeenFrame == {Seen(f) : f \in QueuedFrame}

LEMMA SeenAllIs ==
  ASSUME NEW q \in Seq(QueuedFrame)
  PROVE  /\ SeenAll(q) \in Seq(SeenFrame)
         /\ Len(SeenAll(q)) = Len(q)
         /\ \A i \in 1 .. Len(q) : SeenAll(q)[i] = Seen(q[i])
<1>1. Len(q) \in Nat /\ \A i \in 1 .. Len(q) : q[i] \in QueuedFrame
  BY ElementOfSeq
<1>2. SeenAll(q) \in [1 .. Len(q) -> SeenFrame]
  BY <1>1 DEF SeenAll, SeenFrame
<1>3. SeenAll(q) \in Seq(SeenFrame)
  BY <1>1, <1>2, SeqDef
<1>4. Len(SeenAll(q)) = Len(q)
  BY <1>1, <1>2, <1>3, LenProperties
<1> QED
  BY <1>3, <1>4 DEF SeenAll

LEMMA SeenAllTail ==
  ASSUME NEW q \in Seq(QueuedFrame), q # <<>>
  PROVE  /\ SeenAll(q) # <<>>
         /\ Head(SeenAll(q)) = Seen(Head(q))
         /\ SeenAll(Tail(q)) = Tail(SeenAll(q))
<1>1. Len(q) \in Nat \ {0} /\ Tail(q) \in Seq(QueuedFrame) /\ Len(Tail(q)) = Len(q) - 1
  BY EmptySeq, HeadTailProperties
<1>2. SeenAll(q) # <<>> /\ SeenAll(q) \in Seq(SeenFrame)
  BY <1>1, SeenAllIs, EmptySeq
<1>3. Head(SeenAll(q)) = Seen(Head(q))
  BY <1>1, <1>2, SeenAllIs
<1>4. /\ SeenAll(Tail(q)) \in Seq(SeenFrame) /\ Tail(SeenAll(q)) \in Seq(SeenFrame)
      /\ Len(SeenAll(Tail(q))) = Len(q) - 1 /\ Len(Tail(SeenAll(q))) = Len(q) - 1
  BY <1>1, <1>2, SeenAllIs, HeadTailProperties
<1>5. ASSUME NEW i \in 1 .. Len(q) - 1
      PROVE  SeenAll(Tail(q))[i] = Tail(SeenAll(q))[i]
  <2>1. i + 1 \in 1 .. Len(q) /\ Tail(q)[i] = q[i + 1]
    BY <1>1, HeadTailProperties
  <2>2. Tail(SeenAll(q))[i] = SeenAll(q)[i + 1]
    BY <1>2, <1>4, HeadTailProperties
  <2> QED
    BY <1>1, <2>1, <2>2, SeenAllIs
<1> QED
  BY <1>2, <1>3, <1>4, <1>5, SeqEqual

LEMMA SeenAllAppend ==
  ASSUME NEW q \in Seq(QueuedFrame), NEW f \in QueuedFrame
  PROVE  SeenAll(Append(q, f)) = Append(SeenAll(q), Seen(f))
<1>1. /\ Append(q, f) \in Seq(QueuedFrame) /\ Len(Append(q, f)) = Len(q) + 1
      /\ Len(q) \in Nat
  BY AppendProperties
<1>2. SeenAll(q) \in Seq(SeenFrame) /\ Len(SeenAll(q)) = Len(q) /\ Seen(f) \in SeenFrame
  BY SeenAllIs DEF SeenFrame
<1>3. /\ SeenAll(Append(q, f)) \in Seq(SeenFrame)
      /\ Append(SeenAll(q), Seen(f)) \in Seq(SeenFrame)
      /\ Len(SeenAll(Append(q, f))) = Len(q) + 1
      /\ Len(Append(SeenAll(q), Seen(f))) = Len(q) + 1
  <2>1. /\ SeenAll(Append(q, f)) \in Seq(SeenFrame)
        /\ Len(SeenAll(Append(q, f))) = Len(q) + 1
    BY <1>1, SeenAllIs
  <2>2. /\ Append(SeenAll(q), Seen(f)) \in Seq(SeenFrame)
        /\ Len(Append(SeenAll(q), Seen(f))) = Len(SeenAll(q)) + 1
    BY <1>2, AppendProperties
  <2> QED
    BY <1>2, <2>1, <2>2
<1>4. ASSUME NEW i \in 1 .. Len(q) + 1
      PROVE  SeenAll(Append(q, f))[i] = Append(SeenAll(q), Seen(f))[i]
  <2>1. SeenAll(Append(q, f))[i] = Seen(Append(q, f)[i])
    BY <1>1, SeenAllIs
  <2>2. CASE i = Len(q) + 1
    <3>1. Append(q, f)[i] = f /\ Append(SeenAll(q), Seen(f))[i] = Seen(f)
      BY <1>2, <2>2, AppendProperties
    <3> QED
      BY <2>1, <3>1
  <2>3. CASE i \in 1 .. Len(q)
    <3>1. Append(q, f)[i] = q[i]
      BY <2>3, AppendProperties
    <3>2. Append(SeenAll(q), Seen(f))[i] = SeenAll(q)[i]
      BY <1>2, <2>3, AppendProperties
    <3> QED
      BY <2>1, <2>3, <3>1, <3>2, SeenAllIs
  <2>4. i = Len(q) + 1 \/ i \in 1 .. Len(q)
    BY <1>1, <1>4
  <2> QED
    BY <2>2, <2>3, <2>4
<1> QED
  BY <1>3, <1>4, SeqEqual
-----------------------------------------------------------------------------
\* The access that ends the round removes the message it has assembled.
LEMMA AckStep ==
  ASSUME OneReader, TypeOK, UNCHANGED setting,
         NEW m \in Machine, Round(m), WriteRFPCTR0(m), ~Panic
  PROVE  Round(m)' /\ Box!Deliver
<1>1. /\ at[m] = Len(loop) /\ data_queue # <<>>
      /\ data_queue' = Tail(data_queue) /\ Advance(m, got[m])
  BY Place DEF WriteRFPCTR0, Accesses
<1>2. at'[m] = 1 /\ received' = Append(received, got[m])
  BY <1>1, QueuedSetting DEF Advance, TypeOK
<1>3. got[m] = Seen(Head(data_queue))
  <2>1. Head(data_queue) \in Frame /\ got[m] \in Assembled
    BY <1>1, HeadTailProperties, RSCanAssumption DEF TypeOK, QueuedFrame
  <2>2. /\ \E i \in 1 .. Len(loop) - 1 : loop[i] = "RFID0"
        /\ \E i \in 1 .. Len(loop) - 1 : loop[i] = "RFDF00"
        /\ \E i \in 1 .. Len(loop) - 1 : loop[i] = "RFDF10"
    BY QueuedSetting DEF ReceivesOne
  <2>3. /\ got[m].id = IdWord(Head(data_queue))
        /\ got[m].lo = Head(data_queue).lo
        /\ got[m].hi = Head(data_queue).hi
    BY <1>1, <2>2 DEF Round, Known
  <2> QED
    BY <2>1, <2>3 DEF Seen, Frame, Assembled
<1>4. Round(m)'
  BY <1>2 DEF Round
<1> QED
  BY <1>1, <1>2, <1>3, <1>4, SeenAllTail, SettingFixed DEF Box!Deliver, TypeOK

\* An enqueued message goes behind the one that is being read.
LEMMA EnqueueStep ==
  ASSUME OneReader, TypeOK, Rounds, UNCHANGED setting,
         NEW f \in QueuedFrame, Enqueue(f)
  PROVE  Rounds' /\ Box!Arrive(Seen(f))
<1>1. data_queue' = Append(data_queue, f) /\ UNCHANGED <<at, got, received>>
  BY DEF Enqueue, firmware
<1>2. data_queue' # <<>>
  BY <1>1, AppendProperties DEF TypeOK
<1>3. data_queue # <<>> => Head(data_queue') = Head(data_queue)
  BY <1>1, EmptySeq, AppendProperties DEF TypeOK
<1>4. ASSUME NEW m \in setting.running PROVE Round(m)'
  <2>1. Round(m) /\ at[m] \in Nat /\ UNCHANGED loop
    BY Running DEF Rounds, loop, TypeOK
  <2>2. ASSUME NEW i \in 1 .. at[m] - 1
        PROVE  Known(loop[i], got[m])'
    <3>1. data_queue # <<>>
      BY <2>1 DEF Round
    <3> QED
      BY <1>1, <1>3, <2>1, <3>1 DEF Round, Known
  <2> QED
    BY <1>1, <1>2, <2>1, <2>2 DEF Round
<1>5. SeenAll(data_queue') = Append(SeenAll(data_queue), Seen(f))
  BY <1>1, SeenAllAppend DEF TypeOK
<1> QED
  BY <1>1, <1>4, <1>5, SettingFixed DEF Rounds, Box!Arrive

BoxVars == << IF OneReader THEN SeenAll(data_queue) ELSE <<>>,
              IF OneReader THEN received ELSE <<>> >>

Delivers == [Box!Next]_BoxVars

LEMMA BoxStutters ==
  ASSUME UNCHANGED <<setting, data_queue, received>>
  PROVE  UNCHANGED BoxVars
BY SettingFixed DEF BoxVars, SeenAll, Seen, IdWord

LEMMA AccessRounds ==
  ASSUME OneReader, TypeOK, Rounds, UNCHANGED setting,
         NEW m \in setting.running, Access(m)
  PROVE  Rounds' /\ Delivers
<1>1. CASE Panic
  BY <1>1, PanicRounds, BoxStutters DEF Delivers
<1>2. CASE ~Panic
  <2>1. Round(m)' /\ (Box!Deliver \/ UNCHANGED <<data_queue, received>>)
    BY <1>2, Running, PollStep, IdStep, DataStep, IdleStep, AckStep DEF Access, Rounds
  <2>2. \A n \in setting.running : n = m
    BY DEF OneReader
  <2> QED
    BY <2>1, <2>2, BoxStutters DEF Rounds, Delivers, Box!Next
<1> QED
  BY <1>1, <1>2

\* What holds past every step: in any other setting the mailbox is empty.
ReaderRounds == OneReader => Rounds

LEMMA NextRounds ==
  ASSUME TypeOK, ReaderRounds, [Next]_vars
  PROVE  ReaderRounds' /\ Delivers
<1>0. UNCHANGED setting
  BY DEF Next, vars
<1>1. CASE UNCHANGED vars
  BY <1>1, BoxStutters, SettingFixed
     DEF vars, loop, ReaderRounds, Rounds, Round, Known, Delivers
<1>2. CASE ~OneReader
  BY <1>0, <1>2, SettingFixed DEF ReaderRounds, Delivers, BoxVars
<1>3. CASE OneReader /\ Next
  <2>0. Rounds
    BY <1>3 DEF ReaderRounds
  <2>1. ASSUME NEW m \in setting.running, Access(m) PROVE Rounds' /\ Delivers
    BY <1>0, <1>3, <2>0, <2>1, AccessRounds
  <2>2. ASSUME NEW f \in QueuedFrame, Enqueue(f) PROVE Rounds' /\ Delivers
    BY <1>0, <1>3, <2>0, <2>2, EnqueueStep DEF Box!Next, Delivers
  <2>3. /\ \A id \in BadId : ~EnqueueBadId(id)
        /\ ~HostDequeue /\ ~HostClear /\ \A f \in Traffic : ~Arrive(f)
    BY <1>3 DEF OneReader, HostMay, EnqueueBadId, HostDequeue, HostClear, Arrive
  <2> QED
    BY <1>3, <2>1, <2>2, <2>3 DEF Next, ReaderRounds
<1> QED
  BY <1>1, <1>2, <1>3

LEMMA InitRounds == Init => Rounds /\ Box!Init
<1> SUFFICES ASSUME Init PROVE Rounds /\ Box!Init
  OBVIOUS
<1>1. data_queue = <<>> /\ received = <<>> /\ \A m \in Machine : at[m] = 1
  BY DEF Init
<1>2. SeenAll(<<>>) = <<>>
  BY SeenAllIs, EmptySeq
<1>3. setting.running \subseteq Machine
  BY RSCanAssumption DEF Init, Setting
<1> QED
  BY <1>1, <1>2, <1>3 DEF Rounds, Round, Box!Init

(* To one reader queued mode implements the abstract mailbox: every        *)
(* firmware that polls first, acknowledges last and reads identifier and   *)
(* data words in between gets exactly the oldest frame, as a receiver of   *)
(* standard frames sees it, for every interleaving with a host that only   *)
(* enqueues, every set of frames and every length of the queue.            *)
THEOREM QueuedModeIsMailbox == Spec => BoxSpec
<1>1. Init => ReaderRounds /\ Box!Init
  BY InitRounds DEF ReaderRounds
<1>2. TypeOK /\ ReaderRounds /\ [Next]_vars => ReaderRounds' /\ [Box!Next]_BoxVars
  BY NextRounds DEF Delivers
<1> QED
  BY <1>1, <1>2, TypeCorrect, PTL DEF Spec, BoxSpec, Box!Spec, BoxVars

\* Nobody sends extended identifiers.
StandardOnly == \A f \in Traffic : f.id \notin ExtId

LEMMA SeenStandard ==
  ASSUME StandardOnly
  PROVE  SeenFrame \subseteq Traffic
<1> SUFFICES ASSUME NEW f \in QueuedFrame PROVE Seen(f) \in Traffic
  BY DEF SeenFrame
<1>1. f \in Traffic /\ f \in Frame
  BY RSCanAssumption DEF QueuedFrame
<1>2. IdWord(f) = f.id
  BY <1>1 DEF StandardOnly, IdWord
<1>3. Seen(f) = f
  BY <1>1, <1>2 DEF Seen, Frame
<1> QED
  BY <1>1, <1>3

\* Every setting has one reader.
ReadersOnly ==
  \A s \in Settings :
    /\ ~s.select_vcan_mode /\ s.host = {}
    /\ \A m, n \in s.running : m = n
    /\ ReceivesOne(s.loop)

(* "If code is reading RFID then the code is preparing to read can data,   *)
(* so we populate ID and Data": in queued mode, with one reader, the       *)
(* frames assembled are frames that were sent.                             *)
THEOREM QueuedFramesWhole ==
  ASSUME ReadersOnly, StandardOnly
  PROVE  Spec => []WholeFrames
<1> DEFINE Sent == received \in Seq(SeenFrame)
<1>0. TypeOK => OneReader
  BY DEF TypeOK, ReadersOnly, OneReader, select_vcan_mode, loop
<1>1. Init => ReaderRounds /\ Sent
  BY InitRounds DEF Init, ReaderRounds
<1>2. TypeOK /\ ReaderRounds /\ [Next]_vars => ReaderRounds'
  BY NextRounds
<1>3. TypeOK /\ TypeOK' /\ ReaderRounds /\ Sent /\ [Next]_vars => Sent'
  <2> SUFFICES ASSUME TypeOK, TypeOK', ReaderRounds, Sent, [Next]_vars PROVE Sent'
    OBVIOUS
  <2>0. OneReader /\ OneReader'
    <3>1. UNCHANGED setting
      BY DEF Next, vars
    <3> QED
      BY <1>0, <3>1, SettingFixed
  <2>1. CASE Box!Deliver
    <3>1. data_queue \in Seq(QueuedFrame) /\ data_queue # <<>>
      BY <2>0, <2>1, SeenAllIs, EmptySeq DEF Box!Deliver, TypeOK
    <3>2. received' = Append(received, Seen(Head(data_queue)))
      BY <2>0, <2>1, <3>1, SeenAllTail DEF Box!Deliver
    <3>3. Seen(Head(data_queue)) \in SeenFrame
      BY <3>1, HeadTailProperties DEF SeenFrame
    <3> QED
      BY <3>2, <3>3, AppendProperties
  <2>2. CASE ~Box!Deliver
    BY <2>0, <2>2, NextRounds DEF Delivers, Box!Next, Box!Arrive, BoxVars
  <2> QED
    BY <2>1, <2>2
<1>4. Sent => WholeFrames
  BY SeenStandard, ElementOfSeq DEF WholeFrames
<1> QED
  BY <1>1, <1>2, <1>3, <1>4, TypeCorrect, PTL DEF Spec

-----------------------------------------------------------------------------
Silent == \A i \in 1 .. Len(loop) : loop[i] # "TMC0"

\* One access panics only at the poll, on a count that does not fit.
LEMMA PanicIsFull ==
  ASSUME OneReader, Silent, TypeOK, Rounds,
         NEW m \in setting.running, Access(m), ~poisoned, poisoned'
  PROVE  (Len(data_queue) > CounterMax)'
<1>0. m \in Machine
  BY Running
<1>1. Round(m) /\ Source = data_queue /\ at[m] \in 1 .. Len(loop)
  BY <1>0, QueuedSetting, Place DEF Rounds
<1>2. loop[at[m]] # "RFSTS0" => data_queue # <<>>
  BY <1>0, <1>1, Place DEF Round
<1>3. data_queue # <<>> => Head(data_queue).hi # Short
  BY HeadTailProperties DEF TypeOK, QueuedFrame
<1>4. loop[at[m]] # "TMC0"
  BY <1>1 DEF Silent
<1>5. CASE ReadRFSTS0(m)
  BY <1>5 DEF ReadRFSTS0, Poll, Panic, controller
<1>6. CASE ReadRFPTR0(m)
  BY <1>2, <1>6 DEF ReadRFPTR0, Accesses, controller
<1>7. CASE ReadRFID0(m)
  BY <1>1, <1>2, <1>7 DEF ReadRFID0, Accesses, Consume
<1>8. CASE ReadRFDF(m)
  BY <1>1, <1>2, <1>3, <1>8 DEF ReadRFDF, Accesses, Consume
<1>9. CASE WriteRFPCTR0(m)
  BY <1>2, <1>9 DEF WriteRFPCTR0, Accesses
<1>10. CASE AccessInert(m)
  BY <1>10 DEF AccessInert, controller
<1>11. CASE WriteTMC0(m)
  BY <1>4, <1>11 DEF WriteTMC0, Accesses
<1> QED
  BY <1>5, <1>6, <1>7, <1>8, <1>9, <1>10, <1>11 DEF Access

\* Nothing happens to the queue of a poisoned controller.
LEMMA PoisonedStays ==
  ASSUME OneReader, TypeOK, poisoned, [Next]_vars
  PROVE  data_queue' = data_queue
<1>1. \A m \in Machine : ~Access(m)
  BY DEF Access, ReadRFSTS0, Poll, ReadRFPTR0, ReadRFID0, ReadRFDF, WriteRFPCTR0,
         AccessInert, WriteTMC0, Accesses
<1>2. /\ \A f \in QueuedFrame : ~Enqueue(f)
      /\ \A id \in BadId : ~EnqueueBadId(id)
  BY DEF Enqueue, EnqueueBadId
<1> QED
  BY <1>1, <1>2, Running DEF Next, HostDequeue, HostClear, Arrive, OneReader, vars

(* To one reader that does not transmit, nothing poisons the mutex but a   *)
(* poll that finds more messages than RFMC can count: every expect and     *)
(* unwrap of the handlers finds its message.                               *)
THEOREM OnlyFullPanics == Spec => []PanicsOnlyWhenFull
<1>1. Init => ReaderRounds /\ PanicsOnlyWhenFull
  BY InitRounds DEF Init, PanicsOnlyWhenFull, ReaderRounds
<1>2. TypeOK /\ ReaderRounds /\ PanicsOnlyWhenFull /\ [Next]_vars
        => ReaderRounds' /\ PanicsOnlyWhenFull'
  <2> SUFFICES ASSUME TypeOK, ReaderRounds, PanicsOnlyWhenFull, [Next]_vars
               PROVE  PanicsOnlyWhenFull'
    BY NextRounds
  <2>0. UNCHANGED setting
    BY DEF Next, vars
  <2>1. /\ OneReader' <=> OneReader
        /\ Silent' <=> Silent
    BY <2>0, SettingFixed DEF Silent
  <2> SUFFICES ASSUME OneReader, Silent, poisoned'
               PROVE  (Len(data_queue) > CounterMax)'
    BY <2>1 DEF PanicsOnlyWhenFull, Silent
  <2>2. Rounds
    BY DEF ReaderRounds
  <2>3. CASE poisoned
    BY <2>3, PoisonedStays DEF PanicsOnlyWhenFull, Silent
  <2>4. CASE ~poisoned /\ \E m \in setting.running : Access(m)
    BY <2>2, <2>4, PanicIsFull
  <2>5. CASE ~poisoned /\ ~\E m \in setting.running : Access(m)
    BY <2>5 DEF Next, Enqueue, EnqueueBadId, HostMay, OneReader, HostDequeue,
                HostClear, Arrive, vars
  <2> QED
    BY <2>3, <2>4, <2>5
<1> QED
  BY <1>1, <1>2, TypeCorrect, PTL DEF Spec
-----------------------------------------------------------------------------
(* In vcan mode nobody fills the queue the poll counts.                     *)
VcanQueueEmpty == select_vcan_mode => data_queue = <<>>

LEMMA QueueStaysEmpty ==
  ASSUME VcanQueueEmpty, TypeOK, [Next]_vars
  PROVE  VcanQueueEmpty'
<1> SUFFICES ASSUME select_vcan_mode, data_queue = <<>>
             PROVE  data_queue' = <<>>
  BY DEF VcanQueueEmpty, Next, vars, select_vcan_mode
<1>1. ASSUME NEW m \in Machine, Access(m) PROVE data_queue' = <<>>
  BY <1>1 DEF Access, ReadRFSTS0, Poll, ReadRFPTR0, ReadRFID0, ReadRFDF, Consume,
              WriteRFPCTR0, AccessInert, WriteTMC0, Panic, controller
<1> QED
  BY <1>1, Running DEF Next, Enqueue, EnqueueBadId, HostDequeue, HostClear, Arrive, vars

\* The poll finds nothing and starts over.
LEMMA DeafStep ==
  ASSUME VcanQueueEmpty, TypeOK, PollingIsDeaf, [Next]_vars
  PROVE  PollingIsDeaf'
<1> SUFFICES ASSUME select_vcan_mode, loop[1] = "RFSTS0"
             PROVE  UNCHANGED <<at, received>>
  BY DEF PollingIsDeaf, Next, vars, loop, select_vcan_mode
<1>1. data_queue = <<>> /\ at = [m \in Machine |-> 1]
  BY DEF VcanQueueEmpty, PollingIsDeaf
<1>2. ASSUME NEW m \in Machine, Access(m) PROVE UNCHANGED <<at, received>>
  <2>1. ReadRFSTS0(m)
    BY <1>1, <1>2 DEF Access, ReadRFPTR0, ReadRFID0, ReadRFDF, Fetch, WriteRFPCTR0,
                      AccessInert, Inert, WriteTMC0, Accesses
  <2>2. CASE Panic
    BY <2>2 DEF Panic, firmware
  <2>3. CASE Again(m)
    <3>1. at' = [at EXCEPT ![m] = 1] /\ received' = received
      BY <2>3 DEF Again
    <3> QED
      BY <1>1, <3>1
  <2> QED
    BY <1>1, <2>1, <2>2, <2>3, EmptySeq DEF ReadRFSTS0, Poll
<1> QED
  BY <1>2, Running DEF Next, Enqueue, EnqueueBadId, Panic, HostDequeue, HostClear, Arrive,
              firmware, vars

(* For any number of machines and any traffic, in vcan mode a firmware     *)
(* that polls RFSTS0 first never gets past the poll: the register counts   *)
(* the queue of the other mode.                                            *)
THEOREM VcanPollingIsDeaf == Spec => []PollingIsDeaf
<1>1. Init => VcanQueueEmpty /\ PollingIsDeaf
  BY DEF Init, VcanQueueEmpty, PollingIsDeaf
<1>2. TypeOK /\ VcanQueueEmpty /\ PollingIsDeaf /\ [Next]_vars
        => VcanQueueEmpty' /\ PollingIsDeaf'
  BY QueueStaysEmpty, DeafStep
<1> QED
  BY <1>1, <1>2, TypeCorrect, PTL DEF Spec
=============================================================================
