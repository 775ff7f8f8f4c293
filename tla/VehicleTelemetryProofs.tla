------------------------- MODULE VehicleTelemetryProofs -------------------------
(***************************************************************************)
(* Theorems about the telemetry path, for any frame and line length, any   *)
(* capacity of the queue, any width of the sequence numbers, and any       *)
(* number of frames.                                                       *)
(***************************************************************************)
EXTENDS VehicleTelemetry, TLAPS

Wires == [seq : SeqNumbers, index : Nat, at : 0..FrameBytes, restarted : BOOLEAN]

-----------------------------------------------------------------------------
\* Counting a sequence number keeps the counters natural and leaves the others alone.
LEMMA CountedType ==
    ASSUME NEW new \in SeqNumbers, NEW last \in {NoSeq} \cup SeqNumbers
    PROVE  /\ \A c \in RxStats :
                /\ Counted(c, last, new) \in RxStats
                /\ Counted(c, last, new).parsed = c.parsed
                /\ Counted(c, last, new).dropped = c.dropped
                /\ Counted(c, last, new).skipped = c.skipped
           /\ \A c \in LoopCounts :
                /\ Counted(c, last, new) \in LoopCounts
                /\ Counted(c, last, new).received = c.received
<1>1. CASE last = NoSeq
  BY <1>1 DEF Counted
<1>2. CASE last # NoSeq
  <2>1. last \in Int /\ new \in Int /\ SeqModulus \in Nat \ {0}
    BY <1>2, UartAssumption DEF SeqNumbers
  <2>2. Difference(new, last) \in 0..(SeqModulus - 1)
    BY <2>1 DEF Difference
  <2> DEFINE d == Difference(new, last)
  <2>3. d \in Nat /\ (d # 0 => d - 1 \in Nat)
    BY <2>1, <2>2
  <2> HIDE DEF d
  <2>4. \A c : Counted(c, last, new) \in
          { [c EXCEPT !.duplicates = @ + 1], [c EXCEPT !.resets = @ + 1]}
          \cup (IF d # 0 THEN {[c EXCEPT !.gaps = @ + d - 1]} ELSE {})
    BY <1>2 DEF Counted, d
  <2>5. \A c \in RxStats :
          /\ Counted(c, last, new) \in RxStats
          /\ Counted(c, last, new).parsed = c.parsed
          /\ Counted(c, last, new).dropped = c.dropped
          /\ Counted(c, last, new).skipped = c.skipped
    BY <2>3, <2>4 DEF RxStats
  <2>6. \A c \in LoopCounts :
          /\ Counted(c, last, new) \in LoopCounts
          /\ Counted(c, last, new).received = c.received
    BY <2>3, <2>4 DEF LoopCounts
  <2> QED BY <2>5, <2>6
<1> QED BY <1>1, <1>2

LEMMA SpanType ==
    ASSUME NEW span \in Spans, NEW index \in Nat
    PROVE  Span(span, index) \in Spans
BY DEF Span, Spans

\* What the line and the frame in hand may become when a byte is read.
LEMMA ByteType ==
    ASSUME TelemetryTypeOK, wire.at < FrameBytes, NEW damaged \in BOOLEAN,
           TakeByte(damaged)
    PROVE  line' \in Lines /\ discard' \in BOOLEAN
<1>1. line \in Lines /\ wire.index \in Nat /\ wire.seq \in SeqNumbers /\ 0 \in SeqNumbers
  BY UartAssumption DEF TelemetryTypeOK, Lines, SeqNumbers
<1>2. EmptyLine \in Lines
  BY <1>1, UartAssumption DEF EmptyLine, Lines
<1>3. line.size < MaxLine => Extended(line, damaged) \in Lines
  BY <1>1, UartAssumption DEF Extended, Lines
<1>4. ~(line.size >= MaxLine) => line.size < MaxLine
  BY <1>1, UartAssumption DEF Lines
<1>5. CASE discard
  BY <1>5, <1>1 DEF TakeByte, TelemetryTypeOK
<1>6. CASE ~discard /\ line.size >= MaxLine
  BY <1>6, <1>2 DEF TakeByte
<1>7. CASE ~discard /\ ~(line.size >= MaxLine)
  BY <1>7, <1>3, <1>4 DEF TakeByte, TelemetryTypeOK
<1> QED BY <1>5, <1>6, <1>7

LEMMA NewlineType ==
    ASSUME TelemetryTypeOK, TakeNewline
    PROVE  /\ line' \in Lines /\ discard' \in BOOLEAN /\ inHand' \in Frames
           /\ reader' \in {"none", "reading", "pushing", "exited"}
<1>1. line \in Lines /\ inHand \in Frames /\ 0 \in SeqNumbers /\ now \in Nat
  BY UartAssumption DEF TelemetryTypeOK, Lines, Frames, SeqNumbers
<1>2. line' \in Lines /\ discard' \in BOOLEAN
  <2>1. line' = EmptyLine /\ discard' = FALSE
    BY DEF TakeNewline
  <2>2. EmptyLine \in Lines
    BY <1>1, UartAssumption DEF EmptyLine, Lines
  <2> QED BY <2>1, <2>2
<1>3. \A usable \in BOOLEAN :
        [seq |-> line.seq, index |-> line.frame, time |-> now, usable |-> usable] \in Frames
  BY <1>1 DEF Lines, Frames
<1> QED BY <1>1, <1>2, <1>3 DEF TakeNewline, TelemetryTypeOK

LEMMA WireType ==
    ASSUME TelemetryTypeOK
    PROVE  /\ NextFrame => wire' \in Wires
           /\ NextByte /\ wire.at < FrameBytes => wire' \in Wires
<1>1. wire \in Wires
  BY DEF TelemetryTypeOK, Wires
<1>2. FrameBytes \in Nat /\ SeqModulus \in Nat /\ SeqModulus > 0
  BY UartAssumption
<1>3. (wire.seq + 1) % SeqModulus \in SeqNumbers
  BY <1>1, <1>2 DEF SeqNumbers, Wires
<1>4. NextFrame => wire' \in Wires
  <2>1. wire.index + 1 \in Nat /\ 0 \in 0..FrameBytes
    BY <1>1, <1>2 DEF Wires
  <2>2. SUFFICES ASSUME NextFrame PROVE wire' \in Wires
    OBVIOUS
  <2>3. wire' = [wire EXCEPT !.seq = (wire.seq + 1) % SeqModulus,
                             !.index = wire.index + 1, !.at = 0]
    BY <2>2 DEF NextFrame
  <2> QED BY <1>1, <1>3, <2>1, <2>3 DEF Wires
<1>5. wire.at < FrameBytes => wire.at + 1 \in 0..FrameBytes
  BY <1>1, <1>2 DEF Wires
<1>6. NextByte /\ wire.at < FrameBytes => wire' \in Wires
  BY <1>1, <1>5 DEF NextByte, Wires
<1> QED BY <1>4, <1>6

\* The queue stays within its capacity.
LEMMA QueueType ==
    ASSUME TelemetryTypeOK, NEW f \in Frames, Enqueued(f)
    PROVE  /\ queue' \in Seq(Frames) /\ Len(queue') <= Capacity
           /\ stats' \in RxStats
           /\ stats'.parsed = stats.parsed + 1
           /\ stats'.skipped = stats.skipped
           /\ stats'.dropped + Len(queue') = stats.dropped + Len(queue) + 1
<1>1. queue \in Seq(Frames) /\ Len(queue) <= Capacity /\ Capacity \in Nat \ {0}
  BY UartAssumption DEF TelemetryTypeOK
<1> DEFINE full == Len(queue) >= Capacity
           base == IF full THEN Tail(queue) ELSE queue
<1>2. /\ base \in Seq(Frames)
      /\ Len(base) = (IF full THEN Len(queue) - 1 ELSE Len(queue))
  BY <1>1
<1>3. queue' = Append(base, f)
  BY DEF Enqueued
<1>4. queue' \in Seq(Frames) /\ Len(queue') = Len(base) + 1
  BY <1>2, <1>3
<1>5. Len(queue') <= Capacity
  BY <1>1, <1>2, <1>4
<1> DEFINE c == Counted(stats, lastRx, f.seq)
<1>6. /\ c \in RxStats
      /\ c.parsed = stats.parsed /\ c.dropped = stats.dropped /\ c.skipped = stats.skipped
  <2>1. f.seq \in SeqNumbers /\ lastRx \in {NoSeq} \cup SeqNumbers
    BY DEF Frames, TelemetryTypeOK
  <2>2. stats \in RxStats
    BY DEF TelemetryTypeOK
  <2> QED BY <2>1, <2>2, CountedType
<1>7. stats' = [c EXCEPT !.parsed = @ + 1, !.dropped = IF full THEN @ + 1 ELSE @]
  BY DEF Enqueued
<1> HIDE DEF c
<1>8. /\ stats' \in RxStats
      /\ stats'.parsed = stats.parsed + 1 /\ stats'.skipped = stats.skipped
      /\ stats'.dropped = IF full THEN stats.dropped + 1 ELSE stats.dropped
  <2>1. c.parsed + 1 \in Nat /\ c.dropped + 1 \in Nat
    BY <1>6 DEF RxStats
  <2>2. CASE full
    <3>1. stats' = [c EXCEPT !.parsed = c.parsed + 1, !.dropped = c.dropped + 1]
      BY <1>7, <2>2
    <3> QED BY <1>6, <2>1, <2>2, <3>1 DEF RxStats
  <2>3. CASE ~full
    <3>1. stats' = [c EXCEPT !.parsed = c.parsed + 1, !.dropped = c.dropped]
      BY <1>7, <2>3
    <3> QED BY <1>6, <2>1, <2>3, <3>1 DEF RxStats
  <2> QED BY <2>2, <2>3
<1>9. stats.dropped \in Nat /\ Len(queue) \in Nat
  BY <1>1 DEF TelemetryTypeOK, RxStats
<1>10. stats'.dropped + Len(queue') = stats.dropped + Len(queue) + 1
  BY <1>2, <1>4, <1>8, <1>9
<1> QED BY <1>4, <1>5, <1>8, <1>10

\* What the control loop makes of the newest frame.
LEMMA TickType ==
    ASSUME TelemetryTypeOK, TelemetryTick
    PROVE  /\ stats' \in RxStats
           /\ stats'.skipped = stats.skipped + Len(queue) - 1
           /\ stats'.parsed = stats.parsed /\ stats'.dropped = stats.dropped
           /\ seen' \in LoopCounts
           /\ seen'.received = seen.received + 1
           /\ lastSeen' \in SeqNumbers
           /\ consumed' \in Spans
           /\ estimator' \in Estimators
           /\ pose' \in Poses
<1> DEFINE f == Last(queue)
<1>1. queue \in Seq(Frames) /\ Len(queue) \in Nat /\ Len(queue) >= 1
  <2>1. queue \in Seq(Frames) /\ queue # <<>>
    BY DEF TelemetryTypeOK, TelemetryTick, ReceiveLatest, EstimatePose
  <2> QED BY <2>1
<1>2. f \in Frames
  BY <1>1 DEF Last
<1>3. f.seq \in SeqNumbers /\ f.index \in Nat /\ f.time \in Nat
  BY <1>2 DEF Frames
<1> HIDE DEF f
<1>4. /\ stats' = [stats EXCEPT !.skipped = @ + Len(queue) - 1]
      /\ seen' = [Counted(seen, lastSeen, f.seq) EXCEPT !.received = @ + 1]
      /\ lastSeen' = f.seq /\ consumed' = Span(consumed, f.index)
  BY DEF TelemetryTick, ReceiveLatest, EstimatePose, f
<1>5. /\ stats' \in RxStats
      /\ stats'.skipped = stats.skipped + Len(queue) - 1
      /\ stats'.parsed = stats.parsed /\ stats'.dropped = stats.dropped
  <2>1. stats \in RxStats
    BY DEF TelemetryTypeOK
  <2>2. stats.skipped + Len(queue) - 1 \in Nat
    BY <1>1, <2>1 DEF RxStats
  <2> QED BY <1>4, <2>1, <2>2 DEF RxStats
<1> DEFINE c == Counted(seen, lastSeen, f.seq)
<1>6. /\ c \in LoopCounts
      /\ c.received = seen.received
  <2>1. seen \in LoopCounts /\ lastSeen \in {NoSeq} \cup SeqNumbers
    BY DEF TelemetryTypeOK
  <2> QED BY <1>3, <2>1, CountedType
<1> HIDE DEF c
<1>7. /\ seen' \in LoopCounts
      /\ seen'.received = seen.received + 1
  BY <1>4, <1>6 DEF c, LoopCounts
<1>8. consumed' \in Spans
  BY <1>3, <1>4, SpanType DEF TelemetryTypeOK
<1>9. /\ estimator' \in Estimators
      /\ pose' \in Poses
  <2>1. CASE Accepts(estimator, f)
    <3>1. /\ estimator' = Advanced(estimator, f.time)
          /\ pose' = [valid |-> TRUE, time |-> f.time, travelled |-> estimator'.travelled]
      BY <2>1 DEF TelemetryTick, ReceiveLatest, EstimatePose, f
    <3>2. estimator \in Estimators
      BY DEF TelemetryTypeOK
    <3>3. estimator.initialized => f.time > estimator.last
      BY <2>1 DEF Accepts
    <3>4. Advanced(estimator, f.time) \in Estimators
      BY <1>3, <3>2, <3>3 DEF Advanced, Estimators
    <3> QED BY <1>3, <3>1, <3>4 DEF Estimators, Poses
  <2>2. CASE ~Accepts(estimator, f)
    BY <2>2 DEF TelemetryTick, ReceiveLatest, EstimatePose, TelemetryTypeOK, f
  <2> QED BY <2>1, <2>2
<1> QED BY <1>3, <1>4, <1>5, <1>7, <1>8, <1>9

-----------------------------------------------------------------------------
LEMMA TypeInit == ASSUME Init PROVE TelemetryTypeOK
<1>1. /\ FrameBytes \in Nat \ {0} /\ MaxLine \in Nat \ {0} /\ Capacity \in Nat \ {0}
      /\ 0 \in SeqNumbers /\ FirstSeqs \subseteq SeqNumbers
  BY UartAssumption DEF SeqNumbers
<1>2. wire \in Wires
  <2>1. wire \in [seq : FirstSeqs, index : {1}, at : 0..FrameBytes, restarted : {FALSE}]
    BY DEF Init, UartInit
  <2>2. wire.seq \in SeqNumbers /\ wire.index \in Nat
    BY <1>1, <2>1
  <2> QED BY <2>1, <2>2 DEF Wires
<1>3. line \in Lines /\ inHand \in Frames
  BY <1>1 DEF Init, UartInit, EmptyLine, NoFrame, Lines, Frames
<1>4. stats \in RxStats /\ seen \in LoopCounts /\ estimator \in Estimators /\ pose \in Poses
  BY DEF Init, UartInit, RxStats, LoopCounts, Estimators, Poses
<1>5. queue \in Seq(Frames) /\ Len(queue) <= Capacity
  BY <1>1 DEF Init, UartInit
<1>6. {pushed, consumed} \subseteq Spans
  BY DEF Init, UartInit, Spans
<1> QED BY <1>2, <1>3, <1>4, <1>5, <1>6 DEF Init, UartInit, TelemetryTypeOK, Wires

LEMMA TypeStep == ASSUME TelemetryTypeOK, [Next]_vars PROVE TelemetryTypeOK'
<1> USE DEF port, input, shared, loopVars
<1>1. CASE TelemetryTick
  <2>1. queue' \in Seq(Frames) /\ Len(queue') <= Capacity
    BY <1>1, UartAssumption DEF TelemetryTick, ReceiveLatest, EstimatePose
  <2>2. lastSeen' \in {NoSeq} \cup SeqNumbers
    BY <1>1, TickType
  <2>3. /\ now' = now /\ wire' = wire /\ opened' = opened /\ running' = running /\ main' = main
        /\ reader' = reader /\ line' = line /\ discard' = discard /\ ignoreUntil' = ignoreUntil
        /\ inHand' = inHand /\ lastRx' = lastRx /\ pushed' = pushed /\ heard' = heard
    BY <1>1 DEF TelemetryTick, ReceiveLatest, EstimatePose
  <2> QED BY <1>1, <2>1, <2>2, <2>3, TickType DEF TelemetryTypeOK
<1>2. CASE Alone(Time)
  BY <1>2 DEF Alone, Time, TelemetryTypeOK
<1>3. CASE Alone(Lose) \/ Alone(Restart)
  <2>1. wire' \in Wires
    <3>1. CASE Alone(Lose)
      <4>1. wire.at < FrameBytes \/ NextFrame
        BY <3>1 DEF Alone, Lose
      <4>2. wire.at < FrameBytes => NextByte
        BY <3>1 DEF Alone, Lose
      <4> QED BY <4>1, <4>2, WireType
    <3>2. CASE Alone(Restart)
      <4>1. wire.index + 1 \in Nat /\ 0 \in 0..FrameBytes /\ 0 \in SeqNumbers
        BY UartAssumption DEF TelemetryTypeOK, SeqNumbers
      <4> QED BY <3>2, <4>1 DEF Alone, Restart, Wires
    <3> QED BY <1>3, <3>1, <3>2
  <2> QED BY <1>3, <2>1 DEF Alone, Lose, Restart, TelemetryTypeOK, Wires
<1>4. CASE Alone(ReadByte)
  <2>1. wire' \in Wires
    BY <1>4, WireType DEF Alone, ReadByte
  <2>2. /\ line' \in Lines /\ discard' \in BOOLEAN /\ inHand' \in Frames
        /\ reader' \in {"none", "reading", "pushing", "exited"} /\ heard' \in BOOLEAN
    <3>1. wire.at < FrameBytes
      BY <1>4 DEF Alone, ReadByte
    <3>2. CASE TakeByte(FALSE) /\ UNCHANGED <<heard, inHand, reader>>
      BY <3>1, <3>2, ByteType DEF TelemetryTypeOK
    <3>3. CASE TakeByte(TRUE) /\ heard' = FALSE /\ UNCHANGED <<inHand, reader>>
      BY <3>1, <3>3, ByteType DEF TelemetryTypeOK
    <3>4. CASE TakeNewline /\ heard' = FALSE
      BY <3>4, NewlineType
    <3> QED BY <1>4, <3>2, <3>3, <3>4 DEF Alone, ReadByte
  <2> QED BY <1>4, <2>1, <2>2 DEF Alone, ReadByte, TelemetryTypeOK, Wires
<1>5. CASE Alone(ReadNewline)
  <2>1. wire' \in Wires
    BY <1>5, WireType DEF Alone, ReadNewline
  <2>2. /\ line' \in Lines /\ discard' \in BOOLEAN /\ inHand' \in Frames
        /\ reader' \in {"none", "reading", "pushing", "exited"}
    BY <1>5, NewlineType DEF Alone, ReadNewline
  <2> QED BY <1>5, <2>1, <2>2 DEF Alone, ReadNewline, TelemetryTypeOK, Wires
<1>6. CASE Alone(Push)
  <2>1. inHand \in Frames /\ Enqueued(inHand)
    BY <1>6 DEF Alone, Push, TelemetryTypeOK
  <2>2. inHand.seq \in SeqNumbers /\ inHand.index \in Nat
    BY <2>1 DEF Frames
  <2>3. pushed' \in Spans
    BY <1>6, <2>2, SpanType DEF Alone, Push, TelemetryTypeOK
  <2>4. NoFrame \in Frames
    BY UartAssumption DEF NoFrame, Frames, SeqNumbers
  <2> QED BY <1>6, <2>1, <2>2, <2>3, <2>4, QueueType DEF Alone, Push, TelemetryTypeOK
<1>7. CASE Alone(ReadFails) \/ Alone(ReaderExits) \/ Alone(OpenFails) \/ Alone(SendFails)
             \/ Alone(StartClose)
  BY <1>7 DEF Alone, ReadFails, ReaderExits, OpenFails, SendFails, StartClose,
              TelemetryTypeOK
<1>8. CASE Alone(Open)
  <2>1. EmptyLine \in Lines /\ now + StartupTime \in Nat
    BY UartAssumption DEF TelemetryTypeOK, EmptyLine, Lines, SeqNumbers
  <2> QED BY <1>8, <2>1 DEF Alone, Open, TelemetryTypeOK
<1>9. CASE Alone(FinishClose)
  <2>1. <<>> \in Seq(Frames) /\ Len(<<>>) <= Capacity
    BY UartAssumption
  <2> QED BY <1>9, <2>1 DEF Alone, FinishClose, TelemetryTypeOK
<1>10. CASE UNCHANGED vars
  BY <1>10 DEF vars, uartVars, TelemetryTypeOK
<1> QED BY <1>1, <1>2, <1>3, <1>4, <1>5, <1>6, <1>7, <1>8, <1>9, <1>10 DEF Next

\* The telemetry path keeps its types, and its queue its bound.
THEOREM TelemetryTypes == Spec => []TelemetryTypeOK
<1>1. Init => TelemetryTypeOK
  BY TypeInit
<1>2. TelemetryTypeOK /\ [Next]_vars => TelemetryTypeOK'
  BY TypeStep
<1> QED BY <1>1, <1>2, PTL DEF Spec

-----------------------------------------------------------------------------
\* Before init and after close nothing is open or queued; the pose on the
\* blackboard is what the estimator holds.
Phases ==
    main = "start" => reader = "none" /\ ~opened /\ queue = <<>>

PoseCurrent ==
    pose.valid => /\ estimator.initialized
                  /\ pose.time = estimator.last /\ pose.travelled = estimator.travelled

\* Accounted says nothing of a closed port, and needs Phases for the step that
\* gives up opening one.
TelemetryInv == TelemetryTypeOK /\ Accounted /\ ClosedIsQuiet /\ Phases /\ PoseCurrent

LEMMA InvStep == ASSUME TelemetryInv, [Next]_vars PROVE TelemetryInv'
<1> USE DEF TelemetryInv, port, input, shared, loopVars
<1>0. TelemetryTypeOK'
  BY TypeStep
<1>1. CASE TelemetryTick
  <2>1. /\ main' = main /\ reader' = reader /\ opened' = opened
        /\ main = "running" /\ queue' = <<>>
    BY <1>1 DEF TelemetryTick, ReceiveLatest, EstimatePose
  <2>2. Accounted'
    <3>1. stats \in RxStats /\ seen \in LoopCounts /\ Len(queue) \in Nat
      BY DEF TelemetryTypeOK
    <3>2. stats.parsed = Len(queue) + seen.received + stats.dropped + stats.skipped
      BY <2>1 DEF Accounted
    <3>3. /\ stats'.parsed = stats.parsed /\ stats'.dropped = stats.dropped
          /\ stats'.skipped = stats.skipped + Len(queue) - 1
          /\ seen'.received = seen.received + 1 /\ Len(queue') = 0
      BY <1>1, <2>1, TickType
    <3> QED BY <3>1, <3>2, <3>3 DEF Accounted, RxStats, LoopCounts
  <2>3. PoseCurrent'
    BY <1>1 DEF TelemetryTick, ReceiveLatest, EstimatePose, Advanced, PoseCurrent
  <2> QED BY <1>0, <2>1, <2>2, <2>3 DEF ClosedIsQuiet, Phases
<1>2. CASE Alone(Push)
  <2>1. inHand \in Frames /\ Enqueued(inHand)
    BY <1>2 DEF Alone, Push, TelemetryTypeOK
  <2>2. /\ main' = main /\ opened' = opened /\ reader = "pushing" /\ seen' = seen
        /\ pose' = pose /\ estimator' = estimator
    BY <1>2 DEF Alone, Push
  <2>3. main # "closed" /\ main # "start"
    BY <2>2 DEF ClosedIsQuiet, Phases
  <2>4. Accounted'
    <3>1. /\ stats \in RxStats /\ seen \in LoopCounts /\ Len(queue) \in Nat
          /\ stats' \in RxStats /\ Len(queue') \in Nat
      BY <1>0 DEF TelemetryTypeOK
    <3>2. stats.parsed = Len(queue) + seen.received + stats.dropped + stats.skipped
      BY <2>3 DEF Accounted
    <3>3. /\ stats'.parsed = stats.parsed + 1 /\ stats'.skipped = stats.skipped
          /\ stats'.dropped + Len(queue') = stats.dropped + Len(queue) + 1
      BY <2>1, QueueType
    <3>4. /\ stats.parsed \in Nat /\ stats.dropped \in Nat /\ stats.skipped \in Nat
          /\ stats'.dropped \in Nat /\ seen.received \in Nat
      BY <3>1 DEF RxStats, LoopCounts
    <3>6. stats.parsed + 1 = Len(queue') + seen.received + stats'.dropped + stats.skipped
      <4> DEFINE l == Len(queue)  l2 == Len(queue')  d == stats.dropped  d2 == stats'.dropped
                 r == seen.received  k == stats.skipped  p == stats.parsed
      <4>1. /\ l \in Nat /\ l2 \in Nat /\ d \in Nat /\ d2 \in Nat
            /\ r \in Nat /\ k \in Nat /\ p \in Nat
        BY <3>1, <3>4
      <4>2. d2 + l2 = d + l + 1 /\ p = l + r + d + k
        BY <3>2, <3>3
      <4> HIDE DEF l, l2, d, d2, r, k, p
      <4>3. p + 1 = l2 + r + d2 + k
        BY <4>1, <4>2
      <4> QED BY <4>3 DEF l, l2, d, d2, r, k, p
    <3>7. stats'.parsed = Len(queue') + seen.received + stats'.dropped + stats'.skipped
      BY <3>3, <3>6
    <3> QED BY <2>2, <3>7 DEF Accounted
  <2> QED BY <1>0, <2>2, <2>3, <2>4 DEF ClosedIsQuiet, Phases, PoseCurrent
<1>3. CASE Alone(Time) \/ Alone(Lose) \/ Alone(Restart)
  BY <1>0, <1>3 DEF Alone, Time, Lose, Restart, Accounted, ClosedIsQuiet, Phases, PoseCurrent
<1>4. CASE Alone(ReadByte)
  <2>1. main # "closed" /\ main # "start"
    BY <1>4 DEF Alone, ReadByte, Reading, ClosedIsQuiet, Phases
  <2> QED BY <1>0, <1>4, <2>1 DEF Alone, ReadByte, Accounted, ClosedIsQuiet, Phases, PoseCurrent
<1>5. CASE Alone(ReadNewline)
  <2>1. main # "closed" /\ main # "start"
    BY <1>5 DEF Alone, ReadNewline, Reading, ClosedIsQuiet, Phases
  <2> QED BY <1>0, <1>5, <2>1 DEF Alone, ReadNewline, Accounted, ClosedIsQuiet, Phases, PoseCurrent
<1>6. CASE Alone(ReadFails) \/ Alone(ReaderExits)
  BY <1>0, <1>6 DEF Alone, ReadFails, ReaderExits, Reading, Accounted, ClosedIsQuiet,
                    Phases, PoseCurrent
<1>7. CASE Alone(Open)
  BY <1>0, <1>7 DEF Alone, Open, Accounted, ClosedIsQuiet, Phases, PoseCurrent
<1>8. CASE Alone(OpenFails) \/ Alone(FinishClose)
  BY <1>0, <1>8 DEF Alone, OpenFails, FinishClose, Accounted, ClosedIsQuiet, Phases, PoseCurrent
<1>9. CASE Alone(SendFails) \/ Alone(StartClose)
  BY <1>0, <1>9 DEF Alone, SendFails, StartClose, Accounted, ClosedIsQuiet, Phases, PoseCurrent
<1>10. CASE UNCHANGED vars
  BY <1>0, <1>10 DEF vars, uartVars, Accounted, ClosedIsQuiet, Phases, PoseCurrent
<1> QED BY <1>1, <1>2, <1>3, <1>4, <1>5, <1>6, <1>7, <1>8, <1>9, <1>10 DEF Next

LEMMA TelemetryInvariant == Spec => []TelemetryInv
<1>1. Init => TelemetryInv
  <2>1. SUFFICES ASSUME Init PROVE TelemetryInv
    OBVIOUS
  <2>2. /\ main = "start" /\ reader = "none" /\ ~opened /\ queue = <<>> /\ ~pose.valid
        /\ stats.parsed = 0 /\ stats.dropped = 0 /\ stats.skipped = 0 /\ seen.received = 0
    BY <2>1 DEF Init, UartInit
  <2> QED BY <2>1, <2>2, TypeInit DEF TelemetryInv, Accounted, ClosedIsQuiet, Phases, PoseCurrent
<1>2. TelemetryInv /\ [Next]_vars => TelemetryInv'
  BY InvStep
<1> QED BY <1>1, <1>2, PTL DEF Spec

\* The four counters of pushTelemetry, receiveLatest and telemetryTick add up,
\* whatever the two threads do and however full the queue is.
THEOREM FramesAccounted == Spec => []Accounted
<1>1. TelemetryInv => Accounted
  BY DEF TelemetryInv
<1> QED BY <1>1, TelemetryInvariant, PTL

\* A closed port has an empty queue and no reader.
THEOREM CloseIsFinal == Spec => []ClosedIsQuiet
<1>1. TelemetryInv => ClosedIsQuiet
  BY DEF TelemetryInv
<1> QED BY <1>1, TelemetryInvariant, PTL

\* Published poses move forward in time, and in distance by the time between
\* them or not at all.
THEOREM PosesAdvance == Spec => PoseStepsMatchTime
<1> DEFINE Step == pose.valid /\ pose' # pose =>
                     /\ pose'.time > pose.time
                     /\ pose'.travelled - pose.travelled =
                          IF pose'.time - pose.time <= MaxStep THEN pose'.time - pose.time ELSE 0
<1>1. ASSUME TelemetryInv, [Next]_vars PROVE Step
  <2>1. SUFFICES ASSUME pose.valid, pose' # pose PROVE Step
    OBVIOUS
  <2>2. TelemetryTick
    <3>1. ~(UNCHANGED vars) /\ ~(UNCHANGED loopVars)
      BY <2>1 DEF vars, loopVars
    <3> QED BY <1>1, <3>1 DEF Next, Alone
  <2> DEFINE time == Last(queue).time
  <2>3. /\ Accepts(estimator, Last(queue)) /\ estimator' = Advanced(estimator, time)
        /\ pose' = [valid |-> TRUE, time |-> time, travelled |-> estimator'.travelled]
    BY <2>1, <2>2 DEF TelemetryTick, ReceiveLatest, EstimatePose
  <2>4. /\ estimator.initialized /\ pose.time = estimator.last
        /\ pose.travelled = estimator.travelled
    BY <1>1, <2>1 DEF TelemetryInv, PoseCurrent
  <2>5. time > estimator.last
    BY <2>3, <2>4 DEF Accepts
  <2>6. estimator.last \in Nat /\ estimator.travelled \in Nat
    BY <1>1 DEF TelemetryInv, TelemetryTypeOK, Estimators
  <2>7. time \in Nat
    <3>1. pose' \in Poses
      BY <1>1, <2>2, TickType DEF TelemetryInv
    <3> QED BY <2>3, <3>1 DEF Poses
  <2> HIDE DEF time
  <2> QED BY <2>3, <2>4, <2>5, <2>6, <2>7 DEF Advanced
<1>2. TelemetryInv /\ [Next]_vars => [Step]_vars
  BY <1>1
<1> QED BY <1>2, TelemetryInvariant, PTL DEF Spec, PoseStepsMatchTime

-----------------------------------------------------------------------------
\* A frame heard so far is the whole of the line, and nothing is discarded.
HeardInv ==
    /\ wire.index # 0
    /\ heard => /\ ~discard /\ line.size = wire.at
                /\ line.frame = (IF wire.at = 0 THEN 0 ELSE wire.index)

LEMMA HeardStep ==
    ASSUME TelemetryTypeOK, FrameBytes <= MaxLine, HeardInv, [Next]_vars PROVE HeardInv'
<1> USE DEF HeardInv, port, input, shared, loopVars
<1>0. /\ wire \in Wires /\ line \in Lines /\ FrameBytes \in Nat \ {0} /\ MaxLine \in Nat
  BY UartAssumption DEF TelemetryTypeOK, Wires
<1>1. CASE TelemetryTick \/ Alone(Time) \/ Alone(Push)
  BY <1>1 DEF TelemetryTick, Alone, Time, Push
<1>2. CASE Alone(Lose) \/ Alone(Restart)
  <2>1. ~heard'
    BY <1>2 DEF Alone, Lose, Restart
  <2>2. wire'.index \in {wire.index, wire.index + 1}
    <3>1. NextByte \/ NextFrame => wire'.index \in {wire.index, wire.index + 1}
      BY <1>0 DEF NextByte, NextFrame, Wires
    <3> QED BY <1>2, <3>1 DEF Alone, Lose, Restart
  <2>3. wire.index \in Nat
    BY <1>0 DEF Wires
  <2> QED BY <2>1, <2>2, <2>3
<1>3. CASE Alone(ReadByte)
  <2>1. wire' = [wire EXCEPT !.at = @ + 1] /\ wire.at < FrameBytes
    BY <1>3 DEF Alone, ReadByte, NextByte
  <2>2. wire'.index = wire.index /\ wire'.at = wire.at + 1
    BY <1>0, <2>1 DEF Wires
  <2>3. heard' => heard /\ TakeByte(FALSE)
    BY <1>3 DEF Alone, ReadByte
  <2>4. ASSUME heard, TakeByte(FALSE)
        PROVE  ~discard' /\ line'.size = wire'.at /\ line'.frame = wire'.index
    <3>1. ~discard /\ ~(line.size >= MaxLine)
      BY <1>0, <2>1, <2>4 DEF Wires
    <3>2. line' = Extended(line, FALSE)
      BY <2>4, <3>1 DEF TakeByte
    <3>3. discard' = discard
      BY <2>4, <3>1 DEF TakeByte
    <3>4. line'.size = line.size + 1 /\ line'.frame = wire.index
      BY <2>4, <3>2 DEF Extended
    <3> QED BY <2>2, <2>4, <3>1, <3>3, <3>4
  <2>5. wire'.at # 0
    BY <1>0, <2>2 DEF Wires
  <2> QED BY <2>2, <2>3, <2>4, <2>5
<1>4. CASE Alone(ReadNewline)
  <2>1. wire'.index # 0 /\ wire'.at = 0
    BY <1>0, <1>4 DEF Alone, ReadNewline, NextFrame, Wires
  <2>2. line' = EmptyLine /\ ~discard'
    BY <1>4 DEF Alone, ReadNewline, TakeNewline
  <2> QED BY <2>1, <2>2 DEF EmptyLine
<1>5. CASE Alone(ReadFails) \/ Alone(ReaderExits)
  BY <1>5 DEF Alone, ReadFails, ReaderExits
<1>6. CASE Alone(Open) \/ Alone(OpenFails) \/ Alone(SendFails)
  BY <1>6 DEF Alone, Open, OpenFails, SendFails
<1>7. CASE Alone(StartClose) \/ Alone(FinishClose)
  BY <1>7 DEF Alone, StartClose, FinishClose
<1>8. CASE UNCHANGED vars
  BY <1>8 DEF vars, uartVars
<1> QED BY <1>1, <1>2, <1>3, <1>4, <1>5, <1>6, <1>7, <1>8 DEF Next

\* Whatever was lost, damaged or too long before it, a frame that is read from
\* newline to newline is parsed, if a line can hold a frame at all.
THEOREM WholeFrames == ASSUME FrameBytes <= MaxLine PROVE Spec => WholeFrameParsed
<1> DEFINE Step == ReadNewline /\ heard /\ now >= ignoreUntil => reader' = "pushing"
<1>1. Init => HeardInv
  BY DEF Init, UartInit, HeardInv
<1>2. TelemetryTypeOK /\ HeardInv /\ [Next]_vars => HeardInv'
  BY HeardStep
<1>3. ASSUME TelemetryTypeOK, HeardInv PROVE Step
  <2>1. SUFFICES ASSUME ReadNewline, heard, now >= ignoreUntil PROVE reader' = "pushing"
    OBVIOUS
  <2>2. FrameBytes \in Nat \ {0} /\ wire.at = FrameBytes
    BY <2>1, UartAssumption DEF ReadNewline
  <2>3. ~discard /\ line.size > 0 /\ Parses(line)
    BY <1>3, <2>1, <2>2 DEF HeardInv, Parses
  <2> QED BY <2>1, <2>3 DEF ReadNewline, TakeNewline
<1>4. TelemetryTypeOK /\ HeardInv /\ [Next]_vars => [Step]_vars
  BY <1>3
<1> QED BY <1>1, <1>2, <1>4, TelemetryTypes, PTL DEF Spec, WholeFrameParsed

-----------------------------------------------------------------------------
(***************************************************************************)
(* The two counters of sequence gaps are exact, across the wrap of the     *)
(* sequence numbers, as long as fewer frames are sent than half of them.   *)
(* The index of a frame never wraps: the proof keeps, for every sequence   *)
(* number that is remembered, how far its frame is behind the one on the   *)
(* wire.                                                                   *)
(***************************************************************************)

Short == MaxFrames < SeqModulus \div 2

-----------------------------------------------------------------------------
\* Differences of sequence numbers.

LEMMA Mod ==
    ASSUME NEW M \in Nat \ {0}, NEW x \in 0..(M - 1)
    PROVE  x % M = x /\ (x - M) % M = x
OBVIOUS

LEMMA DifferenceIs ==
    ASSUME NEW a \in SeqNumbers, NEW b \in SeqNumbers
    PROVE  Difference(a, b) = IF a >= b THEN a - b ELSE a - b + SeqModulus
<1>1. SeqModulus \in Nat \ {0}
  BY UartAssumption
<1>2. a \in 0..(SeqModulus - 1) /\ b \in 0..(SeqModulus - 1)
  BY DEF SeqNumbers
<1>3. CASE a >= b
  <2>1. a - b \in 0..(SeqModulus - 1)
    BY <1>1, <1>2, <1>3
  <2> QED BY <1>1, <1>3, <2>1, Mod DEF Difference
<1>4. CASE ~(a >= b)
  <2>1. a - b + SeqModulus \in 0..(SeqModulus - 1)
    BY <1>1, <1>2, <1>4
  <2>2. (a - b + SeqModulus) - SeqModulus = a - b
    BY <1>1, <1>2
  <2> QED BY <1>1, <1>4, <2>1, <2>2, Mod DEF Difference
<1> QED BY <1>3, <1>4

\* The next number is one further from every number that is not its neighbour
\* on the other side.
LEMMA NextDifference ==
    ASSUME NEW a \in SeqNumbers, NEW b \in SeqNumbers, Difference(a, b) + 1 < SeqModulus
    PROVE  /\ (a + 1) % SeqModulus \in SeqNumbers
           /\ Difference((a + 1) % SeqModulus, b) = Difference(a, b) + 1
<1>1. SeqModulus \in Nat \ {0, 1} /\ a \in 0..(SeqModulus - 1) /\ b \in 0..(SeqModulus - 1)
  BY UartAssumption DEF SeqNumbers
<1>2. (a + 1) % SeqModulus = IF a + 1 = SeqModulus THEN 0 ELSE a + 1
  <2>1. CASE a + 1 = SeqModulus
    <3>1. 0 \in 0..(SeqModulus - 1) /\ SeqModulus % SeqModulus = 0
      BY <1>1
    <3> QED BY <2>1, <3>1
  <2>2. CASE a + 1 # SeqModulus
    <3>1. a + 1 \in 0..(SeqModulus - 1)
      BY <1>1, <2>2
    <3> QED BY <1>1, <2>2, <3>1, Mod
  <2> QED BY <2>1, <2>2
<1>3. (a + 1) % SeqModulus \in SeqNumbers
  BY <1>1, <1>2 DEF SeqNumbers
<1> DEFINE n == (a + 1) % SeqModulus
<1>4. Difference(n, b) = IF n >= b THEN n - b ELSE n - b + SeqModulus
  BY <1>3, DifferenceIs
<1> HIDE DEF n
<1>5. n = IF a + 1 = SeqModulus THEN 0 ELSE a + 1
  BY <1>2 DEF n
<1>6. Difference(n, b) = Difference(a, b) + 1
  BY <1>1, <1>4, <1>5, DifferenceIs
<1> QED BY <1>3, <1>6 DEF n

\* Of two numbers behind a third, the nearer one is ahead of the other by the
\* difference of the distances.
LEMMA DifferenceBetween ==
    ASSUME NEW w \in SeqNumbers, NEW n \in SeqNumbers, NEW o \in SeqNumbers,
           Difference(w, n) <= Difference(w, o)
    PROVE  Difference(n, o) = Difference(w, o) - Difference(w, n)
<1>1. SeqModulus \in Nat \ {0, 1} /\ w \in 0..(SeqModulus - 1) /\ n \in 0..(SeqModulus - 1)
      /\ o \in 0..(SeqModulus - 1)
  BY UartAssumption DEF SeqNumbers
<1> QED BY <1>1, DifferenceIs

-----------------------------------------------------------------------------
\* A frame of this index and number is behind the one on the wire w, and its
\* number says how far.
Behind(w, index, seq) == index <= w.index /\ Difference(w.seq, seq) = w.index - index

LineInv ==
    line.frame # 0 =>
      /\ reader # "pushing" /\ line.frame > pushed.last
      /\ Behind(wire, line.frame, line.seq)
      /\ line.frame = wire.index => line.size <= wire.at

HandInv ==
    reader = "pushing" =>
      /\ inHand.index > pushed.last /\ inHand.index < wire.index
      /\ Behind(wire, inHand.index, inHand.seq)

\* What a counter c says of the frames of a span, n of them, the last with number seq.
Counts(c, n, span, seq) ==
    /\ seq = NoSeq => n = 0 /\ c.gaps = 0 /\ span.first = 0 /\ span.last = 0
    /\ seq # NoSeq => /\ n > 0 /\ span.first \in 1..span.last
                      /\ Behind(wire, span.last, seq)
                      /\ c.gaps = span.last - span.first + 1 - n

PushedInv ==
    /\ pushed.last < wire.index
    /\ Counts(stats, stats.parsed, pushed, lastRx)
    /\ queue # <<>> => /\ lastRx # NoSeq /\ consumed.last < pushed.last
                       /\ Last(queue).seq = lastRx /\ Last(queue).index = pushed.last

SeenInv ==
    /\ consumed.last <= pushed.last
    /\ Counts(seen, seen.received, consumed, lastSeen)

LossInv ==
    ~wire.restarted =>
      /\ wire.index \in 1..(MaxFrames + 1)
      /\ LineInv /\ HandInv /\ PushedInv /\ SeenInv

-----------------------------------------------------------------------------
\* Whoever is behind the wire stays behind it.
LEMMA BehindStays ==
    ASSUME Short, TelemetryTypeOK, Sending, wire.index \in 1..(MaxFrames + 1),
           NextByte \/ NextFrame
    PROVE  /\ wire'.index >= wire.index
           /\ wire'.index \in 1..(MaxFrames + 1) /\ wire'.restarted = wire.restarted
           /\ \A i \in Nat, s \in SeqNumbers : Behind(wire, i, s) => Behind(wire', i, s)
<1>0. /\ wire \in Wires /\ MaxFrames \in Nat /\ SeqModulus \in Nat \ {0, 1}
      /\ wire.seq \in SeqNumbers /\ wire.index \in Nat /\ wire.index <= MaxFrames
  BY UartAssumption DEF TelemetryTypeOK, Wires, Sending
<1>1. CASE NextByte
  <2>1. wire'.index = wire.index /\ wire'.seq = wire.seq /\ wire'.restarted = wire.restarted
    BY <1>0, <1>1 DEF NextByte, Wires
  <2>2. ASSUME NEW i \in Nat, NEW s \in SeqNumbers, Behind(wire, i, s)
        PROVE  Behind(wire', i, s)
    BY <2>1, <2>2 DEF Behind
  <2> QED BY <1>0, <2>1, <2>2
<1>2. CASE NextFrame
  <2>1. /\ wire'.index = wire.index + 1 /\ wire'.restarted = wire.restarted
        /\ wire'.seq = (wire.seq + 1) % SeqModulus
    BY <1>0, <1>2 DEF NextFrame, Wires
  <2>2. ASSUME NEW i \in Nat, NEW s \in SeqNumbers, Behind(wire, i, s)
        PROVE  Behind(wire', i, s)
    <3>1. Difference(wire.seq, s) = wire.index - i /\ i <= wire.index
      BY <2>2 DEF Behind
    <3>2. Difference(wire.seq, s) + 1 < SeqModulus
      BY <1>0, <3>1 DEF Short
    <3>3. Difference(wire'.seq, s) = Difference(wire.seq, s) + 1
      BY <1>0, <2>1, <3>2, NextDifference
    <3> QED BY <1>0, <2>1, <3>1, <3>3 DEF Behind
  <2> QED BY <1>0, <2>1, <2>2
<1> QED BY <1>1, <1>2

\* A counter that sees the next frame of its span.
LEMMA CountsOn ==
    ASSUME Short, TelemetryTypeOK, wire.index \in 1..(MaxFrames + 1),
           NEW c \in RxStats \cup LoopCounts, NEW n \in Nat, NEW span \in Spans,
           NEW seq \in {NoSeq} \cup SeqNumbers, Counts(c, n, span, seq),
           NEW index \in Nat, NEW new \in SeqNumbers,
           index > span.last, index < wire.index, Behind(wire, index, new)
    PROVE  /\ Counted(c, seq, new).gaps = Span(span, index).last - Span(span, index).first - n
           /\ Span(span, index).last = index
           /\ Span(span, index).first \in 1..index
<1>0. /\ wire.seq \in SeqNumbers /\ wire.index \in Nat /\ MaxFrames \in Nat
      /\ SeqModulus \in Nat \ {0, 1} /\ c.gaps \in Nat
      /\ span.first \in Nat /\ span.last \in Nat
  BY UartAssumption DEF TelemetryTypeOK, Wires, RxStats, LoopCounts, Spans
<1>1. CASE seq = NoSeq
  <2>1. Counted(c, seq, new) = c
    BY <1>1 DEF Counted
  <2>2. Span(span, index) = [first |-> index, last |-> index]
    BY <1>1 DEF Counts, Span
  <2> QED BY <1>0, <1>1, <2>1, <2>2 DEF Counts
<1>2. CASE seq # NoSeq
  <2>1. /\ Behind(wire, span.last, seq) /\ span.first \in 1..span.last
        /\ c.gaps = span.last - span.first + 1 - n /\ seq \in SeqNumbers
    BY <1>2 DEF Counts
  <2>2. Difference(new, seq) = index - span.last
    <3>1. Difference(wire.seq, new) = wire.index - index
          /\ Difference(wire.seq, seq) = wire.index - span.last
      BY <2>1 DEF Behind
    <3>2. wire.index - index <= wire.index - span.last
      BY <1>0
    <3>3. Difference(wire.seq, new) <= Difference(wire.seq, seq)
      BY <3>1, <3>2
    <3>4. Difference(new, seq) = Difference(wire.seq, seq) - Difference(wire.seq, new)
      BY <1>0, <2>1, <3>3, DifferenceBetween
    <3> QED BY <1>0, <3>1, <3>4
  <2> DEFINE k == index - span.last
  <2>3. k \in Nat \ {0} /\ k < SeqModulus \div 2
    BY <1>0, <2>1 DEF Short
  <2>4. Counted(c, seq, new).gaps = c.gaps + k - 1
    <3>1. Counted(c, seq, new) = [c EXCEPT !.gaps = c.gaps + k - 1]
      <4>1. Difference(new, seq) = k
        BY <2>2
      <4> HIDE DEF k
      <4> QED BY <1>2, <2>3, <4>1 DEF Counted
    <3> HIDE DEF k
    <3>2. c \in RxStats => Counted(c, seq, new).gaps = c.gaps + k - 1
      BY <3>1 DEF RxStats
    <3>3. c \in LoopCounts => Counted(c, seq, new).gaps = c.gaps + k - 1
      BY <3>1 DEF LoopCounts
    <3> QED BY <3>2, <3>3
  <2>5. Span(span, index).first = span.first /\ Span(span, index).last = index
    BY <1>0, <2>1 DEF Span, Spans
  <2> QED BY <1>0, <2>1, <2>4, <2>5
<1> QED BY <1>1, <1>2

\* The same, as what the counter then says.
LEMMA CountsNext ==
    ASSUME Short, TelemetryTypeOK, wire.index \in 1..(MaxFrames + 1),
           NEW c \in RxStats \cup LoopCounts, NEW n \in Nat, NEW span \in Spans,
           NEW seq \in {NoSeq} \cup SeqNumbers, Counts(c, n, span, seq),
           NEW index \in Nat, NEW new \in SeqNumbers,
           index > span.last, index < wire.index, Behind(wire, index, new),
           NEW d, d.gaps = Counted(c, seq, new).gaps
    PROVE  Counts(d, n + 1, Span(span, index), new)
<1>1. new # NoSeq /\ n + 1 > 0
  BY DEF NoSeq, SeqNumbers
<1> DEFINE s == Span(span, index)
<1>2. d.gaps = s.last - s.first - n /\ s.last = index /\ s.first \in 1..index
  BY CountsOn
<1> HIDE DEF s
<1>3. d.gaps = s.last - s.first + 1 - (n + 1)
  BY <1>2
<1>4. Counts(d, n + 1, s, new)
  BY <1>1, <1>2, <1>3 DEF Counts
<1> QED BY <1>4 DEF s

-----------------------------------------------------------------------------
LEMMA LossInit == ASSUME Init PROVE LossInv
<1>1. wire.index = 1 /\ reader = "none" /\ line.frame = 0 /\ MaxFrames \in Nat
  BY UartAssumption DEF Init, UartInit, EmptyLine
<1>2. PushedInv /\ SeenInv
  BY <1>1 DEF Init, UartInit, PushedInv, SeenInv, Counts
<1> QED BY <1>1, <1>2 DEF LossInv, LineInv, HandInv

\* A step that leaves both counters and the frames behind them alone.
LEMMA CountersStay ==
    ASSUME TelemetryTypeOK, PushedInv, SeenInv,
           wire'.index \in Nat, wire'.index >= wire.index,
           \A i \in Nat, s \in SeqNumbers : Behind(wire, i, s) => Behind(wire', i, s),
           UNCHANGED <<shared, seen, lastSeen, consumed>>
    PROVE  PushedInv' /\ SeenInv'
<1> USE DEF shared
<1>1. /\ pushed \in Spans /\ consumed \in Spans /\ lastRx \in {NoSeq} \cup SeqNumbers
      /\ lastSeen \in {NoSeq} \cup SeqNumbers /\ wire.index \in Nat
  BY DEF TelemetryTypeOK
<1>2. Counts(stats, stats.parsed, pushed, lastRx)'
  BY <1>1 DEF PushedInv, Counts, Spans
<1>3. Counts(seen, seen.received, consumed, lastSeen)'
  BY <1>1 DEF SeenInv, Counts, Spans
<1>4. pushed'.last < wire'.index
  BY <1>1 DEF PushedInv, Spans
<1> QED BY <1>2, <1>3, <1>4 DEF PushedInv, SeenInv

\* A step of the wire.
LEMMA WireStep ==
    ASSUME Short, TelemetryTypeOK, TelemetryTypeOK', LossInv, ~wire.restarted,
           Alone(Lose) \/ Alone(ReadByte) \/ Alone(ReadNewline)
    PROVE  LossInv'
<1> USE DEF port, input, shared, loopVars
<1>0. /\ wire \in Wires /\ line \in Lines /\ wire.index \in Nat /\ wire'.index \in Nat
      /\ wire.at \in 0..FrameBytes /\ FrameBytes \in Nat /\ line.size \in Nat
      /\ line.frame \in Nat /\ line.seq \in SeqNumbers /\ inHand.seq \in SeqNumbers
      /\ inHand.index \in Nat /\ pushed.last \in Nat /\ wire.seq \in SeqNumbers
  BY UartAssumption DEF TelemetryTypeOK, Wires, Lines, Frames, Spans
<1>1. /\ wire.index \in 1..(MaxFrames + 1) /\ LineInv /\ HandInv /\ PushedInv /\ SeenInv
  BY DEF LossInv
<1>2. /\ Sending
      /\ \/ NextByte /\ wire.at < FrameBytes
         \/ NextFrame
  BY DEF Alone, Lose, ReadByte, ReadNewline
<1>3. /\ wire'.index >= wire.index /\ wire'.index \in 1..(MaxFrames + 1)
      /\ \A i \in Nat, s \in SeqNumbers : Behind(wire, i, s) => Behind(wire', i, s)
  BY <1>1, <1>2, BehindStays
<1>4. UNCHANGED <<shared, seen, lastSeen, consumed>>
  BY DEF Alone, Lose, ReadByte, ReadNewline
<1>5. PushedInv' /\ SeenInv'
  BY <1>0, <1>1, <1>3, <1>4, CountersStay
<1>6. /\ NextByte => wire'.index = wire.index /\ wire'.at = wire.at + 1 /\ wire'.seq = wire.seq
      /\ NextFrame => wire'.index = wire.index + 1
  BY <1>0 DEF NextByte, NextFrame, Wires
\* What a line becomes that nobody adds to.
<1>7. ASSUME UNCHANGED <<line, reader>> PROVE LineInv'
  <2>1. line.frame # 0 => Behind(wire', line.frame, line.seq)
    BY <1>0, <1>1, <1>3 DEF LineInv
  <2>2. line.frame # 0 /\ line.frame = wire'.index => line.size <= wire'.at
    BY <1>0, <1>1, <1>2, <1>6 DEF LineInv, Behind
  <2>3. pushed' = pushed
    BY <1>4
  <2> QED BY <1>1, <1>7, <2>1, <2>2, <2>3 DEF LineInv
<1>8. ASSUME UNCHANGED <<inHand, reader>> PROVE HandInv'
  <2>1. reader = "pushing" => Behind(wire', inHand.index, inHand.seq)
    BY <1>0, <1>1, <1>3 DEF HandInv
  <2>2. pushed' = pushed
    BY <1>4
  <2> QED BY <1>0, <1>1, <1>3, <1>8, <2>1, <2>2 DEF HandInv
<1>9. CASE Alone(Lose)
  BY <1>3, <1>5, <1>7, <1>8, <1>9 DEF Alone, Lose, LossInv
\* A line that parses has all of its frame, which is not the one on the wire
\* any more.
<1>10. ASSUME TakeNewline, Reading, wire.at < FrameBytes \/ NextFrame
       PROVE  LineInv' /\ HandInv'
  <2>1. line'.frame = 0
    BY <1>10 DEF TakeNewline, EmptyLine
  <2>2. CASE UNCHANGED <<inHand, reader>>
    BY <1>8, <2>1, <2>2 DEF LineInv
  <2>3. CASE Parses(line) /\ inHand'.seq = line.seq /\ inHand'.index = line.frame
    <3>1. /\ line.frame # 0 /\ line.size = FrameBytes /\ line.frame > pushed.last
          /\ Behind(wire, line.frame, line.seq)
      BY <1>1, <2>3 DEF LineInv, Parses
    <3>2. Behind(wire', line.frame, line.seq)
      BY <1>0, <1>3, <3>1
    <3>3. line.frame < wire'.index
      BY <1>0, <1>1, <1>3, <1>6, <1>10, <3>1 DEF LineInv, Behind
    <3>4. pushed' = pushed
      BY <1>4
    <3> QED BY <2>1, <2>3, <3>1, <3>2, <3>3, <3>4 DEF LineInv, HandInv
  <2> QED BY <1>10, <2>2, <2>3 DEF TakeNewline
<1>11. CASE Alone(ReadNewline)
  <2>1. TakeNewline /\ Reading /\ NextFrame
    BY <1>11 DEF Alone, ReadNewline
  <2> QED BY <1>3, <1>5, <1>10, <2>1 DEF LossInv
<1>12. CASE Alone(ReadByte)
  <2>1. NextByte /\ Reading /\ wire.at < FrameBytes
    BY <1>12 DEF Alone, ReadByte
  <2>2. CASE TakeNewline
    BY <1>3, <1>5, <1>10, <2>1, <2>2 DEF LossInv
  <2>3. ASSUME NEW damaged \in BOOLEAN, TakeByte(damaged), UNCHANGED <<inHand, reader>>
        PROVE  LineInv'
    <3>1. CASE line' = line
      BY <1>7, <2>3, <3>1
    <3>2. CASE line' = EmptyLine
      BY <3>2 DEF LineInv, EmptyLine
    <3>3. CASE line' = Extended(line, damaged)
      <4>1. CASE line'.frame = 0
        BY <4>1 DEF LineInv
      <4>2. CASE line'.frame # 0
        <5>1. /\ line'.frame = wire.index /\ line'.seq = wire.seq
              /\ line'.size = line.size + 1 /\ line.size = wire.at
          BY <3>3, <4>2 DEF Extended
        <5>2. reader' # "pushing" /\ wire.index > pushed.last /\ pushed' = pushed
          BY <1>0, <1>1, <1>4, <2>1, <2>3 DEF Reading, PushedInv
        <5>3. Behind(wire', line'.frame, line'.seq)
          <6>1. Difference(wire.seq, wire.seq) = 0
            BY <1>0, DifferenceIs, UartAssumption DEF SeqNumbers
          <6> QED BY <1>0, <1>6, <2>1, <5>1, <6>1 DEF Behind
        <5>4. line'.size <= wire'.at
          BY <1>0, <1>6, <2>1, <5>1
        <5> QED BY <5>1, <5>2, <5>3, <5>4 DEF LineInv
      <4> QED BY <4>1, <4>2
    <3> QED BY <2>3, <3>1, <3>2, <3>3 DEF TakeByte
  <2>4. CASE \E damaged \in BOOLEAN : TakeByte(damaged) /\ UNCHANGED <<inHand, reader>>
    BY <1>3, <1>5, <1>8, <2>3, <2>4 DEF LossInv
  <2>5. \/ TakeNewline
        \/ TakeByte(FALSE) /\ UNCHANGED <<inHand, reader>>
        \/ TakeByte(TRUE) /\ UNCHANGED <<inHand, reader>>
    BY <1>12 DEF Alone, ReadByte
  <2> QED BY <2>2, <2>4, <2>5
<1> QED BY <1>9, <1>11, <1>12

LEMMA PushStep ==
    ASSUME Short, TelemetryTypeOK, LossInv, ~wire.restarted, Alone(Push)
    PROVE  LossInv'
<1> USE DEF port, input, shared, loopVars
<1>0. /\ wire.index \in 1..(MaxFrames + 1) /\ LineInv /\ HandInv /\ PushedInv /\ SeenInv
      /\ stats \in RxStats /\ stats.parsed \in Nat /\ pushed \in Spans
      /\ lastRx \in {NoSeq} \cup SeqNumbers /\ consumed.last \in Nat /\ pushed.last \in Nat
      /\ inHand \in Frames /\ inHand.index \in Nat /\ inHand.seq \in SeqNumbers
      /\ wire.index \in Nat /\ line.frame \in Nat
  BY UartAssumption DEF LossInv, TelemetryTypeOK, RxStats, Spans, Frames, Lines
<1>1. /\ reader = "pushing" /\ reader' = "reading" /\ lastRx' = inHand.seq
      /\ pushed' = Span(pushed, inHand.index) /\ Enqueued(inHand)
      /\ UNCHANGED <<wire, line, seen, lastSeen, consumed>>
  BY DEF Alone, Push
<1>2. /\ inHand.index > pushed.last /\ inHand.index < wire.index
      /\ Behind(wire, inHand.index, inHand.seq)
  BY <1>0, <1>1 DEF HandInv
<1>3. stats'.gaps = Counted(stats, lastRx, inHand.seq).gaps /\ stats'.parsed = stats.parsed + 1
  <2>1. Counted(stats, lastRx, inHand.seq) \in RxStats
    BY <1>0, CountedType
  <2>2. Counted(stats, lastRx, inHand.seq).parsed = stats.parsed
    BY <1>0, CountedType
  <2> DEFINE c == Counted(stats, lastRx, inHand.seq)
             full == Len(queue) >= Capacity
  <2>3. stats' = [c EXCEPT !.parsed = c.parsed + 1,
                           !.dropped = IF full THEN c.dropped + 1 ELSE c.dropped]
    BY <1>1 DEF Enqueued
  <2> HIDE DEF c, full
  <2>4. c \in RxStats => stats'.gaps = c.gaps /\ stats'.parsed = c.parsed + 1
    BY <2>3 DEF RxStats
  <2> QED BY <2>1, <2>2, <2>4 DEF c
<1>4. Counts(stats', stats.parsed + 1, pushed', lastRx')
  <2>1. Counts(stats, stats.parsed, pushed, lastRx)
    BY <1>0 DEF PushedInv
  <2> QED BY <1>0, <1>1, <1>2, <1>3, <2>1, CountsNext
<1>5. pushed'.last = inHand.index
  BY <1>0, <1>1 DEF Span, Spans
<1>6. Last(queue') = inHand
  <2> DEFINE q == IF Len(queue) >= Capacity THEN Tail(queue) ELSE queue
  <2>1. queue \in Seq(Frames) /\ Capacity \in Nat \ {0}
    BY UartAssumption DEF TelemetryTypeOK
  <2>2. queue' = Append(q, inHand)
    BY <1>1 DEF Enqueued
  <2>3. q \in Seq(Frames)
    BY <2>1
  <2> HIDE DEF q
  <2> QED BY <1>0, <2>2, <2>3 DEF Last
<1>7. PushedInv'
  <2>1. lastRx' # NoSeq
    BY <1>0, <1>1 DEF NoSeq, SeqNumbers
  <2>2. consumed.last < inHand.index
    BY <1>0, <1>2 DEF SeenInv
  <2>3. Counts(stats, stats.parsed, pushed, lastRx)'
    BY <1>1, <1>3, <1>4 DEF Counts
  <2> QED BY <1>1, <1>2, <1>5, <1>6, <2>1, <2>2, <2>3 DEF PushedInv
<1>8. SeenInv'
  <2>1. consumed'.last <= pushed'.last
    BY <1>0, <1>1, <1>2, <1>5 DEF SeenInv
  <2>2. Counts(seen, seen.received, consumed, lastSeen)'
    BY <1>0, <1>1 DEF SeenInv, Counts
  <2> QED BY <2>1, <2>2 DEF SeenInv
<1>9. LineInv' /\ HandInv'
  BY <1>0, <1>1 DEF LineInv, HandInv
<1> QED BY <1>0, <1>1, <1>7, <1>8, <1>9 DEF LossInv

LEMMA TickStep ==
    ASSUME Short, TelemetryTypeOK, LossInv, ~wire.restarted, TelemetryTick
    PROVE  LossInv'
<1> USE DEF port, input, shared, loopVars
<1> DEFINE f == Last(queue)
<1>0. /\ wire.index \in 1..(MaxFrames + 1) /\ LineInv /\ HandInv /\ PushedInv /\ SeenInv
      /\ seen \in LoopCounts /\ seen.received \in Nat /\ consumed \in Spans
      /\ lastSeen \in {NoSeq} \cup SeqNumbers /\ consumed.last \in Nat
      /\ lastRx \in {NoSeq} \cup SeqNumbers /\ stats \in RxStats
      /\ pushed.last \in Nat /\ wire.index \in Nat
  BY UartAssumption DEF LossInv, TelemetryTypeOK, LoopCounts, Spans
<1>1. /\ queue # <<>> /\ queue' = <<>> /\ lastSeen' = f.seq
      /\ consumed' = Span(consumed, f.index)
      /\ seen' = [Counted(seen, lastSeen, f.seq) EXCEPT !.received = @ + 1]
      /\ stats' = [stats EXCEPT !.skipped = stats.skipped + Len(queue) - 1]
      /\ UNCHANGED <<wire, line, reader, inHand, lastRx, pushed>>
  BY DEF TelemetryTick, ReceiveLatest, EstimatePose
<1> HIDE DEF f
<1>2. /\ f.seq \in SeqNumbers /\ f.index = pushed.last /\ f.index \in Nat
      /\ consumed.last < f.index /\ f.index < wire.index /\ Behind(wire, f.index, f.seq)
  <2>1. lastRx # NoSeq /\ consumed.last < pushed.last /\ f.seq = lastRx /\ f.index = pushed.last
    BY <1>0, <1>1 DEF PushedInv, f
  <2>2. pushed.last < wire.index /\ Behind(wire, pushed.last, lastRx)
    BY <1>0, <2>1 DEF PushedInv, Counts
  <2> QED BY <1>0, <2>1, <2>2
<1>3. /\ seen'.gaps = Counted(seen, lastSeen, f.seq).gaps
      /\ seen'.received = seen.received + 1
  <2> DEFINE c == Counted(seen, lastSeen, f.seq)
  <2>1. c \in LoopCounts /\ c.received = seen.received
    BY <1>0, <1>2, CountedType
  <2>2. seen' = [c EXCEPT !.received = c.received + 1]
    BY <1>1
  <2> HIDE DEF c
  <2>3. seen'.gaps = c.gaps /\ seen'.received = c.received + 1
    BY <2>1, <2>2 DEF LoopCounts
  <2> QED BY <2>1, <2>3 DEF c
<1>4. Counts(seen', seen.received + 1, consumed', lastSeen')
  <2>1. Counts(seen, seen.received, consumed, lastSeen)
    BY <1>0 DEF SeenInv
  <2> QED BY <1>0, <1>1, <1>2, <1>3, <2>1, CountsNext
<1>5. SeenInv'
  <2>1. consumed'.last = f.index
    BY <1>0, <1>1, <1>2 DEF Span, Spans
  <2>2. Counts(seen, seen.received, consumed, lastSeen)'
    BY <1>1, <1>3, <1>4 DEF Counts
  <2> QED BY <1>0, <1>1, <1>2, <2>1, <2>2 DEF SeenInv
<1>6. PushedInv'
  <2>1. stats'.gaps = stats.gaps /\ stats'.parsed = stats.parsed
    BY <1>0, <1>1 DEF RxStats
  <2> QED BY <1>0, <1>1, <2>1 DEF PushedInv, Counts
<1>7. LineInv' /\ HandInv'
  BY <1>0, <1>1 DEF LineInv, HandInv
<1> QED BY <1>0, <1>1, <1>5, <1>6, <1>7 DEF LossInv

LEMMA LossStep ==
    ASSUME Short, TelemetryTypeOK, LossInv, [Next]_vars
    PROVE  LossInv'
<1> USE DEF port, input, shared, loopVars
<1>0. SUFFICES ASSUME ~wire'.restarted PROVE LossInv'
  BY DEF LossInv
<1>1. TelemetryTypeOK'
  BY TypeStep
<1>2. wire \in Wires
  BY DEF TelemetryTypeOK, Wires
<1>3. CASE Alone(Restart)
  BY <1>0, <1>3 DEF Alone, Restart
<1>4. CASE Alone(Lose) \/ Alone(ReadByte) \/ Alone(ReadNewline)
  <2>1. NextByte \/ NextFrame
    BY <1>4 DEF Alone, Lose, ReadByte, ReadNewline
  <2>2. wire'.restarted = wire.restarted
    BY <1>2, <2>1 DEF NextByte, NextFrame, Wires
  <2> QED BY <1>0, <1>1, <1>4, <2>2, WireStep
<1>5. CASE TelemetryTick
  <2>1. wire' = wire
    BY <1>5 DEF TelemetryTick
  <2> QED BY <1>0, <1>5, <2>1, TickStep
<1>6. CASE Alone(Push)
  <2>1. wire' = wire
    BY <1>6 DEF Alone, Push
  <2> QED BY <1>0, <1>6, <2>1, PushStep
\* Neither the line nor a counter moves.
<1>7. ASSUME UNCHANGED <<wire, inHand, stats, lastRx, pushed, seen, lastSeen, consumed>>,
             UNCHANGED line \/ line' = EmptyLine,
             reader' = "pushing" => reader = "pushing",
             queue' = queue \/ queue' = <<>>
      PROVE  LossInv'
  <2>1. LineInv /\ HandInv /\ PushedInv /\ SeenInv /\ wire.index \in 1..(MaxFrames + 1)
    BY <1>0, <1>7 DEF LossInv
  <2>2. LineInv' /\ HandInv'
    BY <1>7, <2>1 DEF LineInv, HandInv, EmptyLine
  <2>3. PushedInv' /\ SeenInv'
    BY <1>7, <2>1 DEF PushedInv, SeenInv, Counts
  <2> QED BY <1>7, <2>1, <2>2, <2>3 DEF LossInv
<1>8. CASE Alone(Time) \/ Alone(ReadFails) \/ Alone(ReaderExits) \/ Alone(SendFails)
  BY <1>7, <1>8 DEF Alone, Time, ReadFails, ReaderExits, SendFails
<1>9. CASE Alone(Open) \/ Alone(OpenFails)
  BY <1>7, <1>9 DEF Alone, Open, OpenFails
<1>10. CASE Alone(StartClose) \/ Alone(FinishClose)
  BY <1>7, <1>10 DEF Alone, StartClose, FinishClose
<1>11. CASE UNCHANGED vars
  BY <1>7, <1>11 DEF vars, uartVars
<1> QED BY <1>3, <1>4, <1>5, <1>6, <1>8, <1>9, <1>10, <1>11 DEF Next

\* What pushTelemetry and Executive::telemetryTick count as missing is what is
\* missing, wherever the sequence numbers start and wherever they wrap.
THEOREM LossesExact == ASSUME MaxFrames < SeqModulus \div 2 PROVE Spec => []LossesCounted
<1> USE DEF Short
<1>1. Init => LossInv
  BY LossInit
<1>2. TelemetryTypeOK /\ LossInv /\ [Next]_vars => LossInv'
  BY LossStep
<1>3. TelemetryTypeOK /\ LossInv => LossesCounted
  <2> SUFFICES ASSUME TelemetryTypeOK, LossInv, ~wire.restarted PROVE
         /\ stats.parsed > 0 => stats.gaps = pushed.last - pushed.first + 1 - stats.parsed
         /\ seen.received > 0 => seen.gaps = consumed.last - consumed.first + 1 - seen.received
    BY DEF LossesCounted
  <2>1. /\ Counts(stats, stats.parsed, pushed, lastRx)
        /\ Counts(seen, seen.received, consumed, lastSeen)
    BY DEF LossInv, PushedInv, SeenInv
  <2> QED BY <2>1 DEF Counts
<1> QED BY <1>1, <1>2, <1>3, TelemetryTypes, PTL DEF Spec
=============================================================================
