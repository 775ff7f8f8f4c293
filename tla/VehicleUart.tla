------------------------------ MODULE VehicleUart ------------------------------
(***************************************************************************)
(* UartVehicleInterface: a reader thread cuts the bytes of the serial port *)
(* into lines and puts the telemetry it can parse into a bounded queue,    *)
(* which the control loop empties.  The microcontroller (STM32) sends      *)
(* numbered frames without end; the line may lose or damage any byte.      *)
(***************************************************************************)
EXTENDS Integers, Sequences, SequencesExt

CONSTANTS FrameBytes,   \* bytes of a frame before its newline
          MaxLine,      \* kMaxRxLineLength - 1
          Capacity,     \* kMaxTelemetryQueueSize
          SeqModulus,   \* packet sequence numbers wrap here, 2^32
          StartupTime,  \* how long after init lines are read and ignored
          FirstSeqs,    \* numbers the frame on the wire may have at the start
          MaxFrames,    \* bound on the frames sent
          MaxTime       \* bound on the clock

ASSUME UartAssumption ==
  /\ {FrameBytes, MaxLine, Capacity} \subseteq Nat \ {0}
  /\ SeqModulus \in Nat \ {0, 1}
  /\ {StartupTime, MaxFrames, MaxTime} \subseteq Nat
  /\ FirstSeqs \subseteq 0..(SeqModulus - 1)

VARIABLES
  now,
  wire,     \* the frame being sent: its number, its index, the bytes that have gone
  opened, running,    \* the two atomics
  main,     \* the control loop: "start", "running", "joining", "closed"
  reader,   \* the reader thread: "none", "reading", "pushing", "exited"
  line,     \* rx_line: its size, and the frame it is the beginning of, if any
  discard,  \* discard_until_newline
  ignoreUntil,        \* startup_ignore_until_ms
  inHand,   \* what the reader is about to push
  queue, stats,       \* under telemetry_mutex
  lastRx,   \* last_rx_sequence, -1 for none
  heard,    \* all of the frame on the wire was read, undamaged (history)
  pushed    \* indices of the first and the last frame pushed (history)

port == <<opened, running, main>>
input == <<line, discard, ignoreUntil>>
shared == <<queue, stats, lastRx, pushed>>
uartVars == <<now, wire, port, reader, input, inHand, shared, heard>>

SeqNumbers == 0..(SeqModulus - 1)
Frames == [seq : SeqNumbers, index : Nat, time : Nat, usable : BOOLEAN]
Lines == [size : 0..MaxLine, frame : Nat, seq : SeqNumbers]
RxStats == [gaps : Nat, duplicates : Nat, resets : Nat,
            parsed : Nat, dropped : Nat, skipped : Nat]
Spans == [first : Nat, last : Nat]

NoSeq == -1
NoFrame == [seq |-> 0, index |-> 0, time |-> 0, usable |-> FALSE]
EmptyLine == [size |-> 0, frame |-> 0, seq |-> 0]

-----------------------------------------------------------------------------
(* Sequence numbers: pushTelemetry and Executive::telemetryTick count alike *)

\* A mutation of Difference: not modulo the width.
DifferenceUnwrapped(new, old) == new - old
Difference(new, old) == (new - old) % SeqModulus

Counted(c, last, new) ==
  LET d == Difference(new, last)
  IN  CASE last = NoSeq -> c
        [] last # NoSeq /\ d = 0 -> [c EXCEPT !.duplicates = @ + 1]
        [] last # NoSeq /\ d # 0 /\ d < SeqModulus \div 2 -> [c EXCEPT !.gaps = @ + d - 1]
        [] OTHER -> [c EXCEPT !.resets = @ + 1]

Span(span, index) == IF span.first = 0 THEN [first |-> index, last |-> index]
                                       ELSE [span EXCEPT !.last = index]

-----------------------------------------------------------------------------
(* The microcontroller and the wire *)

Sending == wire.index <= MaxFrames

NextByte == wire' = [wire EXCEPT !.at = @ + 1]
NextFrame == wire' = [wire EXCEPT !.seq = (@ + 1) % SeqModulus, !.index = @ + 1, !.at = 0]

(* A byte, or a newline, that no one reads *)
Lose ==
  /\ Sending
  /\ IF wire.at < FrameBytes THEN NextByte ELSE NextFrame
  /\ heard' = FALSE
  /\ UNCHANGED <<now, port, reader, input, inHand, shared>>

(* The microcontroller restarts and numbers its frames from 0. *)
Restart ==
  /\ Sending /\ ~wire.restarted
  /\ wire' = [seq |-> 0, index |-> wire.index + 1, at |-> 0, restarted |-> TRUE]
  /\ heard' = FALSE
  /\ UNCHANGED <<now, port, reader, input, inHand, shared>>

Time ==
  /\ now < MaxTime
  /\ now' = now + 1
  /\ UNCHANGED <<wire, port, reader, input, inHand, shared, heard>>

-----------------------------------------------------------------------------
(* The reader thread *)

(* parseTelemetryLine: twenty fields, prefix, checksum, version, numbers.  *)
(* Only a frame as it was sent passes.                                     *)
Parses(l) == l.size = FrameBytes /\ l.frame # 0

(* A byte goes on with the line; damage, or a byte that belongs elsewhere, *)
(* spoils it.                                                              *)
Extended(l, damaged) ==
  IF /\ ~damaged /\ l.size = wire.at
     /\ l.frame = (IF l.size = 0 THEN 0 ELSE wire.index)
  THEN [size |-> l.size + 1, frame |-> wire.index, seq |-> wire.seq]
  ELSE [size |-> l.size + 1, frame |-> 0, seq |-> 0]

(* processRxByte, any byte but a newline *)
TakeByte(damaged) ==
  CASE discard -> UNCHANGED <<line, discard>>
    [] ~discard /\ line.size >= MaxLine -> line' = EmptyLine /\ discard' = TRUE
    [] OTHER -> line' = Extended(line, damaged) /\ UNCHANGED discard

\* A mutation of TakeNewline: a line that does not parse is kept.
TakeNewlineKeeping ==
  IF ~discard /\ line.size > 0 /\ Parses(line) /\ now >= ignoreUntil
  THEN /\ \E usable \in BOOLEAN :
            inHand' = [seq |-> line.seq, index |-> line.frame, time |-> now,
                       usable |-> usable]
       /\ reader' = "pushing" /\ line' = EmptyLine /\ discard' = FALSE
  ELSE /\ discard' = FALSE
       /\ line' = IF discard THEN EmptyLine ELSE line
       /\ UNCHANGED <<inHand, reader>>

(* processRxByte, a newline: the line is parsed, and ignored in the time   *)
(* after init.                                                             *)
TakeNewline ==
  /\ line' = EmptyLine /\ discard' = FALSE
  /\ IF ~discard /\ line.size > 0 /\ Parses(line) /\ now >= ignoreUntil
     THEN /\ \E usable \in BOOLEAN :
               inHand' = [seq |-> line.seq, index |-> line.frame, time |-> now,
                          usable |-> usable]
          /\ reader' = "pushing"
     ELSE UNCHANGED <<inHand, reader>>

Reading == reader = "reading" /\ running /\ opened

ReadByte ==
  /\ Reading /\ Sending /\ wire.at < FrameBytes
  /\ NextByte
  /\ \/ TakeByte(FALSE) /\ UNCHANGED <<heard, inHand, reader>>
     \/ TakeByte(TRUE) /\ heard' = FALSE /\ UNCHANGED <<inHand, reader>>
     \/ TakeNewline /\ heard' = FALSE    \* damaged into a newline
  /\ UNCHANGED <<now, port, ignoreUntil, shared>>

ReadNewline ==
  /\ Reading /\ Sending /\ wire.at = FrameBytes
  /\ NextFrame
  /\ TakeNewline
  /\ heard' = TRUE
  /\ UNCHANGED <<now, port, ignoreUntil, shared>>

\* A mutation of Enqueued: the queue refuses what does not fit.
EnqueuedOldest(f) ==
  /\ queue' = IF Len(queue) >= Capacity THEN queue ELSE Append(queue, f)
  /\ stats' = [Counted(stats, lastRx, f.seq) EXCEPT !.parsed = @ + 1]

(* The oldest makes room for the newest. *)
Enqueued(f) ==
  LET full == Len(queue) >= Capacity
  IN  /\ queue' = Append(IF full THEN Tail(queue) ELSE queue, f)
      /\ stats' = [Counted(stats, lastRx, f.seq) EXCEPT
                     !.parsed = @ + 1, !.dropped = IF full THEN @ + 1 ELSE @]

(* pushTelemetry, one critical section *)
Push ==
  /\ reader = "pushing"
  /\ Enqueued(inHand)
  /\ lastRx' = inHand.seq
  /\ pushed' = Span(pushed, inHand.index)
  /\ reader' = "reading" /\ inHand' = NoFrame
  /\ UNCHANGED <<now, wire, port, input, heard>>

(* An exception of the port: the thread gives up, and nobody opens it again. *)
ReadFails ==
  /\ Reading
  /\ opened' = FALSE /\ running' = FALSE /\ reader' = "exited"
  /\ UNCHANGED <<now, wire, main, input, inHand, shared, heard>>

ReaderExits ==
  /\ reader = "reading" /\ ~(running /\ opened)
  /\ reader' = "exited"
  /\ UNCHANGED <<now, wire, port, input, inHand, shared, heard>>

-----------------------------------------------------------------------------
(* The control loop's side *)

(* init: until the first newline everything is discarded. *)
Open ==
  /\ main = "start"
  /\ main' = "running" /\ opened' = TRUE /\ running' = TRUE /\ reader' = "reading"
  /\ line' = EmptyLine /\ discard' = TRUE /\ ignoreUntil' = now + StartupTime
  /\ heard' = FALSE
  /\ UNCHANGED <<now, wire, inHand, shared>>

OpenFails ==
  /\ main = "start"
  /\ main' = "closed"
  /\ UNCHANGED <<now, wire, opened, running, reader, input, inHand, shared, heard>>

(* receiveLatest: the newest frame is taken, the others are skipped. *)
ReceiveLatest ==
  /\ queue # <<>>
  /\ stats' = [stats EXCEPT !.skipped = @ + Len(queue) - 1]
  /\ queue' = <<>>

(* send, when the port throws; otherwise it leaves nothing behind *)
SendFails ==
  /\ main = "running" /\ opened
  /\ opened' = FALSE /\ running' = FALSE
  /\ UNCHANGED <<now, wire, main, reader, input, inHand, shared, heard>>

\* A mutation of StartClose: the reader is not told.
StartCloseUntold ==
  /\ main = "running"
  /\ main' = "joining"
  /\ UNCHANGED <<now, wire, opened, running, reader, input, inHand, shared, heard>>

StartClose ==
  /\ main = "running"
  /\ main' = "joining" /\ running' = FALSE
  /\ UNCHANGED <<now, wire, opened, reader, input, inHand, shared, heard>>

\* A mutation of FinishClose: the reader is not waited for.
FinishCloseUnjoined ==
  /\ main = "joining"
  /\ main' = "closed" /\ opened' = FALSE /\ queue' = <<>>
  /\ UNCHANGED <<now, wire, running, reader, input, inHand, stats, lastRx, pushed, heard>>

(* After the reader has been joined *)
FinishClose ==
  /\ main = "joining" /\ reader = "exited"
  /\ main' = "closed" /\ opened' = FALSE /\ queue' = <<>>
  /\ UNCHANGED <<now, wire, running, reader, input, inHand, stats, lastRx, pushed, heard>>

-----------------------------------------------------------------------------
UartInit ==
  /\ now = 0
  /\ wire \in [seq : FirstSeqs, index : {1}, at : 0..FrameBytes, restarted : {FALSE}]
  /\ opened = FALSE /\ running = FALSE /\ main = "start" /\ reader = "none"
  /\ line = EmptyLine /\ discard = FALSE /\ ignoreUntil = 0
  /\ inHand = NoFrame /\ queue = <<>>
  /\ stats = [gaps |-> 0, duplicates |-> 0, resets |-> 0,
              parsed |-> 0, dropped |-> 0, skipped |-> 0]
  /\ lastRx = NoSeq
  /\ heard = FALSE /\ pushed = [first |-> 0, last |-> 0]

Reader == ReadByte \/ ReadNewline \/ Push \/ ReaderExits
=============================================================================
