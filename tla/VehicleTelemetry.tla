---------------------------- MODULE VehicleTelemetry ----------------------------
(***************************************************************************)
(* Executive::telemetryTick and VehiclePoseEstimator on top of VehicleUart. *)
(* The estimator's position is reduced to the time over which it has       *)
(* integrated the speed; parking, the estimator and the initial pose are   *)
(* enabled, as they must be for a pose to be published at all.             *)
(***************************************************************************)
EXTENDS VehicleUart

CONSTANT MaxStep    \* pose_max_integration_dt_ms

ASSUME TelemetryAssumption == MaxStep \in Nat

VARIABLES
  seen,       \* the executive's counters
  lastSeen,   \* last_telemetry_sequence_, -1 for none
  estimator,  \* initialized, last receive time, integrated time
  pose,       \* on the blackboard
  consumed    \* indices of the first and the last frame consumed (history)

loopVars == <<seen, lastSeen, estimator, pose, consumed>>
vars == <<uartVars, loopVars>>

(* VehiclePoseEstimator::process, an accepted sample: over a long gap no   *)
(* distance is integrated.                                                 *)
\* A mutation of Advanced: a long gap is not taken note of.
AdvancedShort(e, time) ==
  IF e.initialized /\ time - e.last > MaxStep THEN e
  ELSE [initialized |-> TRUE, last |-> time,
        travelled |-> e.travelled + (IF e.initialized THEN time - e.last ELSE 0)]

Advanced(e, time) ==
  [initialized |-> TRUE, last |-> time,
   travelled |-> e.travelled + (IF e.initialized /\ time - e.last <= MaxStep
                                THEN time - e.last ELSE 0)]

(* encoder and IMU valid, and later than the sample before *)
Accepts(e, f) == f.usable /\ (e.initialized => f.time > e.last)

(* VehiclePoseEstimator::process; what it accepts becomes the pose. *)
EstimatePose(f) ==
  IF Accepts(estimator, f)
  THEN /\ estimator' = Advanced(estimator, f.time)
       /\ pose' = [valid |-> TRUE, time |-> f.time, travelled |-> estimator'.travelled]
  ELSE UNCHANGED <<estimator, pose>>

TelemetryTick ==
  LET f == Last(queue)
  IN  /\ main = "running"
      /\ ReceiveLatest
      /\ seen' = [Counted(seen, lastSeen, f.seq) EXCEPT !.received = @ + 1]
      /\ lastSeen' = f.seq
      /\ consumed' = Span(consumed, f.index)
      /\ EstimatePose(f)
      /\ UNCHANGED <<now, wire, port, reader, input, inHand, lastRx, pushed, heard>>

Init ==
  /\ UartInit
  /\ seen = [gaps |-> 0, duplicates |-> 0, resets |-> 0, received |-> 0]
  /\ lastSeen = NoSeq
  /\ estimator = [initialized |-> FALSE, last |-> 0, travelled |-> 0]
  /\ pose = [valid |-> FALSE, time |-> 0, travelled |-> 0]
  /\ consumed = [first |-> 0, last |-> 0]

(* A step of VehicleUart on its own *)
Alone(A) == A /\ UNCHANGED loopVars

Next ==
  \/ TelemetryTick
  \/ Alone(Time) \/ Alone(Lose) \/ Alone(Restart)
  \/ Alone(ReadByte) \/ Alone(ReadNewline) \/ Alone(Push)
  \/ Alone(ReadFails) \/ Alone(ReaderExits)
  \/ Alone(Open) \/ Alone(OpenFails) \/ Alone(SendFails)
  \/ Alone(StartClose) \/ Alone(FinishClose)

Spec == Init /\ [][Next]_vars

(* Both threads run; the reader's calls on the port return after 2 ms, and *)
(* are not assumed ever to fail.                                           *)
FairSpec ==
  Spec /\ WF_vars(Alone(Reader)) /\ WF_vars(Alone(FinishClose))

-----------------------------------------------------------------------------
LoopCounts == [gaps : Nat, duplicates : Nat, resets : Nat, received : Nat]
Estimators == [initialized : BOOLEAN, last : Nat, travelled : Nat]
Poses == [valid : BOOLEAN, time : Nat, travelled : Nat]

TelemetryTypeOK ==
  /\ now \in Nat
  /\ wire \in [seq : SeqNumbers, index : Nat, at : 0..FrameBytes, restarted : BOOLEAN]
  /\ {opened, running, discard, heard} \subseteq BOOLEAN
  /\ main \in {"start", "running", "joining", "closed"}
  /\ reader \in {"none", "reading", "pushing", "exited"}
  /\ line \in Lines /\ ignoreUntil \in Nat
  /\ inHand \in Frames
  /\ queue \in Seq(Frames) /\ Len(queue) <= Capacity
  /\ stats \in RxStats /\ seen \in LoopCounts
  /\ {lastRx, lastSeen} \subseteq {NoSeq} \cup SeqNumbers
  /\ estimator \in Estimators /\ pose \in Poses
  /\ {pushed, consumed} \subseteq Spans

(* UartVehicleInterface.hpp gives counters for frames pushed out of the    *)
(* full queue and for frames skipped on purpose: until the port is closed, *)
(* every parsed frame is in the queue, consumed, or in one of them.        *)
Accounted ==
  main # "closed" =>
    stats.parsed = Len(queue) + seen.received + stats.dropped + stats.skipped

(* Both counters of sequence gaps tell how many frames are missing between *)
(* the first and the last frame that came by, across the wrap of the       *)
(* numbers, as long as the microcontroller does not restart.               *)
LossesCounted ==
  ~wire.restarted =>
    /\ stats.parsed > 0 => stats.gaps = pushed.last - pushed.first + 1 - stats.parsed
    /\ seen.received > 0 => seen.gaps = consumed.last - consumed.first + 1 - seen.received

(* A closed port serves nothing and no thread is left on it (close joins   *)
(* the reader before it clears the queue).                                 *)
ClosedIsQuiet ==
  main = "closed" => queue = <<>> /\ ~opened /\ reader \in {"none", "exited"}

(* After noise, an overlong line or the discarded beginning, a frame read  *)
(* from newline to newline is never missed (processRxByte).                *)
WholeFrameParsed ==
  [][ReadNewline /\ heard /\ now >= ignoreUntil => reader' = "pushing"]_vars

(* Do not integrate position over a large telemetry gap: what lies between *)
(* two poses published one after the other is the time between them, or    *)
(* nothing if that is too long; and it never goes back.                    *)
PoseStepsMatchTime ==
  [][pose.valid /\ pose' # pose =>
       /\ pose'.time > pose.time
       /\ pose'.travelled - pose.travelled =
            IF pose'.time - pose.time <= MaxStep THEN pose'.time - pose.time ELSE 0]_vars

(* The short read timeout is there so that close() does not hang.          *)
CloseEnds == main = "joining" ~> main = "closed"
=============================================================================
