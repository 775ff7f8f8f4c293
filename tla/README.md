# LAAS BFMC: a verification project in TLA+

LAAS BFMC is the software of a model car that keeps its lane, avoids obstacles
and parks. This project models three parts of it: automatic parking, that is the
planning server (Python, threads) and the vehicle's client (C++, one control
loop) joined by TCP; lane driving, the chain of ticks from the camera to the
command; and the telemetry path from the serial line to the vehicle's pose. It
says what each promises, checks it with TLC on small instances, and proves most
of the safety for all values of the constants with TLAPS. Paths below are
relative to the repository.

## 1. The system

### Parts

| Part | Source | State | Operations |
|---|---|---|---|
| Parking session | `server_v1/parking_session_v1.py` | session state, active trajectory id, target slot, replan pending, pause reason | `ensure_started` ... `target_became_invalid`, one lock per call |
| Parking server | `server_v1/server_stub.py` | latest pose and parking status with generations and ages, trajectory counter, planning lock | one handler thread per connection: five kinds of message, and `plan_with_latest_state` |
| Planner | `server_v1/hybrid_astar_v1.py`, `slot_selector_v1.py` | none | `choose_best_free_slot`, `plan` |
| Parking client | `src/logical_robot/ParkingServerClient.cpp`, `ParkingProtocol.cpp` | socket state, 16 outgoing and 32 incoming messages | `service`, `queueLine`, `flushTx`, `receiveAvailable`, `popMessage` |
| Executive, parking part | `src/execution_control/Executive.cpp` | blackboard trajectory, last safety reason, blocking flag, 8 pending safety events | `parkingNetworkTick`, `parkingBenchControlTick`, `parkingSafetyEventSyncTick`, `queue/flushParkingSafetyEvent(s)` |
| Parking safety gate, validator, tracker | `src/functional/safety/Parking*.cpp`, `control/ParkingTrajectoryTracker.cpp` | tracker: progress on the trajectory | `filter`, `validate`, `process` |
| Executive, lane driving | `Executive.cpp`, `Scheduler.*` | run request, tick times | camera, detector, perception, decision, planning, control, logging ticks |
| Mission supervisor | `src/decision/MissionSupervisor.cpp` | emergency latch | `decide` |
| Lane change planner | `src/functional/planning/` | planner state, committed direction, hold and settle counters | `plan` |
| Lane safety filter | `src/functional/safety/SafetyFilterModule.cpp` | none | `filter` |
| Pose estimator | `src/functional/localization/` | pose, last telemetry | `process` |
| UART interface | `src/logical_robot/UartVehicleInterface.cpp`, `TelemetryProtocol.cpp` | port state, telemetry queue of 32, counters | reader thread, `receiveLatest`, `send` |
| Detector | `src/logical_robot/UdpYoloInterface.cpp`, `ai/best_AI.py` | sockets, partial JPEG frames | frames out, distances back, all UDP |
| Perception, controllers, camera, monitor | `src/functional/perception`, `control`, `CameraInterface.cpp`, `monitor/` | numeric | image processing, control laws, a dashboard |

The `.bak` and `.before-*` files are earlier versions of the files beside them.

### Interactions

The control loop (`Executive::run`) is one thread; only the UART reader is
another. A round of the loop takes the time once, reads the keyboard and the
telemetry, and runs the tasks whose period has passed, in a fixed order: camera,
detector, perception, decision, planning, control. They speak to each other
through the blackboard, where every message stays until it is overwritten and
carries a time stamp; how old a message may be is for its readers to check, and
each checks another one. Every 20 ms a control tick runs `parkingNetworkTick` (connect, flush,
read, answer trajectories, send pose and status) and then
`parkingBenchControlTick` (tracker, safety gate, safety events). The server
accepts any number of connections. Each handler thread reads a line, takes
`state_lock` or the session's lock for one call at a time, and may plan: take a
snapshot, search with `planning_lock` held and no other lock, compare
generations, recheck ages, draw an id, announce, and send. The vehicle tells the
server `RECEIVED` or `REJECTED`, and safety events; the server withdraws a
trajectory by replanning, never with a message of its own.

### What is hard, and what correctness means

Concurrency: handlers interleave between any two locked calls; an id is drawn in
one and announced in another, a match is checked in one and acted on in another.
The search is long, and poses and statuses arrive while it runs. Failure: a
connection breaks with lines in flight, the vehicle reconnects while the old
handler still works through its input, `queueLine` may accept a line and lose it
in the same call. Bounded queues drop. Hence the properties:

- **session**: fields fit together in every interleaving; a pause reason is on
  record exactly while paused;
- **server**: distinct ids, no PLANNING without an owner, no trajectory that was
  stopped is offered or driven again, no target that is known to be taken;
  planning and handlers end;
- **vehicle and server**: the vehicle never goes back to an older trajectory; a
  paused session can count on a `SAFETY_CLEARED`, and a pause ends when the way
  is clear; what the server sends can be decoded;
- **lane driving**: after an emergency the car moves only when the operator has
  stopped and started it; no motion on data or on a plan that is out of date; a
  lane change is carried through and not turned round; the car stops when told
  to, and when the detector falls silent;
- **telemetry**: every frame parsed is consumed or counted as lost; noise costs
  the damaged frames only; the pose follows time; closing the port ends, whatever
  the reader is at.

`PROJECT.json` lists the hazards with their lines and the properties on them.

## 2. Modules

| Module | What it is |
|---|---|
| `ParkingSession` | the methods of the session, each an operator on a session record |
| `ParkingServer` | the server: handlers, shared context, and any clients at all |
| `ParkingServerHistory` | the same with a memory of stopped trajectories (`NeverResumed`) |
| `TrajectoryLease` | abstract: what the server promises about trajectories |
| `ParkingServerRefinement` | `ParkingServer` implements `TrajectoryLease` |
| `ParkingVehicle` | client and executive, one control tick as a cycle of steps |
| `ParkingSystem` | `ParkingServer` and `ParkingVehicle` joined by connections |
| `MCParkingServer`, `MCParkingServerHistory`, `MCParkingSystem` | symmetry and views for TLC |
| `ParkingServerProofs` | type correctness, and what a step may do to the session |
| `ParkingSafetyProofs` | the server's safety theorems |
| `ParkingSoleProofs` | the theorems for one connection, the refinement of the lease among them |
| `ParkingSystemProofs` | server and vehicle together: types, the order of trajectories, and what carries over from the server |
| `ParkingPauseProofs` | no pause is orphaned while the connection lasts |
| `LaneChangePlanner` | `LaneChangePlanner::update` as operators on a record |
| `LaneTracking` | what `LaneDetectorCore` remembers from frame to frame |
| `LaneDriving` | the loop, its clock, the operator, and the ticks of lane driving, on the two modules above |
| `MCLaneDriving` | constants for TLC |
| `LaneDrivingProofs` | theorems about lane driving |
| `VehicleUart` | the serial line, the reader thread, the telemetry queue, the port |
| `VehicleTelemetry` | `telemetryTick` and the pose estimator on `VehicleUart` |
| `TelemetryCrc` | the checksum, on words as sets of bits |
| `MCVehicleTelemetry` | constants for TLC, and the checksum where the reader relies on it |
| `VehicleTelemetryProofs` | theorems about the telemetry path |
| `TelemetryCrcProofs` | theorems about the checksum, for frames of any length |

### ParkingSession and ParkingServer

`session` is the five fields of `ParkingSession` that steer anything. `pc[h]` is
where handler `h` stands; each label is a place between two locked calls, so one
action is one call with the purely local code after it. `job[h]` holds the locals
that outlive a call: the free slots of the snapshot, the selected slot, the id
drawn, and whether the message had an integer `seq`.

| Code | Actions |
|---|---|
| `handle`, `vehicle_pose` | `ReceivePose`, `PoseStart`, `Ack`, `PoseCheck`, `PoseParking` |
| `handle`, `parking_status` | `ReceiveParking`, `ParkStart`, `ParkCheck`, `ParkInvalid` or `ParkState`, `Ack` |
| `handle`, `plan_request` | `ReceivePlanRequest`, `StartNewSession` or `RequestReplan`, `Ack` |
| `handle`, `trajectory_status` | `ReceiveStatus`, or `ReceiveReplanStatus` and `RequestReplan`, `Ack` |
| `handle`, `safety_event` | `ReceivePauseEvent`, or `ReceiveReplanEvent` and `RequestReplan` or `ClearSafety`, `Ack` |
| `handle`, everything else | `ReceiveOther` |
| `plan_with_latest_state` | `TakeSnapshot`, `BeginPlanning`, `AcquirePlanner`, `Search`, `VerifyGenerations`, `InputChanged`, `RecheckFreshness`, `BuildTrajectory`, `AnnounceTrajectory`, `SetWaiting` |
| threads and connections | `Connect`, `Break`, `EndOfFile` |
| the clock | `AgePose`, `AgeParking` |

Abstractions. The two generation counters become one flag per handler,
`changed[h]`, set when a new input is stored between the handler's snapshot and
its check. An age is `fresh` or `stale`. A parking status is its set of FREE
slots, since OCCUPIED and UNKNOWN are treated alike. The search returns some free
slot or none, and validation may refuse it. `wire` shows what the last step
wrote; it exists so that `ParkingSystem` can carry it and `TypeOK` can speak of
it. A write on a broken connection is lost, or its exception ends the thread.

### ParkingVehicle

`step` walks through a control tick: `service`, `flush`, `messages`, `pose`,
`status`, `control`, `sync`. Each line queued is a step of its own, because
`queueLine` calls `send()` at once and the server may act in between. `connected`
is the copy the executive takes after `service()`, which may be out of date by
the end of the tick (a send that meets a broken connection): the model keeps both
it and `link`. The safety gate keeps the order of its first two checks
(connection, then a raw command, which needs a trajectory) and chooses among the
rest; the `Conditions` of a run say which. The profile is the bench profile:
parking on, tracker on, UART off, because the gate refuses everything else.

### ParkingSystem

A connection has a handler, `serving`. When the vehicle closes its socket, the
lines that already reached the server stay in `orphaned[h]`, and the handler
reads them beside the one of the next connection. `NetworkBreaks` cuts what is in
flight to a prefix in both directions. The ageing of inputs is left out there,
because the vehicle publishes both every 100 ms or so while it is connected and
`ParkingServer` covers it on its own.

### LaneChangePlanner, LaneTracking, LaneDriving

One unit of time is about the 33 ms of a frame. A message on the blackboard is
valid or not and has an age, which `Time` increases, up to one beyond the longest
limit anyone reads. `Time` may strike wherever the loop spends time (sleeping,
processing an image, planning, sending), at most `MaxLag` times in a round: so
rounds come late and messages age between two ticks of one round.
`since[t]` counts from the mark of task `t`, which is the round's own time.

| Code | Actions and operators |
|---|---|
| `Executive::run`, `PeriodicTimer` | `Round`, `Turn`, `Ready`, `Time`, `End` |
| `handleKeyboardTick` | `PressRun`, `PressStop`, `PressQuit` |
| `cameraTick`, `yoloTick` with `receiveObstacle` | `CameraTick`, `YoloTick`, `ReceiveObstacle` |
| `perceptionTick`, `LanePerceptionModule::process`, `LaneDetectorCore` | `PerceptionTick`, `PerceiveLane`, `ProcessFrame`, `Found`, `ValidLane` |
| `decisionTick`, `MissionSupervisor::update` | `DecisionTick`, `Decision`, `Alarm` |
| `planningTick`, `LaneChangePlannerModule::process`, `LaneChangePlanner::update` | `PlanningTick`, `MakePlan`, `Outcomes` |
| `controlTick`, `computeRawCommand`, `SafetyFilterModule::filter` | `ControlTick`, `Drivable`, `StopRequired` |

Abstractions. The detector's answers are a choice from `Distances`, and whether
one is there is a choice: a lost, late, repeated or backlogged answer is among
them, as the code stamps it when it reads it. An image is what the search of the
lines finds in it (`Sights`). A candidate of the planner is its lane and
duration; its simulation against the obstacle is the distance from which it
passes (`PassesFrom`), its cost a number per duration (`ChangeCost`), and the
biases and the latch of the selection are the code's own numbers. Whether a
controller finds a command is a choice, so no property rests on its arithmetic.
`owed` and the plan's `seen` are history: no action reads them.

With the default `trigger_distance_` of 1.10 m no lane change of the model would
ever pass its simulation, which needs about 1.3 m; the run has 1.8 m, as
`config/laas_config.example.yaml` does.

### VehicleUart, VehicleTelemetry, TelemetryCrc

The wire sends numbered frames, byte by byte, and any byte may be lost, damaged,
or damaged into a newline; the microcontroller may restart once. `line` says how
long the reader's buffer is and which frame it is the beginning of, so a line
parses if it is a whole frame. Push, `receiveLatest` and the end of `close` are
one action each, being critical sections of `telemetry_mutex`; between reading a
newline and pushing the frame the loop may run (`reader = "pushing"`).

| Code | Actions |
|---|---|
| `rxLoop`, `processRxByte` | `ReadByte`, `ReadNewline`, `ReadFails`, `ReaderExits` |
| `pushTelemetry` | `Push` |
| `init`, `send`, `close` | `Open`, `OpenFails`, `SendFails`, `StartClose`, `FinishClose` |
| `telemetryTick`, `receiveLatest`, `VehiclePoseEstimator::process` | `TelemetryTick` |
| STM32, serial line, clock | `Lose`, `Restart`, `Time` |

The position of the estimator is reduced to the time over which it integrated
the speed, which is what a gap, a repeated or a skipped frame can spoil. The
model is of the build with LibSerial and the profile with telemetry and the pose
estimator on. `TelemetryCrc` computes the real function; a byte
and the 16-bit `crc` are the sets of the bits that are on, so that a shift moves the
elements of a set and an exclusive or is a symmetric difference.

## 3. Runs

| Run | Question | Bounds |
|---|---|---|
| `server_single` | does a server with one connection at a time keep its lease, its target free, and come back? | 2 slots, 1 handler (reused), 3 trajectories |
| `server_multi` | do two interleaved handlers keep the session coherent? | 1 slot, 2 handlers, 2 trajectories |
| `server_history` | the same handlers: does a trajectory that stopped ever come back? | as `server_multi` |
| `system_reliable` | over a connection that lasts, does the vehicle always still owe the clear, and does the pause end? | 1 slot, queues of 1, 1 and 3, 2 trajectories |
| `system_lossy` | does a vehicle that reconnects ever go back to an older trajectory? | 2 connections, 2 handlers, 2 trajectories, no obstacle stops |
| `lane_driving` | may the car ever move when it must not, and does it stop? | units of time 0 to 3 for timeouts, lag of 2, two durations, distances none, 0.4 m and 1.3 m |
| `telemetry` | do frames, poses and the closing of the port survive noise, a full queue and failures, and is the checksum the one it is named for? | 4 frames of 2 bytes and a newline, line of 3, queue of 2, numbers modulo 10 from 8 |
| `lost_lane` | a comment on the detector's tracking that the code does not keep (section 5) | every kind of image |
| `replan_undecodable`, `blind_resume`, `completed_replans`, `lost_clear` | four statements of the documentation that the code does not keep (section 5) | |

Why the bounds suffice. Two slots are needed for a target to be lost while
another slot is free; three trajectories let a replanned one be replaced once
more. Two handlers show every race of two locked calls; a third adds no new pair,
and the theorems of section 4 cover any number. In the system runs a socket holds
one line per direction: the queues of the client and the handler's read loop add
the depth, and a full socket, a partial flush and a full transmit queue all occur
with one place each (`system_lossy` leaves out, with the constraint `Drained`,
the states in which a line waits in the transmit queue: `system_reliable` and
`lost_clear` have them). The client drains its received messages in every tick, so
with one line in flight that queue never overflows here; `Received` models the
overflow and a run of the client on its own is planned for it. Three safety events
suffice for a stop, a clear and the next stop. Two
connections give one overlap of an old handler with a new one. `MaxTrajectories`
is read as a search that fails from then on, which the code allows at any time,
so nothing deadlocks at the bound.

`system_reliable` and `replan_undecodable` use `Calm`: the queue of safety events
never reaches its limit. Beyond it `queueParkingSafetyEvent` drops events, and a
dropped clear would break `NoOrphanPause`; the hazard is listed.

In `lane_driving` decision and planning are slower than the other tasks, as in
`config/laas_config.example.yaml` (50 ms against 20 and 33 ms; the default for the
detector in `Config.hpp`, 333 ms, is slower than both, and covered by the
theorems, which are about any periods). Each timeout is met by tasks that run on
time and passed after a stall of `MaxLag`, so every check of an age both passes and fails. One distance
is within the emergency limit, one beyond it and near enough for a lane change;
hold and settle counters of 2 show a counter that runs, one that ends, and
`CourseKept` with one to spare. Images show no line or both with an impossible
slope: from these the detector gains, loses and resets its tracking; the run
`lost_lane` has all images. In `telemetry` a queue of two overflows and skips, a
line of three bytes holds less than two frames that ran together, the frame
numbers wrap after the second frame, and the clock has room for the startup
time, for a step that is integrated and for one that is too long. There the
checksum is checked once a frame has been taken: all pairs of bytes, and
all 65536 states under one more byte. The bytes after the second take the
state on in the same way, so two show the start value, the polynomial and the
order of bits and bytes.

Fairness. `LaneDriving!FairSpec`: the loop is a thread that never blocks for good
and time passes; nothing is assumed of operator, camera and detector.
`VehicleTelemetry!FairSpec`: the reader is scheduled, its read on the port returns
after a few milliseconds with or without a byte, and `close` goes on once the
reader has ended; the port is not assumed ever to fail. For the server, `FairSpec`: a handler thread that can run is scheduled again; nothing
is assumed of clients, who may send no more or break the connection.
`FairCalmSpec`: the control loop keeps ticking (`Executive::run` loops for ever),
handler threads are scheduled, and the client, which tries to connect every
`reconnect_period_ms`, at last gets through. There is no fairness on breaking
connections, on which verdict the safety gate gives, or on which message comes.
`PauseEnds` assumes what it must of the world: connected and a clear gate from
some point on.

The parking runs check for deadlock. `lane_driving`, `lost_lane` and `telemetry` say `CHECK_DEADLOCK
FALSE`, because the program ends there: after Q the loop returns, and after `close` nothing happens once
the frames and the clock are at their bounds. `server_multi`, `server_history`,
`system_lossy` and `lost_clear` use a view that leaves out what no guard reads, and all of them but
`lost_clear` symmetry of handlers (and slots), both only with safety properties.

The properties, in the order of how much they say:

- `ImplementsLease` (refinement), `NeverResumed`: whatever the order of messages,
  a trajectory that was paused, completed, rejected or withdrawn is not taken up
  again, and a new one is announced only when the old one is withdrawn. With
  several connections the lease does not hold (two handlers may announce in
  turn), `NeverResumed` still does.
- `HeldNeverOlder`, `NoOrphanPause`, `PauseEnds`: end to end, across both programs.
- `PlanningOwned`, `IdsUnique`, `SessionCoherent`: with interleaved handlers.
- `TargetStillFree`, `PauseReasonIffPaused`, `PlanningEnds`, `HandlerReturns`:
  with one connection at a time. With two, `TargetStillFree` does not hold: between
  `generations_unchanged` and `mark_trajectory_ready` the other handler may store a
  status in which the chosen slot is taken; it finds no target on record to
  withdraw, and the trajectory is announced to a taken slot, although
  `protocol_v1.md` says that a plan overtaken by a newer status is not sent. The
  next parking status withdraws it. `server_multi` with that invariant added shows it.
- `MovesOnlyWhenCleared`, `DrivesPresentPlan`, `DrivesOnFreshData`,
  `EmergencyHeeded`: a command with speed against what the operator did, the
  decision before it, and the ages of frame and report behind it. The four
  timeouts are checked in four places and no single one bounds these ages.
- `CourseKept`, `NoSwerveBack`, `PlannerCoherent`: a lane change over many ticks of
  flickering detections, with counters that must not outlive it.
- `StopObeyed`, `SilenceStops`: S stops the car, and so does a silent detector.
- `Accounted`, `LossesCounted`, `WholeFrameParsed`, `ChecksumTellsApart`,
  `ChecksumIsRemainder`: no frame
  astray, none missed after noise, and none taken that was damaged in two
  neighbouring bytes. The last compares `crc16CcittFalse` with the division of
  polynomials that CRC-16/CCITT-FALSE stands for. `LossesCounted` excludes a restart of the microcontroller,
  after which a number may be taken for a gap.
- `PoseStepsMatchTime`, `ClosedIsQuiet`, `CloseEnds`: the pose, and the port's end.
- `TypeOK`, `SystemTypeOK`, `LaneTypeOK`, `TelemetryTypeOK`: types, and the limits of
  queues and counters.

## 4. Proofs

The constants are arbitrary: any set of slots and of handlers, any
`MaxTrajectories`, with or without planning; any periods, timeouts, tunings and
detections; any size of frame, line and queue. The assumptions are
`NoSlotAssumption`, `ServerAssumption`, `VehicleAssumption`, `SystemAssumption`,
`PlannerAssumption`, `TuningAssumption`, `LaneDrivingAssumption`, `UartAssumption`
and `TelemetryAssumption`. All but one only say what kind of thing a constant is
(queues have at least one place, a report names known slots). `TuningAssumption`
says that no lane change costs as much as the 19 by which the selection's biases
prefer carrying one on to giving it up. The code's costs stay well below: curvature at
most `max_curvature_per_m_` (1.85), a quarter of at most 10 s, and a jerk of hundredths.

The server:

- `TypeOKAlways` (`ParkingServerProofs`): `Spec => []TypeOK`. `TypeOK` is not
  inductive, since an announced line must name a slot and a positive id: `TypeInv`
  adds `AnnouncesWell`, that a handler at `announce` has both.
- `Coherent`, `UniqueIds`, `PlansOwned` (`ParkingSafetyProofs`). A lemma sorts all
  steps of the server by what they do to the session (start, wait, plan, mark
  ready, execute, complete, pause, replan, or nothing), to the ids, and to the
  labels that own a plan. Each invariant is then proved over those few cases and
  not over some thirty actions. `SessionCoherent` and `IdsUnique` are inductive
  together with `TypeInv`: an id announced is drawn from the counter and so is
  neither the session's nor another handler's. `PlanningOwned` is inductive with
  them, because a handler leaves the owning labels only with a step that moves
  the session out of PLANNING.
- `NothingResumed`: `HistorySpec => []NeverResumed`. The strengthening says that
  stopped ids were all issued and none of them is the id a handler is about to
  announce.

- `PauseReasons`, `TargetsFree`, `KeepsLease` (`ParkingSoleProofs`), for any slots and
  any number of trajectories but one handler, as in `server_single`; with two
  handlers they do not hold. Nothing then comes between two locked calls of the
  handler, and `Sole` says for each label what it has read that is still so: that
  the session waits to be planned for, that it is in PLANNING, that the free slots
  in its locals are the latest, that the id it is about to announce is the last one
  issued. The refinement follows: announcing is the lease's offer, the
  vehicle's status runs or finishes it, a safety event puts it on hold, whatever
  begins a replan or a new session withdraws it, and all else stutters.

Server and vehicle together (`ParkingSystemProofs`, `ParkingPauseProofs`), for any
queues, number of lines under way, connections and handlers:

- `SystemCorrect` is the inductive invariant, of two parts. `Typed` holds the types
  of both programs and says that a handler's connection works exactly while it is
  the one the vehicle uses, so nobody else writes to the vehicle; that queued
  safety events name a trajectory; and that what is kept of the received messages
  begins with a trajectory. `InOrder` says that trajectories reach the vehicle in the
  order of their ids: what it holds is older than what it has received, that older than what
  is under way, and that older than an id its handler has drawn and not
  announced. It rests on the server's `IdsUnique`: ids drawn are never drawn again.
- `CalmTypeCorrect` and `HeldNeverOlderAlways` follow. The second holds with lost
  lines and broken connections, because a line left over from an old connection
  is answered on no connection at all.
- `SystemIsServer`: every step of the system is one of `ParkingServer`, or leaves the
  server alone. The types are needed for it: what the vehicle, a broken connection
  or an old one leaves for a handler to read is a message of the protocol. So what
  is proved for any clients holds for this one: `ServerSafeInSystem` has the three
  invariants, and `NothingResumedInSystem` has `NeverResumed`, for the system with
  the memory of stopped trajectories added (`RememberingSpec`).
- `NoOrphanPauseAlways` is about `CalmSpec`, as the run is: connections last, and the
  queue of safety events does not reach its limit (`lost_clear` shows what a
  broken connection does). `CalmInv` says what such a connection gives: all the
  vehicle sent is under way or queued (`Away`), only its own kinds of lines are,
  the session's trajectory is no older than one the vehicle has or will receive,
  and no event names one it has yet to take. `PauseInv` follows a pause on its way: for the
  trajectory held, an event that pauses, queued or under way, has its release
  behind it, or `blocking` is set and the vehicle still owes it; and a paused
  session has a release queued, under way or being handled, or `blocking` set.
  `NoOrphanPause` is the case in which nothing is under way. Each step that sends,
  reads or queues a line has a lemma for what it does to `Away` and to the events.

Lane driving (`LaneDrivingProofs`), each step of the loop with its own lemma:

- `LaneTypes`, `PlannerStaysCoherent`, `NoSwerve`: from `TypeInv`, the type invariant
  and `PlannerCoherent` together. Coherence needs the ranges of the counters, and
  the action property needs both: who steers to a side holds it as direction.
- `Cleared`: `OwedInv` says that while something is owed the behaviour on the
  blackboard is a stop; and while S is owed the latch is set with the run request
  on, while R is owed the run request is off.
- `PresentPlan` and `FreshData` assume that decision and planning have the same
  period, as every configuration of the repository has. Then both are due in the
  same rounds, and a control tick never comes between a decision and its plan;
  `PlanInv` says so, and bounds the ages between the tasks of a round. The model lets
  no time pass between the decision tick and the planning tick after it, while the
  code reads the clock in each: the bound of `DrivesOnFreshData` holds in the code up to the
  fraction of a millisecond between these two readings. With
  different periods a command may follow the plan of an earlier decision.
- `Heeded` needs no such assumption: `HeedInv` bounds the age of a report at
  emergency distance by the time since the last decision that could have seen it
  and the lag of the round.

- `CourseStaysKept`: the planner is committed while its hold counter runs, so the
  other side is not allowed and this one is; keeping the lane is then dearer than
  any duration of the change, by `TuningAssumption`, and the latch only chooses among
  changes to the same side. That a change under way means that some duration is
  permitted (`ChangeHasDuration`) is an invariant of its own.

The telemetry path (`VehicleTelemetryProofs`, `TelemetryCrcProofs`):

- `TelemetryTypes`, `FramesAccounted`, `CloseIsFinal` and `PosesAdvance`, from one
  invariant. To the four facts it adds `Phases`, that before `init` there is no
  reader and nothing in the queue, and `PoseCurrent`, that the pose on the
  blackboard is the estimator's last.
- `WholeFrames` assumes that a line can hold a frame (`FrameBytes <= MaxLine`: the
  reader allows 255 bytes). `HeardInv` says that a frame heard so far is the
  whole of the line, and that nothing is being discarded.
- `LossesExact` assumes that fewer frames are sent than half the sequence numbers
  (2^31 of them, at any rate; the code takes a greater difference for a reset).
  A frame's index never wraps, its number does. `LossInv` keeps for every number
  that is remembered, in the line, in the reader's hand, as the last one pushed
  and as the last one seen, how far it is behind the number on the wire
  (`Behind`); the differences of the code are then differences of indices.

- `NeighboursTellApart`: two frames of the same length that differ, and only in two
  neighbouring bytes, have different checksums, however long they are. Equal bytes
  take different checksums to different ones (`EatByteTellsApart`), since each shift
  can be undone: the polynomial has bit 0, which shows whether a bit left. The two bytes
  themselves are told apart by `ShiftByteTellsApart`: if after eight shifts the low
  bytes agree, and they did before, then, going down, the bits that left agree, and going up again
  all bits do. `Shifted` says what one shift gives in either direction. That the
  recursive function has the values its definition says (`CrcIs`), and the way through
  the frame, are inductions over its length; `Counting` states induction as a fact about
  a set of numbers, from the well-foundedness of the naturals, as a theorem with a
  predicate for its parameter cannot be used here.
- `ChecksumAlwaysTellsApart` is the property of the run, which counts the checksums
  of all pairs of bytes and of all words; `TwoBytesDo` derives the counts from the
  theorem above, with injections.

Only model-checked: all liveness, which is out of the provers' reach: `PlanningEnds`, `HandlerReturns`, `PauseEnds`, `StopObeyed`,
`SilenceStops`, `CloseEnds`; and `ChecksumIsRemainder`, over all pairs of bytes. Every other property of a passing run is a theorem. Two of
them are so under a condition on the periods, three for one handler, one each for
a line that holds a frame and for a bounded number of frames, as said above.

## 5. Where code and documentation part

1. **Replans after a safety event do not reach the vehicle** (`replan_undecodable`).
   `encodeSafetyEvent` writes no `seq`; the server answers with `source_seq` null;
   `decodeServerLine` demands an integer. The session stands in TRAJECTORY_READY,
   the vehicle keeps the old trajectory.
2. **The vehicle resumes blindly** (`blind_resume`). The safety gate looks at the
   present tick only: when the obstacle is gone the old trajectory passes again.
3. **COMPLETED is not final for parking status** (`completed_replans`). A status
   that reports the target taken, by the parked vehicle itself, withdraws the
   completed trajectory and plans a new one.
4. **A safety event can be lost** (`lost_clear`). `queueLine` answers true after
   its own flush found the connection broken and cleared the queue. A lost
   `SAFETY_CLEARED` leaves the session paused if the vehicle is connected again by
   its very next `service()`: the reconnect period, counted from the last attempt, is
   over and the connection is made in that call. Otherwise the next gate says
   SERVER_DISCONNECTED, `blocking` is set again, and a `SERVER_TIMEOUT` and another
   `SAFETY_CLEARED` follow once the vehicle is connected.
5. **A lost line does not end the tracking** (`lost_lane`). A comment in
   `processFrame` says that if one line is lost, both are no longer tracked. The
   code looks at `has_prev_left_` and `has_prev_right_`, which only an impossible
   slope clears: the detector goes on searching beside the old fit of the line
   that is gone. Nothing calls `resetTracking` from outside either.

## 6. Not modelled

- The numeric parts: Hybrid A*, image processing, the control laws, the geometry
  of the validator and of the parking tracker (with its progress over points).
  Their outcomes are choices of the models.
- The detector process (`ai/best_AI.py`): `LaneDriving` allows it any answer and
  none, so nothing rests on how it puts its JPEG chunks together.
- Speed and steering limits of both safety filters, the bench switches of
  `UartVehicleInterface::send`, the build without LibSerial.
- The restart of a server or a vehicle program, and the heading of the pose after
  a restart of the microcontroller.
- Camera device, monitor, entry point, offline tools and mock clients hold no
  protocol state.

## 7. Plan

1. *Done:* the parking session, server, vehicle and their composition; lane
   driving; the telemetry path; the proofs of section 4, with those of the composed
   parking system.
2. The detector: JPEG chunks over UDP with loss, duplication and reordering, and
   a backlog of answers with their true age.
3. The parking client alone against an arbitrary server, with enough lines in flight to
   overflow its received messages; the trajectory tracker; server restarts, which
   reset ids.
4. The control tick with both modes: lane driving and parking over one loop.
5. Theorems about the modules of items 2 to 4.
