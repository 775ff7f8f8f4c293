--------------------------- MODULE ParkingVehicle ---------------------------
(***************************************************************************)
(* The vehicle's side of the parking protocol: ParkingServerClient.cpp and *)
(* the parking part of Executive.cpp, in the bench profile the code allows *)
(* (parking enabled, tracker on, UART off).  One thread runs one control   *)
(* tick after another; a tick is the cycle service, flush, messages, pose, *)
(* status, control, sync.  The server and the network act between any two  *)
(* socket calls of a tick, so each line sent is a step of its own.         *)
(*                                                                         *)
(* Data: of the parking safety gate only the first failing check is kept,  *)
(* chosen from Conditions once the checks of the connection and of the     *)
(* trajectory have passed; a parking status is the set of FREE slots; the  *)
(* validator's geometry is a choice.  Acks and planning results reach the  *)
(* log only.                                                               *)
(***************************************************************************)
EXTENDS Naturals, Sequences

CONSTANTS
    Reports,        \* the sets of FREE slots a parking status may carry
    Conditions,     \* what the safety gate may find with a trajectory at hand
    MaxTx,          \* kMaxTxMessages
    MaxRx,          \* kMaxQueuedMessages
    MaxEvents,      \* kMaxPendingSafetyEvents
    SockCap         \* bound: lines one direction of a connection holds

TrajectoryFaults == {"RAW_COMMAND_INVALID", "RAW_COMMAND_STALE", "TRACKER_STATE_INVALID",
                     "POSE_INVALID", "POSE_STALE", "TRAJECTORY_INVALID",
                     "SPEED_LIMIT_EXCEEDED", "STEERING_LIMIT_EXCEEDED",
                     "DIRECTION_SPEED_MISMATCH"}
Clear == {"PASS_BENCH_ONLY", "GOAL_HOLD"}
Reasons == TrajectoryFaults \cup Clear
           \cup {"NOT_EVALUATED", "SERVER_DISCONNECTED", "LOCAL_OBSTACLE_BLOCKING"}

ASSUME VehicleAssumption ==
    /\ Conditions \subseteq Reasons \ {"NOT_EVALUATED", "SERVER_DISCONNECTED"}
    /\ MaxTx \in Nat \ {0} /\ MaxRx \in Nat \ {0} /\ MaxEvents \in Nat \ {0}
    /\ SockCap \in Nat \ {0}

VARIABLES
    step,           \* where the tick is
    connected,      \* parking_server_connected_, as of this tick's service()
    tx,             \* tx_queue_
    rx,             \* rx_messages_, from the next trajectory on
    events,         \* parking_safety_event_queue_
    held,           \* id of the trajectory on the blackboard, 0 for none
    reason,         \* last_parking_safety_reason_, also this tick's verdict
    blocking,       \* parking_blocking_safety_active_
    link,           \* the client's socket: none, working, or broken
    toServer,       \* lines on their way to the server
    toVehicle       \* lines on their way to the vehicle

vehicle == <<step, connected, tx, rx, events, held, reason, blocking>>
socket == <<link, toServer, toVehicle>>

VehicleInit ==
    /\ step = "service" /\ connected = FALSE
    /\ tx = <<>> /\ rx = <<>> /\ events = <<>>
    /\ held = 0 /\ reason = "NOT_EVALUATED" /\ blocking = FALSE
    /\ link = "none" /\ toServer = <<>> /\ toVehicle = <<>>

-----------------------------------------------------------------------------
\* The client's socket.

Smaller(m, n) == IF m <= n THEN m ELSE n
Front(s, n) == SubSeq(s, 1, n)
Rest(s, n) == SubSeq(s, n + 1, Len(s))

\* A trajectory without a source_seq fails to decode and becomes an ERROR.
Decoded(line) == line.kind = "trajectory" /\ line.seq

\* popMessage's caller logs all but the trajectories: the lines from the next
\* trajectory on.
FromTrajectory(lines) ==
    LET next == {i \in DOMAIN lines : /\ Decoded(lines[i])
                                      /\ \A j \in 1 .. (i - 1) : ~Decoded(lines[j])}
    IN  IF next = {} THEN <<>> ELSE Rest(lines, (CHOOSE i \in next : TRUE) - 1)

\* receiveAvailable: rx_messages_ keeps the newest lines.
Received ==
    LET lines == rx \o toVehicle
    IN  FromTrajectory(IF Len(lines) > MaxRx THEN Rest(lines, Len(lines) - MaxRx) ELSE lines)

\* markDisconnected: what was queued for sending is gone, what was received is not.
MarkDisconnected ==
    /\ tx' = <<>>
    /\ link' = "none" /\ toServer' = <<>> /\ toVehicle' = <<>>

\* flushTx as long as send() reports no failure: a working socket takes what it
\* has room for, a broken one swallows lines or would block.
Sent(queue) ==
    \E n \in 0 .. Len(queue) :
        /\ tx' = Rest(queue, n)
        /\ \/ /\ link = "up" /\ n = Smaller(Len(queue), SockCap - Len(toServer))
              /\ toServer' = toServer \o Front(queue, n)
           \/ link = "broken" /\ UNCHANGED toServer

FlushTx(queue) ==
    \/ Sent(queue) /\ UNCHANGED <<link, toVehicle>>
    \/ link = "broken" /\ queue # <<>> /\ MarkDisconnected

\* A mutation of CanQueue: without the limit of the queue.
CanQueueUnbounded == link # "none"

\* queueLine answers whether it took the line, not whether the line survived.
CanQueue == link # "none" /\ Len(tx) < MaxTx
QueueLine(line) == FlushTx(Append(tx, line))

\* A send whose answer is ignored.
Try(line) == IF CanQueue THEN QueueLine(line) ELSE UNCHANGED <<tx, socket>>

-----------------------------------------------------------------------------
\* parkingNetworkTick.

\* Not connected, and it stays so: no attempt is due, it failed, or it is pending.
ServiceIdle ==
    /\ step = "service" /\ link = "none"
    /\ connected' = FALSE
    /\ step' = "flush"
    /\ UNCHANGED <<tx, rx, events, held, reason, blocking, socket>>

ServiceConnect ==
    /\ step = "service" /\ link = "none"
    /\ link' = "up" /\ toServer' = <<>> /\ toVehicle' = <<>>
    /\ connected' = TRUE
    /\ step' = "flush"
    /\ UNCHANGED <<tx, rx, events, held, reason, blocking>>

\* flushTx, then receiveAvailable, which sees a broken connection or does not.
ServiceTraffic ==
    /\ step = "service" /\ link # "none"
    /\ \/ /\ Sent(tx) /\ rx' = Received
          /\ toVehicle' = <<>> /\ UNCHANGED link
       \/ /\ link = "broken" /\ MarkDisconnected
          /\ \/ rx' = Received
             \/ tx # <<>> /\ UNCHANGED rx
    /\ connected' = (link' # "none")
    /\ step' = "flush"
    /\ UNCHANGED <<events, held, reason, blocking>>

\* while (popMessage(...)), and what follows it.
NextMessageOr(left) == IF left # <<>> THEN "messages"
                  ELSE IF connected THEN "pose" ELSE "control"

\* flushParkingSafetyEvents, called after service() and after the safety gate.
Flushing == step \in {"flush", "sync"}
CanFlush == connected /\ events # <<>> /\ CanQueue

FlushEvent ==
    /\ Flushing /\ CanFlush
    /\ QueueLine([kind |-> "safety_event", tid |-> Head(events).tid,
                  event |-> Head(events).event, seq |-> FALSE])
    /\ events' = Tail(events)
    /\ UNCHANGED <<step, connected, rx, held, reason, blocking>>

FlushEnd ==
    /\ Flushing /\ ~CanFlush
    /\ step' = IF step = "flush" THEN NextMessageOr(rx) ELSE "service"
    /\ UNCHANGED <<connected, tx, rx, events, held, reason, blocking, socket>>

TakeTrajectory ==
    /\ step = "messages"
    /\ rx' = FromTrajectory(Tail(rx)) /\ step' = NextMessageOr(rx')
    /\ \E status \in {"RECEIVED", "REJECTED"} :
         /\ held' = IF status = "RECEIVED" THEN Head(rx).tid ELSE held
         /\ Try([kind |-> "trajectory_status", tid |-> Head(rx).tid,
                 status |-> status, seq |-> TRUE])
    /\ UNCHANGED <<connected, events, reason, blocking>>

\* Another pose or parking status may have been published since the last one
\* that queueLine took; a tick that finds none sends none.
SendPose ==
    /\ step = "pose"
    /\ step' = "status"
    /\ \/ CanQueue /\ QueueLine([kind |-> "vehicle_pose"])
       \/ UNCHANGED <<tx, socket>>
    /\ UNCHANGED <<connected, rx, events, held, reason, blocking>>

SendStatus ==
    /\ step = "status"
    /\ step' = "control"
    /\ \/ /\ CanQueue
          /\ \E free \in Reports : QueueLine([kind |-> "parking_status", free |-> free])
       \/ UNCHANGED <<tx, socket>>
    /\ UNCHANGED <<connected, rx, events, held, reason, blocking>>

-----------------------------------------------------------------------------
\* parkingBenchControlTick.

\* A mutation of RequiresClear: a stop for an obstacle needs no clearing.
OnlyTimeoutRequiresClear(r) == r = "SERVER_DISCONNECTED"

\* mapParkingSafetyReasonToServerEvent.
RequiresClear(r) == r \in {"SERVER_DISCONNECTED", "LOCAL_OBSTACLE_BLOCKING"}

EventOf(r) == CASE r = "SERVER_DISCONNECTED" -> "SERVER_TIMEOUT"
                [] r = "LOCAL_OBSTACLE_BLOCKING" -> "CRITICAL_OBSTACLE"
                [] OTHER -> "TRAJECTORY_INVALID"

\* The first check of ParkingSafetyFilter::filter that fails, or its verdict.
\* Without a trajectory the tracker leaves the raw command invalid.
GateReasons == IF ~connected THEN {"SERVER_DISCONNECTED"}
               ELSE IF held = 0 THEN {"RAW_COMMAND_INVALID"}
               ELSE Conditions

\* queueParkingSafetyEvent: no adjacent duplicates, and a full queue drops.
Queued(event) ==
    IF events # <<>> /\ events[Len(events)] = event THEN events
    ELSE IF Len(events) >= MaxEvents THEN events
    ELSE Append(events, event)

\* parkingSafetyEventSyncTick up to its flush: only changes of the verdict are
\* told to the server, and only with a trajectory.
Control ==
    /\ step = "control"
    /\ step' = "sync"
    /\ \E r \in GateReasons :
         /\ reason' = r
         /\ IF held = 0 \/ r = reason THEN UNCHANGED <<events, blocking>>
            ELSE IF r \notin Clear
            THEN /\ events' = Queued([event |-> EventOf(r), tid |-> held])
                 /\ blocking' = RequiresClear(r)
            ELSE IF blocking
            THEN /\ events' = Queued([event |-> "SAFETY_CLEARED", tid |-> held])
                 /\ blocking' = FALSE
            ELSE UNCHANGED <<events, blocking>>
    /\ UNCHANGED <<connected, tx, rx, held, socket>>

-----------------------------------------------------------------------------
\* What the vehicle does without a new connection, and all it does.
Tick == \/ ServiceIdle \/ ServiceTraffic \/ FlushEvent \/ FlushEnd
        \/ TakeTrajectory \/ SendPose \/ SendStatus \/ Control

\* The network drops the connection: of the lines under way in either direction
\* only a prefix still arrives.
BreakLink ==
    /\ link = "up" /\ link' = "broken"
    /\ \E n \in 0 .. Len(toServer) : toServer' = Front(toServer, n)
    /\ \E n \in 0 .. Len(toVehicle) : toVehicle' = Front(toVehicle, n)
    /\ UNCHANGED vehicle

-----------------------------------------------------------------------------
Event == [event : {"SERVER_TIMEOUT", "CRITICAL_OBSTACLE", "TRAJECTORY_INVALID",
                   "SAFETY_CLEARED"},
          tid : Nat \ {0}]

\* Every variable keeps its type, and no queue outgrows its limit.
VehicleTypeOK ==
    /\ step \in {"service", "flush", "messages", "pose", "status", "control", "sync"}
    /\ connected \in BOOLEAN /\ blocking \in BOOLEAN
    /\ Len(tx) <= MaxTx /\ Len(rx) <= MaxRx
    /\ events \in Seq(Event) /\ Len(events) <= MaxEvents
    /\ held \in Nat
    /\ reason \in Reasons
    /\ link \in {"none", "up", "broken"}
    /\ Len(toServer) <= SockCap /\ Len(toVehicle) <= SockCap
=============================================================================
