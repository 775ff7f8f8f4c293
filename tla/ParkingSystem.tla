---------------------------- MODULE ParkingSystem ----------------------------
(***************************************************************************)
(* The parking server and the vehicle, joined by TCP connections.  A       *)
(* connection gets a handler thread of its own; when the vehicle gives a   *)
(* connection up, its handler goes on with the lines that already reached  *)
(* it, beside the handler of the next connection.                          *)
(*                                                                         *)
(* Left out here: the ageing of the server's inputs (see ParkingServer),   *)
(* as the vehicle publishes its pose and the parking status all the time.  *)
(***************************************************************************)
EXTENDS ParkingServer, ParkingVehicle

CONSTANTS
    NoHandler,          \* the vehicle has no connection
    MaxConnections      \* bound: the vehicle connects so many times, and the last
                        \* connection lasts

ASSUME SystemAssumption == /\ NoHandler \notin Handlers
                           /\ MaxConnections \in Nat
                           /\ Reports \subseteq SUBSET Slots

VARIABLES
    serving,        \* the handler of the vehicle's connection
    orphaned,       \* lines a handler still has to read from a connection given up
    connections     \* how often the vehicle connected

server == <<shared, pc, job, changed, up>>
systemVars == <<vars, vehicle, socket, serving, orphaned, connections>>

SystemInit ==
    /\ Init /\ VehicleInit
    /\ serving = NoHandler
    /\ orphaned = [h \in Handlers |-> <<>>]
    /\ connections = 0

\* The lines handler h can read.
Unread(h) == IF h = serving THEN toServer ELSE orphaned[h]

Consume(h) ==
    IF h = serving THEN toServer' = Tail(toServer) /\ UNCHANGED orphaned
    ELSE orphaned' = [orphaned EXCEPT ![h] = Tail(@)] /\ UNCHANGED toServer

ServerReads(h) ==
    /\ Unread(h) # <<>>
    /\ Receive(h, Head(Unread(h)))
    /\ Consume(h)
    /\ UNCHANGED <<vehicle, link, toVehicle, serving, connections>>

\* A handler writes only once its connection has room for the line.
ServerSteps(h) ==
    /\ Step(h)
    /\ IF wire' = {} THEN UNCHANGED toVehicle
       ELSE /\ Len(toVehicle) < SockCap
            /\ \E w \in wire' : toVehicle' = Append(toVehicle, w.msg)
    /\ UNCHANGED <<vehicle, link, toServer, serving, orphaned, connections>>

ServerEnds(h) ==
    /\ Unread(h) = <<>>
    /\ EndOfFile(h)
    /\ UNCHANGED <<vehicle, socket, serving, orphaned, connections>>

\* The vehicle's own steps.  When it closes a socket, the lines that were still
\* under way stay with the handler.
VehicleTicks ==
    /\ Tick
    /\ IF link # "none" /\ link' = "none"
       THEN /\ serving' = NoHandler
            /\ orphaned' = [orphaned EXCEPT ![serving] = toServer]
       ELSE UNCHANGED <<serving, orphaned>>
    /\ wire' = {}
    /\ UNCHANGED <<server, connections>>

VehicleConnects(h) ==
    /\ connections < MaxConnections /\ connections' = connections + 1
    /\ ServiceConnect /\ Connect(h)
    /\ serving' = h
    /\ orphaned' = [orphaned EXCEPT ![h] = <<>>]

NetworkBreaks ==
    /\ connections < MaxConnections
    /\ BreakLink /\ Break(serving)
    /\ UNCHANGED <<serving, orphaned, connections>>

Reliable ==
    \/ \E h \in Handlers : ServerReads(h) \/ ServerSteps(h) \/ ServerEnds(h)
                           \/ VehicleConnects(h)
    \/ VehicleTicks

\* Connections fail.
LossySpec == SystemInit /\ [][Reliable \/ NetworkBreaks]_systemVars

\* Connections last, and the verdicts of the safety gate do not change faster than
\* the event queue takes them.
Calm(A) == A /\ Len(events') < MaxEvents

CalmSpec == SystemInit /\ [][Calm(Reliable)]_systemVars

\* The control loop keeps ticking, a thread that can run is scheduled, and the
\* server accepts: the client tries to connect again and again.
FairCalmSpec ==
    /\ CalmSpec
    /\ WF_systemVars(Calm(VehicleTicks))
    /\ \A h \in Handlers : /\ WF_systemVars(Calm(ServerReads(h)))
                           /\ WF_systemVars(Calm(ServerSteps(h)))
                           /\ WF_systemVars(Calm(VehicleConnects(h)))

-----------------------------------------------------------------------------
\* Every variable keeps its type; exactly the vehicle's connection has a socket at
\* both ends, and it carries nothing but protocol messages.
SystemTypeOK ==
    /\ TypeOK /\ VehicleTypeOK
    /\ serving \in Handlers \cup {NoHandler}
    /\ serving = NoHandler <=> link = "none"
    /\ tx \in Seq(Messages) /\ rx \in Seq(Replies) /\ toVehicle \in Seq(Replies)
    /\ \A h \in Handlers : Unread(h) \in Seq(Messages)
    /\ connections \in 0 .. MaxConnections

\* Nothing is under way: no line on the connection or in a queue, no handler at
\* work, the vehicle between two ticks.
Quiet ==
    /\ link = "up" /\ toServer = <<>> /\ toVehicle = <<>>
    /\ tx = <<>> /\ rx = <<>> /\ events = <<>> /\ step = "service"
    /\ AtRest /\ \A h \in Handlers : orphaned[h] = <<>>

\* A paused session waits for a SAFETY_CLEARED, so when nothing is under way the
\* vehicle must still be going to send one.
NoOrphanPause == Quiet /\ session.state = "PAUSED" => blocking

\* The trajectory the vehicle holds is never an older one again, in spite of
\* reconnections and of handlers that overlap.
HeldNeverOlder == [][held' >= held]_systemVars

\* After a stop for an obstacle the vehicle does not pass the trajectory it
\* stopped on.
NoBlindResume ==
    [][reason = "LOCAL_OBSTACLE_BLOCKING" /\ reason' = "PASS_BENCH_ONLY"
         => held' # held]_systemVars

\* A trajectory the server sends can be decoded by the vehicle: the replan after a
\* pause, too, takes the place of the trajectory it withdrew.
TrajectoriesDecodable ==
    \A i \in DOMAIN toVehicle :
        toVehicle[i].kind = "trajectory" => Decoded(toVehicle[i])

\* Once the way is clear and stays so, the server does not stay paused: the
\* SAFETY_CLEARED that ends the pause is sent and takes effect.
PauseEnds == <>[](connected /\ reason \in Clear) => []<>(session.state # "PAUSED")
=============================================================================
