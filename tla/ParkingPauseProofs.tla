-------------------------- MODULE ParkingPauseProofs --------------------------
(***************************************************************************)
(* With a lasting connection no pause is orphaned: a session that is       *)
(* paused while nothing is under way waits for a SAFETY_CLEARED that the   *)
(* vehicle is still going to send, whatever the sizes of the queues and    *)
(* the number of lines and handlers.                                       *)
(***************************************************************************)
EXTENDS ParkingSystemProofs

\* What the vehicle queued and the server has not read, in order.
Away == toServer \o tx

\* The lines the vehicle ever sends.
VehicleLines ==
    {m \in Messages :
       /\ m.kind \in {"vehicle_pose", "parking_status", "trajectory_status", "safety_event"}
       /\ m.kind = "trajectory_status" => m.status \in {"RECEIVED", "REJECTED"}
       /\ m.kind = "safety_event" => m.tid # NoTid}

\* A connection that lasts.  The session never runs a trajectory older than one
\* the vehicle has or will receive, and no event names one the vehicle is yet to take.
CalmInv ==
    /\ link # "broken" /\ Len(events) < MaxEvents
    /\ link = "none" => toServer = <<>>
    /\ \A h \in Handlers : (pc[h] # "off" => up[h]) /\ orphaned[h] = <<>>
    /\ Away \in Seq(VehicleLines)
    /\ session.active # NoTid =>
         /\ held <= session.active
         /\ \A t \in Ids(rx) \cup Ids(toVehicle) : t <= session.active
    /\ \A i \in DOMAIN Away : Away[i].kind = "safety_event" => Away[i].tid <= held
    /\ \A i \in DOMAIN events : events[i].tid <= held

\* A line, or an event still queued, that pauses a session running trajectory tid,
\* and one that ends such a pause.
Pauses(line, tid) ==
    line.kind = "safety_event" /\ line.tid = tid /\ line.event \in PauseEvents
Releases(line, tid) ==
    line.kind = "safety_event" /\ line.tid = tid /\ line.event \notin PauseEvents
PausesLater(event, tid) == event.tid = tid /\ event.event \in PauseEvents
ReleasesLater(event, tid) == event.tid = tid /\ event.event \notin PauseEvents

ReleaseQueued == \E i \in DOMAIN events : ReleasesLater(events[i], held)
ReleaseAway == \E i \in DOMAIN Away : Releases(Away[i], held)

\* Every pause, from the verdict of the safety gate to the session, is followed by
\* its release, or the vehicle knows that it still owes one.
PauseInv ==
    /\ \A i \in DOMAIN Away : Pauses(Away[i], held) =>
         \/ blocking \/ ReleaseQueued
         \/ \E j \in DOMAIN Away : i < j /\ Releases(Away[j], held)
    /\ \A i \in DOMAIN events : PausesLater(events[i], held) =>
         blocking \/ \E j \in DOMAIN events : i < j /\ ReleasesLater(events[j], held)
    /\ session.state = "PAUSED" =>
         /\ held = session.active
         /\ \/ blocking \/ ReleaseQueued \/ ReleaseAway
            \/ \E h \in Handlers : pc[h] \in {"requestReplan", "clearSafety"}

-----------------------------------------------------------------------------
\* What the vehicle sends.

\* The vehicle sends nothing, or a line that is no event.
SendsNoEvent ==
    \/ Away' = Away
    \/ \E line \in VehicleLines : line.kind # "safety_event" /\ Away' = Append(Away, line)

\* The vehicle sends its oldest event.
SendsEvent ==
    /\ events # <<>> /\ events' = Tail(events)
    /\ \E line \in VehicleLines :
         /\ line.kind = "safety_event" /\ Away' = Append(Away, line)
         /\ line.tid = Head(events).tid /\ line.event = Head(events).event

\* The vehicle notices the end of a pause, or what does not pause, and queues it last.
QueuesRelease ==
    /\ ~blocking'
    /\ \E e \in Event : /\ ReleasesLater(e, held)
                        /\ events' = Append(events, e) \/ (events' = events /\ events # <<>>
                                                           /\ events[Len(events)] = e)

CalmTickMove ==
    /\ link' = link /\ toServer' \in Seq(Messages)
    /\ \/ UNCHANGED <<held, events, blocking>> /\ SendsNoEvent
       \/ UNCHANGED <<held, blocking>> /\ SendsEvent
       \/ UNCHANGED <<events, blocking>> /\ held' \in Ids(rx) /\ SendsNoEvent
       \/ UNCHANGED held /\ Away' = Away /\ QueuesRelease
       \/ /\ UNCHANGED held /\ Away' = Away /\ blocking'
          /\ \E e \in Event : e.tid = held /\ events' \in {events, Append(events, e)}

LEMMA ServiceCalm ==
    ASSUME SystemInv, CalmInv, ServiceIdle \/ ServiceTraffic \/ FlushEnd
    PROVE  UNCHANGED <<held, events, blocking, link>> /\ Away' = Away
<1>1. CASE ServiceIdle \/ FlushEnd
  BY <1>1 DEF ServiceIdle, FlushEnd, socket, Away
<1>2. CASE ServiceTraffic
  <2>1. link = "up" /\ Sent(tx) /\ UNCHANGED <<held, events, blocking, link>>
    BY <1>2 DEF ServiceTraffic, CalmInv, SystemInv, Typed, SystemTypeOK, VehicleTypeOK
  <2>2. Typed /\ tx \in Seq(Messages)
    BY DEF SystemInv, Typed, SystemTypeOK
  <2> QED BY <2>1, <2>2, SentIs DEF Away
<1> QED BY <1>1, <1>2

\* A line queued on a connection that works is the last one under way.
LEMMA QueueCalm ==
    ASSUME SystemInv, CalmInv, NEW line \in Messages, CanQueue, QueueLine(line)
    PROVE  link' = link /\ Away' = Append(Away, line)
<1>1. link = "up"
  BY DEF CanQueue, CalmInv, SystemInv, Typed, SystemTypeOK, VehicleTypeOK
<1>2. link' = link
  BY <1>1 DEF QueueLine, FlushTx
<1> QED BY <1>1, <1>2, QueueIs DEF SystemInv, Away

LEMMA FlushCalm ==
    ASSUME SystemInv, CalmInv, FlushEvent
    PROVE  UNCHANGED <<held, blocking, link>> /\ SendsEvent
<1>1. /\ events # <<>> /\ events \in Seq(Event) /\ \A i \in DOMAIN events : events[i].tid \in Tids
  BY DEF FlushEvent, CanFlush, SystemInv, Typed, SystemTypeOK, VehicleTypeOK
<1>2. /\ events' = Tail(events) /\ UNCHANGED <<held, blocking>> /\ CanQueue
      /\ QueueLine([kind |-> "safety_event", tid |-> Head(events).tid,
                    event |-> Head(events).event, seq |-> FALSE])
  BY DEF FlushEvent, CanFlush
<1> DEFINE line == [kind |-> "safety_event", tid |-> Head(events).tid,
                    event |-> Head(events).event, seq |-> FALSE]
<1>3. Head(events) \in Event /\ Head(events).tid \in Tids
  <2>1. 1 \in DOMAIN events /\ Head(events) = events[1] /\ events[1] \in Event
    BY <1>1
  <2> QED BY <1>1, <2>1
<1>4. line \in Messages /\ line.tid # NoTid
  BY <1>3 DEF Event, SafetyEvents, PauseEvents, Messages, Tids, NoTid
<1>5. line.kind = "safety_event" /\ line.tid = Head(events).tid /\ line.event = Head(events).event
  OBVIOUS
<1>6. line \in VehicleLines
  BY <1>4, <1>5 DEF VehicleLines
<1>7. QueueLine(line)
  BY <1>2
<1> HIDE DEF line
<1>8. link' = link /\ Away' = Append(Away, line)
  BY <1>2, <1>4, <1>7, QueueCalm
<1> QED BY <1>1, <1>2, <1>5, <1>6, <1>8 DEF SendsEvent

LEMMA SendCalm ==
    ASSUME SystemInv, CalmInv, SendPose \/ SendStatus
    PROVE  UNCHANGED <<held, events, blocking, link>> /\ SendsNoEvent
<1>1. UNCHANGED <<held, events, blocking>>
  BY DEF SendPose, SendStatus
<1>2. \/ UNCHANGED <<tx, socket>>
      \/ \E line \in VehicleLines : line.kind # "safety_event" /\ CanQueue /\ QueueLine(line)
  <2>1. [kind |-> "vehicle_pose"] \in VehicleLines
    BY DEF Messages, VehicleLines
  <2>2. \A free \in Reports : [kind |-> "parking_status", free |-> free] \in VehicleLines
    BY SystemAssumption DEF Messages, VehicleLines
  <2> QED BY <2>1, <2>2 DEF SendPose, SendStatus
<1>3. CASE UNCHANGED <<tx, socket>>
  BY <1>1, <1>3 DEF socket, Away, SendsNoEvent
<1>4. ASSUME NEW line \in VehicleLines, line.kind # "safety_event", CanQueue, QueueLine(line)
      PROVE  link' = link /\ SendsNoEvent
  <2>1. line \in Messages
    BY DEF VehicleLines
  <2> QED BY <1>4, <2>1, QueueCalm DEF SendsNoEvent
<1> QED BY <1>1, <1>2, <1>3, <1>4 DEF socket

LEMMA TakeCalm ==
    ASSUME SystemInv, CalmInv, TakeTrajectory
    PROVE  UNCHANGED <<events, blocking, link>> /\ held' \in {held} \cup Ids(rx) /\ SendsNoEvent
<1>1. UNCHANGED <<events, blocking>>
  BY DEF TakeTrajectory
<1>2. held' \in {held} \cup Ids(rx)
  BY TakeMoves DEF TickMove, Passed
<1>3. Head(rx).tid \in Tids
  <2>1. /\ rx \in Seq(Replies) /\ rx # <<>> /\ Decoded(Head(rx))
        /\ issued \in 0 .. MaxTrajectories /\ MaxTrajectories \in Nat
    BY ServerAssumption DEF TakeTrajectory, SystemInv, Typed, SystemTypeOK, TypeOK
  <2>2. /\ Head(rx) \in Replies /\ 1 \in DOMAIN rx /\ rx[1] = Head(rx)
        /\ Head(rx).kind = "trajectory"
    BY <2>1 DEF Decoded
  <2>3. Head(rx).tid \in Nat \ {NoTid} /\ Head(rx).tid \in Ids(rx)
    BY <2>2 DEF Replies, Ids
  <2> QED BY <2>1, <2>3 DEF SystemInv, InOrder, Tids, NoTid
<1>4. PICK status \in {"RECEIVED", "REJECTED"} :
        Try([kind |-> "trajectory_status", tid |-> Head(rx).tid, status |-> status, seq |-> TRUE])
  BY DEF TakeTrajectory
<1> DEFINE line == [kind |-> "trajectory_status", tid |-> Head(rx).tid, status |-> status,
                    seq |-> TRUE]
<1>5. line \in VehicleLines /\ line \in Messages /\ line.kind # "safety_event"
  BY <1>3 DEF VehicleLines, Messages, Statuses
<1>6. Try(line)
  BY <1>4
<1> HIDE DEF line
<1>7. CASE CanQueue
  BY <1>1, <1>2, <1>5, <1>6, <1>7, QueueCalm DEF Try, SendsNoEvent
<1>8. CASE ~CanQueue
  BY <1>1, <1>2, <1>6, <1>8 DEF Try, SendsNoEvent, socket, Away
<1> QED BY <1>7, <1>8

\* Control: verdicts that pause set blocking, all others end a pause.
LEMMA ControlCalm ==
    ASSUME SystemInv, CalmInv, Control
    PROVE  /\ UNCHANGED <<held, link>> /\ Away' = Away
           /\ \/ UNCHANGED <<events, blocking>>
              \/ QueuesRelease
              \/ blocking' /\ \E e \in Event : e.tid = held /\ events' \in {events, Append(events, e)}
<1>1. UNCHANGED <<held, link>> /\ Away' = Away
  BY DEF Control, socket, Away
<1>2. /\ held \in Nat /\ events \in Seq(Event) /\ Len(events) < MaxEvents /\ MaxEvents \in Nat
      /\ Len(events) \in Nat
  BY VehicleAssumption DEF CalmInv, SystemInv, Typed, SystemTypeOK, VehicleTypeOK
<1>3. \A e : events' = Queued(e) =>
                  \/ events' = Append(events, e)
                  \/ events' = events /\ events # <<>> /\ events[Len(events)] = e
  BY <1>2 DEF Queued
<1>4. PICK r \in GateReasons :
        IF held = 0 \/ r = reason THEN UNCHANGED <<events, blocking>>
        ELSE IF r \notin Clear
        THEN /\ events' = Queued([event |-> EventOf(r), tid |-> held])
             /\ blocking' = RequiresClear(r)
        ELSE IF blocking
        THEN /\ events' = Queued([event |-> "SAFETY_CLEARED", tid |-> held])
             /\ blocking' = FALSE
        ELSE UNCHANGED <<events, blocking>>
  BY DEF Control
<1>5. CASE held = 0 \/ r = reason \/ (r \in Clear /\ ~blocking)
  BY <1>1, <1>4, <1>5
<1>6. CASE held # 0 /\ r # reason /\ r \notin Clear /\ RequiresClear(r)
  <2> DEFINE e == [event |-> EventOf(r), tid |-> held]
  <2>1. e \in Event /\ e.tid = held
    BY <1>2, <1>6 DEF Event, EventOf
  <2>2. events' = Queued(e) /\ blocking'
    BY <1>4, <1>6
  <2> HIDE DEF e
  <2> QED BY <1>1, <1>3, <2>1, <2>2
<1>7. CASE held # 0 /\ r # reason /\ r \notin Clear /\ ~RequiresClear(r)
  <2> DEFINE e == [event |-> "TRAJECTORY_INVALID", tid |-> held]
  <2>1. e \in Event /\ ReleasesLater(e, held)
    BY <1>2, <1>7 DEF Event, ReleasesLater, PauseEvents
  <2>2. EventOf(r) = "TRAJECTORY_INVALID"
    BY <1>7 DEF EventOf, RequiresClear
  <2>3. events' = Queued(e) /\ ~blocking'
    BY <1>4, <1>7, <2>2
  <2> HIDE DEF e
  <2> QED BY <1>1, <1>3, <2>1, <2>3 DEF QueuesRelease
<1>8. CASE held # 0 /\ r # reason /\ r \in Clear /\ blocking
  <2> DEFINE e == [event |-> "SAFETY_CLEARED", tid |-> held]
  <2>1. e \in Event /\ ReleasesLater(e, held)
    BY <1>2, <1>8 DEF Event, ReleasesLater, PauseEvents
  <2>2. events' = Queued(e) /\ ~blocking'
    BY <1>4, <1>8
  <2> HIDE DEF e
  <2> QED BY <1>1, <1>3, <2>1, <2>2 DEF QueuesRelease
<1> QED BY <1>5, <1>6, <1>7, <1>8

LEMMA CalmTicks ==
    ASSUME SystemInv, CalmInv, Tick
    PROVE  CalmTickMove
<1>1. toServer' \in Seq(Messages)
  BY TickMoves DEF TickMove
<1>2. ASSUME UNCHANGED <<held, events, blocking, link>> /\ SendsNoEvent PROVE CalmTickMove
  BY <1>1, <1>2 DEF CalmTickMove
<1>3. CASE ServiceIdle \/ ServiceTraffic \/ FlushEnd
  BY <1>2, <1>3, ServiceCalm DEF SendsNoEvent
<1>4. CASE SendPose \/ SendStatus
  BY <1>2, <1>4, SendCalm
<1>5. CASE FlushEvent
  BY <1>1, <1>5, FlushCalm DEF CalmTickMove
<1>6. CASE TakeTrajectory
  BY <1>1, <1>6, TakeCalm DEF CalmTickMove
<1>7. CASE Control
  BY <1>1, <1>7, ControlCalm DEF CalmTickMove, SendsNoEvent
<1> QED BY <1>3, <1>4, <1>5, <1>6, <1>7 DEF Tick

-----------------------------------------------------------------------------
\* The vehicle's steps.

\* Lines added to the end, and their ids.
LEMMA AppendedIs ==
    ASSUME NEW S, NEW s \in Seq(S), NEW e \in S
    PROVE  /\ Append(s, e) \in Seq(S) /\ Len(Append(s, e)) = Len(s) + 1
           /\ DOMAIN Append(s, e) = 1 .. (Len(s) + 1) /\ DOMAIN s = 1 .. Len(s) /\ Len(s) \in Nat
           /\ \A i \in DOMAIN s : Append(s, e)[i] = s[i]
           /\ Append(s, e)[Len(s) + 1] = e
OBVIOUS

LEMMA TailIs ==
    ASSUME NEW S, NEW s \in Seq(S), s # <<>>
    PROVE  /\ Tail(s) \in Seq(S) /\ Len(Tail(s)) = Len(s) - 1 /\ Len(s) \in Nat \ {0}
           /\ DOMAIN Tail(s) = 1 .. (Len(s) - 1) /\ DOMAIN s = 1 .. Len(s)
           /\ \A i \in DOMAIN Tail(s) : Tail(s)[i] = s[i + 1]
           /\ Head(s) = s[1] /\ Head(s) \in S
OBVIOUS

\* What is sent and queued names trajectories the vehicle has held.
NamesHeld(lines, tid) ==
    \A i \in DOMAIN lines : lines[i].kind = "safety_event" => lines[i].tid <= tid

LEMMA TicksStayCalm ==
    ASSUME SystemInv, CalmInv, VehicleTicks, Len(events') < MaxEvents
    PROVE  CalmInv'
<1>1. CalmTickMove /\ TickMove
  BY CalmTicks, TickMoves DEF VehicleTicks
<1>2. /\ held \in Nat /\ held' \in Nat /\ events \in Seq(Event) /\ events' \in Seq(Event)
      /\ Away \in Seq(VehicleLines)
  BY <1>1 DEF CalmInv, SystemInv, Typed, SystemTypeOK, VehicleTypeOK, TickMove
<1>3. held <= held'
  BY HeldRises DEF VehicleTicks, SystemNext, Reliable
<1>4. UNCHANGED <<session, pc, up, link, orphaned>>
  BY <1>1 DEF VehicleTicks, CalmTickMove, server, shared
<1>5. link' = "none" => toServer' = <<>>
  <2>1. CASE link = "none"
    BY <1>4, <2>1 DEF VehicleTicks, Tick, ServiceIdle, ServiceTraffic, FlushEvent, FlushEnd, CanFlush,
       CanQueue, TakeTrajectory, Try, SendPose, SendStatus, Control, socket, CalmInv
  <2> QED BY <1>4, <2>1
<1>6. Away' \in Seq(VehicleLines) /\ NamesHeld(Away', held')
  <2>0. \A i \in DOMAIN Away : Away[i].kind = "safety_event" =>
          /\ Away[i].tid \in Nat /\ Away[i].tid <= held'
    <3>1. \A m \in VehicleLines : m.kind = "safety_event" => m.tid \in Nat
      BY MessageFields DEF VehicleLines
    <3> QED BY <1>2, <1>3, <3>1 DEF CalmInv
  <2>1. CASE Away' = Away
    BY <1>2, <2>0, <2>1 DEF NamesHeld
  <2>2. ASSUME NEW line \in VehicleLines, Away' = Append(Away, line),
               line.kind = "safety_event" => line.tid <= held'
        PROVE  Away' \in Seq(VehicleLines) /\ NamesHeld(Away', held')
    <3>1. \A i \in DOMAIN Away' : (i \in DOMAIN Away /\ Away'[i] = Away[i]) \/ Away'[i] = line
      BY <1>2, <2>2, AppendedIs
    <3>2. Away' \in Seq(VehicleLines)
      BY <1>2, <2>2, AppendedIs
    <3> QED BY <2>0, <2>2, <3>1, <3>2 DEF NamesHeld
  <2>3. CASE SendsNoEvent
    BY <2>1, <2>2, <2>3 DEF SendsNoEvent
  <2>4. CASE SendsEvent
    <3>1. Head(events).tid <= held /\ Head(events).tid \in Nat
      <4>1. 1 \in DOMAIN events /\ Head(events) = events[1] /\ Head(events) \in Event
        BY <1>2, <2>4, TailIs DEF SendsEvent
      <4> QED BY <4>1 DEF CalmInv, Event
    <3>2. Head(events).tid <= held'
      BY <1>2, <1>3, <3>1
    <3> QED BY <2>2, <2>4, <3>2 DEF SendsEvent
  <2> QED BY <1>1, <2>1, <2>3, <2>4 DEF CalmTickMove
<1>7. \A i \in DOMAIN events' : events'[i].tid <= held'
  <2>0. \A i \in DOMAIN events : events[i].tid \in Nat /\ events[i].tid <= held'
    <3>1. \A i \in DOMAIN events : events[i] \in Event /\ events[i].tid <= held
      BY <1>2 DEF CalmInv
    <3>2. \A e \in Event : e.tid \in Nat
      BY DEF Event
    <3>3. \A i \in DOMAIN events : events[i].tid \in Nat /\ events[i].tid <= held
      BY <3>1, <3>2
    <3> QED BY <1>2, <1>3, <3>3
  <2>1. CASE UNCHANGED events
    BY <2>0, <2>1
  <2>2. CASE events # <<>> /\ events' = Tail(events)
    BY <1>2, <2>0, <2>2, TailIs
  <2>3. ASSUME NEW e \in Event, e.tid = held, events' = Append(events, e), UNCHANGED held
        PROVE  \A i \in DOMAIN events' : events'[i].tid <= held'
    <3>1. \A i \in DOMAIN events' : (i \in DOMAIN events /\ events'[i] = events[i]) \/ events'[i] = e
      BY <1>2, <2>3, AppendedIs
    <3> QED BY <1>2, <2>0, <2>3, <3>1
  <2> QED BY <1>1, <2>1, <2>2, <2>3 DEF CalmTickMove, SendsEvent, QueuesRelease, ReleasesLater
<1>8. session'.active # NoTid => /\ held' <= session'.active
                                 /\ \A t \in Ids(rx') \cup Ids(toVehicle') : t <= session'.active
  BY <1>1, <1>4 DEF TickMove, Passed, CalmInv
<1> QED BY <1>4, <1>5, <1>6, <1>7, <1>8 DEF CalmInv, NamesHeld

\* A pause under way stays followed by its release, or owed one.
LEMMA TicksKeepPauses ==
    ASSUME SystemInv, CalmInv, PauseInv, SessionCoherent, VehicleTicks
    PROVE  PauseInv'
<1>1. CalmTickMove /\ UNCHANGED <<session, pc>>
  BY CalmTicks DEF VehicleTicks, server, shared
<1>2. held \in Nat /\ events \in Seq(Event) /\ Away \in Seq(VehicleLines)
  BY DEF CalmInv, SystemInv, Typed, SystemTypeOK, VehicleTypeOK
<1>3. ASSUME SendsNoEvent
      PROVE  /\ \A i \in DOMAIN Away' : Away'[i].kind = "safety_event" =>
                   i \in DOMAIN Away /\ Away'[i] = Away[i]
             /\ \A i \in DOMAIN Away : i \in DOMAIN Away' /\ Away'[i] = Away[i]
  <2>1. CASE Away' = Away
    BY <2>1
  <2>2. ASSUME NEW line \in VehicleLines, line.kind # "safety_event", Away' = Append(Away, line)
        PROVE  /\ \A i \in DOMAIN Away' : Away'[i].kind = "safety_event" =>
                     i \in DOMAIN Away /\ Away'[i] = Away[i]
               /\ \A i \in DOMAIN Away : i \in DOMAIN Away' /\ Away'[i] = Away[i]
    BY <1>2, <2>2, AppendedIs
  <2> QED BY <1>3, <2>1, <2>2 DEF SendsNoEvent
<1>4. CASE UNCHANGED <<held, events, blocking>> /\ SendsNoEvent
  <2>1. ReleaseQueued' = ReleaseQueued /\ (ReleaseAway => ReleaseAway')
    BY <1>3, <1>4 DEF ReleaseQueued, ReleaseAway
  <2>2. \A i \in DOMAIN Away' : Pauses(Away'[i], held') =>
          blocking' \/ ReleaseQueued' \/ \E j \in DOMAIN Away' : i < j /\ Releases(Away'[j], held')
    BY <1>3, <1>4, <2>1 DEF PauseInv, Pauses
  <2> QED BY <1>1, <1>4, <2>1, <2>2 DEF PauseInv
<1>5. CASE UNCHANGED <<held, blocking>> /\ SendsEvent
  <2>1. PICK line \in VehicleLines :
          /\ line.kind = "safety_event" /\ Away' = Append(Away, line)
          /\ line.tid = Head(events).tid /\ line.event = Head(events).event
    BY <1>5 DEF SendsEvent
  <2>2. /\ events # <<>> /\ Len(events) \in Nat \ {0} /\ DOMAIN events = 1 .. Len(events)
        /\ Head(events) = events[1] /\ DOMAIN events' = 1 .. (Len(events) - 1)
        /\ \A i \in DOMAIN events' : events'[i] = events[i + 1]
    BY <1>2, <1>5, TailIs DEF SendsEvent
  <2>3. /\ DOMAIN Away' = 1 .. (Len(Away) + 1) /\ DOMAIN Away = 1 .. Len(Away) /\ Len(Away) \in Nat
        /\ \A i \in DOMAIN Away : Away'[i] = Away[i]
        /\ Away'[Len(Away) + 1] = line
    BY <1>2, <2>1, AppendedIs
  <2>4. ASSUME NEW k \in DOMAIN events, ReleasesLater(events[k], held), k # 1
        PROVE  k - 1 \in DOMAIN events' /\ ReleasesLater(events'[k - 1], held')
    BY <1>5, <2>2, <2>4
  <2>5. ReleaseQueued => ReleaseQueued' \/ Releases(line, held')
    <3>1. ASSUME NEW k \in DOMAIN events, ReleasesLater(events[k], held)
          PROVE  ReleaseQueued' \/ Releases(line, held')
      <4>1. CASE k = 1
        BY <1>5, <2>1, <2>2, <3>1, <4>1 DEF ReleasesLater, Releases
      <4>2. CASE k # 1
        BY <2>4, <3>1, <4>2 DEF ReleaseQueued
      <4> QED BY <4>1, <4>2
    <3> QED BY <3>1 DEF ReleaseQueued
  <2>6. ASSUME NEW i \in DOMAIN Away', Pauses(Away'[i], held')
        PROVE  blocking' \/ ReleaseQueued' \/ \E j \in DOMAIN Away' : i < j /\ Releases(Away'[j], held')
    <3>1. CASE i \in DOMAIN Away
      <4>1. i < Len(Away) + 1 /\ Len(Away) + 1 \in DOMAIN Away'
        BY <2>3, <3>1
      <4>2. Pauses(Away[i], held)
        BY <1>5, <2>3, <2>6, <3>1
      <4>3. blocking \/ ReleaseQueued \/ \E j \in DOMAIN Away : i < j /\ Releases(Away[j], held)
        BY <3>1, <4>2 DEF PauseInv
      <4>4. ASSUME NEW j \in DOMAIN Away, i < j, Releases(Away[j], held)
            PROVE  j \in DOMAIN Away' /\ Releases(Away'[j], held')
        BY <1>5, <2>3, <4>4
      <4> QED BY <1>5, <2>3, <2>5, <4>1, <4>3, <4>4
    <3>2. CASE i = Len(Away) + 1
      <4>1. 1 \in DOMAIN events /\ PausesLater(events[1], held)
        BY <1>5, <2>1, <2>2, <2>3, <2>6, <3>2 DEF Pauses, PausesLater
      <4>2. blocking \/ \E k \in DOMAIN events : 1 < k /\ ReleasesLater(events[k], held)
        BY <4>1 DEF PauseInv
      <4> QED BY <1>5, <2>4, <4>2 DEF ReleaseQueued
    <3> QED BY <2>3, <3>1, <3>2
  <2>7. ASSUME NEW i \in DOMAIN events', PausesLater(events'[i], held')
        PROVE  blocking' \/ \E j \in DOMAIN events' : i < j /\ ReleasesLater(events'[j], held')
    <3>1. i + 1 \in DOMAIN events /\ PausesLater(events[i + 1], held) /\ i \in Nat
      BY <1>5, <2>2, <2>7
    <3>2. blocking \/ \E k \in DOMAIN events : i + 1 < k /\ ReleasesLater(events[k], held)
      BY <3>1 DEF PauseInv
    <3>3. ASSUME NEW k \in DOMAIN events, i + 1 < k, ReleasesLater(events[k], held)
          PROVE  \E j \in DOMAIN events' : i < j /\ ReleasesLater(events'[j], held')
      <4>1. k # 1 /\ i < k - 1
        BY <2>2, <3>1, <3>3
      <4> QED BY <2>4, <3>3, <4>1
    <3> QED BY <1>5, <3>2, <3>3
  <2>8. ReleaseAway => ReleaseAway'
    BY <1>5, <2>3 DEF ReleaseAway
  <2>9. Releases(line, held') => ReleaseAway'
    BY <2>3 DEF ReleaseAway
  <2> QED BY <1>1, <1>5, <2>5, <2>6, <2>7, <2>8, <2>9 DEF PauseInv

<1>6. CASE UNCHANGED <<events, blocking>> /\ held' \in Ids(rx) /\ SendsNoEvent
  <2>1. held < held' /\ held' \in Nat
    <3>1. rx \in Seq(Replies)
      BY DEF SystemInv, Typed, SystemTypeOK
    <3> QED BY <1>6, <3>1 DEF SystemInv, InOrder, Ids, Replies
  <2>2. \A i \in DOMAIN Away : Away[i].kind = "safety_event" =>
          Away[i].tid \in Nat /\ Away[i].tid <= held
    <3>1. \A m \in VehicleLines : m.kind = "safety_event" => m.tid \in Nat
      BY MessageFields DEF VehicleLines
    <3> QED BY <1>2, <3>1 DEF CalmInv
  <2>3. \A i \in DOMAIN Away' : ~Pauses(Away'[i], held')
    BY <1>2, <1>3, <1>6, <2>1, <2>2 DEF Pauses
  <2>4. \A i \in DOMAIN events' : ~PausesLater(events'[i], held')
    BY <1>2, <1>6, <2>1 DEF PausesLater, CalmInv, Event
  <2>5. session.state # "PAUSED"
    <3>1. ASSUME session.state = "PAUSED" PROVE FALSE
      <4>1. session.active # NoTid /\ session.active = held
        BY <3>1 DEF PauseInv, SessionCoherent
      <4> QED BY <1>2, <1>6, <2>1, <4>1 DEF CalmInv
    <3> QED BY <3>1
  <2> QED BY <1>1, <2>3, <2>4, <2>5 DEF PauseInv
<1>7. CASE UNCHANGED held /\ Away' = Away /\ QueuesRelease
  <2>1. PICK e \in Event :
          /\ ReleasesLater(e, held)
          /\ events' = Append(events, e) \/ (events' = events /\ events # <<>>
                                             /\ events[Len(events)] = e)
    BY <1>7 DEF QueuesRelease
  <2>2. \E n \in DOMAIN events' : events'[n] = e /\ \A i \in DOMAIN events' : i # n => i < n
    <3>1. CASE events' = Append(events, e)
      <4>1. /\ DOMAIN events' = 1 .. (Len(events) + 1) /\ Len(events) \in Nat
            /\ events'[Len(events) + 1] = e
        BY <1>2, <3>1, AppendedIs
      <4>2. Len(events) + 1 \in DOMAIN events' /\ \A i \in DOMAIN events' :
              i # Len(events) + 1 => i < Len(events) + 1
        BY <4>1
      <4> QED BY <4>1, <4>2
    <3>2. CASE events' = events /\ events # <<>> /\ events[Len(events)] = e
      <4>1. Len(events) \in DOMAIN events /\ \A i \in DOMAIN events :
              i # Len(events) => i < Len(events)
        BY <1>2, <3>2
      <4> QED BY <3>2, <4>1
    <3> QED BY <2>1, <3>1, <3>2
  <2>3. PICK n \in DOMAIN events' : events'[n] = e /\ \A i \in DOMAIN events' : i # n => i < n
    BY <2>2
  <2>4. ReleasesLater(events'[n], held')
    BY <1>7, <2>1, <2>3
  <2>5. ReleaseQueued'
    BY <2>4 DEF ReleaseQueued
  <2>6. ASSUME NEW i \in DOMAIN events', PausesLater(events'[i], held')
        PROVE  \E j \in DOMAIN events' : i < j /\ ReleasesLater(events'[j], held')
    <3>1. i # n
      BY <2>4, <2>6 DEF PausesLater, ReleasesLater
    <3> QED BY <2>3, <2>4, <3>1
  <2> QED BY <1>1, <1>7, <2>5, <2>6 DEF PauseInv
<1>8. CASE UNCHANGED held /\ Away' = Away /\ blocking'
  BY <1>1, <1>8 DEF PauseInv
<1> QED BY <1>1, <1>4, <1>5, <1>6, <1>7, <1>8 DEF CalmTickMove

-----------------------------------------------------------------------------
\* The server's steps.

\* Only the handler of the vehicle's connection runs.
LEMMA SoleHandler ==
    ASSUME SystemInv, CalmInv, NEW h \in Handlers, pc[h] # "off"
    PROVE  up[h] /\ h = serving /\ link = "up"
BY DEF SystemInv, CalmInv, Typed

\* What a handler does with a line of the vehicle: an event that pauses does so at
\* once, one that ends a pause sends the handler to the call that does.
ReceiveMove(h, m) ==
    /\ pc[h] = "idle" /\ \A g \in Handlers \ {h} : pc'[g] = pc[g]
    /\ \/ /\ UNCHANGED session
          /\ m.kind = "safety_event" /\ m.event \notin PauseEvents /\ Matches(session, m.tid)
               => pc'[h] \in {"requestReplan", "clearSafety"}
       \/ /\ m.kind = "safety_event" /\ m.event \in PauseEvents
          /\ session' = Paused(session, m.tid, TRUE)

LEMMA ReceiveMoves ==
    ASSUME TypeInv, NEW h \in Handlers, NEW m \in VehicleLines, Receive(h, m)
    PROVE  ReceiveMove(h, m)
<1> USE DEF ReceiveMove, shared, Silently, AckThen, Proceed, At
<1>1. DOMAIN pc = Handlers
  BY DEF TypeInv, TypeOK
<1>2. /\ m.kind \in {"vehicle_pose", "parking_status", "trajectory_status", "safety_event"}
      /\ m.kind = "trajectory_status" => m.status \in {"RECEIVED", "REJECTED"}
  BY DEF VehicleLines
<1>3. CASE ReceivePose(h, m) \/ ReceiveParking(h, m)
  BY <1>1, <1>3 DEF ReceivePose, ReceiveParking
<1>4. CASE ReceiveStatus(h, m)
  BY <1>1, <1>2, <1>4 DEF ReceiveStatus
<1>5. CASE ReceiveReplanStatus(h, m)
  BY <1>1, <1>5 DEF ReceiveReplanStatus
<1>6. CASE ReceivePauseEvent(h, m)
  BY <1>1, <1>6 DEF ReceivePauseEvent
<1>7. CASE ReceiveReplanEvent(h, m)
  BY <1>1, <1>7 DEF ReceiveReplanEvent
<1>8. ~ReceivePlanRequest(h, m) /\ ~ReceiveOther(h, m)
  BY <1>2 DEF ReceivePlanRequest, ReceiveOther
<1> QED BY <1>3, <1>4, <1>5, <1>6, <1>7, <1>8 DEF Receive

\* A read takes the oldest line.
LEMMA ReadMoves ==
    ASSUME SystemInv, CalmInv, NEW h \in Handlers, ServerReads(h)
    PROVE  /\ Away # <<>> /\ Away' = Tail(Away) /\ Head(Away) \in VehicleLines
           /\ ReceiveMove(h, Head(Away))
           /\ h = serving /\ UNCHANGED <<vehicle, link, toVehicle, serving, orphaned, up>>
<1>1. toServer \in Seq(Messages) /\ tx \in Seq(Messages) /\ Away \in Seq(VehicleLines) /\ TypeInv
  BY DEF SystemInv, Typed, SystemTypeOK, CalmInv
<1>2. Unread(h) # <<>> /\ Receive(h, Head(Unread(h)))
  BY DEF ServerReads
<1>3. h = serving
  BY <1>2 DEF Unread, CalmInv
<1>4. toServer # <<>> /\ toServer' = Tail(toServer) /\ UNCHANGED <<vehicle, link, toVehicle, serving, orphaned>>
  BY <1>2, <1>3 DEF ServerReads, Unread, Consume
<1>5. Away # <<>> /\ Head(Away) = Head(toServer) /\ Tail(toServer) \o tx = Tail(Away)
  BY <1>1, <1>4 DEF Away
<1>6. Away' = Tail(Away)
  BY <1>4, <1>5 DEF Away, vehicle
<1>7. Head(Away) \in VehicleLines
  BY <1>1, <1>5
<1>8. Receive(h, Head(Away))
  BY <1>2, <1>3, <1>5 DEF Unread
<1> QED BY <1>1, <1>3, <1>4, <1>5, <1>6, <1>7, <1>8, ReceiveMoves, ReceiveUp

LEMMA ReadsStayCalm ==
    ASSUME SystemInv, CalmInv, NEW h \in Handlers, ServerReads(h)
    PROVE  CalmInv'
<1>1. /\ Away # <<>> /\ Away' = Tail(Away) /\ ReceiveMove(h, Head(Away))
      /\ UNCHANGED <<vehicle, link, toVehicle, serving, orphaned, up>>
      /\ Away \in Seq(VehicleLines)
  BY ReadMoves DEF CalmInv
<1>2. Away' \in Seq(VehicleLines) /\ \A i \in DOMAIN Away' :
        i + 1 \in DOMAIN Away /\ Away'[i] = Away[i + 1]
  BY <1>1, TailIs
<1>3. session'.active = session.active
  <2>1. session \in Session
    BY DEF SystemInv, Typed, TypeInv, TypeOK
  <2> QED BY <1>1, <2>1 DEF ReceiveMove, Paused, Session
<1>4. pc[h] # "off" /\ \A g \in Handlers \ {h} : pc'[g] = pc[g]
  BY <1>1 DEF ReceiveMove
<1>5. link' # "none"
  BY <1>1, <1>4, SoleHandler
<1> QED BY <1>1, <1>2, <1>3, <1>4, <1>5 DEF CalmInv, vehicle

LEMMA ReadsKeepPauses ==
    ASSUME SystemInv, CalmInv, PauseInv, SessionCoherent, NEW h \in Handlers, ServerReads(h)
    PROVE  PauseInv'
<1> DEFINE m == Head(Away)
<1>1. /\ Away # <<>> /\ Away' = Tail(Away) /\ m \in VehicleLines /\ ReceiveMove(h, m)
      /\ h = serving /\ UNCHANGED <<vehicle, up>> /\ Away \in Seq(VehicleLines)
  BY ReadMoves DEF CalmInv
<1>2. /\ Len(Away) \in Nat \ {0} /\ DOMAIN Away = 1 .. Len(Away) /\ m = Away[1]
      /\ DOMAIN Away' = 1 .. (Len(Away) - 1)
      /\ \A i \in DOMAIN Away' : Away'[i] = Away[i + 1]
  BY <1>1, TailIs
<1>3. UNCHANGED <<events, blocking, held>>
  BY <1>1 DEF vehicle
<1> HIDE DEF m
<1>4. ASSUME NEW i \in DOMAIN Away', Pauses(Away'[i], held')
      PROVE  blocking' \/ ReleaseQueued' \/ \E j \in DOMAIN Away' : i < j /\ Releases(Away'[j], held')
  <2>1. i + 1 \in DOMAIN Away /\ Pauses(Away[i + 1], held) /\ i \in Nat
    BY <1>2, <1>3, <1>4
  <2>2. blocking \/ ReleaseQueued \/ \E j \in DOMAIN Away : i + 1 < j /\ Releases(Away[j], held)
    BY <2>1 DEF PauseInv
  <2>3. ASSUME NEW j \in DOMAIN Away, i + 1 < j, Releases(Away[j], held)
        PROVE  j - 1 \in DOMAIN Away' /\ i < j - 1 /\ Releases(Away'[j - 1], held')
    BY <1>2, <1>3, <2>1, <2>3
  <2> QED BY <1>3, <2>2, <2>3 DEF ReleaseQueued
<1>5. \A i \in DOMAIN events' : PausesLater(events'[i], held') =>
        blocking' \/ \E j \in DOMAIN events' : i < j /\ ReleasesLater(events'[j], held')
  BY <1>3 DEF PauseInv
<1>6. ReleaseQueued => ReleaseQueued'
  BY <1>3 DEF ReleaseQueued
<1>7. ASSUME NEW j \in DOMAIN Away, j # 1, Releases(Away[j], held) PROVE ReleaseAway'
  <2>1. j - 1 \in DOMAIN Away' /\ Releases(Away'[j - 1], held')
    BY <1>2, <1>3, <1>7
  <2> QED BY <2>1 DEF ReleaseAway
<1>8. ASSUME NEW g \in Handlers, pc[g] \in {"requestReplan", "clearSafety"} PROVE FALSE
  <2>1. g = serving
    BY <1>8, SoleHandler
  <2> QED BY <1>1, <1>8, <2>1 DEF ReceiveMove
<1>9. ASSUME session'.state = "PAUSED"
      PROVE  /\ held' = session'.active
             /\ \/ blocking' \/ ReleaseQueued' \/ ReleaseAway'
                \/ \E g \in Handlers : pc'[g] \in {"requestReplan", "clearSafety"}
  <2>1. CASE /\ UNCHANGED session
             /\ m.kind = "safety_event" /\ m.event \notin PauseEvents /\ Matches(session, m.tid)
                  => pc'[h] \in {"requestReplan", "clearSafety"}
    <3>1. held = session.active /\ session.active # NoTid /\ (blocking \/ ReleaseQueued \/ ReleaseAway)
      BY <1>8, <1>9, <2>1 DEF PauseInv, SessionCoherent
    <3>2. Releases(m, held) => pc'[h] \in {"requestReplan", "clearSafety"}
      BY <2>1, <3>1 DEF Releases, Matches
    <3>3. ReleaseAway => ReleaseAway' \/ pc'[h] \in {"requestReplan", "clearSafety"}
      BY <1>2, <1>7, <3>2 DEF ReleaseAway
    <3> QED BY <1>3, <1>6, <2>1, <3>1, <3>3
  <2>2. CASE /\ m.kind = "safety_event" /\ m.event \in PauseEvents
             /\ session' = Paused(session, m.tid, TRUE)
    <3>1. CASE CanPause(session, m.tid)
      <4>1. m.tid # NoTid /\ m.tid = session.active /\ session'.active = session.active
        <5>1. m.tid # NoTid
          BY <1>1, <2>2 DEF VehicleLines
        <5> QED BY <2>2, <3>1, <5>1 DEF CanPause, Matches, Paused
      <4>2. 1 \in DOMAIN Away /\ m.tid <= held
        BY <1>2, <2>2 DEF CalmInv
      <4>3. held <= session.active /\ session.active \in Nat /\ held \in Nat
        BY <4>1 DEF CalmInv, SystemInv, Typed, TypeInv, TypeOK, Session, SystemTypeOK, VehicleTypeOK
      <4>4. held = session.active
        BY <4>1, <4>2, <4>3
      <4>5. Pauses(Away[1], held)
        BY <1>2, <2>2, <4>1, <4>4 DEF Pauses
      <4>6. blocking \/ ReleaseQueued \/ \E j \in DOMAIN Away : 1 < j /\ Releases(Away[j], held)
        BY <4>2, <4>5 DEF PauseInv
      <4> QED BY <1>3, <1>6, <1>7, <4>1, <4>4, <4>6
    <3>2. CASE ~CanPause(session, m.tid)
      <4>1. session' = session
        BY <2>2, <3>2 DEF Paused
      <4>2. held = session.active /\ (blocking \/ ReleaseQueued \/ ReleaseAway)
        BY <1>8, <1>9, <4>1 DEF PauseInv
      <4>3. ~Releases(m, held)
        BY <2>2 DEF Releases
      <4> QED BY <1>2, <1>3, <1>6, <1>7, <4>1, <4>2, <4>3 DEF ReleaseAway
    <3> QED BY <3>1, <3>2
  <2> QED BY <1>1, <2>1, <2>2 DEF ReceiveMove
<1> QED BY <1>4, <1>5, <1>9 DEF PauseInv

\* A handler's own step: the session is paused by no such step, and one that ends a
\* pause ends it.
StepMove(h) ==
    /\ pc[h] # "off" /\ \A g \in Handlers \ {h} : pc'[g] = pc[g]
    /\ session'.state = "PAUSED" =>
         /\ session.state = "PAUSED" /\ session'.active = session.active
         /\ pc[h] \notin {"requestReplan", "clearSafety"}
    /\ AnnounceTrajectory(h) \/ session'.active \in {session.active, NoTid}

LEMMA StepPauses ==
    ASSUME TypeInv, NEW h \in Handlers, Step(h)
    PROVE  StepMove(h)
<1>1. DOMAIN pc = Handlers /\ session \in Session
  BY DEF TypeInv, TypeOK
<1>2. pc[h] # "off" /\ \A g \in Handlers \ {h} : pc'[g] = pc[g]
  <2> USE <1>1 DEF Silently, AckThen, Send, Proceed, At
  <2>1. CASE Ack(h) \/ SetWaiting(h) \/ InputChanged(h) \/ AnnounceTrajectory(h)
    BY <2>1 DEF Ack, SetWaiting, InputChanged, AnnounceTrajectory
  <2>2. CASE TakeSnapshot(h) \/ BuildTrajectory(h) \/ Search(h)
    BY <2>2 DEF TakeSnapshot, BuildTrajectory, Search
  <2> QED BY <2>1, <2>2
       DEF Step, PoseStart, PoseCheck, PoseParking, ParkStart, ParkCheck, ParkInvalid, ParkState,
           StartNewSession, RequestReplan, ClearSafety, BeginPlanning, AcquirePlanner,
           VerifyGenerations, RecheckFreshness
<1>3. \/ UNCHANGED session /\ pc[h] \notin {"requestReplan", "clearSafety"}
      \/ /\ session' \in {Started(session), NewSession(session), TargetInvalid(session),
                          Waiting(session), StartPlanning(session), Replan(session)}
         /\ pc[h] \notin {"requestReplan", "clearSafety"}
      \/ session' \in {Replan(session), SafetyCleared(session)}
      \/ AnnounceTrajectory(h)
  BY DEF Step, PoseStart, PoseCheck, PoseParking, ParkStart, ParkCheck, ParkInvalid, ParkState,
         StartNewSession, RequestReplan, ClearSafety, Ack, TakeSnapshot, SetWaiting,
         BeginPlanning, AcquirePlanner, Search, VerifyGenerations, InputChanged,
         RecheckFreshness, BuildTrajectory, At, shared
<1>4. CASE AnnounceTrajectory(h)
  BY <1>2, <1>4 DEF StepMove, AnnounceTrajectory, TrajectoryReady
<1>5. CASE UNCHANGED session /\ pc[h] \notin {"requestReplan", "clearSafety"}
  BY <1>2, <1>5 DEF StepMove
<1>6. CASE session' \in {Replan(session), SafetyCleared(session)}
  BY <1>1, <1>2, <1>6 DEF StepMove, Replan, SafetyCleared, CanClearSafety, InitSession, Session
<1>7. CASE /\ session' \in {Started(session), NewSession(session), TargetInvalid(session),
                            Waiting(session), StartPlanning(session), Replan(session)}
           /\ pc[h] \notin {"requestReplan", "clearSafety"}
  BY <1>1, <1>2, <1>7 DEF StepMove, Started, NewSession, TargetInvalid, InvalidTargetReplans,
     Waiting, StartPlanning, Replan, InitSession, Session
<1> QED BY <1>3, <1>4, <1>5, <1>6, <1>7

\* What a handler's own step may send the vehicle: a trajectory only by announcing it.
LEMMA StepSends ==
    ASSUME SystemInv, NEW h \in Handlers, ServerSteps(h)
    PROVE  /\ Ids(toVehicle') \subseteq Ids(toVehicle) \cup {job[h].tid}
           /\ ~AnnounceTrajectory(h) => Ids(toVehicle') \subseteq Ids(toVehicle)
<1>1. toVehicle \in Seq(Replies) /\ TypeInv /\ Step(h)
  BY DEF ServerSteps, SystemInv, Typed, SystemTypeOK
<1>2. CASE wire' = {}
  BY <1>2 DEF ServerSteps
<1>3. ASSUME NEW m \in Replies, wire' = {[to |-> h, msg |-> m]},
             m.kind = "trajectory" => AnnounceTrajectory(h) /\ m.tid = job[h].tid
      PROVE  /\ Ids(toVehicle') \subseteq Ids(toVehicle) \cup {job[h].tid}
             /\ ~AnnounceTrajectory(h) => Ids(toVehicle') \subseteq Ids(toVehicle)
  <2>1. wire' # {} /\ \A w \in wire' : w.msg = m
    BY <1>3
  <2>2. \E w \in wire' : toVehicle' = Append(toVehicle, w.msg)
    BY <2>1, Zenon DEF ServerSteps
  <2>3. toVehicle' = Append(toVehicle, m)
    BY <2>1, <2>2
  <2>4. \A i \in DOMAIN toVehicle' :
          (i \in DOMAIN toVehicle /\ toVehicle'[i] = toVehicle[i]) \/ toVehicle'[i] = m
    BY <1>1, <2>3, AppendedIs
  <2> QED BY <1>3, <2>4 DEF Ids
<1> QED BY <1>1, <1>2, <1>3, StepWrites

LEMMA StepsStayCalm ==
    ASSUME SystemInv, CalmInv, NEW h \in Handlers, ServerSteps(h)
    PROVE  CalmInv'
<1>1. Step(h) /\ UNCHANGED <<vehicle, link, toServer, serving, orphaned>> /\ TypeInv
  BY DEF ServerSteps, SystemInv, Typed
<1>2. StepMove(h) /\ up' = up
  BY <1>1, StepPauses, StepWrites
<1>3. up[h] /\ link = "up" /\ \A g \in Handlers : pc'[g] # "off" => up'[g]
  BY <1>2, SoleHandler DEF StepMove, CalmInv
<1>4. Away' = Away /\ UNCHANGED <<held, events, rx>>
  BY <1>1 DEF Away, vehicle
<1>5. ASSUME session'.active # NoTid
      PROVE  /\ held' <= session'.active
             /\ \A t \in Ids(rx') \cup Ids(toVehicle') : t <= session'.active
  <2>1. CASE AnnounceTrajectory(h)
    <3>1. /\ Announcing(h) /\ session'.active = job[h].tid
      BY <1>1, <2>1, Announcement
    <3>2. held < job[h].tid /\ \A t \in Ids(rx) \cup Ids(toVehicle) : t < job[h].tid
      BY <1>3, <3>1 DEF SystemInv, InOrder
    <3>3. /\ held \in Nat /\ job[h].tid \in Nat
          /\ \A t \in Ids(rx) \cup Ids(toVehicle) : t \in Nat
      <4>1. rx \in Seq(Replies) /\ toVehicle \in Seq(Replies)
        BY DEF SystemInv, Typed, SystemTypeOK
      <4>2. \A t \in Ids(rx) \cup Ids(toVehicle) : t \in Nat
        BY <4>1 DEF Ids, Replies
      <4> QED BY <4>2 DEF SystemInv, Typed, SystemTypeOK, VehicleTypeOK, TypeInv, TypeOK, Job
    <3>4. Ids(toVehicle') \subseteq Ids(toVehicle) \cup {job[h].tid}
      BY <1>1, StepSends
    <3> QED BY <1>4, <3>1, <3>2, <3>3, <3>4
  <2>2. CASE ~AnnounceTrajectory(h)
    <3>1. session'.active = session.active /\ session.active # NoTid
      BY <1>2, <1>5, <2>2 DEF StepMove
    <3>2. Ids(toVehicle') \subseteq Ids(toVehicle)
      BY <1>1, <2>2, StepSends
    <3> QED BY <1>4, <3>1, <3>2 DEF CalmInv
  <2> QED BY <2>1, <2>2
<1> QED BY <1>1, <1>3, <1>4, <1>5 DEF CalmInv

LEMMA StepsKeepPauses ==
    ASSUME SystemInv, CalmInv, PauseInv, NEW h \in Handlers, ServerSteps(h)
    PROVE  PauseInv'
<1>1. Step(h) /\ UNCHANGED <<vehicle, toServer>> /\ TypeInv
  BY DEF ServerSteps, SystemInv, Typed
<1>2. StepMove(h)
  BY <1>1, StepPauses
<1>3. Away' = Away /\ UNCHANGED <<held, events, blocking>>
  BY <1>1 DEF Away, vehicle
<1>4. (ReleaseQueued' = ReleaseQueued) /\ (ReleaseAway' = ReleaseAway)
  BY <1>3 DEF ReleaseQueued, ReleaseAway
<1>5. ASSUME session'.state = "PAUSED"
      PROVE  /\ held' = session'.active
             /\ \/ blocking' \/ ReleaseQueued' \/ ReleaseAway'
                \/ \E g \in Handlers : pc'[g] \in {"requestReplan", "clearSafety"}
  <2>1. /\ held = session.active
        /\ \/ blocking \/ ReleaseQueued \/ ReleaseAway
           \/ \E g \in Handlers : pc[g] \in {"requestReplan", "clearSafety"}
    BY <1>2, <1>5 DEF PauseInv, StepMove
  <2> QED BY <1>2, <1>3, <1>4, <1>5, <2>1 DEF StepMove
<1> QED BY <1>3, <1>4, <1>5 DEF PauseInv

LEMMA ConnectStaysCalm ==
    ASSUME SystemInv, CalmInv, NEW h \in Handlers, VehicleConnects(h)
    PROVE  CalmInv'
<1>1. /\ link = "none" /\ link' = "up" /\ toServer' = <<>> /\ toVehicle' = <<>>
      /\ UNCHANGED <<tx, rx, events, held, session>>
      /\ orphaned' = [orphaned EXCEPT ![h] = <<>>] /\ up' = [up EXCEPT ![h] = TRUE]
      /\ pc' = [pc EXCEPT ![h] = "idle"]
  BY DEF VehicleConnects, ServiceConnect, Connect, Proceed, shared
<1>2. Away' = Away
  BY <1>1 DEF Away, CalmInv
<1>3. DOMAIN pc = Handlers /\ DOMAIN up = Handlers /\ DOMAIN orphaned = Handlers
  BY DEF SystemInv, Typed, TypeInv, TypeOK
<1>4. Ids(toVehicle') = {}
  BY <1>1 DEF Ids
<1> QED BY <1>1, <1>2, <1>3, <1>4 DEF CalmInv

LEMMA ConnectKeepsPauses ==
    ASSUME SystemInv, CalmInv, PauseInv, NEW h \in Handlers, VehicleConnects(h)
    PROVE  PauseInv'
<1>1. /\ toServer' = <<>> /\ link = "none" /\ UNCHANGED <<tx, events, held, blocking, session>>
      /\ pc' = [pc EXCEPT ![h] = "idle"] /\ pc[h] = "off"
  BY DEF VehicleConnects, ServiceConnect, Connect, Proceed, shared, At
<1>2. Away' = Away
  BY <1>1 DEF Away, CalmInv
<1>3. DOMAIN pc = Handlers
  BY DEF SystemInv, Typed, TypeInv, TypeOK
<1>4. (ReleaseQueued' = ReleaseQueued) /\ (ReleaseAway' = ReleaseAway)
  BY <1>1, <1>2 DEF ReleaseQueued, ReleaseAway
<1>5. \A g \in Handlers : pc[g] \in {"requestReplan", "clearSafety"} => pc'[g] = pc[g]
  BY <1>1, <1>3
<1> QED BY <1>1, <1>2, <1>4, <1>5 DEF PauseInv

-----------------------------------------------------------------------------
\* The theorem.

LEMMA CalmStep ==
    ASSUME SystemInv, SessionCoherent, CalmInv, PauseInv, [Calm(Reliable)]_systemVars
    PROVE  CalmInv' /\ PauseInv'
<1>1. CASE UNCHANGED systemVars
  BY <1>1 DEF systemVars, vars, vehicle, socket, CalmInv, PauseInv, Away, ReleaseQueued, ReleaseAway
<1>2. ASSUME NEW h \in Handlers, ServerReads(h) PROVE CalmInv' /\ PauseInv'
  BY <1>2, ReadsStayCalm, ReadsKeepPauses
<1>3. ASSUME NEW h \in Handlers, ServerSteps(h) PROVE CalmInv' /\ PauseInv'
  BY <1>3, StepsStayCalm, StepsKeepPauses
<1>4. ASSUME NEW h \in Handlers, VehicleConnects(h) PROVE CalmInv' /\ PauseInv'
  BY <1>4, ConnectStaysCalm, ConnectKeepsPauses
<1>5. ASSUME NEW h \in Handlers, ServerEnds(h) PROVE FALSE
  BY <1>5, SoleHandler DEF ServerEnds, EndOfFile, At
<1>6. CASE VehicleTicks /\ Len(events') < MaxEvents
  BY <1>6, TicksStayCalm, TicksKeepPauses
<1> QED BY <1>1, <1>2, <1>3, <1>4, <1>5, <1>6 DEF Calm, Reliable

\* With a lasting connection, a paused session has, once nothing is under way, a
\* vehicle that is still going to send the SAFETY_CLEARED it waits for.
THEOREM NoOrphanPauseAlways == CalmSpec => []NoOrphanPause
<1>1. SystemInit => CalmInv /\ PauseInv
  <2> SUFFICES ASSUME SystemInit PROVE CalmInv /\ PauseInv
    OBVIOUS
  <2>1. /\ link = "none" /\ toServer = <<>> /\ tx = <<>> /\ events = <<>>
        /\ session.active = NoTid /\ session.state = "IDLE" /\ MaxEvents \in Nat \ {0}
        /\ \A h \in Handlers : pc[h] = "off" /\ orphaned[h] = <<>>
    BY VehicleAssumption DEF SystemInit, VehicleInit, Init, InitSession
  <2>2. Away = <<>> /\ Len(events) = 0
    BY <2>1 DEF Away
  <2> QED BY <2>1, <2>2 DEF CalmInv, PauseInv
<1>2. CalmInv /\ PauseInv /\ SystemInv /\ SessionCoherent /\ [Calm(Reliable)]_systemVars
        => CalmInv' /\ PauseInv'
  BY CalmStep
<1>3. PauseInv => NoOrphanPause
  <2> SUFFICES ASSUME PauseInv, Quiet, session.state = "PAUSED" PROVE blocking
    BY DEF NoOrphanPause
  <2>1. Away = <<>> /\ events = <<>> /\ \A h \in Handlers : pc[h] \in {"off", "idle"}
    BY DEF Quiet, Away, AtRest
  <2>2. ~ReleaseQueued /\ ~ReleaseAway
    BY <2>1 DEF ReleaseQueued, ReleaseAway
  <2> QED BY <2>1, <2>2 DEF PauseInv
<1>4. CalmSpec => []SystemInv /\ []SessionCoherent
  BY SystemCorrect, ServerSafeInSystem, CalmIsLossy, PTL
<1> QED BY <1>1, <1>2, <1>3, <1>4, PTL DEF CalmSpec
=============================================================================
