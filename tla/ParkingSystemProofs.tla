------------------------- MODULE ParkingSystemProofs -------------------------
(***************************************************************************)
(* Theorems about the server and the vehicle together, for any number of   *)
(* connections, any queues and any losses: the types of everything that is *)
(* under way, and the order in which the vehicle comes to hold             *)
(* trajectories.  The variable stopped of ParkingServerHistory, the memory *)
(* of trajectories that were stopped, only matters at the end.             *)
(***************************************************************************)
EXTENDS ParkingSystem, ParkingSafetyProofs

SystemNext == Reliable \/ NetworkBreaks

-----------------------------------------------------------------------------
\* Parts of sequences.

LEMMA RestIs ==
    ASSUME NEW S, NEW s \in Seq(S), NEW n \in 0 .. Len(s)
    PROVE  /\ Rest(s, n) \in Seq(S) /\ Len(Rest(s, n)) = Len(s) - n
           /\ \A i \in 1 .. (Len(s) - n) : Rest(s, n)[i] = s[i + n]
BY DEF Rest

LEMMA FrontIs ==
    ASSUME NEW S, NEW s \in Seq(S), NEW n \in 0 .. Len(s)
    PROVE  /\ Front(s, n) \in Seq(S) /\ Len(Front(s, n)) = n
           /\ \A i \in 1 .. n : Front(s, n)[i] = s[i]
BY DEF Front

LEMMA FromTrajectoryIs ==
    ASSUME NEW S, NEW s \in Seq(S)
    PROVE  /\ \E n \in 0 .. Len(s) : FromTrajectory(s) = Rest(s, n)
           /\ FromTrajectory(s) # <<>> => Decoded(Head(FromTrajectory(s)))
<1> DEFINE NextAt(i) == Decoded(s[i]) /\ \A j \in 1 .. (i - 1) : ~Decoded(s[j])
           next == {i \in DOMAIN s : NextAt(i)}
           first == CHOOSE i \in next : TRUE
<1>1. CASE next = {}
  <2>1. FromTrajectory(s) = <<>>
    BY <1>1 DEF FromTrajectory
  <2>2. Rest(s, Len(s)) = <<>>
    BY DEF Rest
  <2> QED BY <2>1, <2>2
<1>2. CASE next # {}
  <2>1. first \in next /\ first \in 1 .. Len(s)
    BY <1>2
  <2>2. FromTrajectory(s) = Rest(s, first - 1)
    BY <1>2 DEF FromTrajectory
  <2>3. Decoded(s[first])
    BY <2>1
  <2> HIDE DEF first
  <2> DEFINE n == first - 1
  <2>4. n \in 0 .. Len(s) /\ 1 \in 1 .. (Len(s) - n) /\ 1 + n = first
    BY <2>1
  <2>5. Rest(s, n) \in Seq(S) /\ Len(Rest(s, n)) >= 1 /\ Rest(s, n)[1] = s[first]
    <3> HIDE DEF n
    <3> QED BY <2>4, RestIs
  <2>6. Head(Rest(s, first - 1)) = s[first]
    BY <2>5
  <2> QED BY <2>2, <2>3, <2>4, <2>6
<1> QED BY <1>1, <1>2

\* The trajectories among some lines.
Ids(lines) == {lines[i].tid : i \in {j \in DOMAIN lines : lines[j].kind = "trajectory"}}

Rising(lines) ==
    \A i, j \in DOMAIN lines :
        i < j /\ lines[i].kind = "trajectory" /\ lines[j].kind = "trajectory"
          => lines[i].tid < lines[j].tid

LEMMA RestIds ==
    ASSUME NEW S, NEW s \in Seq(S), NEW n \in 0 .. Len(s)
    PROVE  Ids(Rest(s, n)) \subseteq Ids(s) /\ (Rising(s) => Rising(Rest(s, n)))
<1> DEFINE r == Rest(s, n)
<1>1. r \in Seq(S) /\ Len(r) = Len(s) - n /\ \A i \in 1 .. (Len(s) - n) : r[i] = s[i + n]
  BY RestIs
<1> HIDE DEF r
<1>2. \A i \in DOMAIN r : i + n \in DOMAIN s /\ r[i] = s[i + n] /\ i \in Nat
  BY <1>1
<1>3. Ids(r) \subseteq Ids(s)
  BY <1>2 DEF Ids
<1>4. Rising(s) => Rising(r)
  BY <1>2 DEF Rising
<1> QED BY <1>3, <1>4 DEF r

LEMMA FrontIds ==
    ASSUME NEW S, NEW s \in Seq(S), NEW n \in 0 .. Len(s)
    PROVE  Ids(Front(s, n)) \subseteq Ids(s) /\ (Rising(s) => Rising(Front(s, n)))
<1> DEFINE r == Front(s, n)
<1>1. r \in Seq(S) /\ Len(r) = n /\ \A i \in 1 .. n : r[i] = s[i]
  BY FrontIs
<1> HIDE DEF r
<1>2. \A i \in DOMAIN r : i \in DOMAIN s /\ r[i] = s[i]
  BY <1>1
<1> QED BY <1>2 DEF Ids, Rising, r

LEMMA JoinedIds ==
    ASSUME NEW S, NEW s \in Seq(S), NEW t \in Seq(S)
    PROVE  /\ Ids(s \o t) = Ids(s) \cup Ids(t)
           /\ Rising(s) /\ Rising(t) /\ (\A a \in Ids(s), b \in Ids(t) : a < b)
                => Rising(s \o t)
<1> DEFINE r == s \o t
<1>1. /\ r \in Seq(S) /\ Len(r) = Len(s) + Len(t) /\ Len(s) \in Nat /\ Len(t) \in Nat
      /\ DOMAIN s = 1 .. Len(s) /\ DOMAIN t = 1 .. Len(t) /\ DOMAIN r = 1 .. Len(r)
  OBVIOUS
<1>2. \A i \in DOMAIN s : r[i] = s[i]
  OBVIOUS
<1>3. \A i \in DOMAIN t : i + Len(s) \in DOMAIN r /\ r[i + Len(s)] = t[i]
  OBVIOUS
<1> HIDE DEF r
<1>4. \A i \in DOMAIN r : i \in DOMAIN s \/ (i - Len(s) \in DOMAIN t /\ r[i] = t[i - Len(s)])
  <2> SUFFICES ASSUME NEW i \in DOMAIN r, i \notin DOMAIN s
               PROVE  i - Len(s) \in DOMAIN t /\ r[i] = t[i - Len(s)]
    OBVIOUS
  <2>1. i - Len(s) \in DOMAIN t /\ (i - Len(s)) + Len(s) = i
    BY <1>1
  <2> QED BY <1>3, <2>1
<1>5. Ids(r) \subseteq Ids(s) \cup Ids(t)
  BY <1>2, <1>4 DEF Ids
<1>6. Ids(s) \subseteq Ids(r)
  BY <1>1, <1>2 DEF Ids
<1>7. Ids(t) \subseteq Ids(r)
  BY <1>3 DEF Ids
<1>8. ASSUME Rising(s), Rising(t), \A a \in Ids(s), b \in Ids(t) : a < b
      PROVE  Rising(r)
  <2> SUFFICES ASSUME NEW i \in DOMAIN r, NEW j \in DOMAIN r, i < j,
                      r[i].kind = "trajectory", r[j].kind = "trajectory"
               PROVE  r[i].tid < r[j].tid
    BY DEF Rising
  <2>1. CASE i \in DOMAIN s /\ j \in DOMAIN s
    BY <1>2, <1>8, <2>1 DEF Rising
  <2>2. CASE i \in DOMAIN s /\ j \notin DOMAIN s
    <3>1. r[i].tid \in Ids(s) /\ r[j].tid \in Ids(t)
      BY <1>2, <1>4, <2>2 DEF Ids
    <3> QED BY <1>8, <3>1
  <2>3. CASE i \notin DOMAIN s
    <3>1. /\ i - Len(s) \in DOMAIN t /\ j - Len(s) \in DOMAIN t
          /\ r[i] = t[i - Len(s)] /\ r[j] = t[j - Len(s)]
      BY <1>1, <1>4, <2>3
    <3>2. i - Len(s) < j - Len(s)
      BY <1>1
    <3> QED BY <1>8, <3>1, <3>2 DEF Rising
  <2> QED BY <2>1, <2>2, <2>3
<1> QED BY <1>5, <1>6, <1>7, <1>8 DEF r

-----------------------------------------------------------------------------
\* The invariant.  A handler's connection works exactly while it is the one the
\* vehicle uses, so nobody else writes to the vehicle.
Typed ==
    /\ TypeInv /\ IdsUnique /\ SystemTypeOK
    /\ toServer \in Seq(Messages) /\ orphaned \in [Handlers -> Seq(Messages)]
    /\ \A h \in Handlers : up[h] <=> h = serving /\ link = "up"
    /\ \A i \in DOMAIN events : events[i].tid \in Tids
    /\ rx # <<>> => Decoded(Head(rx))
    /\ step = "messages" => rx # <<>>

\* Trajectories reach the vehicle in the order of their ids, and what its handler
\* has drawn and not announced comes after all of them.
InOrder ==
    /\ Rising(rx) /\ Rising(toVehicle)
    /\ held <= issued
    /\ \A t \in Ids(rx) : held < t /\ t <= issued
    /\ \A t \in Ids(toVehicle) : held < t /\ t <= issued /\ \A s \in Ids(rx) : s < t
    /\ \A h \in Handlers : up[h] /\ Announcing(h) =>
         held < job[h].tid /\ \A t \in Ids(rx) \cup Ids(toVehicle) : t < job[h].tid

SystemInv == Typed /\ InOrder

-----------------------------------------------------------------------------
\* The vehicle's socket.

\* What any send may do to the connection.
SocketMove ==
    /\ tx' \in Seq(Messages) /\ Len(tx') <= MaxTx
    /\ toServer' \in Seq(Messages) /\ Len(toServer') <= SockCap
    /\ \/ link' = link /\ toVehicle' = toVehicle
       \/ link = "broken" /\ link' = "none" /\ toServer' = <<>> /\ toVehicle' = <<>>

LEMMA SentIs ==
    ASSUME Typed, NEW q \in Seq(Messages), Sent(q)
    PROVE  /\ tx' \in Seq(Messages) /\ Len(tx') <= Len(q)
           /\ toServer' \in Seq(Messages) /\ Len(toServer') <= SockCap
           /\ link = "up" => toServer' \o tx' = toServer \o q
<1>1. /\ toServer \in Seq(Messages) /\ Len(toServer) <= SockCap /\ SockCap \in Nat
      /\ Len(toServer) \in Nat /\ Len(q) \in Nat
  BY VehicleAssumption DEF Typed, SystemTypeOK, VehicleTypeOK
<1>2. PICK n \in 0 .. Len(q) :
        /\ tx' = Rest(q, n)
        /\ \/ /\ link = "up" /\ n = Smaller(Len(q), SockCap - Len(toServer))
              /\ toServer' = toServer \o Front(q, n)
           \/ link = "broken" /\ UNCHANGED toServer
  BY DEF Sent
<1>3. tx' \in Seq(Messages) /\ Len(tx') = Len(q) - n /\ \A i \in 1 .. (Len(q) - n) : tx'[i] = q[i + n]
  BY <1>2, RestIs
<1>4. CASE link = "broken" /\ UNCHANGED toServer
  BY <1>1, <1>2, <1>3, <1>4
<1>5. CASE /\ link = "up" /\ n = Smaller(Len(q), SockCap - Len(toServer))
           /\ toServer' = toServer \o Front(q, n)
  <2> DEFINE f == Front(q, n)
  <2>1. f \in Seq(Messages) /\ Len(f) = n /\ \A i \in 1 .. n : f[i] = q[i]
    BY <1>2, FrontIs
  <2> HIDE DEF f
  <2>2. n <= SockCap - Len(toServer)
    BY <1>1, <1>5 DEF Smaller
  <2>3. toServer' \in Seq(Messages) /\ Len(toServer') = Len(toServer) + n
    BY <1>1, <1>5, <2>1 DEF f
  <2>4. toServer' \o tx' = toServer \o q
    <3> DEFINE a == toServer' \o tx'  b == toServer \o q
    <3>1. a \in Seq(Messages) /\ b \in Seq(Messages) /\ Len(a) = Len(b)
      BY <1>1, <1>2, <1>3, <2>3
    <3>2. ASSUME NEW i \in 1 .. Len(b) PROVE a[i] = b[i]
      <4>1. CASE i <= Len(toServer)
        BY <1>1, <1>3, <1>5, <2>1, <2>3, <4>1 DEF f
      <4>2. CASE Len(toServer) < i /\ i <= Len(toServer) + n
        <5>1. a[i] = f[i - Len(toServer)]
          BY <1>1, <1>3, <1>5, <2>1, <2>3, <4>2 DEF f
        <5>2. b[i] = q[i - Len(toServer)]
          BY <1>1, <4>2, <3>2
        <5> QED BY <1>1, <1>2, <2>1, <4>2, <5>1, <5>2
      <4>3. CASE Len(toServer) + n < i
        <5>1. a[i] = tx'[i - (Len(toServer) + n)]
          BY <1>1, <1>2, <1>3, <2>3, <3>1, <4>3
        <5>2. b[i] = q[i - Len(toServer)]
          BY <1>1, <1>2, <4>3, <3>2
        <5>3. i - (Len(toServer) + n) \in 1 .. (Len(q) - n)
          BY <1>1, <1>2, <4>3
        <5>4. tx'[i - (Len(toServer) + n)] = q[(i - (Len(toServer) + n)) + n]
          BY <1>3, <5>3
        <5>5. (i - (Len(toServer) + n)) + n = i - Len(toServer)
          BY <1>1, <1>2
        <5> QED BY <5>1, <5>2, <5>4, <5>5
      <4> HIDE DEF a, b
      <4>4. i \in Nat /\ n \in Nat /\ Len(toServer) \in Nat
        BY <1>1, <1>2, <3>1
      <4> QED BY <4>1, <4>2, <4>3, <4>4
    <3> HIDE DEF a, b
    <3>3. a = b
      BY <3>1, <3>2
    <3> QED BY <3>3 DEF a, b
  <2> QED BY <1>1, <1>2, <1>3, <2>2, <2>3, <2>4
<1> QED BY <1>2, <1>4, <1>5

LEMMA FlushIs ==
    ASSUME Typed, NEW q \in Seq(Messages), Len(q) <= MaxTx, FlushTx(q)
    PROVE  SocketMove /\ (link = "up" => toServer' \o tx' = toServer \o q)
<1>0. MaxTx \in Nat /\ SockCap \in Nat /\ Len(q) \in Nat
  BY VehicleAssumption
<1>1. CASE Sent(q) /\ UNCHANGED <<link, toVehicle>>
  BY <1>0, <1>1, SentIs DEF SocketMove
<1>2. CASE link = "broken" /\ MarkDisconnected
  BY <1>0, <1>2 DEF SocketMove, MarkDisconnected
<1> QED BY <1>1, <1>2 DEF FlushTx

LEMMA QueueIs ==
    ASSUME Typed, NEW line \in Messages, CanQueue, QueueLine(line)
    PROVE  SocketMove /\ (link = "up" => toServer' \o tx' = Append(toServer \o tx, line))
<1>1. tx \in Seq(Messages) /\ Len(tx) < MaxTx /\ MaxTx \in Nat /\ toServer \in Seq(Messages)
  BY VehicleAssumption DEF Typed, SystemTypeOK, CanQueue
<1> DEFINE q == Append(tx, line)
<1>2. q \in Seq(Messages) /\ Len(q) <= MaxTx
  BY <1>1
<1>3. toServer \o q = Append(toServer \o tx, line)
  BY <1>1
<1> HIDE DEF q
<1>4. FlushTx(q)
  BY DEF QueueLine, q
<1> QED BY <1>2, <1>3, <1>4, FlushIs

LEMMA TryIs ==
    ASSUME Typed, NEW line \in Messages, Try(line)
    PROVE  /\ SocketMove
           /\ link = "up" => toServer' \o tx' \in {toServer \o tx, Append(toServer \o tx, line)}
<1>1. CASE CanQueue
  BY <1>1, QueueIs DEF Try
<1>2. CASE ~CanQueue
  BY <1>2 DEF Try, socket, SocketMove, Typed, SystemTypeOK, VehicleTypeOK
<1> QED BY <1>1, <1>2

\* What is received keeps the order of what was under way.
LEMMA ReceivedIs ==
    ASSUME Typed, InOrder, rx' = Received
    PROVE  /\ rx' \in Seq(Replies) /\ Len(rx') <= MaxRx
           /\ Ids(rx') \subseteq Ids(rx) \cup Ids(toVehicle) /\ Rising(rx')
           /\ rx' # <<>> => Decoded(Head(rx'))
<1> DEFINE lines == rx \o toVehicle
           newest == IF Len(lines) > MaxRx THEN Rest(lines, Len(lines) - MaxRx) ELSE lines
<1>1. rx \in Seq(Replies) /\ toVehicle \in Seq(Replies) /\ MaxRx \in Nat
  BY VehicleAssumption DEF Typed, SystemTypeOK
<1>2. lines \in Seq(Replies) /\ Len(lines) \in Nat
  BY <1>1
<1>3. Ids(lines) = Ids(rx) \cup Ids(toVehicle) /\ Rising(lines)
  BY <1>1, JoinedIds DEF InOrder
<1>4. rx' = FromTrajectory(newest)
  BY DEF Received
<1> HIDE DEF lines
<1>5. newest \in Seq(Replies) /\ Len(newest) <= MaxRx /\ Ids(newest) \subseteq Ids(lines)
      /\ Rising(newest)
  <2>1. CASE Len(lines) > MaxRx
    <3>1. Len(lines) - MaxRx \in 0 .. Len(lines)
      BY <1>1, <1>2, <2>1
    <3>2. /\ Rest(lines, Len(lines) - MaxRx) \in Seq(Replies)
          /\ Len(Rest(lines, Len(lines) - MaxRx)) = Len(lines) - (Len(lines) - MaxRx)
      BY <1>2, <3>1, RestIs
    <3>3. Ids(Rest(lines, Len(lines) - MaxRx)) \subseteq Ids(lines)
          /\ Rising(Rest(lines, Len(lines) - MaxRx))
      BY <1>2, <1>3, <3>1, RestIds
    <3> QED BY <1>1, <1>2, <2>1, <3>2, <3>3
  <2> QED BY <1>1, <1>2, <1>3, <2>1
<1> HIDE DEF newest
<1>6. PICK n \in 0 .. Len(newest) : rx' = Rest(newest, n)
  BY <1>4, <1>5, FromTrajectoryIs
<1>7. rx' # <<>> => Decoded(Head(rx'))
  BY <1>4, <1>5, FromTrajectoryIs
<1>8. rx' \in Seq(Replies) /\ Len(rx') = Len(newest) - n
  BY <1>5, <1>6, RestIs
<1>9. Ids(rx') \subseteq Ids(newest) /\ Rising(rx')
  BY <1>5, <1>6, RestIds
<1> QED BY <1>1, <1>3, <1>5, <1>7, <1>8, <1>9

-----------------------------------------------------------------------------
\* The server inside the system.

LEMMA ServerMoves ==
    ASSUME Typed, [SystemNext]_systemVars
    PROVE  [Next]_vars \/ (UNCHANGED server /\ wire' = {})
<1>1. ASSUME NEW h \in Handlers, ServerReads(h) PROVE Next
  <2>1. Unread(h) \in Seq(Messages) /\ Unread(h) # <<>>
    BY <1>1 DEF Typed, SystemTypeOK, ServerReads
  <2>2. Head(Unread(h)) \in Messages
    BY <2>1
  <2>3. ASSUME NEW m \in Messages, Receive(h, m) PROVE Next
    <3>1. At(h, "idle")
      BY <2>3 DEF Receive, ReceivePose, ReceiveParking, ReceivePlanRequest, ReceiveStatus,
                  ReceiveReplanStatus, ReceivePauseEvent, ReceiveReplanEvent, ReceiveOther
    <3> QED BY <2>3, <3>1 DEF Next
  <2> QED BY <1>1, <2>2, <2>3 DEF ServerReads
<1>2. ASSUME NEW h \in Handlers, ServerSteps(h) \/ ServerEnds(h) \/ VehicleConnects(h) PROVE Next
  BY <1>2 DEF ServerSteps, ServerEnds, VehicleConnects, Next
<1>3. CASE VehicleTicks
  BY <1>3 DEF VehicleTicks
<1>4. CASE NetworkBreaks
  <2>1. link = "up" /\ Break(serving)
    BY <1>4 DEF NetworkBreaks, BreakLink
  <2>2. serving \in Handlers
    BY <2>1 DEF Typed, SystemTypeOK
  <2> QED BY <2>1, <2>2 DEF Next
<1>5. CASE UNCHANGED systemVars
  BY <1>5 DEF systemVars
<1> QED BY <1>1, <1>2, <1>3, <1>4, <1>5 DEF SystemNext, Reliable

\* What the server guarantees on its own holds here as well.
LEMMA ServerKeeps ==
    ASSUME Typed, [SystemNext]_systemVars
    PROVE  /\ TypeInv' /\ IdsUnique'
           /\ SessionCoherent => SessionCoherent'
           /\ PlanningOwned => PlanningOwned'
<1>1. TypeInv /\ IdsUnique
  BY DEF Typed
<1>2. CASE [Next]_vars
  <2>1. TypeInv' /\ IdsUnique'
    BY <1>1, <1>2, NextType, IdsUniqueStep
  <2>2. SessionCoherent => SessionCoherent'
    BY <1>1, <1>2, CoherentStep
  <2>3. PlanningOwned => PlanningOwned'
    BY <1>1, <1>2, PlanMoves DEF PlanMove, PlanningOwned
  <2> QED BY <2>1, <2>2, <2>3
<1>3. CASE UNCHANGED server /\ wire' = {}
  <2> USE <1>1, <1>3 DEF server, shared
  <2>1. TypeInv'
    BY DEF TypeInv, TypeOK, AnnouncesWell, Announcing, At
  <2>2. IdsUnique'
    BY DEF IdsUnique, Announcing, At
  <2>3. (SessionCoherent => SessionCoherent') /\ (PlanningOwned => PlanningOwned')
    BY DEF SessionCoherent, PlanningOwned, InPlan
  <2> QED BY <2>1, <2>2, <2>3
<1> QED BY <1>2, <1>3, ServerMoves

\* A handler that announces has drawn its id before this step, or just now.
LEMMA DrawnIs ==
    ASSUME Typed, [SystemNext]_systemVars
    PROVE  /\ issued' \in {issued, issued + 1}
           /\ \A g \in Handlers : Announcing(g)' =>
                 \/ Announcing(g) /\ job'[g].tid = job[g].tid
                 \/ issued' = issued + 1 /\ job'[g].tid = issued'
<1>1. TypeInv
  BY DEF Typed
<1>2. CASE [Next]_vars
  <2>1. CASE NoneDrawn
    BY <2>1 DEF NoneDrawn
  <2>2. ASSUME NEW h \in Handlers, AnnounceTrajectory(h)
        PROVE  UNCHANGED issued /\ \A g \in Handlers : Announcing(g)' =>
                 Announcing(g) /\ job'[g].tid = job[g].tid
    BY <1>1, <2>2, Announcement
  <2>3. ASSUME NEW h \in Handlers, Draws(h)
        PROVE  /\ issued' = issued + 1
               /\ \A g \in Handlers : Announcing(g)' =>
                 \/ Announcing(g) /\ job'[g].tid = job[g].tid
                 \/ job'[g].tid = issued'
    BY <2>3 DEF Draws, Announcing, At
  <2> QED BY <1>1, <1>2, <2>1, <2>2, <2>3, IdMoves DEF IdMove
<1>3. CASE UNCHANGED server
  BY <1>3 DEF server, shared, Announcing, At
<1> QED BY <1>2, <1>3, ServerMoves

\* What a handler's own step writes, and on which connection.
LEMMA StepWrites ==
    ASSUME TypeInv, NEW h \in Handlers, Step(h)
    PROVE  /\ up' = up
           /\ \/ wire' = {}
              \/ \E m \in Replies :
                   /\ up[h] /\ wire' = {[to |-> h, msg |-> m]}
                   /\ m.kind = "trajectory" => AnnounceTrajectory(h) /\ m.tid = job[h].tid
<1> USE DEF Send
<1>1. CASE Ack(h)
  BY <1>1 DEF Ack, Replies
<1>2. CASE SetWaiting(h)
  BY <1>2 DEF SetWaiting, Replies
<1>3. CASE InputChanged(h)
  BY <1>3 DEF InputChanged, Replies
<1>4. CASE AnnounceTrajectory(h)
  <2>1. job[h].tid \in Nat \ {NoTid} /\ job[h].pick \in Slots /\ job[h].seq \in BOOLEAN
    BY <1>4 DEF AnnounceTrajectory, TypeInv, TypeOK, AnnouncesWell, Announcing, Job
  <2> DEFINE m == [kind |-> "trajectory", tid |-> job[h].tid, slot |-> job[h].pick,
                   seq |-> job[h].seq]
  <2>2. m \in Replies /\ m.tid = job[h].tid
    BY <2>1 DEF Replies
  <2>3. UNCHANGED up /\ (wire' = {} \/ (up[h] /\ wire' = {[to |-> h, msg |-> m]}))
    BY <1>4 DEF AnnounceTrajectory
  <2> HIDE DEF m
  <2> QED BY <1>4, <2>2, <2>3
<1>5. CASE TakeSnapshot(h)
  BY <1>5 DEF TakeSnapshot, Silently
<1>6. CASE BuildTrajectory(h)
  BY <1>6 DEF BuildTrajectory, Silently
<1> QED BY <1>1, <1>2, <1>3, <1>4, <1>5, <1>6
     DEF Step, Silently, AckThen, PoseStart, PoseCheck, PoseParking, ParkStart, ParkCheck,
         ParkInvalid, ParkState, StartNewSession, RequestReplan, ClearSafety, BeginPlanning,
         AcquirePlanner, Search, VerifyGenerations, RecheckFreshness

-----------------------------------------------------------------------------
\* One step of the vehicle.

\* The vehicle takes trajectories over in their order, or loses them.
Passed ==
    /\ Rising(rx') /\ Rising(toVehicle')
    /\ held' \in {held} \cup Ids(rx)
    /\ Ids(rx') \subseteq Ids(rx) \cup Ids(toVehicle) /\ \A t \in Ids(rx') : held' < t
    /\ Ids(toVehicle') \subseteq Ids(toVehicle)
    /\ \A s \in Ids(rx'), t \in Ids(toVehicle') : s < t

\* What a tick keeps of the invariant, and how it may leave the connection.
TickMove ==
    /\ VehicleTypeOK'
    /\ tx' \in Seq(Messages) /\ toServer' \in Seq(Messages)
    /\ rx' \in Seq(Replies) /\ toVehicle' \in Seq(Replies)
    /\ rx' # <<>> => Decoded(Head(rx'))
    /\ step' = "messages" => rx' # <<>>
    /\ \A i \in DOMAIN events' : events'[i].tid \in Tids
    /\ link' = link \/ (link = "broken" /\ link' = "none")
    /\ Passed

\* Nothing moves between the queues.
LEMMA StillPassed ==
    ASSUME SystemInv, UNCHANGED <<rx, held>>, toVehicle' \in {toVehicle, <<>>}
    PROVE  Passed
<1>1. Ids(<<>>) = {} /\ Rising(<<>>)
  BY DEF Ids, Rising
<1> QED BY <1>1 DEF SystemInv, InOrder, Passed

LEMMA SocketTypes ==
    ASSUME SystemInv, SocketMove
    PROVE  /\ tx' \in Seq(Messages) /\ toServer' \in Seq(Messages) /\ toVehicle' \in Seq(Replies)
           /\ link' = link \/ (link = "broken" /\ link' = "none")
           /\ Len(tx') <= MaxTx /\ Len(toServer') <= SockCap /\ Len(toVehicle') <= SockCap
           /\ link' \in {"none", "up", "broken"} /\ toVehicle' \in {toVehicle, <<>>}
<1>1. SockCap \in Nat
  BY VehicleAssumption
<1> QED BY <1>1 DEF SystemInv, Typed, SystemTypeOK, VehicleTypeOK, SocketMove

LEMMA ServiceMoves ==
    ASSUME SystemInv, ServiceIdle \/ ServiceTraffic PROVE TickMove
<1>1. CASE ServiceIdle
  <2>1. Passed
    BY <1>1, StillPassed DEF ServiceIdle, socket
  <2> QED BY <1>1, <2>1 DEF ServiceIdle, TickMove, SystemInv, Typed, SystemTypeOK, VehicleTypeOK, socket
<1>2. CASE ServiceTraffic
  <2>1. /\ Typed /\ InOrder /\ tx \in Seq(Messages) /\ Len(tx) <= MaxTx /\ Len(tx) \in Nat
        /\ SockCap \in Nat /\ MaxTx \in Nat /\ MaxRx \in Nat
    BY VehicleAssumption DEF SystemInv, Typed, SystemTypeOK, VehicleTypeOK
  <2>2. /\ tx' \in Seq(Messages) /\ Len(tx') <= MaxTx
        /\ toServer' \in Seq(Messages) /\ Len(toServer') <= SockCap
        /\ link' = link \/ (link = "broken" /\ link' = "none")
        /\ toVehicle' = <<>>
    <3>1. CASE Sent(tx) /\ toVehicle' = <<>> /\ UNCHANGED link
      BY <2>1, <3>1, SentIs
    <3>2. CASE link = "broken" /\ MarkDisconnected
      BY <2>1, <3>2 DEF MarkDisconnected
    <3> QED BY <1>2, <3>1, <3>2 DEF ServiceTraffic
  <2>3. rx' = Received \/ UNCHANGED rx
    BY <1>2 DEF ServiceTraffic
  <2>4. /\ rx' \in Seq(Replies) /\ Len(rx') <= MaxRx
        /\ Ids(rx') \subseteq Ids(rx) \cup Ids(toVehicle) /\ Rising(rx')
        /\ rx' # <<>> => Decoded(Head(rx'))
    <3>1. CASE rx' = Received
      BY <2>1, <3>1, ReceivedIs
    <3>2. CASE UNCHANGED rx
      BY <3>2 DEF SystemInv, Typed, InOrder, SystemTypeOK, VehicleTypeOK
    <3> QED BY <2>3, <3>1, <3>2
  <2>5. UNCHANGED <<held, events, reason, blocking>> /\ step' = "flush" /\ connected' \in BOOLEAN
    BY <1>2 DEF ServiceTraffic
  <2>6. Ids(<<>>) = {} /\ Rising(<<>>)
    BY DEF Ids, Rising
  <2>7. Passed
    BY <2>1, <2>2, <2>4, <2>5, <2>6 DEF Passed, InOrder
  <2>8. VehicleTypeOK'
    BY <2>1, <2>2, <2>4, <2>5 DEF VehicleTypeOK, Typed, SystemTypeOK
  <2> QED BY <2>1, <2>2, <2>4, <2>5, <2>7, <2>8 DEF TickMove, Typed
<1> QED BY <1>1, <1>2

LEMMA FlushMoves ==
    ASSUME SystemInv, FlushEvent \/ FlushEnd PROVE TickMove
<1>1. CASE FlushEvent
  <2>1. /\ events # <<>> /\ events \in Seq(Event) /\ Len(events) <= MaxEvents /\ MaxEvents \in Nat
        /\ \A i \in DOMAIN events : events[i].tid \in Tids
    BY <1>1, VehicleAssumption DEF FlushEvent, CanFlush, SystemInv, Typed, SystemTypeOK, VehicleTypeOK
  <2>2. events' = Tail(events) /\ UNCHANGED <<step, connected, rx, held, reason, blocking>>
    BY <1>1 DEF FlushEvent
  <2>3. /\ events' \in Seq(Event) /\ Len(events') <= MaxEvents
        /\ \A i \in DOMAIN events' : events'[i].tid \in Tids
    BY <2>1, <2>2
  <2> DEFINE line == [kind |-> "safety_event", tid |-> Head(events).tid,
                      event |-> Head(events).event, seq |-> FALSE]
  <2>4. line \in Messages
    <3>1. Head(events) \in Event /\ Head(events).tid \in Tids
      <4>1. 1 \in DOMAIN events /\ Head(events) = events[1] /\ events[1] \in Event
        BY <2>1
      <4> QED BY <2>1, <4>1
    <3>2. Head(events).event \in SafetyEvents
      BY <3>1 DEF Event, SafetyEvents, PauseEvents
    <3> QED BY <3>1, <3>2 DEF Messages
  <2>5. CanQueue /\ QueueLine(line)
    BY <1>1 DEF FlushEvent, CanFlush
  <2> HIDE DEF line
  <2>6. SocketMove
    BY <2>4, <2>5, QueueIs DEF SystemInv
  <2>7. Passed
    BY <2>2, <2>6, SocketTypes, StillPassed
  <2> QED BY <2>2, <2>3, <2>6, <2>7, SocketTypes
       DEF TickMove, SystemInv, Typed, SystemTypeOK, VehicleTypeOK
<1>2. CASE FlushEnd
  <2>1. Passed
    BY <1>2, StillPassed DEF FlushEnd, socket
  <2> QED BY <1>2, <2>1 DEF FlushEnd, NextMessageOr, TickMove, SystemInv, Typed, SystemTypeOK,
                            VehicleTypeOK, socket
<1> QED BY <1>1, <1>2

LEMMA SendMoves ==
    ASSUME SystemInv, SendPose \/ SendStatus PROVE TickMove
<1>1. /\ UNCHANGED <<connected, rx, events, held, reason, blocking>>
      /\ step' \in {"status", "control"}
  BY DEF SendPose, SendStatus
<1>2. \/ UNCHANGED <<tx, socket>>
      \/ \E line \in Messages : CanQueue /\ QueueLine(line)
  <2>1. [kind |-> "vehicle_pose"] \in Messages
    BY DEF Messages
  <2>2. \A free \in Reports : [kind |-> "parking_status", free |-> free] \in Messages
    BY SystemAssumption DEF Messages
  <2> QED BY <2>1, <2>2 DEF SendPose, SendStatus
<1>3. CASE UNCHANGED <<tx, socket>>
  <2>1. Passed
    BY <1>1, <1>3, StillPassed DEF socket
  <2> QED BY <1>1, <1>3, <2>1 DEF TickMove, SystemInv, Typed, SystemTypeOK, VehicleTypeOK, socket
<1>4. ASSUME NEW line \in Messages, CanQueue, QueueLine(line) PROVE TickMove
  <2>1. SocketMove
    BY <1>4, QueueIs DEF SystemInv
  <2>2. Passed
    BY <1>1, <2>1, SocketTypes, StillPassed
  <2> QED BY <1>1, <2>1, <2>2, SocketTypes
       DEF TickMove, SystemInv, Typed, SystemTypeOK, VehicleTypeOK
<1> QED BY <1>2, <1>3, <1>4

\* TakeTrajectory: the oldest trajectory received becomes the one held, or is
\* refused; the ones behind it are newer.
LEMMA TakeMoves ==
    ASSUME SystemInv, TakeTrajectory PROVE TickMove
<1>1. /\ rx \in Seq(Replies) /\ rx # <<>> /\ Decoded(Head(rx)) /\ Rising(rx)
      /\ Len(rx) <= MaxRx /\ MaxRx \in Nat /\ held \in Nat /\ issued \in 0 .. MaxTrajectories
      /\ MaxTrajectories \in Nat
  BY VehicleAssumption, ServerAssumption
  DEF TakeTrajectory, SystemInv, Typed, InOrder, SystemTypeOK, TypeOK, VehicleTypeOK
<1> DEFINE t == Head(rx).tid
<1>2. Head(rx) \in Replies /\ 1 \in DOMAIN rx /\ rx[1] = Head(rx) /\ Head(rx).kind = "trajectory"
  BY <1>1 DEF Decoded
<1>3. t \in Nat \ {NoTid}
  BY <1>2 DEF Replies
<1>4. t \in Ids(rx)
  BY <1>2 DEF Ids
<1>5. t \in Tids
  BY <1>1, <1>3, <1>4 DEF SystemInv, InOrder, Tids, NoTid
<1> HIDE DEF t
<1>6. PICK status \in {"RECEIVED", "REJECTED"} :
        /\ held' = IF status = "RECEIVED" THEN t ELSE held
        /\ Try([kind |-> "trajectory_status", tid |-> t, status |-> status, seq |-> TRUE])
  BY DEF TakeTrajectory, t
<1>7. UNCHANGED <<connected, events, reason, blocking>> /\ rx' = FromTrajectory(Tail(rx))
      /\ step' = NextMessageOr(rx')
  BY DEF TakeTrajectory
<1>8. [kind |-> "trajectory_status", tid |-> t, status |-> status, seq |-> TRUE] \in Messages
  BY <1>5 DEF Messages, Statuses
<1>9. SocketMove
  BY <1>6, <1>8, TryIs DEF SystemInv
<1> DEFINE rest == Tail(rx)
<1>10. /\ rest \in Seq(Replies) /\ Len(rest) = Len(rx) - 1
       /\ \A i \in 1 .. (Len(rx) - 1) : rest[i] = rx[i + 1]
  BY <1>1
<1> HIDE DEF rest
<1>11. \A i \in DOMAIN rest : i + 1 \in DOMAIN rx /\ rest[i] = rx[i + 1] /\ i \in Nat /\ 1 < i + 1
  BY <1>1, <1>10
<1>12. Ids(rest) \subseteq Ids(rx)
  BY <1>11 DEF Ids
<1>13. \A s \in Ids(rest) : t < s
  BY <1>1, <1>2, <1>11 DEF Ids, Rising, t
<1>14. Rising(rest)
  BY <1>1, <1>11 DEF Rising
<1>15. PICK n \in 0 .. Len(rest) : rx' = Rest(rest, n)
  BY <1>7, <1>10, FromTrajectoryIs DEF rest
<1>16. rx' # <<>> => Decoded(Head(rx'))
  BY <1>7, <1>10, FromTrajectoryIs DEF rest
<1>17. rx' \in Seq(Replies) /\ Len(rx') <= Len(rx)
  BY <1>1, <1>10, <1>15, RestIs
<1>18. Ids(rx') \subseteq Ids(rest) /\ Rising(rx')
  BY <1>10, <1>14, <1>15, RestIds
<1>19. Passed
  <2>1. toVehicle' \in {toVehicle, <<>>}
    BY <1>9, SocketTypes
  <2>2. Ids(<<>>) = {} /\ Rising(<<>>)
    BY DEF Ids, Rising
  <2>3. held' \in {held} \cup Ids(rx) /\ \A s \in Ids(rx') : held' < s
    BY <1>4, <1>6, <1>12, <1>13, <1>18 DEF SystemInv, InOrder
  <2> QED BY <1>12, <1>18, <2>1, <2>2, <2>3 DEF SystemInv, InOrder, Passed
<1>20. VehicleTypeOK'
  BY <1>1, <1>3, <1>6, <1>7, <1>9, <1>17, SocketTypes
  DEF NextMessageOr, SystemInv, Typed, SystemTypeOK, VehicleTypeOK
<1> QED BY <1>7, <1>9, <1>16, <1>17, <1>19, <1>20, SocketTypes
    DEF NextMessageOr, TickMove, SystemInv, Typed

LEMMA ControlMoves ==
    ASSUME SystemInv, Control PROVE TickMove
<1>1. /\ held \in Nat /\ issued \in 0 .. MaxTrajectories /\ MaxTrajectories \in Nat
      /\ events \in Seq(Event) /\ Len(events) <= MaxEvents /\ MaxEvents \in Nat
      /\ held <= issued /\ \A i \in DOMAIN events : events[i].tid \in Tids
  BY VehicleAssumption, ServerAssumption
  DEF SystemInv, Typed, InOrder, SystemTypeOK, TypeOK, VehicleTypeOK
<1>2. UNCHANGED <<connected, tx, rx, held, socket>> /\ step' = "sync"
  BY DEF Control
<1>3. reason' \in Reasons /\ blocking' \in BOOLEAN
  <2>1. GateReasons \subseteq Reasons
    BY VehicleAssumption DEF GateReasons, Reasons, TrajectoryFaults
  <2>2. \A r : RequiresClear(r) \in BOOLEAN
    BY DEF RequiresClear
  <2>3. PICK r \in GateReasons :
          reason' = r /\ (blocking' = blocking \/ blocking' = RequiresClear(r) \/ blocking' = FALSE)
    BY Zenon DEF Control
  <2>4. blocking \in BOOLEAN
    BY DEF SystemInv, Typed, SystemTypeOK, VehicleTypeOK
  <2>5. blocking' \in BOOLEAN
    BY Zenon, <2>2, <2>3, <2>4
  <2> QED BY <2>1, <2>3, <2>5
<1>4. \/ UNCHANGED events
      \/ \E e \in Event : e.tid = held /\ held \in Tids /\ events' = Queued(e)
  <2>1. CASE held # 0
    <3>1. held \in Tids /\ held \in Nat \ {0}
      BY <1>1, <2>1 DEF Tids
    <3>2. /\ [event |-> "SAFETY_CLEARED", tid |-> held] \in Event
          /\ \A r \in Reasons : [event |-> EventOf(r), tid |-> held] \in Event
      BY <3>1 DEF Event, EventOf
    <3>3. GateReasons \subseteq Reasons
      BY VehicleAssumption DEF GateReasons, Reasons, TrajectoryFaults
    <3>4. \/ UNCHANGED events
          \/ events' = Queued([event |-> "SAFETY_CLEARED", tid |-> held])
          \/ \E r \in Reasons : events' = Queued([event |-> EventOf(r), tid |-> held])
      BY <3>3 DEF Control
    <3> QED BY <3>1, <3>2, <3>4
  <2>2. CASE held = 0
    BY <2>2 DEF Control
  <2> QED BY <2>1, <2>2
<1>5. /\ events' \in Seq(Event) /\ Len(events') <= MaxEvents
      /\ \A i \in DOMAIN events' : events'[i].tid \in Tids
  BY <1>1, <1>4 DEF Queued
<1>6. Passed
  BY <1>2, StillPassed DEF socket
<1> QED BY <1>2, <1>3, <1>5, <1>6
    DEF TickMove, SystemInv, Typed, SystemTypeOK, VehicleTypeOK, socket

LEMMA TickMoves ==
    ASSUME SystemInv, Tick PROVE TickMove
BY ServiceMoves, FlushMoves, TakeMoves, SendMoves, ControlMoves DEF Tick

-----------------------------------------------------------------------------
\* One step of the system.

LEMMA ReceiveUp ==
    ASSUME NEW h, NEW m, Receive(h, m) PROVE up' = up
BY DEF Receive, ReceivePose, ReceiveParking, ReceivePlanRequest, ReceiveStatus,
       ReceiveReplanStatus, ReceivePauseEvent, ReceiveReplanEvent, ReceiveOther,
       Silently, AckThen, Send

\* No connection begins with a handler that is about to announce.
LEMMA UpMoves ==
    ASSUME Typed, [SystemNext]_systemVars, NEW g \in Handlers, up'[g], Announcing(g)'
    PROVE  up[g]
<1>1. DOMAIN up = Handlers /\ DOMAIN pc = Handlers /\ TypeInv
  BY DEF Typed, TypeInv, TypeOK
<1>2. ASSUME NEW h \in Handlers, ServerReads(h) PROVE up' = up
  BY <1>2, ReceiveUp DEF ServerReads
<1>3. ASSUME NEW h \in Handlers, ServerSteps(h) PROVE up' = up
  BY <1>1, <1>3, StepWrites DEF ServerSteps
<1>4. ASSUME NEW h \in Handlers, ServerEnds(h) PROVE up' = up
  BY <1>4 DEF ServerEnds, EndOfFile, Silently
<1>5. ASSUME NEW h \in Handlers, VehicleConnects(h) PROVE up[g]
  BY <1>1, <1>5 DEF VehicleConnects, Connect, Proceed, Announcing, At
<1>6. CASE VehicleTicks \/ UNCHANGED systemVars
  BY <1>6 DEF VehicleTicks, server, systemVars, vars
<1>7. CASE NetworkBreaks
  BY <1>1, <1>7 DEF NetworkBreaks, Break
<1> QED BY <1>2, <1>3, <1>4, <1>5, <1>6, <1>7 DEF SystemNext, Reliable

\* As long as the vehicle only takes trajectories over, their order lasts.
LEMMA OrderKept ==
    ASSUME SystemInv, [SystemNext]_systemVars, Passed
    PROVE  InOrder'
<1>1. /\ Typed /\ issued \in Nat /\ held \in Nat
      /\ \A t \in Ids(rx) \cup Ids(toVehicle) : held < t /\ t <= issued
  BY DEF SystemInv, Typed, InOrder, TypeInv, TypeOK, SystemTypeOK, VehicleTypeOK
<1>2. held' <= issued /\ issued' \in {issued, issued + 1}
  BY <1>1, DrawnIs DEF Passed, SystemInv, InOrder
<1>3. \A t \in Ids(rx) \cup Ids(toVehicle) : t \in Nat
  <2>1. rx \in Seq(Replies) /\ toVehicle \in Seq(Replies)
    BY DEF SystemInv, Typed, SystemTypeOK
  <2> QED BY <2>1 DEF Ids, Replies
<1>4. held' \in Nat /\ \A t \in Ids(rx') \cup Ids(toVehicle') : t <= issued' /\ t \in Nat
  BY <1>1, <1>2, <1>3 DEF Passed
<1>5. ASSUME NEW t \in Ids(toVehicle') PROVE held' < t
  BY <1>1, <1>3, <1>5 DEF Passed, SystemInv, InOrder
<1>6. ASSUME NEW g \in Handlers, up'[g], Announcing(g)'
      PROVE  held' < job'[g].tid /\ \A t \in Ids(rx') \cup Ids(toVehicle') : t < job'[g].tid
  <2>1. CASE Announcing(g) /\ job'[g].tid = job[g].tid
    <3>1. up[g]
      BY <1>1, <1>6, UpMoves
    <3>2. held < job[g].tid /\ \A t \in Ids(rx) \cup Ids(toVehicle) : t < job[g].tid
      BY <2>1, <3>1 DEF SystemInv, InOrder
    <3> QED BY <2>1, <3>2 DEF Passed
  <2>2. CASE issued' = issued + 1 /\ job'[g].tid = issued'
    BY <1>1, <1>2, <1>3, <2>2 DEF Passed
  <2> QED BY <1>1, <1>6, <2>1, <2>2, DrawnIs
<1>7. Rising(rx') /\ Rising(toVehicle') /\ held' <= issued'
      /\ (\A t \in Ids(rx') : held' < t)
      /\ \A s \in Ids(rx'), t \in Ids(toVehicle') : s < t
  BY <1>1, <1>2, <1>4 DEF Passed
<1> QED BY <1>4, <1>5, <1>6, <1>7 DEF InOrder

\* What a system step that leaves the vehicle alone has to keep.
LEMMA VehicleStill ==
    ASSUME SystemInv, UNCHANGED vehicle, TypeInv', IdsUnique',
           toServer' \in Seq(Messages), Len(toServer') <= SockCap,
           toVehicle' \in Seq(Replies), Len(toVehicle') <= SockCap,
           link' \in {"none", "up", "broken"},
           serving' \in Handlers \cup {NoHandler}, serving' = NoHandler <=> link' = "none",
           orphaned' \in [Handlers -> Seq(Messages)],
           \A h \in Handlers : up'[h] <=> h = serving' /\ link' = "up",
           connections' \in 0 .. MaxConnections
    PROVE  Typed'
<1>1. VehicleTypeOK'
  BY DEF VehicleTypeOK, vehicle, SystemInv, Typed, SystemTypeOK
<1>2. SystemTypeOK'
  BY <1>1 DEF SystemTypeOK, vehicle, SystemInv, Typed, Unread, TypeInv
<1> QED BY <1>2 DEF Typed, vehicle, SystemInv

LEMMA ReadsKeep ==
    ASSUME SystemInv, [SystemNext]_systemVars, NEW h \in Handlers, ServerReads(h)
    PROVE  Typed' /\ InOrder'
<1>1. /\ toServer \in Seq(Messages) /\ Len(toServer) <= SockCap /\ SockCap \in Nat
      /\ orphaned \in [Handlers -> Seq(Messages)]
  BY VehicleAssumption DEF SystemInv, Typed, SystemTypeOK, VehicleTypeOK
<1>2. UNCHANGED <<vehicle, link, toVehicle, serving, connections, up>>
  BY ReceiveUp DEF ServerReads
<1>3. /\ toServer' \in Seq(Messages) /\ Len(toServer') <= SockCap
      /\ orphaned' \in [Handlers -> Seq(Messages)]
  <2>1. CASE h = serving
    <3>1. toServer # <<>> /\ toServer' = Tail(toServer) /\ orphaned' = orphaned
      BY <2>1 DEF ServerReads, Unread, Consume
    <3> QED BY <1>1, <3>1
  <2>2. CASE h # serving
    <3>1. orphaned[h] # <<>> /\ orphaned' = [orphaned EXCEPT ![h] = Tail(orphaned[h])]
          /\ toServer' = toServer
      BY <2>2 DEF ServerReads, Unread, Consume
    <3>2. Tail(orphaned[h]) \in Seq(Messages)
      BY <1>1, <3>1
    <3> QED BY <1>1, <3>1, <3>2
  <2> QED BY <2>1, <2>2
<1>4. TypeInv' /\ IdsUnique'
  BY ServerKeeps DEF SystemInv
<1>5. Typed'
  BY <1>1, <1>2, <1>3, <1>4, VehicleStill DEF SystemInv, Typed, SystemTypeOK, VehicleTypeOK
<1>6. Passed
  BY <1>2, StillPassed DEF vehicle
<1> QED BY <1>5, <1>6, OrderKept

LEMMA StepsKeep ==
    ASSUME SystemInv, [SystemNext]_systemVars, NEW h \in Handlers, ServerSteps(h)
    PROVE  Typed' /\ InOrder'
<1>1. /\ Typed /\ TypeInv /\ toVehicle \in Seq(Replies) /\ Len(toVehicle) <= SockCap
      /\ SockCap \in Nat
  BY VehicleAssumption DEF SystemInv, Typed, SystemTypeOK, VehicleTypeOK
<1>2. UNCHANGED <<vehicle, link, toServer, serving, orphaned, connections>> /\ up' = up
  BY <1>1, StepWrites DEF ServerSteps
<1>3. \/ UNCHANGED toVehicle
      \/ \E m \in Replies :
            /\ up[h] /\ Len(toVehicle) < SockCap /\ toVehicle' = Append(toVehicle, m)
            /\ m.kind = "trajectory" => AnnounceTrajectory(h) /\ m.tid = job[h].tid
  <2>1. CASE wire' = {}
    BY <2>1 DEF ServerSteps
  <2>2. ASSUME NEW m \in Replies, up[h], wire' = {[to |-> h, msg |-> m]}
        PROVE  Len(toVehicle) < SockCap /\ toVehicle' = Append(toVehicle, m)
    <3>1. wire' # {} /\ \A w \in wire' : w.msg = m
      BY <2>2
    <3>2. Len(toVehicle) < SockCap /\ \E w \in wire' : toVehicle' = Append(toVehicle, w.msg)
      BY <3>1, Zenon DEF ServerSteps
    <3> QED BY <3>1, <3>2
  <2>3. Step(h)
    BY DEF ServerSteps
  <2> QED BY <1>1, <2>1, <2>2, <2>3, StepWrites
<1>4. TypeInv' /\ IdsUnique'
  BY ServerKeeps DEF SystemInv
<1>5. toVehicle' \in Seq(Replies) /\ Len(toVehicle') <= SockCap
  BY <1>1, <1>3
<1>6. Typed'
  BY <1>1, <1>2, <1>4, <1>5, VehicleStill DEF SystemInv, Typed, SystemTypeOK, VehicleTypeOK
<1>7. CASE UNCHANGED toVehicle
  <2>1. Passed
    BY <1>2, <1>7, StillPassed DEF vehicle
  <2> QED BY <1>6, <2>1, OrderKept
<1>8. ASSUME NEW m \in Replies, up[h], toVehicle' = Append(toVehicle, m), m.kind # "trajectory"
      PROVE  InOrder'
  <2>1. Ids(<<m>>) = {} /\ Rising(<<m>>) /\ <<m>> \in Seq(Replies) /\ Rising(toVehicle)
    BY <1>8 DEF Ids, Rising, SystemInv, InOrder
  <2>2. toVehicle' = toVehicle \o <<m>>
    BY <1>1, <1>8
  <2>3. Ids(toVehicle') = Ids(toVehicle) /\ Rising(toVehicle')
    <3>1. Ids(toVehicle \o <<m>>) = Ids(toVehicle) \cup Ids(<<m>>) /\ Rising(toVehicle \o <<m>>)
      BY <1>1, <2>1, JoinedIds
    <3> QED BY <2>1, <2>2, <3>1
  <2>4. Passed
    BY <1>2, <2>3 DEF vehicle, Passed, SystemInv, InOrder
  <2> QED BY <2>4, OrderKept
<1>9. ASSUME NEW m \in Replies, up[h], toVehicle' = Append(toVehicle, m), m.kind = "trajectory",
             AnnounceTrajectory(h), m.tid = job[h].tid
      PROVE  InOrder'
  <2>1. /\ Announcing(h) /\ UNCHANGED issued
        /\ \A g \in Handlers : Announcing(g)' => g # h
    BY <1>1, <1>9, Announcement
  <2>2. h = serving /\ link = "up"
    BY <1>9 DEF SystemInv, Typed
  <2>3. ASSUME NEW g \in Handlers, up'[g], Announcing(g)' PROVE FALSE
    BY <1>2, <2>1, <2>2, <2>3 DEF SystemInv, Typed
  <2>4. Ids(<<m>>) = {m.tid} /\ Rising(<<m>>) /\ <<m>> \in Seq(Replies)
    <3>1. DOMAIN <<m>> = {1} /\ <<m>>[1] = m
      OBVIOUS
    <3> QED BY <1>9, <3>1 DEF Ids, Rising
  <2>5. toVehicle' = toVehicle \o <<m>>
    BY <1>1, <1>9
  <2>6. held < m.tid /\ m.tid <= issued /\ \A t \in Ids(rx) \cup Ids(toVehicle) : t < m.tid
    <3>1. job[h].tid \in 1 .. issued
      BY <2>1 DEF SystemInv, Typed, IdsUnique
    <3>2. held < job[h].tid /\ \A t \in Ids(rx) \cup Ids(toVehicle) : t < job[h].tid
      BY <1>9, <2>1 DEF SystemInv, InOrder
    <3> QED BY <1>9, <3>1, <3>2
  <2>7. Ids(toVehicle') = Ids(toVehicle) \cup {m.tid} /\ Rising(toVehicle')
    <3>1. Rising(toVehicle) /\ \A a \in Ids(toVehicle), b \in Ids(<<m>>) : a < b
      BY <2>4, <2>6 DEF SystemInv, InOrder
    <3>2. Ids(toVehicle \o <<m>>) = Ids(toVehicle) \cup Ids(<<m>>) /\ Rising(toVehicle \o <<m>>)
      BY <1>1, <2>4, <3>1, JoinedIds
    <3> QED BY <2>4, <2>5, <3>2
  <2>8. UNCHANGED <<rx, held>>
    BY <1>2 DEF vehicle
  <2> QED BY <2>1, <2>3, <2>6, <2>7, <2>8 DEF SystemInv, InOrder
<1> QED BY <1>3, <1>6, <1>7, <1>8, <1>9

LEMMA EndsKeep ==
    ASSUME SystemInv, [SystemNext]_systemVars, NEW h \in Handlers, ServerEnds(h)
    PROVE  Typed' /\ InOrder'
<1>1. UNCHANGED <<vehicle, socket, serving, orphaned, connections>> /\ up' = up
  BY DEF ServerEnds, EndOfFile, Silently
<1>2. TypeInv' /\ IdsUnique'
  BY ServerKeeps DEF SystemInv
<1>3. Typed'
  BY <1>1, <1>2, VehicleStill DEF socket, SystemInv, Typed, SystemTypeOK, VehicleTypeOK
<1>4. Passed
  BY <1>1, StillPassed DEF vehicle, socket
<1> QED BY <1>3, <1>4, OrderKept

LEMMA BreakKeeps ==
    ASSUME SystemInv, [SystemNext]_systemVars, NetworkBreaks
    PROVE  Typed' /\ InOrder'
<1>1. /\ toServer \in Seq(Messages) /\ Len(toServer) <= SockCap /\ SockCap \in Nat
      /\ toVehicle \in Seq(Replies) /\ Len(toVehicle) <= SockCap
      /\ up \in [Handlers -> BOOLEAN] /\ serving \in Handlers \cup {NoHandler}
      /\ serving = NoHandler <=> link = "none"
      /\ \A h \in Handlers : up[h] <=> h = serving /\ link = "up"
  BY VehicleAssumption DEF SystemInv, Typed, TypeInv, TypeOK, SystemTypeOK, VehicleTypeOK
<1>2. /\ UNCHANGED <<vehicle, serving, orphaned, connections>>
      /\ up' = [up EXCEPT ![serving] = FALSE] /\ link = "up" /\ link' = "broken"
  BY DEF NetworkBreaks, BreakLink, Break
<1>3. PICK n \in 0 .. Len(toServer) : toServer' = Front(toServer, n)
  BY DEF NetworkBreaks, BreakLink
<1>4. PICK k \in 0 .. Len(toVehicle) : toVehicle' = Front(toVehicle, k)
  BY DEF NetworkBreaks, BreakLink
<1>5. toServer' \in Seq(Messages) /\ Len(toServer') <= SockCap
  BY <1>1, <1>3, FrontIs
<1>6. toVehicle' \in Seq(Replies) /\ Len(toVehicle') <= SockCap
  BY <1>1, <1>4, FrontIs
<1>7. Ids(toVehicle') \subseteq Ids(toVehicle) /\ Rising(toVehicle')
  BY <1>1, <1>4, FrontIds DEF SystemInv, InOrder
<1>8. TypeInv' /\ IdsUnique'
  BY ServerKeeps DEF SystemInv
<1>9. \A h \in Handlers : up'[h] <=> h = serving' /\ link' = "up"
  BY <1>1, <1>2
<1>10. Typed'
  BY <1>1, <1>2, <1>5, <1>6, <1>8, <1>9, VehicleStill DEF SystemInv, Typed, SystemTypeOK
<1>11. Passed
  BY <1>2, <1>7 DEF vehicle, Passed, SystemInv, InOrder
<1> QED BY <1>10, <1>11, OrderKept

LEMMA TicksKeep ==
    ASSUME SystemInv, [SystemNext]_systemVars, VehicleTicks
    PROVE  Typed' /\ InOrder'
<1>1. TickMove
  BY TickMoves DEF VehicleTicks
<1>2. TypeInv' /\ IdsUnique'
  BY ServerKeeps DEF SystemInv
<1>3. /\ toServer \in Seq(Messages) /\ orphaned \in [Handlers -> Seq(Messages)]
      /\ serving \in Handlers \cup {NoHandler} /\ NoHandler \notin Handlers
      /\ serving = NoHandler <=> link = "none"
      /\ \A h \in Handlers : up[h] <=> h = serving /\ link = "up"
      /\ connections \in 0 .. MaxConnections
  BY SystemAssumption DEF SystemInv, Typed, SystemTypeOK
<1>4. up' = up /\ UNCHANGED connections
  BY DEF VehicleTicks, server
<1>5. /\ serving' \in Handlers \cup {NoHandler}
      /\ serving' = NoHandler <=> link' = "none"
      /\ orphaned' \in [Handlers -> Seq(Messages)]
      /\ \A h \in Handlers : up'[h] <=> h = serving' /\ link' = "up"
  <2>1. CASE link # "none" /\ link' = "none"
    <3>1. link = "broken" /\ serving' = NoHandler
          /\ orphaned' = [orphaned EXCEPT ![serving] = toServer]
      BY <1>1, <2>1 DEF VehicleTicks, TickMove
    <3> QED BY <1>3, <1>4, <2>1, <3>1
  <2>2. CASE ~(link # "none" /\ link' = "none")
    <3>1. UNCHANGED <<serving, orphaned>> /\ link' = link
      BY <1>1, <2>2 DEF VehicleTicks, TickMove
    <3> QED BY <1>3, <1>4, <3>1
  <2> QED BY <2>1, <2>2
<1>6. SystemTypeOK'
  <2>1. TypeOK' /\ VehicleTypeOK' /\ connections' \in 0 .. MaxConnections
    BY <1>1, <1>2, <1>3, <1>4 DEF TypeInv, TickMove
  <2>2. \A h \in Handlers : Unread(h)' \in Seq(Messages)
    BY <1>1, <1>5 DEF Unread, TickMove
  <2>3. tx' \in Seq(Messages) /\ rx' \in Seq(Replies) /\ toVehicle' \in Seq(Replies)
    BY <1>1 DEF TickMove
  <2> QED BY <1>5, <2>1, <2>2, <2>3 DEF SystemTypeOK
<1>7. Typed'
  BY <1>1, <1>2, <1>5, <1>6 DEF Typed, TickMove
<1> QED BY <1>1, <1>7, OrderKept DEF TickMove

LEMMA ConnectKeeps ==
    ASSUME SystemInv, [SystemNext]_systemVars, NEW h \in Handlers, VehicleConnects(h)
    PROVE  Typed' /\ InOrder'
<1>1. /\ orphaned \in [Handlers -> Seq(Messages)] /\ SockCap \in Nat /\ MaxConnections \in Nat
      /\ up \in [Handlers -> BOOLEAN] /\ connections \in 0 .. MaxConnections /\ h # NoHandler
      /\ \A g \in Handlers : up[g] <=> g = serving /\ link = "up"
  BY VehicleAssumption, SystemAssumption DEF SystemInv, Typed, TypeInv, TypeOK, SystemTypeOK
<1>2. /\ UNCHANGED <<tx, rx, events, held, reason, blocking>> /\ connected' = TRUE /\ step' = "flush"
      /\ link = "none" /\ link' = "up" /\ toServer' = <<>> /\ toVehicle' = <<>>
      /\ serving' = h /\ orphaned' = [orphaned EXCEPT ![h] = <<>>]
      /\ up' = [up EXCEPT ![h] = TRUE]
  BY DEF VehicleConnects, ServiceConnect, Connect
<1>3. connections' \in 0 .. MaxConnections
  BY <1>1 DEF VehicleConnects
<1>4. TypeInv' /\ IdsUnique'
  BY ServerKeeps DEF SystemInv
<1>5. VehicleTypeOK'
  BY <1>1, <1>2 DEF SystemInv, Typed, SystemTypeOK, VehicleTypeOK
<1>6. SystemTypeOK'
  BY <1>1, <1>2, <1>3, <1>4, <1>5 DEF SystemInv, Typed, SystemTypeOK, TypeInv, Unread
<1>7. Typed'
  BY <1>1, <1>2, <1>4, <1>6 DEF SystemInv, Typed
<1>8. Passed
  BY <1>2, StillPassed
<1> QED BY <1>7, <1>8, OrderKept

LEMMA SystemStep ==
    ASSUME SystemInv, [SystemNext]_systemVars PROVE SystemInv'
<1>1. CASE UNCHANGED systemVars
  <2>1. TypeInv' /\ IdsUnique'
    BY ServerKeeps DEF SystemInv
  <2>2. Typed'
    BY <1>1, <2>1, VehicleStill
    DEF systemVars, socket, vars, SystemInv, Typed, SystemTypeOK, VehicleTypeOK
  <2>3. Passed
    BY <1>1, StillPassed DEF systemVars, vehicle, socket
  <2> QED BY <2>2, <2>3, OrderKept DEF SystemInv
<1> QED BY <1>1, ReadsKeep, StepsKeep, EndsKeep, ConnectKeeps, TicksKeep, BreakKeeps
    DEF SystemNext, Reliable, SystemInv

LEMMA SystemStarts == SystemInit => SystemInv
<1> SUFFICES ASSUME SystemInit PROVE SystemInv
  OBVIOUS
<1>1. TypeInv
  BY InitType DEF SystemInit
<1>2. /\ step = "service" /\ connected = FALSE /\ tx = <<>> /\ rx = <<>> /\ events = <<>>
      /\ held = 0 /\ reason = "NOT_EVALUATED" /\ blocking = FALSE
      /\ link = "none" /\ toServer = <<>> /\ toVehicle = <<>>
      /\ serving = NoHandler /\ orphaned = [h \in Handlers |-> <<>>] /\ connections = 0
      /\ \A h \in Handlers : ~up[h] /\ ~Announcing(h)
      /\ session.active = 0 /\ issued = 0
  BY DEF SystemInit, VehicleInit, Init, InitSession, NoTid, Announcing, At
<1>3. VehicleTypeOK
  <2>1. MaxTx \in Nat /\ MaxRx \in Nat /\ MaxEvents \in Nat /\ SockCap \in Nat
    BY VehicleAssumption
  <2>2. Len(<<>>) = 0 /\ <<>> \in Seq(Event)
    OBVIOUS
  <2>3. connected \in BOOLEAN /\ blocking \in BOOLEAN
    BY <1>2
  <2>4. reason \in Reasons
    BY <1>2 DEF Reasons
  <2> QED BY <1>2, <2>1, <2>2, <2>3, <2>4 DEF VehicleTypeOK
<1>4. orphaned \in [Handlers -> Seq(Messages)] /\ \A h \in Handlers : Unread(h) \in Seq(Messages)
  BY <1>2 DEF Unread
<1>5. SystemTypeOK
  BY <1>1, <1>2, <1>3, <1>4, SystemAssumption DEF SystemTypeOK, TypeInv
<1>6. IdsUnique
  BY <1>2 DEF IdsUnique
<1>7. Typed
  BY <1>1, <1>2, <1>4, <1>5, <1>6, SystemAssumption DEF Typed
<1>8. Ids(<<>>) = {} /\ Rising(<<>>)
  BY DEF Ids, Rising
<1>9. InOrder
  BY <1>2, <1>8 DEF InOrder
<1> QED BY <1>7, <1>9 DEF SystemInv

LEMMA HeldRises ==
    ASSUME SystemInv, [SystemNext]_systemVars PROVE held' >= held
<1>1. held \in Nat /\ \A t \in Ids(rx) : held < t
  BY DEF SystemInv, Typed, InOrder, SystemTypeOK, VehicleTypeOK
<1>2. CASE VehicleTicks
  <2>1. held' \in {held} \cup Ids(rx)
    BY <1>2, TickMoves DEF VehicleTicks, TickMove, Passed
  <2>2. \A t \in Ids(rx) : t \in Nat
    <3>1. rx \in Seq(Replies)
      BY DEF SystemInv, Typed, SystemTypeOK
    <3> QED BY <3>1 DEF Ids, Replies
  <2> QED BY <1>1, <2>1, <2>2
<1>3. CASE ~VehicleTicks
  <2>1. UNCHANGED held
    BY <1>3 DEF SystemNext, Reliable, ServerReads, ServerSteps, ServerEnds, VehicleConnects,
         ServiceConnect, NetworkBreaks, BreakLink, systemVars, vehicle
  <2> QED BY <1>1, <2>1
<1> QED BY <1>2, <1>3

-----------------------------------------------------------------------------
\* The theorems.

\* Whatever breaks and whatever is lost, every line under way is one the protocol
\* knows, at its proper end of the one connection, and trajectories reach the vehicle
\* in the order in which the server numbered them: what the theorems below rest on.
THEOREM SystemCorrect == LossySpec => []SystemInv
<1>1. SystemInv /\ [SystemNext]_systemVars => SystemInv'
  BY SystemStep
<1> QED BY <1>1, SystemStarts, PTL DEF LossySpec, SystemNext

\* With lasting connections nothing happens that could not happen anyway, so what
\* is proved of the lossy system holds of the calm one.
THEOREM CalmIsLossy == CalmSpec => LossySpec
<1>1. [Calm(Reliable)]_systemVars => [Reliable \/ NetworkBreaks]_systemVars
  BY DEF Calm
<1> QED BY <1>1, PTL DEF CalmSpec, LossySpec

\* Whatever connections break and whichever lines are lost, both sides keep their
\* types, exactly the vehicle's connection has a socket at both ends, and it
\* carries protocol messages only.
THEOREM SystemTypeCorrect == LossySpec => []SystemTypeOK
<1>1. SystemInv => SystemTypeOK
  BY DEF SystemInv, Typed
<1> QED BY <1>1, SystemCorrect, PTL

\* The same with lasting connections.
THEOREM CalmTypeCorrect == CalmSpec => []SystemTypeOK
BY SystemTypeCorrect, CalmIsLossy, PTL

\* The vehicle is one of the clients the server is safe with: behind a real
\* connection, with lost lines and overlapping handlers, the session stays coherent,
\* ids stay unique and a plan under way has its handler.
THEOREM ServerSafeInSystem == LossySpec => [](SessionCoherent /\ IdsUnique /\ PlanningOwned)
<1>1. SystemInit => SessionCoherent /\ PlanningOwned
  BY DEF SystemInit, Init, InitSession, SessionCoherent, PlanningOwned, NoTid
<1>2. SystemInv /\ SessionCoherent /\ PlanningOwned /\ [SystemNext]_systemVars
        => SessionCoherent' /\ PlanningOwned'
  BY ServerKeeps DEF SystemInv
<1>3. SystemInv => IdsUnique
  BY DEF SystemInv, Typed
<1> QED BY <1>1, <1>2, <1>3, SystemCorrect, PTL DEF LossySpec, SystemNext

\* In spite of reconnections and of handlers that overlap, the trajectory the
\* vehicle holds is never an older one again.
THEOREM HeldNeverOlderAlways == LossySpec => HeldNeverOlder
<1>1. SystemInv /\ [SystemNext]_systemVars => [held' >= held]_systemVars
  BY HeldRises
<1> QED BY <1>1, SystemCorrect, PTL DEF LossySpec, SystemNext, HeldNeverOlder

-----------------------------------------------------------------------------
\* The server of the system is the server of ParkingServer.

\* Every behaviour of the system is one of the server with any clients: joining it to
\* the vehicle adds no step of its own, so what is proved of the server alone is not
\* about clients that the vehicle is unlike.
THEOREM SystemIsServer == LossySpec => Init /\ [][Next]_server
<1>1. SystemInit => Init
  BY DEF SystemInit
<1>2. SystemInv /\ [SystemNext]_systemVars => [Next]_server
  <2> SUFFICES ASSUME SystemInv, [SystemNext]_systemVars PROVE [Next]_server
    OBVIOUS
  <2>1. UNCHANGED vars => UNCHANGED server
    BY DEF vars, server, shared
  <2> QED BY <2>1, ServerMoves DEF SystemInv
<1> QED BY <1>1, <1>2, SystemCorrect, PTL DEF LossySpec, SystemNext

\* The system with the memory of ParkingServerHistory.
RememberingSpec ==
    LossySpec /\ stopped = {} /\ [][Remember]_<<systemVars, stopped>>

\* "A trajectory is never resumed blindly after a safety pause", with the vehicle as
\* the client: whatever it reports, over whichever of its connections, and however late
\* a line of a connection it gave up is read, a trajectory that stopped being ready or
\* executing never is again.
THEOREM NothingResumedInSystem == RememberingSpec => []NeverResumed
<1>1. SystemInit /\ stopped = {} => StoppedInv /\ SessionCoherent
  BY DEF SystemInit, Init, InitSession, StoppedInv, NeverResumed, Running, Announcing, At,
         SessionCoherent, NoTid
<1>2. ASSUME SystemInv, SessionCoherent, StoppedInv, [SystemNext]_systemVars,
             [Remember]_<<systemVars, stopped>>
      PROVE  StoppedInv'
  <2>1. TypeInv /\ IdsUnique
    BY <1>2 DEF SystemInv, Typed
  <2>2. CASE [Next]_vars
    <3>1. Remember \/ UNCHANGED historyVars
      BY <1>2 DEF systemVars, historyVars
    <3> QED BY <1>2, <2>1, <2>2, <3>1, StoppedStep
  <2>3. CASE UNCHANGED server
    <3>1. UNCHANGED <<session, issued, pc, job>>
      BY <2>3 DEF server, shared
    <3>2. stopped' = stopped
      BY <1>2, <3>1 DEF Remember, Running
    <3> QED BY <1>2, <3>1, <3>2 DEF StoppedInv, NeverResumed, Announcing, At, Running
  <2> QED BY <1>2, <2>2, <2>3, ServerMoves DEF SystemInv
<1>3. StoppedInv => NeverResumed
  BY DEF StoppedInv
<1> QED BY <1>1, <1>2, <1>3, SystemCorrect, ServerSafeInSystem, PTL
        DEF RememberingSpec, LossySpec, SystemNext
=============================================================================
