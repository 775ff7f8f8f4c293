------------------------ MODULE ParkingSafetyProofs ------------------------
(***************************************************************************)
(* The safety properties of the parking server that hold with any number   *)
(* of connections: each step of a handler is classified by what it does to *)
(* the session, to the ids and to the plans under way, and the invariants  *)
(* follow from the few classes.                                            *)
(***************************************************************************)
EXTENDS ParkingServerProofs

-----------------------------------------------------------------------------
\* The session moves by its own operations only.
SessionMove ==
    \/ UNCHANGED session
    \/ session' \in {Started(session), NewSession(session), TargetInvalid(session),
                     Replan(session), SafetyCleared(session), Waiting(session),
                     StartPlanning(session)}
    \/ \E tid \in Nat : session' \in {Executing(session, tid), Completed(session, tid),
                                      Paused(session, tid, TRUE),
                                      Paused(session, tid, FALSE)}
    \/ \E h \in Handlers : AnnounceTrajectory(h)

LEMMA SessionMoves ==
    ASSUME [Next]_vars PROVE SessionMove
<1> USE DEF SessionMove, shared
<1>1. ASSUME NEW h \in Handlers, NEW m \in Messages, Receive(h, m) PROVE SessionMove
  <2>1. CASE ReceivePose(h, m)
    BY <2>1 DEF ReceivePose
  <2>2. CASE ReceiveParking(h, m)
    BY <2>2 DEF ReceiveParking
  <2>3. CASE ReceivePlanRequest(h, m)
    BY <2>3 DEF ReceivePlanRequest
  <2>4. CASE ReceiveStatus(h, m)
    BY <2>4, MessageFields DEF ReceiveStatus
  <2>5. CASE ReceiveReplanStatus(h, m)
    BY <2>5 DEF ReceiveReplanStatus
  <2>6. CASE ReceivePauseEvent(h, m)
    BY <2>6, MessageFields DEF ReceivePauseEvent
  <2>7. CASE ReceiveReplanEvent(h, m)
    BY <2>7 DEF ReceiveReplanEvent
  <2>8. CASE ReceiveOther(h, m)
    BY <2>8 DEF ReceiveOther
  <2> QED BY <1>1, <2>1, <2>2, <2>3, <2>4, <2>5, <2>6, <2>7, <2>8 DEF Receive
<1>2. ASSUME NEW h \in Handlers, Step(h) PROVE SessionMove
  <2>1. CASE PoseStart(h)
    BY <2>1 DEF PoseStart
  <2>2. CASE PoseCheck(h)
    BY <2>2 DEF PoseCheck
  <2>3. CASE PoseParking(h)
    BY <2>3 DEF PoseParking
  <2>4. CASE ParkStart(h)
    BY <2>4 DEF ParkStart
  <2>5. CASE ParkCheck(h)
    BY <2>5 DEF ParkCheck
  <2>6. CASE ParkInvalid(h)
    BY <2>6 DEF ParkInvalid
  <2>7. CASE ParkState(h)
    BY <2>7 DEF ParkState
  <2>8. CASE StartNewSession(h)
    BY <2>8 DEF StartNewSession
  <2>9. CASE RequestReplan(h)
    BY <2>9 DEF RequestReplan
  <2>10. CASE ClearSafety(h)
    BY <2>10 DEF ClearSafety
  <2>11. CASE Ack(h)
    BY <2>11 DEF Ack
  <2>12. CASE TakeSnapshot(h)
    BY <2>12 DEF TakeSnapshot
  <2>13. CASE SetWaiting(h)
    BY <2>13 DEF SetWaiting
  <2>14. CASE BeginPlanning(h)
    BY <2>14 DEF BeginPlanning
  <2>15. CASE AcquirePlanner(h)
    BY <2>15 DEF AcquirePlanner
  <2>16. CASE Search(h)
    BY <2>16 DEF Search
  <2>17. CASE VerifyGenerations(h)
    BY <2>17 DEF VerifyGenerations
  <2>18. CASE InputChanged(h)
    BY <2>18 DEF InputChanged
  <2>19. CASE RecheckFreshness(h)
    BY <2>19 DEF RecheckFreshness
  <2>20. CASE BuildTrajectory(h)
    BY <2>20 DEF BuildTrajectory
  <2>21. CASE AnnounceTrajectory(h)
    BY <2>21 DEF AnnounceTrajectory
  <2> QED BY <1>2, <2>1, <2>2, <2>3, <2>4, <2>5, <2>6, <2>7, <2>8, <2>9, <2>10, <2>11,
         <2>12, <2>13, <2>14, <2>15, <2>16, <2>17, <2>18, <2>19, <2>20, <2>21 DEF Step
<1>3. ASSUME NEW h \in Handlers, Connect(h) \/ Break(h) \/ EndOfFile(h) PROVE SessionMove
  <2>1. CASE Connect(h)
    BY <2>1 DEF Connect
  <2>2. CASE Break(h)
    BY <2>2 DEF Break
  <2>3. CASE EndOfFile(h)
    BY <2>3 DEF EndOfFile
  <2> QED BY <1>3, <2>1, <2>2, <2>3
<1>4. CASE AgePose \/ AgeParking \/ UNCHANGED vars
    BY <1>4 DEF AgePose, AgeParking, vars
<1> QED BY <1>1, <1>2, <1>3, <1>4 DEF Next

-----------------------------------------------------------------------------
\* Target and trajectory.

\* A session that has a target exactly when it has a trajectory keeps it so.
LEMMA CoherentStep ==
    TypeInv /\ SessionCoherent /\ [Next]_vars => SessionCoherent'
<1> SUFFICES ASSUME TypeInv, SessionCoherent, SessionMove PROVE SessionCoherent'
  BY SessionMoves
<1> USE DEF SessionCoherent
<1>0. session \in Session
  BY DEF TypeInv, TypeOK
<1>1. CASE UNCHANGED session
  BY <1>1
<1>2. CASE session' \in {NewSession(session), Replan(session)}
  BY <1>0, <1>2 DEF Session, NewSession, Replan, InitSession
<1>3. CASE session' \in {Started(session), Waiting(session), StartPlanning(session)}
  BY <1>0, <1>3 DEF Session, Started, Waiting, StartPlanning, NewSession, InitSession
<1>4. CASE session' \in {TargetInvalid(session), SafetyCleared(session)}
  BY <1>0, <1>4 DEF Session, TargetInvalid, SafetyCleared, Replan, InitSession
<1>5. CASE \E tid \in Nat : session' \in {Executing(session, tid), Completed(session, tid)}
  BY <1>0, <1>5 DEF Session, Executing, Completed, Matches
<1>6. CASE \E tid \in Nat, b \in BOOLEAN : session' = Paused(session, tid, b)
  BY <1>0, <1>6 DEF Session, Paused, CanPause, Running
<1>7. CASE \E h \in Handlers : AnnounceTrajectory(h)
  BY <1>7, NoSlotAssumption DEF AnnounceTrajectory, TrajectoryReady, TypeInv,
                                AnnouncesWell, Announcing
<1> QED BY <1>1, <1>2, <1>3, <1>4, <1>5, <1>6, <1>7 DEF SessionMove

\* In every interleaving of any number of handlers the session has a target exactly
\* when it has a trajectory, and has both in every state that speaks of one.
THEOREM Coherent == Spec => []SessionCoherent
<1>1. Init => SessionCoherent
  BY DEF Init, InitSession, SessionCoherent, NoTid
<1> QED BY <1>1, CoherentStep, TypeCorrect, PTL DEF Spec

-----------------------------------------------------------------------------
\* Trajectory ids.

\* Handler h draws the next id.
Draws(h) ==
    /\ issued' = issued + 1
    /\ Announcing(h)' /\ job'[h].tid = issued'
    /\ \A g \in Handlers \ {h} : UNCHANGED <<pc[g], job[g]>>
    /\ UNCHANGED session

\* No handler comes to announce anything, and no id is drawn.
NoneDrawn ==
    /\ UNCHANGED issued
    /\ \A g \in Handlers : Announcing(g)' => Announcing(g) /\ job'[g].tid = job[g].tid

IdMove == \/ NoneDrawn
          \/ \E h \in Handlers : AnnounceTrajectory(h) \/ Draws(h)

LEMMA IdMoves ==
    ASSUME TypeInv, [Next]_vars PROVE IdMove
<1> USE DEF IdMove, NoneDrawn, Announcing, At, shared, Silently, AckThen, Send, Proceed
<1>t. DOMAIN pc = Handlers /\ DOMAIN job = Handlers
  BY DEF TypeInv, TypeOK
<1>a. \A h \in Handlers : job[h].after # "announce"
  BY DEF TypeInv, TypeOK, Job
<1>1. ASSUME NEW h \in Handlers, NEW m \in Messages, Receive(h, m) PROVE IdMove
  <2>1. CASE ReceivePose(h, m)
    BY <2>1, <1>t DEF ReceivePose
  <2>2. CASE ReceiveParking(h, m)
    BY <2>2, <1>t DEF ReceiveParking
  <2>3. CASE ReceivePlanRequest(h, m)
    BY <2>3, <1>t DEF ReceivePlanRequest
  <2>4. CASE ReceiveStatus(h, m)
    BY <2>4, <1>t DEF ReceiveStatus
  <2>5. CASE ReceiveReplanStatus(h, m)
    BY <2>5, <1>t DEF ReceiveReplanStatus
  <2>6. CASE ReceivePauseEvent(h, m)
    BY <2>6, <1>t DEF ReceivePauseEvent
  <2>7. CASE ReceiveReplanEvent(h, m)
    BY <2>7, <1>t DEF ReceiveReplanEvent
  <2>8. CASE ReceiveOther(h, m)
    BY <2>8, <1>t DEF ReceiveOther
  <2> QED BY <1>1, <2>1, <2>2, <2>3, <2>4, <2>5, <2>6, <2>7, <2>8 DEF Receive
<1>2. ASSUME NEW h \in Handlers, Step(h) PROVE IdMove
  <2>1. CASE PoseStart(h)
    BY <2>1, <1>t DEF PoseStart
  <2>2. CASE PoseCheck(h)
    BY <2>2, <1>t DEF PoseCheck
  <2>3. CASE PoseParking(h)
    BY <2>3, <1>t DEF PoseParking
  <2>4. CASE ParkStart(h)
    BY <2>4, <1>t DEF ParkStart
  <2>5. CASE ParkCheck(h)
    BY <2>5, <1>t DEF ParkCheck
  <2>6. CASE ParkInvalid(h)
    BY <2>6, <1>t DEF ParkInvalid
  <2>7. CASE ParkState(h)
    BY <2>7, <1>t DEF ParkState
  <2>8. CASE StartNewSession(h)
    BY <2>8, <1>t DEF StartNewSession
  <2>9. CASE RequestReplan(h)
    BY <2>9, <1>t DEF RequestReplan
  <2>10. CASE ClearSafety(h)
    BY <2>10, <1>t DEF ClearSafety
  <2>11. CASE Ack(h)
    BY <2>11, <1>t, <1>a DEF Ack
  <2>12. CASE TakeSnapshot(h)
    BY <2>12, <1>t DEF TakeSnapshot
  <2>13. CASE SetWaiting(h)
    BY <2>13, <1>t DEF SetWaiting
  <2>14. CASE BeginPlanning(h)
    BY <2>14, <1>t DEF BeginPlanning
  <2>15. CASE AcquirePlanner(h)
    BY <2>15, <1>t DEF AcquirePlanner
  <2>16. CASE Search(h)
    BY <2>16, <1>t DEF Search
  <2>17. CASE VerifyGenerations(h)
    BY <2>17, <1>t DEF VerifyGenerations
  <2>18. CASE InputChanged(h)
    BY <2>18, <1>t DEF InputChanged
  <2>19. CASE RecheckFreshness(h)
    BY <2>19, <1>t DEF RecheckFreshness
  <2>20. CASE BuildTrajectory(h)
    <3>1. CASE Silently(h, "setWaiting", job[h]) /\ UNCHANGED issued
      BY <3>1, <1>t
    <3>2. CASE issued' = issued + 1 /\ Silently(h, "announce", [job[h] EXCEPT !.tid =
       issued'])
      <4>1. job[h] \in Job
        BY DEF TypeInv, TypeOK
      <4>2. Announcing(h)' /\ job'[h].tid = issued'
        BY <3>2, <1>t, <4>1 DEF Job
      <4>3. \A g \in Handlers \ {h} : UNCHANGED <<pc[g], job[g]>>
        BY <3>2, <1>t
      <4> QED BY <2>20, <3>2, <4>2, <4>3 DEF BuildTrajectory, Draws
    <3> QED BY <2>20, <3>1, <3>2 DEF BuildTrajectory
  <2>21. CASE AnnounceTrajectory(h)
    BY <2>21
  <2> QED BY <1>2, <2>1, <2>2, <2>3, <2>4, <2>5, <2>6, <2>7, <2>8, <2>9, <2>10, <2>11,
         <2>12, <2>13, <2>14, <2>15, <2>16, <2>17, <2>18, <2>19, <2>20, <2>21 DEF Step
<1>3. ASSUME NEW h \in Handlers, Connect(h) \/ Break(h) \/ EndOfFile(h) PROVE IdMove
  <2>1. CASE Connect(h)
    BY <2>1, <1>t DEF Connect
  <2>2. CASE Break(h)
    BY <2>2 DEF Break
  <2>3. CASE EndOfFile(h)
    BY <2>3, <1>t DEF EndOfFile
  <2> QED BY <1>3, <2>1, <2>2, <2>3
<1>4. CASE AgePose \/ AgeParking \/ UNCHANGED vars
    BY <1>4 DEF AgePose, AgeParking, vars
<1> QED BY <1>1, <1>2, <1>3, <1>4 DEF Next

\* The session's operations keep its trajectory id, drop it, or announce a new one.
LEMMA ActiveMoves ==
    ASSUME TypeInv, SessionMove
    PROVE  \/ session'.active \in {session.active, NoTid}
           \/ \E h \in Handlers : AnnounceTrajectory(h)
  BY DEF SessionMove, TypeInv, TypeOK, Session, Started, NewSession, InitSession,
         TargetInvalid, Replan, SafetyCleared, Waiting, StartPlanning, Executing,
         Completed, Paused

\* What AnnounceTrajectory(h) does to session and locals.
LEMMA Announcement ==
    ASSUME TypeInv, NEW h \in Handlers, AnnounceTrajectory(h)
    PROVE  /\ Announcing(h) /\ session'.active = job[h].tid
           /\ UNCHANGED issued
           /\ \A g \in Handlers : Announcing(g)' => /\ g # h /\ Announcing(g)
                                                   /\ job'[g].tid = job[g].tid
  BY DEF AnnounceTrajectory, TrajectoryReady, Send, Proceed, Announcing, At, TypeInv, TypeOK

LEMMA IdsUniqueStep == TypeInv /\ IdsUnique /\ [Next]_vars => IdsUnique'
<1> SUFFICES ASSUME TypeInv, IdsUnique, [Next]_vars PROVE IdsUnique'
  OBVIOUS
<1>0. session.active \in Nat /\ issued \in Nat /\ \A h \in Handlers : job[h].tid \in Nat
  BY DEF TypeInv, TypeOK, Session, Job
<1>1. CASE \E h \in Handlers : AnnounceTrajectory(h)
  <2>1. PICK h \in Handlers : AnnounceTrajectory(h)
    BY <1>1
  <2>2. session'.active = job[h].tid /\ Announcing(h) /\ UNCHANGED issued
    BY <2>1, Announcement
  <2>3. \A g \in Handlers : Announcing(g)' => g # h /\ Announcing(g) /\ job'[g].tid =
     job[g].tid
    BY <2>1, Announcement
  <2> QED BY <1>0, <2>2, <2>3 DEF IdsUnique
<1>2. CASE ~(\E h \in Handlers : AnnounceTrajectory(h)) /\ \E h \in Handlers : Draws(h)
  <2>1. PICK h \in Handlers : Draws(h)
    BY <1>2
  <2>2. \A g \in Handlers \ {h} : Announcing(g)' => Announcing(g) /\ job'[g].tid =
     job[g].tid
    BY <2>1 DEF Draws, Announcing, At
  <2> QED BY <1>0, <2>1, <2>2 DEF Draws, IdsUnique
<1>3. CASE ~(\E h \in Handlers : AnnounceTrajectory(h)) /\ NoneDrawn
  <2>1. session'.active \in {session.active, NoTid}
    BY <1>3, SessionMoves, ActiveMoves
  <2> QED BY <1>0, <1>3, <2>1 DEF NoneDrawn, IdsUnique, NoTid
<1> QED BY <1>1, <1>2, <1>3, IdMoves DEF IdMove

\* No two trajectories that a client can tell apart only by their id share one, in
\* every interleaving of any number of handlers.
THEOREM UniqueIds == Spec => []IdsUnique
<1>1. Init => IdsUnique
  BY DEF Init, InitSession, IdsUnique, Announcing, At, NoTid
<1> QED BY <1>1, IdsUniqueStep, TypeCorrect, PTL DEF Spec

-----------------------------------------------------------------------------
\* Plans under way.

\* A step ends PLANNING, begins a plan, or takes no handler out of its plan.
PlanMove ==
    \/ session'.state # "PLANNING"
    \/ \E h \in Handlers : InPlan(h)'
    \/ /\ session.state = "PLANNING"
       /\ \A h \in Handlers : InPlan(h) => InPlan(h)'

LEMMA PlanMoves ==
    ASSUME TypeInv, [Next]_vars PROVE PlanMove
<1> USE DEF PlanMove, InPlan, At, shared, Silently, AckThen, Send, Proceed, Session
<1>t. DOMAIN pc = Handlers /\ session \in Session
  BY DEF TypeInv, TypeOK
<1>1. ASSUME NEW h \in Handlers, NEW m \in Messages, Receive(h, m) PROVE PlanMove
  <2>1. CASE ReceivePose(h, m)
    BY <2>1, <1>t DEF ReceivePose
  <2>2. CASE ReceiveParking(h, m)
    BY <2>2, <1>t DEF ReceiveParking
  <2>3. CASE ReceivePlanRequest(h, m)
    BY <2>3, <1>t DEF ReceivePlanRequest
  <2>4. CASE ReceiveStatus(h, m)
    BY <2>4, <1>t DEF ReceiveStatus, Executing, Completed, Paused
  <2>5. CASE ReceiveReplanStatus(h, m)
    BY <2>5, <1>t DEF ReceiveReplanStatus
  <2>6. CASE ReceivePauseEvent(h, m)
    BY <2>6, <1>t DEF ReceivePauseEvent, Paused
  <2>7. CASE ReceiveReplanEvent(h, m)
    BY <2>7, <1>t DEF ReceiveReplanEvent
  <2>8. CASE ReceiveOther(h, m)
    BY <2>8, <1>t DEF ReceiveOther
  <2> QED BY <1>1, <2>1, <2>2, <2>3, <2>4, <2>5, <2>6, <2>7, <2>8 DEF Receive
<1>2. ASSUME NEW h \in Handlers, Step(h) PROVE PlanMove
  <2>1. CASE PoseStart(h)
    BY <2>1, <1>t DEF PoseStart, Started, NewSession, InitSession
  <2>2. CASE PoseCheck(h)
    BY <2>2, <1>t DEF PoseCheck
  <2>3. CASE PoseParking(h)
    BY <2>3, <1>t DEF PoseParking
  <2>4. CASE ParkStart(h)
    BY <2>4, <1>t DEF ParkStart, Started, NewSession, InitSession
  <2>5. CASE ParkCheck(h)
    BY <2>5, <1>t DEF ParkCheck
  <2>6. CASE ParkInvalid(h)
    BY <2>6, <1>t DEF ParkInvalid, TargetInvalid, Replan, InitSession
  <2>7. CASE ParkState(h)
    BY <2>7, <1>t DEF ParkState
  <2>8. CASE StartNewSession(h)
    BY <2>8, <1>t DEF StartNewSession, NewSession, InitSession
  <2>9. CASE RequestReplan(h)
    BY <2>9, <1>t DEF RequestReplan, Replan, InitSession
  <2>10. CASE ClearSafety(h)
    BY <2>10, <1>t DEF ClearSafety, SafetyCleared, Replan, InitSession
  <2>11. CASE Ack(h)
    BY <2>11, <1>t DEF Ack
  <2>12. CASE TakeSnapshot(h)
    BY <2>12, <1>t DEF TakeSnapshot
  <2>13. CASE SetWaiting(h)
    BY <2>13, <1>t DEF SetWaiting, Waiting, Started, NewSession, InitSession
  <2>14. CASE BeginPlanning(h)
    BY <2>14, <1>t DEF BeginPlanning
  <2>15. CASE AcquirePlanner(h)
    BY <2>15, <1>t DEF AcquirePlanner
  <2>16. CASE Search(h)
    BY <2>16, <1>t DEF Search
  <2>17. CASE VerifyGenerations(h)
    BY <2>17, <1>t DEF VerifyGenerations
  <2>18. CASE InputChanged(h)
    BY <2>18, <1>t DEF InputChanged, Replan, InitSession
  <2>19. CASE RecheckFreshness(h)
    BY <2>19, <1>t DEF RecheckFreshness
  <2>20. CASE BuildTrajectory(h)
    BY <2>20, <1>t DEF BuildTrajectory
  <2>21. CASE AnnounceTrajectory(h)
    BY <2>21, <1>t DEF AnnounceTrajectory, TrajectoryReady
  <2> QED BY <1>2, <2>1, <2>2, <2>3, <2>4, <2>5, <2>6, <2>7, <2>8, <2>9, <2>10, <2>11,
         <2>12, <2>13, <2>14, <2>15, <2>16, <2>17, <2>18, <2>19, <2>20, <2>21 DEF Step
<1>3. ASSUME NEW h \in Handlers, Connect(h) \/ Break(h) \/ EndOfFile(h) PROVE PlanMove
  <2>1. CASE Connect(h)
    BY <2>1, <1>t DEF Connect
  <2>2. CASE Break(h)
    BY <2>2, <1>t DEF Break
  <2>3. CASE EndOfFile(h)
    BY <2>3, <1>t DEF EndOfFile
  <2> QED BY <1>3, <2>1, <2>2, <2>3
<1>4. CASE AgePose \/ AgeParking \/ UNCHANGED vars
    BY <1>4 DEF AgePose, AgeParking, vars
<1> QED BY <1>1, <1>2, <1>3, <1>4 DEF Next

\* However handlers overtake one another, a session in PLANNING has a handler that
\* works on a plan.
THEOREM PlansOwned == Spec => []PlanningOwned
<1>1. Init => PlanningOwned
  BY DEF Init, InitSession, PlanningOwned
<1>2. TypeInv /\ PlanningOwned /\ [Next]_vars => PlanningOwned'
  BY PlanMoves DEF PlanMove, PlanningOwned
<1> QED BY <1>1, <1>2, TypeCorrect, PTL DEF Spec

-----------------------------------------------------------------------------
\* Trajectories that were stopped.

\* NeverResumed is not inductive: an id is drawn before it is announced, and must
\* not have been stopped in between.
StoppedInv ==
    /\ stopped \subseteq 1 .. issued
    /\ \A h \in Handlers : Announcing(h) => job[h].tid \notin stopped
    /\ NeverResumed

\* A session becomes ready or executing by an announcement only.
LEMMA RunningMoves ==
    ASSUME TypeInv, SessionMove, Running(session)'
    PROVE  \/ Running(session) /\ session'.active = session.active
           \/ \E h \in Handlers : AnnounceTrajectory(h)
  BY DEF SessionMove, TypeInv, TypeOK, Session, Running, Started, NewSession, InitSession,
         TargetInvalid, Replan, SafetyCleared, Waiting, StartPlanning, Executing,
         Completed, Paused

LEMMA StoppedStep ==
    ASSUME TypeInv, SessionCoherent, IdsUnique, StoppedInv, [Next]_vars,
           Remember \/ UNCHANGED historyVars
    PROVE  StoppedInv'
<1>0. /\ session.active \in Nat /\ issued \in Nat
      /\ \A h \in Handlers : job[h].tid \in Nat
  BY DEF TypeInv, TypeOK, Session, Job
<1>1. /\ stopped' \subseteq stopped \cup {session.active}
      /\ session.active \in stopped' => session.active \in stopped \/ Running(session)
      /\ Running(session)' /\ Running(session) /\ session'.active = session.active
           => stopped' = stopped
  BY DEF Remember, historyVars, vars
<1>2. stopped' \subseteq 1 .. issued
  <2>1. Running(session) => session.active \in 1 .. issued
    BY <1>0 DEF IdsUnique, SessionCoherent, Running, NoTid
  <2> QED BY <1>1, <2>1 DEF StoppedInv, Remember, historyVars, vars
<1>3. CASE \E h \in Handlers : AnnounceTrajectory(h)
  <2>1. PICK h \in Handlers : AnnounceTrajectory(h)
    BY <1>3
  <2>2. session'.active = job[h].tid /\ Announcing(h) /\ UNCHANGED issued
    BY <2>1, Announcement
  <2>3. \A g \in Handlers : Announcing(g)' => Announcing(g) /\ job'[g].tid = job[g].tid
    BY <2>1, Announcement
  <2> QED BY <1>1, <1>2, <2>2, <2>3 DEF StoppedInv, NeverResumed, IdsUnique
<1>4. CASE ~(\E h \in Handlers : AnnounceTrajectory(h)) /\ \E h \in Handlers : Draws(h)
  <2>1. PICK h \in Handlers : Draws(h)
    BY <1>4
  <2>2. \A g \in Handlers \ {h} : Announcing(g)' => Announcing(g) /\ job'[g].tid =
     job[g].tid
    BY <2>1 DEF Draws, Announcing, At
  <2>3. stopped' = stopped \/ ~Running(session)'
    BY <2>1, <1>1 DEF Draws, Running
  <2>4. \A g \in Handlers : Announcing(g)' => job'[g].tid \notin stopped'
    BY <1>0, <1>1, <1>2, <2>1, <2>2 DEF Draws, StoppedInv, IdsUnique
  <2>5. stopped' \subseteq 1 .. issued'
    BY <1>0, <1>2, <2>1 DEF Draws
  <2> QED BY <1>1, <2>1, <2>3, <2>4, <2>5 DEF Draws, StoppedInv, NeverResumed, Running
<1>5. CASE ~(\E h \in Handlers : AnnounceTrajectory(h)) /\ NoneDrawn
  <2>1. Running(session)' => Running(session) /\ session'.active = session.active
    BY <1>5, SessionMoves, RunningMoves
  <2>2. NeverResumed'
    BY <1>1, <2>1 DEF StoppedInv, NeverResumed, Running
  <2> QED BY <1>1, <1>2, <1>5, <2>2 DEF NoneDrawn, StoppedInv, IdsUnique
<1> QED BY <1>3, <1>4, <1>5, IdMoves DEF IdMove

\* "A trajectory is never resumed blindly after a safety pause": an id that stopped
\* being ready or executing never is again, however many connections there are.
THEOREM NothingResumed == HistorySpec => []NeverResumed
<1>1. HistorySpec => Spec
  <2>1. HistoryInit => Init
    BY DEF HistoryInit
  <2>2. [Next /\ Remember]_historyVars => [Next]_vars
    BY DEF historyVars
  <2> QED BY <2>1, <2>2, PTL DEF HistorySpec, Spec
<1>2. HistoryInit => StoppedInv
  BY DEF HistoryInit, Init, InitSession, StoppedInv, NeverResumed, Running, Announcing, At
<1>3. ASSUME TypeInv, SessionCoherent, IdsUnique, StoppedInv, [Next /\ Remember]_historyVars
      PROVE  StoppedInv'
  BY <1>3, StoppedStep DEF historyVars
<1>4. StoppedInv => NeverResumed
  BY DEF StoppedInv
<1> QED BY <1>1, <1>2, <1>3, <1>4, TypeCorrect, Coherent, UniqueIds, PTL DEF HistorySpec
=============================================================================
