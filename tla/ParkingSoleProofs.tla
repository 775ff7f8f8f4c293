--------------------------- MODULE ParkingSoleProofs ---------------------------
(***************************************************************************)
(* The parking server with one connection at a time: the session's pause   *)
(* reason, the target of a trajectory that may be driven, and the lease    *)
(* that ParkingServerRefinement states.  With one handler nothing comes    *)
(* between two of its locked calls, so what it read at one label still     *)
(* holds at the next; Sole says what that is.                              *)
(***************************************************************************)
EXTENDS ParkingSafetyProofs, ParkingServerRefinement

\* The states without a trajectory, and those from which a plan is begun.
Withdrawn == {"IDLE", "WAITING_INPUT", "PLANNING", "REPLAN"}
Waits == {"WAITING_INPUT", "REPLAN"}

\* Labels at which the session is in PLANNING, and at which the locals hold the
\* latest free slots.
Plans == {"acquire", "search", "verify", "inputChanged", "recheck", "build", "announce"}
Informed == {"parkStart", "parkCheck", "begin", "acquire", "search", "verify",
             "recheck", "build", "announce"}

\* About to plan, p being the label and j the locals.
Begins(p, j) ==
    p \in {"poseParking", "snapshot", "begin"} \/ (p = "ack" /\ j.after = "snapshot")

Sole(p, j, s, free, n) ==
    /\ s.pause <=> s.state = "PAUSED"
    /\ s.state \in Withdrawn => s.active = NoTid
    /\ s.state = "PLANNING" => p \in Plans \cup {"setWaiting"}
    /\ Begins(p, j) => s.state \in Waits
    /\ p \in Plans => s.state = "PLANNING"
    /\ p = "setWaiting" => s.state \in Waits \cup {"PLANNING"}
    /\ p \in Informed => j.free = free
    /\ p = "announce" => j.pick \in j.free /\ j.tid = n
    /\ Running(s) /\ p \notin {"parkStart", "parkCheck", "parkInvalid"} => s.target \in free

SoleInv(h) == Sole(pc[h], job[h], session, latestFree, issued)

LEMMA SoleInit ==
    ASSUME NEW h \in Handlers, Init PROVE SoleInv(h)
  BY DEF Init, SoleInv, Sole, Begins, InitSession, NoTid, NoJob, Running, Withdrawn, Waits,
         Plans, Informed

-----------------------------------------------------------------------------
\* Where a handler goes, in terms of its own label and locals.
LEMMA Goes ==
    ASSUME TypeInv, NEW h \in Handlers, NEW l, NEW j, Proceed(h, l, j)
    PROVE  /\ pc'[h] = l
           /\ job'[h] = IF l \in {"idle", "off"} THEN NoJob ELSE j
  BY DEF TypeInv, TypeOK, Proceed

LEMMA Answers ==
    ASSUME TypeInv, NEW h \in Handlers, NEW l, NEW seq, AckThen(h, l, seq)
    PROVE  pc'[h] = "ack" /\ job'[h].after = l
<1>1. Silently(h, "ack", [NoJob EXCEPT !.after = l, !.seq = seq])
  BY DEF AckThen
<1>2. pc'[h] = "ack" /\ job'[h] = [NoJob EXCEPT !.after = l, !.seq = seq]
  BY <1>1, Goes DEF Silently
<1>3. [NoJob EXCEPT !.after = l, !.seq = seq].after = l
  BY DEF NoJob
<1> QED BY <1>2, <1>3

LEMMA Sends ==
    ASSUME TypeInv, NEW h \in Handlers, NEW msg, NEW l, NEW j, Send(h, msg, l, j)
    PROVE  pc'[h] \in {l, "off"}
  BY Goes DEF Send

\* A message read from the connection.
LEMMA SoleReceive ==
    ASSUME TypeInv, NEW h \in Handlers, SoleInv(h), At(h, "idle"),
           NEW m \in Messages, Receive(h, m)
    PROVE  SoleInv(h)'
<1> USE DEF SoleInv, Sole, Begins, Withdrawn, Waits, Plans, Informed, Running, At, shared
<1>0. session \in Session /\ job[h] \in Job
  BY DEF TypeInv, TypeOK
<1>1. CASE ReceivePose(h, m)
  <2>1. pc'[h] = "poseStart"
    BY <1>1, Goes DEF ReceivePose, Silently
  <2> QED BY <1>1, <2>1 DEF ReceivePose
<1>2. CASE ReceiveParking(h, m)
  <2>1. pc'[h] = "parkStart" /\ job'[h] = [job[h] EXCEPT !.free = m.free]
    BY <1>2, Goes DEF ReceiveParking, Silently
  <2>2. job'[h].free = latestFree'
    BY <1>0, <1>2, <2>1 DEF ReceiveParking, Job
  <2> QED BY <1>2, <2>1, <2>2 DEF ReceiveParking
<1>3. CASE ReceivePlanRequest(h, m)
  <2>1. \/ pc'[h] \in {"newSession", "requestReplan"}
        \/ pc'[h] = "ack" /\ job'[h].after = "idle"
        \/ /\ pc'[h] = "ack" /\ job'[h].after = "snapshot"
           /\ session.state \notin {"IDLE", "COMPLETED", "PAUSED"} /\ ~Running(session)
    BY <1>3, Goes, Answers DEF ReceivePlanRequest, Silently
  <2>2. session.state \notin {"IDLE", "COMPLETED", "PAUSED"} /\ ~Running(session)
          => session.state \in Waits
    BY <1>0 DEF Session, SessionStates
  <2> QED BY <1>3, <2>1, <2>2 DEF ReceivePlanRequest
<1>4. CASE ReceiveStatus(h, m)
  <2>1. pc'[h] = "ack" /\ job'[h].after = "idle"
    BY <1>4, Answers DEF ReceiveStatus
  <2> QED BY <1>0, <1>4, <2>1 DEF ReceiveStatus, Session, Executing, Completed, Paused, CanPause,
                                 Matches
<1>5. CASE ReceiveReplanStatus(h, m)
  <2>1. pc'[h] = "requestReplan" \/ (pc'[h] = "ack" /\ job'[h].after = "idle")
    BY <1>5, Goes, Answers DEF ReceiveReplanStatus, Silently
  <2> QED BY <1>5, <2>1 DEF ReceiveReplanStatus
<1>6. CASE ReceivePauseEvent(h, m)
  <2>1. pc'[h] = "ack" /\ job'[h].after = "idle"
    BY <1>6, Answers DEF ReceivePauseEvent
  <2> QED BY <1>0, <1>6, <2>1 DEF ReceivePauseEvent, Session, Paused, CanPause, Matches
<1>7. CASE ReceiveReplanEvent(h, m)
  <2>1. \/ pc'[h] \in {"requestReplan", "clearSafety"}
        \/ pc'[h] = "ack" /\ job'[h].after = "idle"
    BY <1>7, Goes, Answers DEF ReceiveReplanEvent, Silently
  <2> QED BY <1>7, <2>1 DEF ReceiveReplanEvent
<1>8. CASE ReceiveOther(h, m)
  <2>1. pc'[h] \in {"idle", "off"}
    BY <1>8, Sends DEF ReceiveOther
  <2> QED BY <1>8, <2>1 DEF ReceiveOther
<1> QED BY <1>1, <1>2, <1>3, <1>4, <1>5, <1>6, <1>7, <1>8 DEF Receive

\* A step of the handler on its own.
LEMMA SoleAlone ==
    ASSUME TypeInv, SessionCoherent, NEW h \in Handlers, SoleInv(h), Step(h)
    PROVE  SoleInv(h)'
<1> USE DEF SoleInv, Sole, Begins, Withdrawn, Waits, Plans, Informed, Running, At, shared
<1>0. session \in Session /\ job[h] \in Job /\ pc[h] \in Labels
  BY DEF TypeInv, TypeOK
<1>1. CASE PoseStart(h)
  <2>1. pc'[h] = "ack" /\ job'[h].after = "poseCheck"
    BY <1>1, Answers DEF PoseStart
  <2> QED BY <1>0, <1>1, <2>1 DEF PoseStart, Session, Started, NewSession, InitSession, NoTid
<1>2. CASE PoseCheck(h)
  <2>1. \/ pc'[h] = "poseParking" /\ session.state = "WAITING_INPUT"
        \/ pc'[h] = "idle"
    BY <1>2, Goes DEF PoseCheck, Silently
  <2> QED BY <1>2, <2>1 DEF PoseCheck
<1>3. CASE PoseParking(h)
  <2>1. pc'[h] \in {"snapshot", "idle"}
    BY <1>3, Goes DEF PoseParking, Silently
  <2> QED BY <1>3, <2>1 DEF PoseParking
<1>4. CASE ParkStart(h)
  <2>1. pc'[h] = "parkCheck" /\ job'[h] = job[h]
    BY <1>4, Goes DEF ParkStart, Silently
  <2> QED BY <1>0, <1>4, <2>1 DEF ParkStart, Session, Started, NewSession, InitSession, NoTid
<1>5. CASE ParkCheck(h)
  <2>1. \/ pc'[h] = "parkInvalid"
        \/ pc'[h] = "parkState" /\ (session.target # NoSlot => session.target \in job[h].free)
    BY <1>5, Goes DEF ParkCheck, Silently
  <2>2. Running(session) => session.target # NoSlot
    BY DEF SessionCoherent
  <2> QED BY <1>5, <2>1, <2>2 DEF ParkCheck
<1>6. CASE ParkInvalid(h)
  <2>1. /\ pc'[h] = "ack"
        /\ job'[h].after = IF InvalidTargetReplans(session) THEN "snapshot" ELSE "idle"
    BY <1>6, Answers DEF ParkInvalid
  <2>2. Running(session) => InvalidTargetReplans(session)
    BY DEF SessionCoherent, InvalidTargetReplans
  <2> QED BY <1>0, <1>6, <2>1, <2>2 DEF ParkInvalid, Session, TargetInvalid, Replan, InitSession,
                                      NoTid
<1>7. CASE ParkState(h)
  <2>1. /\ pc'[h] = "ack"
        /\ job'[h].after = IF session.state \in Waits THEN "snapshot" ELSE "idle"
    BY <1>7, Answers DEF ParkState
  <2> QED BY <1>7, <2>1 DEF ParkState
<1>8. CASE StartNewSession(h)
  <2>1. pc'[h] = "ack" /\ job'[h].after = "snapshot"
    BY <1>8, Answers DEF StartNewSession
  <2> QED BY <1>8, <2>1 DEF StartNewSession, NewSession, InitSession, NoTid
<1>9. CASE RequestReplan(h)
  <2>1. pc'[h] = "ack" /\ job'[h].after = "snapshot"
    BY <1>9, Answers DEF RequestReplan
  <2> QED BY <1>9, <2>1 DEF RequestReplan, Replan, InitSession, NoTid
<1>10. CASE ClearSafety(h)
  <2>1. /\ pc'[h] = "ack"
        /\ job'[h].after = IF CanClearSafety(session) THEN "snapshot" ELSE "idle"
    BY <1>10, Answers DEF ClearSafety
  <2> QED BY <1>10, <2>1 DEF ClearSafety, SafetyCleared, Replan, InitSession, NoTid
<1>11. CASE Ack(h)
  <2>1. pc'[h] \in {job[h].after, "off"} /\ job[h].after \in {"idle", "snapshot", "poseCheck"}
    BY <1>0, <1>11, Sends DEF Ack, Job
  <2> QED BY <1>11, <2>1 DEF Ack
<1>12. CASE TakeSnapshot(h)
  <2>1. \/ pc'[h] \in {"idle", "setWaiting"}
        \/ pc'[h] = "begin" /\ job'[h] = [job[h] EXCEPT !.free = latestFree]
    BY <1>12, Goes DEF TakeSnapshot, Silently
  <2>2. pc'[h] = "begin" => job'[h].free = latestFree
    BY <1>0, <2>1 DEF Job
  <2> QED BY <1>12, <2>1, <2>2 DEF TakeSnapshot
<1>13. CASE SetWaiting(h)
  <2>1. pc'[h] \in {"idle", "off"}
    BY <1>13, Sends DEF SetWaiting
  <2> QED BY <1>0, <1>13, <2>1 DEF SetWaiting, Session, Waiting, Started
<1>14. CASE BeginPlanning(h)
  <2>1. pc'[h] = "acquire" /\ job'[h] = job[h]
    BY <1>14, Goes DEF BeginPlanning, Silently
  <2> QED BY <1>0, <1>14, <2>1 DEF BeginPlanning, Session, StartPlanning, Started
<1>15. CASE AcquirePlanner(h)
  <2>1. pc'[h] = "search" /\ job'[h] = job[h]
    BY <1>15, Goes DEF AcquirePlanner, Silently
  <2> QED BY <1>15, <2>1 DEF AcquirePlanner
<1>16. CASE Search(h)
  <2>1. PICK slot : Silently(h, "verify", [job[h] EXCEPT !.pick = slot])
    BY <1>16 DEF Search
  <2>2. pc'[h] = "verify" /\ job'[h].free = job[h].free
    BY <1>0, <2>1, Goes DEF Silently, Job
  <2> QED BY <1>16, <2>2 DEF Search
<1>17. CASE VerifyGenerations(h)
  <2>1. pc'[h] \in {"inputChanged", "recheck"} /\ job'[h] = job[h]
    BY <1>17, Goes DEF VerifyGenerations, Silently
  <2> QED BY <1>17, <2>1 DEF VerifyGenerations
<1>18. CASE InputChanged(h)
  <2>1. pc'[h] \in {"idle", "off"}
    BY <1>18, Sends DEF InputChanged
  <2> QED BY <1>18, <2>1 DEF InputChanged, Replan, InitSession, NoTid
<1>19. CASE RecheckFreshness(h)
  <2>1. pc'[h] \in {"build", "setWaiting"} /\ job'[h] = job[h]
    BY <1>19, Goes DEF RecheckFreshness, Silently
  <2> QED BY <1>19, <2>1 DEF RecheckFreshness
<1>20. CASE BuildTrajectory(h)
  <2>1. CASE Silently(h, "setWaiting", job[h]) /\ UNCHANGED issued
    <3>1. pc'[h] = "setWaiting"
      BY <2>1, Goes DEF Silently
    <3> QED BY <1>20, <2>1, <3>1 DEF BuildTrajectory
  <2>2. CASE /\ job[h].pick \in job[h].free
             /\ Silently(h, "announce", [job[h] EXCEPT !.tid = issued'])
    <3>1. pc'[h] = "announce" /\ job'[h] = [job[h] EXCEPT !.tid = issued']
      BY <2>2, Goes DEF Silently
    <3>2. /\ job'[h].tid = issued'
          /\ job'[h].free = job[h].free /\ job'[h].pick = job[h].pick
      BY <1>0, <3>1 DEF Job
    <3> QED BY <1>20, <2>2, <3>1, <3>2 DEF BuildTrajectory
  <2> QED BY <1>20, <2>1, <2>2 DEF BuildTrajectory
<1>21. CASE AnnounceTrajectory(h)
  <2>1. pc'[h] \in {"idle", "off"}
    BY <1>21, Sends DEF AnnounceTrajectory
  <2> QED BY <1>21, <2>1 DEF AnnounceTrajectory, TrajectoryReady
<1> QED BY <1>1, <1>2, <1>3, <1>4, <1>5, <1>6, <1>7, <1>8, <1>9, <1>10, <1>11, <1>12, <1>13,
       <1>14, <1>15, <1>16, <1>17, <1>18, <1>19, <1>20, <1>21 DEF Step

LEMMA SoleStep ==
    ASSUME TypeInv, SessionCoherent, NEW h \in Handlers, Handlers = {h}, SoleInv(h), [Next]_vars
    PROVE  SoleInv(h)'
<1>1. ASSUME NEW m \in Messages, At(h, "idle"), Receive(h, m) PROVE SoleInv(h)'
  BY <1>1, SoleReceive
<1>2. CASE Step(h)
  BY <1>2, SoleAlone
<1> USE DEF SoleInv, Sole, Begins, Withdrawn, Waits, Plans, Informed, Running, At, shared
<1>3. CASE Connect(h)
  <2>1. pc'[h] = "idle"
    BY <1>3, Goes DEF Connect
  <2> QED BY <1>3, <2>1 DEF Connect
<1>4. CASE Break(h)
  BY <1>4 DEF Break
<1>5. CASE EndOfFile(h)
  <2>1. pc'[h] = "off"
    BY <1>5, Goes DEF EndOfFile, Silently
  <2> QED BY <1>5, <2>1 DEF EndOfFile
<1>6. CASE AgePose \/ AgeParking \/ UNCHANGED vars
  BY <1>6 DEF AgePose, AgeParking, vars
<1> QED BY <1>1, <1>2, <1>3, <1>4, <1>5, <1>6 DEF Next

LEMMA SoleInvariant ==
    ASSUME NEW h \in Handlers, Handlers = {h} PROVE Spec => []SoleInv(h)
<1>1. Init => SoleInv(h)
  BY SoleInit
<1>2. TypeInv /\ SessionCoherent /\ SoleInv(h) /\ [Next]_vars => SoleInv(h)'
  BY SoleStep
<1> QED BY <1>1, <1>2, TypeCorrect, Coherent, PTL DEF Spec

-----------------------------------------------------------------------------
\* With one connection at a time a pause reason is on record exactly while the
\* session is paused (mark_paused and whatever leaves PAUSED).
THEOREM PauseReasons ==
    ASSUME NEW h \in Handlers, Handlers = {h} PROVE Spec => []PauseReasonIffPaused
<1>1. SoleInv(h) => PauseReasonIffPaused
  BY DEF SoleInv, Sole, PauseReasonIffPaused
<1> QED BY <1>1, SoleInvariant, PTL

\* Between two messages of the only connection a trajectory that may be driven
\* ends in a slot that the latest parking status reports FREE, however the
\* statuses, the search and the session's other messages are ordered.
THEOREM TargetsFree ==
    ASSUME NEW h \in Handlers, Handlers = {h} PROVE Spec => []TargetStillFree
<1>1. SoleInv(h) => TargetStillFree
  BY DEF SoleInv, Sole, TargetStillFree, AtRest
<1> QED BY <1>1, SoleInvariant, PTL

-----------------------------------------------------------------------------
\* The lease.

\* The only handler leaves "announce" with its announcement.
LEMMA StaysAtAnnounce ==
    ASSUME TypeInv, NEW h \in Handlers, Handlers = {h}, [Next]_vars, Announcing(h),
           ~AnnounceTrajectory(h)
    PROVE  Announcing(h)' /\ UNCHANGED issued
<1> USE DEF Announcing, At, shared
<1>1. ~Step(h)
  BY DEF Step, PoseStart, PoseCheck, PoseParking, ParkStart, ParkCheck, ParkInvalid,
         ParkState, StartNewSession, RequestReplan, ClearSafety, Ack, TakeSnapshot,
         SetWaiting, BeginPlanning, AcquirePlanner, Search, VerifyGenerations,
         InputChanged, RecheckFreshness, BuildTrajectory
<1>2. ~Connect(h) /\ ~EndOfFile(h)
  BY DEF Connect, EndOfFile
<1>3. CASE Break(h)
  BY <1>3 DEF Break
<1>4. CASE AgePose \/ AgeParking \/ UNCHANGED vars
  BY <1>4 DEF AgePose, AgeParking, vars
<1> QED BY <1>1, <1>2, <1>3, <1>4 DEF Next

\* What the session may do between announcements, seen as a lease.
LEMMA LeaseMove ==
    ASSUME session \in Session, session' \in Session, SessionCoherent,
           session.state \in Withdrawn => session.active = NoTid,
           session'.state \in Withdrawn => session'.active = NoTid,
           SessionMove, ~(\E h \in Handlers : AnnounceTrajectory(h)), UNCHANGED LastAnnounced
    PROVE  [Lease!Next]_(Lease!vars)
<1> USE DEF Lease!Next, Lease!vars, LeaseOf, Withdrawn, NoTid
<1>0. session.state \in SessionStates /\ session'.state \in SessionStates
  BY DEF Session
<1>1. CASE UNCHANGED session
  BY <1>1
<1>2. CASE session'.state \in Withdrawn
  <2>1. CASE session.state \in Withdrawn
    BY <1>2, <2>1
  <2>2. CASE session.state \notin Withdrawn
    BY <1>0, <1>2, <2>2 DEF Lease!Withdraw, SessionStates
  <2> QED BY <2>1, <2>2
<1>3. CASE session'.state \notin Withdrawn /\ session'.state = session.state
            /\ session'.active = session.active
  BY <1>3
<1>4. ASSUME NEW tid \in Nat, session' = Executing(session, tid) PROVE [Lease!Next]_(Lease!vars)
  <2>1. CASE Running(session)
    BY <1>0, <1>1, <1>4, <2>1 DEF Executing, Running, Lease!Run, Session
  <2> QED BY <1>1, <1>4, <2>1 DEF Executing
<1>5. ASSUME NEW tid \in Nat, session' = Completed(session, tid) PROVE [Lease!Next]_(Lease!vars)
  <2>1. CASE Running(session)
    BY <1>0, <1>1, <1>5, <2>1 DEF Completed, Running, Lease!Finish, Session
  <2> QED BY <1>1, <1>5, <2>1 DEF Completed
<1>6. ASSUME NEW tid \in Nat, NEW b \in BOOLEAN, session' = Paused(session, tid, b)
      PROVE [Lease!Next]_(Lease!vars)
  <2>1. CASE CanPause(session, tid)
    BY <1>0, <1>1, <1>6, <2>1 DEF Paused, CanPause, Running, Lease!Hold, Session
  <2> QED BY <1>1, <1>6, <2>1 DEF Paused
<1>7. CASE session' \in {Started(session), NewSession(session), TargetInvalid(session),
                         Replan(session), SafetyCleared(session), Waiting(session),
                         StartPlanning(session)}
  <2>1. \/ session'.state \in Withdrawn
        \/ session'.state = session.state /\ session'.active = session.active
    BY <1>7 DEF Session, Started, NewSession, TargetInvalid, Replan, SafetyCleared, Waiting,
                StartPlanning, InitSession
  <2> QED BY <1>2, <1>3, <2>1
<1> QED BY <1>1, <1>4, <1>5, <1>6, <1>7 DEF SessionMove

LEMMA LeaseStep ==
    ASSUME TypeInv, SessionCoherent, IdsUnique, NEW h \in Handlers, Handlers = {h},
           SoleInv(h), SoleInv(h)', [Next]_vars
    PROVE  [Lease!Next]_(Lease!vars)
<1> USE DEF Lease!Next, Lease!vars
<1>0. session \in Session /\ session' \in Session
  BY NextType DEF TypeInv, TypeOK
<1>1. CASE AnnounceTrajectory(h)
  <2>1. /\ Announcing(h) /\ session'.active = job[h].tid /\ UNCHANGED issued
        /\ ~Announcing(h)'
    BY <1>1, Announcement
  <2>2. job[h].tid = issued /\ session.state = "PLANNING"
    BY <2>1 DEF SoleInv, Sole, Announcing, At, Plans
  <2>3. issued \in Nat /\ issued > 0
    BY <2>1, <2>2 DEF TypeInv, TypeOK, AnnouncesWell, NoTid
  <2>4. LastAnnounced = issued - 1 /\ LastAnnounced' = issued
    BY <2>1 DEF LastAnnounced
  <2>5. session'.state = "TRAJECTORY_READY"
    BY <1>1 DEF AnnounceTrajectory, TrajectoryReady
  <2> QED BY <2>1, <2>2, <2>3, <2>4, <2>5 DEF Lease!Offer, LeaseOf
<1>2. CASE ~AnnounceTrajectory(h)
  <2>1. UNCHANGED LastAnnounced
    <3>1. CASE Announcing(h)
      BY <1>2, <3>1, StaysAtAnnounce DEF LastAnnounced
    <3>2. CASE ~Announcing(h) /\ NoneDrawn
      BY <3>2 DEF NoneDrawn, LastAnnounced
    <3>3. CASE ~Announcing(h) /\ Draws(h)
      <4>1. issued \in Nat
        BY DEF TypeInv, TypeOK
      <4> QED BY <3>3, <4>1 DEF Draws, LastAnnounced
    <3> QED BY <1>2, <3>1, <3>2, <3>3, IdMoves DEF IdMove
  <2>2. /\ session.state \in Withdrawn => session.active = NoTid
        /\ session'.state \in Withdrawn => session'.active = NoTid
    BY DEF SoleInv, Sole
  <2> QED BY <1>0, <1>2, <2>1, <2>2, SessionMoves, LeaseMove
<1> QED BY <1>1, <1>2

\* A server with one connection at a time implements TrajectoryLease: whatever
\* the order of messages, a trajectory on hold is never driven again, one that is
\* done is only withdrawn, and the next is offered when none is out.
THEOREM KeepsLease ==
    ASSUME NEW h \in Handlers, Handlers = {h} PROVE Spec => ImplementsLease
<1>1. Init => Lease!Init
  BY DEF Init, InitSession, Lease!Init, LeaseOf, LastAnnounced, Announcing, At, NoTid
<1>2. TypeInv /\ SessionCoherent /\ IdsUnique /\ SoleInv(h) /\ SoleInv(h)' /\ [Next]_vars
        => [Lease!Next]_(Lease!vars)
  BY LeaseStep
<1> QED BY <1>1, <1>2, TypeCorrect, Coherent, UniqueIds, SoleInvariant, PTL
       DEF Spec, ImplementsLease, Lease!Spec
=============================================================================
