------------------------- MODULE ParkingServerProofs -------------------------
(***************************************************************************)
(* Theorems about the parking server, for any set of slots, any number of  *)
(* handler threads and any number of trajectories.                         *)
(***************************************************************************)
EXTENDS ParkingServerHistory, TLAPS

-----------------------------------------------------------------------------
\* The operations of the session return sessions.
LEMMA SessionOps ==
    ASSUME NEW s \in Session
    PROVE  /\ Started(s) \in Session /\ NewSession(s) \in Session
           /\ Waiting(s) \in Session /\ StartPlanning(s) \in Session
           /\ Replan(s) \in Session /\ SafetyCleared(s) \in Session
           /\ TargetInvalid(s) \in Session
           /\ \A tid \in Nat : /\ Executing(s, tid) \in Session
                               /\ Completed(s, tid) \in Session
                               /\ \A b \in BOOLEAN : Paused(s, tid, b) \in Session
                               /\ \A slot \in Slots : TrajectoryReady(s, tid, slot) \in Session
<1>1. InitSession \in Session
  BY DEF InitSession, Session, SessionStates, NoTid
<1>2. /\ NewSession(s) \in Session /\ Replan(s) \in Session
  BY <1>1 DEF NewSession, Replan, Session, SessionStates
<1>3. Started(s) \in Session
  BY <1>2 DEF Started
<1>4. /\ Waiting(s) \in Session /\ StartPlanning(s) \in Session
  BY <1>3 DEF Waiting, StartPlanning, Session, SessionStates
<1>5. /\ SafetyCleared(s) \in Session /\ TargetInvalid(s) \in Session
  BY <1>2 DEF SafetyCleared, TargetInvalid, Session
<1>6. ASSUME NEW tid \in Nat
      PROVE  /\ Executing(s, tid) \in Session /\ Completed(s, tid) \in Session
             /\ \A b \in BOOLEAN : Paused(s, tid, b) \in Session
             /\ \A slot \in Slots : TrajectoryReady(s, tid, slot) \in Session
  BY DEF Executing, Completed, Paused, TrajectoryReady, Session, SessionStates
<1> QED BY <1>2, <1>3, <1>4, <1>5, <1>6

\* What a handler that announces a trajectory holds in its locals.
AnnouncesWell ==
    \A h \in Handlers : Announcing(h) => job[h].pick \in Slots /\ job[h].tid # NoTid

\* TypeOK alone is not inductive: the line of a trajectory is a reply only if the
\* handler that writes it has a slot and an id.
TypeInv == TypeOK /\ AnnouncesWell

\* The control state of a handler that moves on keeps its type, and the others
\* announce what they announced.
LEMMA ProceedType ==
    ASSUME TypeInv, NEW h \in Handlers, NEW label \in Labels, NEW locals \in Job,
           Proceed(h, label, locals),
           label = "announce" => locals.pick \in Slots /\ locals.tid # NoTid
    PROVE  /\ pc' \in [Handlers -> Labels] /\ job' \in [Handlers -> Job]
           /\ AnnouncesWell'
<1>1. NoJob \in Job
  BY DEF NoJob, Job, NoTid
<1>2. pc' \in [Handlers -> Labels] /\ job' \in [Handlers -> Job]
  BY <1>1 DEF TypeInv, TypeOK, Proceed
<1>3. AnnouncesWell'
  BY DEF TypeInv, TypeOK, Proceed, AnnouncesWell, Announcing, At
<1> QED BY <1>2, <1>3

LEMMA SilentlyType ==
    ASSUME TypeInv, NEW h \in Handlers, NEW label \in Labels, NEW locals \in Job,
           Silently(h, label, locals),
           label = "announce" => locals.pick \in Slots /\ locals.tid # NoTid
    PROVE  /\ pc' \in [Handlers -> Labels] /\ job' \in [Handlers -> Job]
           /\ up' \in [Handlers -> BOOLEAN]
           /\ wire' \in SUBSET [to : Handlers, msg : Replies]
           /\ AnnouncesWell'
<1>1. Proceed(h, label, locals) /\ wire' = {} /\ up' = up
  BY DEF Silently
<1> QED BY <1>1, ProceedType DEF TypeInv, TypeOK

LEMMA SendType ==
    ASSUME TypeInv, NEW h \in Handlers, NEW label \in Labels, NEW locals \in Job,
           NEW msg \in Replies, Send(h, msg, label, locals), label # "announce"
    PROVE  /\ pc' \in [Handlers -> Labels] /\ job' \in [Handlers -> Job]
           /\ up' \in [Handlers -> BOOLEAN]
           /\ wire' \in SUBSET [to : Handlers, msg : Replies]
           /\ AnnouncesWell'
<1>1. up' = up
  BY DEF Send
<1>2. wire' \in SUBSET [to : Handlers, msg : Replies]
  BY DEF Send
<1>3. PICK l \in {label, "off"} : Proceed(h, l, locals)
  BY DEF Send
<1>4. l \in Labels /\ l # "announce"
  BY DEF Labels
<1> QED BY <1>1, <1>2, <1>3, <1>4, ProceedType DEF TypeInv, TypeOK

LEMMA AckThenType ==
    ASSUME TypeInv, NEW h \in Handlers, NEW label \in {"idle", "snapshot", "poseCheck"},
           NEW seq \in BOOLEAN, AckThen(h, label, seq)
    PROVE  /\ pc' \in [Handlers -> Labels] /\ job' \in [Handlers -> Job]
           /\ up' \in [Handlers -> BOOLEAN]
           /\ wire' \in SUBSET [to : Handlers, msg : Replies]
           /\ AnnouncesWell'
<1>1. [NoJob EXCEPT !.after = label, !.seq = seq] \in Job
  BY DEF NoJob, Job, NoTid
<1>2. "ack" \in Labels /\ "ack" # "announce"
  BY DEF Labels
<1> QED BY <1>1, <1>2, SilentlyType DEF AckThen

-----------------------------------------------------------------------------
\* Type correctness.

LEMMA InitType == Init => TypeInv
<1> SUFFICES ASSUME Init PROVE TypeInv
  OBVIOUS
<1>1. InitSession \in Session /\ NoJob \in Job
  BY DEF InitSession, Session, SessionStates, NoJob, Job, NoTid
<1>2. TypeOK
  BY <1>1, ServerAssumption DEF Init, TypeOK, Labels
<1>3. AnnouncesWell
  BY DEF Init, AnnouncesWell, Announcing, At
<1> QED BY <1>2, <1>3 DEF TypeInv

\* The fields a message of each kind brings.
LEMMA MessageFields ==
    ASSUME NEW m \in Messages
    PROVE  /\ m.kind = "parking_status" => m.free \in SUBSET Slots
           /\ m.kind = "trajectory_status" => m.tid \in Nat /\ m.seq \in BOOLEAN
           /\ m.kind = "safety_event" => m.tid \in Nat /\ m.seq \in BOOLEAN
  BY ServerAssumption DEF Messages, Tids, NoTid

LEMMA ReceiveType ==
    ASSUME TypeInv, NEW h \in Handlers, NEW m \in Messages, Receive(h, m)
    PROVE  TypeInv'
<1> USE DEF TypeInv, shared
<1>0. /\ job[h] \in Job /\ session \in Session
      /\ \A l \in {"poseStart", "parkStart", "newSession", "requestReplan", "clearSafety"} :
            l \in Labels /\ l # "announce"
  BY DEF TypeOK, Labels
<1>1. CASE ReceivePose(h, m)
  <2>1. Silently(h, "poseStart", job[h])
    BY <1>1 DEF ReceivePose
  <2> QED BY <1>0, <1>1, <2>1, SilentlyType DEF ReceivePose, Touch, TypeOK
<1>2. CASE ReceiveParking(h, m)
  <2>1. m.free \in SUBSET Slots
    BY <1>2, MessageFields DEF ReceiveParking
  <2>2. [job[h] EXCEPT !.free = m.free] \in Job
    BY <1>0, <2>1 DEF Job
  <2>3. Silently(h, "parkStart", [job[h] EXCEPT !.free = m.free])
    BY <1>2 DEF ReceiveParking
  <2> QED BY <1>0, <1>2, <2>1, <2>2, <2>3, SilentlyType DEF ReceiveParking, Touch, TypeOK
<1>3. CASE ReceivePlanRequest(h, m)
  <2>1. \/ \E l \in {"newSession", "requestReplan"} : Silently(h, l, job[h])
        \/ \E l \in {"idle", "snapshot"} : AckThen(h, l, TRUE)
    BY <1>3 DEF ReceivePlanRequest
  <2> QED BY <1>0, <1>3, <2>1, SilentlyType, AckThenType DEF ReceivePlanRequest, TypeOK
<1>4. CASE ReceiveStatus(h, m)
  <2>1. m.tid \in Nat /\ m.seq \in BOOLEAN
    BY <1>4, MessageFields DEF ReceiveStatus
  <2>2. session' \in Session
    BY <1>0, <1>4, <2>1, SessionOps DEF ReceiveStatus
  <2>3. AckThen(h, "idle", m.seq)
    BY <1>4 DEF ReceiveStatus
  <2> QED BY <1>4, <2>1, <2>2, <2>3, AckThenType DEF ReceiveStatus, TypeOK
<1>5. CASE ReceiveReplanStatus(h, m)
  <2>1. m.seq \in BOOLEAN
    BY <1>5, MessageFields DEF ReceiveReplanStatus
  <2>2. [job[h] EXCEPT !.seq = m.seq] \in Job
    BY <1>0, <2>1 DEF Job
  <2>3. \/ Silently(h, "requestReplan", [job[h] EXCEPT !.seq = m.seq])
        \/ AckThen(h, "idle", m.seq)
    BY <1>5 DEF ReceiveReplanStatus
  <2> QED BY <1>0, <1>5, <2>1, <2>2, <2>3, SilentlyType, AckThenType
          DEF ReceiveReplanStatus, TypeOK
<1>6. CASE ReceivePauseEvent(h, m)
  <2>1. m.tid \in Nat /\ m.seq \in BOOLEAN
    BY <1>6, MessageFields DEF ReceivePauseEvent
  <2>2. session' \in Session
    BY <1>0, <1>6, <2>1, SessionOps DEF ReceivePauseEvent
  <2>3. AckThen(h, "idle", m.seq)
    BY <1>6 DEF ReceivePauseEvent
  <2> QED BY <1>6, <2>1, <2>2, <2>3, AckThenType DEF ReceivePauseEvent, TypeOK
<1>7. CASE ReceiveReplanEvent(h, m)
  <2>1. m.seq \in BOOLEAN
    BY <1>7, MessageFields DEF ReceiveReplanEvent
  <2>2. [job[h] EXCEPT !.seq = m.seq] \in Job
    BY <1>0, <2>1 DEF Job
  <2>3. \/ \E l \in {"clearSafety", "requestReplan"} :
              Silently(h, l, [job[h] EXCEPT !.seq = m.seq])
        \/ AckThen(h, "idle", m.seq)
    BY <1>7 DEF ReceiveReplanEvent
  <2> QED BY <1>0, <1>7, <2>1, <2>2, <2>3, SilentlyType, AckThenType
          DEF ReceiveReplanEvent, TypeOK
<1>8. CASE ReceiveOther(h, m)
  <2>1. PICK kind \in {"session_status", "ack", "error"} :
           Send(h, [kind |-> kind], "idle", NoJob)
    BY <1>8 DEF ReceiveOther
  <2>2. [kind |-> kind] \in Replies /\ NoJob \in Job /\ "idle" \in Labels
    BY DEF Replies, NoJob, Job, NoTid, Labels
  <2> QED BY <1>8, <2>1, <2>2, SendType DEF ReceiveOther, TypeOK
<1> QED BY <1>1, <1>2, <1>3, <1>4, <1>5, <1>6, <1>7, <1>8 DEF Receive

LEMMA StepType ==
    ASSUME TypeInv, NEW h \in Handlers, Step(h)
    PROVE  TypeInv'
<1> USE DEF TypeInv, shared
<1>0. job[h] \in Job /\ NoJob \in Job /\ session \in Session
  BY DEF TypeOK, NoJob, Job, NoTid
<1> DEFINE SilentLabels == {"idle", "poseCheck", "poseParking", "snapshot", "parkCheck",
                           "parkInvalid", "parkState", "setWaiting", "acquire", "search",
                           "inputChanged", "recheck", "build"}
<1>l. \A l \in SilentLabels : l \in Labels /\ l # "announce"
  BY DEF Labels, Planning
<1>1. CASE \E l \in SilentLabels :
             /\ Silently(h, l, job[h])
             /\ UNCHANGED <<issued, pose, parking, latestFree>>
             /\ session' \in Session /\ changed' \in [Handlers -> BOOLEAN]
  BY <1>0, <1>l, <1>1, SilentlyType DEF TypeOK
<1>2. CASE \E l \in {"idle", "snapshot", "poseCheck"}, seq \in BOOLEAN :
             /\ AckThen(h, l, seq)
             /\ UNCHANGED <<issued, pose, parking, latestFree>>
             /\ session' \in Session /\ changed' \in [Handlers -> BOOLEAN]
  BY <1>2, AckThenType DEF TypeOK
<1>3. CASE \E k \in {"ack", "planning_result"}, l \in {"idle", "snapshot", "poseCheck"} :
             /\ \/ Send(h, [kind |-> k], l, NoJob)
                \/ Send(h, [kind |-> k], l, [job[h] EXCEPT !.after = "idle"])
             /\ UNCHANGED <<issued, pose, parking, latestFree>>
             /\ session' \in Session /\ changed' \in [Handlers -> BOOLEAN]
  <2>1. \A k \in {"ack", "planning_result"} : [kind |-> k] \in Replies
    BY DEF Replies
  <2>2. [job[h] EXCEPT !.after = "idle"] \in Job
    BY <1>0 DEF Job
  <2>3. \A l \in {"idle", "snapshot", "poseCheck"} : l \in Labels /\ l # "announce"
    BY DEF Labels
  <2> QED BY <1>0, <1>3, <2>1, <2>2, <2>3, SendType DEF TypeOK
<1>4. CASE PoseStart(h)
  BY <1>0, <1>2, <1>4, SessionOps DEF PoseStart, TypeOK
<1>5. CASE PoseCheck(h)
  BY <1>0, <1>1, <1>5 DEF PoseCheck, TypeOK
<1>6. CASE PoseParking(h)
  BY <1>0, <1>1, <1>6 DEF PoseParking, TypeOK
<1>7. CASE ParkStart(h)
  BY <1>0, <1>1, <1>7, SessionOps DEF ParkStart, TypeOK
<1>8. CASE ParkCheck(h)
  BY <1>0, <1>1, <1>8 DEF ParkCheck, TypeOK
<1>9. CASE ParkInvalid(h)
  BY <1>0, <1>2, <1>9, SessionOps DEF ParkInvalid, TypeOK
<1>10. CASE ParkState(h)
  BY <1>0, <1>2, <1>10 DEF ParkState, TypeOK
<1>11. CASE StartNewSession(h)
  BY <1>0, <1>2, <1>11, SessionOps DEF StartNewSession, TypeOK
<1>12. CASE RequestReplan(h)
  BY <1>0, <1>2, <1>12, SessionOps DEF RequestReplan, TypeOK, Job
<1>13. CASE ClearSafety(h)
  BY <1>0, <1>2, <1>13, SessionOps DEF ClearSafety, TypeOK, Job
<1>14. CASE Ack(h)
  BY <1>0, <1>3, <1>14 DEF Ack, TypeOK, Job
<1>15. CASE SetWaiting(h)
  BY <1>0, <1>3, <1>15, SessionOps DEF SetWaiting, TypeOK
<1>16. CASE BeginPlanning(h)
  BY <1>0, <1>1, <1>16, SessionOps DEF BeginPlanning, TypeOK
<1>17. CASE AcquirePlanner(h)
  BY <1>0, <1>1, <1>17 DEF AcquirePlanner, TypeOK
<1>18. CASE VerifyGenerations(h)
  BY <1>0, <1>1, <1>18 DEF VerifyGenerations, TypeOK
<1>19. CASE InputChanged(h)
  BY <1>0, <1>3, <1>19, SessionOps DEF InputChanged, TypeOK
<1>20. CASE RecheckFreshness(h)
  BY <1>0, <1>1, <1>20 DEF RecheckFreshness, TypeOK
<1>21. CASE TakeSnapshot(h)
  <2>1. CASE Silently(h, "begin", [job[h] EXCEPT !.free = latestFree])
    <3>1. [job[h] EXCEPT !.free = latestFree] \in Job /\ "begin" \in Labels
      BY <1>0 DEF TypeOK, Job, Labels, Planning
    <3> QED BY <1>21, <2>1, <3>1, SilentlyType DEF TakeSnapshot, TypeOK
  <2>2. CASE Silently(h, "idle", NoJob) /\ UNCHANGED changed
    BY <1>0, <1>l, <1>21, <2>2, SilentlyType DEF TakeSnapshot, TypeOK
  <2>3. CASE Silently(h, "setWaiting", job[h]) /\ UNCHANGED changed
    BY <1>1, <1>21, <2>3 DEF TakeSnapshot, TypeOK
  <2> QED BY <1>21, <2>1, <2>2, <2>3 DEF TakeSnapshot
<1>22. CASE Search(h)
  <2>1. PICK slot \in job[h].free \cup {NoSlot} :
           Silently(h, "verify", [job[h] EXCEPT !.pick = slot])
    BY <1>22 DEF Search
  <2>2. [job[h] EXCEPT !.pick = slot] \in Job /\ "verify" \in Labels
    BY <1>0, <2>1 DEF Job, Labels, Planning
  <2> QED BY <1>22, <2>1, <2>2, SilentlyType DEF Search, TypeOK
<1>23. CASE BuildTrajectory(h)
  <2>1. CASE /\ job[h].pick \in job[h].free /\ issued < MaxTrajectories
             /\ issued' = issued + 1
             /\ Silently(h, "announce", [job[h] EXCEPT !.tid = issued'])
    <3>1. issued' \in 1 .. MaxTrajectories
      BY <2>1, ServerAssumption DEF TypeOK
    <3>2. /\ [job[h] EXCEPT !.tid = issued'] \in Job /\ "announce" \in Labels
          /\ [job[h] EXCEPT !.tid = issued'].pick \in Slots
          /\ [job[h] EXCEPT !.tid = issued'].tid # NoTid
      BY <1>0, <2>1, <3>1, ServerAssumption DEF Job, Labels, NoTid
    <3>3. UNCHANGED <<session, pose, parking, latestFree, changed>>
      BY <1>23 DEF BuildTrajectory
    <3>4. issued' \in 0 .. MaxTrajectories
      BY <3>1
    <3>5. /\ pc' \in [Handlers -> Labels] /\ job' \in [Handlers -> Job]
          /\ up' \in [Handlers -> BOOLEAN]
          /\ wire' \in SUBSET [to : Handlers, msg : Replies]
          /\ AnnouncesWell'
      BY <2>1, <3>2, SilentlyType
    <3> QED BY <3>3, <3>4, <3>5 DEF TypeOK
  <2>2. CASE Silently(h, "setWaiting", job[h]) /\ UNCHANGED issued
    BY <1>1, <1>23, <2>2 DEF BuildTrajectory, TypeOK
  <2> QED BY <1>23, <2>1, <2>2 DEF BuildTrajectory
<1>24. CASE AnnounceTrajectory(h)
  <2>1. job[h].pick \in Slots /\ job[h].tid \in Nat \ {NoTid} /\ job[h].seq \in BOOLEAN
    BY <1>0, <1>24 DEF AnnounceTrajectory, AnnouncesWell, Announcing, Job, NoTid
  <2>2. session' \in Session
    BY <1>0, <1>24, <2>1, SessionOps DEF AnnounceTrajectory
  <2>3. [kind |-> "trajectory", tid |-> job[h].tid, slot |-> job[h].pick,
         seq |-> job[h].seq] \in Replies
    BY <2>1 DEF Replies
  <2>4. "idle" \in Labels
    BY DEF Labels
  <2> QED BY <1>0, <1>24, <2>2, <2>3, <2>4, SendType DEF AnnounceTrajectory, TypeOK
<1> QED BY <1>4, <1>5, <1>6, <1>7, <1>8, <1>9, <1>10, <1>11, <1>12, <1>13, <1>14, <1>15, <1>16, <1>17, <1>18, <1>19, <1>20, <1>21, <1>22, <1>23, <1>24 DEF Step

LEMMA NextType == TypeInv /\ [Next]_vars => TypeInv'
<1> SUFFICES ASSUME TypeInv, [Next]_vars PROVE TypeInv'
  OBVIOUS
<1> USE DEF TypeInv
<1>1. ASSUME NEW h \in Handlers, NEW m \in Messages, Receive(h, m) PROVE TypeInv'
  BY <1>1, ReceiveType
<1>2. ASSUME NEW h \in Handlers, Step(h) PROVE TypeInv'
  BY <1>2, StepType
<1>3. ASSUME NEW h \in Handlers, Connect(h) PROVE TypeInv'
  <2>1. NoJob \in Job /\ "idle" \in Labels
    BY DEF NoJob, Job, NoTid, Labels
  <2> QED BY <1>3, <2>1, ProceedType DEF Connect, TypeOK, shared
<1>4. ASSUME NEW h \in Handlers, EndOfFile(h) PROVE TypeInv'
  <2>1. NoJob \in Job /\ "off" \in Labels
    BY DEF NoJob, Job, NoTid, Labels
  <2> QED BY <1>4, <2>1, SilentlyType DEF EndOfFile, TypeOK, shared
<1>5. ASSUME NEW h \in Handlers, Break(h) PROVE TypeInv'
  BY <1>5 DEF Break, TypeOK, AnnouncesWell, Announcing, At, shared
<1>6. CASE AgePose \/ AgeParking
  BY <1>6 DEF AgePose, AgeParking, TypeOK, AnnouncesWell, Announcing, At
<1>7. CASE UNCHANGED vars
  BY <1>7 DEF vars, TypeOK, AnnouncesWell, Announcing, At
<1> QED BY <1>1, <1>2, <1>3, <1>4, <1>5, <1>6, <1>7 DEF Next

\* Every variable of the server keeps its type, and no reply is malformed.
THEOREM TypeCorrect == Spec => []TypeInv
<1> QED BY InitType, NextType, PTL DEF Spec

\* The same, as the runs check it.
THEOREM TypeOKAlways == Spec => []TypeOK
<1>1. TypeInv => TypeOK
  BY DEF TypeInv
<1> QED BY <1>1, TypeCorrect, PTL
=============================================================================
