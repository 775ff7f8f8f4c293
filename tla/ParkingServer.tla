---------------------------- MODULE ParkingServer ----------------------------
(***************************************************************************)
(* server_v1/server_stub.py: a threaded TCP server.  Every connection has  *)
(* a handler thread; all of them share one ServerContext (latest pose,     *)
(* latest parking status, the trajectory counter, a planning lock) and one *)
(* ParkingSession.  A handler takes state_lock or the session's lock for   *)
(* one call at a time and never across two, so each call is one action and *)
(* other handlers may run between any two of them.                         *)
(*                                                                         *)
(* A client is any sequence of messages of Messages.  What a handler       *)
(* writes to its connection is visible in wire for the one step that       *)
(* writes it; modules that have a client at the other end carry it there.  *)
(*                                                                         *)
(* Data: a parking status is the set of the slots it reports FREE (session *)
(* and planner treat OCCUPIED and UNKNOWN alike), the age of an input is   *)
(* fresh or stale, and instead of the two generation counters each handler *)
(* has a flag that says whether its snapshot is still current.  Hybrid A*  *)
(* is a choice among the free slots, or a failure.                         *)
(***************************************************************************)
EXTENDS ParkingSession, FiniteSets

CONSTANTS
    Handlers,           \* handler threads, reused from connection to connection
    PlanningEnabled,    \* FALSE with --transport-only
    MaxTrajectories     \* bound: Hybrid A* fails once so many ids were issued

ASSUME ServerAssumption == /\ PlanningEnabled \in BOOLEAN
                           /\ MaxTrajectories \in Nat

VARIABLES
    session,        \* ctx.session
    issued,         \* ctx.trajectory_id, the last id handed out
    pose,           \* ctx.latest_pose: absent, or its age class
    parking,        \* ctx.latest_parking_status, likewise
    latestFree,     \* the slots FREE in ctx.latest_parking_status
    pc,             \* where each handler thread is
    job,            \* the local variables of each handler thread
    changed,        \* generations_unchanged(...) would be FALSE for this handler
    up,             \* the handler's connection still works
    wire            \* what the last step wrote to a connection, if anything

shared == <<session, issued, pose, parking, latestFree>>
vars == <<session, issued, pose, parking, latestFree, pc, job, changed, up, wire>>

Statuses == {"RECEIVED", "EXECUTING", "PAUSED", "COMPLETED", "REJECTED",
             "REPLAN_REQUESTED"}
PauseEvents == {"PEDESTRIAN_BLOCKING", "CRITICAL_OBSTACLE", "SERVER_TIMEOUT"}
SafetyEvents == PauseEvents \cup {"TRAJECTORY_INVALID", "SAFETY_CLEARED"}

Tids == 1 .. MaxTrajectories

\* The messages that pass validation, and one that stands for all the others.
\* Validation demands a seq in the first three kinds and not in the next two.
Messages ==
    [kind : {"vehicle_pose", "session_query", "rejected"}]
    \cup [kind : {"parking_status"}, free : SUBSET Slots]
    \cup [kind : {"plan_request"}, new : BOOLEAN]
    \cup [kind : {"trajectory_status"}, tid : Tids, status : Statuses, seq : BOOLEAN]
    \cup [kind : {"safety_event"}, tid : Tids \cup {NoTid}, event : SafetyEvents,
          seq : BOOLEAN]

Replies ==
    [kind : {"ack", "planning_result", "session_status", "error"}]
    \cup [kind : {"trajectory"}, tid : Nat \ {NoTid}, slot : Slots, seq : BOOLEAN]

\* Inside plan_with_latest_state, from the snapshot to the check of the generations.
Planning == {"begin", "acquire", "search", "verify"}

Labels == {"off", "idle", "poseStart", "poseCheck", "poseParking",
           "parkStart", "parkCheck", "parkInvalid", "parkState",
           "newSession", "requestReplan", "clearSafety", "ack", "snapshot",
           "setWaiting", "inputChanged", "recheck", "build", "announce"} \cup Planning

\* free: states;  pick: selected.slot_id;  tid: response["trajectory_id"];
\* seq: source_seq is an integer;  after: where the handler goes after send_ack.
Job == [free : SUBSET Slots, pick : Slots \cup {NoSlot}, tid : Nat, seq : BOOLEAN,
        after : {"idle", "snapshot", "poseCheck"}]

NoJob == [free |-> {}, pick |-> NoSlot, tid |-> NoTid, seq |-> TRUE, after |-> "idle"]

Init ==
    /\ session = InitSession
    /\ issued = 0
    /\ pose = "none" /\ parking = "none" /\ latestFree = {}
    /\ pc = [h \in Handlers |-> "off"]
    /\ job = [h \in Handlers |-> NoJob]
    /\ changed = [h \in Handlers |-> FALSE]
    /\ up = [h \in Handlers |-> FALSE]
    /\ wire = {}

-----------------------------------------------------------------------------
\* Control of a handler thread.

At(h, label) == pc[h] = label

\* The locals mean nothing once the handler is back at its read loop.
Proceed(h, label, locals) ==
    /\ pc' = [pc EXCEPT ![h] = label]
    /\ job' = [job EXCEPT ![h] = IF label \in {"idle", "off"} THEN NoJob ELSE locals]

\* A step that writes nothing.
Silently(h, label, locals) == Proceed(h, label, locals) /\ wire' = {} /\ UNCHANGED up

\* A mutation of Send: the line goes out on whatever connection there is.
SendRegardless(h, msg, label, locals) ==
    UNCHANGED up /\ wire' = {[to |-> h, msg |-> msg]} /\ Proceed(h, label, locals)

\* send_json: on a broken connection the line is lost, at once or with an
\* exception that ends the thread.
Send(h, msg, label, locals) ==
    /\ UNCHANGED up
    /\ \/ up[h] /\ wire' = {[to |-> h, msg |-> msg]} /\ Proceed(h, label, locals)
       \/ ~up[h] /\ wire' = {} /\ \E l \in {label, "off"} : Proceed(h, l, locals)

\* send_ack, and then the rest of the branch.
AckThen(h, label, seq) ==
    Silently(h, "ack", [NoJob EXCEPT !.after = label, !.seq = seq])

\* A new pose or parking status: pose_generation or parking_generation moves on.
Touch == changed' = [h \in Handlers |-> changed[h] \/ pc[h] \in Planning]

InputsFresh == pose = "fresh" /\ parking = "fresh"

-----------------------------------------------------------------------------
\* One action per locked call of Handler.handle.

ReceivePose(h, m) ==
    /\ At(h, "idle") /\ m.kind = "vehicle_pose"
    /\ pose' = "fresh"
    /\ Touch
    /\ Silently(h, "poseStart", job[h])
    /\ UNCHANGED <<session, issued, parking, latestFree>>

PoseStart(h) ==
    /\ At(h, "poseStart")
    /\ session' = Started(session)
    /\ AckThen(h, "poseCheck", TRUE)
    /\ UNCHANGED <<issued, pose, parking, latestFree, changed>>

PoseCheck(h) ==
    /\ At(h, "poseCheck")
    /\ LET due == session.state = "WAITING_INPUT" /\ session.pending
       IN  Silently(h, IF due THEN "poseParking" ELSE "idle", job[h])
    /\ UNCHANGED <<shared, changed>>

PoseParking(h) ==
    /\ At(h, "poseParking")
    /\ Silently(h, IF parking # "none" THEN "snapshot" ELSE "idle", job[h])
    /\ UNCHANGED <<shared, changed>>

ReceiveParking(h, m) ==
    /\ At(h, "idle") /\ m.kind = "parking_status"
    /\ parking' = "fresh" /\ latestFree' = m.free
    /\ Touch
    /\ Silently(h, "parkStart", [job[h] EXCEPT !.free = m.free])
    /\ UNCHANGED <<session, issued, pose>>

ParkStart(h) ==
    /\ At(h, "parkStart")
    /\ session' = Started(session)
    /\ Silently(h, "parkCheck", job[h])
    /\ UNCHANGED <<issued, pose, parking, latestFree, changed>>

ParkCheck(h) ==
    /\ At(h, "parkCheck")
    /\ LET lost == session.target # NoSlot /\ session.target \notin job[h].free
       IN  Silently(h, IF lost THEN "parkInvalid" ELSE "parkState", job[h])
    /\ UNCHANGED <<shared, changed>>

ParkInvalid(h) ==
    /\ At(h, "parkInvalid")
    /\ session' = TargetInvalid(session)
    /\ AckThen(h, IF InvalidTargetReplans(session) THEN "snapshot" ELSE "idle", TRUE)
    /\ UNCHANGED <<issued, pose, parking, latestFree, changed>>

ParkState(h) ==
    /\ At(h, "parkState")
    /\ AckThen(h, IF session.state \in {"WAITING_INPUT", "REPLAN"}
                  THEN "snapshot" ELSE "idle", TRUE)
    /\ UNCHANGED <<shared, changed>>

ReceivePlanRequest(h, m) ==
    /\ At(h, "idle") /\ m.kind = "plan_request"
    /\ LET fresh == m.new \/ session.state \in {"IDLE", "COMPLETED"}
       IN  \/ fresh /\ Silently(h, "newSession", job[h])
           \/ ~fresh /\ session.state = "PAUSED" /\ AckThen(h, "idle", TRUE)
           \/ ~fresh /\ Running(session) /\ Silently(h, "requestReplan", job[h])
           \/ ~fresh /\ session.state # "PAUSED" /\ ~Running(session)
                /\ AckThen(h, "snapshot", TRUE)
    /\ UNCHANGED <<shared, changed>>

StartNewSession(h) ==
    /\ At(h, "newSession")
    /\ session' = NewSession(session)
    /\ AckThen(h, "snapshot", TRUE)
    /\ UNCHANGED <<issued, pose, parking, latestFree, changed>>

\* A status that one session call handles; the ack only reports its answer.
ReceiveStatus(h, m) ==
    /\ At(h, "idle") /\ m.kind = "trajectory_status"
    /\ \/ m.status = "RECEIVED" /\ UNCHANGED session
       \/ m.status = "EXECUTING" /\ session' = Executing(session, m.tid)
       \/ m.status = "PAUSED" /\ session' = Paused(session, m.tid, FALSE)
       \/ m.status = "COMPLETED" /\ session' = Completed(session, m.tid)
    /\ AckThen(h, "idle", m.seq)
    /\ UNCHANGED <<issued, pose, parking, latestFree, changed>>

\* REJECTED and REPLAN_REQUESTED: active_matches first, request_replan later.
ReceiveReplanStatus(h, m) ==
    /\ At(h, "idle") /\ m.kind = "trajectory_status"
    /\ m.status \in {"REJECTED", "REPLAN_REQUESTED"}
    /\ IF Matches(session, m.tid)
       THEN Silently(h, "requestReplan", [job[h] EXCEPT !.seq = m.seq])
       ELSE AckThen(h, "idle", m.seq)
    /\ UNCHANGED <<shared, changed>>

ReceivePauseEvent(h, m) ==
    /\ At(h, "idle") /\ m.kind = "safety_event" /\ m.event \in PauseEvents
    /\ session' = Paused(session, m.tid, TRUE)
    /\ AckThen(h, "idle", m.seq)
    /\ UNCHANGED <<issued, pose, parking, latestFree, changed>>

\* TRAJECTORY_INVALID and SAFETY_CLEARED: the match first, the change later.
ReceiveReplanEvent(h, m) ==
    /\ At(h, "idle") /\ m.kind = "safety_event" /\ m.event \notin PauseEvents
    /\ IF m.tid = NoTid \/ Matches(session, m.tid)
       THEN Silently(h, IF m.event = "SAFETY_CLEARED" THEN "clearSafety"
                        ELSE "requestReplan",
                     [job[h] EXCEPT !.seq = m.seq])
       ELSE AckThen(h, "idle", m.seq)
    /\ UNCHANGED <<shared, changed>>

RequestReplan(h) ==
    /\ At(h, "requestReplan")
    /\ session' = Replan(session)
    /\ AckThen(h, "snapshot", job[h].seq)
    /\ UNCHANGED <<issued, pose, parking, latestFree, changed>>

ClearSafety(h) ==
    /\ At(h, "clearSafety")
    /\ session' = SafetyCleared(session)
    /\ AckThen(h, IF CanClearSafety(session) THEN "snapshot" ELSE "idle", job[h].seq)
    /\ UNCHANGED <<issued, pose, parking, latestFree, changed>>

\* session_query, and everything validation refuses, is answered and forgotten.
ReceiveOther(h, m) ==
    /\ At(h, "idle")
    /\ \E kind \in CASE m.kind = "session_query" -> {"session_status"}
                     [] m.kind = "rejected" -> {"ack", "error"}
                     [] OTHER -> {} :
         Send(h, [kind |-> kind], "idle", NoJob)
    /\ UNCHANGED <<shared, changed>>

Ack(h) ==
    /\ At(h, "ack")
    /\ Send(h, [kind |-> "ack"], job[h].after, [job[h] EXCEPT !.after = "idle"])
    /\ UNCHANGED <<shared, changed>>

-----------------------------------------------------------------------------
\* plan_with_latest_state.

\* A mutation of TakeSnapshot: it waits for usable inputs.
TakeSnapshotWhenFresh(h) ==
    /\ At(h, "snapshot")
    /\ IF InputsFresh /\ latestFree # {}
       THEN Silently(h, "begin", [job[h] EXCEPT !.free = latestFree])
       ELSE Silently(h, "snapshot", job[h])
    /\ UNCHANGED <<shared, changed>>

TakeSnapshot(h) ==
    /\ At(h, "snapshot")
    /\ IF ~PlanningEnabled THEN Silently(h, "idle", NoJob) /\ UNCHANGED changed
       ELSE IF InputsFresh /\ latestFree # {}
       THEN /\ Silently(h, "begin", [job[h] EXCEPT !.free = latestFree])
            /\ changed' = [changed EXCEPT ![h] = FALSE]
       ELSE Silently(h, "setWaiting", job[h]) /\ UNCHANGED changed
    /\ UNCHANGED shared

\* A mutation of SetWaiting: the failure is reported and the session forgotten.
SetWaitingForgotten(h) ==
    /\ At(h, "setWaiting")
    /\ Send(h, [kind |-> "planning_result"], "idle", NoJob)
    /\ UNCHANGED <<shared, changed>>

\* WAITING_FOR_INPUT, STALE_INPUT, NO_FREE_SLOT, NO_FEASIBLE_TRAJECTORY and
\* TRAJECTORY_REJECTED all end here.
SetWaiting(h) ==
    /\ At(h, "setWaiting")
    /\ session' = Waiting(session)
    /\ Send(h, [kind |-> "planning_result"], "idle", NoJob)
    /\ UNCHANGED <<issued, pose, parking, latestFree, changed>>

BeginPlanning(h) ==
    /\ At(h, "begin")
    /\ session' = StartPlanning(session)
    /\ Silently(h, "acquire", job[h])
    /\ UNCHANGED <<issued, pose, parking, latestFree, changed>>

\* The planning lock is held exactly at "search".
AcquirePlanner(h) ==
    /\ At(h, "acquire") /\ \A g \in Handlers : ~At(g, "search")
    /\ Silently(h, "search", job[h])
    /\ UNCHANGED <<shared, changed>>

Search(h) ==
    /\ At(h, "search")
    /\ \E slot \in job[h].free \cup {NoSlot} :
         Silently(h, "verify", [job[h] EXCEPT !.pick = slot])
    /\ UNCHANGED <<shared, changed>>

VerifyGenerations(h) ==
    /\ At(h, "verify")
    /\ Silently(h, IF changed[h] THEN "inputChanged" ELSE "recheck", job[h])
    /\ changed' = [changed EXCEPT ![h] = FALSE]
    /\ UNCHANGED shared

\* A mutation of InputChanged: the change is reported and the session forgotten.
InputChangedForgotten(h) ==
    /\ At(h, "inputChanged")
    /\ Send(h, [kind |-> "planning_result"], "idle", NoJob)
    /\ UNCHANGED <<shared, changed>>

InputChanged(h) ==
    /\ At(h, "inputChanged")
    /\ session' = Replan(session)
    /\ Send(h, [kind |-> "planning_result"], "idle", NoJob)
    /\ UNCHANGED <<issued, pose, parking, latestFree, changed>>

RecheckFreshness(h) ==
    /\ At(h, "recheck")
    /\ Silently(h, IF InputsFresh /\ job[h].pick # NoSlot THEN "build" ELSE "setWaiting",
                job[h])
    /\ UNCHANGED <<shared, changed>>

\* A mutation of BuildTrajectory: the id follows the session's instead of the counter.
BuildFromSession(h) ==
    /\ At(h, "build")
    /\ \/ /\ job[h].pick \in job[h].free /\ session.active < MaxTrajectories
          /\ issued' = session.active + 1
          /\ Silently(h, "announce", [job[h] EXCEPT !.tid = issued'])
       \/ Silently(h, "setWaiting", job[h]) /\ UNCHANGED issued
    /\ UNCHANGED <<session, pose, parking, latestFree, changed>>

\* validate_plan_candidate and validate_serialized_trajectory see the handler's
\* own snapshot; the id is taken last.
BuildTrajectory(h) ==
    /\ At(h, "build")
    /\ \/ /\ job[h].pick \in job[h].free /\ issued < MaxTrajectories
          /\ issued' = issued + 1
          /\ Silently(h, "announce", [job[h] EXCEPT !.tid = issued'])
       \/ Silently(h, "setWaiting", job[h]) /\ UNCHANGED issued
    /\ UNCHANGED <<session, pose, parking, latestFree, changed>>

\* A mutation of AnnounceTrajectory: the line names the session's previous target.
AnnounceOldTarget(h) ==
    /\ At(h, "announce")
    /\ session' = TrajectoryReady(session, job[h].tid, job[h].pick)
    /\ Send(h, [kind |-> "trajectory", tid |-> job[h].tid, slot |-> session.target,
                seq |-> job[h].seq], "idle", NoJob)
    /\ UNCHANGED <<issued, pose, parking, latestFree, changed>>

AnnounceTrajectory(h) ==
    /\ At(h, "announce")
    /\ session' = TrajectoryReady(session, job[h].tid, job[h].pick)
    /\ Send(h, [kind |-> "trajectory", tid |-> job[h].tid, slot |-> job[h].pick,
                seq |-> job[h].seq], "idle", NoJob)
    /\ UNCHANGED <<issued, pose, parking, latestFree, changed>>

-----------------------------------------------------------------------------
\* The world around the handlers.

\* The socket server starts the handler's thread.
Connect(h) ==
    /\ At(h, "off")
    /\ up' = [up EXCEPT ![h] = TRUE]
    /\ Proceed(h, "idle", NoJob)
    /\ wire' = {}
    /\ UNCHANGED <<shared, changed>>

\* The client closes the connection, or the network does.
Break(h) ==
    /\ up[h]
    /\ up' = [up EXCEPT ![h] = FALSE]
    /\ wire' = {}
    /\ UNCHANGED <<shared, pc, job, changed>>

\* End of file, or a read error, ends the read loop.
EndOfFile(h) ==
    /\ At(h, "idle") /\ ~up[h]
    /\ Silently(h, "off", NoJob)
    /\ UNCHANGED <<shared, changed>>

\* pose_max_age_ms and parking_max_age_ms pass.
AgePose ==
    /\ pose = "fresh" /\ pose' = "stale"
    /\ wire' = {}
    /\ UNCHANGED <<session, issued, parking, latestFree, pc, job, changed, up>>

AgeParking ==
    /\ parking = "fresh" /\ parking' = "stale"
    /\ wire' = {}
    /\ UNCHANGED <<session, issued, pose, latestFree, pc, job, changed, up>>

Receive(h, m) ==
    \/ ReceivePose(h, m) \/ ReceiveParking(h, m) \/ ReceivePlanRequest(h, m)
    \/ ReceiveStatus(h, m) \/ ReceiveReplanStatus(h, m)
    \/ ReceivePauseEvent(h, m) \/ ReceiveReplanEvent(h, m) \/ ReceiveOther(h, m)

\* What a handler does on its own once it has read a message.
Step(h) ==
    \/ PoseStart(h) \/ PoseCheck(h) \/ PoseParking(h)
    \/ ParkStart(h) \/ ParkCheck(h) \/ ParkInvalid(h) \/ ParkState(h)
    \/ StartNewSession(h) \/ RequestReplan(h) \/ ClearSafety(h) \/ Ack(h)
    \/ TakeSnapshot(h) \/ SetWaiting(h) \/ BeginPlanning(h) \/ AcquirePlanner(h)
    \/ Search(h) \/ VerifyGenerations(h) \/ InputChanged(h) \/ RecheckFreshness(h)
    \/ BuildTrajectory(h) \/ AnnounceTrajectory(h)

Next ==
    \/ \E h \in Handlers :
         \/ At(h, "idle") /\ \E m \in Messages : Receive(h, m)
         \/ Step(h) \/ Connect(h) \/ Break(h) \/ EndOfFile(h)
    \/ AgePose \/ AgeParking

Spec == Init /\ [][Next]_vars

\* A thread that can run is scheduled again: nothing is assumed of the clients.
FairSpec == Spec /\ \A h \in Handlers : WF_vars(Step(h))

-----------------------------------------------------------------------------
\* Properties of the server with any number of connections.

\* Every variable keeps its type; no reply is written but those of Replies.
TypeOK ==
    /\ session \in Session
    /\ issued \in 0 .. MaxTrajectories
    /\ pose \in {"none", "fresh", "stale"}
    /\ parking \in {"none", "fresh", "stale"}
    /\ latestFree \in SUBSET Slots
    /\ pc \in [Handlers -> Labels]
    /\ job \in [Handlers -> Job]
    /\ changed \in [Handlers -> BOOLEAN]
    /\ up \in [Handlers -> BOOLEAN]
    /\ wire \in SUBSET [to : Handlers, msg : Replies]

\* However handlers interleave, the session has a target exactly when it has a
\* trajectory, it has one in every state that speaks of one, and request_replan
\* leaves none behind.
SessionCoherent ==
    /\ session.active = NoTid <=> session.target = NoSlot
    /\ session.state \in {"TRAJECTORY_READY", "EXECUTING", "PAUSED", "COMPLETED"}
         => session.active # NoTid
    /\ session.state \in {"IDLE", "REPLAN"} => session.active = NoTid

Announcing(h) == At(h, "announce")

\* Handlers that announce at the same time hold different ids, none of them the
\* session's: next_trajectory_id and mark_trajectory_ready are two locked calls,
\* and a client must still be able to tell every two trajectories apart.
IdsUnique ==
    /\ session.active <= issued
    /\ \A h \in Handlers : Announcing(h) =>
         /\ job[h].tid \in 1 .. issued
         /\ job[h].tid # session.active
         /\ \A g \in Handlers \ {h} : Announcing(g) => job[g].tid # job[h].tid

\* Where a handler is bound to move the session out of PLANNING before it reads
\* its next message.
InPlan(h) == pc[h] \in {"acquire", "search", "verify", "inputChanged", "recheck",
                        "build", "announce", "setWaiting"}

\* A session in PLANNING has a handler that works on the plan: no early return,
\* lost connection or overtaking handler leaves it in PLANNING for good.
PlanningOwned == session.state = "PLANNING" => \E h \in Handlers : InPlan(h)

\* PLANNING ends, whatever the clients do, if threads are scheduled.
PlanningEnds == session.state = "PLANNING" ~> session.state # "PLANNING"

-----------------------------------------------------------------------------
\* Properties of the server with one connection at a time, the way the bench
\* and the mock client use it.  With two, TargetStillFree and
\* PauseReasonIffPaused do not hold: TargetStillFree is then what protocol_v1.md
\* promises ("If a newer pose or parking status arrives while planning is
\* running, the old plan is rejected instead of being sent") and the code does
\* not keep, until the next parking status heals it.

AtRest == \A h \in Handlers : pc[h] \in {"off", "idle"}

\* Protocol rule 13: between two messages, a trajectory that may be driven ends
\* in a slot that the latest parking status reports FREE.
TargetStillFree == AtRest /\ Running(session) => session.target \in latestFree

\* Protocol rule 16: "After `COMPLETED`, automatic parking-status updates do not
\* start a new session", so the handler of one leaves a completed session alone.
CompletedStays ==
    [][session.state = "COMPLETED" /\ (\E h \in Handlers : ParkInvalid(h))
         => UNCHANGED session]_vars

\* A pause reason is on record exactly while the session is paused.
PauseReasonIffPaused == session.pause <=> session.state = "PAUSED"

\* A message a handler has read is dealt with, a plan included.
HandlerReturns == \A h \in Handlers : ~At(h, "idle") ~> pc[h] \in {"idle", "off"}
=============================================================================
