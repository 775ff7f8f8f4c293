----------------------------- MODULE LaneTracking -----------------------------
(***************************************************************************)
(* LaneDetectorCore::processFrame: what the detector remembers from frame  *)
(* to frame, and which of the two lines it finds.  The image is reduced to *)
(* what the search of this frame yields:                                   *)
(*   lines   the sides with at least 60 points,                            *)
(*   wide    their distance is plausible,                                  *)
(*   merged  the side recognised as a second hold on the other line,       *)
(*   steep   a line has an impossible slope,                               *)
(*   inView  the centre line lies in the image.                            *)
(***************************************************************************)
EXTENDS LaneChangePlanner

AllSights == [lines : SUBSET Sides, wide : BOOLEAN, merged : SUBSET Sides,
              steep : BOOLEAN, inView : BOOLEAN]

(* resetTracking, and the constructor *)
NoTracking == [initialized |-> FALSE, prev |-> {}]

CanTrack(t) == t.initialized /\ t.prev = Sides

(* left_ok, right_ok at the end *)
Found(t, s) ==
  IF CanTrack(t) /\ s.lines = Sides THEN s.lines \ s.merged ELSE s.lines

ErrorLane(t, s) == CanTrack(t) /\ s.steep /\ Found(t, s) # {}

ProcessFrame(t, s) ==
  LET prev == t.prev \cup Found(t, s)
  IN  CASE ErrorLane(t, s) -> NoTracking
        [] ~CanTrack(t) -> [initialized |-> s.lines = Sides /\ s.wide, prev |-> prev]
        [] OTHER -> [initialized |-> prev = Sides, prev |-> prev]

(* has_valid_lane_: computeCenterline finds points only beside a line *)
ValidLane(t, s) == Found(t, s) # {} /\ s.inView
=============================================================================
