------------------------ MODULE GarageControlProofs ------------------------
(***************************************************************************)
(* What GarageControl guarantees for every number of sequences and         *)
(* callers, every choice of calls and events and every bound.              *)
(*                                                                         *)
(* TypeOK is not inductive alone: what follows the resume of a robot is    *)
(* read off the reason the coroutine carries, so the invariant also says   *)
(* which reasons a coroutine can carry at which await.                     *)
(*                                                                         *)
(* Three properties fail when two calls work one door at once or somebody  *)
(* intervenes by hand, so their theorems say for what they hold.  Their    *)
(* invariants relate the coroutine under way to the door (DoorFollows), to *)
(* the robot and its sample (SampleIsHome), and to what has been seen of   *)
(* its clean (Begun, Synced).                                              *)
(***************************************************************************)
EXTENDS GarageControl, TLAPS

\* The reasons with which a coroutine can be about to resume the robot.
Fits(at, why) ==
  /\ at \in {"retResume", "retResumed"} => why = "return"
  /\ at \in {"depResume", "depResumed"} => why \in {"closed", "left_open"}

ReasonFitsAwait == \A p \in Procs : Fits(run[p].at, run[p].why)

ControlInv == TypeOK /\ ReasonFitsAwait

\* The results of the controller's synchronous stretches.
StepType == {r \in [ctl : Control, at : Points, why : Whys] : Fits(r.at, r.why)}
Outcomes == [ctl : Control, out : {"raised", "done", "moving"}]

-----------------------------------------------------------------------------
(* The stretches of controller code yield well-formed steps. *)

LEMMA ControlUpdates ==
  ASSUME NEW c \in Control, NEW ph \in Phases, NEW b \in BOOLEAN, NEW e \in BOOLEAN
  PROVE  /\ Fail(c) \in Control /\ Opened(c) \in Control /\ Closed(c) \in Control
         /\ Released(c, ph) \in Control
         /\ [c EXCEPT !.phase = ph] \in Control
         /\ [c EXCEPT !.tip = b] \in Control
         /\ [c EXCEPT !.phase = ph, !.err = e] \in Control
BY DEF Fail, Opened, Closed, Released, Control, Phases

LEMMA ToType ==
  ASSUME NEW c \in Control, NEW at \in Points, NEW why \in Whys, Fits(at, why)
  PROVE  To(c, at, why) \in StepType
BY DEF To, StepType

LEMMA RestEndType ==
  ASSUME NEW c \in Control
  PROVE  Rest(c) \in StepType /\ End(c) \in StepType
BY ToType DEF Rest, End, Fits, Points, Whys

\* A command of a sequence is let through or refused, after an unload refused.
LEMMA CommandingIs ==
  ASSUME NEW c, NEW at, NEW why, NEW x
  PROVE  /\ Commanding(c, at, why, x) \in {To(c, at, why), x}
         /\ closed => Commanding(c, at, why, x) = x
BY DEF Commanding, ControlAllowed

LEMMA StartTypes ==
  ASSUME NEW c \in Control
  PROVE  OpenStart(c) \in Outcomes /\ CloseStart(c) \in Outcomes
<1>1. {"idle", "opening", "closing"} \subseteq Phases
  BY DEF Phases
<1>2. /\ Fail(c) \in Control /\ Opened(c) \in Control
      /\ [c EXCEPT !.phase = "opening"] \in Control
      /\ [c EXCEPT !.phase = "closing"] \in Control
      /\ [c EXCEPT !.phase = "idle", !.err = FALSE] \in Control
  BY <1>1, ControlUpdates
<1>3. OpenStart(c) \in Outcomes
  BY <1>2 DEF OpenStart, Outcomes
<1>4. CloseStart(c) \in Outcomes
  BY <1>2 DEF CloseStart, Outcomes
<1> QED
  BY <1>3, <1>4

LEMMA AfterCloseType ==
  ASSUME NEW why \in Whys, NEW o \in Outcomes
  PROVE  AfterClose(why, o) \in StepType
<1>1. o.ctl \in Control
  BY DEF Outcomes
<1>2. /\ Fail(o.ctl) \in Control /\ Released(o.ctl, "idle") \in Control
      /\ Released(Fail(o.ctl), "blocked") \in Control
  BY <1>1, ControlUpdates DEF Phases
<1>3. To(o.ctl, "closeSend", why) \in StepType
  BY <1>1, ToType DEF Fits, Points
<1>4. To(o.ctl, "depResume", "closed") \in StepType
  BY <1>1, ToType DEF Fits, Points, Whys
<1>5. To(Fail(o.ctl), "depResume", "left_open") \in StepType
  BY <1>2, ToType DEF Fits, Points, Whys
<1>6. /\ End(Released(o.ctl, "idle")) \in StepType
      /\ End(Released(Fail(o.ctl), "blocked")) \in StepType
      /\ End(o.ctl) \in StepType /\ End(Fail(o.ctl)) \in StepType
  BY <1>1, <1>2, RestEndType
<1>7. /\ Commanding(o.ctl, "depResume", "closed", End(o.ctl)) \in StepType
      /\ Commanding(Fail(o.ctl), "depResume", "left_open", End(Fail(o.ctl))) \in StepType
  BY <1>4, <1>5, <1>6, CommandingIs
<1> QED
  BY <1>3, <1>6, <1>7 DEF AfterClose

LEMMA FinishRuleType ==
  ASSUME NEW c \in Control, NEW st \in Status
  PROVE  FinishRule(c, st) \in StepType
<1>1. /\ [c EXCEPT !.phase = "blocked"] \in Control
      /\ [c EXCEPT !.phase = "opening"] \in Control
      /\ Released(c, "idle") \in Control /\ Released(c, "blocked") \in Control
  BY ControlUpdates DEF Phases
<1>2. /\ Rest(c) \in StepType /\ Rest([c EXCEPT !.phase = "blocked"]) \in StepType
      /\ End(Released(c, "idle")) \in StepType /\ End(Released(c, "blocked")) \in StepType
  BY <1>1, RestEndType
<1>3. To([c EXCEPT !.phase = "opening"], "openSend", "rule1") \in StepType
  BY <1>1, ToType DEF Fits, Points, Whys
<1>4. LetOut(c) \in StepType
  BY <1>2, <1>3 DEF LetOut
<1>5. AfterClose("final", CloseStart(c)) \in StepType
  BY StartTypes, AfterCloseType DEF Whys
<1> QED
  BY <1>2, <1>4, <1>5 DEF FinishRule

LEMMA ReturnCommandType ==
  ASSUME NEW c \in Control, NEW ph \in Phases, NEW at \in {"retPause", "retResume"},
         NEW st \in Status
  PROVE  ReturnCommand(c, ph, at, st) \in StepType
<1> DEFINE d == [c EXCEPT !.phase = ph]
<1>1. d \in Control
  BY ControlUpdates
<1>2. To(d, at, "return") \in StepType
  BY <1>1, ToType DEF Fits, Points, Whys
<1>3. FinishRule(d, st) \in StepType
  BY <1>1, FinishRuleType
<1> HIDE DEF d
<1>4. Commanding(d, at, "return", FinishRule(d, st)) \in StepType
  BY <1>2, <1>3, CommandingIs
<1> QED
  BY <1>4 DEF ReturnCommand, d

LEMMA AfterOpenType ==
  ASSUME NEW why \in Whys, NEW o \in Outcomes, NEW st \in Status
  PROVE  AfterOpen(why, o, st) \in StepType
<1>1. o.ctl \in Control
  BY DEF Outcomes
<1>2. Fail(o.ctl) \in Control /\ [o.ctl EXCEPT !.phase = "resuming_return"] \in Control
  BY <1>1, ControlUpdates DEF Phases
<1>3. /\ To(o.ctl, "openSend", why) \in StepType
      /\ To(o.ctl, "sending", why) \in StepType
  BY <1>1, ToType DEF Fits, Points
<1>4. Readmit(o, st) \in StepType
  <2>1. ReturnCommand(o.ctl, "resuming_return", "retResume", st) \in StepType
    BY <1>1, ReturnCommandType DEF Phases
  <2> QED
    BY <1>1, <2>1, FinishRuleType DEF Readmit
<1>5. /\ End(o.ctl) \in StepType /\ Rest(o.ctl) \in StepType
      /\ Rest(Fail(o.ctl)) \in StepType
  BY <1>1, <1>2, RestEndType
<1> QED
  BY <1>3, <1>4, <1>5 DEF AfterOpen

LEMMA LoopBodyType ==
  ASSUME NEW c \in Control, NEW st \in Status
  PROVE  LoopBody(c, st) \in StepType
<1> DEFINE d == [c EXCEPT !.phase = "pausing_exit"]
<1>1. \A ph \in {"closed_outside", "blocked", "pausing_exit"} :
        [c EXCEPT !.phase = ph] \in Control
  BY ControlUpdates DEF Phases
<1>2. /\ ReturnCommand(c, "pausing_return", "retPause", st) \in StepType
      /\ Commanding(d, "depPause", "departure", End(d)) \in StepType
  <2>1. To(d, "depPause", "departure") \in StepType /\ End(d) \in StepType
    BY <1>1, ToType, RestEndType DEF Fits, Points, Whys
  <2> QED
    BY <2>1, ReturnCommandType, CommandingIs DEF Phases
<1>3. /\ FinishRule(c, st) \in StepType
      /\ FinishRule([c EXCEPT !.phase = "closed_outside"], st) \in StepType
      /\ FinishRule([c EXCEPT !.phase = "blocked"], st) \in StepType
  BY <1>1, FinishRuleType
<1> QED
  BY <1>2, <1>3 DEF LoopBody

LEMMA PauseReadType ==
  ASSUME NEW why \in Whys, NEW c \in Control, NEW st \in Status
  PROVE  PauseRead(why, c, st) \in StepType
<1>1. Fail(c) \in Control /\ [c EXCEPT !.phase = "opening"] \in Control
  BY ControlUpdates DEF Phases
<1>2. FinishRule(Fail(c), st) \in StepType
  BY <1>1, FinishRuleType
<1>3. AfterOpen("return", OpenStart([c EXCEPT !.phase = "opening"]), st) \in StepType
  BY <1>1, StartTypes, AfterOpenType DEF Whys
<1>4. AfterClose("departure", CloseStart(c)) \in StepType
  BY StartTypes, AfterCloseType DEF Whys
<1> QED
  BY <1>2, <1>3, <1>4 DEF PauseRead

LEMMA ResumeReadType ==
  ASSUME NEW why \in {"return", "closed", "left_open"}, NEW c \in Control, NEW st \in Status
  PROVE  ResumeRead(why, c, st) \in StepType
<1>1. /\ [c EXCEPT !.phase = "outside"] \in Control
      /\ Released(c, "closed_outside") \in Control
      /\ [c EXCEPT !.phase = "blocked"] \in Control
  BY ControlUpdates DEF Phases
<1>2. CASE why = "return"
  BY <1>1, <1>2, FinishRuleType DEF ResumeRead
<1>3. CASE why = "closed"
  BY <1>1, <1>3, FinishRuleType DEF ResumeRead
<1>4. CASE why = "left_open"
  BY <1>1, <1>4, FinishRuleType DEF ResumeRead
<1> QED
  BY <1>2, <1>3, <1>4

LEMMA ListenedType ==
  ASSUME NEW c \in Control, NEW d
  PROVE  Listened(c, d) \in Control
<1>1. /\ [c EXCEPT !.phase = "idle"] \in Control
      /\ [c EXCEPT !.phase = "outside"] \in Control
      /\ [c EXCEPT !.phase = "blocked"] \in Control
  BY ControlUpdates DEF Phases
<1> QED
  BY <1>1 DEF Listened, SyncPhase

-----------------------------------------------------------------------------
(* The door and the robot keep their types. *)

LEMMA DoorMoves ==
  ASSUME door \in Door, NEW x \in Travel, NEW b \in BOOLEAN
  PROVE  /\ Moved(x, b) \in Door
         /\ {Lift(x), Drop(x), Halt(x), Onward(x)} \subseteq Travel
<1>1. Moved(x, b) \in Door
  BY DEF Moved, Door
<1>2. Lift(x) \in Travel /\ Drop(x) \in Travel
  BY DEF Lift, Drop, Travel
<1>3. Halt(x) \in Travel /\ Onward(x) \in Travel
  BY DEF Halt, Onward, Travel
<1> QED
  BY <1>1, <1>2, <1>3

LEMMA RobotMoves ==
  ASSUME NEW r \in Robot
  PROVE  /\ {Started(r), Paused(r), Resumed(r), Stopped(r), SentHome(r)} \subseteq Robot
         /\ StatusOf(r) \in Status /\ PosOf(r) \in {"in", "out", "unknown"}
<1>1. Started(r) \in Robot
  BY DEF Started, Robot, Acts
<1>2. Paused(r) \in Robot
  BY DEF Paused, Robot, Acts
<1>3. Resumed(r) \in Robot
  BY DEF Resumed, Robot, Acts
<1>4. Stopped(r) \in Robot /\ SentHome(r) \in Robot
  BY DEF Stopped, SentHome, Robot, Acts
<1>5. StatusOf(r) \in Status /\ PosOf(r) \in {"in", "out", "unknown"}
  BY DEF StatusOf, PosOf, Status, Robot
<1> QED
  BY <1>1, <1>2, <1>3, <1>4, <1>5

-----------------------------------------------------------------------------
(* Frames: what an action built from them keeps. *)

\* The part of the state that a stretch of controller code writes.
CodeTyped ==
  /\ ctl \in Control /\ run \in [Procs -> Where] /\ ReasonFitsAwait
  /\ latest \in Seqs \cup {NoSeq} /\ closed \in BOOLEAN
\* The part that belongs to the world and its samples.
WorldTyped ==
  /\ door \in Door /\ rob \in Robot /\ late \in BOOLEAN
  /\ status \in Status /\ pos \in {"in", "out", "unknown"}
\* What is left of the bounds.
BoundsTyped ==
  /\ calls \in 0..MaxCalls /\ trips \in 0..Trips /\ budget \in 0..Budget

LEMMA InvParts ==
  ControlInv <=> CodeTyped /\ WorldTyped /\ BoundsTyped /\ seen \subseteq Procs
BY DEF ControlInv, TypeOK, CodeTyped, WorldTyped, BoundsTyped

LEMMA ReachTyped ==
  ASSUME CodeTyped, NEW p \in Procs, NEW r \in StepType, Reach(p, r),
         UNCHANGED <<latest, closed>>
  PROVE  CodeTyped'
<1>1. r.ctl \in Control /\ [at |-> r.at, why |-> r.why] \in Where /\ Fits(r.at, r.why)
  BY DEF StepType, Where
<1>2. run' \in [Procs -> Where] /\ ctl' \in Control
  BY <1>1 DEF CodeTyped, Reach
<1>3. \A q \in Procs : run'[q] = IF q = p THEN [at |-> r.at, why |-> r.why] ELSE run[q]
  BY DEF CodeTyped, Reach
<1>4. ReasonFitsAwait'
  BY <1>1, <1>3 DEF CodeTyped, ReasonFitsAwait
<1> QED
  BY <1>2, <1>4 DEF CodeTyped

\* A process moves to another await for the same reason.
LEMMA HopTyped ==
  ASSUME CodeTyped, NEW p \in Procs, NEW pt \in Points, Fits(pt, run[p].why),
         run' = [run EXCEPT ![p].at = pt], ctl' \in Control, UNCHANGED <<latest, closed>>
  PROVE  CodeTyped'
<1>1. run \in [Procs -> Where]
  BY DEF CodeTyped
<1>2. \A q \in Procs :
        run'[q] = IF q = p THEN [at |-> pt, why |-> run[p].why] ELSE run[q]
  BY <1>1 DEF Where
<1>3. run' \in [Procs -> Where]
  BY <1>1 DEF Where
<1>4. ReasonFitsAwait'
  BY <1>2 DEF CodeTyped, ReasonFitsAwait
<1> QED
  BY <1>3, <1>4 DEF CodeTyped

LEMMA RobotBecomesTyped ==
  ASSUME WorldTyped, NEW r \in Robot, RobotBecomes(r)
  PROVE  rob' \in Robot /\ status' \in Status /\ pos' \in {"in", "out", "unknown"}
BY RobotMoves DEF RobotBecomes, WorldTyped

LEMMA BoundsKept ==
  ASSUME BoundsTyped,
         budget' = budget \/ (budget > 0 /\ budget' = budget - 1),
         calls' = calls \/ (calls > 0 /\ calls' = calls - 1),
         trips' = trips \/ (trips > 0 /\ trips' = trips - 1)
  PROVE  BoundsTyped'
BY GarageAssumption DEF BoundsTyped, GarageAssumption

LEMMA DoorBecomesTyped ==
  ASSUME CodeTyped, WorldTyped, NEW d \in Door, DoorBecomes(d)
  PROVE  CodeTyped' /\ WorldTyped' /\ UNCHANGED <<calls, trips>>
<1>1. ctl' \in Control
  BY ListenedType DEF DoorBecomes, CodeTyped
<1> QED
  BY <1>1 DEF DoorBecomes, CodeTyped, WorldTyped, ReasonFitsAwait

LEMMA RobotStepTyped ==
  ASSUME CodeTyped, WorldTyped, NEW r \in Robot, RobotStep(r)
  PROVE  CodeTyped' /\ WorldTyped' /\ UNCHANGED calls
<1>1. rob' \in Robot /\ status' \in Status /\ pos' \in {"in", "out", "unknown"}
  BY RobotBecomesTyped DEF RobotStep
<1> QED
  BY <1>1 DEF RobotStep, CodeTyped, WorldTyped, ReasonFitsAwait

LEMMA ContinueTyped ==
  ASSUME CodeTyped, WorldTyped, NEW p \in Procs, NEW r \in StepType, Continue(p, r),
         status' \in Status
  PROVE  CodeTyped' /\ WorldTyped' /\ UNCHANGED <<calls, trips>>
<1>1. CodeTyped'
  BY ReachTyped DEF Continue
<1> QED
  BY <1>1 DEF Continue, WorldTyped

-----------------------------------------------------------------------------
(* Every action keeps the invariant; Witness keeps seen. *)

\* What one action does to everything but the history.
Kept == CodeTyped' /\ WorldTyped' /\ BoundsTyped'
Before == CodeTyped /\ WorldTyped /\ BoundsTyped

\* The moves of a door under way, for any process.
LEMMA DoorWorkKept ==
  ASSUME Before, NEW p \in Procs,
         MoveDoor(p) \/ MoveDoorFails(p) \/ Arrived(p) \/ TimedOut(p)
  PROVE  Kept
<1>1. /\ ctl \in Control /\ run[p].at \in Points /\ run[p].why \in Whys
      /\ door \in Door /\ status \in Status
  BY DEF Before, CodeTyped, WorldTyped, Where
<1>2. CASE MoveDoor(p)
  <2>1. Moved(Lift(door.at), TRUE) \in Door /\ Moved(Drop(door.at), TRUE) \in Door
    <3>1. door.at \in Travel
      BY <1>1 DEF Door
    <3>2. Lift(door.at) \in Travel /\ Drop(door.at) \in Travel
      BY <1>1, <3>1, DoorMoves
    <3> QED
      BY <1>1, <3>2, DoorMoves
  <2>2. door' \in Door /\ ctl' \in Control
    BY <1>1, <1>2, <2>1, ListenedType DEF MoveDoor
  <2>3. CodeTyped'
    <3>1. \A pt \in {"openWait", "closeWait"} : pt \in Points /\ Fits(pt, run[p].why)
      BY DEF Points, Fits
    <3>2. PICK pt \in {"openWait", "closeWait"} : run' = [run EXCEPT ![p].at = pt]
      BY <1>2 DEF MoveDoor
    <3>3. CodeTyped /\ UNCHANGED <<latest, closed>>
      BY <1>2 DEF MoveDoor, Before
    <3> QED
      BY <2>2, <3>1, <3>2, <3>3, HopTyped
  <2>4. WorldTyped'
    BY <1>2, <2>2 DEF MoveDoor, Before, WorldTyped
  <2>5. BoundsTyped'
    BY <1>2, BoundsKept DEF MoveDoor, Before, Free
  <2> QED
    BY <2>3, <2>4, <2>5 DEF Kept
<1>3. ASSUME NEW r \in StepType, Continue(p, r), UNCHANGED status,
             budget' = budget \/ (budget > 0 /\ budget' = budget - 1)
      PROVE  Kept
  <2>1. CodeTyped' /\ WorldTyped' /\ UNCHANGED <<calls, trips>>
    BY <1>1, <1>3, ContinueTyped DEF Before
  <2> QED
    BY <1>3, <2>1, BoundsKept DEF Before, Kept
<1>4. \A o \in Outcomes : /\ AfterOpen(run[p].why, o, status) \in StepType
                         /\ AfterClose(run[p].why, o) \in StepType
  BY <1>1, AfterOpenType, AfterCloseType
<1>5. /\ [ctl |-> Fail(ctl), out |-> "raised"] \in Outcomes
      /\ [ctl |-> ctl, out |-> "raised"] \in Outcomes
      /\ [ctl |-> Opened(ctl), out |-> "done"] \in Outcomes
      /\ [ctl |-> Closed(ctl), out |-> "done"] \in Outcomes
  BY <1>1, ControlUpdates DEF Outcomes, Phases
<1>6. CASE MoveDoorFails(p)
  BY <1>3, <1>4, <1>5, <1>6 DEF MoveDoorFails, Spend
<1>7. CASE Arrived(p)
  BY <1>3, <1>4, <1>5, <1>7 DEF Arrived, Free
<1>8. CASE TimedOut(p)
  BY <1>3, <1>4, <1>5, <1>8 DEF TimedOut, Free, Spend
<1> QED
  BY <1>2, <1>6, <1>7, <1>8

\* A call begins.
LEMMA StartCallKept ==
  ASSUME Before, NEW c \in Callers, StartCall(c)
  PROVE  Kept
<1>1. ctl \in Control /\ status \in Status /\ c \in Procs
  BY DEF Before, CodeTyped, WorldTyped, Procs
<1>2. AllOps \subseteq Whys \cup {"reset"} /\ Ops \subseteq AllOps
  BY GarageAssumption DEF AllOps, Whys, GarageAssumption
<1>3. \A ph \in {"idle", "outside"} : End([ctl EXCEPT !.phase = ph]) \in StepType
  BY <1>1, ControlUpdates, RestEndType DEF Phases
<1>4. \A why \in Whys : /\ AfterClose(why, CloseStart(ctl)) \in StepType
                       /\ AfterOpen(why, OpenStart(ctl), status) \in StepType
  BY <1>1, StartTypes, AfterCloseType, AfterOpenType
<1>5. \E r \in StepType : Reach(c, r)
  BY <1>2, <1>3, <1>4 DEF StartCall
<1>6. CodeTyped'
  BY <1>1, <1>5, ReachTyped DEF StartCall, Before
<1>7. WorldTyped'
  BY DEF StartCall, Before, WorldTyped
<1>8. BoundsTyped'
  BY BoundsKept DEF StartCall, Before, Free
<1> QED
  BY <1>6, <1>7, <1>8 DEF Kept

\* The command of a call, its failure and its acceptance.
LEMMA CommandKept ==
  ASSUME Before, NEW c \in Callers, Send(c) \/ SendFails(c) \/ Accepted(c)
  PROVE  Kept
<1>1. /\ ctl \in Control /\ c \in Procs /\ run[c].why \in Whys /\ rob \in Robot
      /\ status \in Status
  BY DEF Before, CodeTyped, WorldTyped, Procs, Where
<1>2. End(ctl) \in StepType /\ To(ctl, "sent", run[c].why) \in StepType
  BY <1>1, RestEndType, ToType DEF Points, Fits
<1>3. CASE Send(c)
  <2>1. CodeTyped'
    <3>1. PICK r \in StepType : Reach(c, r)
      BY <1>2, <1>3 DEF Send
    <3> QED
      BY <1>1, <1>3, <3>1, ReachTyped DEF Send, Before
  <2>2. rob' \in Robot /\ status' \in Status /\ pos' \in {"in", "out", "unknown"}
    <3>1. Resumed(rob) \in Robot /\ Started(rob) \in Robot
      BY <1>1, RobotMoves
    <3>2. CASE UNCHANGED <<rob, status, pos>>
      BY <1>1, <3>2 DEF Before, WorldTyped
    <3>3. CASE \E r \in Robot : RobotBecomes(r)
      BY <3>3, RobotBecomesTyped DEF Before
    <3> QED
      BY <1>3, <3>1, <3>2, <3>3 DEF Send
  <2>3. BoundsTyped'
    BY <1>3, BoundsKept DEF Send, Before, Free, Spend
  <2> QED
    BY <1>3, <2>1, <2>2, <2>3 DEF Send, Before, WorldTyped, Kept
<1>4. CASE SendFails(c)
  <2>1. CodeTyped' /\ WorldTyped' /\ UNCHANGED <<calls, trips>>
    BY <1>1, <1>2, <1>4, ContinueTyped DEF SendFails, Before
  <2> QED
    BY <1>4, <2>1, BoundsKept DEF SendFails, Spend, Before, Kept
<1>5. CASE Accepted(c)
  <2>1. PICK s \in Seqs :
          /\ run' = [run EXCEPT ![c] = [at |-> "idle", why |-> "none"],
                                ![s] = [at |-> "confirm", why |-> "none"]]
          /\ latest' = s
    BY <1>5 DEF Accepted
  <2>2. \A pt \in {"idle", "confirm"} :
          [at |-> pt, why |-> "none"] \in Where /\ Fits(pt, "none")
    BY DEF Where, Points, Whys, Fits
  <2>3. run \in [Procs -> Where]
    BY DEF Before, CodeTyped
  <2>4. run' \in [Procs -> Where]
    BY <2>1, <2>2, <2>3
  <2>5. \A q \in Procs : \/ run'[q] = run[q]
                        \/ run'[q] = [at |-> "idle", why |-> "none"]
                        \/ run'[q] = [at |-> "confirm", why |-> "none"]
    BY <2>1, <2>3
  <2>6. ReasonFitsAwait'
    BY <2>2, <2>5 DEF ReasonFitsAwait, Before, CodeTyped
  <2>7. CodeTyped'
    BY <1>5, <2>1, <2>4, <2>6 DEF Accepted, Before, CodeTyped
  <2>8. status' \in Status
    BY <1>1, <1>5, RobotMoves DEF Accepted, Sampled
  <2>9. BoundsTyped'
    BY <1>5, BoundsKept DEF Accepted, Sampled, Free, Spend, Before
  <2> QED
    BY <1>5, <2>7, <2>8, <2>9 DEF Accepted, Before, WorldTyped, Kept
<1> QED
  BY <1>3, <1>4, <1>5

\* The stretches of a sequence that command nothing.
LEMMA SequenceReadsKept ==
  ASSUME Before, NEW s \in Seqs,
         \/ ConfirmTick(s) \/ ConfirmTimeout(s) \/ LoopTick(s) \/ Deadline(s)
         \/ CommandFails(s) \/ AfterPause(s) \/ AfterResume(s)
  PROVE  Kept
<1>1. /\ ctl \in Control /\ s \in Procs /\ run[s].why \in Whys /\ rob \in Robot
      /\ status \in Status /\ Fits(run[s].at, run[s].why)
  BY DEF Before, CodeTyped, WorldTyped, Procs, Where, ReasonFitsAwait
<1>2. ASSUME NEW r \in StepType, Continue(s, r), status' \in Status,
             budget' = budget \/ (budget > 0 /\ budget' = budget - 1)
      PROVE  Kept
  <2>1. CodeTyped' /\ WorldTyped' /\ UNCHANGED <<calls, trips>>
    BY <1>1, <1>2, ContinueTyped DEF Before
  <2> QED
    BY <1>2, <2>1, BoundsKept DEF Before, Kept
<1>3. /\ End(ctl) \in StepType /\ Rest(ctl) \in StepType
      /\ End([ctl EXCEPT !.tip = FALSE]) \in StepType
      /\ LoopBody(ctl, status) \in StepType /\ FinishRule(ctl, status) \in StepType
  <2>1. [ctl EXCEPT !.tip = FALSE] \in Control
    BY <1>1, ControlUpdates DEF Phases
  <2> QED
    BY <1>1, <2>1, RestEndType, LoopBodyType, FinishRuleType
<1>4. CASE \/ ConfirmTick(s) \/ ConfirmTimeout(s) \/ LoopTick(s) \/ Deadline(s)
           \/ CommandFails(s)
  <2>1. UNCHANGED status
    BY <1>4 DEF ConfirmTick, ConfirmTimeout, LoopTick, Deadline, CommandFails
  <2>2. budget' = budget \/ (budget > 0 /\ budget' = budget - 1)
    BY <1>4 DEF ConfirmTick, ConfirmTimeout, LoopTick, Deadline, 
                CommandFails, Free, Spend
  <2>3. \E r \in StepType : Continue(s, r)
    BY <1>3, <1>4 DEF ConfirmTick, ConfirmTimeout, LoopTick, Deadline, 
                      CommandFails
  <2> QED
    BY <1>1, <1>2, <2>1, <2>2, <2>3
<1>5. Sampled => /\ status' \in Status
                 /\ budget' = budget \/ (budget > 0 /\ budget' = budget - 1)
  BY <1>1, RobotMoves DEF Sampled, Free, Spend
<1>6. CASE AfterPause(s)
  BY <1>1, <1>2, <1>5, <1>6, PauseReadType DEF AfterPause
<1>7. CASE AfterResume(s)
  <2>1. run[s].why \in {"return", "closed", "left_open"}
    BY <1>1, <1>7 DEF AfterResume, At, Fits
  <2> QED
    BY <1>1, <1>2, <1>5, <1>7, <2>1, ResumeReadType DEF AfterResume
<1> QED
  BY <1>4, <1>6, <1>7

\* The commands of a sequence to the robot.
LEMMA SequenceCommandsKept ==
  ASSUME Before, NEW s \in Seqs, SendPause(s) \/ SendResume(s)
  PROVE  Kept
<1>1. /\ ctl \in Control /\ s \in Procs /\ rob \in Robot
      /\ Fits(run[s].at, run[s].why)
  BY DEF Before, CodeTyped, WorldTyped, Procs, ReasonFitsAwait
<1>2. CodeTyped'
  <2>1. ctl' \in Control /\ UNCHANGED <<latest, closed>> /\ CodeTyped
    BY <1>1 DEF SendPause, SendResume, Before
  <2>2. \E pt \in Points : /\ Fits(pt, run[s].why)
                          /\ run' = [run EXCEPT ![s].at = pt]
    <3>1. CASE SendPause(s)
      <4>1. PICK pt \in {"retPaused", "depPaused"} : run' = [run EXCEPT ![s].at = pt]
        BY <3>1 DEF SendPause
      <4> QED
        BY <4>1 DEF Points, Fits
    <3>2. CASE SendResume(s) /\ run[s].at = "retResume"
      <4>1. run' = [run EXCEPT ![s].at = "retResumed"]
        BY <3>2 DEF SendResume
      <4> QED
        BY <1>1, <3>2, <4>1 DEF Points, Fits
    <3>3. CASE SendResume(s) /\ run[s].at # "retResume"
      <4>1. run' = [run EXCEPT ![s].at = "depResumed"] /\ run[s].at = "depResume"
        BY <3>3 DEF SendResume, At
      <4> QED
        BY <1>1, <3>3, <4>1 DEF Points, Fits
    <3> QED
      BY <3>1, <3>2, <3>3
  <2> QED
    BY <1>1, <2>1, <2>2, HopTyped
<1>3. rob' \in Robot /\ status' \in Status /\ pos' \in {"in", "out", "unknown"}
  <2>1. Resumed(rob) \in Robot /\ Paused(rob) \in Robot
    BY <1>1, RobotMoves
  <2>2. CASE UNCHANGED <<rob, status, pos>>
    BY <2>2 DEF Before, WorldTyped
  <2>3. CASE \E r \in Robot : RobotBecomes(r)
    BY <2>3, RobotBecomesTyped DEF Before
  <2> QED
    BY <2>1, <2>2, <2>3 DEF SendPause, SendResume
<1>4. UNCHANGED door /\ late' \in BOOLEAN
  BY DEF SendPause, SendResume, Before, WorldTyped
<1>5. BoundsTyped'
  BY BoundsKept DEF SendPause, SendResume, Before, Free, Spend
<1> QED
  BY <1>2, <1>3, <1>4, <1>5 DEF Before, WorldTyped, Kept

\* The runtime is unloaded.
LEMMA UnloadKept ==
  ASSUME Before, NEW delivered \in BOOLEAN, Unload(delivered)
  PROVE  Kept
<1>1. /\ run \in [Procs -> Where] /\ door \in Door /\ rob \in Robot
      /\ door.at \in Travel
  BY DEF Before, CodeTyped, WorldTyped, Door
<1>2. run' \in [Procs -> Where]
  BY <1>1 DEF Unload, Where, Points, Whys
<1>3. ReasonFitsAwait'
  <2>1. \A q \in Procs : run'[q] = run[q] \/ run'[q] = [at |-> "idle", why |-> "none"]
    BY <1>1 DEF Unload
  <2> QED
    BY <2>1 DEF Before, CodeTyped, ReasonFitsAwait, Fits
<1>4. CodeTyped'
  BY <1>2, <1>3 DEF Unload, Before, CodeTyped
<1>5. door' \in Door
  <2>1. Lift(door.at) \in Travel /\ Drop(door.at) \in Travel
    BY <1>1, DoorMoves
  <2>2. Moved(Lift(door.at), TRUE) \in Door /\ Moved(Drop(door.at), TRUE) \in Door
    BY <1>1, <2>1, DoorMoves
  <2> QED
    BY <1>1, <2>2 DEF Unload
<1>6. rob' \in Robot /\ status' \in Status /\ pos' \in {"in", "out", "unknown"}
  <2>1. rob \in Robot /\ Resumed(rob) \in Robot /\ Paused(rob) \in Robot
    BY <1>1, RobotMoves
  <2>2. \E r \in Robot : RobotBecomes(r)
    BY <2>1 DEF Unload
  <2> QED
    BY <2>2, RobotBecomesTyped DEF Before
<1>7. BoundsTyped'
  BY BoundsKept DEF Unload, Before, Spend
<1> QED
  BY <1>4, <1>5, <1>6, <1>7 DEF Unload, Before, WorldTyped, Kept

\* The door by itself or by somebody's hand.
LEMMA DoorChangesKept ==
  ASSUME Before,
         \/ DoorTravels \/ HouseholdMoves \/ FeedbackLost \/ FeedbackBack
         \/ PermitOff \/ PermitOn
  PROVE  Kept
<1>1. door \in Door /\ door.at \in Travel
  BY DEF Before, WorldTyped, Door
<1>2. {Lift(door.at), Drop(door.at), Halt(door.at), Onward(door.at)} \subseteq Travel
  BY <1>1, DoorMoves
<1>3. /\ [door EXCEPT !.at = Onward(@)] \in Door
      /\ \A b \in BOOLEAN : /\ [door EXCEPT !.readable = b] \in Door
                           /\ [door EXCEPT !.permit = b] \in Door
  BY <1>1, <1>2 DEF Door
<1>4. \A x \in Travel : Moved(x, FALSE) \in Door
  BY <1>1, DoorMoves
<1>5. \E d \in Door : DoorBecomes(d)
  BY <1>2, <1>3, <1>4 DEF DoorTravels, HouseholdMoves, FeedbackLost, FeedbackBack,
                          PermitOff, PermitOn
<1>6. budget' = budget \/ (budget > 0 /\ budget' = budget - 1)
  BY DEF DoorTravels, HouseholdMoves, FeedbackLost, FeedbackBack, PermitOff, PermitOn,
         Free, Spend
<1>7. CodeTyped' /\ WorldTyped' /\ UNCHANGED <<calls, trips>>
  BY <1>5, DoorBecomesTyped DEF Before
<1> QED
  BY <1>6, <1>7, BoundsKept DEF Before, Kept

\* The robot by itself, or by its user.
LEMMA RobotChangesKept ==
  ASSUME Before, RobotActs \/ Wander \/ TakeBreak \/ LatePause \/ UserCommand
  PROVE  Kept
<1>1. rob \in Robot
  BY DEF Before, WorldTyped
<1>2. /\ \A x \in {"dock", "zone", "out"} : [rob EXCEPT !.at = x] \in Robot
      /\ \A a \in Acts : /\ [rob EXCEPT !.act = a] \in Robot
                        /\ [rob EXCEPT !.at = "dock", !.act = a] \in Robot
                        /\ [rob EXCEPT !.act = a, !.job = FALSE] \in Robot
  BY <1>1 DEF Robot
<1>3. {"charging", "washing", "returning", "cleaning"} \subseteq Acts
  BY DEF Acts
<1>4. {Paused(rob), Resumed(rob), Stopped(rob), SentHome(rob)} \subseteq Robot
  BY <1>1, RobotMoves
<1>5. CASE RobotActs \/ Wander \/ TakeBreak \/ UserCommand
  <2>2. \E r \in Robot : RobotStep(r)
    <3>1. CASE DriveOut \/ Wander
      BY <1>2, <3>1 DEF DriveOut, Wander
    <3>2. CASE HeadHome \/ TakeBreak
      BY <1>2, <1>3, <3>2 DEF HeadHome, TakeBreak
    <3>3. CASE DriveHome
      BY <1>2, <1>3, <3>3 DEF DriveHome
    <3>4. CASE GoesOn
      BY <1>2, <1>3, <3>4 DEF GoesOn
    <3>5. CASE UserCommand
      BY <1>4, <3>5 DEF UserCommand
    <3> QED
      BY <1>5, <3>1, <3>2, <3>3, <3>4, <3>5 DEF RobotActs
  <2>3. /\ budget' = budget \/ (budget > 0 /\ budget' = budget - 1)
        /\ trips' = trips \/ (trips > 0 /\ trips' = trips - 1)
    BY <1>5 DEF RobotActs, DriveOut, HeadHome, DriveHome, GoesOn, Wander, TakeBreak,
                UserCommand, Free, Spend
  <2>4. CodeTyped' /\ WorldTyped' /\ UNCHANGED calls
    BY <2>2, RobotStepTyped DEF Before
  <2> QED
    BY <2>3, <2>4, BoundsKept DEF Before, Kept
<1>6. CASE LatePause
  <2>1. rob' \in Robot /\ status' \in Status /\ pos' \in {"in", "out", "unknown"}
    BY <1>4, <1>6, RobotBecomesTyped DEF LatePause, Before
  <2>2. BoundsTyped'
    BY <1>6, BoundsKept DEF LatePause, Before, Free
  <2> QED
    BY <1>6, <2>1, <2>2 DEF LatePause, Before, CodeTyped, WorldTyped, ReasonFitsAwait, Kept
<1> QED
  BY <1>5, <1>6

\* The samples.
LEMMA PollsKept ==
  ASSUME Before, PollStatus \/ PollPosition \/ NoPosition
  PROVE  Kept
<1>1. StatusOf(rob) \in Status /\ PosOf(rob) \in {"in", "out", "unknown"}
  BY RobotMoves DEF Before, WorldTyped
<1>2. BoundsTyped'
  BY BoundsKept DEF PollStatus, PollPosition, NoPosition, Free, Spend, Before
<1> QED
  BY <1>1, <1>2 DEF PollStatus, PollPosition, NoPosition, Before, CodeTyped, WorldTyped,
                    ReasonFitsAwait, Kept

-----------------------------------------------------------------------------
(* The theorems. *)

LEMMA ControlInit == Init => ControlInv
<1> SUFFICES ASSUME Init PROVE ControlInv
  OBVIOUS
<1>1. rob \in Robot /\ status \in Status
  BY DEF Init, Robot, Acts, Status, StatusOf
<1>2. ctl \in Control
  BY DEF Init, Control, Phases
<1>3. run \in [Procs -> Where] /\ ReasonFitsAwait
  BY DEF Init, Where, Points, Whys, ReasonFitsAwait, Fits
<1>4. calls \in 0..MaxCalls /\ trips \in 0..Trips /\ budget \in 0..Budget
  BY GarageAssumption DEF Init, GarageAssumption
<1> QED
  BY <1>1, <1>2, <1>3, <1>4 DEF Init, ControlInv, TypeOK

LEMMA ControlNext == ControlInv /\ [Next]_vars => ControlInv'
<1> SUFFICES ASSUME ControlInv, [Next]_vars PROVE ControlInv'
  OBVIOUS
<1>1. Before
  BY InvParts DEF Before
<1>2. CASE Next
  <2>1. seen' \subseteq Procs
    BY <1>2 DEF Next, Witness, Procs
  <2>2. ASSUME World PROVE Kept
    BY <1>1, <2>2, DoorChangesKept, RobotChangesKept, PollsKept, UnloadKept DEF World
  <2>3. ASSUME NEW p \in Procs, Proceed(p) \/ Disturbed(p) PROVE Kept
    <3>1. CASE MoveDoor(p) \/ MoveDoorFails(p) \/ Arrived(p) \/ TimedOut(p)
      BY <1>1, <3>1, DoorWorkKept
    <3>2. CASE p \in Callers /\ (Send(p) \/ Accepted(p) \/ StartCall(p) \/ SendFails(p))
      BY <1>1, <3>2, StartCallKept, CommandKept
    <3>3. CASE p \in Seqs /\ ~(SendPause(p) \/ SendResume(p))
      BY <1>1, <2>3, <3>1, <3>2, <3>3, SequenceReadsKept DEF Proceed, Disturbed
    <3>4. CASE p \in Seqs /\ (SendPause(p) \/ SendResume(p))
      BY <1>1, <3>4, SequenceCommandsKept
    <3> QED
      BY <2>3, <3>1, <3>2, <3>3, <3>4 DEF Proceed, Disturbed
  <2>4. Kept
    BY <1>2, <2>2, <2>3 DEF Next
  <2>5. CodeTyped' /\ WorldTyped' /\ BoundsTyped'
    BY <2>4 DEF Kept
  <2> QED
    BY <2>1, <2>5 DEF CodeTyped, WorldTyped, BoundsTyped, ControlInv, TypeOK
<1>3. CASE UNCHANGED vars
  BY <1>3 DEF vars, ControlInv, TypeOK, ReasonFitsAwait
<1> QED
  BY <1>2, <1>3

THEOREM ControlInvariant == Spec => []ControlInv
BY ControlInit, ControlNext, PTL DEF Spec

\* Every variable of the controller and its world keeps its type.
THEOREM ControlTypes == Spec => []TypeOK
BY ControlInvariant, PTL DEF ControlInv

\* A coroutine resumes the robot only for a reason that its code path set.
THEOREM ReasonsFit == Spec => []ReasonFitsAwait
BY ControlInvariant, PTL DEF ControlInv

-----------------------------------------------------------------------------
(* One call, and the sequence it leaves behind: who can be under way. *)

Busy(p) == ~At(p, {"idle"})

\* With a single call there is never more than one coroutine: the caller until its
\* command is accepted, then its sequence.
Alone ==
  /\ \A p, q \in Procs : Busy(p) /\ Busy(q) => p = q
  /\ calls > 0 => \A p \in Procs : ~Busy(p)

\* A process has run to an await.
LEMMA ReachIs ==
  ASSUME run \in [Procs -> Where], NEW p \in Procs, NEW r, Reach(p, r)
  PROVE  /\ run'[p].at = r.at /\ run'[p].why = r.why
         /\ \A q \in Procs : q # p => run'[q] = run[q]
BY DEF Reach

\* It has gone on to another await for the same reason.
LEMMA HopIs ==
  ASSUME run \in [Procs -> Where], NEW p \in Procs, NEW pt, run' = [run EXCEPT ![p].at = pt]
  PROVE  /\ run'[p].at = pt /\ run'[p].why = run[p].why
         /\ \A q \in Procs : q # p => run'[q] = run[q]
BY DEF Where

LEMMA AcceptedIs ==
  ASSUME ControlInv, NEW c \in Callers, Accepted(c)
  PROVE  \E s \in Seqs :
           /\ At(c, {"sent"}) /\ run'[c].at = "idle" /\ calls' = calls
           /\ At(s, {"idle"}) /\ run'[s].at = "confirm" /\ s \in Procs /\ c \in Procs
           /\ \A q \in Procs \ {c, s} : run'[q] = run[q]
<1>1. run \in [Procs -> Where] /\ c \in Procs /\ \A s \in Seqs : s \in Procs /\ s # c
  BY GarageAssumption DEF ControlInv, TypeOK, Procs
<1>2. PICK s \in Seqs :
        /\ At(s, {"idle"})
        /\ run' = [run EXCEPT ![c] = [at |-> "idle", why |-> "none"],
                              ![s] = [at |-> "confirm", why |-> "none"]]
  BY DEF Accepted
<1>3. /\ run'[c].at = "idle" /\ run'[s].at = "confirm"
      /\ \A q \in Procs \ {c, s} : run'[q] = run[q]
  BY <1>1, <1>2
<1> QED BY <1>1, <1>2, <1>3 DEF Accepted

LEMMA UnloadIs ==
  ASSUME ControlInv, NEW delivered \in BOOLEAN, Unload(delivered)
  PROVE  /\ calls' = calls
         /\ \A q \in Procs : run'[q] = run[q] \/ run'[q].at = "idle"
         /\ latest # NoSeq => run'[latest].at = "idle"
BY GarageAssumption DEF Unload, ControlInv, TypeOK, Procs

\* The world moves no coroutine.
LEMMA WorldRuns ==
  ASSUME World, \A d \in BOOLEAN : ~Unload(d)
  PROVE  UNCHANGED <<run, calls>>
BY DEF World, DoorTravels, HouseholdMoves, FeedbackLost, FeedbackBack, PermitOff, PermitOn,
   DoorBecomes, RobotActs, DriveOut, HeadHome, DriveHome, GoesOn, Wander, TakeBreak,
   UserCommand, RobotStep, LatePause, PollStatus, PollPosition, NoPosition

\* What a coroutine does that is neither a new call nor an accepted one.
Advances(p) ==
  \/ MoveDoor(p) \/ Arrived(p) \/ TimedOut(p) \/ MoveDoorFails(p)
  \/ p \in Callers /\ (Send(p) \/ SendFails(p))
  \/ p \in Seqs /\ (ConfirmTick(p) \/ ConfirmTimeout(p) \/ LoopTick(p)
                    \/ SendPause(p) \/ AfterPause(p) \/ SendResume(p) \/ AfterResume(p)
                    \/ Deadline(p) \/ CommandFails(p))

LEMMA NextCases ==
  Next => \/ World /\ \A d \in BOOLEAN : ~Unload(d)
          \/ \E d \in BOOLEAN : Unload(d)
          \/ \E p \in Procs : Advances(p)
          \/ \E c \in Callers : StartCall(c) \/ Accepted(c)
BY DEF Next, Proceed, Disturbed, Advances

LEMMA WorkingRuns ==
  ASSUME ControlInv, NEW p \in Procs, Advances(p)
  PROVE  Busy(p) /\ calls' = calls /\ \A q \in Procs : q # p => run'[q] = run[q]
<1>0. run \in [Procs -> Where]
  BY DEF ControlInv, TypeOK
<1>1. CASE MoveDoor(p)
  <2>1. \E pt : run' = [run EXCEPT ![p].at = pt]
    BY <1>1 DEF MoveDoor
  <2> QED BY <1>0, <1>1, <2>1, HopIs DEF MoveDoor, Busy, At
<1>2. CASE SendPause(p) \/ SendResume(p)
  <2>1. \E pt : run' = [run EXCEPT ![p].at = pt]
    BY <1>2 DEF SendPause, SendResume
  <2> QED BY <1>0, <1>2, <2>1, HopIs DEF SendPause, SendResume, Busy, At
<1>3. CASE Send(p)
  <2>1. \E r : Reach(p, r)
    BY <1>3 DEF Send
  <2> QED BY <1>0, <1>3, <2>1, ReachIs DEF Send, Busy, At
<1>4. CASE Arrived(p) \/ TimedOut(p) \/ MoveDoorFails(p)
  <2>1. /\ \E r : Continue(p, r)
        /\ Busy(p)
    BY <1>4 DEF Arrived, TimedOut, MoveDoorFails, Busy, At
  <2> QED BY <1>0, <2>1, ReachIs DEF Continue
<1>5. CASE SendFails(p) \/ ConfirmTick(p) \/ ConfirmTimeout(p) \/ LoopTick(p)
           \/ AfterPause(p) \/ AfterResume(p) \/ Deadline(p) \/ CommandFails(p)
  <2>1. /\ \E r : Continue(p, r)
        /\ Busy(p)
    BY <1>5 DEF SendFails, ConfirmTick, ConfirmTimeout, LoopTick, AfterPause,
       AfterResume, Deadline, CommandFails, Busy, At, InFlight
  <2> QED BY <1>0, <2>1, ReachIs DEF Continue
<1> QED BY <1>1, <1>2, <1>3, <1>4, <1>5 DEF Advances

LEMMA StartCallIs ==
  ASSUME ControlInv, NEW c \in Callers, StartCall(c)
  PROVE  /\ calls > 0 /\ calls' = calls - 1 /\ c \in Procs
         /\ \A q \in Procs : q # c => run'[q] = run[q]
<1>0. run \in [Procs -> Where] /\ c \in Procs
  BY DEF ControlInv, TypeOK, Procs
<1>1. \E r : Reach(c, r)
  BY DEF StartCall
<1> QED BY <1>0, <1>1, ReachIs DEF StartCall

LEMMA AloneStep ==
  ASSUME MaxCalls <= 1, ControlInv, Alone, [Next]_vars
  PROVE  Alone'
<1>0. calls \in 0..MaxCalls /\ MaxCalls \in Nat
  BY GarageAssumption DEF ControlInv, TypeOK
<1>2. CASE \E p \in Procs : Advances(p)
  BY <1>2, WorkingRuns DEF Alone, Busy, At
<1>3. CASE \E c \in Callers : StartCall(c)
  <2>1. calls' = 0
    BY <1>0, <1>3, StartCallIs
  <2> QED BY <1>3, <2>1, StartCallIs DEF Alone, Busy, At
<1>4. CASE \E c \in Callers : Accepted(c)
  <2>1. PICK c \in Callers, s \in Seqs :
           /\ At(c, {"sent"}) /\ run'[c].at = "idle" /\ calls' = calls
           /\ At(s, {"idle"}) /\ run'[s].at = "confirm" /\ s \in Procs /\ c \in Procs
           /\ \A q \in Procs \ {c, s} : run'[q] = run[q]
    BY <1>4, AcceptedIs
  <2>2. Busy(c) /\ \A q \in Procs : q # s => ~Busy(q)'
    BY <2>1 DEF Alone, Busy, At
  <2> QED BY <2>1, <2>2 DEF Alone
<1>5. CASE World /\ \A d \in BOOLEAN : ~Unload(d)
  BY <1>5, WorldRuns DEF Alone, Busy, At
<1>6. CASE \E d \in BOOLEAN : Unload(d)
  BY <1>6, UnloadIs DEF Alone, Busy, At
<1>7. CASE UNCHANGED vars
  BY <1>7 DEF vars, Alone, Busy, At
<1> QED BY <1>2, <1>3, <1>4, <1>5, <1>6, <1>7, NextCases

-----------------------------------------------------------------------------
(* How a stretch of controller code can end. *)

\* Only with the door seen open does it release the robot, and it waits for no
\* endpoint it has not ordered.
Releases(r) ==
  /\ r.at \notin {"openWait", "closeWait", "sent", "confirm"}
  /\ r.at \in {"sending", "retResume"} => door.at = "open"

Rests(st) == st.name = "charging" /\ ~st.job

\* A sequence that orders the door closed at the end has a sample of a robot at rest, and
\* after an unload it begins no command.
Finishes(r, st) ==
  /\ closed => r.at \notin InFlight
  /\ r.at \notin {"closeWait", "confirm"}
  /\ r.at = "closeSend" => r.why = "final" /\ Rests(st)

LEMMA StartsIs ==
  ASSUME NEW c \in Control
  PROVE  /\ OpenStart(c).out = "done" => OpenConfirmed(c.phase, door)
         /\ OpenStart(c).out \in {"done", "raised", "moving"}
         /\ CloseStart(c).out \in {"done", "raised", "moving"}
BY DEF OpenStart, CloseStart

LEMMA AfterCloseEnds ==
  ASSUME NEW why, NEW o \in Outcomes
  PROVE  /\ AfterClose(why, o).at \in {"closeSend", "depResume", "idle"}
         /\ AfterClose(why, o).at = "closeSend" =>
              o.out = "moving" /\ AfterClose(why, o).why = why
         /\ AfterClose(why, o).at = "depResume" => why = "departure" /\ ~closed
<1>1. /\ \A c : End(c).at = "idle"
      /\ \A c : To(c, "closeSend", why).at = "closeSend" /\ To(c, "closeSend", why).why = why
      /\ \A c, w : To(c, "depResume", w).at = "depResume"
  BY DEF To, End
<1>2. \A c, w : /\ Commanding(c, "depResume", w, End(c)).at \in {"depResume", "idle"}
                /\ closed => Commanding(c, "depResume", w, End(c)).at = "idle"
  BY <1>1 DEF Commanding, ControlAllowed
<1> QED BY <1>1, <1>2 DEF AfterClose, Outcomes

LEMMA FinishRuleEnds ==
  ASSUME NEW c \in Control, NEW st \in Status
  PROVE  LET r == FinishRule(c, st) IN
           /\ r.at \in {"idle", "loop", "openSend", "closeSend"}
           /\ r.at = "closeSend" => r.why = "final" /\ Rests(st)
<1>1. LetOut(c).at \in {"loop", "openSend"}
  BY DEF LetOut, Rest, To
<1>2. CloseStart(c) \in Outcomes
  BY StartTypes
<1>3. /\ AfterClose("final", CloseStart(c)).at \in {"closeSend", "idle"}
      /\ AfterClose("final", CloseStart(c)).at = "closeSend" =>
           AfterClose("final", CloseStart(c)).why = "final"
  BY <1>2, AfterCloseEnds
<1>4. c.tip \in BOOLEAN /\ st.job \in BOOLEAN
  BY DEF Control, Status
<1>5. ~TaskRunning(st) /\ Docked(st) => Rests(st)
  BY DEF TaskRunning, Docked, Rests
<1>6. Rest(c).at = "loop" /\ \A ph : End(Released(c, ph)).at = "idle"
  BY DEF Rest, End, To
<1> QED BY <1>1, <1>3, <1>4, <1>5, <1>6 DEF FinishRule

LEMMA FinishRuleOk ==
  ASSUME NEW c \in Control, NEW st \in Status
  PROVE  Releases(FinishRule(c, st)) /\ Finishes(FinishRule(c, st), st)
BY FinishRuleEnds DEF Releases, Finishes, InFlight

\* A command on the way home is let through, or the turn ends.
LEMMA ReturnCommandOk ==
  ASSUME NEW c \in Control, NEW ph \in Phases, NEW at \in {"retPause", "retResume"},
         NEW st \in Status
  PROVE  /\ (at = "retResume" => door.at = "open") => Releases(ReturnCommand(c, ph, at, st))
         /\ Finishes(ReturnCommand(c, ph, at, st), st)
<1> DEFINE d == [c EXCEPT !.phase = ph]
           r == ReturnCommand(c, ph, at, st)
<1>1. d \in Control
  BY ControlUpdates
<1>2. Releases(FinishRule(d, st)) /\ Finishes(FinishRule(d, st), st)
  BY <1>1, FinishRuleOk
<1>3. r = FinishRule(d, st) \/ (r.at = at /\ ~closed)
  BY DEF ReturnCommand, Commanding, ControlAllowed, To
<1> HIDE DEF d, r
<1>4. CASE r = FinishRule(d, st)
  BY <1>2, <1>4 DEF r
<1>5. CASE r.at = at /\ ~closed
  BY <1>5 DEF Releases, Finishes, r
<1> QED BY <1>3, <1>4, <1>5

\* The caller of open_door goes on.
LEMMA AfterOpenOk ==
  ASSUME NEW why, NEW o \in Outcomes, NEW st \in Status
  PROVE  /\ (o.out = "done" => door.at = "open") => Releases(AfterOpen(why, o, st))
         /\ Finishes(AfterOpen(why, o, st), st)
<1>1. o.ctl \in Control /\ o.out \in {"raised", "done", "moving"}
  BY DEF Outcomes
<1>2. Releases(FinishRule(o.ctl, st)) /\ Finishes(FinishRule(o.ctl, st), st)
  BY <1>1, FinishRuleOk
<1>3. /\ (o.out = "done" => door.at = "open") => Releases(Readmit(o, st))
      /\ Finishes(Readmit(o, st), st)
  <2>1. CASE o.out = "done"
    BY <1>1, <2>1, ReturnCommandOk DEF Readmit, Phases
  <2>2. CASE o.out # "done"
    BY <1>2, <2>2 DEF Readmit
  <2> QED BY <2>1, <2>2
<1>4. \A c : Rest(c).at = "loop" /\ End(c).at = "idle" /\ To(c, "openSend", why).at = "openSend"
        /\ To(c, "sending", why).at = "sending"
  BY DEF Rest, End, To
<1>5. CASE o.out = "moving"
  BY <1>4, <1>5 DEF AfterOpen, Releases, Finishes, InFlight
<1>6. CASE o.out # "moving" /\ why = "return"
  BY <1>3, <1>6 DEF AfterOpen
<1>7. CASE o.out # "moving" /\ why # "return"
  BY <1>1, <1>4, <1>7 DEF AfterOpen, Releases, Finishes, InFlight
<1> QED BY <1>5, <1>6, <1>7

\* The caller of close_door goes on after its wait.
LEMMA AfterCloseOk ==
  ASSUME NEW why, NEW o \in Outcomes, NEW st
  PROVE  /\ Releases(AfterClose(why, o))
         /\ o.out # "moving" => Finishes(AfterClose(why, o), st)
BY AfterCloseEnds DEF Releases, Finishes, InFlight

LEMMA LoopBodyOk ==
  ASSUME NEW c \in Control, NEW st \in Status
  PROVE  Releases(LoopBody(c, st)) /\ Finishes(LoopBody(c, st), st)
<1>1. \A ph \in {"closed_outside", "blocked"} : [c EXCEPT !.phase = ph] \in Control
  BY ControlUpdates DEF Phases
<1>2. /\ Releases(ReturnCommand(c, "pausing_return", "retPause", st))
      /\ Finishes(ReturnCommand(c, "pausing_return", "retPause", st), st)
  BY ReturnCommandOk DEF Phases
<1>3. \A d \in Control : Releases(FinishRule(d, st)) /\ Finishes(FinishRule(d, st), st)
  BY FinishRuleOk
<1> DEFINE a == [c EXCEPT !.phase = "closed_outside"]
           b == [c EXCEPT !.phase = "blocked"]
           e == [c EXCEPT !.phase = "pausing_exit"]
           f == Commanding(e, "depPause", "departure", End(e))
<1>4. a \in Control /\ b \in Control
  BY <1>1
<1>5. LoopBody(c, st) \in {FinishRule(c, st), FinishRule(a, st), FinishRule(b, st), f,
                          ReturnCommand(c, "pausing_return", "retPause", st)}
  BY DEF LoopBody
<1>6. (f.at = "depPause" /\ ~closed) \/ f.at = "idle"
  BY DEF Commanding, ControlAllowed, To, End
<1>7. Releases(f) /\ Finishes(f, st)
  <2> HIDE DEF f
  <2> QED BY <1>6 DEF Releases, Finishes, InFlight
<1> QED BY <1>2, <1>3, <1>4, <1>5, <1>7

\* open_door ordered by a sequence is not deceived by a door on its way down.
LEMMA OpeningSeesOpen ==
  ASSUME NEW c \in Control
  PROVE  LET d == [c EXCEPT !.phase = "opening"]
         IN OpenStart(d).out = "done" => door.at = "open"
<1>1. [c EXCEPT !.phase = "opening"].phase = "opening" /\ [c EXCEPT !.phase = "opening"] \in Control
  BY DEF Control, Phases
<1>2. OpenConfirmed("opening", door) => door.at = "open"
  BY DEF OpenConfirmed, Available, OwnClose
<1> QED BY <1>1, <1>2, StartsIs

\* Behind a departure the door is ordered closed on a sample of the robot paused.
LEMMA PauseReadOk ==
  ASSUME NEW why, NEW c \in Control, NEW st \in Status
  PROVE  /\ Releases(PauseRead(why, c, st))
         /\ \/ Finishes(PauseRead(why, c, st), st)
            \/ PauseRead(why, c, st).why = "departure" /\ st.name = "paused"
               /\ PauseRead(why, c, st).at = "closeSend"
<1> DEFINE d == [c EXCEPT !.phase = "opening"]
<1>1. Fail(c) \in Control /\ d \in Control
  BY ControlUpdates DEF Phases
<1>2. OpenStart(d) \in Outcomes /\ CloseStart(c) \in Outcomes
  BY <1>1, StartTypes
<1>3. CASE st.name # "paused"
  BY <1>1, <1>3, FinishRuleOk DEF PauseRead
<1>4. CASE st.name = "paused" /\ why = "return"
  BY <1>2, <1>4, OpeningSeesOpen, AfterOpenOk DEF PauseRead
<1>5. CASE st.name = "paused" /\ why # "return"
  <2>1. PauseRead(why, c, st) = AfterClose("departure", CloseStart(c))
    BY <1>5 DEF PauseRead
  <2> QED BY <1>2, <1>5, <2>1, AfterCloseEnds DEF Releases, Finishes, InFlight
<1> QED BY <1>3, <1>4, <1>5

LEMMA ResumeReadOk ==
  ASSUME NEW why \in {"return", "closed", "left_open"}, NEW c \in Control, NEW st \in Status
  PROVE  Releases(ResumeRead(why, c, st)) /\ Finishes(ResumeRead(why, c, st), st)
<1>1. /\ [c EXCEPT !.phase = "outside"] \in Control
      /\ Released(c, "closed_outside") \in Control
      /\ [c EXCEPT !.phase = "blocked"] \in Control
  BY ControlUpdates DEF Phases
<1> QED BY <1>1, FinishRuleOk DEF ResumeRead


-----------------------------------------------------------------------------
(* What the steps of a coroutine are. *)

\* The steps that only run the controller's code.
Deciding(p) ==
  \/ Arrived(p) \/ TimedOut(p) \/ MoveDoorFails(p)
  \/ p \in Callers /\ SendFails(p)
  \/ p \in Seqs /\ (ConfirmTick(p) \/ ConfirmTimeout(p) \/ LoopTick(p)
                    \/ AfterPause(p) \/ AfterResume(p) \/ Deadline(p) \/ CommandFails(p))

LEMMA DoorWorkDecides ==
  ASSUME ControlInv, NEW p \in Procs, Arrived(p) \/ TimedOut(p) \/ MoveDoorFails(p)
  PROVE  /\ \E r : /\ Continue(p, r) /\ Finishes(r, status)
                   /\ (At(p, {"openWait"}) /\ OpenConfirmed(ctl.phase, door) => door.at = "open")
                        => Releases(r)
         /\ UNCHANGED status
<1>1. ctl \in Control /\ status \in Status /\ UNCHANGED status
  BY DEF ControlInv, TypeOK, Arrived, TimedOut, MoveDoorFails
<1>2. /\ [ctl |-> Fail(ctl), out |-> "raised"] \in Outcomes
      /\ [ctl |-> ctl, out |-> "raised"] \in Outcomes
      /\ [ctl |-> Opened(ctl), out |-> "done"] \in Outcomes
      /\ [ctl |-> Closed(ctl), out |-> "done"] \in Outcomes
  BY <1>1, ControlUpdates DEF Outcomes, Phases
<1> DEFINE why == run[p].why
           raised == {[ctl |-> Fail(ctl), out |-> "raised"], [ctl |-> ctl, out |-> "raised"]}
           opened == [ctl |-> Opened(ctl), out |-> "done"]
           shut == [ctl |-> Closed(ctl), out |-> "done"]
<1>3. \A o \in raised : /\ Releases(AfterOpen(why, o, status)) /\ Finishes(AfterOpen(why, o, status), status)
                        /\ Releases(AfterClose(why, o)) /\ Finishes(AfterClose(why, o), status)
  BY <1>1, <1>2, AfterOpenOk, AfterCloseOk
<1>4. /\ door.at = "open" => Releases(AfterOpen(why, opened, status))
      /\ Finishes(AfterOpen(why, opened, status), status)
  BY <1>1, <1>2, AfterOpenOk
<1>5. Releases(AfterClose(why, shut)) /\ Finishes(AfterClose(why, shut), status)
  BY <1>1, <1>2, AfterCloseOk
<1> HIDE DEF why
<1>6. CASE MoveDoorFails(p)
  BY <1>1, <1>3, <1>6 DEF MoveDoorFails, why
<1>7. CASE TimedOut(p)
  BY <1>1, <1>3, <1>7 DEF TimedOut, why
<1>8. CASE Arrived(p)
  BY <1>1, <1>4, <1>5, <1>8 DEF Arrived, why
<1> QED BY <1>6, <1>7, <1>8

\* How a sequence that orders the door closed got there.
Closes(s, r) ==
  \/ Finishes(r, status')
  \/ At(s, {"retPaused", "depPaused"}) /\ Sampled
     /\ r.at = "closeSend" /\ r.why = "departure" /\ status'.name = "paused"

LEMMA SequenceDecides ==
  ASSUME ControlInv, NEW s \in Seqs,
         \/ ConfirmTick(s) \/ ConfirmTimeout(s) \/ LoopTick(s)
         \/ AfterPause(s) \/ AfterResume(s) \/ Deadline(s) \/ CommandFails(s)
  PROVE  /\ status' = status \/ Sampled
         /\ \E r : Continue(s, r) /\ Releases(r) /\ Closes(s, r)
<1>1. ctl \in Control /\ status \in Status /\ s \in Procs /\ Fits(run[s].at, run[s].why)
  BY DEF ControlInv, TypeOK, ReasonFitsAwait, Procs
<1>2. \A c : /\ Releases(End(c)) /\ Finishes(End(c), status)
             /\ Releases(Rest(c)) /\ Finishes(Rest(c), status)
  BY DEF End, Rest, To, Releases, Finishes, InFlight
<1>3. /\ Releases(FinishRule(ctl, status)) /\ Finishes(FinishRule(ctl, status), status)
      /\ Releases(LoopBody(ctl, status)) /\ Finishes(LoopBody(ctl, status), status)
  BY <1>1, FinishRuleOk, LoopBodyOk
<1>4. CASE ConfirmTick(s) \/ ConfirmTimeout(s) \/ LoopTick(s)
           \/ Deadline(s) \/ CommandFails(s)
  <2>1. status' = status
    BY <1>4 DEF ConfirmTick, ConfirmTimeout, LoopTick, Deadline, CommandFails
  <2>2. \E r : Continue(s, r) /\ Releases(r) /\ Finishes(r, status)
    BY <1>2, <1>3, <1>4 DEF ConfirmTick, ConfirmTimeout, LoopTick, 
       Deadline, CommandFails
  <2> QED BY <2>1, <2>2 DEF Closes
<1>5. CASE AfterPause(s)
  <2>1. status' \in Status
    BY <1>1, <1>5, RobotMoves DEF AfterPause, Sampled, ControlInv, TypeOK
  <2> QED BY <1>1, <1>5, <2>1, PauseReadOk DEF AfterPause, Closes
<1>6. CASE AfterResume(s)
  <2>1. status' \in Status
    BY <1>1, <1>6, RobotMoves DEF AfterResume, Sampled, ControlInv, TypeOK
  <2>2. run[s].why \in {"return", "closed", "left_open"}
    BY <1>1, <1>6 DEF AfterResume, At, Fits
  <2> QED BY <1>1, <1>6, <2>1, <2>2, ResumeReadOk DEF AfterResume, Closes
<1> QED BY <1>4, <1>5, <1>6

LEMMA DecidingIs ==
  ASSUME ControlInv, NEW p \in Procs, Deciding(p)
  PROVE  /\ status' = status \/ Sampled
         /\ \E r : /\ Continue(p, r)
                   /\ Closes(p, r)
                   /\ (At(p, {"openWait"}) /\ OpenConfirmed(ctl.phase, door) => door.at = "open")
                        => Releases(r)
<1>1. CASE Arrived(p) \/ TimedOut(p) \/ MoveDoorFails(p)
  BY <1>1, DoorWorkDecides DEF Closes
<1>2. CASE SendFails(p)
  BY <1>2 DEF SendFails, End, To, Closes, Releases, Finishes, InFlight
<1>3. CASE p \in Seqs /\ ~(Arrived(p) \/ TimedOut(p) \/ MoveDoorFails(p) \/ SendFails(p))
  BY <1>3, SequenceDecides DEF Deciding
<1> QED BY <1>1, <1>2, <1>3 DEF Deciding

-----------------------------------------------------------------------------
(* The robot is released only through an open door.                        *)

\* Whoever waits for the open end has ordered it, and nobody orders otherwise.
DoorFollows ==
  /\ \A p \in Procs : At(p, {"sending", "retResume"}) => door.at = "open"
  /\ \A p \in Procs : At(p, {"openWait"}) => door.at \in {"lifting", "opening", "open"}
  /\ calls > 0 => door.at \in {"open", "closed"}

ReleaseInv == ControlInv /\ Alone /\ DoorFollows

LEMMA WorkingKinds ==
  ASSUME NEW p \in Procs
  PROVE  Advances(p) <=> \/ MoveDoor(p) \/ Deciding(p)
                         \/ p \in Callers /\ Send(p)
                         \/ p \in Seqs /\ (SendPause(p) \/ SendResume(p))
BY DEF Advances, Deciding

\* After an unload no sequence begins a command to the robot, however many there are and
\* wherever the unload finds them; one that has a command on its way ends it, and the
\* others do not move the robot (garage_runtime.py:262-270, 317-322).
THEOREM NoRobotCommandAfterUnloadHolds == Spec => NoRobotCommandAfterUnload
<1> DEFINE Quiet == \A s \in Seqs :
                      closed /\ run'[s] # run[s] =>
                        /\ run'[s].at \notin InFlight
                        /\ At(s, InFlight) \/ UNCHANGED rob
<1>1. ControlInv /\ [Next]_vars => [Quiet]_vars
  <2> SUFFICES ASSUME ControlInv, Next, NEW s \in Seqs, closed, run'[s] # run[s]
               PROVE  run'[s].at \notin InFlight /\ (At(s, InFlight) \/ UNCHANGED rob)
    OBVIOUS
  <2>0. run \in [Procs -> Where] /\ s \in Procs /\ s \notin Callers
    BY GarageAssumption DEF ControlInv, TypeOK, Procs
  <2>1. CASE World /\ \A d \in BOOLEAN : ~Unload(d)
    BY <2>1, WorldRuns
  <2>2. ~\E d \in BOOLEAN : Unload(d)
    BY DEF Unload
  <2>3. ASSUME NEW p \in Procs, Advances(p)
        PROVE  run'[s].at \notin InFlight /\ (At(s, InFlight) \/ UNCHANGED rob)
    <3>1. p = s
      BY <2>0, <2>3, WorkingRuns
    <3>2. CASE MoveDoor(s)
      <4>1. PICK pt \in {"openWait", "closeWait"} : run' = [run EXCEPT ![s].at = pt]
        BY <3>2 DEF MoveDoor
      <4> QED BY <2>0, <3>2, <4>1, HopIs DEF MoveDoor, InFlight
    <3>3. CASE Deciding(s)
      <4>1. PICK r : Continue(s, r) /\ Closes(s, r)
        BY <2>0, <3>3, DecidingIs
      <4>2. run'[s].at = r.at /\ UNCHANGED rob
        BY <2>0, <4>1, ReachIs DEF Continue
      <4> QED BY <4>1, <4>2 DEF Closes, Finishes, InFlight
    <3>4. CASE SendPause(s) \/ SendResume(s)
      <4>1. PICK pt \in {"retPaused", "depPaused", "retResumed", "depResumed"} :
              run' = [run EXCEPT ![s].at = pt]
        BY <3>4 DEF SendPause, SendResume
      <4>2. At(s, InFlight)
        BY <3>4 DEF SendPause, SendResume, At, InFlight
      <4> QED BY <2>0, <4>1, <4>2, HopIs DEF InFlight
    <3> QED BY <2>0, <2>3, <3>1, <3>2, <3>3, <3>4, WorkingKinds
  <2>4. ASSUME NEW c \in Callers, StartCall(c)
        PROVE  run'[s].at \notin InFlight /\ (At(s, InFlight) \/ UNCHANGED rob)
    BY <2>0, <2>4, StartCallIs
  <2>5. ASSUME NEW c \in Callers, Accepted(c)
        PROVE  run'[s].at \notin InFlight /\ (At(s, InFlight) \/ UNCHANGED rob)
    <3>1. run'[s].at = "confirm"
      <4>1. PICK t \in Seqs :
               /\ run'[t].at = "confirm" /\ \A q \in Procs \ {c, t} : run'[q] = run[q]
        BY <2>5, AcceptedIs
      <4> QED BY <2>0, <4>1
    <3> QED BY <2>5, <3>1 DEF Accepted, InFlight
  <2> QED BY <2>1, <2>2, <2>3, <2>4, <2>5, NextCases
<1> QED
  BY <1>1, ControlInvariant, PTL DEF Spec, NoRobotCommandAfterUnload

LEMMA MovedIs ==
  ASSUME door \in Door, NEW x, NEW b
  PROVE  Moved(x, b).at = x
BY DEF Moved, Door

LEMMA WorldDoor ==
  ASSUME ControlInv, "household" \notin Events, World, \A d \in BOOLEAN : ~Unload(d)
  PROVE  door'.at \in {door.at, Onward(door.at)}
<1>1. door \in Door
  BY DEF ControlInv, TypeOK
<1>2. CASE DoorTravels
  BY <1>1, <1>2 DEF DoorTravels, DoorBecomes, Door
<1>3. CASE FeedbackLost \/ FeedbackBack \/ PermitOff \/ PermitOn
  BY <1>1, <1>3 DEF FeedbackLost, FeedbackBack, PermitOff, PermitOn, DoorBecomes, Door
<1>4. ~HouseholdMoves
  BY DEF HouseholdMoves, Spend
<1>5. CASE RobotActs \/ Wander \/ TakeBreak \/ LatePause \/ UserCommand
           \/ PollStatus \/ PollPosition \/ NoPosition
  BY <1>5 DEF RobotActs, DriveOut, HeadHome, DriveHome, GoesOn, Wander, TakeBreak,
     UserCommand, RobotStep, LatePause, PollStatus, PollPosition, NoPosition
<1> QED BY <1>2, <1>3, <1>4, <1>5 DEF World

\* Nobody but the coroutine that has moved can be where the door matters.
LEMMA OthersRest ==
  ASSUME Alone, NEW p \in Procs, Busy(p), \A q \in Procs : q # p => run'[q] = run[q]
  PROVE  \A q \in Procs : q # p => ~Busy(q) /\ ~Busy(q)'
BY DEF Alone, Busy, At

LEMMA DoorStep ==
  ASSUME MaxCalls <= 1, "household" \notin Events, ReleaseInv, [Next]_vars
  PROVE  DoorFollows'
<1>0. /\ run \in [Procs -> Where] /\ door \in Door /\ ctl \in Control
      /\ calls \in 0..MaxCalls /\ MaxCalls \in Nat /\ Alone
  BY GarageAssumption DEF ReleaseInv, ControlInv, TypeOK
<1>1. CASE World /\ \A d \in BOOLEAN : ~Unload(d)
  <2>1. door'.at \in {door.at, Onward(door.at)}
    BY <1>1, WorldDoor DEF ReleaseInv
  <2>2. run' = run /\ calls' = calls
    BY <1>1, WorldRuns
  <2> QED BY <2>1, <2>2 DEF ReleaseInv, DoorFollows, At, Onward
<1>2. ASSUME NEW d \in BOOLEAN, Unload(d) PROVE DoorFollows'
  <2>1. /\ calls' = calls /\ \A q \in Procs : run'[q] = run[q] \/ run'[q].at = "idle"
        /\ latest # NoSeq => run'[latest].at = "idle"
    BY <1>2, UnloadIs DEF ReleaseInv
  <2>2. latest \in Seqs \cup {NoSeq} /\ (latest # NoSeq => latest \in Procs)
    BY DEF ReleaseInv, ControlInv, TypeOK, Procs
  <2>3. (latest = NoSeq \/ ~Busy(latest)) => door' = door
    BY <1>2 DEF Unload, Busy, At
  <2>4. CASE latest # NoSeq /\ Busy(latest)
    <3>1. calls' = 0 /\ \A q \in Procs : ~Busy(q)'
      BY <1>0, <2>1, <2>2, <2>4 DEF Alone, Busy, At
    <3> QED BY <3>1 DEF DoorFollows, Busy, At
  <2> QED BY <2>1, <2>3, <2>4 DEF ReleaseInv, DoorFollows, At
<1>3. ASSUME NEW p \in Procs, Advances(p) PROVE DoorFollows'
  <2>1. Busy(p) /\ calls' = 0 /\ \A q \in Procs : q # p => run'[q] = run[q]
    BY <1>0, <1>3, WorkingRuns DEF ReleaseInv, Alone
  <2>2. \A q \in Procs : q # p => ~Busy(q)'
    BY <1>0, <2>1, OthersRest
  <2>3. CASE MoveDoor(p)
    <3>1. run' = [run EXCEPT ![p].at = IF run[p].at = "openSend" THEN "openWait" ELSE "closeWait"]
      BY <2>3 DEF MoveDoor
    <3>2. run'[p].at = IF run[p].at = "openSend" THEN "openWait" ELSE "closeWait"
      BY <1>0, <3>1, HopIs
    <3>3. run[p].at = "openSend" => door'.at = Lift(door.at)
      BY <1>0, <2>3, MovedIs DEF MoveDoor
    <3>4. Lift(door.at) \in {"lifting", "opening", "open"}
      BY <1>0 DEF Lift, Door, Travel
    <3> QED BY <2>1, <2>2, <3>2, <3>3, <3>4 DEF DoorFollows, Busy, At
  <2>4. CASE Deciding(p)
    <3>1. At(p, {"openWait"}) /\ OpenConfirmed(ctl.phase, door) => door.at = "open"
      BY DEF ReleaseInv, DoorFollows, OpenConfirmed
    <3>2. PICK r : Continue(p, r) /\ Releases(r)
      BY <2>4, <3>1, DecidingIs DEF ReleaseInv
    <3>3. run'[p].at = r.at /\ door' = door
      BY <1>0, <3>2, ReachIs DEF Continue
    <3> QED BY <2>1, <2>2, <3>2, <3>3 DEF DoorFollows, Busy, At, Releases
  <2>5. CASE Send(p)
    <3>1. run'[p].at \in {"idle", "sent"}
      BY <1>0, <2>5, ReachIs DEF Send, End, To
    <3> QED BY <2>1, <2>2, <3>1 DEF DoorFollows, Busy, At
  <2>6. CASE SendPause(p) \/ SendResume(p)
    <3>1. PICK pt \in {"retPaused", "depPaused", "retResumed", "depResumed"} :
            run' = [run EXCEPT ![p].at = pt]
      BY <2>6 DEF SendPause, SendResume
    <3>2. run'[p].at = pt
      BY <1>0, <3>1, HopIs
    <3> QED BY <2>1, <2>2, <3>1, <3>2 DEF DoorFollows, Busy, At
  <2> QED BY <1>3, <2>3, <2>4, <2>5, <2>6, WorkingKinds
<1>4. ASSUME NEW c \in Callers, StartCall(c) PROVE DoorFollows'
  <2>1. /\ calls > 0 /\ calls' = 0 /\ c \in Procs /\ door' = door
        /\ \A q \in Procs : q # c => run'[q] = run[q]
    BY <1>0, <1>4, StartCallIs DEF ReleaseInv, StartCall
  <2>2. status \in Status
    BY DEF ReleaseInv, ControlInv, TypeOK
  <2>3. OpenStart(ctl) \in Outcomes /\ CloseStart(ctl) \in Outcomes
    BY <1>0, StartTypes
  <2>4. OpenStart(ctl).out = "done" => door.at = "open"
    BY <1>0, <2>1, StartsIs DEF ReleaseInv, DoorFollows, OpenConfirmed
  <2>5. \A op : /\ Releases(AfterClose(op, CloseStart(ctl)))
                /\ Releases(AfterOpen(op, OpenStart(ctl), status))
    BY <2>2, <2>3, <2>4, AfterOpenOk, AfterCloseOk
  <2>6. \A x : Releases(End(x))
    BY DEF Releases, End, To
  <2>7. PICK r : Reach(c, r) /\ Releases(r)
    BY <1>4, <2>5, <2>6 DEF StartCall
  <2>8. run'[c].at = r.at
    BY <1>0, <2>1, <2>7, ReachIs
  <2>9. \A q \in Procs : q # c => ~Busy(q)'
    BY <1>0, <2>1 DEF Alone, Busy, At
  <2> QED BY <2>1, <2>7, <2>8, <2>9 DEF DoorFollows, Busy, At, Releases
<1>5. ASSUME NEW c \in Callers, Accepted(c) PROVE DoorFollows'
  <2>1. PICK s \in Seqs :
           /\ At(c, {"sent"}) /\ run'[c].at = "idle" /\ calls' = calls
           /\ At(s, {"idle"}) /\ run'[s].at = "confirm" /\ s \in Procs /\ c \in Procs
           /\ \A q \in Procs \ {c, s} : run'[q] = run[q]
    BY <1>5, AcceptedIs DEF ReleaseInv
  <2>2. door' = door
    BY <1>5 DEF Accepted
  <2> QED BY <2>1, <2>2 DEF ReleaseInv, DoorFollows, At
<1>6. CASE UNCHANGED vars
  BY <1>6 DEF vars, ReleaseInv, DoorFollows, At
<1> QED BY <1>1, <1>2, <1>3, <1>4, <1>5, <1>6, NextCases

\* The robot is released, by a clean command or by the resume of a return, only while
\* the door is open (garage_door.py:198-200), whatever else goes wrong, when the clean has
\* the door to itself: no second call is under way and nobody works the door by hand.
THEOREM ReleaseIsThroughOpenDoor ==
  ASSUME MaxCalls <= 1, "household" \notin Events
  PROVE  Spec => []ReleaseNeedsOpenDoor
<1>1. Init => ReleaseInv
  <2>1. Init => Alone /\ DoorFollows
    BY DEF Init, Alone, DoorFollows, Busy, At, Door
  <2> QED BY <2>1, ControlInit DEF ReleaseInv
<1>2. ReleaseInv /\ [Next]_vars => ReleaseInv'
  BY ControlNext, AloneStep, DoorStep DEF ReleaseInv
<1>3. ReleaseInv => ReleaseNeedsOpenDoor
  BY DEF ReleaseInv, DoorFollows, ReleaseNeedsOpenDoor
<1> QED BY <1>1, <1>2, <1>3, PTL DEF Spec

-----------------------------------------------------------------------------
(* The robot is held while the door closes for it.                         *)

Past(s) == ~At(s, {"idle", "confirm"})

\* A sequence that has seen its clean begin can trust a sample of the robot at rest,
\* however old it is.
SampleIsHome == \A s \in Seqs : Past(s) /\ Rests(status) => rob.act = "charging" /\ ~rob.job

HeldInv == ControlInv /\ Alone /\ SampleIsHome /\ RobotHeldWhileClosing

AtRest(r) == r.act = "charging" /\ ~r.job

\* What happens to a robot that rests or is paused, with nobody to send it out.
Stays ==
  /\ AtRest(rob) => AtRest(rob')
  /\ rob.act = "paused" => rob'.act = "paused"
SampleFollows == status' = status \/ status' = StatusOf(rob')

LEMMA PausedAtRest ==
  ASSUME NEW r \in Robot
  PROVE  /\ AtRest(r) => AtRest(Paused(r)) /\ AtRest(Resumed(r))
         /\ r.act = "paused" => Paused(r).act = "paused"
BY DEF AtRest, Paused, Resumed, Robot

LEMMA RobotBecomesIs ==
  ASSUME NEW r, RobotBecomes(r)
  PROVE  rob' = r /\ SampleFollows
BY DEF RobotBecomes, SampleFollows

LEMMA WorldStays ==
  ASSUME ControlInv, "user" \notin Events, World, \A d \in BOOLEAN : ~Unload(d)
  PROVE  Stays /\ SampleFollows
<1>1. rob \in Robot /\ status \in Status
  BY DEF ControlInv, TypeOK
<1>2. CASE DoorTravels \/ HouseholdMoves \/ FeedbackLost \/ FeedbackBack \/ PermitOff \/ PermitOn
  BY <1>2 DEF DoorTravels, HouseholdMoves, FeedbackLost, FeedbackBack, PermitOff, PermitOn,
     DoorBecomes, Stays, SampleFollows
<1>3. CASE PollStatus \/ PollPosition \/ NoPosition
  BY <1>3 DEF PollStatus, PollPosition, NoPosition, Stays, SampleFollows
<1>4. CASE LatePause
  BY <1>1, <1>4, RobotBecomesIs, PausedAtRest DEF LatePause, Stays
<1>5. CASE RobotActs \/ Wander \/ TakeBreak
  <2>1. rob.act # "paused" /\ ~AtRest(rob)
    BY <1>1, <1>5 DEF RobotActs, DriveOut, HeadHome, DriveHome, GoesOn, Wander, TakeBreak,
       AtRest
  <2>2. \E r : RobotBecomes(r)
    BY <1>5 DEF RobotActs, DriveOut, HeadHome, DriveHome, GoesOn, Wander, TakeBreak, RobotStep
  <2> QED BY <2>1, <2>2, RobotBecomesIs DEF Stays
<1>6. ~UserCommand
  BY DEF UserCommand, Spend
<1> QED BY <1>2, <1>3, <1>4, <1>5, <1>6 DEF World

\* How a sequence gets past the confirmation of its clean.
LEMMA PastIs ==
  ASSUME ControlInv, Next, NEW s \in Seqs, Past(s)'
  PROVE  \/ Past(s)
         \/ At(s, {"confirm"}) /\ Working(status) /\ UNCHANGED <<rob, status>>
<1>0. run \in [Procs -> Where] /\ s \in Procs /\ s \notin Callers
  BY GarageAssumption DEF ControlInv, TypeOK, Procs
<1>1. CASE World /\ \A d \in BOOLEAN : ~Unload(d)
  BY <1>1, WorldRuns DEF Past, At
<1>2. CASE \E d \in BOOLEAN : Unload(d)
  BY <1>0, <1>2, UnloadIs DEF Past, At
<1>3. ASSUME NEW p \in Procs, Advances(p)
      PROVE  \/ Past(s)
             \/ At(s, {"confirm"}) /\ Working(status) /\ UNCHANGED <<rob, status>>
  <2>1. CASE p # s
    BY <1>0, <1>3, <2>1, WorkingRuns DEF Past, At
  <2>2. CASE p = s /\ ~(ConfirmTick(s) \/ ConfirmTimeout(s))
    BY <1>0, <1>3, <2>2 DEF Advances, MoveDoor, Arrived, TimedOut, MoveDoorFails, LoopTick,
       SendPause, AfterPause, SendResume, AfterResume, Deadline, CommandFails,
       Past, At, InFlight
  <2>3. CASE ConfirmTick(s) \/ ConfirmTimeout(s)
    <3>1. \A c : End(c).at = "idle"
      BY DEF End, To
    <3>2. ASSUME NEW c, Continue(s, End(c)) PROVE FALSE
      <4>1. run'[s].at = "idle"
        BY <1>0, <3>1, <3>2, ReachIs DEF Continue
      <4> QED BY <4>1 DEF Past, At
    <3>3. ~ConfirmTimeout(s)
      BY <3>2 DEF ConfirmTimeout
    <3>4. ConfirmTick(s) /\ ~closed
      BY <2>3, <3>2, <3>3 DEF ConfirmTick
    <3>5. \E r : Continue(s, r)
      BY <3>4 DEF ConfirmTick
    <3> QED BY <3>4, <3>5 DEF ConfirmTick, Continue
  <2> QED BY <2>1, <2>2, <2>3
<1>4. CASE \E c \in Callers : StartCall(c)
  BY <1>0, <1>4, StartCallIs DEF Past, At
<1>5. CASE \E c \in Callers : Accepted(c)
  <2>1. PICK c \in Callers, x \in Seqs :
           /\ At(c, {"sent"}) /\ run'[c].at = "idle"
           /\ At(x, {"idle"}) /\ run'[x].at = "confirm"
           /\ \A q \in Procs \ {c, x} : run'[q] = run[q]
    BY <1>5, AcceptedIs
  <2> QED BY <1>0, <2>1 DEF Past, At
<1> QED BY <1>1, <1>2, <1>3, <1>4, <1>5, NextCases

LEMMA WorkingIsNoRest ==
  ASSUME NEW st \in Status PROVE Working(st) => ~Rests(st)
BY DEF Working, Docked, Rests

\* A step that leaves a robot at rest where it is, or has just sampled it.
LEMMA HomeKept ==
  ASSUME ControlInv, Next, SampleIsHome, Stays, SampleFollows
  PROVE  SampleIsHome'
<1> SUFFICES ASSUME NEW s \in Seqs, Past(s)', Rests(status') PROVE AtRest(rob')
  BY DEF SampleIsHome, AtRest
<1>1. CASE status' = StatusOf(rob')
  BY <1>1 DEF StatusOf, Rests, AtRest
<1>2. CASE status' = status
  <2>1. status \in Status
    BY DEF ControlInv, TypeOK
  <2>2. Past(s)
    BY <1>2, <2>1, PastIs, WorkingIsNoRest
  <2> QED BY <1>2, <2>2 DEF SampleIsHome, Stays, AtRest
<1> QED BY <1>1, <1>2 DEF SampleFollows

HeldAt(s) ==
  At(s, {"closeSend", "closeWait"}) =>
    \/ run[s].why = "departure" /\ rob.act = "paused"
    \/ run[s].why = "final" /\ AtRest(rob)

LEMMA HeldIs == RobotHeldWhileClosing <=> \A s \in Seqs : HeldAt(s)
BY DEF RobotHeldWhileClosing, HeldAt, AtRest

LEMMA HeldStep ==
  ASSUME MaxCalls <= 1, {"user", "stale_status"} \cap Events = {}, HeldInv, [Next]_vars
  PROVE  SampleIsHome' /\ RobotHeldWhileClosing'
<1>0. /\ run \in [Procs -> Where] /\ rob \in Robot /\ status \in Status
      /\ Seqs \subseteq Procs /\ Seqs \cap Callers = {}
      /\ ControlInv /\ Alone /\ SampleIsHome /\ \A s \in Seqs : HeldAt(s)
  BY HeldIs, GarageAssumption DEF HeldInv, ControlInv, TypeOK, Procs
<1>1. (\A s \in Seqs : HeldAt(s)') => RobotHeldWhileClosing'
  BY DEF RobotHeldWhileClosing, HeldAt, AtRest
<1>2. CASE World /\ \A d \in BOOLEAN : ~Unload(d)
  <2>1. Stays /\ SampleFollows /\ run' = run
    BY <1>0, <1>2, WorldStays, WorldRuns
  <2>2. \A s \in Seqs : HeldAt(s)'
    BY <1>0, <2>1 DEF HeldAt, At, Stays
  <2>3. SampleIsHome'
    <3>1. SUFFICES ASSUME NEW s \in Seqs, Past(s)', Rests(status') PROVE AtRest(rob')
      BY DEF SampleIsHome, AtRest
    <3>2. Past(s)
      BY <2>1, <3>1 DEF Past, At
    <3> QED BY <1>0, <2>1, <3>1, <3>2 DEF SampleIsHome, SampleFollows, Stays, StatusOf, Rests, AtRest
  <2> QED BY <1>1, <2>2, <2>3
<1>3. ASSUME Next, NEW d \in BOOLEAN, Unload(d) PROVE SampleIsHome' /\ \A s \in Seqs : HeldAt(s)'
  <2>1. /\ \A q \in Procs : run'[q] = run[q] \/ run'[q].at = "idle"
        /\ latest # NoSeq => run'[latest].at = "idle"
    BY <1>0, <1>3, UnloadIs
  <2>2. latest \in Seqs \cup {NoSeq} /\ (latest # NoSeq => latest \in Procs)
    BY <1>0 DEF ControlInv, TypeOK
  <2>3. PICK r \in {rob, Paused(rob), Resumed(rob)} :
          /\ RobotBecomes(r)
          /\ r # rob => latest # NoSeq /\ Busy(latest)
    BY <1>3 DEF Unload, Busy, At
  <2>4. rob' = r /\ SampleFollows
    BY <2>3, RobotBecomesIs
  <2>5. AtRest(rob) => AtRest(rob')
    BY <1>0, <2>3, <2>4, PausedAtRest
  <2>6. SampleIsHome'
    <3>1. SUFFICES ASSUME NEW s \in Seqs, Past(s)', Rests(status') PROVE AtRest(rob')
      BY DEF SampleIsHome, AtRest
    <3>2. Past(s)
      BY <1>0, <2>1, <3>1 DEF Past, At
    <3> QED BY <1>0, <2>4, <2>5, <3>1, <3>2 DEF SampleIsHome, SampleFollows, StatusOf, Rests, AtRest
  <2>7. ASSUME NEW s \in Seqs, At(s, {"closeSend", "closeWait"})' PROVE HeldAt(s)'
    <3>1. run'[s] = run[s] /\ Busy(s) /\ s # latest
      BY <1>0, <2>1, <2>2, <2>7, GarageAssumption DEF Busy, At
    <3>2. latest = NoSeq \/ ~Busy(latest)
      BY <1>0, <2>2, <3>1 DEF Alone
    <3> QED BY <1>0, <2>3, <2>4, <3>1, <3>2 DEF HeldAt, At
  <2> QED BY <2>6, <2>7 DEF HeldAt
<1>4. ASSUME Next, NEW p \in Procs, Advances(p) PROVE SampleIsHome' /\ \A s \in Seqs : HeldAt(s)'
  <2>1. Busy(p) /\ \A q \in Procs : q # p => run'[q] = run[q]
    BY <1>0, <1>4, WorkingRuns
  <2>2. \A q \in Procs : q # p => ~Busy(q)'
    BY <1>0, <2>1, OthersRest
  <2>3. \A s \in Seqs : s # p => ~Past(s)' /\ HeldAt(s)'
    BY <1>0, <2>2 DEF HeldAt, At, Busy, Past
  <2>4. CASE MoveDoor(p)
    <3>1. rob' = rob /\ status' = status
      BY <2>4 DEF MoveDoor
    <3>2. Stays /\ SampleFollows
      BY <3>1 DEF Stays, SampleFollows
    <3>3. run' = [run EXCEPT ![p].at = IF run[p].at = "openSend" THEN "openWait" ELSE "closeWait"]
      BY <2>4 DEF MoveDoor
    <3>4. /\ run'[p].at = IF run[p].at = "openSend" THEN "openWait" ELSE "closeWait"
          /\ run'[p].why = run[p].why
      BY <1>0, <3>3, HopIs
    <3>5. run'[p].at = "closeWait" => run[p].at = "closeSend"
      BY <2>4, <3>4 DEF MoveDoor, At
    <3>6. p \in Seqs => HeldAt(p)'
      BY <1>0, <3>1, <3>4, <3>5 DEF HeldAt, At
    <3> QED BY <1>0, <1>4, <2>3, <3>2, <3>6, HomeKept
  <2>5. CASE Deciding(p)
    <3>1. status' = status \/ Sampled
      BY <1>0, <2>5, DecidingIs
    <3>2. PICK r : Continue(p, r) /\ Closes(p, r)
      BY <1>0, <2>5, DecidingIs
    <3>3. rob' = rob /\ run'[p].at = r.at /\ run'[p].why = r.why
      BY <1>0, <3>2, ReachIs DEF Continue
    <3>4. Sampled => status' = StatusOf(rob)
      BY DEF Sampled, Spend
    <3>5. Stays /\ SampleFollows
      BY <3>1, <3>3, <3>4 DEF Stays, SampleFollows
    <3>6. SampleIsHome'
      BY <1>0, <1>4, <3>5, HomeKept
    <3>7. p \in Seqs => HeldAt(p)'
      <4>1. CASE Finishes(r, status')
        BY <3>3, <3>6, <4>1 DEF Finishes, SampleIsHome, Past, At, HeldAt, AtRest
      <4>2. CASE ~Finishes(r, status')
        BY <3>2, <3>3, <3>4, <4>2 DEF Closes, HeldAt, At, StatusOf
      <4> QED BY <4>1, <4>2
    <3> QED BY <2>3, <3>6, <3>7
  <2>6. CASE p \in Callers
    <3>1. \A s \in Seqs : ~Past(s)' /\ HeldAt(s)'
      BY <1>0, <2>3, <2>6
    <3> QED BY <3>1 DEF SampleIsHome
  <2>7. CASE SendPause(p) \/ SendResume(p)
    <3>1. PICK pt \in {"retPaused", "depPaused", "retResumed", "depResumed"} :
            run' = [run EXCEPT ![p].at = pt]
      BY <2>7 DEF SendPause, SendResume
    <3>2. run'[p].at = pt
      BY <1>0, <3>1, HopIs
    <3>3. p \in Seqs => HeldAt(p)'
      BY <3>1, <3>2 DEF HeldAt, At
    <3>4. \/ UNCHANGED <<rob, status>>
          \/ RobotBecomes(Paused(rob)) \/ RobotBecomes(Resumed(rob))
      BY <2>7 DEF SendPause, SendResume
    <3>5. (AtRest(rob) => AtRest(rob')) /\ SampleFollows
      BY <1>0, <3>4, RobotBecomesIs, PausedAtRest DEF SampleFollows
    <3>6. SampleIsHome'
      <4>1. SUFFICES ASSUME NEW s \in Seqs, Past(s)', Rests(status') PROVE AtRest(rob')
        BY DEF SampleIsHome, AtRest
      <4>2. Past(s)
        BY <1>0, <2>3, <2>7, <4>1 DEF Past, At, SendPause, SendResume
      <4> QED BY <1>0, <3>5, <4>1, <4>2 DEF SampleIsHome, SampleFollows, StatusOf, Rests, AtRest
    <3> QED BY <2>3, <3>3, <3>6
  <2> QED BY <1>4, <2>4, <2>5, <2>6, <2>7, WorkingKinds DEF Procs
<1>5. ASSUME NEW c \in Callers, StartCall(c) \/ Accepted(c)
      PROVE  SampleIsHome' /\ \A s \in Seqs : HeldAt(s)'
  <2>1. \A s \in Seqs : ~Past(s)'
    <3>1. CASE StartCall(c)
      BY <1>0, <3>1, StartCallIs DEF Alone, Past, Busy, At
    <3>2. CASE Accepted(c)
      <4>1. PICK x \in Seqs :
           /\ At(c, {"sent"}) /\ run'[x].at = "confirm" /\ c \in Procs
           /\ \A q \in Procs \ {c, x} : run'[q] = run[q]
        BY <1>0, <3>2, AcceptedIs
      <4>2. Busy(c) /\ \A s \in Seqs : ~Busy(s)
        BY <1>0, <4>1 DEF Alone, Busy, At
      <4> QED BY <1>0, <4>1, <4>2 DEF Past, Busy, At
    <3> QED BY <1>5, <3>1, <3>2
  <2> QED BY <2>1 DEF SampleIsHome, HeldAt, Past, At
<1>6. CASE UNCHANGED vars
  <2>1. SampleIsHome'
    BY <1>0, <1>6 DEF vars, SampleIsHome, Past, At, Rests
  <2>2. \A s \in Seqs : HeldAt(s)'
    BY <1>0, <1>6 DEF vars, HeldAt, At, AtRest
  <2> QED BY <1>1, <2>1, <2>2
<1> QED BY <1>2, <1>3, <1>4, <1>5, <1>6, <1>1, NextCases

\* From the order to close until the close is over the robot is held, paused or docked
\* without a task (garage_door.py:326-330), whatever else goes wrong, when no second call
\* is under way, nobody commands the robot past the controller, and the poll that follows
\* a command is answered.
THEOREM RobotIsHeld ==
  ASSUME MaxCalls <= 1, {"user", "stale_status"} \cap Events = {}
  PROVE  Spec => []RobotHeldWhileClosing
<1>1. Init => HeldInv
  <2>1. Init => Alone /\ SampleIsHome /\ RobotHeldWhileClosing
    BY DEF Init, Alone, SampleIsHome, RobotHeldWhileClosing, Busy, At, Past, Procs
  <2> QED BY <2>1, ControlInit DEF HeldInv
<1>2. HeldInv /\ [Next]_vars => HeldInv'
  BY ControlNext, AloneStep, HeldStep DEF HeldInv
<1>3. HeldInv => RobotHeldWhileClosing
  BY DEF HeldInv
<1> QED BY <1>1, <1>2, <1>3, PTL DEF Spec

-----------------------------------------------------------------------------
(* The door is closed at the end only for a clean that was seen.           *)

PastSeen == \A s \in Seqs : Past(s) => s \in seen

\* Nothing has worked yet, and no sample says otherwise.
Unbegun == AtRest(rob) /\ rob.at = "dock" /\ Rests(status)

\* With a single call the robot works for nobody before its command.
Begun ==
  /\ calls > 0 => Unbegun
  /\ \A c \in Callers : ~At(c, {"idle", "sent"}) => Unbegun
  /\ \A c \in Callers : At(c, {"sent"}) => c \in seen \/ Unbegun
  /\ \A s \in Seqs : At(s, {"confirm"}) => s \in seen \/ Unbegun

BegunInv == ControlInv /\ Alone /\ Begun /\ PastSeen

\* Without lag every sample is that of the robot as it is.
Synced == status = StatusOf(rob)
SyncedInv == ControlInv /\ Synced /\ PastSeen

\* If every poll after a command is answered, a sequence that waits for its clean to begin
\* has a sample of its own time.
ConfirmSeen == \A s \in Seqs : At(s, {"confirm"}) /\ Working(status) => s \in seen
FreshInv == ControlInv /\ ConfirmSeen /\ PastSeen

\* A coroutine that goes on following a clean it has seen keeps it seen.
LEMMA WitnessKeeps ==
  ASSUME ControlInv, Next
  PROVE  /\ \A p \in Procs : (p \in seen \/ Working(StatusOf(rob'))) /\ run'[p].at = "sent" => p \in seen'
         /\ \A s \in Seqs : (s \in seen \/ Working(StatusOf(rob'))) /\ run'[s].at # "idle" => s \in seen'
         /\ \A c \in Callers, s \in Seqs :
              c \in seen /\ At(s, {"idle"}) /\ run'[c].at = "idle" /\ run'[s].at # "idle" => s \in seen'
BY DEF Next, Witness, Procs

\* A sequence past the confirmation has seen its clean, if a sample that shows work was
\* taken while it was followed.
LEMMA PastSeenStep ==
  ASSUME ControlInv, Next, PastSeen,
         \A s \in Seqs : At(s, {"confirm"}) /\ Working(status) => s \in seen \/ Working(StatusOf(rob))
  PROVE  PastSeen'
<1> SUFFICES ASSUME NEW s \in Seqs, Past(s)' PROVE s \in seen'
  BY DEF PastSeen
<1>1. run'[s].at # "idle"
  BY DEF Past, At
<1>2. s \in seen \/ Working(StatusOf(rob'))
  BY PastIs DEF PastSeen
<1> QED BY <1>1, <1>2, WitnessKeeps

LEMMA SyncedStep ==
  ASSUME ~Lag, ControlInv, Synced, Next
  PROVE  Synced'
<1>1. ASSUME NEW r, RobotBecomes(r) PROVE Synced'
  BY <1>1 DEF RobotBecomes, Synced
<1>2. CASE UNCHANGED <<rob, status>>
  BY <1>2 DEF Synced
<1>3. CASE rob' = rob /\ status' = StatusOf(rob)
  BY <1>3 DEF Synced
<1>4. CASE Sampled /\ rob' = rob
  BY <1>2, <1>3, <1>4 DEF Sampled
<1>5. CASE World \/ \E d \in BOOLEAN : Unload(d)
  <2>1. CASE \E d \in BOOLEAN : Unload(d)
    BY <1>1, <2>1 DEF Unload
  <2>2. CASE DoorTravels \/ HouseholdMoves \/ FeedbackLost \/ FeedbackBack \/ PermitOff \/ PermitOn
    BY <1>2, <2>2 DEF DoorTravels, HouseholdMoves, FeedbackLost, FeedbackBack, PermitOff,
       PermitOn, DoorBecomes
  <2>3. CASE PollStatus \/ PollPosition \/ NoPosition
    BY <1>2, <1>3, <2>3 DEF PollStatus, PollPosition, NoPosition
  <2>4. CASE RobotActs \/ Wander \/ TakeBreak \/ LatePause \/ UserCommand
    BY <1>1, <2>4 DEF RobotActs, DriveOut, HeadHome, DriveHome, GoesOn, Wander, TakeBreak,
       LatePause, UserCommand, RobotStep
  <2> QED BY <1>5, <2>1, <2>2, <2>3, <2>4 DEF World
<1>6. ASSUME NEW p \in Procs, Advances(p) PROVE Synced'
  <2>1. CASE MoveDoor(p)
    BY <1>2, <2>1 DEF MoveDoor
  <2>2. CASE Deciding(p)
    <3>1. status' = status \/ Sampled
      BY <2>2, DecidingIs
    <3>2. rob' = rob
      BY <2>2, DecidingIs DEF Continue
    <3> QED BY <1>2, <1>4, <3>1, <3>2
  <2>3. CASE Send(p)
    BY <1>1, <1>2, <2>3 DEF Send
  <2>4. CASE SendPause(p) \/ SendResume(p)
    BY <1>1, <1>2, <2>4 DEF SendPause, SendResume
  <2> QED BY <1>6, <2>1, <2>2, <2>3, <2>4, WorkingKinds
<1>7. ASSUME NEW c \in Callers, StartCall(c) PROVE Synced'
  BY <1>2, <1>7 DEF StartCall
<1>8. ASSUME NEW c \in Callers, Accepted(c) PROVE Synced'
  BY <1>4, <1>8 DEF Accepted
<1> QED BY <1>5, <1>6, <1>7, <1>8, NextCases

\* No step brings back a sample that is gone.
LEMMA SamplesFollow ==
  ASSUME ControlInv, Next
  PROVE  SampleFollows
<1>1. CASE UNCHANGED status
  BY <1>1 DEF SampleFollows
<1>2. CASE Sampled /\ rob' = rob
  BY <1>2 DEF Sampled, SampleFollows
<1>3. CASE World \/ \E d \in BOOLEAN : Unload(d)
  <2>1. CASE \E d \in BOOLEAN : Unload(d)
    BY <2>1, RobotBecomesIs DEF Unload
  <2>2. CASE DoorTravels \/ HouseholdMoves \/ FeedbackLost \/ FeedbackBack \/ PermitOff \/ PermitOn
    BY <1>1, <2>2 DEF DoorTravels, HouseholdMoves, FeedbackLost, FeedbackBack, PermitOff,
       PermitOn, DoorBecomes
  <2>3. CASE PollStatus \/ PollPosition \/ NoPosition
    BY <2>3 DEF PollStatus, PollPosition, NoPosition, SampleFollows
  <2>4. CASE RobotActs \/ Wander \/ TakeBreak \/ LatePause \/ UserCommand
    <3>1. \E r : RobotBecomes(r)
      BY <2>4 DEF RobotActs, DriveOut, HeadHome, DriveHome, GoesOn, Wander, TakeBreak,
         LatePause, UserCommand, RobotStep
    <3> QED BY <3>1, RobotBecomesIs
  <2> QED BY <1>3, <2>1, <2>2, <2>3, <2>4 DEF World
<1>4. ASSUME NEW p \in Procs, Advances(p) PROVE SampleFollows
  <2>1. CASE MoveDoor(p)
    BY <1>1, <2>1 DEF MoveDoor
  <2>2. CASE Deciding(p)
    <3>1. (status' = status \/ Sampled) /\ rob' = rob
      BY <2>2, DecidingIs DEF Continue
    <3> QED BY <1>1, <1>2, <3>1
  <2>3. CASE Send(p)
    BY <1>1, <2>3, RobotBecomesIs DEF Send
  <2>4. CASE SendPause(p) \/ SendResume(p)
    BY <1>1, <2>4, RobotBecomesIs DEF SendPause, SendResume
  <2> QED BY <1>4, <2>1, <2>2, <2>3, <2>4, WorkingKinds
<1>5. ASSUME NEW c \in Callers, StartCall(c) PROVE SampleFollows
  BY <1>1, <1>5 DEF StartCall
<1>6. ASSUME NEW c \in Callers, Accepted(c) PROVE SampleFollows
  BY <1>2, <1>6 DEF Accepted
<1> QED BY <1>3, <1>4, <1>5, <1>6, NextCases

\* Only an accepted clean begins to wait for its confirmation.
LEMMA ConfirmIs ==
  ASSUME ControlInv, Next, NEW s \in Seqs, At(s, {"confirm"})'
  PROVE  At(s, {"confirm"}) \/ \E c \in Callers : Accepted(c)
<1>0. run \in [Procs -> Where] /\ s \in Procs /\ s \notin Callers
  BY GarageAssumption DEF ControlInv, TypeOK, Procs
<1>1. CASE World /\ \A d \in BOOLEAN : ~Unload(d)
  BY <1>1, WorldRuns DEF At
<1>2. CASE \E d \in BOOLEAN : Unload(d)
  BY <1>0, <1>2, UnloadIs DEF At
<1>3. ASSUME NEW p \in Procs, Advances(p) PROVE At(s, {"confirm"})
  <2>1. CASE p # s
    BY <1>0, <1>3, <2>1, WorkingRuns DEF At
  <2>2. CASE p = s /\ Deciding(s)
    <3>1. PICK r : Continue(s, r) /\ Closes(s, r)
      BY <1>0, <2>2, DecidingIs
    <3>2. run'[s].at = r.at
      BY <1>0, <3>1, ReachIs DEF Continue
    <3> QED BY <3>1, <3>2 DEF Closes, Finishes, At
  <2>3. CASE p = s /\ (MoveDoor(s) \/ SendPause(s) \/ SendResume(s))
    <3>1. PICK pt \in {"openWait", "closeWait", "retPaused", "depPaused", "retResumed", "depResumed"} :
            run' = [run EXCEPT ![s].at = pt]
      BY <2>3 DEF MoveDoor, SendPause, SendResume
    <3> QED BY <1>0, <3>1, HopIs DEF At
  <2> QED BY <1>0, <1>3, <2>1, <2>2, <2>3, WorkingKinds
<1>4. CASE \E c \in Callers : StartCall(c)
  BY <1>0, <1>4, StartCallIs DEF At
<1> QED BY <1>1, <1>2, <1>3, <1>4, NextCases

LEMMA ConfirmSeenStep ==
  ASSUME "stale_status" \notin Events, ControlInv, ConfirmSeen, Next
  PROVE  ConfirmSeen'
<1> SUFFICES ASSUME NEW s \in Seqs, run'[s].at = "confirm", Working(status')
             PROVE  s \in seen'
  BY DEF ConfirmSeen, At
<1>1. CASE Working(StatusOf(rob'))
  BY <1>1, WitnessKeeps
<1>2. CASE status' = status
  <2>1. CASE At(s, {"confirm"})
    BY <1>2, <2>1, WitnessKeeps DEF ConfirmSeen
  <2>2. CASE \E c \in Callers : Accepted(c)
    <3>1. status' = StatusOf(rob')
      BY <2>2 DEF Accepted, Sampled, Spend
    <3> QED BY <1>1, <3>1
  <2> QED BY <2>1, <2>2, ConfirmIs DEF At
<1> QED BY <1>1, <1>2, SamplesFollow DEF SampleFollows

\* Nothing but a command sends out a robot that has no task.
LEMMA UnbegunIs ==
  ASSUME ControlInv, Unbegun, NEW r \in {rob, Paused(rob), Resumed(rob), Stopped(rob), SentHome(rob)},
         RobotBecomes(r)
  PROVE  Unbegun'
<1>1. rob \in Robot
  BY DEF ControlInv, TypeOK
<1>2. AtRest(r) /\ r.at = "dock"
  BY <1>1 DEF Unbegun, AtRest, Paused, Resumed, Stopped, SentHome, Robot
<1>3. Rests(StatusOf(r))
  BY <1>2 DEF Rests, StatusOf, AtRest
<1> QED BY <1>2, <1>3 DEF RobotBecomes, Unbegun

LEMMA UnbegunStays ==
  ASSUME ControlInv, Unbegun, Next, \A c \in Callers : ~Send(c)
  PROVE  Unbegun'
<1>0. rob \in Robot
  BY DEF ControlInv, TypeOK
<1>1. CASE UNCHANGED <<rob, status>>
  BY <1>1 DEF Unbegun
<1>2. CASE rob' = rob /\ status' = StatusOf(rob)
  BY <1>2 DEF Unbegun, AtRest, Rests, StatusOf
<1>3. CASE Sampled /\ rob' = rob
  BY <1>1, <1>2, <1>3 DEF Sampled
<1>4. CASE World \/ \E d \in BOOLEAN : Unload(d)
  <2>1. CASE \E d \in BOOLEAN : Unload(d)
    BY <2>1, UnbegunIs DEF Unload
  <2>2. CASE DoorTravels \/ HouseholdMoves \/ FeedbackLost \/ FeedbackBack \/ PermitOff \/ PermitOn
    BY <1>1, <2>2 DEF DoorTravels, HouseholdMoves, FeedbackLost, FeedbackBack, PermitOff,
       PermitOn, DoorBecomes
  <2>3. CASE PollStatus \/ PollPosition \/ NoPosition
    BY <1>1, <1>2, <2>3 DEF PollStatus, PollPosition, NoPosition
  <2>4. CASE LatePause
    BY <2>4, UnbegunIs DEF LatePause
  <2>5. CASE UserCommand
    BY <2>5, UnbegunIs DEF UserCommand, RobotStep
  <2>6. ~(RobotActs \/ Wander \/ TakeBreak)
    BY <1>0 DEF RobotActs, DriveOut, HeadHome, DriveHome, GoesOn, Wander, TakeBreak,
       Unbegun, AtRest
  <2> QED BY <1>4, <2>1, <2>2, <2>3, <2>4, <2>5, <2>6 DEF World
<1>5. ASSUME NEW p \in Procs, Advances(p) PROVE Unbegun'
  <2>1. CASE MoveDoor(p)
    BY <1>1, <2>1 DEF MoveDoor
  <2>2. CASE Deciding(p)
    <3>1. (status' = status \/ Sampled) /\ rob' = rob
      BY <2>2, DecidingIs DEF Continue
    <3> QED BY <1>1, <1>3, <3>1
  <2>3. CASE SendPause(p) \/ SendResume(p)
    BY <1>1, <2>3, UnbegunIs DEF SendPause, SendResume
  <2> QED BY <1>5, <2>1, <2>2, <2>3, WorkingKinds
<1>6. ASSUME NEW c \in Callers, StartCall(c) PROVE Unbegun'
  BY <1>1, <1>6 DEF StartCall
<1>7. ASSUME NEW c \in Callers, Accepted(c) PROVE Unbegun'
  BY <1>3, <1>7 DEF Accepted
<1> QED BY <1>4, <1>5, <1>6, <1>7, NextCases

\* The single clean is sent: a robot that takes it up is seen at work at once.
LEMMA SendBegun ==
  ASSUME BegunInv, Next, NEW c \in Callers, Send(c)
  PROVE  Begun'
<1>0. /\ run \in [Procs -> Where] /\ rob \in Robot /\ c \in Procs
      /\ calls \in 0..MaxCalls /\ MaxCalls \in Nat /\ ControlInv /\ Alone
  BY GarageAssumption DEF BegunInv, ControlInv, TypeOK, Procs
<1>1. Busy(c) /\ calls' = 0 /\ \A q \in Procs : q # c => run'[q] = run[q]
  <2>1. Advances(c)
    BY <1>0 DEF Advances
  <2> QED BY <1>0, <2>1, WorkingRuns DEF Alone
<1>2. \A q \in Procs : q # c => ~Busy(q)'
  BY <1>0, <1>1, OthersRest
<1>3. Unbegun
  BY DEF BegunInv, Begun, Send, At
<1>4. run'[c].at \in {"idle", "sent"}
  <2>1. \E r : Reach(c, r) /\ r.at \in {"idle", "sent"}
    BY DEF Send, End, To
  <2> QED BY <1>0, <2>1, ReachIs
<1>5. run'[c].at = "sent" => c \in seen' \/ Unbegun'
  <2>1. CASE UNCHANGED <<rob, status>>
    BY <1>3, <2>1 DEF Unbegun
  <2>2. CASE RobotBecomes(Resumed(rob))
    BY <1>0, <1>3, <2>2, UnbegunIs
  <2>3. CASE RobotBecomes(Started(rob))
    <3>1. Started(rob).act = "cleaning"
      BY <1>0, <1>3 DEF Started, Unbegun, AtRest, Robot
    <3>2. Working(StatusOf(rob'))
      BY <2>3, <3>1 DEF RobotBecomes, StatusOf, Working, TaskRunning, Docked
    <3> QED BY <1>0, <3>2, WitnessKeeps
  <2> QED BY <2>1, <2>2, <2>3 DEF Send
<1>6. \A s \in Seqs : s \in Procs /\ s # c
  BY GarageAssumption DEF Procs
<1>7. \A q \in Callers : q \in Procs
  BY DEF Procs
<1> QED BY <1>1, <1>2, <1>4, <1>5, <1>6, <1>7 DEF Begun, Busy, At

\* Every other step.
LEMMA BegunStep ==
  ASSUME MaxCalls <= 1, BegunInv, Next
  PROVE  Begun'
<1>0. /\ run \in [Procs -> Where] /\ ControlInv /\ Alone
      /\ calls \in 0..MaxCalls /\ MaxCalls \in Nat
      /\ \A s \in Seqs : s \in Procs /\ s \notin Callers
      /\ \A c \in Callers : c \in Procs
  BY GarageAssumption DEF BegunInv, ControlInv, TypeOK, Procs
<1>1. CASE \E c \in Callers : Send(c)
  BY <1>1, SendBegun
<1>2. CASE Unbegun /\ \A c \in Callers : ~Send(c)
  BY <1>0, <1>2, UnbegunStays DEF Begun
<1>3. CASE ~Unbegun /\ \A c \in Callers : ~Send(c)
  <2>1. /\ calls = 0
        /\ \A c \in Callers : At(c, {"idle"}) \/ (At(c, {"sent"}) /\ c \in seen)
        /\ \A s \in Seqs : Busy(s) => s \in seen
    BY <1>0, <1>3 DEF BegunInv, Begun, PastSeen, Past, Busy, At
  <2>2. ASSUME calls' = 0, \A q \in Procs : run'[q] = run[q] \/ run'[q].at = "idle"
        PROVE  Begun'
    <3>1. \A c \in Callers : run'[c].at = "idle" \/ (run'[c].at = "sent" /\ c \in seen')
      BY <1>0, <2>1, <2>2, WitnessKeeps DEF At
    <3>2. \A s \in Seqs : run'[s].at # "idle" => s \in seen'
      BY <1>0, <2>1, <2>2, WitnessKeeps DEF Busy, At
    <3> QED BY <2>2, <3>1, <3>2 DEF Begun, At
  <2>3. CASE World \/ \E d \in BOOLEAN : Unload(d)
    <3>1. CASE \E d \in BOOLEAN : Unload(d)
      BY <1>0, <2>1, <2>2, <3>1, UnloadIs
    <3>2. CASE World /\ \A d \in BOOLEAN : ~Unload(d)
      BY <2>1, <2>2, <3>2, WorldRuns
    <3> QED BY <2>3, <3>1, <3>2
  <2>4. ASSUME NEW p \in Procs, Advances(p) PROVE Begun'
    <3>1. Busy(p) /\ calls' = 0 /\ \A q \in Procs : q # p => run'[q] = run[q]
      BY <1>0, <2>1, <2>4, WorkingRuns
    <3>2. \A q \in Procs : q # p => ~Busy(q)'
      BY <1>0, <3>1, OthersRest
    <3>3. p \in Seqs
      <4>1. SUFFICES ASSUME p \in Callers, p \notin Seqs PROVE FALSE
        BY DEF Procs
      <4>2. At(p, {"sent"})
        BY <2>1, <3>1, <4>1 DEF Busy
      <4> QED BY <1>3, <2>4, <4>1, <4>2 DEF Advances, MoveDoor, Arrived, TimedOut, MoveDoorFails,
          SendFails, At
    <3>4. run'[p].at # "idle" => p \in seen'
      BY <1>0, <2>1, <3>1, <3>3, WitnessKeeps
    <3> QED BY <1>0, <3>1, <3>2, <3>3, <3>4 DEF Begun, Busy, At
  <2>5. ~\E c \in Callers : StartCall(c)
    BY <1>0, <2>1, StartCallIs
  <2>6. ASSUME NEW c \in Callers, Accepted(c) PROVE Begun'
    <3>1. PICK s \in Seqs :
             /\ At(c, {"sent"}) /\ run'[c].at = "idle" /\ calls' = calls
             /\ At(s, {"idle"}) /\ run'[s].at = "confirm" /\ s \in Procs /\ c \in Procs
             /\ \A q \in Procs \ {c, s} : run'[q] = run[q]
      BY <1>0, <2>6, AcceptedIs
    <3>2. Busy(c) /\ \A q \in Procs : q # s => ~Busy(q)'
      BY <1>0, <3>1 DEF Alone, Busy, At
    <3>3. s \in seen'
      BY <1>0, <2>1, <3>1, WitnessKeeps DEF At
    <3> QED BY <1>0, <2>1, <3>1, <3>2, <3>3 DEF Begun, Busy, At
  <2> QED BY <2>3, <2>4, <2>5, <2>6, NextCases
<1> QED BY <1>1, <1>2, <1>3

\* A sequence orders the final close only if the robot has really worked since the sequence
\* began (garage_runtime.py:418-427): for a single call however old the samples are, and for
\* any number of calls when the samples keep up with the robot or at least every poll that
\* follows a command is answered.
THEOREM ClosesForSeenClean ==
  ASSUME MaxCalls <= 1 \/ ~Lag \/ "stale_status" \notin Events
  PROVE  Spec => []ClosesOnlyForSeenClean
<1>0. PastSeen => ClosesOnlyForSeenClean
  BY DEF PastSeen, ClosesOnlyForSeenClean, Past, At
<1>1. CASE MaxCalls <= 1
  <2>1. Init => BegunInv
    <3>1. Init => Alone /\ Begun /\ PastSeen
      BY DEF Init, Alone, Begun, PastSeen, Unbegun, AtRest, Rests, StatusOf, Past, Busy, At, Procs
    <3> QED BY <3>1, ControlInit DEF BegunInv
  <2>2. BegunInv /\ Next => BegunInv'
    <3>1. BegunInv => \A s \in Seqs : At(s, {"confirm"}) /\ Working(status) => s \in seen
      BY WorkingIsNoRest DEF BegunInv, Begun, Unbegun, ControlInv, TypeOK
    <3>2. BegunInv /\ Next => ControlInv' /\ Alone'
      BY <1>1, ControlNext, AloneStep DEF BegunInv
    <3>3. BegunInv /\ Next => Begun' /\ PastSeen'
      BY <1>1, <3>1, BegunStep, PastSeenStep DEF BegunInv
    <3> QED BY <3>2, <3>3 DEF BegunInv
  <2>3. BegunInv /\ UNCHANGED vars => BegunInv'
    <3>1. BegunInv /\ UNCHANGED vars => ControlInv' /\ Alone'
      BY <1>1, ControlNext, AloneStep DEF BegunInv
    <3>2. BegunInv /\ UNCHANGED vars => Begun' /\ PastSeen'
      BY DEF BegunInv, vars, Begun, PastSeen, Unbegun, AtRest, Rests, Past, At
    <3> QED BY <3>1, <3>2 DEF BegunInv
  <2>4. BegunInv => ClosesOnlyForSeenClean
    BY <1>0 DEF BegunInv
  <2> QED BY <2>1, <2>2, <2>3, <2>4, PTL DEF Spec
<1>2. CASE ~Lag
  <2>1. Init => SyncedInv
    <3>1. Init => Synced /\ PastSeen
      BY DEF Init, Synced, PastSeen, Past, At, Procs
    <3> QED BY <3>1, ControlInit DEF SyncedInv
  <2>2. SyncedInv /\ Next => SyncedInv'
    <3>1. SyncedInv => \A s \in Seqs : Working(status) => Working(StatusOf(rob))
      BY DEF SyncedInv, Synced
    <3>2. SyncedInv /\ Next => ControlInv'
      BY ControlNext DEF SyncedInv
    <3>3. SyncedInv /\ Next => Synced' /\ PastSeen'
      BY <1>2, <3>1, SyncedStep, PastSeenStep DEF SyncedInv
    <3> QED BY <3>2, <3>3 DEF SyncedInv
  <2>3. SyncedInv /\ UNCHANGED vars => SyncedInv'
    <3>1. SyncedInv /\ UNCHANGED vars => ControlInv'
      BY ControlNext DEF SyncedInv
    <3>2. SyncedInv /\ UNCHANGED vars => Synced' /\ PastSeen'
      BY DEF SyncedInv, vars, Synced, StatusOf, PastSeen, Past, At
    <3> QED BY <3>1, <3>2 DEF SyncedInv
  <2>4. SyncedInv => ClosesOnlyForSeenClean
    BY <1>0 DEF SyncedInv
  <2> QED BY <2>1, <2>2, <2>3, <2>4, PTL DEF Spec
<1>3. CASE "stale_status" \notin Events
  <2>1. Init => FreshInv
    <3>1. Init => ConfirmSeen /\ PastSeen
      BY DEF Init, ConfirmSeen, PastSeen, Past, At, Procs
    <3> QED BY <3>1, ControlInit DEF FreshInv
  <2>2. FreshInv /\ Next => FreshInv'
    <3>1. FreshInv /\ Next => ControlInv'
      BY ControlNext DEF FreshInv
    <3>2. FreshInv /\ Next => ConfirmSeen' /\ PastSeen'
      BY <1>3, ConfirmSeenStep, PastSeenStep DEF FreshInv, ConfirmSeen
    <3> QED BY <3>1, <3>2 DEF FreshInv
  <2>3. FreshInv /\ UNCHANGED vars => FreshInv'
    <3>1. FreshInv /\ UNCHANGED vars => ControlInv'
      BY ControlNext DEF FreshInv
    <3>2. FreshInv /\ UNCHANGED vars => ConfirmSeen' /\ PastSeen'
      BY DEF FreshInv, vars, ConfirmSeen, Working, TaskRunning, Docked, PastSeen, Past, At
    <3> QED BY <3>1, <3>2 DEF FreshInv
  <2>4. FreshInv => ClosesOnlyForSeenClean
    BY <1>0 DEF FreshInv
  <2> QED BY <2>1, <2>2, <2>3, <2>4, PTL DEF Spec
<1> QED BY <1>1, <1>2, <1>3

=============================================================================
