--------------------------- MODULE DoorAutomation ---------------------------
(***************************************************************************)
(* The "garage door state machine" automation that                         *)
(* scripts/garage_state_machine/build.py generates: one Home Assistant     *)
(* automation, mode queued, whose runs pause a departing robot and close   *)
(* the door behind it, open the door for a returning robot and close it    *)
(* behind a parked one.  The conditions are data, as in the generated      *)
(* JSON, and are evaluated the way the replay harness evaluates them.      *)
(*                                                                         *)
(* A robot's state is the status it reports, where it stands (at the dock, *)
(* in the rest of the danger zone, which holds the doorway, or outside)    *)
(* and whether a clean is unfinished.  Home Assistant knows only what the  *)
(* last status poll and the last position sample told it.                  *)
(***************************************************************************)
EXTENDS Integers, Sequences

CONSTANTS MaxRuns,    \* "max" of the automation: the running run and the queue
          MaxCleans,  \* bound: cleans the robot starts
          MaxVisits,  \* bound: mid-task dock visits
          MaxMishaps, \* bound: status blips of a docked robot, pauses and resumes by
                      \* hand, lost readings, calls that raise, stops of the motor
          Raising,    \* the actions whose call may raise
          Losing,     \* the readings that may become unavailable
          QuickCleans, \* a clean may start while the last one's end is recent
          FastPolls   \* ten seconds hold at least one status poll

ASSUME AutomationAssumption ==
  /\ MaxRuns \in Nat \ {0}
  /\ {MaxCleans, MaxVisits, MaxMishaps} \subseteq Nat
  /\ Raising \subseteq {"pause", "close", "open", "resume"}
  /\ Losing \subseteq {"status", "contact", "position"}
  /\ {QuickCleans, FastPolls} \subseteq BOOLEAN

VARIABLES robot,   \* what the robot is and does
          door,    \* the door, its motor and the cover's position reading
          seen,    \* the states Home Assistant holds
          queue,   \* the triggers whose run has not started
          run,     \* the run in progress
          count,   \* how often the bounded events have happened
          spare,   \* history: real departures, less the pauses ordered
          held,    \* history: who has the paused robot in his care
          missed,  \* history: what kept the last return trigger from opening
          said     \* history: alerts of the last departure run and after it

vars == <<robot, door, seen, queue, run, count, spare, held, missed, said>>

-----------------------------------------------------------------------------
(* The states the entities can be in.                                      *)

CleaningStates == {"cleaning"}
ReturnStates == {"returning_home", "docking", "going_to_wash_the_mop"}
Statuses == CleaningStates \cup ReturnStates \cup {"charging", "paused"}

VacuumOf(s) == CASE s = "charging"          -> "docked"
                 [] s \in ReturnStates      -> "returning"
                 [] OTHER                   -> s

\* Charging and the mop states count as "no task", also in mid-task.
TaskOf(s) == IF s \in Statuses \ {"charging"} THEN "on"
             ELSE IF s = "unavailable" THEN "unknown" ELSE "off"

Contact == IF ~door.magnet THEN "unknown"
           ELSE IF door.gap = "shut" THEN "off" ELSE "on"

\* The reading a condition on the entity e is evaluated against.
Reading(e, t) == CASE e = "trigger"  -> t
                   [] e = "status"   -> seen.status
                   [] e = "vacuum"   -> VacuumOf(seen.status)
                   [] e = "task"     -> TaskOf(seen.status)
                   [] e = "outside"  -> seen.outside
                   [] e = "ended"    -> seen.ended
                   [] e = "contact"  -> Contact
                   [] e = "position" -> door.reading

-----------------------------------------------------------------------------
(* Conditions as data, and their evaluation.                               *)

Is(e, states) == [entity |-> e, is |-> states, negated |-> FALSE]
IsNot(e, states) == [entity |-> e, is |-> states, negated |-> TRUE]

Holds(c, t) == (Reading(c.entity, t) \in c.is) # c.negated
Fires(conditions, t) == \A c \in conditions : Holds(c, t)

NotParked == IsNot("vacuum", {"docked", "charging"})
Parked == Is("vacuum", {"docked", "charging"})
DoorOpen == Is("contact", {"on"})
TaskReallyEnded == Is("ended", {"recent"})
TaskOff == Is("task", {"off"})

LeaveConditions == {Is("trigger", {"leave"}), Is("status", CleaningStates),
                    NotParked, DoorOpen}
ReturnConditionsTaskOff == {Is("trigger", {"return"}), NotParked, TaskOff,
                            Is("position", {"below"})}
ReturnConditions == {Is("trigger", {"return"}), NotParked,
                     Is("position", {"below"})}
ParkRechecksTaskOff == {TaskOff, Parked, DoorOpen}
ParkRechecks == {TaskOff, Parked, DoorOpen, TaskReallyEnded}
ParkConditions == ParkRechecks \cup {Is("trigger", {"park_task", "park_dock"})}

-----------------------------------------------------------------------------
(* Triggers.  A trigger becomes a run; beyond the limit it is dropped, and *)
(* nothing tells anybody (max_exceeded: silent).                           *)

Running == run.pc # "idle"

Queued(ts) ==
  LET room == MaxRuns - Len(queue) - (IF Running THEN 1 ELSE 0)
  IN  queue \o SubSeq(ts, 1, IF Len(ts) < room THEN Len(ts) ELSE room)

TriggerMatches(from, to, previous, current) ==
  previous # current /\ previous \in from /\ current \in to

\* A status change is also a change of task_active and of the vacuum entity.
ParkTriggers(old, new) ==
  (IF TriggerMatches({"on", "unknown"}, {"off"}, TaskOf(old), TaskOf(new))
   THEN <<"park_task">> ELSE <<>>)
  \o (IF TriggerMatches({"cleaning", "returning", "paused", "unavailable"},
                        {"docked"}, VacuumOf(old), VacuumOf(new))
      THEN <<"park_dock">> ELSE <<>>)

LeaveTriggersFromAny(old, new) ==
  IF TriggerMatches({"off", "unknown"}, {"on"}, old, new) THEN <<"leave">> ELSE <<>>

LeaveTriggers(old, new) ==
  IF TriggerMatches({"off"}, {"on"}, old, new) THEN <<"leave">> ELSE <<>>

SustainedAtOnce == seen.status \in ReturnStates /\ seen.timer

\* for: 10 s, longer than a blip and, when polls are fast, than its last poll.
Sustained == /\ seen.status \in ReturnStates /\ seen.timer
             /\ FastPolls => seen.status = robot.status /\ ~robot.blip

-----------------------------------------------------------------------------
Places == {"dock", "zone", "out"}
Gaps == {"shut", "ajar", "open"}
Pcs == {"idle", "pausing", "leave_shut", "leave_settle", "resuming",
        "open_settle", "opening", "park_delay", "park_shut", "park_settle"}
Alerts == {"warning", "critical"}
Bounded == {"clean", "visit", "mishap"}

TypeOK ==
  /\ robot \in [status : Statuses, was : Statuses, place : Places,
                task : BOOLEAN, blip : BOOLEAN]
  /\ door \in [gap : Gaps, motor : {"still", "up", "down"},
               reading : {"below", "full", "unknown"}, magnet : BOOLEAN]
  /\ seen \in [status : Statuses \cup {"unavailable"}, timer : BOOLEAN,
               outside : {"on", "off", "unknown"},
               ended : {"recent", "old"}]
  /\ queue \in Seq({"leave", "return", "park_task", "park_dock"})
  /\ Len(queue) <= MaxRuns
  /\ run \in [pc : Pcs, waited : BOOLEAN]
  /\ count \in [Bounded -> Nat]
  /\ spare \in Int
  /\ missed \in {"no", "dropped", "unread", "echoed", "raised"}
  /\ held \in {"no", "yes", "touched", "raised"} /\ said \subseteq Alerts

Init ==
  /\ robot = [status |-> "charging", was |-> "charging", place |-> "dock",
              task |-> FALSE, blip |-> FALSE]
  /\ door = [gap |-> "shut", motor |-> "still", reading |-> "below",
             magnet |-> TRUE]
  /\ seen = [status |-> "charging", timer |-> FALSE, outside |-> "off",
             ended |-> "old"]
  /\ queue = <<>>
  /\ run = [pc |-> "idle", waited |-> FALSE]
  /\ count = [e \in Bounded |-> 0]
  /\ spare = 0 /\ held = "no" /\ missed = "no" /\ said = {}

-----------------------------------------------------------------------------
(* The robot.  It moves on only after a poll has shown its new status: the *)
(* local server is polled every few seconds.                               *)

Bump(e, bound) == count[e] < bound /\ count' = [count EXCEPT ![e] = @ + 1]

RobotSteps == UNCHANGED <<door, seen, queue, run, spare, held, missed, said>>

StartClean ==
  /\ robot.status = "charging" /\ robot.place = "dock" /\ ~robot.task
  /\ QuickCleans \/ seen.ended = "old"
  /\ door.gap = "open" /\ door.motor = "still"
  /\ Bump("clean", MaxCleans)
  /\ robot' = [robot EXCEPT !.status = "cleaning", !.task = TRUE]
  /\ RobotSteps

\* The integration opens the door before it sends the robot a start.
GuardOpens ==
  /\ robot.status = "charging" /\ door.gap # "open" /\ door.motor = "still"
  /\ count["clean"] < MaxCleans
  /\ door' = [door EXCEPT !.motor = "up", !.reading = "full"]
  /\ UNCHANGED <<robot, seen, queue, run, count, spare, held, missed, said>>

LeaveDock ==            \* out again after a mid-task visit to the dock
  /\ robot.status = "charging" /\ robot.place = "dock" /\ robot.task
  /\ robot' = [robot EXCEPT !.status = "cleaning"]
  /\ UNCHANGED count /\ RobotSteps

Turn(status, task) ==   \* out cleaning, it turns home
  /\ robot.status = "cleaning" /\ robot.place = "out"
  /\ robot' = [robot EXCEPT !.status = status, !.task = task]
  /\ said' = said \ {"critical"}

\* The device stamps the end of the clean before it travels home.
Finish == /\ Turn("returning_home", FALSE)
          /\ seen' = [seen EXCEPT !.ended = "recent"]
          /\ UNCHANGED <<door, queue, run, spare, held, missed, count>>

WashMop == /\ Turn("going_to_wash_the_mop", TRUE)
           /\ Bump("visit", MaxVisits)
           /\ UNCHANGED <<door, seen, queue, run, spare, held, missed>>

\* One stretch of its way; the doorway lets it through when the door is open.
MayPass == seen.status = robot.status /\ door.gap = "open"

Depart ==
  /\ robot.status = "cleaning" /\ robot.place = "zone" /\ MayPass
  /\ robot' = [robot EXCEPT !.place = "out"]
  /\ spare' = spare + 1
  /\ UNCHANGED <<door, seen, queue, run, count, held, missed, said>>

Travel ==
  /\ seen.status = robot.status
  /\ \/ /\ robot.status = "cleaning" /\ robot.place = "dock"
        /\ robot' = [robot EXCEPT !.place = "zone"]
     \/ /\ robot.status \in ReturnStates /\ robot.place = "out" /\ MayPass
        /\ robot' = [robot EXCEPT !.place = "zone"]
     \/ /\ robot.status \in ReturnStates /\ robot.place = "zone"
        /\ robot' = [robot EXCEPT !.place = "dock", !.status = "charging"]
  /\ UNCHANGED count /\ RobotSteps

\* 2026-10-08: `docking` for 2.02 s on the dock, task_active on and off.
BlipStart ==
  /\ robot.status = "charging" /\ ~robot.blip
  /\ Bump("mishap", MaxMishaps)
  /\ robot' = [robot EXCEPT !.status = "docking", !.blip = TRUE]
  /\ RobotSteps

BlipEnd ==
  /\ robot.blip /\ robot' = [robot EXCEPT !.status = "charging", !.blip = FALSE]
  /\ UNCHANGED count /\ RobotSteps

\* Cleaning, it may come back into the zone through the doorway.
Wander ==
  /\ robot.status = "cleaning" /\ robot.place = "out" /\ door.gap = "open"
  /\ Bump("visit", MaxVisits)
  /\ robot' = [robot EXCEPT !.place = "zone"]
  /\ RobotSteps

\* Somebody pauses or resumes it with the app or the robot's own buttons.
Touch ==
  /\ Bump("mishap", MaxMishaps)
  /\ held' = "touched"
  /\ \/ /\ robot.status = "paused"
        /\ robot' = [robot EXCEPT !.status = robot.was,
                              !.was = "charging"]
     \/ /\ robot.status = "cleaning"
        /\ robot' = [robot EXCEPT !.status = "paused", !.was = "cleaning"]
  /\ UNCHANGED <<door, seen, queue, run, spare, missed, said>>

-----------------------------------------------------------------------------
(* The readings and the door.                                              *)

Shown(status) ==
  /\ seen.status # status
  /\ seen' = [seen EXCEPT !.status = status, !.timer = status \in ReturnStates]
  /\ queue' = Queued(ParkTriggers(seen.status, status))
  /\ UNCHANGED <<robot, door, run, spare, held, missed, said>>

Poll == Shown(robot.status) /\ UNCHANGED count
LoseStatus == /\ "status" \in Losing /\ seen.status # "unavailable"
              /\ Bump("mishap", MaxMishaps)
              /\ Shown("unavailable")

\* A position sample, or the loss of one that is too old to be trusted.
Sampled(outside) ==
  /\ seen.outside # outside
  /\ seen' = [seen EXCEPT !.outside = outside]
  /\ queue' = Queued(LeaveTriggers(seen.outside, outside))
  /\ UNCHANGED <<robot, door, run, count, spare, held, missed, said>>

Sample == Sampled(IF robot.place = "out" THEN "on" ELSE "off")
AgeOut == Sampled("unknown")

Sustain ==
  /\ Sustained
  /\ seen' = [seen EXCEPT !.timer = FALSE]
  /\ queue' = Queued(<<"return">>)
  /\ missed' = IF queue' = queue THEN "dropped" ELSE "no"
  /\ UNCHANGED <<robot, door, run, count, spare, held, said>>

AgeMarker ==
  /\ seen.ended = "recent" /\ seen' = [seen EXCEPT !.ended = "old"]
  /\ UNCHANGED <<robot, door, queue, run, count, spare, held, missed, said>>

LoseContact ==
  /\ "contact" \in Losing /\ door.magnet
  /\ Bump("mishap", MaxMishaps)
  /\ door' = [door EXCEPT !.magnet = FALSE]
  /\ UNCHANGED <<robot, seen, queue, run, spare, held, missed, said>>

\* The cover reports the commanded position at once, the real one at rest.
Opening == [door EXCEPT !.motor = "up", !.reading = "full"]
Closing == [door EXCEPT !.motor = "down", !.reading = "below"]

Further(gap, motor) == CASE gap = "ajar" -> IF motor = "up" THEN "open" ELSE "shut"
                         [] OTHER -> IF gap = (IF motor = "up" THEN "open" ELSE "shut")
                                     THEN gap ELSE "ajar"

\* At rest it reports where it really is.
Resting(gap) == [door EXCEPT !.gap = gap, !.motor = "still",
                    !.reading = IF gap = "open" THEN "full" ELSE "below"]

Motor ==
  /\ door.motor # "still"
  /\ LET gap == Further(door.gap, door.motor)
     IN  door' = IF gap = "ajar" THEN [door EXCEPT !.gap = gap] ELSE Resting(gap)
  /\ UNCHANGED <<robot, seen, queue, run, count, spare, held, missed, said>>

\* The door meets an obstacle, or somebody stops it.
Jam ==
  /\ door.motor # "still" /\ Bump("mishap", MaxMishaps)
  /\ door' = Resting(door.gap)
  /\ UNCHANGED <<robot, seen, queue, run, spare, held, missed, said>>

\* The attribute current_position is gone until the cover reports again.
LosePosition ==
  /\ "position" \in Losing /\ door.reading # "unknown"
  /\ Bump("mishap", MaxMishaps)
  /\ door' = [door EXCEPT !.reading = "unknown"]
  /\ UNCHANGED <<robot, seen, queue, run, spare, held, missed, said>>

-----------------------------------------------------------------------------
(* The runs, one at a time and in the order of their triggers.             *)

At(pc) == run.pc = pc
Goto(pc) == run' = [run EXCEPT !.pc = pc]
Waited(pc, completed) == run' = [pc |-> pc, waited |-> completed]
World == <<robot, seen, count, missed>>

Alert(level) == said' = said \cup {level}
EndWith(level) == Waited("idle", FALSE) /\ Alert(level)
                  /\ UNCHANGED <<door, World, spare, held>>
End == Waited("idle", FALSE) /\ UNCHANGED <<door, World, spare, held, said>>

\* A call that raises ends the run on the spot and alerts nobody.  The command may
\* have been carried out all the same: only its answer is missing.
Raised(action) ==
  action \in Raising /\ Bump("mishap", MaxMishaps) /\ Waited("idle", FALSE)

Order(action, next, pc) ==
  /\ \/ Goto(pc) /\ door' = next /\ UNCHANGED count
     \/ Raised(action) /\ door' \in {door, next}
  /\ UNCHANGED <<robot, seen, spare, said>>

Died == run'.pc = "idle"

Begin ==   \* the conditions are evaluated now, not when the trigger fired
  /\ ~Running /\ queue # <<>> /\ queue' = Tail(queue)

\* The pause is answered or raises, and either way it took or did not.
BeginLeave ==
  /\ Begin
  /\ Fires(LeaveConditions, Head(queue))
  /\ spare' = spare - 1
  /\ \/ Goto("pausing") /\ said' = {} /\ UNCHANGED count
     \/ Raised("pause") /\ UNCHANGED said
  /\ \/ /\ robot.status \notin {"charging", "paused"}
        /\ robot' = [robot EXCEPT !.status = "paused", !.was = robot.status]
        /\ held' = IF Died THEN "raised" ELSE "yes"
     \/ UNCHANGED <<robot, held>>
  /\ UNCHANGED <<door, seen, missed>>

BeginReturn ==
  /\ Begin
  /\ Fires(ReturnConditions, Head(queue))
  /\ Order("open", Opening, "open_settle")
  /\ missed' = IF Died THEN "raised" ELSE missed
  /\ UNCHANGED held

BeginPark ==
  /\ Begin
  /\ Fires(ParkConditions, Head(queue))
  /\ Goto("park_delay")
  /\ UNCHANGED <<door, World, spare, held, said>>

BeginNothing ==
  /\ Begin
  /\ \A c \in {LeaveConditions, ReturnConditions, ParkConditions} :
       ~Fires(c, Head(queue))
  /\ missed' = IF Head(queue) # "return" THEN missed
               ELSE IF door.reading = "unknown" THEN "unread"
               ELSE IF door.motor = "up" THEN "echoed" ELSE missed
  /\ UNCHANGED <<door, robot, seen, count, run, spare, held, said>>

\* --- wait_template: done at once when true, else when it turns true or times out.
PauseSeen == VacuumOf(seen.status) = "paused"
ResumeSeen == VacuumOf(seen.status) \notin {"paused", "unavailable"}
DoorShut == Contact = "off"

LeavePaused == /\ At("pausing") /\ PauseSeen
               /\ Order("close", Closing, "leave_shut")
               /\ held' = IF Died /\ held = "yes" THEN "raised" ELSE held
               /\ UNCHANGED missed
LeaveNotPaused == At("pausing") /\ ~PauseSeen /\ EndWith("warning")

\* A full travel takes less than the ninety seconds of the wait.
ShutWait(from, to) ==
  /\ At(from)
  /\ DoorShut \/ door.motor = "still"
  /\ Waited(to, DoorShut)
  /\ UNCHANGED <<door, World, spare, held, said>>

LeaveShutWait == ShutWait("leave_shut", "leave_settle")
ParkShutWait == ShutWait("park_shut", "park_settle")

LeaveNotShut == /\ At("leave_settle")
                /\ ~run.waited \/ seen.status = "unavailable"
                /\ EndWith("warning")

\* resume_task continues on an error, but may have no effect.
LeaveResume ==
  /\ At("leave_settle") /\ run.waited /\ seen.status # "unavailable"
  /\ Goto("resuming")
  /\ \/ /\ robot.status = "paused"
        /\ robot' = [robot EXCEPT !.status = robot.was,
                              !.was = "charging"] /\ held' = "no"
     \/ /\ robot.status # "paused" \/ "resume" \in Raising
        /\ UNCHANGED <<robot, held>>
  /\ UNCHANGED <<door, seen, count, spare, missed, said>>

LeaveResumed == At("resuming") /\ ResumeSeen /\ End
LeaveNotResumedSilent == At("resuming") /\ ~ResumeSeen /\ End
LeaveNotResumedNever == FALSE
LeaveNotResumed == At("resuming") /\ ~ResumeSeen /\ EndWith("warning")

\* The settle delay is longer than a full travel.
ReturnSettled ==
  /\ At("open_settle") /\ door.motor = "still"
  /\ Goto("opening") /\ UNCHANGED <<door, World, spare, held, said>>

ReturnOpen == At("opening") /\ door.reading = "full" /\ End
ReturnNotOpen == At("opening") /\ door.reading # "full" /\ EndWith("critical")

ParkRecheck ==
  /\ At("park_delay")
  /\ \/ ~Fires(ParkRechecks, "") /\ End
     \/ Fires(ParkRechecks, "") /\ seen.outside # "off" /\ EndWith("warning")

ParkClose ==
  /\ At("park_delay")
  /\ Fires(ParkRechecks, "") /\ seen.outside = "off"
  /\ Order("close", Closing, "park_shut") /\ UNCHANGED <<held, missed>>

\* Both ways it ends in the notice that the door is closed, which nothing reads.
ParkSettled == At("park_settle") /\ IF run.waited THEN End ELSE EndWith("warning")

Step == \/ LeavePaused \/ LeaveNotPaused \/ LeaveShutWait \/ LeaveNotShut
        \/ LeaveResume \/ LeaveResumed \/ LeaveNotResumed
        \/ ReturnSettled \/ ReturnOpen \/ ReturnNotOpen
        \/ ParkRecheck \/ ParkClose \/ ParkShutWait \/ ParkSettled

Automation == \/ BeginLeave \/ BeginReturn \/ BeginPark \/ BeginNothing
              \/ (Step /\ UNCHANGED queue)

Environment == \/ GuardOpens \/ StartClean \/ LeaveDock \/ Finish \/ WashMop \/ Depart \/ Travel
               \/ Wander \/ BlipStart \/ BlipEnd \/ Touch
               \/ LoseStatus \/ AgeOut \/ AgeMarker \/ LoseContact \/ LosePosition
               \/ Jam

Next == Automation \/ Environment \/ Poll \/ Sample \/ Sustain \/ Motor

\* Runs proceed, polls and samples come, the motor reaches its stop, a blip ends.
Fairness == WF_vars(Automation) /\ WF_vars(Poll) /\ WF_vars(Sustain)
            /\ WF_vars(Motor) /\ WF_vars(BlipEnd)

Spec == Init /\ [][Next]_vars /\ Fairness

-----------------------------------------------------------------------------
(* Safety.                                                                 *)

\* "One departure must pause the robot once": however often the sensor flaps
\* between on and unknown, the runs pause it at most once per real departure.
OnePausePerDeparture == spare >= 0

\* A robot the automation paused and did not put back to work is reported: no run
\* ends and leaves it standing in silence, unless it died of a call that raised.
StrandIsReported ==
  held = "yes" /\ robot.status = "paused"
    /\ run.pc \notin {"pausing", "leave_shut", "leave_settle", "resuming"}
    => "warning" \in said

\* The parking run closes the door only behind a robot on its dock whose
\* clean is over, never on a visit in mid-task.
ParkClosesOnlyAfterTask ==
  [][At("park_delay") /\ run'.pc = "park_shut"
       => robot.place = "dock" /\ ~robot.task]_vars

\* A robot that has not left its dock makes no run move the door, whatever
\* its status blips through.
DockedRobotMovesNoDoor ==
  [][run.pc # run'.pc /\ run'.pc \in {"open_settle", "leave_shut", "park_shut"}
       => count["clean"] > 0 \/ robot.place # "dock"]_vars

(* Liveness.                                                               *)

\* A robot on its way home before a shut door is let in, or the owner told, unless
\* its trigger was dropped, found no position to judge or took the echo of an earlier
\* order for an open door, or its own order to open raised.
ReturningRobotLetIn ==
  (robot.status \in ReturnStates /\ robot.place = "out")
    ~> (\/ door.gap = "open" \/ "critical" \in said \/ missed # "no"
        \/ robot.place # "out" \/ robot.status \notin ReturnStates)

\* A paused robot does not wait for ever: resumed, reported or touched, or its run
\* died of a call that raised.
PauseEnds == (held = "yes") ~> (held # "yes" \/ "warning" \in said)
=============================================================================
