---------------------------- MODULE GarageControl ----------------------------
(***************************************************************************)
(* One garage door, one robot, and the integration that coordinates them:  *)
(* the GarageController of garage_door.py as GarageRuntime drives it.      *)
(*                                                                         *)
(* The integration is a set of asyncio coroutines over one controller      *)
(* object with no lock.  Callers run service calls (a clean, a resume, a   *)
(* routine, an explicit open or close); each accepted clean leaves behind  *)
(* a sequence that follows it home.  Code between two awaits is one step   *)
(* here; every await is a value of run[p].at.  A Step record says where    *)
(* such a stretch of code leaves the controller and the coroutine.         *)
(*                                                                         *)
(* Around them move the door (shared with the household), the robot        *)
(* (which leaves, wanders, recharges and comes home by itself), and the    *)
(* coordinator that samples the robot's status and position.               *)
(***************************************************************************)
EXTENDS Integers, FiniteSets

CONSTANTS
  Seqs,      \* _finish_sequence tasks that can be alive at once
  Callers,   \* coroutines of service calls
  NoSeq,     \* _sequence_task is None
  Ops,       \* the calls the run explores
  Events,    \* what else may happen in the run, at most Budget times in all
  Budget,    \* bound on those events
  MaxCalls,  \* bound on service calls
  Trips,     \* bound on the robot's visits to its dock in mid-task
  Lag        \* whether status and position may be older than the robot

AllOps ==
  {"clean", "resume", "routine", "request_open", "request_close", "reset"}
AllEvents ==
  {"wander", "household", "user", "feedback", "permission", "cover_fails", "slow_door",
   "send_fails", "dropped", "late_pause", "stale_status", "no_position",
   "deadline", "unload"}

Procs == Seqs \cup Callers

ASSUME GarageAssumption ==
  /\ NoSeq \notin Seqs
  /\ Seqs \cap Callers = {}
  /\ Ops \subseteq AllOps
  /\ Events \subseteq AllEvents
  /\ Budget \in Nat /\ MaxCalls \in Nat /\ Trips \in Nat
  /\ Lag \in BOOLEAN

VARIABLES
  door,      \* the door, how it can be read, and the permission to close it
  rob,       \* the physical robot
  late,      \* a pause the robot has accepted but not yet carried out
  status,    \* garage_status_sample
  pos,       \* outside_danger_zone, when fresh and trusted
  ctl,       \* the controller: phase, task_in_progress, last_error is set
  run,       \* where each coroutine is suspended, and on whose behalf
  latest,    \* _sequence_task
  closed,    \* _closed
  calls, trips, budget,   \* what is left of the bounds
  seen       \* history: cleans after whose command the robot really worked

vars == <<door, rob, late, status, pos, ctl, run, latest, closed,
          calls, trips, budget, seen>>

Phases ==
  {"idle", "opening", "outside", "closing", "blocked", "pausing_exit",
   "closed_outside", "pausing_return", "resuming_return"}
\* lifting and dropping have begun to move with an endpoint contact still made.
Travel == {"closed", "lifting", "opening", "open", "dropping", "closing", "ajar"}
Acts == {"charging", "washing", "cleaning", "returning", "paused", "idle"}
Points ==
  {"idle", "openSend", "openWait", "closeSend", "closeWait", "sending", "sent", "confirm",
   "loop", "retPause", "retPaused", "retResume", "retResumed",
   "depPause", "depPaused", "depResume", "depResumed"}
Whys ==
  {"none", "clean", "resume", "routine", "request_open", "request_close",
   "return", "rule1", "departure", "final", "closed", "left_open"}

\* readable: cover and contacts answer; ours: the cover last moved under one of
\* our own contexts; permit: the household permits closing.
Door == [at : Travel, readable : BOOLEAN, ours : BOOLEAN, permit : BOOLEAN]
Robot == [at : {"dock", "zone", "out"}, act : Acts,
          was : {"cleaning", "returning"}, job : BOOLEAN]
Status == [name : Acts, job : BOOLEAN]
Control == [phase : Phases, tip : BOOLEAN, err : BOOLEAN]
Where == [at : Points, why : Whys]

-----------------------------------------------------------------------------
(* What the controller reads: door_observation and robot_observation. *)

StatusOf(r) == [name |-> r.act, job |-> r.job]
PosOf(r) == IF r.at = "out" THEN "out" ELSE "in"

OwnClose(phase, d) == phase = "closing" \/ (d.ours /\ phase = "pausing_return")

\* A cover that is closing without us is read as unavailable.
Available(phase, d) ==
  d.readable /\ (d.at \in {"dropping", "closing"} => OwnClose(phase, d))
Blocked(phase, d) == ~Available(phase, d)

OpenConfirmed(phase, d) == Available(phase, d) /\ d.at \in {"open", "dropping"}
ClosedConfirmed(phase, d) == Available(phase, d) /\ d.at \in {"closed", "lifting"}

Docked(st) == st.name = "charging"
\* A name the device does not report.
ReturningUnknown(st) == st.name = "docking"
Returning(st) == st.name = "returning"
TaskRunning(st) ==
  st.job \/ st.name \in {"cleaning", "washing", "paused", "returning"}
Working(st) == TaskRunning(st) /\ ~Docked(st)
RobotOutside(st) == pos = "out" /\ ~Docked(st)

-----------------------------------------------------------------------------
(* Synchronous stretches of the controller's code, as Step records.  Each  *)
(* takes the controller c it starts from and the status sample st it       *)
(* refreshes from.                                                         *)

To(c, at, why) == [ctl |-> c, at |-> at, why |-> why]
Rest(c) == To(c, "loop", "none")       \* sleep until the next check
End(c) == To(c, "idle", "none")        \* the coroutine returns or raises

\* An unloaded runtime goes on commanding.
ControlAllowedAlways == TRUE
\* async_control_command begins no command once the runtime is unloaded.
ControlAllowed == ~closed
\* It looks before the await in which the command travels to the robot, never after.
\* Refused, it raises control_unloaded, and the code goes on at otherwise.
Commanding(c, at, why, otherwise) ==
  IF ControlAllowed THEN To(c, at, why) ELSE otherwise
\* A command of a sequence that has been let through and is not yet delivered.
InFlight == {"retPause", "retResume", "depPause", "depResume"}

Fail(c) == [c EXCEPT !.phase = "blocked", !.err = TRUE]
Opened(c) == [c EXCEPT !.tip = TRUE, !.phase = "outside", !.err = FALSE]
Closed(c) == [c EXCEPT !.err = FALSE]
Released(c, phase) == [c EXCEPT !.tip = FALSE, !.phase = phase]

\* open_door without its confirmation.
OpenStartUnconfirmed(c) ==
  IF Blocked(c.phase, door) THEN [ctl |-> Fail(c), out |-> "raised"]
                            ELSE [ctl |-> Opened(c), out |-> "done"]

\* open_door up to its first await: raised, done or moving.
OpenStart(c) ==
  CASE Blocked(c.phase, door)       -> [ctl |-> Fail(c), out |-> "raised"]
    [] OpenConfirmed(c.phase, door) -> [ctl |-> Opened(c), out |-> "done"]
    [] OTHER -> [ctl |-> [c EXCEPT !.phase = "opening"], out |-> "moving"]

\* close_door up to its first await.
CloseStart(c) ==
  CASE Blocked(c.phase, door) -> [ctl |-> Fail(c), out |-> "raised"]
    [] ~Blocked(c.phase, door) /\ ~door.permit -> [ctl |-> c, out |-> "raised"]
    [] ~Blocked(c.phase, door) /\ door.permit /\ ClosedConfirmed(c.phase, door) ->
         [ctl |-> [c EXCEPT !.phase = "idle", !.err = FALSE], out |-> "done"]
    [] OTHER -> [ctl |-> [c EXCEPT !.phase = "closing"], out |-> "moving"]

\* What follows close_door in each of its callers.  A refused resume of a departure ends
\* the sequence.
AfterClose(why, o) ==
  CASE o.out = "moving" -> To(o.ctl, "closeSend", why)
    [] o.out # "moving" /\ why = "departure" ->
         IF o.out = "done"
         THEN Commanding(o.ctl, "depResume", "closed", End(o.ctl))
         ELSE Commanding(Fail(o.ctl), "depResume", "left_open", End(Fail(o.ctl)))
    [] o.out # "moving" /\ why = "final" ->
         IF o.out = "done" THEN End(Released(o.ctl, "idle"))
                           ELSE End(Released(Fail(o.ctl), "blocked"))
    [] OTHER -> End(o.ctl)

\* Rule 1 does nothing.
LetOutNever(c) == Rest(c)
\* Rule 1 of sequence_finished: the robot must be able to leave its dock again.
LetOut(c) ==
  CASE OpenConfirmed(c.phase, door) -> Rest(c)
    [] Blocked(c.phase, door) -> Rest([c EXCEPT !.phase = "blocked"])
    [] OTHER -> To([c EXCEPT !.phase = "opening"], "openSend", "rule1")

(***************************************************************************)
(* sequence_finished: the state table that advances a running clean.       *)
(***************************************************************************)
FinishRule(c, st) ==
  CASE ~c.tip -> Rest(c)
    [] c.tip /\ TaskRunning(st) ->
         IF Docked(st) THEN LetOut(c) ELSE Rest(c)
    [] c.tip /\ ~TaskRunning(st) /\ ~Docked(st) -> Rest(c)
    [] c.tip /\ ~TaskRunning(st) /\ Docked(st) ->
         IF ClosedConfirmed(c.phase, door) THEN End(Released(c, "idle"))
         ELSE IF Blocked(c.phase, door) THEN End(Released(c, "blocked"))
         ELSE AfterClose("final", CloseStart(c))

\* The robot is not resumed.
ReadmitWithoutResume(o, st) == FinishRule(o.ctl, st)
\* A command of update_returning in the given phase; its caller catches the refusal.
ReturnCommand(c, phase, at, st) ==
  LET d == [c EXCEPT !.phase = phase]
  IN Commanding(d, at, "return", FinishRule(d, st))
\* What follows open_door in update_returning.
Readmit(o, st) ==
  IF o.out = "done" THEN ReturnCommand(o.ctl, "resuming_return", "retResume", st)
                    ELSE FinishRule(o.ctl, st)

\* What follows open_door in each of its callers.
AfterOpen(why, o, st) ==
  CASE o.out = "moving" -> To(o.ctl, "openSend", why)
    [] o.out # "moving" /\ why \in {"clean", "resume", "routine"} ->
         IF o.out = "done" THEN To(o.ctl, "sending", why) ELSE End(o.ctl)
    [] o.out # "moving" /\ why = "return" -> Readmit(o, st)
    [] o.out # "moving" /\ why = "rule1" ->
         IF o.out = "done" THEN Rest(o.ctl) ELSE Rest(Fail(o.ctl))
    [] OTHER -> End(o.ctl)

\* One turn of the loop of _finish_sequence, up to its first await.
LoopBody(c, st) ==
  CASE Returning(st) ->
         IF OpenConfirmed(c.phase, door) THEN FinishRule(c, st)
         ELSE ReturnCommand(c, "pausing_return", "retPause", st)
    [] ~Returning(st) /\ RobotOutside(st) ->
         IF ClosedConfirmed(c.phase, door)
         THEN FinishRule([c EXCEPT !.phase = "closed_outside"], st)
         ELSE IF Blocked(c.phase, door)
         THEN FinishRule([c EXCEPT !.phase = "blocked"], st)
         ELSE LET d == [c EXCEPT !.phase = "pausing_exit"]
              IN Commanding(d, "depPause", "departure", End(d))
    [] OTHER -> FinishRule(c, st)

\* The state read after the pause is not looked at.
PauseReadUnchecked(why, c, st) ==
  IF why = "return"
  THEN AfterOpen("return", OpenStart([c EXCEPT !.phase = "opening"]), st)
  ELSE AfterClose("departure", CloseStart(c))

\* After the pause of update_returning or update_after_departure.
PauseRead(why, c, st) ==
  CASE st.name # "paused" -> FinishRule(Fail(c), st)
    [] st.name = "paused" /\ why = "return" ->
         AfterOpen("return", OpenStart([c EXCEPT !.phase = "opening"]), st)
    [] OTHER -> AfterClose("departure", CloseStart(c))

\* After the resume of update_returning or update_after_departure.
ResumeRead(why, c, st) ==
  FinishRule(CASE why = "return"    -> [c EXCEPT !.phase = "outside"]
               [] why = "closed"    -> Released(c, "closed_outside")
               [] why = "left_open" -> [c EXCEPT !.phase = "blocked"], st)

\* _sync_phase_with_door, run by the state listener on every door change.
SyncPhase(c, d) ==
  CASE c.tip -> c
    [] ~c.tip /\ ClosedConfirmed(c.phase, d) -> [c EXCEPT !.phase = "idle"]
    [] ~c.tip /\ OpenConfirmed(c.phase, d)   -> [c EXCEPT !.phase = "outside"]
    [] ~c.tip /\ Blocked(c.phase, d)         -> [c EXCEPT !.phase = "blocked"]
    [] OTHER -> c

-----------------------------------------------------------------------------
(* The world's side: what an order does to the door and to the robot. *)

Lift(x) ==
  CASE x = "closed" -> "lifting" [] x = "dropping" -> "open"
    [] x \in {"closing", "ajar"} -> "opening" [] OTHER -> x
Drop(x) ==
  CASE x = "open" -> "dropping" [] x = "lifting" -> "closed"
    [] x \in {"opening", "ajar"} -> "closing" [] OTHER -> x
Halt(x) == IF x \in {"closed", "open"} THEN x ELSE "ajar"
Onward(x) ==
  CASE x = "lifting" -> "opening" [] x = "opening" -> "open"
    [] x = "dropping" -> "closing" [] x = "closing" -> "closed" [] OTHER -> x

Moved(x, ours) ==
  IF x = door.at THEN door ELSE [door EXCEPT !.at = x, !.ours = ours]

Passable == door.at \in {"open", "dropping"}

Started(r) ==
  IF r.act = "washing" THEN r
  ELSE [r EXCEPT !.act = "cleaning", !.job = TRUE]
Paused(r) ==
  IF r.act \in {"cleaning", "returning"}
  THEN [r EXCEPT !.act = "paused", !.was = r.act] ELSE r
Resumed(r) ==
  CASE r.act = "paused" -> [r EXCEPT !.act = r.was]
    [] r.act = "charging" /\ r.job -> [r EXCEPT !.act = "cleaning"]
    [] OTHER -> r
Stopped(r) ==
  [r EXCEPT !.act = IF r.at = "dock" THEN "charging" ELSE "idle", !.job = FALSE]
SentHome(r) ==
  [r EXCEPT !.act = IF r.at = "dock" THEN "charging" ELSE "returning", !.job = FALSE]

-----------------------------------------------------------------------------
(* Frames. *)

Spend(e) == e \in Events /\ budget > 0 /\ budget' = budget - 1
Free == UNCHANGED budget

\* The robot becomes r; the samples follow at once unless they may lag.
RobotBecomes(r) ==
  /\ rob' = r
  /\ IF Lag THEN UNCHANGED <<status, pos>>
            ELSE status' = StatusOf(r) /\ pos' = IF r.at = rob.at THEN pos ELSE PosOf(r)

\* The controller after its state listener has seen the door become d.
Listened(c, d) == IF closed \/ d = door THEN c ELSE SyncPhase(c, d)

\* Process p has run to its next await: r says how it left the controller.
Reach(p, r) ==
  /\ ctl' = r.ctl
  /\ run' = [run EXCEPT ![p] = [at |-> r.at, why |-> r.why]]

\* Such a stretch of code commands nothing; status is left to the caller, which
\* may have waited for a new sample.
Continue(p, r) ==
  /\ Reach(p, r)
  /\ UNCHANGED <<door, rob, late, pos, latest, closed, calls, trips>>

At(p, points) == run[p].at \in points

-----------------------------------------------------------------------------
(* open_door and close_door after their first await, for any process. *)

\* The cover service carries out the order of move_door.
MoveDoor(p) ==
  /\ At(p, {"openSend", "closeSend"})
  /\ LET opening == run[p].at = "openSend"
         d == Moved(IF opening THEN Lift(door.at) ELSE Drop(door.at), TRUE)
     IN /\ door' = d
        /\ ctl' = Listened(ctl, d)
        /\ run' = [run EXCEPT ![p].at = IF opening THEN "openWait" ELSE "closeWait"]
  /\ Free
  /\ UNCHANGED <<rob, late, status, pos, latest, closed, calls, trips>>

\* The cover service raises.
MoveDoorFails(p) ==
  /\ At(p, {"openSend", "closeSend"})
  /\ Spend("cover_fails")
  /\ UNCHANGED status
  /\ LET o == [ctl |-> Fail(ctl), out |-> "raised"]
     IN Continue(p, IF run[p].at = "openSend" THEN AfterOpen(run[p].why, o, status)
                                              ELSE AfterClose(run[p].why, o))

\* _wait_for returns: the endpoint is confirmed.
Arrived(p) ==
  /\ Free
  /\ UNCHANGED status
  /\ \/ /\ At(p, {"openWait"}) /\ OpenConfirmed(ctl.phase, door)
        /\ Continue(p, AfterOpen(run[p].why, [ctl |-> Opened(ctl), out |-> "done"], status))
     \/ /\ At(p, {"closeWait"}) /\ ClosedConfirmed(ctl.phase, door)
        /\ Continue(p, AfterClose(run[p].why, [ctl |-> Closed(ctl), out |-> "done"]))

\* _wait_for raises.  operation_timeout_seconds exceeds a full travel, so a door
\* on its way arrives first unless it is slow.
TimedOut(p) ==
  /\ UNCHANGED status
  /\ LET o == [ctl |-> ctl, out |-> "raised"]
     IN \/ /\ At(p, {"openWait"}) /\ ~OpenConfirmed(ctl.phase, door)
           /\ \/ door.at \notin {"lifting", "opening"} /\ Free
              \/ door.at \in {"lifting", "opening"} /\ Spend("slow_door")
           /\ Continue(p, AfterOpen(run[p].why, o, status))
        \/ /\ At(p, {"closeWait"}) /\ ~ClosedConfirmed(ctl.phase, door)
           /\ \/ door.at \notin {"dropping", "closing"} /\ Free
              \/ door.at \in {"dropping", "closing"} /\ Spend("slow_door")
           /\ Continue(p, AfterClose(run[p].why, o))

-----------------------------------------------------------------------------
(* Service calls. *)

\* Bound on the sequences alive at once: a clean claims its slot in advance.
SlotFree ==
  Cardinality({s \in Seqs : At(s, {"idle"})})
    > Cardinality({c \in Callers : run[c].why \in {"clean", "resume"}})

\* async_send, async_routine, async_request_open, async_request_close, reset.
StartCall(c) ==
  /\ At(c, {"idle"})
  /\ calls > 0 /\ calls' = calls - 1
  /\ \E op \in Ops :
       /\ op \in {"clean", "resume"} => ~closed /\ SlotFree
       /\ op = "request_close" => ~(pos = "in" /\ ~Docked(status))
       /\ Reach(c,
            CASE op = "reset" ->
                   End([ctl EXCEPT !.phase =
                          IF ClosedConfirmed(ctl.phase, door) THEN "idle" ELSE "outside"])
              [] op = "request_close" -> AfterClose(op, CloseStart(ctl))
              [] OTHER -> AfterOpen(op, OpenStart(ctl), status))
  /\ Free
  /\ UNCHANGED <<door, rob, late, status, pos, latest, closed, trips>>

\* send() hands the command to the device, or is answered although the device
\* drops it.  A routine returns at once; a clean waits for a new status sample.
Send(c) ==
  /\ At(c, {"sending"})
  /\ \/ /\ RobotBecomes(IF run[c].why = "resume" THEN Resumed(rob) ELSE Started(rob))
        /\ Free
     \/ UNCHANGED <<rob, status, pos>> /\ Spend("dropped")
  /\ IF run[c].why = "routine" THEN Reach(c, End(ctl))
                               ELSE Reach(c, To(ctl, "sent", run[c].why))
  /\ UNCHANGED <<door, late, latest, closed, calls, trips>>

\* send() raises: no sequence starts and the door stays where it is.
SendFails(c) ==
  /\ At(c, {"sending"})
  /\ Spend("send_fails")
  /\ UNCHANGED status
  /\ Continue(c, End(ctl))

\* The refresh that follows a robot command: a new sample, or a failed poll.
Sampled ==
  \/ status' = StatusOf(rob) /\ Free
  \/ UNCHANGED status /\ Spend("stale_status")

\* The clean is followed home by a new sequence.
Accepted(c) ==
  /\ At(c, {"sent"})
  /\ Sampled
  /\ \E s \in Seqs :
       /\ At(s, {"idle"})
       /\ run' = [run EXCEPT ![c] = [at |-> "idle", why |-> "none"],
                             ![s] = [at |-> "confirm", why |-> "none"]]
       /\ latest' = s
  /\ UNCHANGED <<door, rob, late, pos, ctl, closed, calls, trips>>

-----------------------------------------------------------------------------
(* _finish_sequence. *)

\* _await_clean_started: the robot is seen working, or the runtime is gone.
ConfirmTick(s) ==
  /\ At(s, {"confirm"})
  /\ closed \/ Working(status)
  /\ Free
  /\ UNCHANGED status
  /\ Continue(s, IF closed THEN End(ctl) ELSE LoopBody(ctl, status))

\* 180 seconds pass.  A robot that took the command has left its dock by then,
\* and a sample of it has arrived.
NeverStarted == ~closed /\ ~Working(status) /\ status = StatusOf(rob)

\* The sequence goes on although nothing started.
ConfirmTimeoutProceeding(s) ==
  /\ At(s, {"confirm"})
  /\ NeverStarted
  /\ Free
  /\ UNCHANGED status
  /\ Continue(s, Rest(ctl))

ConfirmTimeout(s) ==
  /\ At(s, {"confirm"})
  /\ NeverStarted
  /\ Free
  /\ UNCHANGED status
  /\ Continue(s, End([ctl EXCEPT !.tip = FALSE]))

\* _closed is not looked at.
LoopTickUnclosed(s) ==
  /\ At(s, {"loop"})
  /\ Free
  /\ UNCHANGED status
  /\ Continue(s, LoopBody(ctl, status))

LoopTick(s) ==
  /\ At(s, {"loop"})
  /\ Free
  /\ UNCHANGED status
  /\ Continue(s, IF closed THEN End(ctl) ELSE LoopBody(ctl, status))

\* sequence_timeout_minutes are over: the door is left as it is.
Deadline(s) ==
  /\ At(s, {"loop"})
  /\ Spend("deadline")
  /\ UNCHANGED status
  /\ Continue(s, End(ctl))

\* The transport raises: this is no GarageControlError and ends the sequence.
CommandFails(s) ==
  /\ At(s, InFlight)
  /\ Spend("send_fails")
  /\ UNCHANGED status
  /\ Continue(s, End(ctl))

\* app_pause is answered; the robot stops now or a while later.  Like the resume, it was
\* let through before: an unload in the meantime does not take it back.
SendPause(s) ==
  /\ At(s, {"retPause", "depPause"})
  /\ run' = [run EXCEPT ![s].at = IF @ = "retPause" THEN "retPaused" ELSE "depPaused"]
  /\ \/ RobotBecomes(Paused(rob)) /\ Free /\ UNCHANGED late
     \/ late' = TRUE /\ Spend("late_pause") /\ UNCHANGED <<rob, status, pos>>
  /\ UNCHANGED <<door, ctl, latest, closed, calls, trips>>

AfterPause(s) ==
  /\ At(s, {"retPaused", "depPaused"})
  /\ Sampled
  /\ Continue(s, PauseRead(run[s].why, ctl, status'))

SendResume(s) ==
  /\ At(s, {"retResume", "depResume"})
  /\ run' = [run EXCEPT ![s].at = IF @ = "retResume" THEN "retResumed" ELSE "depResumed"]
  /\ \/ RobotBecomes(Resumed(rob)) /\ Free
     \/ Spend("dropped") /\ UNCHANGED <<rob, status, pos>>
  /\ UNCHANGED <<door, late, ctl, latest, closed, calls, trips>>

AfterResume(s) ==
  /\ At(s, {"retResumed", "depResumed"})
  /\ Sampled
  /\ Continue(s, ResumeRead(run[s].why, ctl, status'))

(***************************************************************************)
(* shutdown: the runtime is closed, its listeners are gone and the latest  *)
(* sequence is cancelled at its await.  A command in flight may still have *)
(* been delivered.  Other coroutines go on.                                *)
(***************************************************************************)
Unload(delivered) ==
  /\ ~closed /\ Spend("unload")
  /\ closed' = TRUE
  /\ latest' = NoSeq
  /\ LET at == IF latest = NoSeq THEN "idle" ELSE run[latest].at
     IN /\ run' = IF latest = NoSeq THEN run
                  ELSE [run EXCEPT ![latest] = [at |-> "idle", why |-> "none"]]
        /\ door' = CASE delivered /\ at = "openSend" -> Moved(Lift(door.at), TRUE)
                     [] delivered /\ at = "closeSend" -> Moved(Drop(door.at), TRUE)
                     [] OTHER -> door
        /\ RobotBecomes(
             CASE delivered /\ at \in {"retPause", "depPause"} -> Paused(rob)
               [] delivered /\ at \in {"retResume", "depResume"} -> Resumed(rob)
               [] OTHER -> rob)
  /\ UNCHANGED <<late, ctl, calls, trips>>

-----------------------------------------------------------------------------
(* The world. *)

\* The door changes by itself or by somebody's hand; the state listener runs.
DoorBecomes(d) ==
  /\ d # door
  /\ door' = d
  /\ ctl' = Listened(ctl, d)
  /\ UNCHANGED <<rob, late, status, pos, run, latest, closed, calls, trips>>

DoorTravels == DoorBecomes([door EXCEPT !.at = Onward(@)]) /\ Free

HouseholdMoves ==
  /\ Spend("household")
  /\ \E x \in {Lift(door.at), Drop(door.at), Halt(door.at)} : DoorBecomes(Moved(x, FALSE))

FeedbackLost == Spend("feedback") /\ DoorBecomes([door EXCEPT !.readable = FALSE])
FeedbackBack == Free /\ DoorBecomes([door EXCEPT !.readable = TRUE])
PermitOff == Spend("permission") /\ DoorBecomes([door EXCEPT !.permit = FALSE])
PermitOn == Free /\ DoorBecomes([door EXCEPT !.permit = TRUE])

\* A step of the robot by itself.
RobotStep(r) ==
  /\ r # rob
  /\ RobotBecomes(r)
  /\ UNCHANGED <<door, late, ctl, run, latest, closed, calls>>

DriveOut ==
  /\ rob.act = "cleaning"
  /\ \/ rob.at = "dock" /\ RobotStep([rob EXCEPT !.at = "zone"])
     \/ rob.at = "zone" /\ Passable /\ RobotStep([rob EXCEPT !.at = "out"])
  /\ Free /\ UNCHANGED trips

\* It cleans right next to its dock again.
Wander ==
  /\ rob.act = "cleaning" /\ rob.at = "out" /\ Passable
  /\ Spend("wander")
  /\ RobotStep([rob EXCEPT !.at = "zone"]) /\ UNCHANGED trips

\* The work is done, or the robot needs its dock in mid-task.
HeadHome ==
  /\ rob.act = "cleaning" /\ rob.at # "dock"
  /\ RobotStep([rob EXCEPT !.act = "returning", !.job = FALSE])
  /\ Free /\ UNCHANGED trips
TakeBreak ==
  /\ rob.act = "cleaning" /\ rob.at # "dock"
  /\ trips > 0 /\ trips' = trips - 1
  /\ RobotStep([rob EXCEPT !.act = "returning"]) /\ Free

DriveHome ==
  /\ rob.act = "returning"
  /\ \/ rob.at = "out" /\ Passable /\ RobotStep([rob EXCEPT !.at = "zone"])
     \/ rob.at = "zone"
        /\ \E act \in IF rob.job THEN {"charging", "washing"} ELSE {"charging"} :
             RobotStep([rob EXCEPT !.at = "dock", !.act = act])
  /\ Free /\ UNCHANGED trips

\* Recharged or washed, it goes on by itself; after a wash it may charge first.
GoesOn ==
  /\ rob.at = "dock" /\ rob.job
  /\ \/ rob.act \in {"charging", "washing"} /\ RobotStep([rob EXCEPT !.act = "cleaning"])
     \/ rob.act = "washing" /\ RobotStep([rob EXCEPT !.act = "charging"])
  /\ Free /\ UNCHANGED trips

LatePause ==
  /\ late /\ late' = FALSE
  /\ RobotBecomes(Paused(rob))
  /\ Free
  /\ UNCHANGED <<door, ctl, run, latest, closed, calls, trips>>

UserCommand ==
  /\ Spend("user")
  /\ \E r \in {Paused(rob), Resumed(rob), Stopped(rob), SentHome(rob)} : RobotStep(r)
  /\ UNCHANGED trips

\* The coordinator's polls, and the position ageing out or losing trust.
PollStatus ==
  /\ status # StatusOf(rob) /\ status' = StatusOf(rob)
  /\ Free
  /\ UNCHANGED <<door, rob, late, pos, ctl, run, latest, closed, calls, trips>>
PollPosition ==
  /\ pos # PosOf(rob) /\ pos' = PosOf(rob)
  /\ Free
  /\ UNCHANGED <<door, rob, late, status, ctl, run, latest, closed, calls, trips>>
NoPosition ==
  /\ pos # "unknown" /\ pos' = "unknown"
  /\ Spend("no_position")
  /\ UNCHANGED <<door, rob, late, status, ctl, run, latest, closed, calls, trips>>

-----------------------------------------------------------------------------

Init ==
  /\ door \in {d \in Door : d.at \in {"closed", "open"} /\ d.readable /\ ~d.ours /\ d.permit}
  /\ rob = [at |-> "dock", act |-> "charging", was |-> "cleaning", job |-> FALSE]
  /\ late = FALSE
  /\ status = StatusOf(rob)
  /\ pos = "in"
  /\ ctl = [phase |-> IF door.at = "closed" THEN "idle" ELSE "outside",
            tip |-> FALSE, err |-> FALSE]
  /\ run = [p \in Procs |-> [at |-> "idle", why |-> "none"]]
  /\ latest = NoSeq
  /\ closed = FALSE
  /\ calls = MaxCalls /\ trips = Trips /\ budget = Budget
  /\ seen = {}

\* What one process does next, unless somebody else's fault or deadline intervenes.
Proceed(p) ==
  \/ MoveDoor(p) \/ Arrived(p) \/ TimedOut(p)
  \/ p \in Callers /\ (Send(p) \/ Accepted(p))
  \/ p \in Seqs /\ (ConfirmTick(p) \/ ConfirmTimeout(p) \/ LoopTick(p)
                    \/ SendPause(p) \/ AfterPause(p) \/ SendResume(p) \/ AfterResume(p))

Disturbed(p) ==
  \/ MoveDoorFails(p)
  \/ p \in Callers /\ (StartCall(p) \/ SendFails(p))
  \/ p \in Seqs /\ (Deadline(p) \/ CommandFails(p))

RobotActs == DriveOut \/ HeadHome \/ DriveHome \/ GoesOn
World ==
  \/ DoorTravels \/ HouseholdMoves \/ FeedbackLost \/ FeedbackBack \/ PermitOff \/ PermitOn
  \/ RobotActs \/ Wander \/ TakeBreak \/ LatePause \/ UserCommand
  \/ PollStatus \/ PollPosition \/ NoPosition
  \/ \E delivered \in BOOLEAN : Unload(delivered)

\* A clean counts as seen once the robot really worked after its command was
\* sent: the caller learns it first and its sequence inherits it.
Witness ==
  LET following == {p \in Procs : run'[p].at = "sent" \/ (p \in Seqs /\ run'[p].at # "idle")}
      heirs == {s \in Seqs : /\ At(s, {"idle"})
                             /\ \E c \in Callers \cap seen : run'[c].at = "idle"}
  IN seen' = following \cap
               (seen \cup heirs \cup IF Working(StatusOf(rob')) THEN Procs ELSE {})

Next == (World \/ \E p \in Procs : Proceed(p) \/ Disturbed(p)) /\ Witness

Spec == Init /\ [][Next]_vars

\* A coroutine that can go on does, a door in motion arrives, feedback comes back
\* and the coordinator keeps polling.
CodeFairness ==
  /\ \A p \in Procs : WF_vars(Proceed(p) /\ Witness)
  /\ WF_vars(DoorTravels /\ Witness) /\ WF_vars(FeedbackBack /\ Witness)
  /\ WF_vars(PollStatus /\ Witness) /\ WF_vars(PollPosition /\ Witness)

\* The robot does not stand still between two commands either.
RobotFairness ==
  /\ WF_vars(DriveOut /\ Witness) /\ WF_vars(HeadHome /\ Witness)
  /\ WF_vars(DriveHome /\ Witness) /\ WF_vars(GoesOn /\ Witness)

PatientSpec == Spec /\ CodeFairness
FairSpec == PatientSpec /\ RobotFairness

-----------------------------------------------------------------------------
(* Properties. *)

\* Every variable has its type.
TypeOK ==
  /\ door \in Door /\ rob \in Robot /\ late \in BOOLEAN
  /\ status \in Status /\ pos \in {"in", "out", "unknown"}
  /\ ctl \in Control
  /\ run \in [Procs -> Where]
  /\ latest \in Seqs \cup {NoSeq} /\ closed \in BOOLEAN
  /\ calls \in 0..MaxCalls /\ trips \in 0..Trips /\ budget \in 0..Budget
  /\ seen \subseteq Procs

\* The robot is released, by a clean command or by the resume of a return, only
\* while the door is open and not on its way down (garage_door.py:198-200).
ReleaseNeedsOpenDoor ==
  \A p \in Procs : At(p, {"sending", "retResume"}) => door.at = "open"

\* From the order to close until the close is over the robot is held: paused
\* behind a departure, docked without a task at the end (garage_door.py:326-330).
RobotHeldWhileClosing ==
  \A s \in Seqs :
    At(s, {"closeSend", "closeWait"}) =>
      \/ run[s].why = "departure" /\ rob.act = "paused"
      \/ run[s].why = "final" /\ rob.act = "charging" /\ ~rob.job

\* A sequence orders the final close only if the robot has really been working
\* since that sequence began: an accepted command that never moved the robot
\* closes nothing (garage_runtime.py:418-427).
ClosesOnlyForSeenClean ==
  \A s \in Seqs :
    At(s, {"closeSend", "closeWait"}) /\ run[s].why = "final" => s \in seen

\* Once the runtime is unloaded no sequence begins a command to the robot, wherever the
\* unload found it: an older one, which is not cancelled, may finish the pause, the door
\* move or the wait it is in, and only a command already on its way still moves the
\* robot, once (garage_runtime.py:262-270, 317-322).
NoRobotCommandAfterUnload ==
  [][\A s \in Seqs :
       closed /\ run'[s] # run[s] =>
         /\ run'[s].at \notin InFlight
         /\ At(s, InFlight) \/ UNCHANGED rob]_vars

\* A clean that has begun ends with the robot on its dock, its task over and the
\* door closed (garage_runtime.py:411-417).
CleanComesHome ==
  \A s \in Seqs :
    At(s, {"loop"}) ~> (door.at = "closed" /\ rob.at = "dock" /\ ~rob.job)

\* A robot that was paused for the door goes on afterwards (garage_door.py:349-351).
PausedRobotIsReleased == rob.act = "paused" ~> rob.act # "paused"

\* While its clean runs, a robot recharging behind a closed door gets the door
\* reopened, whoever closed it (garage_door.py:389-393).
MidTaskDoorReopened ==
  \A s \in Seqs :
    (ctl.tip /\ At(s, {"loop"}) /\ rob.act = "charging" /\ rob.job /\ door.at = "closed")
      ~> (door.at = "open" \/ rob.act # "charging" \/ At(s, {"idle"}))

\* After an unload every sequence ends, the older ones included, although only
\* the latest is cancelled (garage_runtime.py:317-322).
UnloadEndsSequences == closed ~> \A s \in Seqs : At(s, {"idle"})

=============================================================================
