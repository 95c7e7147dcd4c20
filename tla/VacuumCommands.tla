---------------------------- MODULE VacuumCommands ----------------------------
(***************************************************************************)
(* What the service calls on a V1 vacuum send to the robot: the command a  *)
(* start or a resume stands for, chosen from the status sample and from    *)
(* last_resume_command; its way through the garage owner, which opens the  *)
(* door first; the refresh that follows; and the watch that reports a      *)
(* clean that never started.                                               *)
(*                                                                         *)
(* Time passes in ticks of WATCH_POLL_INTERVAL.  The calls are numbered in *)
(* the order in which they are made.  The robot may accept a command and   *)
(* do nothing, and its owner may use it without Home Assistant.  The data  *)
(* of a coordinator is never None once its entities exist.                 *)
(***************************************************************************)
EXTENDS Integers

CONSTANTS
  MaxCalls,   \* bound: service calls
  Requests,   \* what they ask for
  Bindings,   \* the garage bindings a robot may have
  Option,     \* clean_command_watch_timeout; the default if it cannot be used
  PollEvery,  \* ticks between status polls
  MaxTurns    \* bound: what robot, owner, door sequence and lost polls do

None == "none"
Calls == 1..MaxCalls
Cleans == {"app_start", "app_segment_clean", "app_zoned_clean", "app_spot", "app_goto_target"}
Resumes == {"app_resume", "app_resume_build_map"}

ASSUME CommandsAssumption ==
  /\ Requests \subseteq Cleans \cup Resumes \cup
       {"start", "resume", "goto", "app_pause", "app_stop", "app_charge", "routine", "stage"}
  /\ Bindings \subseteq {None, "plain", "exit"}
  /\ MaxCalls \in Nat /\ MaxTurns \in Nat /\ Option \in Int /\ PollEvery \in Nat \ {0}

VARIABLES
  binding,   \* none, a plain one, or one with a controlled exit
  robot,     \* its task and what it is doing
  sample,    \* the status trait
  fallback,  \* last_resume_command
  call,      \* where each call stands, and the command it sends
  watch,     \* the watch of each call
  due,       \* ticks until the next status poll
  turns,     \* what may still happen beside the calls
  old,       \* history: no status has been read since the command was sent
  acted,     \* history: the robot has been active since then
  known,     \* history: it was active when the status was read, and has been since
  true,      \* history: the pause calls that noted the task the robot still has
  held       \* history: the task a pause call holds

vars == <<binding, robot, sample, fallback, call, watch, due, turns, old, acted, known, true, held>>
hist == <<old, acted, known, true, held>>

-----------------------------------------------------------------------------
(* The status. *)

Robots ==
  [task : {None}, doing : {"docked", "idle", "returning", "paused"}]
    \cup [task : {"clean"}, doing : {"working", "paused", "returning", "docked"}]
    \cup [task : {"map", "spot", "goto"}, doing : {"working", "paused"}]

\* The names of the states that the two tables tell apart.
States == {"docked", "idle", "returning", "paused", "cleaning", "goto"}
TaskActiveStates == {"paused", "cleaning", "goto"}   \* _TASK_ACTIVE_STATE_NAMES
ResumeStates == {"cleaning", "returning"}            \* _ACTIVE_STATE_RESUME_COMMANDS

Flag(task) == CASE task = "clean" -> 1 [] task = "map" -> 4 [] OTHER -> 0

\* What the robot reports; one that is paused may have cleared its fields.
Reports(r) ==
  {[state |-> IF r.doing # "working" THEN r.doing ELSE IF r.task = "goto" THEN "goto" ELSE "cleaning",
    returning |-> r.doing = "returning", cleaning |-> flag] :
      flag \in {Flag(r.task)} \cup (IF r.doing = "paused" THEN {0} ELSE {})}

\* is_v1_task_active: of the fields alone, and as it is.
TaskActiveByFields(s) == s.cleaning # 0 \/ s.returning
TaskActive(s) == s.cleaning # 0 \/ s.returning \/ s.state \in TaskActiveStates

\* What counts as active, by what the robot is doing.
Active(r) == r.task # None \/ r.doing \in {"returning", "paused"}

-----------------------------------------------------------------------------
(* The choice of the command. *)

\* select_resume_command.
ResumeCommand(s, saved) ==
  CASE s.returning \/ s.cleaning \in 1..3 -> "app_resume"
    [] ~s.returning /\ s.cleaning = 4 -> "app_resume_build_map"
    [] ~s.returning /\ s.cleaning = 0 -> IF s.state = "paused" THEN saved ELSE None

Or(command, other) == IF command # None THEN command ELSE other

\* select_resume_command_from_status: no guess for a robot already paused.  (Of the
\* fields alone, and as it is.)
ResumeOfFields(s) == ResumeCommand([s EXCEPT !.state = "unknown"], None)
ResumeOfStatus(s) ==
  Or(ResumeOfFields(s), IF s.state \in ResumeStates THEN "app_resume" ELSE None)

\* select_resume_command_for_clean_command.
ResumeOfClean(command) ==
  IF command \in {"app_start", "app_segment_clean", "app_zoned_clean"} THEN "app_resume" ELSE None

\* The command a request sends; async_start prefers to resume.
Command(request) ==
  CASE request = "start" -> Or(ResumeCommand(sample, fallback), "app_start")
    [] request = "resume" -> ResumeCommand(sample, fallback)
    [] request = "goto" -> "app_goto_target"
    [] OTHER -> request

\* What async_pause notes of the status, and _async_guard_clean_command of a clean.
Noted(request, command) ==
  IF request = "app_pause" THEN ResumeOfStatus(sample) ELSE ResumeOfClean(command)

\* last_resume_command when the command is sent.  (A resume that forgets it too early,
\* and as it is.)
SavedForgetting(request, command) ==
  IF request = "resume" THEN None ELSE Or(Noted(request, command), fallback)
Saved(request, command) == Or(Noted(request, command), fallback)

-----------------------------------------------------------------------------
(* The robot. *)

Started == [app_start |-> "clean", app_segment_clean |-> "clean", app_zoned_clean |-> "clean",
            app_spot |-> "spot", app_goto_target |-> "goto"]

\* What each command does to it, if it does anything.
Obeyed(command, r) ==
  CASE command \in Cleans -> [task |-> Started[command], doing |-> "working"]
    [] command = (IF r.task = "map" THEN "app_resume_build_map" ELSE "app_resume") ->
         IF r.doing # "paused" THEN r
         ELSE [r EXCEPT !.doing = IF r.task = None THEN "returning" ELSE "working"]
    [] command = "app_pause" ->
         IF r.doing \in {"working", "returning"} THEN [r EXCEPT !.doing = "paused"] ELSE r
    [] command \in {"app_stop", "app_charge"} ->
         IF r.doing = "docked" THEN r
         ELSE [task |-> None, doing |-> IF command = "app_stop" THEN "idle" ELSE "returning"]
    [] OTHER -> r

Asks == [at |-> "idle", request |-> None, command |-> None]
Busy(c) == call[c].at \in {"opening", "sending", "driving", "refreshing"}

\* The robot turns to next while command c (0: none) reaches it.
Becomes(next, c) ==
  /\ robot' = next
  /\ known' = (known /\ Active(next))
  /\ acted' = [d \in Calls |-> IF d = c THEN Active(robot) \/ Active(next)
                               ELSE acted[d] \/ (watch[d].at = "on" /\ Active(next))
                                             \/ (call[d].at = "refreshing" /\ Active(next))]
Untold(next) == true' = IF next = robot THEN true ELSE {}

\* The status is read.
Read ==
  /\ sample' \in Reports(robot)
  /\ known' = Active(robot)
  /\ due' = PollEvery /\ old' = [d \in Calls |-> FALSE]
NotRead == due' = PollEvery /\ UNCHANGED <<sample, old, known>>

-----------------------------------------------------------------------------
(* The calls. *)

\* async_send opens the door for a new task and for a resume; routines and stages go
\* through the garage owner or not at all.
Opens(request, command) ==
  binding # None /\ (command \in Cleans \cup Resumes \/ request \in {"routine", "stage"})

Ended(c, at) == call' = [call EXCEPT ![c] = [Asks EXCEPT !.at = at]]
Moves(c, at) == call' = [call EXCEPT ![c].at = at]

\* A call up to its first await.  A clean that is asked for takes the place of a task
\* that is held.
Begin(c, request) ==
  LET command == Command(request)
  IN /\ call[c].at = "idle" /\ (c > 1 => call[c - 1].at # "idle")
     /\ command # None
     /\ request \in {"routine", "stage"} => binding # None
     /\ call' = [call EXCEPT ![c] =
          [at |-> IF Opens(request, command) THEN "opening" ELSE "sending",
           request |-> request, command |-> command]]
     /\ true' = IF command \in Cleans THEN {}
                ELSE true \cup {d \in {c} : /\ request = "app_pause" /\ sample \in Reports(robot)
                                          /\ \A e \in Calls : ~Busy(e)}
     /\ fallback' = Saved(request, command)
     /\ held' = IF command \in Cleans THEN None ELSE held
     /\ UNCHANGED <<binding, robot, sample, watch, due, turns, old, acted, known>>

\* Nothing to resume, or no garage owner: the call raises.
Refused(c, request) ==
  /\ call[c].at = "idle" /\ (c > 1 => call[c - 1].at # "idle")
  /\ Command(request) = None \/ (request \in {"routine", "stage"} /\ binding = None)
  /\ Ended(c, "failed")
  /\ UNCHANGED <<binding, robot, sample, fallback, watch, due, turns, hist>>

\* _should_controlled_exit.
Exits(c) ==
  /\ binding = "exit" /\ call[c].command \in Cleans \ {"app_goto_target"}
  /\ ~TaskActive(sample) /\ sample.state = "docked"

\* async_start_stage hands over a send that wants two arguments and is called with none.
StageRaises(c) == call[c].request = "stage" /\ ~Exits(c)

\* controller.open_door has confirmed the door open, or raises.
Opened(c) ==
  /\ call[c].at = "opening"
  /\ IF StageRaises(c) THEN Ended(c, "failed")
     ELSE Moves(c, IF Exits(c) THEN "driving" ELSE "sending")
  /\ UNCHANGED <<binding, robot, sample, fallback, watch, due, turns, hist>>

NotOpened(c) ==
  /\ call[c].at = "opening" /\ Ended(c, "failed")
  /\ UNCHANGED <<binding, robot, sample, fallback, watch, due, turns, hist>>

\* _run_controlled_exit sends the robot out and waits for a position that no
\* observation carries: it raises at its deadline.  Its refresh is left to the polls.
ExitFails(c) ==
  /\ call[c].at = "driving" /\ Ended(c, "failed")
  /\ \E next \in {robot, Obeyed("app_goto_target", robot)} : (Becomes(next, 0) /\ Untold(next))
  /\ held' = IF robot' = robot THEN held ELSE None
  /\ UNCHANGED <<binding, sample, fallback, watch, due, turns, old>>

\* What a pause call holds, if it noted the status of the very task and no other call
\* was under way; a resume that was accepted ends it.
NowHeld(c, next, answered) ==
  IF next # robot
  THEN IF c \in true /\ robot.task \in {"clean", "map", "spot"} /\ \A d \in Calls \ {c} : ~Busy(d)
       THEN robot.task ELSE None
  ELSE IF answered /\ call[c].command \in Resumes THEN None ELSE held

Window ==   \* resolve_clean_command_watch_timeout
  IF Option <= 0 THEN 0 ELSE IF Option < 10 THEN 10 ELSE IF Option > 600 THEN 600 ELSE Option
WindowTicks == (Window + 4) \div 5

Off == [at |-> "off", left |-> 0, look |-> FALSE]
Watched(c) ==
  watch' = IF Window = 0 THEN watch
           ELSE [watch EXCEPT ![c] = [at |-> "on", left |-> WindowTicks, look |-> TRUE]]

\* The command reaches the robot, or is lost, and so is its answer.  A routine runs on
\* the server; nothing is refreshed after it.
Sent(c, answered) ==
  /\ call[c].at = "sending"
  /\ \E next \in {robot, IF call[c].request # "routine" THEN Obeyed(call[c].command, robot)
                         ELSE Obeyed("app_segment_clean", robot)} :
       /\ Becomes(next, c) /\ Untold(next) /\ held' = NowHeld(c, next, answered)
       /\ IF ~answered THEN Ended(c, "failed") /\ UNCHANGED watch
          ELSE IF call[c].request = "routine" THEN Ended(c, "over") /\ Watched(c)
          ELSE Moves(c, "refreshing") /\ UNCHANGED watch
  /\ old' = [old EXCEPT ![c] = answered]
  /\ UNCHANGED <<binding, sample, fallback, due, turns>>

\* coordinator.async_refresh reads the status or fails without raising; then
\* async_resume_task forgets the command it used, and a clean is watched, except the
\* one of async_set_vacuum_goto_position.
Refreshed(c, ok) ==
  /\ call[c].at = "refreshing"
  /\ IF ok THEN Read ELSE NotRead
  /\ Ended(c, "over")
  /\ fallback' = IF call[c].request = "resume" THEN None ELSE fallback
  /\ held' = IF call[c].request = "resume" THEN None ELSE held
  /\ true' = IF call[c].request = "resume" THEN {} ELSE true
  /\ IF call[c].command \in Cleans /\ call[c].request # "goto" THEN Watched(c) ELSE UNCHANGED watch
  /\ acted' = [acted EXCEPT ![c] = @ /\ watch'[c].at = "on"]
  /\ UNCHANGED <<binding, robot, turns>>

-----------------------------------------------------------------------------
(* The watch. *)

\* async_watch_until_task_starts: the deadline told from the look, and as it is.
VerdictSeen(s, left) == IF TaskActive(s) \/ left = 0 THEN "silent" ELSE "on"
Verdict(s, left) == IF TaskActive(s) THEN "silent" ELSE IF left = 0 THEN "alarm" ELSE "on"

\* What is left after a look, the deadline set anew or as it is.
LeftRenewed(left) == WindowTicks
Left(left) == left

Look(c) ==
  /\ watch[c].at = "on" /\ watch[c].look
  /\ LET verdict == Verdict(sample, watch[c].left)
     IN watch' = [watch EXCEPT ![c] =
          IF verdict = "on" THEN [at |-> "on", left |-> Left(@.left), look |-> FALSE]
          ELSE [Off EXCEPT !.at = verdict]]
  /\ old' = [old EXCEPT ![c] = @ /\ watch'[c].at = "on"]
  /\ acted' = [acted EXCEPT ![c] = @ /\ watch'[c].at = "on"]
  /\ UNCHANGED <<binding, robot, sample, fallback, call, due, turns, known, true, held>>

-----------------------------------------------------------------------------
(* Beside the calls. *)

Turn == turns > 0 /\ turns' = turns - 1

\* The robot goes on, is done, or is used from its app.
RobotTurns(next) ==
  /\ Turn /\ next # robot /\ next.task \in {robot.task, None, "clean"} /\ Becomes(next, 0) /\ true' = {} /\ held' = None
  /\ UNCHANGED <<binding, sample, fallback, call, watch, due, old>>

\* async_control_command of a door sequence, with its refresh left to the polls: it
\* notes app_resume whatever the task is.
SequenceControls(command) ==
  /\ Turn /\ binding # None /\ \E d \in Calls : call[d].at = "over"
  /\ fallback' = "app_resume"
  /\ Becomes(Obeyed(command, robot), 0) /\ true' = {} /\ held' = None
  /\ UNCHANGED <<binding, sample, call, watch, due, old>>

Poll ==
  /\ due = 0 /\ Read
  /\ UNCHANGED <<binding, robot, fallback, call, watch, turns, acted, true, held>>

\* A poll that fails costs one of the turns.
PollFails ==
  /\ due = 0 /\ Turn /\ NotRead
  /\ UNCHANGED <<binding, robot, fallback, call, watch, acted, true, held>>

Tick ==
  /\ due > 0 /\ \A c \in Calls : ~watch[c].look
  /\ due' = due - 1
  /\ watch' = [c \in Calls |-> IF watch[c].at # "on" THEN watch[c]
                               ELSE [at |-> "on", left |-> watch[c].left - 1, look |-> TRUE]]
  /\ UNCHANGED <<binding, robot, sample, fallback, call, turns, hist>>

-----------------------------------------------------------------------------

Init ==
  /\ binding \in Bindings
  /\ robot \in [task : {None}, doing : {"docked"}] \cup [task : {"clean", "map"}, doing : {"working"}]
  /\ sample \in Reports(robot)
  /\ fallback = None
  /\ call = [c \in Calls |-> Asks] /\ watch = [c \in Calls |-> Off]
  /\ due = PollEvery /\ turns = MaxTurns
  /\ old = [c \in Calls |-> FALSE] /\ acted = [c \in Calls |-> FALSE]
  /\ known = Active(robot) /\ true = {} /\ held = None

Calling ==
  \E c \in Calls :
    \/ \E request \in Requests : Begin(c, request) \/ Refused(c, request)
    \/ Opened(c) \/ NotOpened(c) \/ ExitFails(c)
    \/ \E answered \in BOOLEAN : Sent(c, answered)
    \/ \E ok \in BOOLEAN : Refreshed(c, ok)

Beside ==
  \/ \E next \in Robots : RobotTurns(next)
  \/ \E command \in {"app_pause", "app_resume"} : SequenceControls(command)
  \/ PollFails

Clock == Tick \/ Poll \/ \E c \in Calls : Look(c)

Next == Calling \/ Beside \/ Clock

\* Timers fire and looks are taken.
Spec == Init /\ [][Next]_vars /\ WF_vars(Clock)

-----------------------------------------------------------------------------
(* Properties. *)

\* Every variable has its type.
TypeOK ==
  /\ binding \in Bindings /\ robot \in Robots /\ true \subseteq Calls /\ held \in {None, "clean", "map", "spot"}
  /\ sample \in [state : States, returning : BOOLEAN, cleaning : {0, 1, 4}]
  /\ fallback \in Resumes \cup {None}
  /\ \A c \in Calls :
       /\ call[c].at \in {"idle", "opening", "driving", "sending", "refreshing", "over", "failed"}
       /\ call[c].request \in Requests \cup {None}
       /\ watch[c] \in [at : {"off", "on", "silent", "alarm"}, left : 0..WindowTicks, look : BOOLEAN]
  /\ due \in 0..PollEvery /\ turns \in 0..MaxTurns
  /\ old \in [Calls -> BOOLEAN] /\ acted \in [Calls -> BOOLEAN] /\ known \in BOOLEAN

\* A task that a pause call stopped, on a status that was true, can be resumed with the
\* command its kind needs, whatever of its fields the robot has cleared and however
\* often a resume has failed (resume_logic.py:30-63, vacuum.py:336-361).
PausedTaskCanBeResumed ==
  (held # None /\ sample \in Reports(robot))
    => ResumeCommand(sample, fallback) = IF held = "map" THEN "app_resume_build_map" ELSE "app_resume"

Ends(c, verdict) == watch[c].at = "on" /\ watch'[c].at = verdict

\* A clean is only reported as not started if the robot was not active when its status
\* was last read, or has not been since (clean_command_watch.py:87-97).
AlarmIsTrue ==
  [][\A c \in Calls : Ends(c, "alarm") => ~known]_vars

\* A watch is only silent about a command after which the robot was active, unless no
\* status could be read since the command was sent (clean_command_watch.py:72-97).
SilenceIsTrue ==
  [][\A c \in Calls : Ends(c, "silent") => old[c] \/ acted[c]]_vars

\* A clean that was accepted and never starts is reported, in time to be noticed
\* (clean_command_watch.py:1-12).
LostCleanIsReported ==
  \A c \in Calls :
    []((watch[c].at = "on" /\ ~old[c] /\ ~acted[c] /\ [](~Active(robot))) => <>(watch[c].at = "alarm"))
=============================================================================
