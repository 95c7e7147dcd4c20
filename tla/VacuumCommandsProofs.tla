------------------------ MODULE VacuumCommandsProofs ------------------------
(***************************************************************************)
(* Proofs about the commands of a vacuum, for any number of calls, any     *)
(* requests, any watch timeout and any polling interval.                   *)
(***************************************************************************)
EXTENDS VacuumCommands, TLAPS

-----------------------------------------------------------------------------
(* What the proofs rest on.                                                *)
(*                                                                         *)
(* The watch.  A robot that was active at the last look at its status      *)
(* shows an active status, and one that is active while a command of its   *)
(* is refreshed or watched has been since.  So a status read in that time  *)
(* shows an active robot only if it has been active.                       *)
(*                                                                         *)
(* The pause.  As long as the robot has not moved since a pause noted it,  *)
(* every status read is one of its reports, so whatever later pauses note  *)
(* is the command its task needs.  Once the robot is held nothing but a    *)
(* resume, a clean or the robot itself changes that.                       *)

Sendable == Cleans \cup Resumes \cup {"app_pause", "app_stop", "app_charge", "routine", "stage", None}
Samples == [state : States, returning : BOOLEAN, cleaning : {0, 1, 4}]
CallSet == [at : {"idle", "opening", "driving", "sending", "refreshing", "over", "failed"},
            request : Requests \cup {None}, command : Sendable]
WatchSet == [at : {"off", "on", "silent", "alarm"}, left : 0..WindowTicks, look : BOOLEAN]
Resumable == {"clean", "map", "spot"}

\* The command a task is resumed with.
ResumeOf(task) == IF task = "map" THEN "app_resume_build_map" ELSE "app_resume"

CommandTypes ==
  /\ binding \in Bindings /\ robot \in Robots /\ sample \in Samples
  /\ fallback \in Resumes \cup {None}
  /\ call \in [Calls -> CallSet] /\ watch \in [Calls -> WatchSet]
  /\ due \in 0..PollEvery /\ turns \in 0..MaxTurns
  /\ old \in [Calls -> BOOLEAN] /\ acted \in [Calls -> BOOLEAN] /\ known \in BOOLEAN
  /\ true \subseteq Calls /\ held \in {None} \cup Resumable

\* A watch looks before the next tick, and belongs to a call that is over.
WatchRuns ==
  \A c \in Calls :
    /\ watch[c].look => watch[c].at = "on"
    /\ watch[c].at = "on" /\ ~watch[c].look => watch[c].left > 0
    /\ watch[c].at # "off" => call[c].at = "over"

\* A call whose effect is still looked for.
LookedFor(c) == call[c].at = "refreshing" \/ watch[c].at = "on"

ActivityIsSeen ==
  /\ known => TaskActive(sample)
  /\ \A c \in Calls : LookedFor(c) =>
       /\ Active(robot) => acted[c]
       /\ TaskActive(sample) => old[c] \/ acted[c]

\* What the pauses noted of a robot that has not moved since.
NotesAreTrue ==
  /\ \A c \in true :
       /\ call[c].at # "idle"
       /\ call[c].at \in {"opening", "sending"} => call[c].request = "app_pause" /\ call[c].command = "app_pause"
  /\ true # {} => sample \in Reports(robot)
  /\ true # {} /\ robot.doing \in {"working", "returning"} /\ robot.task \in Resumable
       => fallback = ResumeOf(robot.task)

HeldIsNoted ==
  held # None =>
    /\ robot.task = held /\ robot.doing = "paused"
    /\ fallback = ResumeOf(held)
    /\ ResumeOfStatus(sample) \in {None, ResumeOf(held)}

CommandsInv == CommandTypes /\ WatchRuns /\ ActivityIsSeen /\ NotesAreTrue /\ HeldIsNoted

-----------------------------------------------------------------------------
(* The operators. *)

LEMMA WindowIsTicks == ASSUME Option \in Int PROVE WindowTicks \in Nat
<1>1. Window \in Nat
  BY DEF Window
<1> QED
  BY <1>1 DEF WindowTicks

LEMMA RobotFields ==
  ASSUME NEW r \in Robots
  PROVE  /\ r.task \in {None, "clean", "map", "spot", "goto"}
         /\ r.doing \in {"docked", "idle", "returning", "paused", "working"}
         /\ r = [task |-> r.task, doing |-> r.doing]
         /\ r.task \in {"map", "spot", "goto"} => r.doing \in {"working", "paused"}
         /\ r.task = None => r.doing # "working"
         /\ r.task = "clean" => r.doing # "idle"
BY DEF Robots, None

\* What a robot reports shows whether it is active.
LEMMA ReportShows ==
  ASSUME NEW r \in Robots, NEW s \in Reports(r)
  PROVE  /\ s \in Samples
         /\ s.state = IF r.doing # "working" THEN r.doing
                      ELSE IF r.task = "goto" THEN "goto" ELSE "cleaning"
         /\ s.returning = (r.doing = "returning")
         /\ s.cleaning = Flag(r.task) \/ (r.doing = "paused" /\ s.cleaning = 0)
         /\ TaskActive(s) <=> Active(r)
<1>1. PICK flag \in {Flag(r.task)} \cup (IF r.doing = "paused" THEN {0} ELSE {}) :
        s = [state |-> IF r.doing # "working" THEN r.doing ELSE IF r.task = "goto" THEN "goto" ELSE "cleaning",
             returning |-> r.doing = "returning", cleaning |-> flag]
  BY DEF Reports
<1>2. Flag(r.task) = IF r.task = "clean" THEN 1 ELSE IF r.task = "map" THEN 4 ELSE 0
  BY RobotFields DEF Flag
<1>3. flag \in {0, 1, 4} /\ (flag = Flag(r.task) \/ (r.doing = "paused" /\ flag = 0))
  BY <1>1, <1>2
<1>4. /\ s.state = IF r.doing # "working" THEN r.doing
                   ELSE IF r.task = "goto" THEN "goto" ELSE "cleaning"
      /\ s.returning = (r.doing = "returning") /\ s.cleaning = flag
  BY <1>1
<1>5. s \in Samples
  BY <1>1, <1>3, RobotFields DEF Samples, States
<1>6. TaskActive(s) <=> Active(r)
  <2>1. /\ r.task \in {"none", "clean", "map", "spot", "goto"}
        /\ r.doing \in {"docked", "idle", "returning", "paused", "working"}
        /\ r.task = "none" => r.doing # "working"
        /\ r.task = "clean" => r.doing # "idle"
        /\ r.task \in {"map", "spot", "goto"} => r.doing \in {"working", "paused"}
    BY RobotFields DEF None
  <2>2. TaskActive(s) <=> (flag # 0 \/ r.doing = "returning" \/ s.state \in {"paused", "cleaning", "goto"})
    BY <1>4 DEF TaskActive, TaskActiveStates
  <2>3. CASE r.task = "none"
    BY <1>2, <1>3, <1>4, <2>1, <2>2, <2>3 DEF Active, None
  <2>4. CASE r.task # "none"
    BY <1>2, <1>3, <1>4, <2>1, <2>2, <2>4 DEF Active, None
  <2> QED
    BY <2>3, <2>4
<1> QED
  BY <1>3, <1>4, <1>5, <1>6

LEMMA NotedOfStatus ==
  ASSUME NEW s \in Samples
  PROVE  ResumeOfStatus(s) =
           IF s.returning \/ s.cleaning = 1 THEN "app_resume"
           ELSE IF s.cleaning = 4 THEN "app_resume_build_map"
           ELSE IF s.state \in ResumeStates THEN "app_resume" ELSE None
<1> DEFINE u == [s EXCEPT !.state = "unknown"]
<1>1. s.returning \in BOOLEAN /\ s.cleaning \in {0, 1, 4}
  BY DEF Samples
<1>2. u.state = "unknown" /\ u.returning = s.returning /\ u.cleaning = s.cleaning
  BY DEF Samples
<1> HIDE DEF u
<1>3. ResumeCommand(u, None) =
        IF s.returning \/ s.cleaning = 1 THEN "app_resume"
        ELSE IF s.cleaning = 4 THEN "app_resume_build_map" ELSE None
  BY <1>1, <1>2 DEF ResumeCommand, None
<1>4. ResumeOfFields(s) = ResumeCommand(u, None)
  BY DEF ResumeOfFields, u
<1> QED
  BY <1>3, <1>4 DEF ResumeOfStatus, Or, None

\* A pause that sees a report of the robot notes the command that its task needs, or
\* nothing of a robot paused already.
LEMMA NotedIsTrue ==
  ASSUME NEW r \in Robots, NEW s \in Reports(r), r.task \in Resumable
  PROVE  /\ r.doing \in {"working", "returning"} => ResumeOfStatus(s) = ResumeOf(r.task)
         /\ r.doing = "paused" => ResumeOfStatus(s) \in {None, ResumeOf(r.task)}
<1>1. Flag(r.task) = IF r.task = "clean" THEN 1 ELSE IF r.task = "map" THEN 4 ELSE 0
  BY DEF Flag, Resumable
<1>2. r.task = "map" => r.doing # "returning"
  BY RobotFields
<1>3. /\ s \in Samples
      /\ s.state = IF r.doing # "working" THEN r.doing
                   ELSE IF r.task = "goto" THEN "goto" ELSE "cleaning"
      /\ s.returning = (r.doing = "returning")
      /\ s.cleaning = Flag(r.task) \/ (r.doing = "paused" /\ s.cleaning = 0)
  BY ReportShows
<1>4. ResumeOfStatus(s) =
        IF s.returning \/ s.cleaning = 1 THEN "app_resume"
        ELSE IF s.cleaning = 4 THEN "app_resume_build_map"
        ELSE IF s.state \in ResumeStates THEN "app_resume" ELSE None
  BY <1>3, NotedOfStatus
<1>5. CASE r.doing = "working"
  <2>1. s.returning = FALSE /\ s.cleaning = Flag(r.task) /\ s.state = "cleaning"
    BY <1>3, <1>5 DEF Resumable
  <2>2. ResumeOfStatus(s) = IF s.cleaning = 4 THEN "app_resume_build_map" ELSE "app_resume"
    BY <1>1, <1>4, <2>1 DEF ResumeStates
  <2> QED
    BY <1>1, <1>5, <2>1, <2>2 DEF ResumeOf, Resumable
<1>6. CASE r.doing = "returning"
  BY <1>2, <1>3, <1>4, <1>6 DEF ResumeOf
<1>7. CASE r.doing = "paused"
  <2>1. s.returning = FALSE /\ s.cleaning \in {0, Flag(r.task)} /\ s.state = "paused"
    BY <1>3, <1>7
  <2> QED
    BY <1>1, <1>4, <1>7, <2>1 DEF ResumeOf, Resumable, ResumeStates, None
<1> QED
  BY <1>5, <1>6, <1>7

\* A paused robot is resumed with what was saved, or with what its fields say.
LEMMA ResumeIsRight ==
  ASSUME NEW r \in Robots, NEW s \in Reports(r), r.task \in Resumable, r.doing = "paused"
  PROVE  ResumeCommand(s, ResumeOf(r.task)) = ResumeOf(r.task)
<1>1. Flag(r.task) = IF r.task = "clean" THEN 1 ELSE IF r.task = "map" THEN 4 ELSE 0
  BY DEF Flag, Resumable
<1>2. s.state = "paused" /\ s.returning = FALSE /\ s.cleaning \in {0, Flag(r.task)}
  BY ReportShows
<1> QED
  BY <1>1, <1>2 DEF ResumeCommand, ResumeOf, Resumable

LEMMA ResumeTypes ==
  ASSUME NEW s \in Samples, NEW saved \in Resumes \cup {None}
  PROVE  ResumeCommand(s, saved) \in Resumes \cup {None}
<1>1. s.returning \in BOOLEAN /\ s.cleaning \in {0, 1, 4}
  BY DEF Samples
<1> QED
  BY <1>1 DEF ResumeCommand, Resumes

\* What reaches a robot leaves it a robot, and a pause leaves it its task.
LEMMA ObeyedIsRobot ==
  ASSUME NEW command, NEW r \in Robots PROVE Obeyed(command, r) \in Robots
<1>1. CASE command \in Cleans
  BY <1>1 DEF Obeyed, Cleans, Started, Robots
<1>2. CASE command \notin Cleans
  <2>1. command \in {"app_pause", "app_stop", "app_charge", "app_resume", "app_resume_build_map"}
          => command \notin Cleans
    BY DEF Cleans
  <2>2. \A d \in {"returning", "working", "paused"} : [r EXCEPT !.doing = d] = [task |-> r.task, doing |-> d]
    BY RobotFields
  <2>3. r.doing = "paused" => [task |-> r.task, doing |-> IF r.task = None THEN "returning" ELSE "working"] \in Robots
    BY RobotFields DEF Robots, None
  <2>4. r.doing \in {"working", "returning"} => [task |-> r.task, doing |-> "paused"] \in Robots
    BY RobotFields DEF Robots, None
  <2>5. \A d \in {"idle", "returning"} : [task |-> None, doing |-> d] \in Robots
    BY DEF Robots
  <2> QED
    BY <1>2, <2>1, <2>2, <2>3, <2>4, <2>5 DEF Obeyed
<1> QED
  BY <1>1, <1>2

LEMMA PauseObeyed ==
  ASSUME NEW r \in Robots, Obeyed("app_pause", r) # r
  PROVE  /\ r.doing \in {"working", "returning"}
         /\ Obeyed("app_pause", r).task = r.task /\ Obeyed("app_pause", r).doing = "paused"
<1>1. "app_pause" \notin Cleans
  BY DEF Cleans
<1>2. Obeyed("app_pause", r) = IF r.doing \in {"working", "returning"} THEN [r EXCEPT !.doing = "paused"] ELSE r
  BY <1>1 DEF Obeyed
<1>3. r.doing \in {"working", "returning"}
  BY <1>2
<1>4. [r EXCEPT !.doing = "paused"].task = r.task /\ [r EXCEPT !.doing = "paused"].doing = "paused"
  BY RobotFields
<1> QED
  BY <1>2, <1>3, <1>4

-----------------------------------------------------------------------------
(* What keeps each part of the invariant. *)

LEMMA CommandsBegin == ASSUME CommandsAssumption PROVE Init => CommandsInv
<1> SUFFICES ASSUME Init PROVE CommandsInv
  OBVIOUS
<1>1. robot \in Robots /\ robot.doing \in {"docked", "working"}
  BY DEF Init, Robots, None
<1>2. sample \in Samples /\ (TaskActive(sample) <=> Active(robot))
  BY <1>1, ReportShows DEF Init
<1>3. CommandTypes
  <2>1. WindowTicks \in Nat
    BY WindowIsTicks DEF CommandsAssumption
  <2>2. Asks \in CallSet /\ Off \in WatchSet
    BY <2>1 DEF Asks, CallSet, Off, WatchSet, Sendable
  <2>3. due \in 0..PollEvery /\ turns \in 0..MaxTurns
    BY DEF CommandsAssumption, Init
  <2>4. known \in BOOLEAN
    BY DEF Init, Active
  <2> QED
    BY <1>1, <1>2, <2>2, <2>3, <2>4 DEF CommandTypes, Init
<1>4. \A c \in Calls : call[c].at = "idle" /\ watch[c].at = "off" /\ ~watch[c].look
  BY DEF Init, Asks, Off
<1>5. WatchRuns
  BY <1>4 DEF WatchRuns
<1>6. ActivityIsSeen
  BY <1>2, <1>4 DEF ActivityIsSeen, LookedFor, Init
<1>7. NotesAreTrue /\ HeldIsNoted
  BY DEF NotesAreTrue, HeldIsNoted, Init
<1> QED
  BY <1>3, <1>5, <1>6, <1>7 DEF CommandsInv

LEMMA CallEnds ==
  ASSUME CommandTypes, NEW c \in Calls, NEW at \in {"over", "failed"}, Ended(c, at)
  PROVE  /\ call' \in [Calls -> CallSet] /\ call'[c].at = at
         /\ \A d \in Calls \ {c} : call'[d] = call[d]
<1>1. [Asks EXCEPT !.at = at] \in CallSet /\ [Asks EXCEPT !.at = at].at = at
  BY DEF Asks, CallSet, Sendable
<1> QED
  BY <1>1 DEF CommandTypes, Ended

LEMMA CallMoves ==
  ASSUME CommandTypes, NEW c \in Calls, NEW at \in {"driving", "sending", "refreshing"}, Moves(c, at)
  PROVE  /\ call' \in [Calls -> CallSet] /\ call'[c].at = at
         /\ call'[c].request = call[c].request /\ call'[c].command = call[c].command
         /\ \A d \in Calls \ {c} : call'[d] = call[d]
<1>1. call[c] \in CallSet
  BY DEF CommandTypes
<1>2. /\ [call[c] EXCEPT !.at = at] \in CallSet /\ [call[c] EXCEPT !.at = at].at = at
      /\ [call[c] EXCEPT !.at = at].request = call[c].request
      /\ [call[c] EXCEPT !.at = at].command = call[c].command
  BY <1>1 DEF CallSet
<1> QED
  BY <1>2 DEF CommandTypes, Moves

LEMMA WatchKeeps ==
  ASSUME WatchRuns, UNCHANGED watch, \A d \in Calls : call[d].at = "over" => call'[d].at = "over"
  PROVE  WatchRuns'
BY DEF WatchRuns

\* No status is read.
LEMMA SeenUnread ==
  ASSUME ActivityIsSeen, UNCHANGED sample, known' => known,
         \A d \in Calls : LookedFor(d)' =>
           /\ LookedFor(d) /\ (Active(robot') => acted'[d])
           /\ old[d] \/ acted[d] => old'[d] \/ acted'[d]
  PROVE  ActivityIsSeen'
BY DEF ActivityIsSeen

\* A status is read.
LEMMA SeenRead ==
  ASSUME CommandTypes, ActivityIsSeen, UNCHANGED robot, sample' \in Reports(robot), known' = Active(robot),
         \A d \in Calls : LookedFor(d)' => LookedFor(d) /\ (acted[d] => acted'[d])
  PROVE  ActivityIsSeen'
<1>1. TaskActive(sample') <=> Active(robot)
  BY ReportShows DEF CommandTypes
<1> QED
  BY <1>1 DEF ActivityIsSeen

\* The notes stay true while the robot does not move and what is saved does not change.
CallGoesOn(d) ==
  \/ call'[d] = call[d]
  \/ call'[d].at \in {"driving", "refreshing", "over", "failed"}
  \/ /\ call[d].at = "opening" /\ call'[d].at = "sending"
     /\ call'[d].request = call[d].request /\ call'[d].command = call[d].command

StillThere ==
  /\ UNCHANGED <<robot, fallback>>
  /\ sample' = sample \/ sample' \in Reports(robot)

LEMMA NotesKeep ==
  ASSUME CommandTypes, NotesAreTrue,
         true' = {} \/ (UNCHANGED true /\ StillThere /\ \A d \in Calls : CallGoesOn(d))
  PROVE  NotesAreTrue'
<1>1. CASE true' = {}
  BY <1>1 DEF NotesAreTrue
<1>2. CASE UNCHANGED true /\ StillThere /\ \A d \in Calls : CallGoesOn(d)
  <2>1. ASSUME NEW c \in true'
        PROVE  /\ call'[c].at # "idle"
               /\ call'[c].at \in {"opening", "sending"} =>
                    call'[c].request = "app_pause" /\ call'[c].command = "app_pause"
    <3>1. c \in true /\ c \in Calls /\ CallGoesOn(c)
      BY <1>2, <2>1 DEF CommandTypes
    <3> QED
      BY <3>1 DEF NotesAreTrue, CallGoesOn
  <2>2. true' # {} => sample' \in Reports(robot')
    BY <1>2 DEF NotesAreTrue, StillThere
  <2>3. true' # {} /\ robot'.doing \in {"working", "returning"} /\ robot'.task \in Resumable
          => fallback' = ResumeOf(robot'.task)
    BY <1>2 DEF NotesAreTrue, StillThere
  <2> QED
    BY <2>1, <2>2, <2>3 DEF NotesAreTrue
<1> QED
  BY <1>1, <1>2

LEMMA HeldKeeps ==
  ASSUME CommandTypes, HeldIsNoted, held' = None \/ (UNCHANGED held /\ StillThere)
  PROVE  HeldIsNoted'
<1>1. CASE held' = None
  BY <1>1 DEF HeldIsNoted
<1>2. CASE held' # None /\ UNCHANGED held /\ StillThere
  <2>1. held \in Resumable /\ robot.task = held /\ robot.doing = "paused" /\ robot \in Robots
        /\ fallback = ResumeOf(held)
    BY <1>2 DEF CommandTypes, HeldIsNoted
  <2>2. sample' \in Reports(robot) => ResumeOfStatus(sample') \in {None, ResumeOf(held)}
    BY <2>1, NotedIsTrue
  <2>3. ResumeOfStatus(sample') \in {None, ResumeOf(held)}
    BY <1>2, <2>2 DEF HeldIsNoted, StillThere
  <2> QED
    BY <1>2, <2>1, <2>3 DEF HeldIsNoted, StillThere
<1> QED
  BY <1>1, <1>2

-----------------------------------------------------------------------------
(* The calls. *)

LEMMA CommandTypesOf ==
  ASSUME CommandsAssumption, CommandTypes, NEW request \in Requests
  PROVE  /\ Command(request) \in Sendable
         /\ request = "app_pause" => Command(request) = "app_pause"
         /\ Noted(request, Command(request)) \in Resumes \cup {None}
         /\ Command(request) \notin Cleans /\ request # "app_pause" => Noted(request, Command(request)) = None
         /\ request = "app_pause" => Noted(request, Command(request)) = ResumeOfStatus(sample)
<1>1. request \in Cleans \cup Resumes \cup
        {"start", "resume", "goto", "app_pause", "app_stop", "app_charge", "routine", "stage"}
  BY DEF CommandsAssumption
<1>2. ResumeCommand(sample, fallback) \in Resumes \cup {None}
  BY ResumeTypes DEF CommandTypes
<1>3. Command(request) \in Sendable
  BY <1>1, <1>2 DEF Command, Or, Sendable, Cleans
<1>4. request = "app_pause" => Command(request) = "app_pause"
  BY DEF Command
<1>5. ResumeOfStatus(sample) \in Resumes \cup {None}
  BY NotedOfStatus DEF CommandTypes, Resumes
<1>6. \A command : /\ ResumeOfClean(command) \in Resumes \cup {None}
                   /\ command \notin Cleans => ResumeOfClean(command) = None
  BY DEF ResumeOfClean, Cleans, Resumes
<1> QED
  BY <1>3, <1>4, <1>5, <1>6 DEF Noted

LEMMA BeginKeeps ==
  ASSUME CommandsAssumption, CommandsInv, NEW c \in Calls, NEW request \in Requests, Begin(c, request)
  PROVE  CommandsInv'
<1> DEFINE command == Command(request)
           step == [at |-> IF Opens(request, command) THEN "opening" ELSE "sending",
                    request |-> request, command |-> command]
           begun == {d \in {c} : /\ request = "app_pause" /\ sample \in Reports(robot)
                                 /\ \A e \in Calls : ~Busy(e)}
<1>1. /\ call[c].at = "idle" /\ call' = [call EXCEPT ![c] = step]
      /\ true' = IF command \in Cleans THEN {} ELSE true \cup begun
      /\ fallback' = Or(Noted(request, command), fallback)
      /\ held' = IF command \in Cleans THEN None ELSE held
      /\ UNCHANGED <<binding, robot, sample, watch, due, turns, old, acted, known>>
  BY DEF Begin, Saved
<1>2. /\ command \in Sendable
      /\ request = "app_pause" => command = "app_pause"
      /\ Noted(request, command) \in Resumes \cup {None}
      /\ command \notin Cleans /\ request # "app_pause" => Noted(request, command) = None
      /\ request = "app_pause" => Noted(request, command) = ResumeOfStatus(sample)
  BY CommandTypesOf DEF CommandsInv
<1>3. /\ step \in CallSet /\ step.at \in {"opening", "sending"}
      /\ step.request = request /\ step.command = command
  BY <1>2 DEF CallSet
<1>4. begun \subseteq {c} /\ (begun # {} => request = "app_pause" /\ sample \in Reports(robot))
  OBVIOUS
<1> HIDE DEF step, command, begun
<1>5. /\ CommandTypes /\ WatchRuns /\ ActivityIsSeen /\ NotesAreTrue /\ HeldIsNoted
      /\ call \in [Calls -> CallSet] /\ robot \in Robots
  BY DEF CommandsInv, CommandTypes
<1>6. call' \in [Calls -> CallSet] /\ call'[c] = step /\ \A d \in Calls \ {c} : call'[d] = call[d]
  BY <1>1, <1>3, <1>5
<1>7. CommandTypes'
  BY <1>1, <1>2, <1>4, <1>5, <1>6 DEF CommandTypes, Or
<1>8. WatchRuns'
  BY <1>1, <1>5, <1>6, WatchKeeps
<1>9. ActivityIsSeen'
  <2>1. \A d \in Calls : LookedFor(d)' => LookedFor(d)
    BY <1>1, <1>3, <1>6 DEF LookedFor
  <2> QED
    BY <1>1, <1>5, <2>1 DEF ActivityIsSeen
<1>10. NotesAreTrue'
  <2>1. CASE true' = {}
    BY <2>1 DEF NotesAreTrue
  <2>2. CASE command \notin Cleans /\ true' # {}
    <3>1. true' = true \cup begun
      BY <1>1, <2>2
    <3>2. c \notin true
      BY <1>1, <1>5 DEF NotesAreTrue
    <3>3. ASSUME NEW d \in true'
          PROVE  /\ call'[d].at # "idle"
                 /\ call'[d].at \in {"opening", "sending"} =>
                      call'[d].request = "app_pause" /\ call'[d].command = "app_pause"
      <4>1. CASE d \in begun
        BY <1>2, <1>3, <1>4, <1>6, <4>1
      <4>2. CASE d \in true
        <5>1. d \in Calls /\ d # c
          BY <1>5, <3>2, <4>2 DEF CommandTypes
        <5> QED
          BY <1>5, <1>6, <4>2, <5>1 DEF NotesAreTrue
      <4> QED
        BY <3>1, <3>3, <4>1, <4>2
    <3>4. sample \in Reports(robot)
      BY <1>4, <1>5, <2>2, <3>1 DEF NotesAreTrue
    <3>5. ASSUME robot.doing \in {"working", "returning"}, robot.task \in Resumable
          PROVE  fallback' = ResumeOf(robot.task)
      <4>1. ResumeOfStatus(sample) = ResumeOf(robot.task)
        BY <1>5, <3>4, <3>5, NotedIsTrue
      <4>2. ResumeOf(robot.task) # None
        BY DEF ResumeOf, None
      <4>3. CASE request = "app_pause"
        BY <1>1, <1>2, <4>1, <4>2, <4>3 DEF Or
      <4>4. CASE request # "app_pause"
        <5>1. Noted(request, command) = None /\ true # {}
          BY <1>2, <1>4, <2>2, <3>1, <4>4
        <5> QED
          BY <1>1, <1>5, <3>5, <5>1 DEF Or, NotesAreTrue
      <4> QED
        BY <4>3, <4>4
    <3> QED
      BY <1>1, <3>3, <3>4, <3>5 DEF NotesAreTrue
  <2> QED
    BY <1>1, <2>1, <2>2
<1>11. HeldIsNoted'
  <2>1. CASE held' = None
    BY <2>1 DEF HeldIsNoted
  <2>2. CASE held' # None
    <3>1. command \notin Cleans /\ held' = held /\ held # None
      BY <1>1, <2>2
    <3>2. /\ robot.task = held /\ robot.doing = "paused" /\ fallback = ResumeOf(held)
          /\ ResumeOfStatus(sample) \in {None, ResumeOf(held)}
      BY <1>5, <3>1 DEF HeldIsNoted
    <3>3. fallback' = ResumeOf(held)
      BY <1>1, <1>2, <3>1, <3>2 DEF Or
    <3> QED
      BY <1>1, <3>1, <3>2, <3>3 DEF HeldIsNoted
  <2> QED
    BY <2>1, <2>2
<1> QED
  BY <1>7, <1>8, <1>9, <1>10, <1>11 DEF CommandsInv

\* A call that raises or waits changes nothing but where it stands.
LEMMA CallStands ==
  ASSUME CommandsInv, NEW c \in Calls, call[c].at # "over",
         \/ \E at \in {"over", "failed"} : Ended(c, at)
         \/ \E at \in {"driving", "sending"} : Moves(c, at) /\ call[c].at = "opening",
         UNCHANGED <<binding, robot, sample, fallback, watch, due, turns, hist>>
  PROVE  CommandsInv'
<1>1. CommandTypes /\ WatchRuns /\ ActivityIsSeen /\ NotesAreTrue /\ HeldIsNoted
  BY DEF CommandsInv
<1>2. /\ call' \in [Calls -> CallSet] /\ \A d \in Calls \ {c} : call'[d] = call[d]
      /\ \/ call'[c].at \in {"over", "failed", "driving"}
         \/ /\ call[c].at = "opening" /\ call'[c].at = "sending"
            /\ call'[c].request = call[c].request /\ call'[c].command = call[c].command
  <2>1. CASE \E at \in {"over", "failed"} : Ended(c, at)
    BY <1>1, <2>1, CallEnds
  <2>2. CASE \E at \in {"driving", "sending"} : Moves(c, at) /\ call[c].at = "opening"
    <3>1. PICK at \in {"driving", "sending"} : Moves(c, at) /\ call[c].at = "opening"
      BY <2>2
    <3>2. /\ call' \in [Calls -> CallSet] /\ call'[c].at = at
          /\ call'[c].request = call[c].request /\ call'[c].command = call[c].command
          /\ \A d \in Calls \ {c} : call'[d] = call[d]
      BY <1>1, <3>1, CallMoves
    <3> QED
      BY <3>1, <3>2
  <2> QED
    BY <2>1, <2>2
<1>3. \A d \in Calls : CallGoesOn(d) /\ (LookedFor(d)' => LookedFor(d)) /\ (call[d].at = "over" => call'[d].at = "over")
  BY <1>2 DEF CallGoesOn, LookedFor
<1>4. CommandTypes'
  BY <1>1, <1>2 DEF CommandTypes, hist
<1>5. WatchRuns'
  BY <1>1, <1>3, WatchKeeps
<1>6. ActivityIsSeen'
  BY <1>1, <1>3 DEF ActivityIsSeen, hist
<1>7. NotesAreTrue' /\ HeldIsNoted'
  BY <1>1, <1>3, NotesKeep, HeldKeeps DEF StillThere, hist
<1> QED
  BY <1>4, <1>5, <1>6, <1>7 DEF CommandsInv

-----------------------------------------------------------------------------
(* The robot. *)

\* The robot moves beside the calls.
LEMMA RobotMoves ==
  ASSUME CommandTypes, ActivityIsSeen, NEW next \in Robots, Becomes(next, 0),
         UNCHANGED <<sample, watch, old>>,
         \A d \in Calls : call'[d].at = "refreshing" => call[d].at = "refreshing"
  PROVE  /\ ActivityIsSeen' /\ robot' = next
         /\ acted' \in [Calls -> BOOLEAN] /\ known' \in BOOLEAN
<1>1. robot' = next /\ known' = (known /\ Active(next))
  BY DEF Becomes
<1>2. \A d \in Calls :
        acted'[d] = (acted[d] \/ (watch[d].at = "on" /\ Active(next))
                              \/ (call[d].at = "refreshing" /\ Active(next)))
  <2>1. \A d \in Calls : d # 0
    BY DEF Calls
  <2> QED
    BY <2>1 DEF Becomes
<1>3. acted' \in [Calls -> BOOLEAN]
  <2>1. acted \in [Calls -> BOOLEAN] /\ Active(next) \in BOOLEAN /\ Active(robot) \in BOOLEAN
    BY DEF CommandTypes, Active
  <2> QED
    BY <2>1 DEF Becomes
<1>4. known' \in BOOLEAN
  BY <1>1 DEF CommandTypes, Active
<1>5. ActivityIsSeen'
  <2>1. \A d \in Calls : LookedFor(d)' => LookedFor(d)
    BY DEF LookedFor
  <2>2. \A d \in Calls : LookedFor(d) => (Active(next) => acted'[d]) /\ (acted[d] => acted'[d])
    BY <1>2 DEF LookedFor
  <2> QED
    BY <1>1, <2>1, <2>2, SeenUnread
<1> QED
  BY <1>1, <1>3, <1>4, <1>5

LEMMA ExitKeeps == ASSUME CommandsInv, NEW c \in Calls, ExitFails(c) PROVE CommandsInv'
<1>1. CommandTypes /\ WatchRuns /\ ActivityIsSeen /\ NotesAreTrue /\ HeldIsNoted
  BY DEF CommandsInv
<1>2. PICK next \in {robot, Obeyed("app_goto_target", robot)} : Becomes(next, 0) /\ Untold(next)
  BY DEF ExitFails
<1>3. next \in Robots
  BY <1>1, <1>2, ObeyedIsRobot DEF CommandTypes
<1>4. call' \in [Calls -> CallSet] /\ call'[c].at = "failed" /\ \A d \in Calls \ {c} : call'[d] = call[d]
  BY <1>1, CallEnds DEF ExitFails
<1>5. \A d \in Calls : /\ CallGoesOn(d) /\ (call'[d].at = "refreshing" => call[d].at = "refreshing")
                       /\ (call[d].at = "over" => call'[d].at = "over")
  BY <1>4 DEF CallGoesOn, ExitFails
<1>6. ActivityIsSeen' /\ robot' = next /\ acted' \in [Calls -> BOOLEAN] /\ known' \in BOOLEAN
  BY <1>1, <1>2, <1>3, <1>5, RobotMoves DEF ExitFails
<1>7. CommandTypes'
  BY <1>1, <1>2, <1>3, <1>4, <1>6 DEF CommandTypes, ExitFails, Untold
<1>8. WatchRuns'
  BY <1>1, <1>5, WatchKeeps DEF ExitFails
<1>9. NotesAreTrue'
  BY <1>1, <1>2, <1>5, <1>6, NotesKeep DEF ExitFails, Untold, StillThere
<1>10. HeldIsNoted'
  BY <1>1, <1>6, HeldKeeps DEF ExitFails, StillThere
<1> QED
  BY <1>6, <1>7, <1>8, <1>9, <1>10 DEF CommandsInv

LEMMA TurnKeeps ==
  ASSUME CommandsAssumption, CommandsInv, NEW next \in Robots, Becomes(next, 0), Turn,
         fallback' \in Resumes \cup {None}, true' = {}, held' = None,
         UNCHANGED <<binding, sample, call, watch, due, old>>
  PROVE  CommandsInv'
<1>1. CommandTypes /\ WatchRuns /\ ActivityIsSeen
  BY DEF CommandsInv
<1>2. ActivityIsSeen' /\ robot' = next /\ acted' \in [Calls -> BOOLEAN] /\ known' \in BOOLEAN
  BY <1>1, RobotMoves
<1>3. turns' \in 0..MaxTurns
  BY <1>1 DEF CommandTypes, Turn, CommandsAssumption
<1>4. CommandTypes'
  BY <1>1, <1>2, <1>3 DEF CommandTypes
<1>5. WatchRuns'
  BY <1>1 DEF WatchRuns
<1>6. NotesAreTrue' /\ HeldIsNoted'
  BY DEF NotesAreTrue, HeldIsNoted
<1> QED
  BY <1>2, <1>4, <1>5, <1>6 DEF CommandsInv

LEMMA WatchIsSet ==
  ASSUME CommandsAssumption, CommandTypes, NEW c \in Calls, Watched(c)
  PROVE  /\ watch' \in [Calls -> WatchSet]
         /\ \A d \in Calls \ {c} : watch'[d] = watch[d]
         /\ watch'[c] = watch[c] \/ (watch'[c].at = "on" /\ watch'[c].look)
<1>1. WindowTicks \in Nat
  BY WindowIsTicks DEF CommandsAssumption
<1>2. [at |-> "on", left |-> WindowTicks, look |-> TRUE] \in WatchSet
  BY <1>1 DEF WatchSet
<1> QED
  BY <1>2 DEF Watched, CommandTypes

LEMMA SentKeeps ==
  ASSUME CommandsAssumption, CommandsInv, NEW c \in Calls, NEW answered \in BOOLEAN, Sent(c, answered)
  PROVE  CommandsInv'
<1>1. CommandTypes /\ WatchRuns /\ ActivityIsSeen /\ NotesAreTrue /\ HeldIsNoted
  BY DEF CommandsInv
<1>2. PICK next \in {robot, IF call[c].request # "routine" THEN Obeyed(call[c].command, robot)
                            ELSE Obeyed("app_segment_clean", robot)} :
        /\ Becomes(next, c) /\ Untold(next) /\ held' = NowHeld(c, next, answered)
        /\ IF ~answered THEN Ended(c, "failed") /\ UNCHANGED watch
           ELSE IF call[c].request = "routine" THEN Ended(c, "over") /\ Watched(c)
           ELSE Moves(c, "refreshing") /\ UNCHANGED watch
  BY DEF Sent
<1>3. /\ call[c].at = "sending" /\ old' = [old EXCEPT ![c] = answered]
      /\ UNCHANGED <<binding, sample, fallback, due, turns>>
  BY DEF Sent
<1>4. next \in Robots
  BY <1>1, <1>2, ObeyedIsRobot DEF CommandTypes
<1>5. /\ call' \in [Calls -> CallSet] /\ \A d \in Calls \ {c} : call'[d] = call[d]
      /\ call'[c].at \in {"failed", "over", "refreshing"}
      /\ call'[c].at = "refreshing" => answered /\ UNCHANGED watch
  BY <1>1, <1>2, CallEnds, CallMoves
<1>6. /\ watch' \in [Calls -> WatchSet] /\ \A d \in Calls \ {c} : watch'[d] = watch[d]
      /\ \/ watch'[c] = watch[c]
         \/ watch'[c].at = "on" /\ watch'[c].look /\ answered /\ call'[c].at = "over"
  <2>1. CASE answered /\ call[c].request = "routine"
    BY <1>1, <1>2, <2>1, CallEnds, WatchIsSet
  <2>2. CASE ~(answered /\ call[c].request = "routine")
    BY <1>1, <1>2, <2>2 DEF CommandTypes
  <2> QED
    BY <2>1, <2>2
<1>7. /\ robot' = next /\ known' = (known /\ Active(next))
      /\ acted'[c] = (Active(robot) \/ Active(next))
      /\ \A d \in Calls \ {c} : acted'[d] = (acted[d] \/ (watch[d].at = "on" /\ Active(next))
                                                    \/ (call[d].at = "refreshing" /\ Active(next)))
  BY <1>2 DEF Becomes
<1>8. acted' \in [Calls -> BOOLEAN] /\ known' \in BOOLEAN
  <2>1. acted \in [Calls -> BOOLEAN] /\ Active(next) \in BOOLEAN /\ Active(robot) \in BOOLEAN
    BY <1>1 DEF CommandTypes, Active
  <2> QED
    BY <1>1, <1>2, <1>7, <2>1 DEF Becomes, CommandTypes
<1>9. old' \in [Calls -> BOOLEAN] /\ old'[c] = answered /\ \A d \in Calls \ {c} : old'[d] = old[d]
  BY <1>1, <1>3 DEF CommandTypes
<1>10. watch[c].at = "off" /\ ~watch[c].look
  BY <1>1, <1>3 DEF WatchRuns
<1>11. true' = (IF next = robot THEN true ELSE {}) /\ held' = NowHeld(c, next, answered)
  BY <1>2 DEF Untold
<1>12. CommandTypes'
  <2>1. held' \in {None} \cup Resumable
    BY <1>1, <1>11 DEF NowHeld, CommandTypes, Resumable
  <2> QED
    BY <1>1, <1>3, <1>4, <1>5, <1>6, <1>7, <1>8, <1>9, <1>11, <2>1 DEF CommandTypes
<1>13. WatchRuns'
  <2> SUFFICES ASSUME NEW d \in Calls
               PROVE  /\ watch'[d].look => watch'[d].at = "on"
                      /\ watch'[d].at = "on" /\ ~watch'[d].look => watch'[d].left > 0
                      /\ watch'[d].at # "off" => call'[d].at = "over"
    BY DEF WatchRuns
  <2>1. CASE d = c
    BY <1>6, <1>10, <2>1
  <2>2. CASE d # c
    BY <1>1, <1>5, <1>6, <2>2 DEF WatchRuns
  <2> QED
    BY <2>1, <2>2
<1>14. ActivityIsSeen'
  <2>1. known' => TaskActive(sample')
    BY <1>1, <1>3, <1>7 DEF ActivityIsSeen
  <2>2. ASSUME NEW d \in Calls, LookedFor(d)'
        PROVE  (Active(robot') => acted'[d]) /\ (TaskActive(sample') => old'[d] \/ acted'[d])
    <3>1. CASE d = c
      BY <1>5, <1>6, <1>7, <1>9, <1>10, <2>2, <3>1 DEF LookedFor
    <3>2. CASE d # c
      <4>1. LookedFor(d)
        BY <1>5, <1>6, <2>2, <3>2 DEF LookedFor
      <4>2. TaskActive(sample') => old[d] \/ acted[d]
        BY <1>1, <1>3, <4>1 DEF ActivityIsSeen
      <4> QED
        BY <1>7, <1>9, <3>2, <4>1, <4>2 DEF LookedFor
    <3> QED
      BY <3>1, <3>2
  <2> QED
    BY <2>1, <2>2 DEF ActivityIsSeen
<1>15. NotesAreTrue'
  <2>1. \A d \in Calls : CallGoesOn(d)
    BY <1>5 DEF CallGoesOn
  <2> QED
    BY <1>1, <1>3, <1>7, <1>11, <2>1, NotesKeep DEF StillThere
<1>16. HeldIsNoted'
  <2>1. CASE held' = None \/ next = robot
    BY <1>1, <1>3, <1>7, <1>11, <2>1, HeldKeeps DEF NowHeld, StillThere
  <2>2. CASE held' # None /\ next # robot
    <3>1. c \in true /\ robot.task \in Resumable /\ held' = robot.task
      BY <1>11, <2>2 DEF NowHeld, Resumable
    <3>2. next = Obeyed("app_pause", robot)
      <4>1. call[c].request = "app_pause" /\ call[c].command = "app_pause"
        BY <1>1, <1>3, <3>1 DEF NotesAreTrue
      <4> QED
        BY <1>2, <2>2, <4>1
    <3>3. /\ robot.doing \in {"working", "returning"} /\ robot'.task = robot.task /\ robot'.doing = "paused"
      BY <1>1, <1>7, <2>2, <3>2, PauseObeyed DEF CommandTypes
    <3>4. fallback = ResumeOf(robot.task) /\ sample \in Reports(robot)
      BY <1>1, <3>1, <3>3 DEF NotesAreTrue
    <3>5. ResumeOfStatus(sample) = ResumeOf(robot.task)
      BY <1>1, <3>1, <3>3, <3>4, NotedIsTrue DEF CommandTypes
    <3> QED
      BY <1>3, <3>1, <3>3, <3>4, <3>5 DEF HeldIsNoted
  <2> QED
    BY <2>1, <2>2
<1> QED
  BY <1>12, <1>13, <1>14, <1>15, <1>16 DEF CommandsInv

-----------------------------------------------------------------------------
(* The status and the watch. *)

LEMMA PollDue == ASSUME CommandsAssumption PROVE PollEvery \in 0..PollEvery
BY DEF CommandsAssumption

LEMMA RefreshedKeeps ==
  ASSUME CommandsAssumption, CommandsInv, NEW c \in Calls, NEW ok \in BOOLEAN, Refreshed(c, ok)
  PROVE  CommandsInv'
<1>1. CommandTypes /\ WatchRuns /\ ActivityIsSeen /\ NotesAreTrue /\ HeldIsNoted
  BY DEF CommandsInv
<1>2. /\ call[c].at = "refreshing" /\ Ended(c, "over")
      /\ fallback' = IF call[c].request = "resume" THEN None ELSE fallback
      /\ held' = IF call[c].request = "resume" THEN None ELSE held
      /\ true' = IF call[c].request = "resume" THEN {} ELSE true
      /\ Watched(c) \/ UNCHANGED watch
      /\ acted' = [acted EXCEPT ![c] = @ /\ watch'[c].at = "on"]
      /\ UNCHANGED <<binding, robot, turns>>
  BY DEF Refreshed
<1>3. call' \in [Calls -> CallSet] /\ call'[c].at = "over" /\ \A d \in Calls \ {c} : call'[d] = call[d]
  BY <1>1, <1>2, CallEnds
<1>4. /\ watch' \in [Calls -> WatchSet] /\ \A d \in Calls \ {c} : watch'[d] = watch[d]
      /\ watch'[c] = watch[c] \/ (watch'[c].at = "on" /\ watch'[c].look)
  <2>1. CASE Watched(c)
    BY <1>1, <2>1, WatchIsSet
  <2>2. CASE UNCHANGED watch
    BY <1>1, <2>2 DEF CommandTypes
  <2> QED
    BY <1>2, <2>1, <2>2
<1>5. watch[c].at = "off" /\ ~watch[c].look
  BY <1>1, <1>2 DEF WatchRuns
<1>6. /\ acted' \in [Calls -> BOOLEAN] /\ acted'[c] = (acted[c] /\ watch'[c].at = "on")
      /\ \A d \in Calls \ {c} : acted'[d] = acted[d]
  BY <1>1, <1>2 DEF CommandTypes
<1>7. \A d \in Calls : /\ CallGoesOn(d)
                       /\ LookedFor(d)' => LookedFor(d) /\ (acted[d] => acted'[d])
  <2> SUFFICES ASSUME NEW d \in Calls
               PROVE  CallGoesOn(d) /\ (LookedFor(d)' => LookedFor(d) /\ (acted[d] => acted'[d]))
    OBVIOUS
  <2>1. CASE d = c
    BY <1>2, <1>3, <1>6, <2>1 DEF CallGoesOn, LookedFor
  <2>2. CASE d # c
    BY <1>3, <1>4, <1>6, <2>2 DEF CallGoesOn, LookedFor
  <2> QED
    BY <2>1, <2>2
<1>8. \/ /\ sample' \in Reports(robot) /\ known' = Active(robot) /\ old' = [d \in Calls |-> FALSE]
      \/ UNCHANGED <<sample, old, known>>
  BY DEF Refreshed, Read, NotRead
<1>9. CommandTypes'
  <2>1. due' = PollEvery /\ PollEvery \in 0..PollEvery
    BY PollDue DEF Refreshed, Read, NotRead
  <2>2. sample' \in Samples /\ known' \in BOOLEAN /\ old' \in [Calls -> BOOLEAN]
    <3>1. sample' \in Reports(robot) => sample' \in Samples
      BY <1>1, ReportShows DEF CommandTypes
    <3> QED
      BY <1>1, <1>8, <3>1 DEF CommandTypes, Active
  <2> QED
    BY <1>1, <1>2, <1>3, <1>4, <1>6, <2>1, <2>2 DEF CommandTypes
<1>10. WatchRuns'
  <2> SUFFICES ASSUME NEW d \in Calls
               PROVE  /\ watch'[d].look => watch'[d].at = "on"
                      /\ watch'[d].at = "on" /\ ~watch'[d].look => watch'[d].left > 0
                      /\ watch'[d].at # "off" => call'[d].at = "over"
    BY DEF WatchRuns
  <2>1. CASE d = c
    BY <1>3, <1>4, <1>5, <2>1
  <2>2. CASE d # c
    BY <1>1, <1>3, <1>4, <2>2 DEF WatchRuns
  <2> QED
    BY <2>1, <2>2
<1>11. ActivityIsSeen'
  <2>1. CASE sample' \in Reports(robot) /\ known' = Active(robot)
    BY <1>1, <1>2, <1>7, <2>1, SeenRead
  <2>2. CASE UNCHANGED <<sample, old, known>>
    BY <1>1, <1>2, <1>7, <2>2 DEF ActivityIsSeen
  <2> QED
    BY <1>8, <2>1, <2>2
<1>12. NotesAreTrue' /\ HeldIsNoted'
  <2>1. call[c].request = "resume" => true' = {} /\ held' = None
    BY <1>2
  <2>2. call[c].request # "resume" => UNCHANGED <<true, held>> /\ StillThere
    BY <1>2, <1>8 DEF StillThere
  <2> QED
    BY <1>1, <1>7, <2>1, <2>2, NotesKeep, HeldKeeps
<1> QED
  BY <1>9, <1>10, <1>11, <1>12 DEF CommandsInv

LEMMA PollKeeps ==
  ASSUME CommandsAssumption, CommandsInv, Read \/ NotRead,
         UNCHANGED <<binding, robot, fallback, call, watch, acted, true, held>>,
         turns' \in 0..MaxTurns
  PROVE  CommandsInv'
<1>1. CommandTypes /\ WatchRuns /\ ActivityIsSeen /\ NotesAreTrue /\ HeldIsNoted
  BY DEF CommandsInv
<1>2. \/ /\ sample' \in Reports(robot) /\ known' = Active(robot) /\ old' = [d \in Calls |-> FALSE]
      \/ UNCHANGED <<sample, old, known>>
  BY DEF Read, NotRead
<1>3. CommandTypes'
  <2>1. due' = PollEvery /\ PollEvery \in 0..PollEvery
    BY PollDue DEF Read, NotRead
  <2>2. sample' \in Samples /\ known' \in BOOLEAN /\ old' \in [Calls -> BOOLEAN]
    <3>1. sample' \in Reports(robot) => sample' \in Samples
      BY <1>1, ReportShows DEF CommandTypes
    <3> QED
      BY <1>1, <1>2, <3>1 DEF CommandTypes, Active
  <2> QED
    BY <1>1, <2>1, <2>2 DEF CommandTypes
<1>4. WatchRuns'
  BY <1>1 DEF WatchRuns
<1>5. \A d \in Calls : CallGoesOn(d) /\ (LookedFor(d)' => LookedFor(d) /\ (acted[d] => acted'[d]))
  BY DEF CallGoesOn, LookedFor
<1>6. ActivityIsSeen'
  <2>1. CASE sample' \in Reports(robot) /\ known' = Active(robot)
    BY <1>1, <1>5, <2>1, SeenRead
  <2>2. CASE UNCHANGED <<sample, old, known>>
    BY <1>1, <1>5, <2>2 DEF ActivityIsSeen
  <2> QED
    BY <1>2, <2>1, <2>2
<1>7. NotesAreTrue' /\ HeldIsNoted'
  BY <1>1, <1>2, <1>5, NotesKeep, HeldKeeps DEF StillThere
<1> QED
  BY <1>3, <1>4, <1>6, <1>7 DEF CommandsInv

LEMMA LookKeeps == ASSUME CommandsAssumption, CommandsInv, NEW c \in Calls, Look(c) PROVE CommandsInv'
<1>1. CommandTypes /\ WatchRuns /\ ActivityIsSeen /\ NotesAreTrue /\ HeldIsNoted
  BY DEF CommandsInv
<1> DEFINE verdict == Verdict(sample, watch[c].left)
           next == IF verdict = "on" THEN [at |-> "on", left |-> watch[c].left, look |-> FALSE]
                   ELSE [Off EXCEPT !.at = verdict]
<1>2. /\ watch[c].at = "on" /\ watch' = [watch EXCEPT ![c] = next]
      /\ old' = [old EXCEPT ![c] = @ /\ watch'[c].at = "on"]
      /\ acted' = [acted EXCEPT ![c] = @ /\ watch'[c].at = "on"]
      /\ UNCHANGED <<binding, robot, sample, fallback, call, due, turns, known, true, held>>
  BY DEF Look, Left
<1>3. watch[c] \in WatchSet
  BY <1>1 DEF CommandTypes
<1>4. verdict \in {"silent", "alarm", "on"} /\ (verdict = "on" => watch[c].left # 0)
  BY DEF Verdict
<1>5. /\ next \in WatchSet /\ (next.look => next.at = "on")
      /\ next.at = "on" => next.left > 0
  <2>1. watch[c].left \in 0..WindowTicks /\ 0 \in 0..WindowTicks
    BY <1>3, WindowIsTicks DEF WatchSet, CommandsAssumption
  <2>2. CASE verdict = "on"
    BY <1>4, <2>1, <2>2 DEF WatchSet
  <2>3. CASE verdict # "on"
    BY <1>4, <2>1, <2>3 DEF WatchSet, Off
  <2> QED
    BY <2>2, <2>3
<1> HIDE DEF verdict, next
<1>6. watch' \in [Calls -> WatchSet] /\ watch'[c] = next /\ \A d \in Calls \ {c} : watch'[d] = watch[d]
  BY <1>1, <1>2, <1>5 DEF CommandTypes
<1>7. /\ old' \in [Calls -> BOOLEAN] /\ acted' \in [Calls -> BOOLEAN]
      /\ \A d \in Calls \ {c} : old'[d] = old[d] /\ acted'[d] = acted[d]
      /\ next.at = "on" => old'[c] = old[c] /\ acted'[c] = acted[c]
  BY <1>1, <1>2, <1>6 DEF CommandTypes
<1>8. CommandTypes'
  BY <1>1, <1>2, <1>6, <1>7 DEF CommandTypes
<1>9. WatchRuns'
  BY <1>1, <1>2, <1>5, <1>6 DEF WatchRuns
<1>10. ActivityIsSeen'
  <2>1. ASSUME NEW d \in Calls, LookedFor(d)' PROVE LookedFor(d) /\ old'[d] = old[d] /\ acted'[d] = acted[d]
    <3>1. CASE d = c
      <4>1. call[c].at = "over"
        BY <1>1, <1>2 DEF WatchRuns
      <4>2. next.at = "on"
        BY <1>2, <1>6, <2>1, <3>1, <4>1 DEF LookedFor
      <4> QED
        BY <1>2, <1>7, <3>1, <4>2 DEF LookedFor
    <3>2. CASE d # c
      BY <1>2, <1>6, <1>7, <2>1, <3>2 DEF LookedFor
    <3> QED
      BY <3>1, <3>2
  <2> QED
    BY <1>1, <1>2, <2>1 DEF ActivityIsSeen
<1>11. NotesAreTrue' /\ HeldIsNoted'
  BY <1>1, <1>2, NotesKeep, HeldKeeps DEF StillThere, CallGoesOn
<1> QED
  BY <1>8, <1>9, <1>10, <1>11 DEF CommandsInv

LEMMA OneLess ==
  ASSUME NEW n \in Nat, NEW left \in 0..n, left > 0 PROVE left - 1 \in 0..n
OBVIOUS

LEMMA TickKeeps == ASSUME CommandsAssumption, CommandsInv, Tick PROVE CommandsInv'
<1>1. CommandTypes /\ WatchRuns /\ ActivityIsSeen /\ NotesAreTrue /\ HeldIsNoted
  BY DEF CommandsInv
<1>2. /\ due > 0 /\ due' = due - 1 /\ \A c \in Calls : ~watch[c].look
      /\ watch' = [c \in Calls |-> IF watch[c].at # "on" THEN watch[c]
                                   ELSE [at |-> "on", left |-> watch[c].left - 1, look |-> TRUE]]
      /\ UNCHANGED <<binding, robot, sample, fallback, call, turns, old, acted, known, true, held>>
  BY DEF Tick, hist
<1>3. due' \in 0..PollEvery
  BY <1>1, <1>2, OneLess DEF CommandTypes, CommandsAssumption
<1>4. ASSUME NEW c \in Calls
      PROVE  watch'[c] \in WatchSet /\ watch'[c].at = watch[c].at /\ (watch'[c].at = "on" <=> watch'[c].look)
  <2>1. watch[c] \in WatchSet /\ (watch[c].at = "on" => watch[c].left > 0) /\ ~watch[c].look
    BY <1>1, <1>2 DEF CommandTypes, WatchRuns
  <2>2. CASE watch[c].at # "on"
    BY <1>2, <2>1, <2>2
  <2>3. CASE watch[c].at = "on"
    <3>1. watch[c].left - 1 \in 0..WindowTicks
      BY <2>1, <2>3, OneLess, WindowIsTicks DEF WatchSet, CommandsAssumption
    <3> QED
      BY <1>2, <2>3, <3>1 DEF WatchSet
  <2> QED
    BY <2>2, <2>3
<1>5. watch' \in [Calls -> WatchSet]
  BY <1>2, <1>4
<1>6. CommandTypes'
  BY <1>1, <1>2, <1>3, <1>5 DEF CommandTypes
<1>7. WatchRuns'
  BY <1>1, <1>2, <1>4 DEF WatchRuns
<1>8. ActivityIsSeen'
  BY <1>1, <1>2, <1>4 DEF ActivityIsSeen, LookedFor
<1>9. NotesAreTrue' /\ HeldIsNoted'
  BY <1>1, <1>2, NotesKeep, HeldKeeps DEF StillThere, CallGoesOn
<1> QED
  BY <1>6, <1>7, <1>8, <1>9 DEF CommandsInv

-----------------------------------------------------------------------------
(* Every step. *)

LEMMA CommandsStep == ASSUME CommandsAssumption PROVE CommandsInv /\ [Next]_vars => CommandsInv'
<1> SUFFICES ASSUME CommandsInv, [Next]_vars PROVE CommandsInv'
  OBVIOUS
<1>1. robot \in Robots /\ turns \in 0..MaxTurns
  BY DEF CommandsInv, CommandTypes
<1>2. CASE UNCHANGED vars
  BY <1>2 DEF vars, CommandsInv, CommandTypes, WatchRuns, ActivityIsSeen, LookedFor, NotesAreTrue, HeldIsNoted
<1>3. ASSUME NEW c \in Calls, NEW request \in Requests, Begin(c, request) \/ Refused(c, request)
      PROVE  CommandsInv'
  <2>1. CASE Begin(c, request)
    BY <2>1, BeginKeeps
  <2>2. CASE Refused(c, request)
    BY <2>2, CallStands DEF Refused
  <2> QED
    BY <1>3, <2>1, <2>2
<1>4. ASSUME NEW c \in Calls, Opened(c) \/ NotOpened(c) PROVE CommandsInv'
  BY <1>4, CallStands DEF Opened, NotOpened
<1>5. ASSUME NEW c \in Calls, ExitFails(c) PROVE CommandsInv'
  BY <1>5, ExitKeeps
<1>6. ASSUME NEW c \in Calls, NEW answered \in BOOLEAN, Sent(c, answered) PROVE CommandsInv'
  BY <1>6, SentKeeps
<1>7. ASSUME NEW c \in Calls, NEW ok \in BOOLEAN, Refreshed(c, ok) PROVE CommandsInv'
  BY <1>7, RefreshedKeeps
<1>8. ASSUME NEW next \in Robots, RobotTurns(next) PROVE CommandsInv'
  <2>1. fallback' \in Resumes \cup {None}
    BY <1>8 DEF RobotTurns, CommandsInv, CommandTypes
  <2> QED
    BY <1>8, <2>1, TurnKeeps DEF RobotTurns
<1>9. ASSUME NEW command \in {"app_pause", "app_resume"}, SequenceControls(command) PROVE CommandsInv'
  <2>1. Obeyed(command, robot) \in Robots
    BY <1>1, ObeyedIsRobot
  <2>2. fallback' \in Resumes \cup {None}
    BY <1>9 DEF SequenceControls, Resumes
  <2> QED
    BY <1>9, <2>1, <2>2, TurnKeeps DEF SequenceControls
<1>10. CASE PollFails
  <2>1. turns' \in 0..MaxTurns
    BY <1>1, <1>10 DEF PollFails, Turn, CommandsAssumption
  <2> QED
    BY <1>10, <2>1, PollKeeps DEF PollFails
<1>11. CASE Poll
  BY <1>1, <1>11, PollKeeps DEF Poll
<1>12. CASE Tick
  BY <1>12, TickKeeps
<1>13. ASSUME NEW c \in Calls, Look(c) PROVE CommandsInv'
  BY <1>13, LookKeeps
<1> QED
  BY <1>2, <1>3, <1>4, <1>5, <1>6, <1>7, <1>8, <1>9, <1>10, <1>11, <1>12, <1>13
     DEF Next, Calling, Beside, Clock

THEOREM CommandsInvariant == ASSUME CommandsAssumption PROVE Spec => []CommandsInv
BY CommandsBegin, CommandsStep, PTL DEF Spec

-----------------------------------------------------------------------------
(* The properties. *)

\* Every variable has its type (vacuum.py:186-361, clean_command_watch.py:60-103).
THEOREM CommandsAreTyped == ASSUME CommandsAssumption PROVE Spec => []TypeOK
<1>1. CommandsInv => TypeOK
  BY DEF CommandsInv, CommandTypes, TypeOK, CallSet, WatchSet, Samples, Resumable
<1> QED
  BY <1>1, CommandsInvariant, PTL

\* A task that a pause stopped, on a status that was true, is resumed with the command
\* its kind needs, whatever was called in between (resume_logic.py:30-63, vacuum.py:336-361).
THEOREM PausedTaskIsResumed == ASSUME CommandsAssumption PROVE Spec => []PausedTaskCanBeResumed
<1>1. CommandsInv => PausedTaskCanBeResumed
  <2> SUFFICES ASSUME CommandsInv, held # None, sample \in Reports(robot)
               PROVE  ResumeCommand(sample, fallback) =
                        IF held = "map" THEN "app_resume_build_map" ELSE "app_resume"
    BY DEF PausedTaskCanBeResumed
  <2>1. /\ robot \in Robots /\ held \in Resumable /\ robot.task = held /\ robot.doing = "paused"
        /\ fallback = ResumeOf(held)
    BY DEF CommandsInv, CommandTypes, HeldIsNoted
  <2> QED
    BY <2>1, ResumeIsRight DEF ResumeOf
<1> QED
  BY <1>1, CommandsInvariant, PTL

\* A step that ends a watch is a look at it.
LEMMA OnlyLooksEnd ==
  ASSUME CommandsAssumption, CommandsInv, [Next]_vars,
         NEW c \in Calls, NEW verdict \in {"silent", "alarm"}, Ends(c, verdict)
  PROVE  Look(c) /\ Verdict(sample, watch[c].left) = verdict
<1>1. watch[c].at = "on" /\ watch'[c].at = verdict /\ verdict # "on"
  BY DEF Ends
<1>2. watch' # watch
  BY <1>1
<1>3. ASSUME NEW d \in Calls, Watched(d) \/ UNCHANGED watch PROVE FALSE
  BY <1>1, <1>2, <1>3, WatchIsSet DEF CommandsInv
<1>4. ~Tick
  BY <1>1 DEF Tick
<1>5. PICK d \in Calls : Look(d)
  <2>1. UNCHANGED vars => FALSE
    BY <1>2 DEF vars
  <2>2. \A d \in Calls, request \in Requests : Begin(d, request) \/ Refused(d, request) => FALSE
    BY <1>2 DEF Begin, Refused
  <2>3. \A d \in Calls : Opened(d) \/ NotOpened(d) \/ ExitFails(d) => FALSE
    BY <1>2 DEF Opened, NotOpened, ExitFails
  <2>4. \A d \in Calls, answered \in BOOLEAN : Sent(d, answered) => FALSE
    BY <1>3 DEF Sent
  <2>5. \A d \in Calls, ok \in BOOLEAN : Refreshed(d, ok) => FALSE
    BY <1>3 DEF Refreshed
  <2>6. ~Beside
    BY <1>2 DEF Beside, RobotTurns, SequenceControls, PollFails
  <2>7. ~Poll
    BY <1>2 DEF Poll
  <2> QED
    BY <1>4, <2>1, <2>2, <2>3, <2>4, <2>5, <2>6, <2>7 DEF Next, Calling, Clock
<1> DEFINE said == Verdict(sample, watch[d].left)
           next == IF said = "on" THEN [at |-> "on", left |-> Left(watch[d].left), look |-> FALSE]
                   ELSE [Off EXCEPT !.at = said]
<1>6. watch' = [watch EXCEPT ![d] = next]
  BY <1>5 DEF Look
<1>7. next.at = said
  BY DEF Off, Verdict
<1> HIDE DEF said, next
<1>8. d = c
  BY <1>1, <1>6
<1>9. next.at = verdict
  BY <1>1, <1>6, <1>8 DEF CommandsInv, CommandTypes
<1> QED
  BY <1>5, <1>7, <1>8, <1>9 DEF said

\* A clean is only reported as not started if the robot was not active when its status was
\* last read, or has not been since (clean_command_watch.py:87-97).
THEOREM AlarmsAreTrue == ASSUME CommandsAssumption PROVE Spec => AlarmIsTrue
<1>1. CommandsInv /\ [Next]_vars => [\A c \in Calls : Ends(c, "alarm") => ~known]_vars
  <2> SUFFICES ASSUME CommandsInv, [Next]_vars, NEW c \in Calls, Ends(c, "alarm") PROVE ~known
    OBVIOUS
  <2>1. Verdict(sample, watch[c].left) = "alarm"
    BY OnlyLooksEnd
  <2>2. ~TaskActive(sample)
    BY <2>1 DEF Verdict
  <2> QED
    BY <2>2 DEF CommandsInv, ActivityIsSeen
<1> QED
  BY <1>1, CommandsInvariant, PTL DEF Spec, AlarmIsTrue

\* A watch is only silent about a command after which the robot was active, unless no
\* status could be read since the command was sent (clean_command_watch.py:72-97).
THEOREM SilencesAreTrue == ASSUME CommandsAssumption PROVE Spec => SilenceIsTrue
<1>1. CommandsInv /\ [Next]_vars => [\A c \in Calls : Ends(c, "silent") => old[c] \/ acted[c]]_vars
  <2> SUFFICES ASSUME CommandsInv, [Next]_vars, NEW c \in Calls, Ends(c, "silent") PROVE old[c] \/ acted[c]
    OBVIOUS
  <2>1. Verdict(sample, watch[c].left) = "silent" /\ watch[c].at = "on"
    BY OnlyLooksEnd DEF Ends
  <2>2. TaskActive(sample)
    BY <2>1 DEF Verdict
  <2> QED
    BY <2>1, <2>2 DEF CommandsInv, ActivityIsSeen, LookedFor
<1> QED
  BY <1>1, CommandsInvariant, PTL DEF Spec, SilenceIsTrue

=============================================================================
