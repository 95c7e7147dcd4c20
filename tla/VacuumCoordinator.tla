-------------------------- MODULE VacuumCoordinator --------------------------
(***************************************************************************)
(* The V1 coordinator: one status poll at a time, of all traits or of the  *)
(* status alone, whose failures are hidden for a while; the map reads that *)
(* carry the robot's position, in the background, with a home refresh or   *)
(* for a service; and the outside_danger_zone shown, which is written     *)
(* only when a poll ends and on which automations close the door.          *)
(*                                                                         *)
(* Time passes in ticks.  An age is the ticks since an event, counted no   *)
(* further than anything asks.  phase is the await at which                *)
(* _async_update_data is suspended.  A map answer may describe any moment  *)
(* of its read; that of a docked robot may describe an earlier task.       *)
(***************************************************************************)
EXTENDS Integers, FiniteSets

CONSTANTS
  Places,       \* where the robot can report to be: "in", "near", "out"
  StatusEvery,  \* v1_local_status_poll_interval
  CloudEvery,   \* V1_CLOUD_..._INTERVAL
  FullEvery,    \* V1_LOCAL_NOT_CLEANING_INTERVAL
  Unavailable,  \* MIN_UNAVAILABLE_DURATION
  ImageCache,   \* IMAGE_CACHE_INTERVAL
  ActiveEvery,  \* the interval of map reads while a task is active
  IdleEvery,    \* and while none is
  MaxRead,      \* longest map read
  MaxPoll       \* longest poll, home refresh not counted

ASSUME CoordinatorAssumption ==
  /\ {"in", "out"} \subseteq Places /\ Places \subseteq {"in", "near", "out"}
  /\ StatusEvery \in Nat \ {0} /\ CloudEvery \in Nat \ {0}
  /\ FullEvery \in Nat /\ Unavailable \in Nat /\ ImageCache \in Nat
  /\ ActiveEvery \in Nat \ {0} /\ IdleEvery \in Nat \ {0}
  /\ MaxRead \in Nat /\ MaxPoll \in Nat

VARIABLES
  robot,     \* what the robot is doing, and where it is
  once,      \* _has_connected_locally
  phase,     \* the await of _async_update_data
  lasting,   \* ticks the poll has lasted
  due,       \* ticks until the next poll
  interval,  \* update_interval
  full,      \* the poll refreshes all traits
  seen,      \* the status trait
  lastSeen,  \* last_update_state
  available, \* last_update_success
  okAge, fullAge, homeAge,  \* ages of _last_update_success_time, ...
  tryAge,    \* age of _last_map_position_attempt
  posAge,    \* age of last_map_position_update
  payload,   \* the position in map_content.map_data
  reading,   \* ticks each map read has lasted, None if there is none
  shown,     \* outside_danger_zone as last written
  stay       \* ticks the robot has been on its dock, or in the zone beside it

vars == <<robot, once, phase, lasting, due, interval, full, seen, lastSeen,
          available, okAge, fullAge, homeAge, tryAge, posAge, payload, reading, shown, stay>>

poller == <<phase, lasting, due, interval, full, seen, lastSeen, available, okAge,
            fullAge, homeAge>>
mapReads == <<tryAge, posAge, payload, reading>>

None == -1
MaxOf(a, b) == IF a >= b THEN a ELSE b
MinOf(a, b) == IF a <= b THEN a ELSE b

MaxAge == 2 * ActiveEvery     \* MAP_POSITION_MAX_AGE_INTERVALS
Longest == MaxOf(StatusEvery, CloudEvery)
\* A poll may end with a home refresh, which is a map read.
Round == Longest + MaxPoll + MaxRead
OutBound == MaxAge + MaxRead + Round
DockBound == Unavailable + 2 * Round
Cap == 1 + MaxOf(OutBound, DockBound)

\* "leaving" is an active robot that has not been outside since it left its dock.
Modes == {"docked", "washing", "leaving", "active", "idle"}
Docked(mode) == mode \in {"docked", "washing"}
TaskActive(mode) == mode \in {"washing", "active"}
Readers == {"background", "home"}
\* A map may lack the robot, or the charger.
Maps == [place : Places, charger : {TRUE}] \cup [place : {"none", "out"}, charger : {FALSE}]

-----------------------------------------------------------------------------
(* Freshness and trust of the position. *)

Intervals(mode) == IF TaskActive(mode) THEN ActiveEvery ELSE IdleEvery

\* is_map_position_fresh, without a limit and as it is.
FreshForever(mode, age) == age # None
Fresh(mode, age) == ~TaskActive(mode) \/ (age # None /\ age <= MaxAge)

\* resolve_position_trust: the place a door decision may use, or "unknown".  While
\* the robot is docked a position further than the tolerance from the charger is
\* replaced by the charger, and without a charger none is trusted.
TrustedWithoutDock(mode, map) == IF map.place = "none" THEN "unknown" ELSE map.place
Trusted(mode, map) ==
  IF ~Docked(mode)
  THEN IF map.place = "none" THEN "unknown" ELSE map.place
  ELSE IF ~map.charger THEN "unknown"
  ELSE IF map.place = "near" THEN "near" ELSE "in"

\* The state of outside_danger_zone, with a zone around the dock.
Reported(mode, age, map) ==
  IF ~Fresh(mode, age) \/ Trusted(mode, map) = "unknown" THEN "unknown"
  ELSE IF Trusted(mode, map) = "in" THEN "off" ELSE "on"

-----------------------------------------------------------------------------
(* The robot. *)

\* What the answer to a read that lasted some ticks may say: where the robot was at
\* a moment of the read, or, of a docked robot, where an earlier task ended.
Answers(ticks) ==
  {map \in Maps : map.place \in {robot.place, "in", "none"}
                    \/ Docked(robot.mode) \/ (map.place = "out" /\ stay <= ticks)}

\* What the robot may do within a tick.
Turns(next) ==
  /\ Docked(next.mode) => next.place = "in" /\ robot.place = "in"
  /\ next.mode = "leaving" => next.place = "in" /\ robot.mode \in {"docked", "washing", "leaving"}
  /\ next.mode = "active" => ~Docked(robot.mode) /\ (robot.mode = "leaving" => next.place # "in")
  /\ next.mode = "idle" => ~Docked(robot.mode) /\ next.place = robot.place
  /\ robot.mode = "idle" => ~Docked(next.mode) /\ next.place = robot.place

State(mode) == IF mode = "leaving" THEN "active" ELSE mode
SeenModes == {"docked", "washing", "active", "idle"}

-----------------------------------------------------------------------------
(* The map reads. *)

\* _async_update_map_position: the new map is in place and dated now.
BackgroundReads ==
  /\ reading["background"] # None
  /\ payload' \in Answers(reading["background"]) /\ posAge' = 0
  /\ reading' = [reading EXCEPT !["background"] = None]
  /\ UNCHANGED <<robot, once, poller, tryAge, shown, stay>>

\* It fails: the old position stays and goes on ageing.  (Dated now all the same;
\* and as it is.)
NotReadStamped == posAge' = 0 /\ reading' = [reading EXCEPT !["background"] = None]
NotRead == reading' = [reading EXCEPT !["background"] = None] /\ UNCHANGED posAge

BackgroundFails ==
  /\ reading["background"] # None /\ NotRead
  /\ UNCHANGED <<robot, once, poller, tryAge, payload, shown, stay>>

\* get_vacuum_current_position and the editor read the map whenever asked, beside
\* any other read; until the answer nothing changes.  (A suggested zone
\* reads it too and dates nothing, so its position is only taken for older.)
ServiceReads ==
  /\ payload' \in Answers(MaxRead) /\ posAge' = 0
  /\ UNCHANGED <<robot, once, poller, tryAge, reading, shown, stay>>

-----------------------------------------------------------------------------
(* The poll. *)

\* The poll ends: the sensors write their state, unless the coordinator is
\* unavailable, and the next poll is scheduled.
Ends(ok, every, written) ==
  /\ phase' = "idle" /\ lasting' = 0 /\ full' = FALSE
  /\ available' = ok
  /\ interval' = every /\ due' = every
  /\ shown' = IF ok THEN written ELSE "unavailable"

\* _verify_api, and the choice of traits.  device.is_local_connected may change
\* between any two awaits; a device not connected at all keeps the interval.  A
\* command or a service may ask for a refresh before it is due.
PollStarts(local) ==
  /\ phase = "idle"
  /\ once' = (once \/ local)
  /\ interval' \in {interval} \cup (IF once' THEN {} ELSE {CloudEvery})
  /\ full' = (~local \/ fullAge = None \/ fullAge >= FullEvery)
  /\ phase' = "status" /\ lasting' = 0 /\ due' = 0
  /\ UNCHANGED <<robot, seen, lastSeen, available, okAge, fullAge, homeAge,
                 mapReads, shown, stay>>

\* Whether a poll starts a read: once only, if a task that is done still counted as
\* one that runs, and as it is.
ScheduledOnce(mode, attempt) == attempt = None
Scheduled(mode, attempt) ==
  /\ attempt = None \/ attempt >= Intervals(mode)
  /\ reading["background"] = None

\* _schedule_map_position_update and the rest of a successful poll, without an await,
\* with the position map as old as age and the last attempt as old as attempt.
Succeeds(mode, map, age, attempt, local) ==
  LET scheduled == Scheduled(mode, attempt)
  IN /\ reading' = [reading EXCEPT !["home"] = None,
                                   !["background"] = IF scheduled THEN 0 ELSE @]
     /\ tryAge' = IF scheduled THEN 0 ELSE attempt
     /\ payload' = map /\ posAge' = age
     /\ seen' = mode /\ lastSeen' = mode /\ okAge' = 0
     /\ Ends(TRUE, IF local THEN StatusEvery ELSE CloudEvery, Reported(mode, age, map))

\* What follows a complete refresh: a home refresh if one is due or the state is new.
Refreshed(mode, local) ==
  /\ fullAge' = IF full THEN lasting ELSE fullAge
  /\ IF (TaskActive(mode) /\ homeAge > ImageCache) \/ lastSeen # mode
     THEN /\ phase' = "home" /\ homeAge' = 0 /\ seen' = mode
          /\ reading' = [reading EXCEPT !["home"] = 0]
          /\ UNCHANGED <<lasting, due, interval, full, lastSeen, available, okAge, tryAge,
                         posAge, payload, shown>>
     ELSE Succeeds(mode, payload, posAge, tryAge, local) /\ UNCHANGED homeAge

StatusRead(local) ==
  /\ phase = "status"
  /\ IF full
     THEN /\ phase' = "traits" /\ seen' = State(robot.mode)
          /\ UNCHANGED <<lasting, due, interval, full, lastSeen, available, okAge, fullAge,
                         homeAge, mapReads, shown>>
     ELSE Refreshed(State(robot.mode), local)
  /\ UNCHANGED <<robot, once, stay>>

TraitsRead(local) ==
  /\ phase = "traits" /\ Refreshed(seen, local)
  /\ UNCHANGED <<robot, once, stay>>

\* _should_suppress_update_failure, without a limit and as it is.
SuppressedAlways == okAge # None
Suppressed == okAge # None /\ okAge < Unavailable

\* The status or another trait raises.  While the failure is suppressed the poll
\* returns the data it has and counts as a success.
RefreshFails ==
  /\ phase \in {"status", "traits"}
  /\ Ends(Suppressed, interval, Reported(seen, posAge, payload))
  /\ UNCHANGED <<robot, once, seen, lastSeen, okAge, fullAge, homeAge, mapReads, stay>>

\* update_map: discover_home and refresh, or an error that is only logged.
HomeRead(local) ==
  /\ phase = "home"
  /\ \E map \in Answers(reading["home"]) : Succeeds(seen, map, 0, 0, local)
  /\ UNCHANGED <<robot, once, fullAge, homeAge, stay>>

HomeFails(local) ==
  /\ phase = "home" /\ Succeeds(seen, payload, posAge, tryAge, local)
  /\ UNCHANGED <<robot, once, fullAge, homeAge, stay>>

-----------------------------------------------------------------------------

Older(age, cap) == IF age = None THEN None ELSE MinOf(age + 1, cap)

\* Time passes, unless a poll is due or a reply is; the robot may have moved on.
Tick(next) ==
  /\ IF phase = "idle" THEN due > 0 ELSE phase = "home" \/ lasting < MaxPoll
  /\ \A r \in Readers : reading[r] < MaxRead
  /\ Turns(next)
  /\ robot' = next
  /\ due' = IF phase = "idle" THEN due - 1 ELSE due
  /\ lasting' = IF phase \in {"status", "traits"} THEN lasting + 1 ELSE lasting
  /\ okAge' = Older(okAge, Unavailable) /\ fullAge' = Older(fullAge, FullEvery)
  /\ homeAge' = Older(homeAge, ImageCache + 1) /\ tryAge' = Older(tryAge, IdleEvery)
  /\ posAge' = Older(posAge, MaxAge + 1)
  /\ reading' = [r \in Readers |-> Older(reading[r], MaxRead)]
  /\ stay' = IF next.place # "in" THEN 0
             ELSE IF Docked(next.mode) # Docked(robot.mode) THEN 1 ELSE Older(stay, Cap)
  /\ UNCHANGED <<once, phase, interval, full, seen, lastSeen, available, payload, shown>>

Init ==
  /\ robot \in {[mode |-> "docked", place |-> "in"], [mode |-> "active", place |-> "out"]}
  /\ once \in BOOLEAN
  /\ phase = "idle" /\ lasting = 0 /\ due = 0 /\ full = FALSE
  /\ interval = StatusEvery
  \* _async_setup has refreshed the status
  /\ seen = robot.mode /\ lastSeen = "none" /\ available = TRUE
  /\ okAge = None /\ fullAge = None /\ homeAge = 0
  /\ tryAge = None /\ posAge = None
  /\ payload = [place |-> "none", charger |-> FALSE]
  /\ reading = [r \in Readers |-> None]
  /\ shown = "unknown"
  /\ stay = IF robot.place = "in" THEN Cap ELSE 0

Polling ==
  \/ \E local \in BOOLEAN : \/ PollStarts(local) \/ StatusRead(local) \/ TraitsRead(local)
                            \/ HomeRead(local) \/ HomeFails(local)
  \/ RefreshFails

Time ==
  \E mode \in Modes, place \in Places : Tick([mode |-> mode, place |-> place])

Next ==
  \/ Polling \/ BackgroundReads \/ BackgroundFails \/ ServiceReads
  \/ Time

\* Timers fire, every read answers or times out, and time passes however often a
\* refresh is asked for.
Fairness ==
  /\ WF_vars(Polling) /\ SF_vars(Time)
  /\ WF_vars(BackgroundReads \/ BackgroundFails)

Spec == Init /\ [][Next]_vars /\ Fairness

-----------------------------------------------------------------------------
(* Properties. *)

\* Every variable has its type; a home refresh reads the map, and no poll outlasts
\* its replies.
TypeOK ==
  /\ robot \in [mode : Modes, place : Places] /\ (Docked(robot.mode) => robot.place = "in")
  /\ once \in BOOLEAN /\ full \in BOOLEAN /\ available \in BOOLEAN
  /\ phase \in {"idle", "status", "traits", "home"}
  /\ lasting \in 0..MaxPoll /\ due \in 0..Longest /\ interval \in {StatusEvery, CloudEvery}
  /\ seen \in SeenModes /\ lastSeen \in SeenModes \cup {"none"}
  /\ okAge \in None..Unavailable /\ fullAge \in None..MaxOf(FullEvery, MaxPoll)
  /\ tryAge \in None..IdleEvery /\ posAge \in None..(MaxAge + 1)
  /\ homeAge \in 0..(ImageCache + 1)
  /\ payload \in Maps
  /\ reading \in [Readers -> None..MaxRead]
  /\ (phase = "home") = (reading["home"] # None) /\ (phase = "idle" => full = FALSE)
  /\ shown \in {"on", "off", "unknown", "unavailable"}
  /\ stay \in 0..Cap

\* A robot that left its dock some time ago and whose task is known to be active is
\* shown outside for no longer than the age a sample may have, the time a map read
\* may take and one round of polling after it came back in, whatever reads fail,
\* answer late or overtake each other (v1_map_position.py:59-68, coordinator.py:417-427).
OutsideWasTrue ==
  (shown = "on" /\ phase = "idle" /\ TaskActive(seen) /\ ~Docked(robot.mode))
    => stay <= OutBound

\* A robot on its dock is not shown outside, however old the position its map keeps
\* and whatever fails, once the time is over in which failed polls are hidden.
\* (coordinator.py:551-563, 574-589)
DockedIsNotOutside ==
  (Docked(robot.mode) /\ stay > DockBound) => shown # "on"

\* As long as polls succeed, the position is read again and again: no read that
\* fails or is late stops the sampling (coordinator.py:407-415).
SamplingGoesOn ==
  []<>(okAge = 0) => []<>(tryAge = 0)

=============================================================================
