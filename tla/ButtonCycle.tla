----------------------------- MODULE ButtonCycle -----------------------------
(***************************************************************************)
(* The single-button cycle of the garage door that                         *)
(* scripts/garage_button_cycle/build.py generates: one queued automation   *)
(* that answers the clicks of a remote, and that records from every        *)
(* command to the door, its own among them, until when the motor may run.  *)
(*                                                                         *)
(* Time is counted in ticks of one fifth of the travel window.  The runs   *)
(* take no time except that the call of a command may be slow; a command   *)
(* reaches the motor within Latency ticks of the call.                     *)
(***************************************************************************)
EXTENDS Integers, Sequences

CONSTANTS Travel,     \* ticks of a full travel
          Latency,    \* most ticks between the call of a command and the motor
          Window,     \* TRAVEL_WINDOW, in ticks
          MaxRuns,    \* "max" of the automation
          MaxPresses, \* bound: clicks of the remote
          MaxOthers,  \* bound: commands of other callers
          MaxLosses   \* bound: restarts, and readings that become unknown

ASSUME ButtonAssumption ==
  /\ {Travel, Latency, Window, MaxRuns, MaxPresses, MaxOthers, MaxLosses} \subseteq Nat
  /\ Travel > 0 /\ MaxRuns > 0
  /\ Window >= Travel + Latency

VARIABLES door,    \* its place, its motor and whether the contact can be read
          flight,  \* the command on its way to the motor
          clock,   \* moving_end as the ticks that are left, or unknown
          enabled, \* whether the automation is switched on
          queue,   \* the triggers whose run has not started
          calling, \* a run of the automation waits for the call of its command
          blind,   \* history: the motor runs on a command nobody recorded
          left,    \* how many of the bounded events may still happen
          last     \* history: the answer to the last click

vars == <<door, flight, clock, enabled, queue, calling, blind, left, last>>

-----------------------------------------------------------------------------
Commands == {"open_cover", "close_cover", "stop_cover"}
Services == Commands \cup {"other"}   \* on another cover, or another service
Motors == {"still", "up", "down"}

\* A trigger: a click, and whether the motor ran then on a command it had been
\* told of, or a command.
Click(moving) == [id |-> "press", moving |-> moving, single |-> TRUE]
DoubleClick == [id |-> "press", moving |-> FALSE, single |-> FALSE]
Command(service) == [id |-> "command", service |-> service]

\* It runs, or is about to, and nobody has ordered it to stop.
Moving == \/ door.motor # "still" /\ flight.service # "stop_cover"
          \/ flight.service \in {"open_cover", "close_cover"}

\* The contact sits at the closed end and parts as soon as the door leaves it.
Contact == IF ~door.magnet THEN "unknown" ELSE IF door.at = 0 THEN "off" ELSE "on"

TypeOK ==
  /\ door \in [at : 0..Travel, motor : Motors, magnet : BOOLEAN]
  /\ flight \in [service : Commands \cup {"none"}, age : 0..Latency]
  /\ clock \in 0..Window \cup {-1}
  /\ enabled \in BOOLEAN /\ calling \in BOOLEAN
  /\ Len(queue) <= MaxRuns
  /\ left \in [{"press", "other", "loss"} -> Nat]
  /\ blind \in BOOLEAN
  /\ last \in [moving : BOOLEAN, did : Commands \cup {"none", "refused"}]

Unknown == -1   \* the state of the helper before it was first set

Init ==
  /\ door \in [at : {0, Travel}, motor : {"still"}, magnet : {TRUE}]
  /\ flight = [service |-> "none", age |-> 0]
  /\ clock \in {0, Unknown}
  /\ enabled = TRUE
  /\ queue = <<>> /\ calling = FALSE /\ blind = FALSE
  /\ left = [press |-> MaxPresses, other |-> MaxOthers, loss |-> MaxLosses]
  /\ last = [moving |-> FALSE, did |-> "none"]

-----------------------------------------------------------------------------
(* Triggers: mode queued; beyond max they are dropped in silence.          *)

Room(waiting, busy) == enabled /\ Len(waiting) + (IF busy THEN 1 ELSE 0) < MaxRuns

Admitted(waiting, busy, trigger) ==
  IF Room(waiting, busy) THEN Append(waiting, trigger) ELSE waiting

\* Runs take no time: the world moves on when none can begin.
Waiting == queue = <<>> \/ calling \/ ~enabled

Spend(what) == left[what] > 0 /\ left' = [left EXCEPT ![what] = @ - 1]

Press ==
  /\ Waiting /\ Spend("press")
  /\ queue' = Admitted(queue, calling, Click(Moving /\ ~blind))
  /\ UNCHANGED <<door, flight, clock, enabled, calling, blind, last>>

PressTwice ==
  /\ Waiting /\ Spend("press")
  /\ queue' = Admitted(queue, calling, DoubleClick)
  /\ UNCHANGED <<door, flight, clock, enabled, calling, blind, last>>

\* History: a click that waits while another command is called is no longer
\* one on the motion it was made on.
Overtaken(waiting) ==
  [i \in DOMAIN waiting |->
     IF waiting[i].id = "press" THEN [waiting[i] EXCEPT !.moving = FALSE]
     ELSE waiting[i]]

\* The event of a call is fired before the call does anything; the later of
\* two commands on their way prevails.
Order(waiting, busy, service) ==
  /\ queue' = Admitted(IF service \in Commands THEN Overtaken(waiting) ELSE waiting,
                       busy, Command(service))
  /\ IF service \in Commands
     THEN /\ flight' = [service |-> service, age |-> 0]
          /\ blind' = ((blind \/ ~Room(waiting, busy)) /\ service # "stop_cover")
     ELSE UNCHANGED <<flight, blind>>

OtherCommand ==
  /\ Waiting /\ Spend("other")
  /\ \E service \in Services : Order(queue, calling, service)
  /\ UNCHANGED <<door, clock, enabled, calling, last>>

-----------------------------------------------------------------------------
(* The runs.                                                               *)

Begin == enabled /\ ~calling /\ queue # <<>>
Rest == Tail(queue)

\* What the recording branch sets the helper to.
RecordWindowShort(service) == IF service = "stop_cover" THEN 0 ELSE Travel - 1
RecordWindow(service) == IF service = "stop_cover" THEN 0 ELSE Window

Record ==
  /\ Begin /\ Head(queue).id = "command" /\ Head(queue).service \in Commands
  /\ clock' = RecordWindow(Head(queue).service)
  /\ queue' = Rest
  /\ UNCHANGED <<door, flight, enabled, calling, blind, left, last>>

\* Neither branch matches: another cover or service, or no single click.
Ignore ==
  /\ Begin
  /\ IF Head(queue).id = "command" THEN Head(queue).service \notin Commands
     ELSE ~Head(queue).single
  /\ queue' = Rest
  /\ UNCHANGED <<door, flight, clock, enabled, calling, blind, left, last>>

ReadingsUnknown == clock = Unknown \/ Contact = "unknown"
IsMovingByState == flight.service \in {"open_cover", "close_cover"}
IsMoving == clock > 0

Answer ==
  CASE ReadingsUnknown -> "refused"
    [] ~ReadingsUnknown /\ IsMoving -> "stop_cover"
    [] ~ReadingsUnknown /\ ~IsMoving /\ Contact = "off" -> "open_cover"
    [] ~ReadingsUnknown /\ ~IsMoving /\ Contact = "on" -> "close_cover"

AnswerPress ==
  /\ Begin /\ Head(queue).id = "press" /\ Head(queue).single
  /\ last' = [moving |-> Head(queue).moving /\ Moving, did |-> Answer]
  /\ IF Answer = "refused"
     THEN queue' = Rest /\ UNCHANGED <<flight, calling, blind>>
     ELSE Order(Rest, TRUE, Answer) /\ calling' = TRUE
  /\ UNCHANGED <<door, clock, enabled, left>>

CallReturns ==
  /\ calling /\ calling' = FALSE
  /\ UNCHANGED <<door, flight, clock, enabled, queue, blind, left, last>>

-----------------------------------------------------------------------------
(* The door and the clock.                                                 *)

MotorOf(service) == CASE service = "open_cover"  -> "up"
                      [] service = "close_cover" -> "down"
                      [] service = "stop_cover"  -> "still"

Arrive ==   \* the command reaches the motor
  /\ flight.service # "none"
  /\ flight' = [service |-> "none", age |-> 0]
  /\ door' = [door EXCEPT !.motor = MotorOf(flight.service)]
  /\ UNCHANGED <<clock, enabled, queue, calling, blind, left, last>>

Further == CASE door.motor = "up"    -> IF door.at = Travel THEN Travel ELSE door.at + 1
             [] door.motor = "down"  -> IF door.at = 0 THEN 0 ELSE door.at - 1
             [] door.motor = "still" -> door.at

Stopped(at) == at = (IF door.motor = "up" THEN Travel ELSE 0)

\* A call has returned by the time its command is with the motor.
Tick ==
  /\ Waiting
  /\ calling => flight.service # "none"
  /\ flight.service # "none" => flight.age < Latency
  /\ flight' = IF flight.service = "none" THEN flight
               ELSE [flight EXCEPT !.age = @ + 1]
  /\ door' = [door EXCEPT !.at = Further,
                !.motor = IF Stopped(Further) THEN "still" ELSE @]
  /\ clock' = IF clock > 0 THEN clock - 1 ELSE clock
  /\ blind' = (blind /\ (door'.motor # "still" \/ flight.service # "none"))
  /\ UNCHANGED <<enabled, queue, calling, left, last>>

LoseReading ==
  /\ Spend("loss")
  /\ \/ clock' = Unknown /\ UNCHANGED door
     \/ door' = [door EXCEPT !.magnet = ~@] /\ UNCHANGED clock
  /\ UNCHANGED <<flight, enabled, queue, calling, blind, last>>

\* initial_state: false.  The helper is restored, the runs are not.
Restart ==
  /\ Spend("loss")
  /\ enabled' = FALSE /\ queue' = <<>> /\ calling' = FALSE
  /\ blind' = Moving
  /\ UNCHANGED <<door, flight, clock, last>>

Enable ==
  /\ ~enabled /\ enabled' = TRUE
  /\ UNCHANGED <<door, flight, clock, queue, calling, blind, left, last>>

Next == \/ Press \/ PressTwice \/ OtherCommand
        \/ Record \/ Ignore \/ AnswerPress \/ CallReturns
        \/ Arrive \/ Tick \/ LoseReading \/ Restart \/ Enable

Spec == Init /\ [][Next]_vars

-----------------------------------------------------------------------------
\* Whenever no run is pending, the recorded window lasts at least as long as
\* the motor still has to run.
ToGo == CASE flight.service = "open_cover"  -> Latency - flight.age + Travel - door.at
          [] flight.service = "close_cover" -> Latency - flight.age + door.at
          [] flight.service = "stop_cover"  -> 0
          [] flight.service = "none" -> CASE door.motor = "up"   -> Travel - door.at
                                          [] door.motor = "down" -> door.at
                                          [] OTHER               -> 0

WindowCoversTravel ==
  enabled /\ queue = <<>> /\ ~calling /\ ~blind
    => clock = Unknown \/ clock >= ToGo

\* "A press during the travel window must STOP the door": a click made while
\* the motor runs on a recorded command never starts it, in either direction.
PressOnMovingDoorStops ==
  last.moving => last.did \notin {"open_cover", "close_cover"}
=============================================================================
