# Verification of roborock_plus

roborock_plus is a Home Assistant integration for Roborock vacuums. What sets it
apart from any other such integration, and what can break a robot or a door, is
that it also drives a garage door: it opens the door before a clean, shuts it
behind the robot once it is outside, lets the robot in and out during the clean
and shuts the door at the end. The door is shared with the household, the robot
also acts by itself, and everything the program knows of either is a sample.

This directory holds TLA+ models of that program, of the parts of the integration
around it (coordinator, commands, settings, safe zones, accounts, map pictures) and of
the two automations its repository generates for the same door; TLC configurations
that check them on small instances; and TLAPS proofs of what holds for every instance.
Paths below are relative to `src/custom_components/roborock_plus/`, or to `src/` where
they begin with `scripts/`.

## 1. The system

| Component | State it keeps | Operations | Model |
|---|---|---|---|
| Door evidence (`door_evidence.py`) | active command, start of each stable interval, last clock | `observe`, `note_command`, `invalidate` | `DoorEvidence` |
| Garage controller (`garage_door.py`) | `phase`, `task_in_progress`, `last_error` | `open_door`, `close_door`, `update_after_departure`, `update_returning`, `sequence_finished` | `GarageControl` |
| Garage runtime (`garage_runtime.py`) | `_sequence_task`, `_closed`, `_contexts`, stage result, registry of owners | service calls, `_finish_sequence`, `shutdown`, the state listener, controlled exit, stages, setup | `GarageControl`, `GarageSetup`, `VacuumCommands`; not the completion of a stage |
| Garage configuration (`garage_config.py`, `door_timing.py`) | none | validate, own, build the evidence | `GarageBinding`, `GarageSetup` |
| Setup and reload (`__init__.py`, end of `garage_runtime.py`) | entry's runtimes, owners of covers, snapshot of options | set up, unload, reload, options listener | `GarageSetup`, against `DoorTenure` |
| Config and options flow (`config_flow.py`) | what each open form has been told | log in, log in again, save options, save a binding | `AccountFlow`, `GarageBinding` |
| Coordinator (`coordinator.py`, `v1_status_polling.py`) | status sample, times of success and attempts, map task | poll, refresh, background map read | `VacuumCoordinator`; its events in `StuckTracker`, other families in `DeviceSettings` |
| Position (`v1_position_trust.py`, `v1_map_position.py`) | time of the last map read | resolve a position, decide that it is trusted | `VacuumCoordinator` |
| Stuck detection (`v1_stuck_detection.py`) | two anchors, verdicts, last stamp | `observe`, `reset` | `StuckTracker` |
| V1 task state, resume selection (`v1_task_state.py`, `resume_logic.py`) | `last_resume_command` | is a task active, choose a resume | `VacuumCommands` |
| Vacuum entity (`vacuum.py`, `entity.py`) | none | start, resume, pause, stop, cleans, routines, stages, zone services | `VacuumCommands`, `SafeZones`, `DeviceSettings`; not areas and maps |
| Clean-command watch (`clean_command_watch.py`) | a loop for each clean | look until a task shows or the time is over | `VacuumCommands` |
| Safe zones (`safe_zone*.py`) | zones, `_loaded` | load, set, clear, suggest | `SafeZones`; not the suggested rectangle |
| Setting entities (`time.py`, `number.py`, `switch.py`, `select.py`, `button.py`) | none; the traits | set, read again | `DeviceSettings` |
| Map picture (`image.py`, `v1_map_render.py`) | one corrected picture | fetch | `MapImage` |
| Door automation (`scripts/garage_state_machine`) | its queue of triggers | pause and close, open, close behind the parked robot | `DoorAutomation` |
| Button automation (`scripts/garage_button_cycle`) | its queue, the end of the travel window | record, answer a click | `ButtonCycle` |
| Panels, diagnostics, sensors that render | none | presentation | not modelled |

How they interact: a service call (vacuum entity, button or service) enters
`GarageRuntime.async_send` and its siblings. They await the controller, which
awaits `move_door` and then polls the endpoint evidence. Once `send()` has handed
the command to the device, `async_send` starts `_finish_sequence` as an asyncio
task and returns. That task looks once a second: it pauses a returning robot and
opens the door for it, pauses a departed one and shuts the door, and asks
`sequence_finished` whether the clean is over. Robot commands go through
`async_control_command`, which refreshes the coordinator; the robot's state is only
ever read from the coordinator's last sample. A listener on the cover and contact
entities rewrites the controller's phase while no task is in progress.

What is hard here:

- **Interleaving.** One controller object, no lock. Two service calls, several
  sequences and the listener all write `phase` and `task_in_progress` between one
  another's awaits, and `phase` also decides whether a closing cover is ours
  (`garage_runtime.py:133-140`), that is whether the feedback can be read at all.
- **Stale knowledge.** Position and state are read before an await and used after
  it; the sample may be old, and a refresh may fail silently.
- **Partial failure.** Pause succeeded, door failed; close succeeded, resume failed;
  command accepted, robot never moved; door slower than the timeout.
- **A shared door.** The household may open, stop or close it at any moment.
- **Unload** in the middle of anything, while an order is in flight.
- **Concurrent setup.** Entries are set up at the same time, collect one another's
  options before they act on them, and reload when an options flow saves.
- **Liveness.** Nothing may be left waiting: not the robot, not the sequence.
- **Read, then write all.** Options forms, timers and the zone store read a whole,
  change a part and write the whole back, with awaits in between.
- **Lost and late answers.** A command may be accepted and ignored, a poll fail unseen, a
  push never come, a map read finish after the robot has left.
- **Queues of triggers.** The generated automations judge a trigger when its run begins,
  drop what exceeds the queue, and trigger themselves.

## 2. Modules

| Module | What it is |
|---|---|
| `DoorEvidence` | state machine of `DoorEvidence`, with history variables over its inputs |
| `DoorEvidenceProofs` | its inductive invariant and five theorems; that a binding `GarageBinding` accepts can be believed, and that the form gets every draft saved |
| `GarageBinding` | validation of a binding, as operators, and the options form that asks for it; extends `DoorEvidence` |
| `MCDoorEvidence` | eight bindings, one of each kind, for the evidence, or some thousands of drafts, for the form |
| `GarageControl` | controller, runtime, service calls, sequences, door, robot, household, polls |
| `GarageControlProofs` | type correctness, the theorems that rest on it, and the controller's three safety invariants |
| `MCGarageNominal`, `MCGarageFaults`, `MCGarageShared` | entry points for TLC; the cfg files choose calls, events and bounds |
| `DoorTenure` | abstract specification of setup: who may drive a door, and when |
| `GarageSetup` | entries, their runtimes, the registry of cover owners, the options and their listener; implements `DoorTenure` |
| `GarageSetupProofs` | its inductive invariant, three theorems and the refinement |
| `MCGarageSetup` | two accounts with three robots and one door |
| `StuckTracker` | the stuck tracker and the event the coordinator makes of its verdict |
| `VacuumCoordinator` | polls, map reads, position trust and the sensor `outside_danger_zone`, in ticks |
| `VacuumCoordinatorProofs` | its two inductive invariants and three theorems |
| `VacuumCommands` | calls on the vacuum, the resume they choose, the watch of a clean |
| `DoorAutomation` | the generated door automation with its queue, and what surrounds it |
| `ButtonCycle` | the generated button automation and the travel of the door |
| `VacuumCommandsProofs`, `DoorAutomationProofs`, `ButtonCycleProofs` | their inductive invariants and four or five theorems each |
| `SafeZones`, `DeviceSettings`, `AccountFlow`, `MapImage` | what users set and see; no state in common |
| `StandaloneProofs` | the inductive invariant of `StuckTracker` and of each of these four, and their theorems |
| `MCStandalone` | all of these but `DeviceSettings` in one run, each explored by itself |
| `MCDeviceSettings` | `DeviceSettings` with every family of devices |

Every module states its types as `TypeOK` or in the comments of its variables; `TypeOK` is
proved where there are proofs, and no run spends a property on it.

### DoorEvidence, GarageBinding

One action per public method: `Observe` is `observe` (`_clock`, `_endpoint`,
`_settled`, `_estimate` and `_contact_reached` are operators), `NoteCommand` is
`note_command`, `Invalidate` is `invalidate`. The inputs are arbitrary, clocks that
go backwards or are no numbers included, so the guarantees hold whatever a
provider reports. `watch` and `ride` record from the inputs alone how long an
endpoint has been shown and whether a command has been observable ever since;
the properties compare what was concluded with them.

`GarageBinding` has one operator for each check of `validate_binding`, giving its errors in
the order of the code, and one for each step of the options form. `form` is the page that
is shown with its draft. `SubmitForm` is one submission by an operator who corrects what
the form complains of and leaves the rest as it is shown; `CloseForm` gives up and
`ReopenForm` starts the next flow from what was saved. `EvidenceOf` is what `GarageRuntime` hands to `DoorEvidence`, so the two sets of
rules, which are written twice in the code, can be compared.

### GarageControl

`run[p]` says at which await coroutine `p` is suspended and on whose behalf (`why`).
Code between two awaits is one step, because asyncio switches nowhere else; it is
written as operators (`OpenStart`, `CloseStart`, `LoopBody`, `FinishRule`, `PauseRead`,
`ResumeRead`) that take the controller and return where they leave it.

| Code | Model |
|---|---|
| `open_door`, `close_door` to their first await | `OpenStart`, `CloseStart` |
| `move_door` | `MoveDoor`, `MoveDoorFails` |
| `_wait_for` | `Arrived`, `TimedOut` |
| what each caller does with the outcome | `AfterOpen`, `AfterClose` |
| `async_send`, `async_routine`, `async_request_open`, `async_request_close`, `reset` | `StartCall`, `Send`, `SendFails`, `Accepted` |
| `_await_clean_started` | `ConfirmTick`, `ConfirmTimeout` |
| the loop of `_finish_sequence` | `LoopTick`, `Deadline` |
| `update_returning`, `update_after_departure` | `LoopBody`, `SendPause`, `AfterPause`, `SendResume`, `AfterResume` |
| `sequence_finished` | `FinishRule`, `LetOut` |
| `async_control_command` | `Commanding` (its checks, up to its await), `CommandFails`, `SendPause`, `SendResume` (the command is delivered) |
| `shutdown` | `Unload` |
| `on_door_change`, `_sync_phase_with_door` | `Listened`, `SyncPhase` |
| door, robot, household, user | the actions under "The world" |

Abstractions, and why they lose nothing the properties need:

- *Time* is absent. A timeout is a choice that the code's constants make possible:
  `_wait_for` may give up on a door that stands still at once, and on a door that
  travels only as the disturbance `slow_door`, because `operation_timeout_seconds`
  exceeds a full travel. The start of a clean is given up only once the sample
  agrees with the robot: 180 seconds are many polls.
- *The evidence* inside the controller is that of a door with two contacts: reached or
  not reached, no settling. The other bindings are the subject of `DoorEvidence`.
  The two are joined by what the controller reads: available, open, closed.
- *Door positions*: `lifting` and `dropping` are a door that has begun to move with its
  contact still made. That is the gap in which a reached endpoint is already false.
- *Names of robot states* are six classes; `task_running` and `robot_docked` are what
  `v1_task_state.py` and `garage_runtime.py:203-214` make of them.
- *A robot command* is checked and sent in two steps, as in the code: `Commanding` looks at
  `_closed` and the permission and leaves the coroutine at `InFlight`; the Send actions
  deliver, whatever has happened in between, an unload too.
- *History.* `seen` holds the callers and sequences whose robot has really worked since
  their command; the program cannot read it.

`Events` and `Budget` bound the disturbances of a run: a household move, a cover call
that raises, a slow door, a transport error, a command accepted and dropped, a pause
that takes effect late, a failed poll, a lost position, lost feedback, a withdrawn
permission, a user's own robot command, a robot that cleans next to its dock again, the
sequence deadline, an unload. An event not in `Events` does not happen in that run;
what is lost comes back without a budget (`FeedbackBack`, `PermitOn`, the polls).

### GarageSetup

`stage[e]` is the await at which entry `e` is suspended: `devices` (account, devices and
coordinators), `store` (safe zones), `starting` (`async_start` of one runtime), `platforms`,
`unloading`. In stage `binding` the loop of `async_setup_garages` is running; every
action that belongs to another coroutine asks for `Yielded`, so the loop goes from await
to await undivided, one robot per step.

| Code | Model |
|---|---|
| `async_setup_entry` | `SetupEntry`, `NotReady`, `CoordinatorsReady`, `StoreLoaded`, `Recorded`, `PlatformsReady` |
| the loop of `async_setup_garages` | `Refuse`, `Bind`, `Started`, `StartFails` |
| `validate_binding_ownership`, the registry | `Claimed`, `Taken` |
| `async_unload_entry`, `shutdown` | `UnloadEntry`, `Unloaded`, `UnloadRefused` |
| `_async_options_updated` | `OptionsUpdated` |
| `_save_garage_binding` | `SaveBinding` |

A runtime is known by its robot, its cover and the setup that created it. A binding is
its cover and whether `validate_binding` accepts it; a disabled draft is no binding. Home
Assistant contributes its setup lock (setup and unload of one entry exclude each other),
the unload callbacks (`hooks`) and the listener task; they are modelled from what `__init__.py`
asks of them. `live` are the runtimes whose `shutdown` has not run, each of which would
be driven by `GarageControl` until its `Unload`.

`DoorTenure` knows open accounts and the tenants of doors and nothing else: an account
opens, a door without tenant is let to a runtime of an open account, an account closes
and takes its tenants along. The refinement mapping (`Opened`, `Driving`) takes an entry as
open while its loop over the robots has begun and its unload has not ended, and `live`
as the tenants; every other step of setup, reload or options is a stutter.

### StuckTracker

`Observed` is `StuckTracker.observe`, its branches the operators `Lost`, `Anchored`, `Judged`
and `Moved`; `Backstop` is `_observe_backstop`. `Sample` is the successful end of
`_async_update_map_position` with `_observe_stuck_detection`; a read that fails observes
nothing, and is a `Tick`. Positions are points of any metric space, and the two radii and
windows are constants. A sample arrives with any position, in movement or not, and may
be stamped like the one before. `trail` is the history of the positions read since the
movement began, and `skipped` those of them after a gap, which the backstop does not
look at; the properties judge the verdict by the trail.

### VacuumCoordinator

Time passes in ticks; `phase` is the await of `_async_update_data`. `PollStarts`, `StatusRead`,
`TraitsRead`, `HomeRead` and `RefreshFails`, `HomeFails` are its steps, `BackgroundReads` and
`BackgroundFails` those of `_async_update_map_position`, `ServiceReads` the position services.
`Reported` is the sensor, `Trusted` the rule of `v1_position_trust.py`, `Fresh` that of
`v1_map_position.py`. A map answer may describe any moment of its read; the map of a docked
robot may still be that of an earlier task. Places are the zone, the part of it within the
tolerance of the dock rule (`near`, not in the run), and outside. `stay` is history: how
long the robot has really been in the zone.

### VacuumCommands

Ticks of the watch's interval. `Begin` is a service call up to its first await, `Opened`,
`NotOpened`, `ExitFails` the way through the garage owner, `Sent` the command and what
the robot makes of it (`Obeyed`, or nothing), `Refreshed` the refresh after it. `Look` is one
turn of the watch. Beside them the robot's own turns, the commands of a door sequence
(`SequenceControls`), polls and failed polls. The histories say of each call whether a
status was read and whether the robot was active since, so that the watch can be judged
by the robot.

### DoorAutomation, ButtonCycle

Both modules follow the builders, `scripts/*/build.py`. Triggers, conditions and waits are
data where the generated JSON has data, evaluated by one operator (`Fires`, `Holds`) as
the replay harness evaluates them; the sequences are a program counter over their waits.
Around them is what the scripts are for: a robot with its cleans, dock visits and status
blips, a door whose motor may jam, a position, a contact and a status that may be lost,
samples that come late, a household that pauses and resumes the robot. A call of any of
the four services (`Raising`) may raise, having taken effect or not; the run then dies
(`Died`). `held` is history: who has the paused robot in his care (`no`, `yes`,
`touched` by the household, `raised` when its run died); `missed` says what kept the last
return trigger from opening the door (`dropped` from a full queue, `unread` position,
`echoed` order, `raised` call). In `ButtonCycle` the door travels in ticks, a command reaches the motor
within a latency, and the helper that records the window may be lost or restored.

### SafeZones, DeviceSettings, AccountFlow, MapImage

`SafeZones` follows each caller of the store from await to await through Home Assistant's
`Store` (the data of the latest save, one writer at a time, an atomic file), through
restarts and failed loads. `DeviceSettings` has an action for each kind of entity and
family: what it sends, what it reads afterwards, who refreshes, what an error does. A timer
is sent whole from the trait, which only a whole poll reads (`ReadsV1`; most polls are
`ReadsStatus`); a poll may show an answer older than the last change; a Q10 pushes any part
of its state, also when it was asked (`Solicits`). `wanted` is history: the value each field
was last given; `polled`: whether a whole poll has begun, and ended, since the device changed;
`blurred`: the calls of which the code promises nothing.
`AccountFlow` has one action per form or answer of a server; Home Assistant's own rules for
unique ids and flows are external. `MapImage` is `async_image` before and after its
executor, with `find_robot_position_block`, `render_position` and `rerender_map_image` as
operators over a raw map that is a sequence of blocks.

## 3. Runs

Passing runs:

| Run | Instance | What it shows |
|---|---|---|
| `evidence` | clock 0..4, positions 0/50/100, 8 bindings; about 4 000 drafts with one field off or two missing, 8 submissions | Both ends are never reached at once; a reached position was shown for the whole settle window; an estimate rests on a command observed for all of its travel. An accepted binding gives evidence that can be believed within the timeout; every draft can be corrected and saved in 8 submissions, with 7 the slowest is not. |
| `nominal` | one clean, up to two breaks, no disturbance, exact samples | The robot is released only with the door open; every clean that began ends with the robot docked and the door shut; every pause ends. |
| `faults` | one clean or routine, up to two breaks, any single disturbance of door, transport, samples or household, lagging samples | A robot is held for as long as the door closes for it; no final close for a clean that never was; a robot recharging behind a shut door is let out. |
| `shared` | two callers, two sequences, five kinds of call, two disturbances out of unload, user, dropped command | After an unload no sequence begins a robot command (one that had passed the check of `_closed` is still delivered, once), and all of them end. |
| `setup` | two accounts, three robots, one door, two setups of each account, two edits, one failure | Setup implements `DoorTenure`: one runtime per door, none left behind by an unload, none taken from another account. A changed binding reaches the running entry. |
| `polling` | status every tick, map every tick or every second one, reads of up to one tick | A robot shown outside was outside not longer ago than age, read and round allow; a docked one is not shown outside; as long as polls succeed positions are read. |
| `commands` | two calls of six kinds, three bindings, one event beside them, a watch of two looks between polls | A paused task can be resumed with the command it needs; an alarm, a silence and a lost clean are what they are said to be. |
| `automation` | queue of five, one clean, one visit to the dock, two mishaps out of blips, touches, lost status, contact and position, calls of all four services that raise, and jams | At most one pause per departure; nobody is stranded without an alert but by a call that raised; the parked close is for a finished task only; a docked robot moves no door; a returning robot is let in or somebody told, but for the four ways in which the code misses it (`missed`); every pause ends but by a call that raised. |
| `button` | a travel of 4 ticks, latency 1, window 5, queue of three, three clicks, two other commands, one loss | The recorded window covers the travel; a click on a door that moves never starts it. |
| `standalone` | a stuck tracker with positions 0, 2, 3 on a line, radius 1 and 2, windows 2 and 5, clock 0..6; two robots and three jobs on the zone store with a restart; one user, two accounts, three flows, two changes; two fetches and two changes of map or position | A stuck event is true of all positions read in its window; a robot that never left is found stuck when the window is over, and its owner has had an event of this very stay, whatever verdicts came and went before. Zones, logins, options and pictures are those that were asked for last. |
| `settings` | six families of devices, two calls, two troubles out of lost commands, answers, reads and pushes and settings made elsewhere | A field holds what it was given, but for the timers' calls that `LastSettingHolds` names; a device that is read comes to be shown as it is; a field that is brought again and again is shown. |

Violation run. It states what a document of the repository promises, and TLC shows a
behaviour of the code that breaks it:

| Run | Promise | What happens |
|---|---|---|
| `reload` | "setup registers listeners and the occupation of the binding, unload/reload deregister them" (`src/specs/2026-10-15-spec-garage-control.md:314`, translated) | Nobody empties the registry of owners. A reloaded entry finds its own cover taken, refuses the binding as `duplicate_binding`, and from then on every command to the robot raises. |

### Bounds, and why they are enough

- *Sequences and callers.* Sequences share nothing but the controller, so what one
  can do to another shows with two. A caller is over before it is used again. For
  what is proved there is no bound.
- *`Trips`*: one break for each way of taking it (charging, washing) and a second for
  what the first leaves behind.
- *`Budget = 1` in `faults`* makes each disturbance meet every state of a clean. It is
  also the limit of what the code withstands: with two, a lost pause and a failed poll
  together defeat the check of `garage_door.py:337`, as an old sample still says `paused`.
  `RobotHeldWhileClosing` is therefore checked for single disturbances; section 4 proves it
  for any number of them as long as no poll after a command fails and nobody else commands.
- *`evidence`*: a settle window of 1 or 2, travel of 1 or 2 and a margin of 1 all fit into
  the clock twice over, with room for a gap in between.
- *`setup`*: a conflict over a cover takes two robots, so there is one cover; three robots
  in two accounts give a rival in the same entry and one in another. Two setups are
  one reload. Two edits move a door from one robot to another.
- *`polling`*: the intervals keep the order they have in the code, with the smallest numbers
  that leave a read time to be overtaken. `Places` leaves out `near`: there the dock rule
  accepts a position it should not (see section 5).
- *`commands`*: two calls are enough for one to end inside the other. The watch is ten
  seconds long, so that it ends between two polls, as it does in the cloud's interval.
- *`automation`*: two mishaps are one that strands a robot and one that hides it, such as
  a call that raises and a lost reading. `QuickCleans` is off and `FastPolls` on: the run shows what the scripts
  promise for a household that waits for a clean to be over and for local polls. What is
  not true without these is in section 5. The queue is as long as in the code.
- *`standalone`*: the parts share no state, so `part` chooses one of them and the others keep
  one state. Stuck tracker: 0 and 2 are farther apart than the short radius and within the
  region, 2 and 3 are within both, 0 and 3 within neither; the clock covers the long window
  and one tick more, so it begins at the first position or after a move. Zones: a third job
  comes between the load and the save of two others. Flows: one that starts, one that
  reauthenticates and one that edits, with an account that changes hands. Pictures: two
  refreshes bring a map back to the address of the first. For what is proved there is no
  bound.
- *`settings`*: two calls overlap or follow each other with polls between; two troubles lose
  a command that took effect and hide it, or change a setting elsewhere and lose the read.
- No symmetry is used: liveness is checked in most runs.
- `CHECK_DEADLOCK FALSE` is given for `GarageControl` because it does stop: when all calls
  have returned and the robot is docked, nothing is left to do; and for `GarageSetup`,
  which stops when its setups are used up. It is given for the coordinator, the commands, the automations, `standalone` and `settings`
  because their bounded events end.

### Fairness

`CodeFairness` (in `PatientSpec`) is what the event loop, the hardware and the
coordinator's timer give: a coroutine that can go on does (asyncio runs every ready
task), a door in motion arrives, feedback comes back, polls go on. All of it is weak.
The robot is not fair in it, nor is anybody's disturbance: `faults` and `shared` hold
even if the robot stands still for ever. `RobotFairness` (added in `FairSpec`) lets
the robot drive on by itself, and is needed only to say that a clean comes home.

In `GarageSetup`, `Fairness` says that the awaits of a setup return, that a queued listener
runs, and that a reload that was asked for gets its lock. Nobody has to save, unload or
fail.

`VacuumCoordinator` asks for weak fairness of the coordinator's own timer (`Polling`) and of
the answer or time-out of a background read, and for strong fairness of time, because a
refresh that is asked for between two ticks disables the tick for a moment. A robot
is never obliged to move, nor a read to succeed. In `VacuumCommands` only the clock is
fair: timers fire and looks are taken. `DoorAutomation`: runs go on, polls and samples come,
the motor goes on unless it jams, a blip ends. `DeviceSettings` (`Fairness` in
`MCDeviceSettings`): polls are scheduled, reads are answered or fail, pushes arrive or are
lost, all weak; and strong fairness of a whole poll, because one is due whenever the last of
its kind is old enough (`should_refresh_full_v1_data`), however many polls of the status
come between. Nothing is assumed of what reads a map, which is only a robot that cleans or
changes state, nor of the fields that a push holds: of these `BroughtIsShown` says only what
follows if a field is brought again and again.

## 4. Proofs

All proofs are checked by tlapm, with no assumption besides the named ones on the
constants: `EvidenceAssumption`, `FormAssumption` (what the operator enters is right: a sound
value for every field, thresholds 100 and less, a timeout longer than any door may take,
a cover that is usable and free), `GarageAssumption`, `SetupAssumption`, `StuckAssumption`
(distances are a metric, and the region is larger and its window longer than the short
ones), `CoordinatorAssumption` (intervals are positive), `CommandsAssumption`, `AutomationAssumption`, `ButtonAssumption` (the window is as long
as a travel and the latency together), `SettingAssumption` (its bounds are numbers), `ZoneAssumption` and `FlowAssumption` (no account,
user or zone has a name that stands for none). Two theorems about the door
automation, three about the controller and one about the coordinator add a hypothesis,
explained there. Each invariant was checked by TLC before it was proved.

`DoorEvidenceProofs`, for every set of bindings and of drafts, positions and every clock range:

- `EvidenceInvariant`. The five properties speak of the last observation, and are not
  inductive. The invariant says how the state follows the history: an active command
  is the command of `ride`, a running stable interval is the one in `watch`, and the
  last observation agrees with `basis`.
- `EvidenceTypes`, `NeverBothEndsHolds`, `ReachedOnlyIfSettledHolds`,
  `EstimateNeedsObservedTravelHolds`, `NoPassageWhileClosingHolds` follow from it, one
  lemma per endpoint kind and one step per action.
- `AcceptedIsBelieved`: whatever binding `validate_binding` accepts, the evidence, which
  checks the same fields by rules of its own, never finds it invalid, and an end that is
  reached is believed before the operation times out. It holds of every draft, so no
  behaviour is assumed, only that a position scale has both its ends (0 and 100). The
  lemmas go through the error lists in the order of the code: a joined list is empty only
  if each part is, which gives `Sound`, what an accepted binding says; from `Sound` follow
  what `EvidenceOf` builds and that `longest_endpoint_wait` leaves time to travel and settle.
- `FormInvariant` and `EveryDraftIsSaved` (`EveryDraftCanBeSaved`), for every stored
  draft, whatever it holds or lacks, and for an operator who corrects only what the form
  complains of, with a robot that is there (`supported`). The count of submissions is not
  inductive, so `FormInv` bounds it by a measure. There are thirty-one issues (`Issues`):
  each field's own rule and the rules that join two fields. Four facts carry the proof:
  - each error list complains only with reason (`Blames`, `Justified`), which needs the
    order of the checks: the thresholds are compared after all numbers and switches;
  - `_garage_error_form` shows the field it complains of, and with a contact its state
    (`ErrorPageSound`): this is what fails if a retained value stays hidden;
  - an answer to such a page unsettles nothing (`SettledStays`);
  - and settles something new (`ComplaintSettles`).

  A page without a complaint leads to a later step, so the form comes back at most three
  times per issue: 3 * 31 + 2 = 95, hence the hypothesis `Patience >= 96`. The bound is
  crude, where the run finds that 8 submissions suffice for its drafts; that it exists at
  all is what the theorem says. The property excludes a closed threshold of 100 per cent.
  The proof shows when that is needed: if no source reads it, the complaint is of the open
  one and the same page comes back for ever (`Stuck`, `StuckStays`); see section 5.

`GarageControlProofs`, for any number of sequences, callers, calls and disturbances:

- `ControlInvariant`: `ControlInv` is `TypeOK` and `ReasonsFitAwait` together. Types alone
  are not inductive: `ResumeRead` is a CASE over `why` that is defined only if a
  coroutine waiting for its resume carries a reason of that path (`"return"`, `"closed"`,
  `"left_open"`). The proof has a lemma for each `Step` operator, a lemma per action,
  and frames for the variables an action leaves alone.
- `ControlTypes` (`TypeOK`) and `ReasonsFit` follow.
- `NoRobotCommandAfterUnloadHolds`: after an unload no step of a sequence begins a robot
  command, and only the end of one that was in flight changes the robot. The check of
  `_closed` comes before the await and only the latest sequence is cancelled, so an older one
  may still have a command on its way. The run shows it for two sequences, the theorem for
  any number.

  The three safety invariants of a clean do not hold without conditions: TLC refutes the
  first two with a second call, as the controller has no lock, or with one movement of the
  door or the robot by hand. The theorems name what they exclude, and all other
  disturbances may happen, in any number. A single call
  means a single coroutine (`Alone`): the caller until its command is accepted, then
  its sequence, so no step of another can come between two awaits.

- `ReleaseIsThroughOpenDoor` (`ReleaseNeedsOpenDoor`), for one call and a household that does
  not move the door. A resume follows a confirmed end, and `OpenConfirmed` also holds of a door
  that has just begun to drop. `DoorFollows` says that this cannot be: whoever waits for the
  open end has ordered it and nobody has ordered otherwise since. `Releases` carries it
  through every stretch of code.
- `RobotIsHeld` (`RobotHeldWhileClosing`), for one call, no command past the controller, and
  polls after commands that are answered. A sequence trusts its sample, and with `Lag` the
  sample may be old: an old `paused` would close on a moving robot. After a pause the poll
  makes the sample new; at the end it is `SampleIsHome` that helps, that a sequence past its
  confirmation never holds a sample at rest of a robot that is not. `late` pauses, lost
  commands and a door moved by hand are all allowed.
- `ClosesForSeenClean` (`ClosesOnlyForSeenClean`), for every other disturbance, under any one
  of three conditions: one call; samples that keep up with the robot; or polls after
  commands that are answered. The last two allow any number of calls.
  With one call `Begun` says that the robot is at rest and its sample too until the
  command is sent, and that whoever waits for a confirmation has seen it work or is still in
  that state. Without lag `Synced` suffices: the sample that confirms is the robot itself. With
  answered polls `ConfirmSeen` does: a sequence begins with a sample of its own time and no
  older one comes back (`SamplesFollow`).
  With two calls, old samples and one failed poll TLC finds the property false: a call accepted behind
  the end of another's clean is confirmed by the sample of that clean.

`GarageSetupProofs`, for any accounts, robots, doors, reloads and edits:

- `SetupInvariant`. `OneRuntimePerDoor` is not inductive, because the check at
  `garage_runtime.py:761` asks the registry and not who is alive. The invariant says that
  every live runtime is the registered owner of its door (`LiveOwns`), that it is among
  the hooks of its own entry (`LiveHooked`), and that an entry before its loop has no
  hooks (`UnboundUnhooked`); `LoadCounted` types the runtimes.
- `SetupTypes`, `OneRuntimePerDoorHolds`, `NoRuntimeOutlivesUnloadHolds` follow. `LiveOwns`
  is kept today because a cover is never given back, which is also the finding of the
  run `reload`. A fix that gives it back in `shutdown` keeps the invariant too, as
  `Unloaded` removes the runtime from `live` in the same step.
- `TenureImplemented`: every behaviour of `GarageSetup` is one of `DoorTenure`. `HooksOwn`, a
  further invariant, says that an entry hooks only its own runtimes; without it an unload
  could shut down the tenants of another account. Then `BindLets` (a bind lets a door that
  nobody drives), `UnloadCloses` (an unload closes the account with all its tenants) and
  `OtherSteps` (the rest is a stutter, or opens).

`StandaloneProofs` holds the proofs of five modules that share no state. `StuckTracker`, for every metric, radius, window and clock range:

- `TrackerInvariant`. The properties speak of a trail, the tracker remembers two positions.
  The invariant says what these two tell of the trail: all of it since the anchor is near
  the anchor (`NearAnchor`), all of it since the backstop's anchor is in its region
  (`InRegion`, up to a gap), and the first position of the trail is an anchor unless the
  robot has left it (`BeginsTrail`). `TrappedLong` keeps a verdict of the backstop alive
  across a short-window reset: the window stays over until the region is left, so the
  very call that drops the verdict sets it again. `NearAnchor` and `InRegion` need the
  triangle inequality.
- `TrackerTypes`, `BackstopHoldsAlways` and `ReportedInTimeAlways` follow.
- `StuckIsToldAlways` (`StuckIsTold`). That the flag of the event follows the verdict
  (`FlagIsVerdict`) says nothing of an event. `Told` does: while the verdict stands there has
  been an event, and some position of this movement was a window old when it was fired;
  each later position only adds to the trail (`ToldStep`). `EventsAreTrueAlways` is the action property, from the lemma `NewVerdict`: a
  new verdict is reached by one of the two judgements and no other way.

`VacuumCoordinatorProofs`, for any intervals, limits and durations of reads and polls:

- `CoordinatorIsTyped`: `TypeOK` holds the clocks within their limits, and says that a home
  refresh is a read of the map and a status read ends before the poll's reply times out.
- `OutsideIsRecent`, from `SampleInv`. The property speaks of what is shown, but between the robot
  and the sensor there are the position, the read that may still bring an old one, and the
  poll that is yet to write it. The invariant bounds `stay`, the time the robot has been in,
  by the age of each of these that still says otherwise: the position by its age and the
  read behind it (`PayloadIsRecent`), the sensor by the largest such age and the part of the
  interval that is over (`ShownIsRecent`).
- `DockedIsShownInside`, from `DockInv`, does the same for the status: one that does not know of
  the dock was read in this poll or in one as old as the last success (`StatusIsRecent`,
  `SinceWritten`). A failed poll writes the sensor again from that status only while
  failures are hidden (`WrittenIsRecent`). The theorem assumes `"near" \notin Places`, as the run
  does: a map that places the robot outside the zone but within the dock rule's tolerance is
  trusted, however long the robot is docked (section 5).

`VacuumCommandsProofs`, for any number of calls, any requests, timeout and polling interval:

- `CommandsInvariant`. The alarm speaks of one look, the resume of one status; neither
  says what lies between. `ActivityIsSeen` does so for the watch: an active robot whose
  command is still looked for has been active since that command, so a status that shows
  activity without it is an old one. `NotesAreTrue` does it for the pauses: as long as the
  robot has not moved since a pause noted its task, every status is a report of that
  task, and a later pause can only note the same. `HeldIsNoted` keeps the note while the robot
  is held; a resume, a clean or the robot itself ends that.
- `CommandsAreTyped`, `PausedTaskIsResumed` follow. `AlarmsAreTrue` and `SilencesAreTrue` are
  action properties: the verdict is taken in the step of a look, on the status just read.

`DoorAutomationProofs`, for any queue, cleans, visits, blips and touches:

- `AutomationIsTyped`: with one lemma per run and per event of the world; the queue never
  exceeds `MaxRuns`.
- `OnePauseEach`. The property counts pauses; the invariant `DeparturesAreReal` counts what
  can still become one: the departure triggers in the queue, and the robot outside that was
  last seen inside, are together no more than the departures nobody has paused.
  It needs the cardinality of a set of queue positions under append and tail.
- `ParkWaitsForTheEnd`, under `~QuickCleans`: the marker of the last end is recent only when no
  clean is under way (`EndIsMarked`). With `QuickCleans` a clean starts behind the marker and
  the door closes on it (section 5).
- `StrandedIsReported`, for any `Raising` and `Losing`: a robot in the care of the departure run
  is seen paused or not at all, and each way out of the run resumes it or warns
  (`InCare`). The property leaves out by name (`held = "raised"`) the robots whose run died of
  a call that raised: there the code warns nobody (section 5).
- `DockedRobotIsLeftAlone`, under `FastPolls`: before its first clean the robot stays on its
  dock and only parking triggers queue (`StillDocked`). With slower polls a blip outlasts the
  ten seconds of a trigger (section 5).

  Each of these hypotheses is the value the run gives the constant, and only that; everything
  else is arbitrary.

`ButtonCycleProofs`, for any travel, latency and window, queue, clicks, commands and losses:

- `CycleInvariant`. `WindowCoversTravel` looks at moments when no run waits. The invariant
  speaks of what the helper will hold when all that waits has run: `Covers` says that the
  window of the last command in the queue, or the helper if there is none, lasts for
  `Longest`. `Longest` and not `ToGo`: while a reversal is on its way the door still runs
  away from its goal, so `ToGo` does not fall with every tick; and a motor started at the
  end it drives to runs for a tick. `LatestClicks` says that no command waits behind a click
  on the running motor, so the helper it finds is that of its own motion.
- `CycleIsTyped`, `WindowIsLongEnough`, `PressesStopTheDoor` follow.

`StandaloneProofs` again, for any accounts, robots, zones, spots and callers; each of these four
modules has its own invariant over its own variables:

- `SavedZoneIsKept`, from `ZoneInv`: a zone that is certain is in whatever will be written last
  (`LastWritten`: the data that wait, else those being written, else the file), and once no
  call for the robot is at its save, file, memory and sensor agree (`Settled`). Alone,
  each of these is broken by a write that overtakes another robot's save.
- `SettingIsKept`, from `SettingInv`: a call for a timer that is not blurred sends what is
  wanted of the other fields (`Sendings`), and of two calls under way both are blurred
  (`BesideBlurred`). That such a call may begin on the trait rests on `Seen`: a whole poll that
  began after the last change can bring nothing but what the device has, and when it has
  ended the trait shows it. Any other call sends its own field alone.
- `EntryKeepsItsAccount` and `OptionsStayAsSaved`, from `FlowInv`: a login that a flow holds is
  one the flow's account gave out (`LoginKnown`), a flow about to create is the only one of
  its account (`CreatesAlone`), and a draft is what its user said (`DraftSaid`).
- `PictureFitsItsMap`, from `ImageInv`: what is kept under a key was drawn for a map and a
  position of that key.

Only model-checked: every liveness property (fairness and ENABLED are beyond the
prover: `PauseEnds`, `CleanComesHome`, `SamplingGoesOn` and their like), and what the three
conditional theorems of `GarageControlProofs` exclude. There the program does not keep the properties for all
constants; TLC shows which single disturbances they withstand (run `faults`).

## 5. Not modelled, and observed beside the models

Not modelled: panels, diagnostics, the entities that only render (`sensor.py`,
`garage_entities.py`), the files of the map cache, device discovery and the migration of
options, which decide nothing; the receipts and the completion of a cleaning stage, which
no call can reach (see below); areas, map lists and history queries of the vacuum; the rectangle of
`suggest_safe_zone`, a formula without state; the scripts that fetch and compare deployments; `src/automations`, whose blueprints only call
the services modelled here.

Reading the code for these models, and TLC on properties that turned out not to hold,
showed the following. The first group are promises of documents that the code does not
keep; each was seen in a behaviour of the model.

*Garage*

- An unload in the middle of the departure close leaves the robot standing: `shutdown` sets
  `_closed` before it cancels the sequence, so the resume in `finally` is refused as
  `control_unloaded`, although `garage_door.py:349-350` says "Released even when closing failed:
  a robot left standing still forever is a worse outcome than an open door".
- A robot command that has passed the check of `_closed` (`garage_runtime.py:262`) is delivered
  after an unload if its sequence is not the latest, which is the only one cancelled.
- Feedback that fails between the pause of a returning robot and the opening of the door:
  the error is logged, the robot stays `paused`, which no rule handles, and nobody resumes
  it. The same holds when the resume raises, or when the sequence is unloaded first.
- A second clean may be released on a contact that is still made although the first
  one's departure close was ordered a moment before.
- A robot that turns back after its position was read is held in the doorway by the pause,
  and only its state is read again before the close.
- The departure close clears `task_in_progress`; if the robot gets back in before the next
  turn of the loop, `sequence_finished` answers False until the deadline of eight hours.
  `async_request_open` sets `task_in_progress` and re-arms such a sequence, whose final
  close may then meet another clean.
- A washing robot does not count as docked, so a door somebody closed is not reopened for it.
- With two disturbances, a lost pause and a failed poll, an old sample still says `paused`
  and the door closes on a driving robot (`garage_door.py:337`).
- A sequence that is not the latest goes on after `shutdown`, and may finish an open or
  close it is waiting for, until it next looks at `_closed`. A call does so as well.
- Options edited while `async_setup_garages` is at an await are lost: the snapshot is taken
  after it and the listener is added after that (`__init__.py:261-265`).
  `RuntimeFollowsOptions` exempts exactly these edits (`missed`).
- A runtime whose `async_start` raised stays bound and is used by `async_send`, although
  `garage_setup_error` is set (`garage_runtime.py:763-771`).
- `task_in_progress` stays set when `send()` fails, so the phase is not synchronised. A door
  slower than its timeout leaves the robot resumed while the door still closes.
- `passage_allowed` and `note_command` have no caller at run time, so a `timed` binding
  never confirms anything and an estimated position stays `command_required`.
- A stage started by the service opens the door and then raises: the lambda of
  `vacuum.py:269` wants two arguments and `async_start_stage` calls it with none. So the wait
  for its completion is never reached. A controlled exit always ends at its deadline,
  since `RobotObservation` carries no position.
- The closed threshold 100 cannot be repaired in the form, which complains of the open
  one; a suggested timeout is computed before the travel is entered; a permission
  entity, once stored, cannot be cleared.

*Position and stuck detection*

- A docked robot's map may show the place of an earlier task, dated at the end of the read
  (`coordinator.py:419`). Only the dock rule keeps it from being used; when the robot leaves,
  the old place counts and the sensor may say "outside" although `binary_sensor.py:358-361`
  calls it a safety interlock. `OutsideWasTrue` therefore speaks of robots that have been
  outside since they left.
- The tolerance of the dock rule (1000) is larger than the margin of a zone, so a docked
  robot with a position beside the dock can be shown outside it.
- An idle robot's position never ages (`v1_map_position.py:160-163`); one failing trait makes
  the coordinator unavailable; the sensor is written only when a poll ends.
- The first position after an unreadable map is not compared with the backstop's region
  (`v1_stuck_detection.py:278-282`), so a robot that left it during the gap can be called
  trapped in it, and a verdict survives any jump across a gap. Hence `skipped`.
- A trapped robot that creeps out of the region, each step within the short radius, loses
  `_backstop_since` and keeps `_stuck_since`: it still counts as stuck, now as "stopped"
  (`v1_stuck_detection.py:312-316`).

*Commands*

- `last_resume_command` is noted before a pause or clean that is then refused. A resume that
  ends after a later pause was noted wipes that note; one that is accepted and ignored
  loses it. The door sequence resumes with `app_resume` even a robot that builds a map.
- A status that is returning is looked at before one that builds a map, so a robot that
  returns from it gets the wrong resume.
- `goto` is neither noted nor watched. With cloud polls of 60 seconds a watch of 60 seconds
  can end on a status older than the command, or one poll too early. A failed refresh
  lets it judge by an old status.
- A routine button needs a garage owner even where no garage is configured.
- `coordinator.vacuum_entity_id` is that of the first vacuum of the entry (`coordinator.py:484`).

*Settings, zones, options, pictures*

- Two timer entities set beside each other lose one of the two values. So may two set one after
  the other, if no whole poll has ended between them, and a timer set after a change made in
  the app, after a call that failed and took effect, or after a poll answered before the
  change: the second sends the old value of the other field. `LastSettingHolds` names these
  cases; everything else holds.
- A push of a Q10 need not hold every field (`coordinator.py:906-908`) and nothing else reads it,
  so a field whose push is lost and that is never pushed again stays old. A map selected in
  the app is shown only when the robot cleans or changes its state.
- The map select raises, and shows the old map, when the home refresh fails after the map
  has been switched. The Q7 and Q10 vacuums take a cleaning stage with one argument fewer
  than the service passes.
- `SafeZoneStore.async_load` marks itself loaded before it has awaited its storage: changes
  made during the load are overwritten by it, or overwrite the other robots' zones, and
  so do those made after a load that failed. Home Assistant's `Store` logs a failed write
  and does not raise.
- A suggested zone begins a positive margin away from the dock and so never holds it, while
  `safe_zone.py:92-93` says that "the zone contains the dock, so a docked robot is inside it and
  the door must stay open". `GarageRuntime` trusts a position only if the zone holds the charger
  (`garage_runtime.py:190-192`), so with this zone `robot_in_the_way` (`garage_runtime.py:554-565`)
  never refuses a close. This follows from the formula alone and has no model.
- A rectangle given the wrong way round is accepted and holds nothing.
- Of two options forms that are open beside each other the later save overwrites the
  other's garage. The choice of a garage without robots ends the form and drops the draft.
- A corrected picture is kept under `id()` of the raw map, which a later map may get when
  the first is freed. A picture of a map that is not the current one is corrected with the
  current map's dock. "Draw it" for a map without a position block never happens, as the
  patch needs the block; and the self-check reads back with the walk that wrote, so a wrong
  offset cannot show. The entity's time stamp does not move with the marker.

*Automations*

- A leave trigger is judged when its run begins, maybe long after it fired; a return
  trigger that finds the queue full is dropped; after a failed wait the info alert still says that the
  door is closed.
- A service that raises ends the run, as no step of the scripts has `continue_on_error`. A pause
  that took effect and lost its answer, or a `close_cover` that raised, leaves the robot paused
  and nobody is told (`held = "raised"`). A returning robot stays outside unnoticed if
  `open_cover` raises (`scripts/garage_state_machine/build.py:490`), if the position is missing when
  the run begins (`482-487`), if the cover then still echoes an earlier order to open that a jam
  defeats, or if its trigger was dropped (`missed`).
- A clean that starts while the end of the last one is recent (`QuickCleans`), or polls of
  60 seconds (`FastPolls` off), defeat the ten seconds a trigger must hold.
- Clicks queued before a command's record run can repeat or reverse that command, contrary to
  `scripts/garage_button_cycle/simulate_presses.py:13-14`; while the automation is disabled, or
  its queue full, a command is not recorded (`blind`).

## 6. Plan

Done: the door (`DoorEvidence`, `GarageControl`), setup and reload with its abstract
specification (`GarageSetup`, `DoorTenure`), stuck detection, the coordinator, the commands,
the configuration, what users set, and the generated automations.

The small machines, the coordinator, the commands and both automations are proved as well
(section 4).

Next: **composition**, with `VacuumCoordinator` in place of the free `Lag` of `GarageControl`.
