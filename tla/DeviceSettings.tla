---------------------------- MODULE DeviceSettings ----------------------------
(***************************************************************************)
(* The settings of a device, as its entities set and show them.  Every     *)
(* family has its own way: what is sent, what is read afterwards, by whom, *)
(* and what an error does on the way.                                      *)
(*                                                                         *)
(*   timer  a V1 timer (do not disturb, off-peak): three entities that     *)
(*          write the whole timer, two of its fields from the trait, which *)
(*          only a whole poll reads                                        *)
(*   v1     other V1 settings         map  the selected map of a V1 robot  *)
(*   q7     B01 Q7                    zeo  A01                             *)
(*   q10    B01 Q10: it pushes its state in parts, none of which has to    *)
(*          hold every field, and a poll only asks for such a push         *)
(***************************************************************************)
EXTENDS Integers, Sequences

CONSTANTS
  Families,     \* the families that are checked
  MaxSets,      \* bound: service calls
  MaxTroubles   \* bound: commands, answers, reads and pushes lost, settings made elsewhere

ASSUME SettingAssumption == MaxSets \in Nat /\ MaxTroubles \in Nat

NoValue == "none"
Values == {"low", "high"}
Sets == 1..MaxSets
Readers == 0..MaxSets   \* the poll of the coordinator, and each call
V1Families == {"timer", "v1", "map"}

VARIABLES
  family,     \* of the device
  device,     \* its settings
  shown,      \* what the entities show: the trait, or the data of the coordinator
  available,  \* last_update_success
  reader,     \* each read under way: what it was answered, if it was
  pushes,     \* parts of the settings pushed and not yet arrived
  set,        \* where each service call stands
  troubles,   \* troubles left
  wanted,     \* history: of each field, the value it was last given, if it was not lost
  polled,     \* history: has a whole poll begun, and ended, since the device was last changed?
  blurred     \* history: calls for a timer beside another change of it, or on an old trait

settingVars ==
  <<family, device, shown, available, reader, pushes, set, troubles, wanted, polled, blurred>>

Fields == DOMAIN device

-----------------------------------------------------------------------------
(* The entities. *)

\* A timer is sent as a whole, of the trait as it is (update_value of
\* TIME_DESCRIPTIONS); any other setting by itself.
Setting(field, value) ==
  IF family = "timer" THEN [shown EXCEPT ![field] = value] ELSE [f \in {field} |-> value]

Overlaid(all, part) == [f \in DOMAIN all |-> IF f \in DOMAIN part THEN part[f] ELSE all[f]]

NoCall == [at |-> "idle", kind |-> "none", field |-> "none", sends |-> {}]
Under(c) == set[c].at \in {"sending", "reading"}
Finishes(c, at) == set' = [set EXCEPT ![c] = [NoCall EXCEPT !.at = at]]

NoRead == [at |-> "off", got |-> {}]
Asking == [NoRead EXCEPT !.at = "asking"]

Trouble == troubles > 0 /\ troubles' = troubles - 1

Turn(c) == set[c].at = "idle" /\ (c > 1 => set[c - 1].at # "idle")

Begin(c, kind, field, value) ==
  /\ Turn(c)
  /\ set' = [set EXCEPT ![c] =
       [at |-> "sending", kind |-> kind, field |-> field, sends |-> {Setting(field, value)}]]
  /\ LET beside == {d \in Sets : Under(d)}
         old == shown # device /\ polled # "yes"
     IN blurred' = IF family # "timer" THEN blurred
                   ELSE blurred \cup beside \cup (IF beside # {} \/ old THEN {c} ELSE {})
  /\ UNCHANGED <<family, device, shown, available, reader, pushes, troubles, wanted, polled>>

\* The services, by what follows the command: nothing, a refresh of the coordinator or
\* the home trait.  A refresh that an A01 entity requests, a button after a failure as
\* well, is a poll that comes early.
SetTime(c, field, value) == family = "timer" /\ field # "enabled" /\ Begin(c, "plain", field, value)
TurnV1(c, field, value) ==
  family \in {"timer", "v1"} /\ field \in {"enabled", "value"} /\ Begin(c, "plain", field, value)
SelectV1(c, field, value) == family = "v1" /\ Begin(c, "refresh", field, value)
SetNumber(c, field, value) == family = "v1" /\ Begin(c, "plain", field, value)
ResetConsumable(c, field, value) == family = "v1" /\ Begin(c, "plain", field, value)
SelectMap(c, field, value) == family = "map" /\ Begin(c, "home", field, value)
SelectQ7(c, field, value) == family = "q7" /\ Begin(c, "refresh", field, value)
CommandQ7(c, field, value) == family = "q7" /\ Begin(c, "plain", field, value)
SelectA01(c, field, value) == family = "zeo" /\ Begin(c, "plain", field, value)
TurnA01(c, field, value) == family = "zeo" /\ Begin(c, "plain", field, value)
PressA01(c, field, value) == family = "zeo" /\ Begin(c, "plain", field, value)
SelectQ10(c, field, value) == family = "q10" /\ Begin(c, "plain", field, value)
PressQ10(c, field, value) == family = "q10" /\ Begin(c, "plain", field, value)
CommandQ10(c, field, value) == family = "q10" /\ Begin(c, "plain", field, value)

Services(c, field, value) ==
  \/ SetTime(c, field, value) \/ TurnV1(c, field, value) \/ SelectV1(c, field, value)
  \/ SetNumber(c, field, value) \/ ResetConsumable(c, field, value) \/ SelectMap(c, field, value)
  \/ SelectQ7(c, field, value) \/ CommandQ7(c, field, value)
  \/ SelectA01(c, field, value) \/ TurnA01(c, field, value) \/ PressA01(c, field, value)
  \/ SelectQ10(c, field, value) \/ PressQ10(c, field, value) \/ CommandQ10(c, field, value)

\* A service that a protocol does not have, an option, a fan speed or a command that it
\* does not know: refused before anything is sent.
Refuse(c) ==
  /\ Turn(c) /\ Finishes(c, "failed")
  /\ UNCHANGED <<family, device, shown, available, reader, pushes, troubles, wanted, polled, blurred>>
RefuseA01(c) == family = "zeo" /\ Refuse(c)
RefuseQ7(c) == family = "q7" /\ Refuse(c)
RefuseQ10(c) == family = "q10" /\ Refuse(c)

Part(fields) == [f \in fields |-> device[f]]

\* A device that pushes does so when it changes, with the fields it chooses.
Pushed ==
  IF family = "q10" /\ device' # device
  THEN \E fields \in SUBSET Fields : pushes' = Append(pushes, Part(fields)')
  ELSE UNCHANGED pushes

\* The command takes effect and is answered; a trait may update itself then.
Sent(c) ==
  /\ set[c].at = "sending" /\ Len(pushes) < 2
  /\ \E s \in set[c].sends : device' = Overlaid(device, s)
  /\ Pushed
  /\ IF set[c].kind \in {"refresh", "home"}
     THEN set' = [set EXCEPT ![c].at = "reading"] /\ reader' = [reader EXCEPT ![c] = Asking]
     ELSE Finishes(c, "over") /\ UNCHANGED reader
  /\ shown' \in {shown} \cup (IF family \in {"timer", "v1"} /\ set[c].kind = "plain" THEN {device'} ELSE {})
  /\ wanted' = IF c \in blurred THEN [f \in Fields |-> NoValue]
               ELSE [wanted EXCEPT ![set[c].field] = device'[set[c].field]]
  /\ polled' = "no"
  /\ UNCHANGED <<family, available, troubles, blurred>>

\* The command or its answer is lost: the call raises.
NotSent(c) ==
  /\ set[c].at = "sending" /\ Len(pushes) < 2 /\ Trouble
  /\ device' = device \/ \E s \in set[c].sends : device' = Overlaid(device, s)
  /\ Pushed
  /\ Finishes(c, "failed")
  /\ wanted' = IF c \in blurred THEN [f \in Fields |-> NoValue] ELSE [wanted EXCEPT ![set[c].field] = NoValue]
  /\ polled' = "no"
  /\ UNCHANGED <<family, shown, available, reader, blurred>>

-----------------------------------------------------------------------------
(* The reads. *)

PollStarts ==
  /\ reader[0].at = "off" /\ reader' = [reader EXCEPT ![0] = Asking]
  /\ polled' = IF polled = "no" THEN "asked" ELSE polled
  /\ UNCHANGED <<family, device, shown, available, pushes, set, troubles, wanted, blurred>>

\* A reader is done; the call it belongs to ends with it.
Done(r, at) ==
  /\ reader' = [reader EXCEPT ![r] = NoRead]
  /\ IF r = 0 THEN UNCHANGED set ELSE Finishes(r, at)

Reads(r) ==
  /\ reader[r].at = "asking"
  /\ reader' = [reader EXCEPT ![r] = [at |-> "got", got |-> {device}]]
  /\ UNCHANGED <<family, device, shown, available, pushes, set, troubles, wanted, polled, blurred>>

\* Of the coordinators, and of the home trait; with the timers left out of the traits
\* that are read; and with what is there taken for the answer.
ReadsV1Forgetting(r) ==
  /\ family \in V1Families /\ reader[r].at = "asking"
  /\ reader' = [reader EXCEPT ![r] = [at |-> "got", got |-> {IF family = "timer" THEN shown ELSE device}]]
  /\ UNCHANGED <<family, device, shown, available, pushes, set, troubles, wanted, polled, blurred>>
ReadsV1(r) == family \in V1Families /\ Reads(r)
ReadsZeo(r) == family = "zeo" /\ Reads(r)
ReadsQ7Kept(r) ==
  /\ family = "q7" /\ reader[r].at = "asking"
  /\ reader' = [reader EXCEPT ![r] = [at |-> "got", got |-> {shown}]]
  /\ UNCHANGED <<family, device, shown, available, pushes, set, troubles, wanted, polled, blurred>>
ReadsQ7(r) == family = "q7" /\ Reads(r)

Shows(r) ==
  /\ reader[r].at = "got" /\ shown' \in reader[r].got
  /\ available' = TRUE /\ Done(r, "over")
  /\ polled' = IF r = 0 /\ polled = "asked" THEN "yes" ELSE polled
  /\ UNCHANGED <<family, device, pushes, troubles, wanted, blurred>>

\* A poll that was not a whole one.
Missed(r) == polled' = IF r = 0 /\ polled = "asked" THEN "no" ELSE polled

\* Most polls of a V1 robot read its status alone, and the home trait only when it cleans
\* or its state has changed.
ReadsStatus(r) ==
  /\ family \in V1Families /\ reader[r].at = "asking" /\ (r > 0 => set[r].kind = "refresh")
  /\ available' = TRUE /\ Done(r, "over") /\ Missed(r)
  /\ UNCHANGED <<family, device, shown, pushes, troubles, wanted, blurred>>

\* The poll of a Q10 asks for a push and does not wait for it.
Solicits ==
  /\ reader[0].at = "asking" /\ family = "q10" /\ Len(pushes) < 2
  /\ \E fields \in SUBSET Fields : pushes' = Append(pushes, Part(fields))
  /\ available' = TRUE /\ Done(0, "over") /\ Missed(0)
  /\ UNCHANGED <<family, device, shown, troubles, wanted, blurred>>

\* A read fails or brings no data: UpdateFailed, which only the home trait raises in
\* its caller; a V1 coordinator may hide it for a while, and may have read some traits.
ReadFails(r) ==
  /\ reader[r].at # "off" /\ Trouble
  /\ available' \in {FALSE, available /\ family \in V1Families}
  /\ shown' \in {shown} \cup (IF family \in V1Families THEN reader[r].got ELSE {})
  /\ Done(r, IF r > 0 /\ set[r].kind = "home" THEN "failed" ELSE "over") /\ Missed(r)
  /\ UNCHANGED <<family, device, pushes, wanted, blurred>>

\* The listener of a trait, and an entity that has none.
PushArrivesUnheard ==
  /\ pushes # <<>> /\ pushes' = Tail(pushes)
  /\ UNCHANGED <<family, device, shown, available, reader, set, troubles, wanted, polled, blurred>>
PushArrives ==
  /\ pushes # <<>> /\ shown' = Overlaid(shown, Head(pushes)) /\ pushes' = Tail(pushes)
  /\ UNCHANGED <<family, device, available, reader, set, troubles, wanted, polled, blurred>>

PushLost ==
  /\ pushes # <<>> /\ Trouble /\ pushes' = Tail(pushes)
  /\ UNCHANGED <<family, device, shown, available, reader, set, wanted, polled, blurred>>

\* A setting is made at the device or in its app.
Elsewhere(field, value) ==
  /\ Trouble /\ device[field] # value /\ Len(pushes) < 2
  /\ device' = [device EXCEPT ![field] = value] /\ Pushed
  /\ wanted' = [wanted EXCEPT ![field] = value] /\ polled' = "no"
  /\ blurred' = IF family = "timer" THEN blurred \cup {c \in Sets : Under(c)} ELSE blurred
  /\ UNCHANGED <<family, shown, available, reader, set>>

-----------------------------------------------------------------------------

SettingInit ==
  /\ family \in Families
  /\ device \in [CASE family = "timer" -> {"enabled", "start", "end"}
                   [] family = "q10" -> {"value", "fan"}
                   [] OTHER -> {"value"} -> {"low"}]
  /\ shown = device /\ available = TRUE
  /\ reader = [r \in Readers |-> NoRead] /\ pushes = <<>>
  /\ set = [c \in Sets |-> NoCall] /\ troubles = MaxTroubles
  /\ wanted = [f \in Fields |-> NoValue] /\ polled = "yes" /\ blurred = {}

\* What the coordinators and the transport do by themselves.
Reading ==
  \/ PollStarts \/ Solicits \/ PushArrives
  \/ \E r \in Readers : ReadsV1(r) \/ ReadsZeo(r) \/ ReadsQ7(r) \/ ReadsStatus(r) \/ Shows(r)

SettingNext ==
  \/ \E c \in Sets :
       \/ \E field \in Fields, value \in Values : Services(c, field, value)
       \/ RefuseA01(c) \/ RefuseQ7(c) \/ RefuseQ10(c)
       \/ Sent(c) \/ NotSent(c)
  \/ Reading
  \/ \E r \in Readers : ReadFails(r)
  \/ PushLost
  \/ \E field \in Fields, value \in Values : Elsewhere(field, value)

SettingSpec == SettingInit /\ [][SettingNext]_settingVars

-----------------------------------------------------------------------------
(* Properties. *)

\* What a field was given, by a call or elsewhere, it keeps until it is given something
\* else: a timer's start, end and switch do not undo each other, and no poll, push or
\* failed call undoes any.  The code does lose settings of a timer, and these are the
\* cases: a call that runs beside another one or beside a change made elsewhere, and a
\* call on a trait behind the device - after a call that did not update it, one that
\* failed and took effect, a poll answered before a change, a change made elsewhere - up
\* to the end of the first whole poll begun after the change (time.py:42-117,
\* switch.py:150-168, coordinator.py:274-297).
LastSettingHolds ==
  \A f \in Fields : wanted[f] # NoValue => device[f] = wanted[f]

\* Whatever is lost and in whatever order reads and answers come, a device that is read
\* comes to be shown as it is, and every device stays available (coordinator.py:274-331,
\* 733-743, 851-917).
Polled == {"timer", "v1", "q7", "zeo"}
ShownSettles == <>[](available /\ (family \in Polled => shown = device))

\* Of a Q10, and of the map of a robot, which nothing reads at fixed times, so much is
\* true: a field which a push or a read brings again and again, however rarely and with
\* whatever others, is shown as it is in the end (coordinator.py:903-917, select.py:495-500,
\* vacuum.py:1077-1082).
Brought(f) ==
  \/ pushes # <<>> /\ f \in DOMAIN Head(pushes)
  \/ family # "q10" /\ \E r \in Readers : reader[r].at = "got"
BroughtIsShown ==
  \A f \in {"value", "fan"} : []<>Brought(f) => <>[](f \in Fields => shown[f] = device[f])
=============================================================================
