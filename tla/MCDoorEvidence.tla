--------------------------- MODULE MCDoorEvidence ---------------------------
(* Small bindings for DoorEvidence, one of each kind the configuration allows, *)
(* and the drafts such bindings are made of: either the evidence is observed   *)
(* or a form is open.                                                          *)
EXTENDS GarageBinding

Contacts == [d \in Direction |-> "contact"]
Both(x) == [d \in Direction |-> x]
Ends(o, c) == [d \in Direction |-> IF d = "open" THEN o ELSE c]

Base ==
  [source |-> Contacts, polarity |-> Ends("on", "off"), kind |-> "measured",
   openAt |-> 100, closeAt |-> 0, settle |-> 1,
   travel |-> Ends(1, 2), margin |-> 1, allow |-> TRUE]

MCBindings ==
  {Base,
   [Base EXCEPT !.source = Both("position"), !.settle = 2],
   [Base EXCEPT !.source = Both("position"), !.kind = "estimated"],
   [Base EXCEPT !.source = Ends("contact", "position"), !.kind = "estimated"],
   [Base EXCEPT !.source = Ends("timed", "contact")],
   [Base EXCEPT !.source = Both("timed"), !.travel = Ends(1, 0), !.allow = FALSE],
   [Base EXCEPT !.source = Ends("position", "invalid"), !.kind = "invalid"],
   [Base EXCEPT !.source = Ends("contact", "timed"), !.polarity = Ends("invalid", "on")]}

MCPositions == {0, 50, 100}

MCGood ==
  [enabled |-> "true", allow_estimated |-> "true", handover_confirmed |-> "true",
   controlled_exit_enabled |-> "true", cover_entity_id |-> "cover.door",
   close_permission_entity |-> "input_boolean.close", task_door_mode |-> "hold_open",
   open_source |-> "contact", close_source |-> "contact",
   open_contact |-> "binary_sensor.open", close_contact |-> "binary_sensor.close",
   open_contact_state |-> "on", close_contact_state |-> "off",
   position_kind |-> "measured", open_position |-> 100, close_position |-> 0,
   open_travel_seconds |-> 600, close_travel_seconds |-> 34,
   travel_margin_seconds |-> 120, contact_settle_seconds |-> 60,
   position_settle_seconds |-> 60, operation_timeout_seconds |-> 1800,
   dock_settle_seconds |-> 300, controlled_exit_x |-> 25696,
   controlled_exit_y |-> 26500, controlled_exit_timeout_seconds |-> 120]

\* Complete bindings of every combination of evidence.
MCComplete ==
  {[MCGood EXCEPT !.open_source = o, !.close_source = c, !.position_kind = k] :
     o \in Sources, c \in Sources, k \in {"measured", "estimated"}}

\* Values a field can hold that somebody has to correct, or that are on a limit.
Odd(f) ==
  CASE f \in ToSet(NumberFields) ->
         {-1, 0, 1, 60, 61, 100, 600, 601, 660, 780, 781}
    [] f \in ToSet(BoolFields) -> {"false", "junk"}
    [] OTHER -> {"", "junk"} \cup Options[f]

Without(b, f) == [g \in DOMAIN b \ {f} |-> b[g]]
Varied(b) ==
  UNION {{Without(b, f)} \cup {[b EXCEPT ![f] = v] : v \in Odd(f)} : f \in DOMAIN b}

\* One field off in bindings of every kind and in disabled ones, two fields
\* missing, and a new robot.
MCDrafts ==
  {[f \in {} |-> ""], [f \in {"enabled"} |-> "true"]}
    \cup UNION {Varied(b) : b \in MCComplete}
    \cup UNION {Varied([MCGood EXCEPT !.enabled = e, !.controlled_exit_enabled = "false",
                                     !.open_source = "timed"]) : e \in {"true", "false"}}
    \cup UNION {{Without(Without(MCGood, f), g) : g \in DOMAIN MCGood} : f \in DOMAIN MCGood}

MCUnusable == {"cover.still"}
MCTaken == {"cover.taken"}

MCInit ==
  /\ Init
  /\ \/ form = NoForm /\ tries = 0
     \/ binding = Base /\ OpenForm

Observing == form = NoForm /\ Next /\ UNCHANGED <<form, tries>>
Forms == FormNext /\ UNCHANGED vars

MCSpec == MCInit /\ [][Observing \/ Forms]_<<vars, form, tries>>
=============================================================================
