--------------------------- MODULE GarageBinding ---------------------------
(***************************************************************************)
(* What a garage binding has to say before it may move a door              *)
(* (garage_config.py), and the options form that asks for it               *)
(* (config_flow.py).                                                       *)
(*                                                                         *)
(* A draft is a function from the names of the fields that                 *)
(* have been supplied to their values.  A Boolean is "true", "false" or    *)
(* anything else; "" stands for None and the empty string; a number that   *)
(* is none, or is not finite, is one outside its range.  Every check gives *)
(* a sequence of errors, empty or of one, in the order of the code, and    *)
(* the code raises the first of them.                                      *)
(***************************************************************************)
EXTENDS DoorEvidence, SequencesExt

CONSTANTS
  Drafts,          \* the stored bindings explored
  Good,            \* what the operator enters when a field is asked for
  Patience,        \* how often the operator submits a form that is not saved
  UnusableCovers,  \* covers whose features lack open or close
  TakenCovers      \* covers another robot's enabled binding names

Sources == {"contact", "position", "timed"}
Sensors == {"binary_sensor.open", "binary_sensor.close"}
Covers == {"cover.door"} \cup UnusableCovers \cup TakenCovers

\* Names of the fields of one direction.
Field(d, what) ==
  IF d = "open"
  THEN [source |-> "open_source", contact |-> "open_contact",
        state |-> "open_contact_state", position |-> "open_position",
        travel |-> "open_travel_seconds"][what]
  ELSE [source |-> "close_source", contact |-> "close_contact",
        state |-> "close_contact_state", position |-> "close_position",
        travel |-> "close_travel_seconds"][what]

TimingFields ==
  <<"open_travel_seconds", "close_travel_seconds", "travel_margin_seconds",
    "contact_settle_seconds", "position_settle_seconds",
    "operation_timeout_seconds", "dock_settle_seconds">>

ExitFields ==
  <<"controlled_exit_x", "controlled_exit_y", "controlled_exit_timeout_seconds">>

ThresholdFields == {"open_position", "close_position"}
NumberFields == TimingFields \o ExitFields \o <<"open_position", "close_position">>
BoolFields == <<"enabled", "allow_estimated", "handover_confirmed", "controlled_exit_enabled">>
EntityFields == <<"cover_entity_id", "close_permission_entity", "open_contact", "close_contact">>
ChoiceFields ==
  <<"task_door_mode", "open_source", "close_source", "open_contact_state",
    "close_contact_state", "position_kind">>

Limits ==
  [open_travel_seconds |-> 1..600, close_travel_seconds |-> 1..600,
   travel_margin_seconds |-> 0..120, contact_settle_seconds |-> 0..60,
   position_settle_seconds |-> 0..60, operation_timeout_seconds |-> 1..1800,
   dock_settle_seconds |-> 1..300, controlled_exit_x |-> 0..65535,
   controlled_exit_y |-> 0..65535, controlled_exit_timeout_seconds |-> 10..300,
   open_position |-> 0..100, close_position |-> 0..100]

Options ==
  [task_door_mode |-> {"hold_open", "after_exit"},
   open_source |-> Sources, close_source |-> Sources,
   open_contact_state |-> {"on", "off"}, close_contact_state |-> {"on", "off"},
   position_kind |-> {"measured", "estimated"},
   cover_entity_id |-> Covers, close_permission_entity |-> {"input_boolean.close"},
   open_contact |-> Sensors, close_contact |-> Sensors]

VARIABLES
  form,            \* the form that is open: its step, draft, fields and complaint
  tries            \* history: how often this flow has been submitted

-----------------------------------------------------------------------------
(* Reading a draft. *)

Has(b, f) == f \in DOMAIN b
Text(b, f) == IF Has(b, f) THEN b[f] ELSE ""
On(b, f) == Text(b, f) = "true"
InRange(b, f) == Has(b, f) /\ b[f] \in Limits[f]
Number(b, f) == IF InRange(b, f) THEN b[f] ELSE 0

Source(b, d) == Text(b, Field(d, "source"))
UsesPosition(b) == \E d \in Direction : Source(b, d) = "position"
Estimates(b, d) ==
  \/ Source(b, d) = "timed"
  \/ Source(b, d) = "position" /\ Text(b, "position_kind") = "estimated"

\* required_timing_fields: the timings the selected evidence consumes.
NeededTimings(b) ==
  {"operation_timeout_seconds", "dock_settle_seconds"}
    \cup {"contact_settle_seconds" : d \in {x \in Direction : Source(b, x) = "contact"}}
    \cup {"position_settle_seconds" : d \in {x \in Direction : Source(b, x) = "position"}}
    \cup UNION {{Field(d, "travel"), "travel_margin_seconds"} :
                  d \in {x \in Direction : Estimates(b, x)}}

\* _endpoint_wait: the longest this endpoint can take to be believed.
Settling(b, d) ==
  CASE Source(b, d) = "contact"  -> Number(b, "contact_settle_seconds")
    [] Source(b, d) = "position" -> Number(b, "position_settle_seconds")
    [] OTHER -> 0

Travelling(b, d) ==
  IF Estimates(b, d)
  THEN Number(b, Field(d, "travel")) + Number(b, "travel_margin_seconds")
  ELSE 0

EndpointWait(b, d) == Settling(b, d) + Travelling(b, d)

LongestWait(b) ==
  LET o == EndpointWait(b, "open")
      c == EndpointWait(b, "close")
  IN IF o > c THEN o ELSE c

-----------------------------------------------------------------------------
(* validate_binding. *)

Raise(bad, reason, field) ==
  IF bad THEN <<[reason |-> reason, field |-> field]>> ELSE <<>>

\* The first of fields that is bad, with its reason.
Each(fields, Bad(_), Why(_)) ==
  LET bad == {i \in DOMAIN fields : Bad(fields[i])}
      first == fields[Min(bad)]
  IN Raise(bad # {}, Why(first), first)

\* _number on those of fields that have to be there.
Numeric(b, fields, needed) ==
  Each(fields, LAMBDA f : f \in needed /\ ~InRange(b, f),
       LAMBDA f : IF Has(b, f) THEN "invalid_numeric_value" ELSE "missing_safety_configuration")

Thresholds(b) ==
  Raise(/\ InRange(b, "open_position") /\ InRange(b, "close_position")
        /\ b["close_position"] >= b["open_position"],
        "invalid_position_thresholds", "open_position")

Reason(f) ==
  CASE f = "task_door_mode" -> "invalid_task_door_mode"
    [] f \in {"open_source", "close_source"} -> "invalid_evidence_source"
    [] f \in {"open_contact_state", "close_contact_state"} -> "invalid_contact_configuration"
    [] f = "position_kind" -> "invalid_position_configuration"
    [] OTHER -> "invalid_entity_reference"

\* _validate_supplied_fields: what is wrong with a draft, complete or not.
SuppliedErrors(b) ==
  LET unknown(f)  == Text(b, f) \notin {""} \cup Options[f]
  IN Each(BoolFields, LAMBDA f : Has(b, f) /\ b[f] \notin {"true", "false"},
          LAMBDA f : "invalid_boolean_value")
       \o Numeric(b, NumberFields, DOMAIN b) \o Thresholds(b)
       \o Each(EntityFields, unknown, Reason) \o Each(ChoiceFields, unknown, Reason)
       \o Raise(Text(b, "open_contact") # "" /\ Text(b, "open_contact") = Text(b, "close_contact"),
                "duplicate_endpoint", "close_contact")

ContactErrors(b, d) ==
  Raise(\/ Text(b, Field(d, "contact")) = ""
        \/ Text(b, Field(d, "state")) \notin {"on", "off"},
        "invalid_contact_configuration", Field(d, "contact"))

SourceErrors(b, d) ==
  LET f == Field(d, "source") IN
    Raise(~Has(b, f), "missing_safety_configuration", f)
      \o Raise(Source(b, d) \notin Sources, "invalid_evidence_source", f)

PositionErrors(b) ==
  Raise(Text(b, "position_kind") \notin {"measured", "estimated"},
        "invalid_position_configuration", "position_kind")
    \o Numeric(b, <<"close_position", "open_position">>, ThresholdFields) \o Thresholds(b)

\* The timeout is not compared with the waits.
TimingErrorsUnbounded(b) ==
  Numeric(b, TimingFields, NeededTimings(b))

TimingErrors(b) ==
  Numeric(b, TimingFields, NeededTimings(b))
    \o Raise(Number(b, "operation_timeout_seconds") <= LongestWait(b),
             "operation_timeout_too_short", "operation_timeout_seconds")

\* What validate_binding asks only of an enabled binding.
EnabledErrors(b, supported) ==
  LET side(d) == SourceErrors(b, d)
                   \o (IF Source(b, d) = "contact" THEN ContactErrors(b, d) ELSE <<>>)
  IN Raise(~supported, "unsupported_robot", "none")
       \o Raise(Has(b, "task_door_mode") /\ Text(b, "task_door_mode") = "",
                "invalid_task_door_mode", "task_door_mode")
       \o Raise(~Has(b, "cover_entity_id"), "missing_safety_configuration", "cover_entity_id")
       \o Raise(Text(b, "cover_entity_id") = "", "invalid_entity_reference", "cover_entity_id")
       \o side("open") \o side("close")
       \o (IF UsesPosition(b) THEN PositionErrors(b) ELSE <<>>)
       \o Raise(~On(b, "allow_estimated") /\ \E d \in Direction : Estimates(b, d),
                "estimated_risk_not_accepted", "allow_estimated")
       \o TimingErrors(b)
       \o Raise(~On(b, "handover_confirmed"), "handover_required", "handover_confirmed")
       \o (IF On(b, "controlled_exit_enabled") 
           THEN Each(ExitFields, LAMBDA f : ~Has(b, f), LAMBDA f : "missing_controlled_exit_target")
           ELSE <<>>)

BindingErrors(b, supported) ==
  SuppliedErrors(b) \o (IF On(b, "enabled") THEN EnabledErrors(b, supported) ELSE <<>>)

\* resolve_binding: the binding gives its robot a runtime.
Accepted(b, version) ==
  BindingErrors(b, TRUE) = <<>> /\ On(b, "enabled") /\ version = 1

-----------------------------------------------------------------------------
(* What the evidence reads from a binding, by checks of its own. *)

PositionReadable(b) ==
  /\ Text(b, "position_kind") \in {"measured", "estimated"}
  /\ InRange(b, "open_position") /\ InRange(b, "close_position")
  /\ b["close_position"] < b["open_position"]
  /\ InRange(b, "position_settle_seconds")

EvidenceOf(b) ==
  [source |-> [d \in Direction |->
                 IF Source(b, d) \in Sources THEN Source(b, d) ELSE "invalid"],
   polarity |-> [d \in Direction |->
                   IF /\ Text(b, Field(d, "contact")) \in Sensors
                      /\ Text(b, Field(d, "state")) \in {"on", "off"}
                   THEN Text(b, Field(d, "state")) ELSE "invalid"],
   kind |-> IF PositionReadable(b) THEN Text(b, "position_kind") ELSE "invalid",
   openAt |-> IF PositionReadable(b) THEN b["open_position"] ELSE 100,
   closeAt |-> IF PositionReadable(b) THEN b["close_position"] ELSE 0,
   settle |-> Number(b, "position_settle_seconds"),
   travel |-> [d \in Direction |->
                 IF InRange(b, "travel_margin_seconds") THEN Number(b, Field(d, "travel")) ELSE 0],
   margin |-> Number(b, "travel_margin_seconds"),
   allow |-> On(b, "allow_estimated")]

-----------------------------------------------------------------------------
(* The options form of one robot: its three steps and the save. *)

Steps == <<"garage", "garage_feedback", "garage_timing">>

FeedbackFields(b) ==
  (UNION {{Field(d, "contact"), Field(d, "state")} :
            d \in {x \in Direction : Source(b, x) = "contact"}})
    \cup (IF UsesPosition(b) THEN {"position_kind", "open_position", "close_position"} ELSE {})

\* _garage_fields: what a step shows for the draft as it stands.
Shown(step, b) ==
  CASE step = "garage" ->
         {"enabled", "cover_entity_id", "task_door_mode", "open_source",
          "close_source", "close_permission_entity"}
    [] step = "garage_feedback" -> FeedbackFields(b)
    [] OTHER ->
         NeededTimings(b)
           \cup (IF \E d \in Direction : Estimates(b, d) THEN {"allow_estimated"} ELSE {})
           \cup {"handover_confirmed", "controlled_exit_enabled"}
           \cup (IF On(b, "controlled_exit_enabled") THEN ToSet(ExitFields) ELSE {})

Page(step, b, fields, error) == [step |-> step, draft |-> b, fields |-> fields, error |-> error]
Ask(step, b) == Page(step, b, Shown(step, b), "none")
Done(b) == Page("saved", b, {}, "none")

HardwareFields ==
  {"open_contact", "close_contact", "open_contact_state", "close_contact_state",
   "position_kind", "open_position", "close_position"}

\* An error in a field no step shows is answered with the last step.
ErrorFormActiveOnly(b, e) ==
  LET shows(s) == e.field \in Shown(s, b)
      step == IF shows("garage") THEN "garage"
              ELSE IF shows("garage_feedback") THEN "garage_feedback" ELSE "garage_timing"
  IN Page(step, b, Shown(step, b), e.field)

\* _garage_error_form: a field no step shows is added to the step it belongs to.
ErrorForm(b, e) ==
  LET shows(s) == e.field \in Shown(s, b)
      step == IF shows("garage") THEN "garage"
              ELSE IF shows("garage_feedback")
                        \/ (e.field \in HardwareFields /\ ~shows("garage_timing"))
              THEN "garage_feedback" ELSE "garage_timing"
  IN Page(step, b, Shown(step, b) \cup ({e.field} \ {"none"}), e.field)

\* _save_garage_binding with the two checks that ask the rest of the system.
SaveErrors(b, supported) ==
  BindingErrors(b, supported)
    \o (IF On(b, "enabled")
        THEN Raise(Text(b, "cover_entity_id") \in UnusableCovers, "unsupported_cover", "cover_entity_id")
               \o Raise(Text(b, "cover_entity_id") \in TakenCovers, "duplicate_binding", "cover_entity_id")
        ELSE <<>>)

Answered(b, errors, next) == IF errors # <<>> THEN ErrorForm(b, Head(errors)) ELSE next

Save(b, supported) == Answered(b, SaveErrors(b, supported), Done(b))

\* async_step_garage with a submission already merged into the draft.
SubmitBasics(b, supported) ==
  LET cover == "cover_entity_id"
      needs == Raise(Text(b, cover) = "", "missing_safety_configuration", cover)
                 \o Raise(Has(b, "task_door_mode") /\ Text(b, "task_door_mode") = "",
                          "invalid_task_door_mode", "task_door_mode")
                 \o SourceErrors(b, "open") \o SourceErrors(b, "close")
  IN Answered(b, SuppliedErrors(b),
       IF ~On(b, "enabled") THEN Save(b, supported)
       ELSE Answered(b, needs,
              Ask(IF FeedbackFields(b) # {} THEN "garage_feedback" ELSE "garage_timing", b)))

SubmitFeedback(b) ==
  LET contact(d) == IF Source(b, d) = "contact" THEN ContactErrors(b, d) ELSE <<>>
      position ==
        IF ~UsesPosition(b) THEN <<>>
        ELSE Raise(Text(b, "position_kind") \notin {"measured", "estimated"},
                   "invalid_position_configuration", "position_kind")
               \o Numeric(b, <<"open_position", "close_position">>, ThresholdFields)
  IN Answered(b, SuppliedErrors(b) \o contact("open") \o contact("close") \o position,
              Ask("garage_timing", b))

Submit(step, b, supported) ==
  CASE step = "garage"          -> SubmitBasics(b, supported)
    [] step = "garage_feedback" -> SubmitFeedback(b)
    [] step = "garage_timing"   -> Save(b, supported)

-----------------------------------------------------------------------------
(* The operator, who corrects what a form complains of and nothing else. *)

\* suggested_timing_values: what the last step proposes for a missing timing.
Suggested(b) ==
  LET policy == [travel_margin_seconds |-> 10, contact_settle_seconds |-> 0,
                 position_settle_seconds |-> 2, dock_settle_seconds |-> 5]
      filled == b @@ [f \in DOMAIN policy \cap NeededTimings(b) |-> policy[f]]
      used(d) == NeededTimings([f \in {Field(d, "source"), "position_kind"} |-> Text(b, f)])
                   \ {"operation_timeout_seconds", "dock_settle_seconds"}
      known  == {d \in Direction : Source(b, d) \in Sources
                                     /\ \A f \in used(d) : InRange(filled, f)}
      timeout == Max({90} \cup {EndpointWait(filled, d) + 30 : d \in known})
  IN [f \in DOMAIN policy \cup {"operation_timeout_seconds"} |->
        IF f \in DOMAIN policy THEN policy[f] ELSE timeout]

Fits(b, f) ==
  CASE f \in DOMAIN Limits     -> InRange(b, f)
    [] f \in ToSet(BoolFields) -> Has(b, f) /\ b[f] \in {"true", "false"}
    [] OTHER                   -> Has(b, f) /\ b[f] \in Options[f]

\* A field the form lets through empty and gives no default.
MayStayEmpty(b, f) ==
  /\ f \in {"cover_entity_id", "open_source", "close_source", "close_permission_entity"}
  /\ Text(b, f) = ""

\* The thresholds are judged together and corrected together.
Blamed(error) ==
  IF error = "open_position" THEN {"open_position", "close_position"} ELSE {error}

\* What the operator enters is right: the thresholds as far apart as the scale, at least
\* at its open end, and a timeout longer than any door may take.
ASSUME FormAssumption ==
  /\ "" \notin Covers
  /\ \A f \in DOMAIN Limits \cup ToSet(BoolFields) \cup DOMAIN Options : Fits(Good, f)
  /\ Good["cover_entity_id"] \notin UnusableCovers \cup TakenCovers
  /\ On(Good, "allow_estimated") /\ On(Good, "handover_confirmed")
  /\ Good["open_position"] = 100 /\ Good["close_position"] < 100
  /\ Good["operation_timeout_seconds"] > 600 + 120 + 60

\* A correction, which for a contact is one the other end does not use.
Entered(b, f) ==
  CASE f = "open_contact" ->
         CHOOSE s \in Sensors : s # Text(b, "close_contact")
    [] f = "close_contact" ->
         CHOOSE s \in Sensors : s # Text(b, "open_contact")
    [] OTHER -> Good[f]

\* What is sent back: the values shown, the form's defaults for what is missing,
\* and a new value where the form complains or has nothing valid to show.
Answer(page) ==
  LET b == page.draft
      left == {f \in page.fields : MayStayEmpty(b, f) /\ f # page.error}
      sent(f) ==
        IF f \in Blamed(page.error) THEN Entered(b, f)
        ELSE IF Fits(b, f) THEN b[f]
        ELSE IF ~Has(b, f) /\ f \in ToSet(BoolFields) THEN "false"
        ELSE IF ~Has(b, f) /\ f \in DOMAIN Suggested(b) THEN Suggested(b)[f]
        ELSE Entered(b, f)
      shown == page.fields \ left
  IN [f \in DOMAIN b \cup shown |-> IF f \in shown THEN sent(f) ELSE b[f]]

NoForm == Page("none", [f \in {} |-> ""], {}, "none")
FormOpen == form.step \in ToSet(Steps)

\* The form is opened on whatever the entry stores for the robot.
OpenForm == tries = 0 /\ \E b \in Drafts : form = Ask("garage", b)

\* One submission, whose values are merged into the draft before any check.
SubmitForm ==
  /\ FormOpen /\ tries < Patience
  /\ form' = Submit(form.step, Answer(form), TRUE)
  /\ tries' = tries + 1

\* The operator closes the form: nothing is stored.
CloseForm == FormOpen /\ form' = NoForm /\ tries' = 0

\* The next flow starts from a copy of what this one has saved.
ReopenForm ==
  form.step = "saved" /\ form' = Ask("garage", form.draft) /\ tries' = 0

FormNext == SubmitForm \/ CloseForm \/ ReopenForm
FormSpec == OpenForm /\ [][FormNext]_<<form, tries>>

-----------------------------------------------------------------------------
(* Properties. *)

\* A binding that is given a runtime can be read and believed: the evidence,
\* which checks the same fields by rules of its own, never finds it invalid,
\* and an end that is really reached is believed within the timeout of an
\* operation, once its command has been noted (garage_config.py:178-240,
\* door_evidence.py:196-282).
AcceptedIsBelievable ==
  Accepted(form.draft, 1) => \A d \in Direction :
    LET b == form.draft
        e == EvidenceOf(b)
        cmd == [direction |-> d, at |-> 0]
        late == Number(b, "operation_timeout_seconds") - 1
        end(now, in) == Endpoint(e, d, now, cmd, Travelling(b, d), in).ev
    IN /\ e \in BindingType
       /\ \A in \in ReadingsOf(e) : end(0, in).reason # "invalid_configuration"
       /\ \E in \in ReadingsOf(e) :
            end(late, in).reached = "yes" /\ (end(late, in).quality = "estimated" => e.allow)

\* Whatever binding is stored, an operator who corrects what the form complains
\* of gets it saved in a few submissions, and if enabled then accepted: no field
\* that hinders the save stays hidden (config_flow.py:785-798).  The exception is
\* a closed threshold of 100 per cent: the complaint is of the open one, which
\* cannot be above it.
EveryDraftCanBeSaved ==
  Number(form.draft, "close_position") < 100 =>
    /\ tries = Patience => form.step = "saved"
    /\ (form.step = "saved" /\ On(form.draft, "enabled")) => Accepted(form.draft, 1)
=============================================================================
