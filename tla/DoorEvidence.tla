---------------------------- MODULE DoorEvidence ----------------------------
(***************************************************************************)
(* Endpoint facts of one garage door, as door_evidence.py derives them.    *)
(*                                                                         *)
(* A DoorEvidence object owns three pieces of state: the command whose     *)
(* travel is being timed, the instant since which each endpoint reading    *)
(* has been stable, and the last clock value it accepted.  Every call is   *)
(* synchronous, so each public method is one action.  The inputs of a call *)
(* (clock, cover availability, position, the two contacts, the restored    *)
(* flag) are arbitrary: the module says what the evidence guarantees       *)
(* whatever the providers report.                                          *)
(*                                                                         *)
(* watch, ride and basis are history variables.  watch and ride record,    *)
(* from the inputs alone, how long an endpoint has been shown without a    *)
(* break and whether the last accepted command has been observable ever    *)
(* since; basis is what they said when the last state was returned.        *)
(***************************************************************************)
EXTENDS Integers

CONSTANTS
  Bindings,    \* the configurations explored, each a BindingType record
  Positions,   \* the percentages a cover can report
  MaxTime      \* bound on the clock

Direction == {"open", "close"}

Time == 0..MaxTime
Never == -1          \* no instant: a dict key that is absent, a clock of None
NoPosition == -1     \* a position attribute that is missing or not a number
BadClock == -1       \* a clock value _number rejects

(***************************************************************************)
(* The part of the binding the evidence reads.  Every invalid combination  *)
(* of position parameters answers invalid_configuration and is the kind    *)
(* "invalid"; a travel time the range check 1..600 refuses is 0; a contact *)
(* with no entity or no polarity has the polarity "invalid".               *)
(***************************************************************************)
BindingType ==
  [source   : [Direction -> {"contact", "position", "timed", "invalid"}],
   polarity : [Direction -> {"on", "off", "invalid"}],
   kind     : {"measured", "estimated", "invalid"},
   openAt   : 0..100,
   closeAt  : 0..100,
   settle   : Nat,
   travel   : [Direction -> Nat],
   margin   : Nat,
   allow    : BOOLEAN]

ASSUME EvidenceAssumption ==
  /\ Bindings \subseteq BindingType
  /\ \A b \in Bindings : b.closeAt < b.openAt
  /\ Positions \subseteq 0..100
  /\ MaxTime \in Nat

Reasons ==
  {"none", "invalid_clock", "feedback_unavailable", "restored_snapshot",
   "endpoint_conflict", "invalid_configuration", "unverified_position",
   "endpoint_unsettled", "command_required", "travel_in_progress"}

EndpointEvidence ==
  [reached : {"yes", "no", "unknown"},
   quality : {"confirmed", "estimated", "unknown"},
   reason  : Reasons]

Command == [direction : Direction, at : Time]
NoCommand == [direction |-> "none", at |-> Never]

VARIABLES
  binding,   \* the configuration, copied at construction and never changed
  command,   \* _command
  stable,    \* _stable_since
  lastNow,   \* _last_now
  state,     \* the DoorState the last observation returned
  watch,     \* history: since when each endpoint has been shown without a break
  ride,      \* history: the accepted command observed without a gap ever since
  basis      \* history: watch, ride and the clock at the last observation

vars == <<binding, command, stable, lastNow, state, watch, ride, basis>>

-----------------------------------------------------------------------------
(* What one call makes of its inputs. *)

\* The readings that differ to binding b: a provider that no source selects is
\* never consulted.
ReadingsOf(b) ==
  LET seen == {d \in Direction : b.source[d] = "contact"}
  IN [available : BOOLEAN, restored : BOOLEAN,
      position : {NoPosition} \cup
                 (IF \E d \in Direction : b.source[d] = "position" THEN Positions ELSE {}),
      contact : {c \in [Direction -> {"on", "off", "missing"}] :
                   \A d \in Direction \ seen : c[d] = "missing"}]

Unknown(why) == [reached |-> "unknown", quality |-> "unknown", reason |-> why]
Evidence(r, q, why) == [reached |-> r, quality |-> q, reason |-> why]

Cleared == [d \in Direction |-> Never]

\* _clock accepts a finite, non-negative value that does not go backwards.
ClockValid(now, last) == now # BadClock /\ (last = Never \/ last <= now)

ContactReached(b, d, in) ==
  IF \/ b.source[d] # "contact"
     \/ b.polarity[d] = "invalid"
     \/ in.contact[d] = "missing"
  THEN "unknown"
  ELSE IF in.contact[d] = b.polarity[d] THEN "yes" ELSE "no"

\* The position reading is at this direction's end of the travel.
Shows(b, d, in) ==
  /\ in.position # NoPosition
  /\ IF d = "open" THEN in.position >= b.openAt ELSE in.position <= b.closeAt

BothContacts(b, in) == \A d \in Direction : ContactReached(b, d, in) = "yes"

\* The source selected for the active command can no longer be read.
SourceLost(b, cmd, in) ==
  /\ cmd # NoCommand
  /\ LET d == cmd.direction IN
       \/ b.source[d] = "position" /\ in.position = NoPosition
       \/ b.source[d] = "contact" /\ ContactReached(b, d, in) = "unknown"

\* _estimate: a rejection, or "elapsed" once this direction's travel is over.
Estimate(b, d, now, cmd) ==
  IF b.travel[d] = 0 THEN "invalid_configuration"
  ELSE IF cmd.direction # d THEN "command_required"
  ELSE IF now - cmd.at < b.travel[d] + b.margin THEN "travel_in_progress"
  ELSE "elapsed"

\* _settled: the start of the stable interval once this reading is consumed.
SettledSince(b, d, now, since, in) ==
  IF ~Shows(b, d, in) THEN Never ELSE IF since = Never THEN now ELSE since

(***************************************************************************)
(* _endpoint for the "position" source, and what it leaves in              *)
(* _stable_since.  A reading that is rejected through _unknown drops the   *)
(* stable interval; a travel still in progress keeps it.                   *)
(***************************************************************************)
PositionEndpoint(b, d, now, cmd, since, in) ==
  LET start == SettledSince(b, d, now, since, in)
      est   == Estimate(b, d, now, cmd)
      quality == IF b.kind = "measured" THEN "confirmed" ELSE "estimated"
      doubt == IF b.kind = "measured" THEN "none" ELSE "unverified_position"
  IN CASE b.kind = "invalid" ->
            [ev |-> Unknown("invalid_configuration"), since |-> Never]
       [] b.kind # "invalid" /\ in.position = NoPosition ->
            [ev |-> Unknown("feedback_unavailable"), since |-> Never]
       [] b.kind = "estimated" /\ in.position # NoPosition /\ est # "elapsed" ->
            [ev |-> Unknown(est),
             since |-> IF est = "travel_in_progress" THEN start ELSE Never]
       [] OTHER ->
            [ev |-> IF ~Shows(b, d, in) THEN Evidence("no", quality, doubt)
                    ELSE IF now - start < b.settle THEN Unknown("endpoint_unsettled")
                    ELSE Evidence("yes", quality, doubt),
             since |-> start]

ContactEndpoint(b, d, since, in) ==
  LET r == ContactReached(b, d, in)
  IN CASE b.polarity[d] = "invalid" ->
            [ev |-> Unknown("invalid_configuration"), since |-> Never]
       [] b.polarity[d] # "invalid" /\ r = "unknown" ->
            [ev |-> Unknown("feedback_unavailable"), since |-> Never]
       [] b.polarity[d] # "invalid" /\ r = "no" ->
            [ev |-> Evidence("no", "confirmed", "none"), since |-> Never]
       [] OTHER -> [ev |-> Evidence("yes", "confirmed", "none"), since |-> since]

TimedEndpoint(b, d, now, cmd, since) ==
  LET est == Estimate(b, d, now, cmd)
  IN CASE est = "elapsed" ->
            [ev |-> Evidence("yes", "estimated", "unverified_position"), since |-> since]
       [] est = "travel_in_progress" -> [ev |-> Unknown(est), since |-> since]
       [] OTHER -> [ev |-> Unknown(est), since |-> Never]

Endpoint(b, d, now, cmd, since, in) ==
  CASE b.source[d] = "contact"  -> ContactEndpoint(b, d, since, in)
    [] b.source[d] = "position" -> PositionEndpoint(b, d, now, cmd, since, in)
    [] b.source[d] = "timed"    -> TimedEndpoint(b, d, now, cmd, since)
    [] b.source[d] = "invalid"  ->
         [ev |-> Unknown("invalid_configuration"), since |-> Never]

Conflicting(st) == st.end["open"].reason = "endpoint_conflict"

UnknownState(why, available) ==
  [end |-> [d \in Direction |-> Unknown(why)], available |-> available,
   direction |-> "none", allow |-> FALSE]

-----------------------------------------------------------------------------
(* One observation: the DoorState it returns and what it leaves behind. *)

Revoked(why, available, last) ==
  [state |-> UnknownState(why, available), command |-> NoCommand,
   stable |-> Cleared, lastNow |-> last]

\* The two endpoints are not compared.
JudgeBothEnds(b, now, cmd, st, in) ==
  LET end == [d \in Direction |-> Endpoint(b, d, now, cmd, st[d], in)]
  IN [state |-> [end |-> [d \in Direction |-> end[d].ev], available |-> TRUE,
                 direction |-> cmd.direction, allow |-> b.allow],
      command |-> cmd, stable |-> [d \in Direction |-> end[d].since],
      lastNow |-> now]

\* Both endpoints are judged from the same command and the same clock value.
Judge(b, now, cmd, st, in) ==
  LET end == [d \in Direction |-> Endpoint(b, d, now, cmd, st[d], in)]
  IN IF \A d \in Direction : end[d].ev.reached = "yes"
     THEN Revoked("endpoint_conflict", TRUE, now)
     ELSE [state |-> [end |-> [d \in Direction |-> end[d].ev], available |-> TRUE,
                      direction |-> cmd.direction, allow |-> b.allow],
           command |-> cmd, stable |-> [d \in Direction |-> end[d].since],
           lastNow |-> now]

\* A lost source costs nothing.
JudgeKeepingCommand(b, now, cmd, st, in) == Judge(b, now, cmd, st, in)

\* A lost source costs the command and every stable interval, and the
\* endpoints are then judged without them.
JudgeSourced(b, now, cmd, st, in) ==
  IF SourceLost(b, cmd, in)
  THEN Judge(b, now, NoCommand, Cleared, in)
  ELSE Judge(b, now, cmd, st, in)

\* An unavailable cover answers unknown but leaves the old epoch in place.
ObservedKeepingStable(b, now, cmd, st, last, in) ==
  CASE ~ClockValid(now, last) -> Revoked("invalid_clock", in.available, Never)
    [] ClockValid(now, last) /\ ~in.available ->
         [Revoked("feedback_unavailable", FALSE, now) EXCEPT !.stable = st]
    [] ClockValid(now, last) /\ in.available /\ in.restored ->
         Revoked("restored_snapshot", TRUE, now)
    [] ClockValid(now, last) /\ in.available /\ ~in.restored /\ BothContacts(b, in) ->
         Revoked("endpoint_conflict", TRUE, now)
    [] OTHER -> JudgeSourced(b, now, cmd, st, in)

Observed(b, now, cmd, st, last, in) ==
  CASE ~ClockValid(now, last) -> Revoked("invalid_clock", in.available, Never)
    [] ClockValid(now, last) /\ ~in.available ->
         Revoked("feedback_unavailable", FALSE, now)
    [] ClockValid(now, last) /\ in.available /\ in.restored ->
         Revoked("restored_snapshot", TRUE, now)
    [] ClockValid(now, last) /\ in.available /\ ~in.restored /\ BothContacts(b, in) ->
         Revoked("endpoint_conflict", TRUE, now)
    [] OTHER -> JudgeSourced(b, now, cmd, st, in)

-----------------------------------------------------------------------------
(* History, read off the inputs alone. *)

\* An observation in which this endpoint is shown continues its watch.
Watched(b, d, now, in) ==
  IF ClockValid(now, lastNow) /\ in.available /\ ~in.restored /\ Shows(b, d, in)
  THEN IF watch[d] = Never THEN now ELSE watch[d]
  ELSE Never

\* The ride survives an observation only if its own source answered.
RideSeen(b, now, in) ==
  /\ ClockValid(now, lastNow)
  /\ in.available /\ ~in.restored
  /\ ~BothContacts(b, in)
  /\ ~SourceLost(b, ride, in)

-----------------------------------------------------------------------------

Init ==
  /\ binding \in Bindings
  /\ command = NoCommand
  /\ stable = Cleared
  /\ lastNow = Never
  /\ state = UnknownState("feedback_unavailable", FALSE)
  /\ watch = Cleared
  /\ ride = NoCommand
  /\ basis = [watch |-> Cleared, ride |-> NoCommand, now |-> Never]

\* observe(): consume one reading of every provider.
Observe(now, in) ==
  LET o == Observed(binding, now, command, stable, lastNow, in)
  IN /\ state' = o.state
     /\ command' = o.command
     /\ stable' = o.stable
     /\ lastNow' = o.lastNow
     /\ watch' = [d \in Direction |-> Watched(binding, d, now, in)]
     /\ ride' = IF RideSeen(binding, now, in) /\ ~Conflicting(o.state)
                THEN ride ELSE NoCommand
     /\ basis' = [watch |-> watch', ride |-> ride', now |-> now]
     /\ UNCHANGED binding

\* The command note_command leaves behind.
Noted(d, now, idOk) ==
  IF ClockValid(now, lastNow) /\ d \in Direction /\ idOk
  THEN [direction |-> d, at |-> now]
  ELSE NoCommand

\* note_command(): an accepted full-travel command starts a new operation; a
\* malformed one revokes whatever was running.
NoteCommand(d, now, idOk) ==
  /\ command' = Noted(d, now, idOk)
  /\ stable' = Cleared
  /\ lastNow' = IF ClockValid(now, lastNow) THEN now ELSE Never
  /\ watch' = Cleared
  /\ ride' = IF ClockValid(now, lastNow) /\ d \in Direction /\ idOk
             THEN [direction |-> d, at |-> now] ELSE NoCommand
  /\ UNCHANGED <<binding, state, basis>>

\* invalidate(): the caller revokes estimates and stable facts.
Invalidate ==
  /\ command' = NoCommand
  /\ stable' = Cleared
  /\ watch' = Cleared
  /\ ride' = NoCommand
  /\ UNCHANGED <<binding, lastNow, state, basis>>

Next ==
  \/ \E now \in Time \cup {BadClock}, in \in ReadingsOf(binding) : Observe(now, in)
  \/ \E now \in Time \cup {BadClock}, d \in Direction \cup {"stop"}, idOk \in BOOLEAN :
       NoteCommand(d, now, idOk)
  \/ Invalidate

Spec == Init /\ [][Next]_vars

-----------------------------------------------------------------------------
(* What the controller reads. *)

\* DoorState.passage_allowed is True.
PassageAllowed ==
  /\ state.available
  /\ state.direction # "close"
  /\ state.end["open"].reached = "yes"
  /\ \/ state.end["open"].quality = "confirmed"
     \/ state.end["open"].quality = "estimated" /\ state.allow

-----------------------------------------------------------------------------
(* Properties. *)

DoorStateType ==
  [end : [Direction -> EndpointEvidence], available : BOOLEAN,
   direction : Direction \cup {"none"}, allow : BOOLEAN]

\* Every variable has its type.
TypeOK ==
  /\ binding \in Bindings
  /\ command \in Command \cup {NoCommand}
  /\ stable \in [Direction -> Time \cup {Never}]
  /\ lastNow \in Time \cup {Never}
  /\ state \in DoorStateType
  /\ watch \in [Direction -> Time \cup {Never}]
  /\ ride \in Command \cup {NoCommand}
  /\ basis \in [watch : [Direction -> Time \cup {Never}],
                ride : Command \cup {NoCommand}, now : Time \cup {Never}]

\* The two endpoints are never both reported as reached, whatever mixture of
\* contacts, positions and elapsed timers claims it (door_evidence.py:154).
NeverBothEnds ==
  ~(state.end["open"].reached = "yes" /\ state.end["close"].reached = "yes")

\* A position is reported as reached only after it has been shown without a
\* break for the settle window: no gap, restored value, clock jump, command or
\* invalidation lies inside the window (door_evidence.py:201, 110).
ReachedOnlyIfSettled ==
  \A d \in Direction :
    (binding.source[d] = "position" /\ state.end[d].reached = "yes")
      => /\ basis.watch[d] # Never
         /\ basis.now - basis.watch[d] >= binding.settle

\* An estimated arrival rests on an accepted command in that direction whose
\* whole travel and margin has elapsed and that was observable throughout: a
\* source that was lost and came back never resurrects it (door_evidence.py:141).
EstimateNeedsObservedTravel ==
  \A d \in Direction :
    (state.end[d].reached = "yes" /\ state.end[d].quality = "estimated")
      => /\ basis.ride.direction = d
         /\ basis.now - basis.ride.at >= binding.travel[d] + binding.margin

\* A door that was ordered to close and has been observed ever since grants no
\* passage, although its open endpoint may still read as reached
\* (door_evidence.py:46).
NoPassageWhileClosing == basis.ride.direction = "close" => ~PassageAllowed

=============================================================================
