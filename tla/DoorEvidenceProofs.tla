------------------------- MODULE DoorEvidenceProofs -------------------------
(***************************************************************************)
(* What DoorEvidence guarantees for every set of bindings, every position  *)
(* scale and every clock bound.                                            *)
(*                                                                         *)
(* The inductive invariant ties the object's state to the history of its   *)
(* inputs: the command it keeps is the command observed without a gap, and *)
(* a stable interval never starts before the end was first shown.          *)
(*                                                                         *)
(* The second part is about GarageBinding: a binding the configuration     *)
(* accepts is one the evidence can believe, and the options form gets      *)
(* every draft saved.  There each complaint settles one of finitely many   *)
(* issues for good, which bounds how often the form can come back.         *)
(***************************************************************************)
EXTENDS GarageBinding, SequenceTheorems, FiniteSetTheorems, WellFoundedInduction, TLAPS

\* _stable_since never reaches back beyond the watch of its endpoint.
StableWithinWatch ==
  \A d \in Direction :
    (binding.source[d] = "position" /\ stable[d] # Never)
      => watch[d] # Never /\ watch[d] <= stable[d]

\* A watch lies before the last accepted clock value.
WatchBeforeNow ==
  \A d \in Direction :
    watch[d] # Never => lastNow # Never /\ watch[d] <= lastNow

EvidenceInv ==
  /\ TypeOK
  /\ command = ride
  /\ StableWithinWatch
  /\ WatchBeforeNow
  /\ NeverBothEnds
  /\ ReachedOnlyIfSettled
  /\ EstimateNeedsObservedTravel
  /\ NoPassageWhileClosing

-----------------------------------------------------------------------------

LEMMA TimeFacts ==
  /\ Time \subseteq Nat /\ \A t \in Time : t # Never /\ t # BadClock
  /\ NoCommand \notin Command
  /\ \A c \in Command : c # NoCommand /\ c.direction \in Direction /\ c.at \in Time
  /\ NoCommand.direction \notin Direction
BY EvidenceAssumption DEF Time, Never, BadClock, NoCommand, Command, Direction

\* The evidence of one endpoint is well formed and never claims a conflict; the
\* interval it leaves behind began in the past.
LEMMA EndpointType ==
  ASSUME NEW b \in Bindings, NEW d \in Direction, NEW now \in Time,
         NEW cmd \in Command \cup {NoCommand}, NEW since \in Time \cup {Never},
         NEW in \in ReadingsOf(b)
  PROVE  LET e == Endpoint(b, d, now, cmd, since, in) IN
         /\ e.ev \in EndpointEvidence
         /\ e.ev.reason # "endpoint_conflict"
         /\ e.since \in Time \cup {Never}
<1>1. b \in BindingType
  BY EvidenceAssumption
<1>2. LET e == ContactEndpoint(b, d, since, in) IN
      e.ev \in EndpointEvidence /\ e.ev.reason # "endpoint_conflict"
      /\ e.since \in Time \cup {Never}
  BY <1>1 DEF ContactEndpoint, ContactReached, EndpointEvidence, Reasons, Unknown,
              Evidence, Never
<1>3. Estimate(b, d, now, cmd) \in
        {"invalid_configuration", "command_required", "travel_in_progress", "elapsed"}
  BY DEF Estimate
<1>4. LET e == TimedEndpoint(b, d, now, cmd, since) IN
      e.ev \in EndpointEvidence /\ e.ev.reason # "endpoint_conflict"
      /\ e.since \in Time \cup {Never}
  BY <1>3 DEF TimedEndpoint, EndpointEvidence, Reasons, Unknown, Evidence, Never
<1>5. SettledSince(b, d, now, since, in) \in Time \cup {Never}
  BY DEF SettledSince
<1>6. LET e == PositionEndpoint(b, d, now, cmd, since, in) IN
      e.ev \in EndpointEvidence /\ e.ev.reason # "endpoint_conflict"
      /\ e.since \in Time \cup {Never}
  BY <1>1, <1>3, <1>5 DEF PositionEndpoint, EndpointEvidence, Reasons, Unknown, Evidence,
                          Never
<1>7. b.source[d] \in {"contact", "position", "timed", "invalid"}
  BY <1>1 DEF BindingType
<1> QED
  BY <1>2, <1>4, <1>6, <1>7 DEF Endpoint, EndpointEvidence, Reasons, Unknown, Never

\* What a reached position or an elapsed estimate rests on.
Grounded(b, d, now, cmd, since, in, e) ==
  /\ (b.source[d] = "position" /\ e.ev.reached = "yes") =>
       /\ Shows(b, d, in)
       /\ e.since # Never /\ now - e.since >= b.settle
  /\ (b.source[d] = "position" /\ e.since # Never) =>
       Shows(b, d, in) /\ e.since = IF since = Never THEN now ELSE since
  /\ (e.ev.reached = "yes" /\ e.ev.quality = "estimated") =>
       cmd.direction = d /\ now - cmd.at >= b.travel[d] + b.margin

LEMMA EndpointReached ==
  ASSUME NEW b \in Bindings, NEW d \in Direction, NEW now \in Time,
         NEW cmd \in Command \cup {NoCommand}, NEW since \in Time \cup {Never},
         NEW in \in ReadingsOf(b)
  PROVE  Grounded(b, d, now, cmd, since, in, Endpoint(b, d, now, cmd, since, in))
<1>1. b \in BindingType
  BY EvidenceAssumption
<1>2. now \in Nat /\ now # Never /\ since \in Int
  BY DEF Time, Never
<1>3. Estimate(b, d, now, cmd) = "elapsed" =>
        cmd.direction = d /\ now - cmd.at >= b.travel[d] + b.margin
  <2>1. CASE cmd.direction # d
    BY <2>1 DEF Estimate
  <2>2. CASE cmd.direction = d
    <3>1. cmd.at \in Int
      BY <2>2 DEF Command, NoCommand, Direction, Time
    <3>2. b.travel[d] \in Nat /\ b.margin \in Nat
      BY <1>1 DEF BindingType
    <3> QED
      BY <1>2, <2>2, <3>1, <3>2 DEF Estimate
  <2> QED
    BY <2>1, <2>2
<1>4. LET start == SettledSince(b, d, now, since, in) IN
      start # Never => Shows(b, d, in) /\ start = IF since = Never THEN now ELSE since
  BY <1>2 DEF SettledSince
<1>5. Shows(b, d, in) => SettledSince(b, d, now, since, in) # Never
  BY <1>2 DEF SettledSince
<1>6. SettledSince(b, d, now, since, in) \in Int /\ b.settle \in Nat
  BY <1>1, <1>2 DEF SettledSince, Never, BindingType
<1>7. CASE b.source[d] = "position"
  <2>1. Endpoint(b, d, now, cmd, since, in) = PositionEndpoint(b, d, now, cmd, since, in)
    BY <1>7 DEF Endpoint
  <2>2. b.kind \in {"measured", "estimated", "invalid"}
    BY <1>1 DEF BindingType
  <2> QED
    BY <1>2, <1>3, <1>4, <1>5, <1>6, <1>7, <2>1, <2>2
       DEF PositionEndpoint, Unknown, Evidence, Grounded
<1>8. CASE b.source[d] = "contact"
  BY <1>8 DEF Endpoint, ContactEndpoint, Unknown, Evidence, Grounded
<1>9. CASE b.source[d] = "timed"
  BY <1>3, <1>9 DEF Endpoint, TimedEndpoint, Unknown, Evidence, Grounded
<1>10. CASE b.source[d] = "invalid"
  BY <1>10 DEF Endpoint, Unknown, Grounded
<1> QED
  BY <1>1, <1>7, <1>8, <1>9, <1>10 DEF BindingType

-----------------------------------------------------------------------------
(* One observation. *)

\* A state that answers unknown on both endpoints.
LEMMA RevokedFacts ==
  ASSUME NEW why \in Reasons, NEW available \in BOOLEAN, NEW last \in Time \cup {Never}
  PROVE  LET r == Revoked(why, available, last) IN
         /\ r.state \in DoorStateType
         /\ \A d \in Direction : r.state.end[d].reached = "unknown"
         /\ r.state.end["open"].reason = why
         /\ r.command = NoCommand /\ r.stable = Cleared /\ r.lastNow = last
BY DEF Revoked, UnknownState, Unknown, DoorStateType, EndpointEvidence, Direction, Reasons

\* The endpoints an observation judges, when it does not find a conflict.
Judged(b, now, cmd, st, in, o) ==
  /\ o.command = cmd /\ o.lastNow = now
  /\ o.state.direction = cmd.direction
  /\ \A d \in Direction :
       LET e == Endpoint(b, d, now, cmd, st[d], in)
       IN o.state.end[d] = e.ev /\ o.stable[d] = e.since
  /\ ~(\A d \in Direction : o.state.end[d].reached = "yes")

\* What has become of the object after one observation o of in.
Consumed(b, now, cmd, st, in, o) ==
  /\ o.state \in DoorStateType
  /\ o.stable \in [Direction -> Time \cup {Never}]
  /\ o.lastNow \in Time \cup {Never}
  /\ \/ /\ o.command = NoCommand /\ o.stable = Cleared
        /\ \A d \in Direction : o.state.end[d].reached = "unknown"
     \/ /\ ~Conflicting(o.state)
        /\ Judged(b, now, cmd, st, in, o)

LEMMA JudgeFacts ==
  ASSUME NEW b \in Bindings, NEW now \in Time, NEW cmd \in Command \cup {NoCommand},
         NEW st \in [Direction -> Time \cup {Never}], NEW in \in ReadingsOf(b),
         NEW o, o = Judge(b, now, cmd, st, in)
  PROVE  /\ Consumed(b, now, cmd, st, in, o)
         /\ o.lastNow = now
         /\ o.command # cmd => o.command = NoCommand /\ Conflicting(o.state)
<1> DEFINE e(d) == Endpoint(b, d, now, cmd, st[d], in)
<1>1. \A d \in Direction : /\ e(d).ev \in EndpointEvidence
                           /\ e(d).ev.reason # "endpoint_conflict"
                           /\ e(d).since \in Time \cup {Never}
  BY EndpointType
<1>2. "open" \in Direction
  BY DEF Direction
<1> HIDE DEF e
<1>3. CASE \A d \in Direction : e(d).ev.reached = "yes"
  <2>1. o = Revoked("endpoint_conflict", TRUE, now)
    BY <1>3 DEF Judge, e
  <2>2. Cleared \in [Direction -> Time \cup {Never}]
    BY DEF Cleared
  <2>3. /\ o.state \in DoorStateType
        /\ \A d \in Direction : o.state.end[d].reached = "unknown"
        /\ o.state.end["open"].reason = "endpoint_conflict"
        /\ o.command = NoCommand /\ o.stable = Cleared /\ o.lastNow = now
    BY <2>1 DEF Revoked, UnknownState, Unknown, DoorStateType, EndpointEvidence, Direction,
                Reasons
  <2>4. Conflicting(o.state)
    BY <2>3 DEF Conflicting
  <2>5. Consumed(b, now, cmd, st, in, o)
    BY <2>2, <2>3 DEF Consumed
  <2> QED
    BY <2>3, <2>4, <2>5
<1>4. CASE ~(\A d \in Direction : e(d).ev.reached = "yes")
  <2>1. o = [state |-> [end |-> [d \in Direction |-> e(d).ev], available |-> TRUE,
                              direction |-> cmd.direction, allow |-> b.allow],
                   command |-> cmd, stable |-> [d \in Direction |-> e(d).since],
                   lastNow |-> now]
    BY <1>4 DEF Judge, e
  <2>2. cmd.direction \in Direction \cup {"none"} /\ b.allow \in BOOLEAN
    BY EvidenceAssumption DEF Command, NoCommand, BindingType
  <2>3. o.state \in DoorStateType
    BY <1>1, <2>1, <2>2 DEF DoorStateType
  <2>4. o.stable \in [Direction -> Time \cup {Never}]
    BY <1>1, <2>1
  <2>5. Judged(b, now, cmd, st, in, o)
    BY <1>4, <2>1 DEF Judged, e
  <2>6. ~Conflicting(o.state)
    BY <1>1, <1>2, <2>1 DEF Conflicting
  <2>7. o.lastNow = now /\ o.command = cmd
    BY <2>1
  <2> QED
    BY <2>3, <2>4, <2>5, <2>6, <2>7 DEF Consumed
<1> QED
  BY <1>3, <1>4

-----------------------------------------------------------------------------
(* The invariant. *)

LEMMA EvidenceInit == Init => EvidenceInv
<1> SUFFICES ASSUME Init PROVE EvidenceInv
  OBVIOUS
<1>1. UnknownState("feedback_unavailable", FALSE) \in DoorStateType
  BY DEF UnknownState, Unknown, DoorStateType, EndpointEvidence, Reasons, Direction
<1>2. \A d \in Direction : state.end[d].reached = "unknown" /\ watch[d] = Never
                           /\ stable[d] = Never
  BY DEF Init, UnknownState, Unknown, Cleared
<1>3. TypeOK
  BY <1>1 DEF Init, TypeOK, Cleared, NoCommand, Never
<1> QED
  BY <1>2, <1>3 DEF Init, EvidenceInv, StableWithinWatch, WatchBeforeNow, NeverBothEnds,
     ReachedOnlyIfSettled, EstimateNeedsObservedTravel, NoPassageWhileClosing,
     PassageAllowed, Direction

Usable(b, now, last, in) ==
  ClockValid(now, last) /\ in.available /\ ~in.restored /\ ~BothContacts(b, in)

\* One observation either revokes everything, or judges the endpoints from the
\* command and the intervals that its sources still support.
Outcome(b, now, cmd, st, last, in, o) ==
  /\ \/ /\ ~Usable(b, now, last, in)
        /\ o.state \in DoorStateType
        /\ o.command = NoCommand /\ o.stable = Cleared
        /\ \A d \in Direction : o.state.end[d].reached = "unknown"
     \/ /\ Usable(b, now, last, in) /\ SourceLost(b, cmd, in)
        /\ o = Judge(b, now, NoCommand, Cleared, in)
     \/ /\ Usable(b, now, last, in) /\ ~SourceLost(b, cmd, in)
        /\ o = Judge(b, now, cmd, st, in)
  /\ o.lastNow = IF ClockValid(now, last) THEN now ELSE Never
  /\ Usable(b, now, last, in) => now \in Time

LEMMA ObservedFacts ==
  ASSUME NEW b \in Bindings, NEW now \in Time \cup {BadClock},
         NEW cmd \in Command \cup {NoCommand}, NEW st \in [Direction -> Time \cup {Never}],
         NEW last \in Time \cup {Never}, NEW in \in ReadingsOf(b),
         NEW o, o = Observed(b, now, cmd, st, last, in)
  PROVE  Outcome(b, now, cmd, st, last, in, o)
<1> USE DEF Outcome
<1>0. in.available \in BOOLEAN /\ in.restored \in BOOLEAN
  BY DEF ReadingsOf
<1>1. ASSUME NEW why \in Reasons, NEW a \in BOOLEAN, NEW l \in Time \cup {Never},
             o = Revoked(why, a, l)
      PROVE  /\ o.state \in DoorStateType
             /\ \A d \in Direction : o.state.end[d].reached = "unknown"
             /\ o.command = NoCommand /\ o.stable = Cleared /\ o.lastNow = l
  BY <1>1, RevokedFacts
<1>2. ClockValid(now, last) => now \in Time
  BY DEF ClockValid
<1>3. {"invalid_clock", "feedback_unavailable", "restored_snapshot", "endpoint_conflict"}
        \subseteq Reasons
  BY DEF Reasons
<1>4. CASE ~ClockValid(now, last)
  <2>1. o = Revoked("invalid_clock", in.available, Never)
    BY <1>4 DEF Observed
  <2> QED
    BY <1>0, <1>1, <1>3, <1>4, <2>1 DEF Usable
<1>5. CASE ClockValid(now, last) /\ ~in.available
  <2>1. o = Revoked("feedback_unavailable", FALSE, now)
    BY <1>5 DEF Observed
  <2> QED
    BY <1>0, <1>1, <1>2, <1>3, <1>5, <2>1 DEF Usable
<1>6. CASE ClockValid(now, last) /\ in.available /\ in.restored
  <2>1. o = Revoked("restored_snapshot", TRUE, now)
    BY <1>6 DEF Observed
  <2> QED
    BY <1>0, <1>1, <1>2, <1>3, <1>6, <2>1 DEF Usable
<1>7. CASE ClockValid(now, last) /\ in.available /\ ~in.restored /\ BothContacts(b, in)
  <2>1. o = Revoked("endpoint_conflict", TRUE, now)
    BY <1>7 DEF Observed
  <2> QED
    BY <1>0, <1>1, <1>2, <1>3, <1>7, <2>1 DEF Usable
<1>8. CASE ClockValid(now, last) /\ in.available /\ ~in.restored /\ ~BothContacts(b, in)
  <2>1. o = JudgeSourced(b, now, cmd, st, in)
    BY <1>8 DEF Observed
  <2>2. Cleared \in [Direction -> Time \cup {Never}]
    BY DEF Cleared
  <2>3. \A c \in Command \cup {NoCommand}, s \in [Direction -> Time \cup {Never}] :
          Judge(b, now, c, s, in).lastNow = now
    BY <1>2, <1>8, JudgeFacts
  <2> QED
    BY <1>2, <1>8, <2>1, <2>2, <2>3 DEF JudgeSourced, Usable
<1> QED
  BY <1>0, <1>4, <1>5, <1>6, <1>7, <1>8

\* observe() keeps the invariant: a revoked state claims nothing, and a judged
\* one claims only what the surviving command and watches support.
LEMMA ObserveInv ==
  ASSUME EvidenceInv, NEW now \in Time \cup {BadClock}, NEW in \in ReadingsOf(binding),
         Observe(now, in)
  PROVE  EvidenceInv'
<1> DEFINE o == Observed(binding, now, command, stable, lastNow, in)
           w(d) == Watched(binding, d, now, in)
           usable == Usable(binding, now, lastNow, in)
<1>1. /\ binding \in Bindings /\ binding \in BindingType
      /\ command \in Command \cup {NoCommand} /\ command = ride
      /\ stable \in [Direction -> Time \cup {Never}]
      /\ watch \in [Direction -> Time \cup {Never}]
      /\ lastNow \in Time \cup {Never}
      /\ StableWithinWatch /\ WatchBeforeNow
  BY EvidenceAssumption DEF EvidenceInv, TypeOK
<1>2. /\ state' = o.state /\ command' = o.command /\ stable' = o.stable
      /\ lastNow' = o.lastNow /\ binding' = binding
      /\ watch' = [d \in Direction |-> w(d)]
      /\ ride' = IF RideSeen(binding, now, in) /\ ~Conflicting(o.state) THEN ride ELSE NoCommand
      /\ basis' = [watch |-> watch', ride |-> ride', now |-> now]
  BY DEF Observe
<1>3. /\ \/ /\ ~usable
            /\ o.state \in DoorStateType
            /\ o.command = NoCommand /\ o.stable = Cleared
            /\ \A d \in Direction : o.state.end[d].reached = "unknown"
         \/ /\ usable /\ SourceLost(binding, command, in)
            /\ o = Judge(binding, now, NoCommand, Cleared, in)
         \/ /\ usable /\ ~SourceLost(binding, command, in)
            /\ o = Judge(binding, now, command, stable, in)
      /\ o.lastNow = IF ClockValid(now, lastNow) THEN now ELSE Never
      /\ usable => now \in Time
  <2>1. /\ binding \in Bindings /\ command \in Command \cup {NoCommand}
        /\ stable \in [Direction -> Time \cup {Never}] /\ lastNow \in Time \cup {Never}
    BY <1>1
  <2>2. Outcome(binding, now, command, stable, lastNow, in, o)
    BY <2>1, ObservedFacts
  <2> HIDE DEF o
  <2> QED
    BY <2>2 DEF Outcome
<1> HIDE DEF o
<1>4. usable => ClockValid(now, lastNow) /\ in.available /\ ~in.restored /\ now \in Nat
  BY <1>3 DEF Usable, Time
<1>5. RideSeen(binding, now, in) <=> usable /\ ~SourceLost(binding, command, in)
  BY <1>1 DEF RideSeen, Usable
<1> HIDE DEF usable
<1>6. \A d \in Direction : w(d) \in Time \cup {Never}
  BY <1>1 DEF Watched, ClockValid
<1>7. \A d \in Direction :
        w(d) # Never =>
          /\ ClockValid(now, lastNow) /\ now \in Nat /\ w(d) <= now
          /\ w(d) = IF watch[d] = Never THEN now ELSE watch[d]
  BY <1>1 DEF Watched, ClockValid, WatchBeforeNow, Time, Never, BadClock
<1>8. \A d \in Direction :
        usable /\ Shows(binding, d, in) =>
          w(d) # Never /\ w(d) = IF watch[d] = Never THEN now ELSE watch[d]
  BY <1>1, <1>4 DEF Watched, Never
<1>9. WatchBeforeNow'
  BY <1>2, <1>3, <1>7 DEF WatchBeforeNow, Never
<1> HIDE DEF w
<1> DEFINE Step(cmd, st) ==
      /\ Consumed(binding, now, cmd, st, in, o)
      /\ o.command # cmd => o.command = NoCommand /\ Conflicting(o.state)
<1>10. CASE ~usable
  <2>1. ride' = NoCommand /\ command' = NoCommand /\ stable' = Cleared
    BY <1>2, <1>3, <1>5, <1>10
  <2>2. \A d \in Direction : state'.end[d].reached = "unknown"
    BY <1>2, <1>3, <1>10
  <2>3. TypeOK'
    <3>1. state' \in DoorStateType /\ lastNow' \in Time \cup {Never}
      BY <1>1, <1>2, <1>3, <1>10 DEF ClockValid
    <3>2. watch' \in [Direction -> Time \cup {Never}]
      BY <1>2, <1>6
    <3>3. stable' \in [Direction -> Time \cup {Never}]
      BY <2>1 DEF Cleared
    <3> QED
      BY <1>1, <1>2, <2>1, <3>1, <3>2, <3>3 DEF TypeOK, BadClock, Never
  <2>4. StableWithinWatch'
    BY <2>1 DEF StableWithinWatch, Cleared
  <2> QED
    BY <1>9, <2>1, <2>2, <2>3, <2>4 DEF EvidenceInv, NeverBothEnds, ReachedOnlyIfSettled,
       EstimateNeedsObservedTravel, NoPassageWhileClosing, PassageAllowed, Direction
<1>11. ASSUME usable, NEW cmd \in Command \cup {NoCommand},
              NEW st \in [Direction -> Time \cup {Never}],
              Step(cmd, st), now \in Time,
              cmd = IF SourceLost(binding, command, in) THEN NoCommand ELSE command,
              st = IF SourceLost(binding, command, in) THEN Cleared ELSE stable
       PROVE  EvidenceInv'
  <2>1. command' = ride'
    BY <1>1, <1>2, <1>5, <1>11 DEF Consumed, Judged
  <2>2. TypeOK'
    <3>1. state' \in DoorStateType /\ stable' \in [Direction -> Time \cup {Never}]
          /\ lastNow' \in Time \cup {Never}
      BY <1>2, <1>11 DEF Consumed
    <3>2. command' \in Command \cup {NoCommand}
      BY <1>2, <1>11
    <3>3. watch' \in [Direction -> Time \cup {Never}]
      BY <1>2, <1>6
    <3> QED
      BY <1>1, <1>2, <1>11, <2>1, <3>1, <3>2, <3>3 DEF TypeOK
  <2>3. CASE /\ o.command = NoCommand /\ o.stable = Cleared
             /\ \A d \in Direction : o.state.end[d].reached = "unknown"
    <3>1. StableWithinWatch'
      BY <1>2, <2>3 DEF StableWithinWatch, Cleared
    <3> QED
      BY <1>2, <1>9, <2>1, <2>2, <2>3, <3>1 DEF EvidenceInv, NeverBothEnds,
         ReachedOnlyIfSettled, EstimateNeedsObservedTravel, NoPassageWhileClosing,
         PassageAllowed, Direction
  <2>4. CASE ~Conflicting(o.state) /\ Judged(binding, now, cmd, st, in, o)
    <3> DEFINE e(d) == Endpoint(binding, d, now, cmd, st[d], in)
    <3>1. \A d \in Direction : state'.end[d] = e(d).ev /\ stable'[d] = e(d).since
      BY <1>2, <2>4 DEF Judged
    <3>2. \A d \in Direction :
            /\ (binding.source[d] = "position" /\ e(d).ev.reached = "yes") =>
                 /\ Shows(binding, d, in)
                 /\ e(d).since # Never /\ now - e(d).since >= binding.settle
            /\ (binding.source[d] = "position" /\ e(d).since # Never) =>
                 Shows(binding, d, in) /\ e(d).since = IF st[d] = Never THEN now ELSE st[d]
            /\ (e(d).ev.reached = "yes" /\ e(d).ev.quality = "estimated") =>
                 cmd.direction = d /\ now - cmd.at >= binding.travel[d] + binding.margin
      <4>1. \A d \in Direction : st[d] \in Time \cup {Never}
        BY <1>11
      <4>2. \A d \in Direction : Grounded(binding, d, now, cmd, st[d], in, e(d))
        BY <1>1, <1>11, <4>1, EndpointReached
      <4> HIDE DEF e
      <4> QED
        BY <4>2 DEF Grounded
    <3>3. command' = cmd /\ ride' = cmd /\ state'.direction = cmd.direction
      BY <1>2, <2>1, <2>4 DEF Judged
    <3> HIDE DEF e
    <3>4. \A d \in Direction : st[d] # Never => st[d] = stable[d]
      BY <1>11 DEF Cleared
    <3>5. StableWithinWatch'
      <4> SUFFICES ASSUME NEW d \in Direction, binding.source[d] = "position",
                          stable'[d] # Never
                   PROVE  watch'[d] # Never /\ watch'[d] <= stable'[d]
        BY <1>2 DEF StableWithinWatch
      <4>1. Shows(binding, d, in) /\ stable'[d] = IF st[d] = Never THEN now ELSE st[d]
        BY <3>1, <3>2
      <4>2. watch'[d] = w(d) /\ w(d) # Never
            /\ w(d) = IF watch[d] = Never THEN now ELSE watch[d]
        BY <1>2, <1>8, <1>11, <4>1
      <4>3. w(d) <= now
        BY <1>7, <4>2
      <4> QED
        BY <1>1, <3>4, <4>1, <4>2, <4>3 DEF StableWithinWatch
    <3>6. ReachedOnlyIfSettled'
      <4> SUFFICES ASSUME NEW d \in Direction, binding.source[d] = "position",
                          state'.end[d].reached = "yes"
                   PROVE  watch'[d] # Never /\ now - watch'[d] >= binding.settle
        BY <1>2 DEF ReachedOnlyIfSettled
      <4>1. stable'[d] # Never /\ now - stable'[d] >= binding.settle
        BY <3>1, <3>2
      <4>2. watch'[d] # Never /\ watch'[d] <= stable'[d]
        BY <1>2, <3>5, <4>1 DEF StableWithinWatch
      <4>3. now \in Int /\ watch'[d] \in Int /\ stable'[d] \in Int /\ binding.settle \in Nat
        BY <1>1, <1>11, <2>2 DEF TypeOK, Time, Never, BindingType
      <4> QED
        BY <4>1, <4>2, <4>3
    <3>7. EstimateNeedsObservedTravel'
      BY <1>2, <3>1, <3>2, <3>3 DEF EstimateNeedsObservedTravel
    <3>8. NeverBothEnds'
      BY <1>2, <2>4 DEF NeverBothEnds, Judged, Direction
    <3>9. NoPassageWhileClosing'
      BY <1>2, <3>3 DEF NoPassageWhileClosing, PassageAllowed
    <3> QED
      BY <1>9, <2>1, <2>2, <3>5, <3>6, <3>7, <3>8, <3>9 DEF EvidenceInv
  <2> QED
    BY <1>11, <2>3, <2>4 DEF Consumed
<1>12. CASE usable /\ SourceLost(binding, command, in)
  <2>1. o = Judge(binding, now, NoCommand, Cleared, in) /\ now \in Time
    BY <1>3, <1>12
  <2>2. Cleared \in [Direction -> Time \cup {Never}]
    BY DEF Cleared
  <2>3. binding \in Bindings /\ NoCommand \in Command \cup {NoCommand}
    BY <1>1
  <2>4. Step(NoCommand, Cleared)
    <3>1. ASSUME NEW c \in Command \cup {NoCommand},
                 NEW s \in [Direction -> Time \cup {Never}],
                 o = Judge(binding, now, c, s, in)
          PROVE  Step(c, s)
      BY <1>1, <2>1, <3>1, JudgeFacts
    <3> HIDE DEF Step
    <3> QED
      BY <2>1, <2>2, <2>3, <3>1
  <2> HIDE DEF Step
  <2> QED
    BY <1>11, <1>12, <2>1, <2>2, <2>3, <2>4
<1>13. CASE usable /\ ~SourceLost(binding, command, in)
  <2>1. o = Judge(binding, now, command, stable, in) /\ now \in Time
    BY <1>3, <1>13
  <2>2. Step(command, stable)
    BY <1>1, <2>1, JudgeFacts
  <2> HIDE DEF Step
  <2> QED
    BY <1>1, <1>11, <1>13, <2>1, <2>2
<1> QED
  BY <1>10, <1>12, <1>13

-----------------------------------------------------------------------------

LEMMA EvidenceNext == EvidenceInv /\ [Next]_vars => EvidenceInv'
<1> SUFFICES ASSUME EvidenceInv, [Next]_vars PROVE EvidenceInv'
  OBVIOUS
<1>1. CASE \E now \in Time \cup {BadClock}, in \in ReadingsOf(binding) : Observe(now, in)
  BY <1>1, ObserveInv
<1>2. ASSUME NEW now \in Time \cup {BadClock}, NEW d \in Direction \cup {"stop"},
             NEW idOk \in BOOLEAN, NoteCommand(d, now, idOk)
      PROVE  EvidenceInv'
  <2>1. command' = ride' /\ command' \in Command \cup {NoCommand}
    BY <1>2 DEF NoteCommand, Noted, ClockValid, Command
  <2>2. lastNow' \in Time \cup {Never}
    BY <1>2 DEF NoteCommand, ClockValid
  <2> QED
    BY <1>2, <2>1, <2>2 DEF NoteCommand, EvidenceInv, TypeOK, StableWithinWatch,
       WatchBeforeNow, NeverBothEnds, ReachedOnlyIfSettled, EstimateNeedsObservedTravel,
       NoPassageWhileClosing, PassageAllowed, Cleared
<1>3. CASE Invalidate
  BY <1>3 DEF Invalidate, EvidenceInv, TypeOK, StableWithinWatch, WatchBeforeNow,
     NeverBothEnds, ReachedOnlyIfSettled, EstimateNeedsObservedTravel,
     NoPassageWhileClosing, PassageAllowed, Cleared
<1>4. CASE UNCHANGED vars
  BY <1>4 DEF vars, EvidenceInv, TypeOK, StableWithinWatch, WatchBeforeNow, NeverBothEnds,
     ReachedOnlyIfSettled, EstimateNeedsObservedTravel, NoPassageWhileClosing, PassageAllowed
<1> QED
  BY <1>1, <1>2, <1>3, <1>4 DEF Next

THEOREM EvidenceInvariant == Spec => []EvidenceInv
BY EvidenceInit, EvidenceNext, PTL DEF Spec

\* Every variable of the evidence keeps its type.
THEOREM EvidenceTypes == Spec => []TypeOK
BY EvidenceInvariant, PTL DEF EvidenceInv

\* The evidence never reports both ends of the travel as reached.
THEOREM NeverBothEndsHolds == Spec => []NeverBothEnds
BY EvidenceInvariant, PTL DEF EvidenceInv

\* A reached position has been shown without a break for the settle window.
THEOREM ReachedOnlyIfSettledHolds == Spec => []ReachedOnlyIfSettled
BY EvidenceInvariant, PTL DEF EvidenceInv

\* An estimated arrival rests on a command observed for its whole travel.
THEOREM EstimateNeedsObservedTravelHolds == Spec => []EstimateNeedsObservedTravel
BY EvidenceInvariant, PTL DEF EvidenceInv

\* No passage is granted behind an observed order to close.
THEOREM NoPassageWhileClosingHolds == Spec => []NoPassageWhileClosing
BY EvidenceInvariant, PTL DEF EvidenceInv

-----------------------------------------------------------------------------
(* What a binding that is accepted says, and what its evidence believes.   *)

\* The error lists are joined sequences: a join is empty only if its parts are.
IsSeq(s) == \E S : s \in Seq(S)

LEMMA JoinEmpty ==
  ASSUME NEW s, NEW t, IsSeq(s), IsSeq(t)
  PROVE  IsSeq(s \o t) /\ (s \o t = <<>> => s = <<>> /\ t = <<>>)
<1>1. PICK S : s \in Seq(S)
  BY DEF IsSeq
<1>2. PICK T : t \in Seq(T)
  BY DEF IsSeq
<1>3. s \in Seq(S \cup T) /\ t \in Seq(S \cup T)
  BY <1>1, <1>2, SeqMonotonic
<1>4. s \o t \in Seq(S \cup T)
  BY <1>3, ConcatProperties
<1>5. s \o t = <<>> => s = <<>> /\ t = <<>>
  BY <1>3, ConcatEqualIffEmpty
<1> QED BY <1>4, <1>5 DEF IsSeq

\* A check that raises nothing has found nothing.
LEMMA RaiseIs ==
  ASSUME NEW p \in BOOLEAN, NEW r, NEW f
  PROVE  IsSeq(Raise(p, r, f)) /\ (Raise(p, r, f) = <<>> => ~p)
<1> DEFINE e == [reason |-> r, field |-> f]
<1>1. <<e>> \in Seq({e}) /\ <<>> \in Seq({e}) /\ <<e>> # <<>>
  OBVIOUS
<1> QED BY <1>1 DEF Raise, IsSeq

\* _number raised for none of the needed fields: each is in its range.
LEMMA NumericIs ==
  ASSUME NEW b, NEW fields, NEW needed
  PROVE  /\ IsSeq(Numeric(b, fields, needed))
         /\ Numeric(b, fields, needed) = <<>>
              => \A i \in DOMAIN fields : fields[i] \in needed => InRange(b, fields[i])
<1> DEFINE bad == {i \in DOMAIN fields : fields[i] \in needed /\ ~InRange(b, fields[i])}
<1>1. \E r, f : Numeric(b, fields, needed) = Raise(bad # {}, r, f)
  BY Zenon DEF Numeric, Each
<1>2. IsSeq(Numeric(b, fields, needed)) /\ (Numeric(b, fields, needed) = <<>> => bad = {})
  BY <1>1, RaiseIs
<1> QED BY <1>2

\* As JoinEmpty, for six lists.
LEMMA JoinSix ==
  ASSUME NEW a, NEW b, NEW c, NEW d, NEW e, NEW f,
         IsSeq(a), IsSeq(b), IsSeq(c), IsSeq(d), IsSeq(e), IsSeq(f)
  PROVE  /\ IsSeq(a \o b \o c \o d \o e \o f)
         /\ a \o b \o c \o d \o e \o f = <<>>
              => a = <<>> /\ b = <<>> /\ c = <<>> /\ d = <<>> /\ e = <<>> /\ f = <<>>
BY JoinEmpty

\* _validate_supplied_fields leaves contacts that are sensors, or none.
LEMMA SuppliedIs ==
  ASSUME NEW b
  PROVE  /\ IsSeq(SuppliedErrors(b))
         /\ SuppliedErrors(b) = <<>>
              => \A d \in Direction : Text(b, Field(d, "contact")) \in {""} \cup Sensors
<1> DEFINE unknown(f) == Text(b, f) \notin {""} \cup Options[f]
           odd == {i \in DOMAIN BoolFields : /\ Has(b, BoolFields[i])
                                             /\ b[BoolFields[i]] \notin {"true", "false"}}
           strange == {i \in DOMAIN EntityFields : unknown(EntityFields[i])}
           wrong == {i \in DOMAIN ChoiceFields : unknown(ChoiceFields[i])}
           bools == Each(BoolFields, LAMBDA f : Has(b, f) /\ b[f] \notin {"true", "false"},
                         LAMBDA f : "invalid_boolean_value")
           entities == Each(EntityFields, unknown, Reason)
           choices == Each(ChoiceFields, unknown, Reason)
           twice == Raise(/\ Text(b, "open_contact") # ""
                          /\ Text(b, "open_contact") = Text(b, "close_contact"),
                          "duplicate_endpoint", "close_contact")
<1>1. IsSeq(bools)
  <2>1. \E r, f : bools = Raise(odd # {}, r, f)
    BY Zenon DEF Each
  <2> QED BY <2>1, RaiseIs
<1>2. IsSeq(entities) /\ (entities = <<>> => strange = {})
  <2>1. \E r, f : entities = Raise(strange # {}, r, f)
    BY Zenon DEF Each
  <2> QED BY <2>1, RaiseIs
<1>3. IsSeq(choices)
  <2>1. \E r, f : choices = Raise(wrong # {}, r, f)
    BY Zenon DEF Each
  <2> QED BY <2>1, RaiseIs
<1>4. IsSeq(Numeric(b, NumberFields, DOMAIN b)) /\ IsSeq(Thresholds(b)) /\ IsSeq(twice)
  BY NumericIs, RaiseIs DEF Thresholds
<1>5. SuppliedErrors(b) = bools \o Numeric(b, NumberFields, DOMAIN b) \o Thresholds(b)
                            \o entities \o choices \o twice
  BY DEF SuppliedErrors
<1>6. ASSUME strange = {}
      PROVE  \A d \in Direction : Text(b, Field(d, "contact")) \in {""} \cup Sensors
  <2>1. DOMAIN EntityFields = 1..4
    BY DEF EntityFields
  <2>2. \A i \in 1..4 : ~unknown(EntityFields[i])
    BY <1>6, <2>1
  <2>3. EntityFields[3] = "open_contact" /\ EntityFields[4] = "close_contact"
    BY DEF EntityFields
  <2> HIDE DEF unknown, bools, entities, choices, twice, odd, strange, wrong
  <2>4. ~unknown(EntityFields[3]) /\ ~unknown(EntityFields[4])
    BY <2>2
  <2>5. ~unknown("open_contact") /\ ~unknown("close_contact")
    BY <2>3, <2>4
  <2> QED BY <2>5 DEF unknown, Direction, Field, Options
<1> HIDE DEF bools, entities, choices, twice, odd, strange, wrong, unknown
<1>7. IsSeq(SuppliedErrors(b)) /\ (SuppliedErrors(b) = <<>> => strange = {})
  BY <1>1, <1>2, <1>3, <1>4, <1>5, JoinSix
<1> QED BY <1>6, <1>7

\* The checks of one endpoint's source and contact.
LEMMA EndIs ==
  ASSUME NEW b, NEW d \in Direction
  PROVE  /\ IsSeq(SourceErrors(b, d)) /\ IsSeq(ContactErrors(b, d))
         /\ SourceErrors(b, d) = <<>> => Source(b, d) \in Sources
         /\ ContactErrors(b, d) = <<>> => /\ Text(b, Field(d, "contact")) # ""
                                          /\ Text(b, Field(d, "state")) \in {"on", "off"}
<1> DEFINE f == Field(d, "source")
           missing == Raise(~Has(b, f), "missing_safety_configuration", f)
           invalid == Raise(Source(b, d) \notin Sources, "invalid_evidence_source", f)
<1>1. IsSeq(missing) /\ IsSeq(invalid) /\ (invalid = <<>> => Source(b, d) \in Sources)
  BY RaiseIs
<1>2. SourceErrors(b, d) = missing \o invalid
  BY DEF SourceErrors
<1>3. IsSeq(SourceErrors(b, d)) /\ (SourceErrors(b, d) = <<>> => Source(b, d) \in Sources)
  <2> HIDE DEF missing, invalid
  <2> QED BY <1>1, <1>2, JoinEmpty
<1>4. /\ IsSeq(ContactErrors(b, d))
      /\ ContactErrors(b, d) = <<>> => /\ Text(b, Field(d, "contact")) # ""
                                       /\ Text(b, Field(d, "state")) \in {"on", "off"}
  BY RaiseIs DEF ContactErrors
<1> QED BY <1>3, <1>4

\* The checks of the position source.
LEMMA PositionIs ==
  ASSUME NEW b
  PROVE  /\ IsSeq(PositionErrors(b))
         /\ PositionErrors(b) = <<>>
              => /\ Text(b, "position_kind") \in {"measured", "estimated"}
                 /\ InRange(b, "open_position") /\ InRange(b, "close_position")
                 /\ ~(b["close_position"] >= b["open_position"])
<1> DEFINE fields == <<"close_position", "open_position">>
           unkind == Raise(Text(b, "position_kind") \notin {"measured", "estimated"},
                           "invalid_position_configuration", "position_kind")
<1>1. IsSeq(unkind) /\ (unkind = <<>> => Text(b, "position_kind") \in {"measured", "estimated"})
  BY RaiseIs
<1>2. /\ IsSeq(Numeric(b, fields, ThresholdFields))
      /\ Numeric(b, fields, ThresholdFields) = <<>>
           => InRange(b, "open_position") /\ InRange(b, "close_position")
  <2>1. \A i \in {1, 2} : i \in DOMAIN fields /\ fields[i] \in ThresholdFields
    BY DEF ThresholdFields
  <2> QED BY <2>1, NumericIs
<1>3. /\ IsSeq(Thresholds(b))
      /\ Thresholds(b) = <<>> /\ InRange(b, "open_position") /\ InRange(b, "close_position")
           => ~(b["close_position"] >= b["open_position"])
  BY RaiseIs DEF Thresholds
<1>4. PositionErrors(b) = unkind \o Numeric(b, fields, ThresholdFields) \o Thresholds(b)
  BY DEF PositionErrors
<1> HIDE DEF unkind, fields
<1> QED BY <1>1, <1>2, <1>3, <1>4, JoinEmpty

\* The fields a wait is made of.
Durations ==
  {"open_travel_seconds", "close_travel_seconds", "travel_margin_seconds",
   "contact_settle_seconds", "position_settle_seconds", "operation_timeout_seconds"}

\* The limits the arithmetic rests on.
LEMMA LimitsAre ==
  /\ Limits["open_travel_seconds"] = 1..600 /\ Limits["close_travel_seconds"] = 1..600
  /\ Limits["open_position"] = 0..100 /\ Limits["close_position"] = 0..100
BY DEF Limits

\* A duration that cannot be read counts as zero.
LEMMA NumberIs ==
  ASSUME NEW b, NEW f \in Durations
  PROVE  Number(b, f) \in Nat
<1>1. /\ Limits["open_travel_seconds"] \subseteq Nat /\ Limits["close_travel_seconds"] \subseteq Nat
      /\ Limits["travel_margin_seconds"] \subseteq Nat
      /\ Limits["contact_settle_seconds"] \subseteq Nat
      /\ Limits["position_settle_seconds"] \subseteq Nat
      /\ Limits["operation_timeout_seconds"] \subseteq Nat
  BY DEF Limits
<1>2. Limits[f] \subseteq Nat
  BY <1>1 DEF Durations
<1> QED BY <1>2 DEF Number, InRange

\* longest_endpoint_wait bounds what either endpoint takes.
LEMMA WaitIs ==
  ASSUME NEW b
  PROVE  /\ \A d \in Direction : /\ Travelling(b, d) \in Nat /\ Settling(b, d) \in Nat
                                /\ EndpointWait(b, d) \in Nat /\ EndpointWait(b, d) <= LongestWait(b)
         /\ LongestWait(b) \in Nat
<1>1. \A d \in Direction : Field(d, "travel") \in Durations
  BY DEF Direction, Field, Durations
<1>2. {"travel_margin_seconds", "contact_settle_seconds", "position_settle_seconds"} \subseteq Durations
  BY DEF Durations
<1>3. \A d \in Direction : Travelling(b, d) \in Nat /\ Settling(b, d) \in Nat
  BY <1>1, <1>2, NumberIs DEF Travelling, Settling
<1>4. \A d \in Direction : EndpointWait(b, d) \in Nat
  BY <1>3 DEF EndpointWait
<1> QED BY <1>3, <1>4 DEF LongestWait, Direction

\* The checks of the durations leave an operation more time than its wait.
LEMMA TimingIs ==
  ASSUME NEW b
  PROVE  /\ IsSeq(TimingErrors(b))
         /\ TimingErrors(b) = <<>>
              => /\ \A i \in 1..7 : TimingFields[i] \in NeededTimings(b) => InRange(b, TimingFields[i])
                 /\ ~(Number(b, "operation_timeout_seconds") <= LongestWait(b))
<1> DEFINE short == Raise(Number(b, "operation_timeout_seconds") <= LongestWait(b),
                          "operation_timeout_too_short", "operation_timeout_seconds")
           numbers == Numeric(b, TimingFields, NeededTimings(b))
<1>1. IsSeq(short) /\ (short = <<>> => ~(Number(b, "operation_timeout_seconds") <= LongestWait(b)))
  <2>1. Number(b, "operation_timeout_seconds") \in Nat
    BY NumberIs DEF Durations
  <2>2. (Number(b, "operation_timeout_seconds") <= LongestWait(b)) \in BOOLEAN
    BY <2>1, WaitIs
  <2> QED BY <2>2, RaiseIs
<1>2. DOMAIN TimingFields = 1..7
  BY DEF TimingFields
<1>3. /\ IsSeq(numbers)
      /\ numbers = <<>>
           => \A i \in 1..7 : TimingFields[i] \in NeededTimings(b) => InRange(b, TimingFields[i])
  BY <1>2, NumericIs
<1>4. TimingErrors(b) = numbers \o short
  BY DEF TimingErrors
<1> HIDE DEF short, numbers
<1> QED BY <1>1, <1>3, <1>4, JoinEmpty

\* One endpoint's errors, with those of its contact where it has one.
LEMMA SideIs ==
  ASSUME NEW b, NEW d \in Direction
  PROVE  LET side == SourceErrors(b, d)
                       \o (IF Source(b, d) = "contact" THEN ContactErrors(b, d) ELSE <<>>)
         IN /\ IsSeq(side)
            /\ side = <<>> => /\ SourceErrors(b, d) = <<>>
                              /\ Source(b, d) = "contact" => ContactErrors(b, d) = <<>>
<1> DEFINE rest == IF Source(b, d) = "contact" THEN ContactErrors(b, d) ELSE <<>>
<1>1. IsSeq(<<>>)
  BY DEF IsSeq
<1>2. IsSeq(SourceErrors(b, d)) /\ IsSeq(rest)
  BY <1>1, EndIs
<1>3. rest = <<>> /\ Source(b, d) = "contact" => ContactErrors(b, d) = <<>>
  OBVIOUS
<1> HIDE DEF rest
<1>4. /\ IsSeq(SourceErrors(b, d) \o rest)
      /\ SourceErrors(b, d) \o rest = <<>> => SourceErrors(b, d) = <<>> /\ rest = <<>>
  BY <1>2, JoinEmpty
<1> QED BY <1>3, <1>4 DEF rest

\* What an accepted binding says.
Sound(b) ==
  /\ \A d \in Direction :
       /\ Source(b, d) \in Sources
       /\ Source(b, d) = "contact" => /\ Text(b, Field(d, "contact")) \in Sensors
                                      /\ Text(b, Field(d, "state")) \in {"on", "off"}
  /\ UsesPosition(b) => /\ Text(b, "position_kind") \in {"measured", "estimated"}
                        /\ InRange(b, "open_position") /\ InRange(b, "close_position")
                        /\ ~(b["close_position"] >= b["open_position"])
  /\ (\E d \in Direction : Estimates(b, d)) => On(b, "allow_estimated")
  /\ \A i \in 1..7 : TimingFields[i] \in NeededTimings(b) => InRange(b, TimingFields[i])
  /\ ~(Number(b, "operation_timeout_seconds") <= LongestWait(b))

\* What the checks of an enabled binding establish, one list after the other.
LEMMA EnabledIs ==
  ASSUME NEW b
  PROVE  /\ IsSeq(EnabledErrors(b, TRUE))
         /\ EnabledErrors(b, TRUE) = <<>>
              => /\ \A d \in Direction : /\ SourceErrors(b, d) = <<>>
                                         /\ Source(b, d) = "contact" => ContactErrors(b, d) = <<>>
                 /\ UsesPosition(b) => PositionErrors(b) = <<>>
                 /\ (\E d \in Direction : Estimates(b, d)) => On(b, "allow_estimated")
                 /\ TimingErrors(b) = <<>>
<1> DEFINE robot == Raise(~TRUE, "unsupported_robot", "none")
           mode == Raise(Has(b, "task_door_mode") /\ Text(b, "task_door_mode") = "",
                         "invalid_task_door_mode", "task_door_mode")
           cover == Raise(~Has(b, "cover_entity_id"), "missing_safety_configuration", "cover_entity_id")
           named == Raise(Text(b, "cover_entity_id") = "", "invalid_entity_reference", "cover_entity_id")
           side(d) == SourceErrors(b, d)
                        \o (IF Source(b, d) = "contact" THEN ContactErrors(b, d) ELSE <<>>)
           opens == side("open")
           closes == side("close")
           position == IF UsesPosition(b) THEN PositionErrors(b) ELSE <<>>
           risk == Raise(~On(b, "allow_estimated") /\ \E d \in Direction : Estimates(b, d),
                         "estimated_risk_not_accepted", "allow_estimated")
           timing == TimingErrors(b)
           handover == Raise(~On(b, "handover_confirmed"), "handover_required", "handover_confirmed")
           target == {i \in DOMAIN ExitFields : ~Has(b, ExitFields[i])}
           exit == IF On(b, "controlled_exit_enabled")
                   THEN Each(ExitFields, LAMBDA f : ~Has(b, f),
                             LAMBDA f : "missing_controlled_exit_target")
                   ELSE <<>>
<1>1. IsSeq(<<>>)
  BY DEF IsSeq
<1>2. IsSeq(robot) /\ IsSeq(mode) /\ IsSeq(cover) /\ IsSeq(named) /\ IsSeq(handover)
  BY RaiseIs
<1>3. IsSeq(exit)
  <2>1. \E r, f : Each(ExitFields, LAMBDA x : ~Has(b, x), LAMBDA x : "missing_controlled_exit_target")
                    = Raise(target # {}, r, f)
    BY Zenon DEF Each
  <2>2. IsSeq(Each(ExitFields, LAMBDA x : ~Has(b, x), LAMBDA x : "missing_controlled_exit_target"))
    BY <2>1, RaiseIs
  <2> QED BY <1>1, <2>2
<1>4. IsSeq(position) /\ (position = <<>> => (UsesPosition(b) => PositionErrors(b) = <<>>))
  BY <1>1, PositionIs
<1>5. IsSeq(risk) /\ (risk = <<>> => ((\E d \in Direction : Estimates(b, d)) => On(b, "allow_estimated")))
  BY RaiseIs DEF On
<1>6. IsSeq(timing)
  BY TimingIs
<1>7. /\ IsSeq(opens) /\ IsSeq(closes)
      /\ opens = <<>> /\ closes = <<>>
           => \A d \in Direction : /\ SourceErrors(b, d) = <<>>
                                   /\ Source(b, d) = "contact" => ContactErrors(b, d) = <<>>
  BY SideIs DEF Direction
<1> DEFINE first == robot \o mode \o cover \o named \o opens \o closes
<1>8. EnabledErrors(b, TRUE) = first \o position \o risk \o timing \o handover \o exit
  BY DEF EnabledErrors
<1> HIDE DEF robot, mode, cover, named, side, opens, closes, position, risk, timing, handover,
             target, exit
<1>9. IsSeq(first) /\ (first = <<>> => opens = <<>> /\ closes = <<>>)
  BY <1>2, <1>7, JoinSix
<1> HIDE DEF first
<1>10. /\ IsSeq(first) /\ IsSeq(position) /\ IsSeq(risk) /\ IsSeq(timing) /\ IsSeq(handover)
       /\ IsSeq(exit)
  BY <1>2, <1>3, <1>4, <1>5, <1>6, <1>9
<1> DEFINE all == first \o position \o risk \o timing \o handover \o exit
<1>11. IsSeq(all) /\ (all = <<>> => first = <<>> /\ position = <<>> /\ risk = <<>> /\ timing = <<>>)
  BY <1>10, JoinSix
<1>12. EnabledErrors(b, TRUE) = all
  BY <1>8
<1> HIDE DEF all
<1> QED BY <1>4, <1>5, <1>7, <1>9, <1>11, <1>12 DEF timing

\* The configuration's checks establish all of Sound.
LEMMA AcceptedIsSound ==
  ASSUME NEW b, Accepted(b, 1)
  PROVE  Sound(b)
<1>1. SuppliedErrors(b) = <<>> /\ EnabledErrors(b, TRUE) = <<>>
  <2>1. SuppliedErrors(b) \o EnabledErrors(b, TRUE) = <<>>
    BY DEF Accepted, BindingErrors
  <2> QED BY <2>1, SuppliedIs, EnabledIs, JoinEmpty
<1>2. TimingErrors(b) = <<>> /\ (UsesPosition(b) => PositionErrors(b) = <<>>)
  BY <1>1, EnabledIs
<1>3. ASSUME NEW d \in Direction
      PROVE  /\ Source(b, d) \in Sources
             /\ Source(b, d) = "contact" => /\ Text(b, Field(d, "contact")) \in Sensors
                                            /\ Text(b, Field(d, "state")) \in {"on", "off"}
  <2>1. /\ SourceErrors(b, d) = <<>>
        /\ Source(b, d) = "contact" => ContactErrors(b, d) = <<>>
    BY <1>1, EnabledIs
  <2>2. Text(b, Field(d, "contact")) \in {""} \cup Sensors
    BY <1>1, SuppliedIs
  <2> QED BY <2>1, <2>2, EndIs
<1> QED BY <1>1, <1>2, <1>3, EnabledIs, PositionIs, TimingIs DEF Sound

\* A needed duration of a sound binding is in its range.
LEMMA NeededIs ==
  ASSUME NEW b, Sound(b), NEW f \in Durations, f \in NeededTimings(b)
  PROVE  InRange(b, f)
<1>1. \E i \in 1..7 : TimingFields[i] = f
  <2>1. /\ TimingFields[1] = "open_travel_seconds" /\ TimingFields[2] = "close_travel_seconds"
        /\ TimingFields[3] = "travel_margin_seconds" /\ TimingFields[4] = "contact_settle_seconds"
        /\ TimingFields[5] = "position_settle_seconds" /\ TimingFields[6] = "operation_timeout_seconds"
    BY DEF TimingFields
  <2> QED BY <2>1 DEF Durations
<1> QED BY <1>1 DEF Sound

\* The evidence built from any binding at all is well formed.
LEMMA EvidenceIs ==
  ASSUME NEW b
  PROVE  EvidenceOf(b) \in BindingType
<1> DEFINE e == EvidenceOf(b)
<1>1. Number(b, "position_settle_seconds") \in Nat /\ Number(b, "travel_margin_seconds") \in Nat
  BY NumberIs DEF Durations
<1>2. \A d \in Direction : Number(b, Field(d, "travel")) \in Nat
  BY NumberIs DEF Durations, Direction, Field
<1>3. PositionReadable(b) => /\ b["open_position"] \in 0..100 /\ b["close_position"] \in 0..100
                             /\ Text(b, "position_kind") \in {"measured", "estimated"}
  BY DEF PositionReadable, InRange, Limits
<1>4. On(b, "allow_estimated") \in BOOLEAN
  BY DEF On
<1>5. e.source \in [Direction -> {"contact", "position", "timed", "invalid"}]
  BY DEF EvidenceOf, Sources
<1>6. e.polarity \in [Direction -> {"on", "off", "invalid"}]
  BY DEF EvidenceOf
<1>7. e.travel \in [Direction -> Nat]
  BY <1>2 DEF EvidenceOf
<1>8. /\ e.kind \in {"measured", "estimated", "invalid"}
      /\ e.openAt \in 0..100 /\ e.closeAt \in 0..100
  BY <1>3 DEF EvidenceOf
<1>9. e.settle \in Nat /\ e.margin \in Nat /\ e.allow \in BOOLEAN
  BY <1>1, <1>4 DEF EvidenceOf
<1>10. e = [source |-> e.source, polarity |-> e.polarity, kind |-> e.kind, openAt |-> e.openAt,
            closeAt |-> e.closeAt, settle |-> e.settle, travel |-> e.travel,
            margin |-> e.margin, allow |-> e.allow]
  BY DEF EvidenceOf
<1> HIDE DEF e
<1>11. e \in BindingType
  BY <1>5, <1>6, <1>7, <1>8, <1>9, <1>10 DEF BindingType
<1> QED BY <1>11 DEF e

\* What the evidence makes of an accepted binding.
LEMMA SoundIs ==
  ASSUME NEW b, Sound(b), NEW d \in Direction
  PROVE  LET e == EvidenceOf(b) IN
         /\ e.source[d] = Source(b, d) /\ Source(b, d) \in Sources
         /\ Source(b, d) = "contact" => e.polarity[d] \in {"on", "off"}
         /\ Source(b, d) = "position" => /\ e.kind = Text(b, "position_kind")
                                         /\ e.kind \in {"measured", "estimated"}
                                         /\ e.settle = Settling(b, d)
         /\ Estimates(b, d) => /\ e.travel[d] > 0 /\ e.travel[d] + e.margin = Travelling(b, d)
                               /\ e.allow
<1> DEFINE e == EvidenceOf(b)
<1>1. Source(b, d) \in Sources /\ e.source[d] = Source(b, d)
  BY DEF Sound, EvidenceOf
<1>2. Source(b, d) = "contact" => e.polarity[d] \in {"on", "off"}
  BY DEF Sound, EvidenceOf
<1>3. ASSUME Source(b, d) = "position"
      PROVE  /\ e.kind = Text(b, "position_kind") /\ e.kind \in {"measured", "estimated"}
             /\ e.settle = Settling(b, d)
  <2>1. UsesPosition(b)
    BY <1>3 DEF UsesPosition
  <2>2. "position_settle_seconds" \in NeededTimings(b)
    BY <1>3 DEF NeededTimings
  <2>3. InRange(b, "position_settle_seconds")
    BY <2>2, NeededIs DEF Durations
  <2>4. /\ Text(b, "position_kind") \in {"measured", "estimated"}
        /\ InRange(b, "open_position") /\ InRange(b, "close_position")
        /\ ~(b["close_position"] >= b["open_position"])
    BY <2>1 DEF Sound
  <2>5. PositionReadable(b)
    <3>1. b["open_position"] \in 0..100 /\ b["close_position"] \in 0..100
      BY <2>4, LimitsAre DEF InRange
    <3>2. \A x, y \in 0..100 : ~(y >= x) => y < x
      OBVIOUS
    <3>3. b["close_position"] < b["open_position"]
      BY <2>4, <3>1, <3>2, Zenon
    <3> QED BY <2>3, <2>4, <3>3 DEF PositionReadable
  <2> QED BY <1>3, <2>4, <2>5 DEF EvidenceOf, Settling
<1>4. ASSUME Estimates(b, d)
      PROVE  e.travel[d] > 0 /\ e.travel[d] + e.margin = Travelling(b, d) /\ e.allow
  <2>1. {Field(d, "travel"), "travel_margin_seconds"} \subseteq NeededTimings(b)
    BY <1>4 DEF NeededTimings
  <2>2. Field(d, "travel") \in {"open_travel_seconds", "close_travel_seconds"}
    BY DEF Direction, Field
  <2>3. InRange(b, Field(d, "travel")) /\ InRange(b, "travel_margin_seconds")
    BY <2>1, <2>2, NeededIs DEF Durations
  <2>4. Number(b, Field(d, "travel")) \in 1..600
    BY <2>2, <2>3, LimitsAre DEF Number, InRange
  <2>5. On(b, "allow_estimated")
    BY <1>4 DEF Sound
  <2> QED BY <1>4, <2>3, <2>4, <2>5 DEF EvidenceOf, Travelling
<1> QED BY <1>1, <1>2, <1>3, <1>4

\* The last moment of an operation leaves room to travel and to settle.
LEMMA LateIs ==
  ASSUME NEW b, Sound(b), NEW d \in Direction
  PROVE  LET late == Number(b, "operation_timeout_seconds") - 1
         IN late \in Nat /\ Travelling(b, d) \in Nat /\ Settling(b, d) \in Nat
            /\ late >= Settling(b, d) + Travelling(b, d)
<1>1. Number(b, "operation_timeout_seconds") \in Nat
  BY NumberIs DEF Durations
<1>2. ~(Number(b, "operation_timeout_seconds") <= LongestWait(b))
  BY DEF Sound
<1>3. /\ Travelling(b, d) \in Nat /\ Settling(b, d) \in Nat
      /\ EndpointWait(b, d) = Settling(b, d) + Travelling(b, d)
      /\ EndpointWait(b, d) <= LongestWait(b) /\ LongestWait(b) \in Nat
  BY WaitIs DEF EndpointWait
<1> QED BY <1>1, <1>2, <1>3

\* An end that is reached for good.
Reading(e, d) ==
  [available |-> TRUE, restored |-> FALSE,
   position |-> IF e.source[d] = "position" THEN IF d = "open" THEN 100 ELSE 0 ELSE NoPosition,
   contact |-> [x \in Direction |-> IF x = d /\ e.source[d] = "contact"
                                    THEN e.polarity[d] ELSE "missing"]]

\* Such a reading is one the door's sensors can give.
LEMMA ReadingIs ==
  ASSUME {0, 100} \subseteq Positions, NEW b, Sound(b), NEW d \in Direction
  PROVE  Reading(EvidenceOf(b), d) \in ReadingsOf(EvidenceOf(b))
<1> DEFINE e == EvidenceOf(b)
           in == Reading(e, d)
<1>1. e.source[d] = "contact" => e.polarity[d] \in {"on", "off"}
  BY SoundIs
<1> HIDE DEF e
<1>2. in.contact \in [Direction -> {"on", "off", "missing"}]
  BY <1>1 DEF Reading
<1>3. \A x \in Direction : e.source[x] # "contact" => in.contact[x] = "missing"
  BY DEF Reading
<1>4. in.position \in {NoPosition} \cup
                      (IF \E x \in Direction : e.source[x] = "position" THEN Positions ELSE {})
  BY DEF Reading
<1> QED BY <1>2, <1>3, <1>4 DEF ReadingsOf, Reading, e

\* Read that way, a reached end is believed before the operation times out.
LEMMA BelievedInTime ==
  ASSUME NEW b, Sound(b), NEW d \in Direction
  PROVE  LET e == EvidenceOf(b)
             cmd == [direction |-> d, at |-> 0]
             end == Endpoint(e, d, Number(b, "operation_timeout_seconds") - 1, cmd,
                             Travelling(b, d), Reading(e, d)).ev
         IN end.reached = "yes" /\ (end.quality = "estimated" => e.allow)
<1> DEFINE e == EvidenceOf(b)
           cmd == [direction |-> d, at |-> 0]
           late == Number(b, "operation_timeout_seconds") - 1
           in == Reading(e, d)
           end == Endpoint(e, d, late, cmd, Travelling(b, d), in).ev
<1>1. /\ e \in BindingType
      /\ e.source[d] = Source(b, d) /\ Source(b, d) \in Sources
      /\ Source(b, d) = "contact" => e.polarity[d] \in {"on", "off"}
      /\ Source(b, d) = "position" => /\ e.kind = Text(b, "position_kind")
                                      /\ e.kind \in {"measured", "estimated"}
                                      /\ e.settle = Settling(b, d)
      /\ Estimates(b, d) => /\ e.travel[d] > 0 /\ e.travel[d] + e.margin = Travelling(b, d)
                            /\ e.allow
  BY SoundIs, EvidenceIs
<1>2. /\ late \in Nat /\ Travelling(b, d) \in Nat /\ Settling(b, d) \in Nat
      /\ late >= Settling(b, d) + Travelling(b, d)
  BY LateIs
<1> HIDE DEF e, late
<1>3. Estimates(b, d) => Estimate(e, d, late, cmd) = "elapsed"
  BY <1>1, <1>2 DEF Estimate, BindingType
<1>4. ASSUME Source(b, d) = "contact"
      PROVE  end.reached = "yes" /\ (end.quality = "estimated" => e.allow)
  <2>1. ContactReached(e, d, in) = "yes"
    BY <1>1, <1>4 DEF ContactReached, Reading
  <2> QED BY <1>1, <1>4, <2>1 DEF Endpoint, ContactEndpoint, Evidence
<1>5. ASSUME Source(b, d) = "position"
      PROVE  end.reached = "yes" /\ (end.quality = "estimated" => e.allow)
  <2>1. in.position # NoPosition /\ Shows(e, d, in)
    BY <1>1, <1>5 DEF Shows, Reading, NoPosition, Direction, BindingType
  <2>2. SettledSince(e, d, late, Travelling(b, d), in) = Travelling(b, d)
    BY <1>2, <2>1 DEF SettledSince, Never
  <2>3. e.kind = "estimated" => Estimates(b, d)
    BY <1>1, <1>5 DEF Estimates
  <2>4. ~(late - Travelling(b, d) < e.settle)
    BY <1>1, <1>2, <1>5
  <2> QED BY <1>1, <1>3, <1>5, <2>1, <2>2, <2>3, <2>4 DEF Endpoint, PositionEndpoint, Evidence
<1>6. ASSUME Source(b, d) = "timed"
      PROVE  end.reached = "yes" /\ (end.quality = "estimated" => e.allow)
  <2>1. Estimates(b, d)
    BY <1>6 DEF Estimates
  <2> QED BY <1>1, <1>3, <1>6, <2>1 DEF Endpoint, TimedEndpoint, Evidence
<1>7. end.reached = "yes" /\ (end.quality = "estimated" => e.allow)
  BY <1>1, <1>4, <1>5, <1>6 DEF Sources
<1> QED BY <1>7 DEF e, late

\* The evidence never finds a sound binding invalid, whatever is read.
LEMMA NeverInvalid ==
  ASSUME NEW b, Sound(b), NEW d \in Direction, NEW in
  PROVE  LET e == EvidenceOf(b)
             cmd == [direction |-> d, at |-> 0]
         IN Endpoint(e, d, 0, cmd, Travelling(b, d), in).ev.reason # "invalid_configuration"
<1> DEFINE e == EvidenceOf(b)
           cmd == [direction |-> d, at |-> 0]
           end == Endpoint(e, d, 0, cmd, Travelling(b, d), in).ev
<1>1. /\ e.source[d] = Source(b, d) /\ Source(b, d) \in Sources
      /\ Source(b, d) = "contact" => e.polarity[d] \in {"on", "off"}
      /\ Source(b, d) = "position" => /\ e.kind = Text(b, "position_kind")
                                      /\ e.kind \in {"measured", "estimated"}
      /\ Estimates(b, d) => e.travel[d] > 0
  BY SoundIs
<1> HIDE DEF e
<1>2. Estimates(b, d) => Estimate(e, d, 0, cmd) \in {"travel_in_progress", "elapsed"}
  BY <1>1 DEF Estimate
<1>3. ASSUME Source(b, d) = "contact"
      PROVE  end.reason # "invalid_configuration"
  BY <1>1, <1>3 DEF Endpoint, ContactEndpoint, Evidence, Unknown
<1>4. ASSUME Source(b, d) = "position"
      PROVE  end.reason # "invalid_configuration"
  <2>1. e.kind = "estimated" => Estimates(b, d)
    BY <1>1, <1>4 DEF Estimates
  <2> QED BY <1>1, <1>2, <1>4, <2>1 DEF Endpoint, PositionEndpoint, Evidence, Unknown
<1>5. ASSUME Source(b, d) = "timed"
      PROVE  end.reason # "invalid_configuration"
  <2>1. Estimates(b, d)
    BY <1>5 DEF Estimates
  <2> QED BY <1>1, <1>2, <1>5, <2>1 DEF Endpoint, TimedEndpoint, Evidence, Unknown
<1>6. end.reason # "invalid_configuration"
  BY <1>1, <1>3, <1>4, <1>5 DEF Sources
<1> QED BY <1>6 DEF e

\* The two sets of rules agree (garage_config.py:178-240, door_evidence.py:196-282):
\* whatever binding validate_binding accepts, DoorEvidence never judges an end of
\* it invalid_configuration, and believes an end that is reached before the
\* operation times out.  No behaviour is assumed: it holds of every draft a form
\* can keep.  The scale of positions has both its ends, 0 and 100.
THEOREM AcceptedIsBelieved ==
  ASSUME {0, 100} \subseteq Positions
  PROVE  AcceptedIsBelievable
<1> SUFFICES ASSUME Accepted(form.draft, 1), NEW d \in Direction
             PROVE  LET b == form.draft
                        e == EvidenceOf(b)
                        cmd == [direction |-> d, at |-> 0]
                        late == Number(b, "operation_timeout_seconds") - 1
                        end(now, in) == Endpoint(e, d, now, cmd, Travelling(b, d), in).ev
                    IN /\ e \in BindingType
                       /\ \A in \in ReadingsOf(e) : end(0, in).reason # "invalid_configuration"
                       /\ \E in \in ReadingsOf(e) :
                            end(late, in).reached = "yes"
                              /\ (end(late, in).quality = "estimated" => e.allow)
  BY Zenon DEF AcceptedIsBelievable
<1>1. Sound(form.draft)
  BY AcceptedIsSound
<1> QED BY <1>1, EvidenceIs, NeverInvalid, ReadingIs, BelievedInTime

-----------------------------------------------------------------------------
(* The options form: what there is to settle. *)

\* The fields a form can ask for.
FormFields == DOMAIN Limits \cup ToSet(BoolFields) \cup DOMAIN Options

\* A field about which no form complains any more.
Right(b, f) ==
  /\ Fits(b, f)
  /\ f = "cover_entity_id" => b[f] \notin UnusableCovers \cup TakenCovers
  /\ f \in {"allow_estimated", "handover_confirmed"} => On(b, f)

\* What the checks ask of two fields together.
Side(b, d) == Fits(b, Field(d, "contact")) /\ Fits(b, Field(d, "state"))
Apart(b) ==
  /\ Fits(b, "open_contact") /\ Fits(b, "close_contact")
  /\ b["open_contact"] # b["close_contact"]
Ordered(b) ==
  /\ InRange(b, "open_position") /\ InRange(b, "close_position")
  /\ b["close_position"] < b["open_position"]
Roomy(b) ==
  InRange(b, "operation_timeout_seconds") /\ b["operation_timeout_seconds"] > 780

\* All there is to settle.
Issues == FormFields \cup Direction \cup {"apart", "ordered", "roomy"}

\* The issues that are settled for good, whatever is submitted from now on.
Settled(b) ==
  {f \in FormFields : Right(b, f)} \cup {d \in Direction : Side(b, d)}
    \cup {i \in {"apart"} : Apart(b)} \cup {i \in {"ordered"} : Ordered(b)}
    \cup {i \in {"roomy"} : Roomy(b)}

\* Whatever was supplied before the thresholds were compared is right.
Clean(b) ==
  /\ \A f \in ToSet(BoolFields) : Has(b, f) => Fits(b, f)
  /\ \A f \in DOMAIN Limits : Has(b, f) => InRange(b, f)

\* A complaint of f has one of these causes.
Justified(b, f) ==
  \/ f \in FormFields /\ ~Right(b, f)
  \/ \E d \in Direction : f = Field(d, "contact") /\ Source(b, d) = "contact" /\ ~Side(b, d)
  \/ /\ f = "close_contact" /\ ~Apart(b)
     /\ Fits(b, "open_contact") /\ Fits(b, "close_contact")
  \/ /\ f = "open_position" /\ ~Ordered(b) /\ Clean(b)
     /\ InRange(b, "open_position") /\ InRange(b, "close_position")
  \/ f = "operation_timeout_seconds" /\ InRange(b, f) /\ ~Roomy(b)

\* A complaint is just, its field is shown, and with a contact its state.
SoundPage(page) ==
  page.error # "none" =>
    /\ Justified(page.draft, page.error) /\ page.error \in page.fields
    /\ \A d \in Direction :
         page.error = Field(d, "contact") /\ Source(page.draft, d) = "contact"
           => Field(d, "state") \in page.fields

\* The closed threshold is at the end of the scale and out of sight.
Stuck(page) ==
  /\ page.step = "garage_feedback" /\ page.error = "open_position"
  /\ page.fields = FeedbackFields(page.draft) \cup {"open_position"}
  /\ ~UsesPosition(page.draft) /\ Clean(page.draft)
  /\ InRange(page.draft, "open_position") /\ Has(page.draft, "close_position")
  /\ page.draft["close_position"] = 100

\* The measure of an open form: what its answer settles, then its step.
StepIndex(s) == CASE s = "garage" -> 0 [] s = "garage_feedback" -> 1 [] OTHER -> 2
Progress(page) == 3 * Cardinality(Settled(Answer(page))) + StepIndex(page.step)

-----------------------------------------------------------------------------
(* The first complaint of a list of errors. *)

\* A list of errors is empty or complains with reason.
Blames(s, b) == IsSeq(s) /\ (s # <<>> => Justified(b, Head(s).field))

\* The least of some naturals is one of them.
LEMMA MinIn ==
  ASSUME NEW S \in SUBSET Nat, S # {}
  PROVE  Min(S) \in S
<1> DEFINE R == OpToRel(<, Nat)
<1>1. \A x, y \in Nat : y < x => <<y, x>> \in R
  BY DEF OpToRel
<1>2. IsWellFoundedOn(R, Nat)
  BY NatLessThanWellFounded
<1> HIDE DEF R
<1>3. PICK x \in S : \A y \in S : ~(<<y, x>> \in R)
  BY <1>2, WFMin
<1>4. ASSUME NEW y \in S
      PROVE  x <= y
  <2>1. x \in Nat /\ y \in Nat
    OBVIOUS
  <2>2. ~(y < x)
    BY <1>1, <1>3, <2>1
  <2> QED BY <2>1, <2>2
<1> QED BY <1>4 DEF Min

\* No complaint is a just one.
LEMMA BlamesNone ==
  ASSUME NEW b
  PROVE  Blames(<<>>, b)
BY DEF Blames, IsSeq

\* A check that complains only with reason blames.
LEMMA BlamesRaise ==
  ASSUME NEW b, NEW p \in BOOLEAN, NEW r, NEW f, p => Justified(b, f)
  PROVE  Blames(Raise(p, r, f), b)
<1>1. CASE ~p
  BY <1>1, BlamesNone DEF Raise
<1>2. CASE p
  <2> DEFINE e == [reason |-> r, field |-> f]
  <2>1. Raise(p, r, f) = <<e>> /\ <<e>> \in Seq({e}) /\ Head(<<e>>) = e /\ e.field = f
    BY <1>2 DEF Raise
  <2> HIDE DEF e
  <2> QED BY <1>2, <2>1 DEF Blames, IsSeq
<1> QED BY <1>1, <1>2

\* The first complaint of two lists of errors is that of the first that has one.
LEMMA JoinHead ==
  ASSUME NEW s, NEW t, IsSeq(s), IsSeq(t)
  PROVE  /\ IsSeq(s \o t)
         /\ s # <<>> => Head(s \o t) = Head(s)
         /\ s = <<>> => s \o t = t
<1>1. PICK S : s \in Seq(S)
  BY DEF IsSeq
<1>2. PICK T : t \in Seq(T)
  BY DEF IsSeq
<1>3. s \in Seq(S \cup T) /\ t \in Seq(S \cup T)
  BY <1>1, <1>2, SeqMonotonic
<1>4. IsSeq(s \o t)
  BY JoinEmpty
<1>5. s # <<>> => Head(s \o t) = Head(s)
  BY <1>3
<1>6. s = <<>> => s \o t = t
  BY <1>3
<1> QED BY <1>4, <1>5, <1>6

\* The later errors need only be just where there are no earlier ones.
LEMMA BlamesJoin ==
  ASSUME NEW b, NEW s, NEW t, Blames(s, b), IsSeq(t), s = <<>> => Blames(t, b)
  PROVE  Blames(s \o t, b)
<1>1. IsSeq(s)
  BY DEF Blames
<1>2. CASE s = <<>>
  BY <1>1, <1>2, JoinHead
<1>3. CASE s # <<>>
  BY <1>1, <1>3, JoinHead, JoinEmpty DEF Blames
<1> QED BY <1>2, <1>3

\* The first bad field of a list is one of the bad ones.
LEMMA BlamesAt ==
  ASSUME NEW b, NEW fields, NEW bad \in SUBSET Nat, NEW r,
         \A i \in bad : Justified(b, fields[i])
  PROVE  Blames(Raise(bad # {}, r, fields[Min(bad)]), b)
<1>1. bad # {} => Justified(b, fields[Min(bad)])
  BY MinIn
<1> QED BY <1>1, BlamesRaise

\* The fields of each kind.
LEMMA Names ==
  /\ DOMAIN Limits =
       {"open_travel_seconds", "close_travel_seconds", "travel_margin_seconds",
        "contact_settle_seconds", "position_settle_seconds", "operation_timeout_seconds",
        "dock_settle_seconds", "controlled_exit_x", "controlled_exit_y",
        "controlled_exit_timeout_seconds", "open_position", "close_position"}
  /\ ToSet(BoolFields) =
       {"enabled", "allow_estimated", "handover_confirmed", "controlled_exit_enabled"}
  /\ DOMAIN Options =
       {"task_door_mode", "open_source", "close_source", "open_contact_state",
        "close_contact_state", "position_kind", "cover_entity_id",
        "close_permission_entity", "open_contact", "close_contact"}
<1>1. DOMAIN BoolFields = 1..4
  BY DEF BoolFields
<1>2. ToSet(BoolFields) = {BoolFields[1], BoolFields[2], BoolFields[3], BoolFields[4]}
  BY <1>1 DEF ToSet
<1>3. ToSet(BoolFields) =
       {"enabled", "allow_estimated", "handover_confirmed", "controlled_exit_enabled"}
  BY <1>2 DEF BoolFields
<1> QED BY <1>3 DEF Limits, Options

\* What a field's own rule is.
LEMMA FitsIs ==
  ASSUME NEW b, NEW f
  PROVE  /\ f \in DOMAIN Limits => (Fits(b, f) <=> InRange(b, f))
         /\ f \in ToSet(BoolFields) => (Fits(b, f) <=> Has(b, f) /\ b[f] \in {"true", "false"})
         /\ f \in DOMAIN Options => (Fits(b, f) <=> Has(b, f) /\ b[f] \in Options[f])
<1>1. f \in ToSet(BoolFields) => f \notin DOMAIN Limits
  BY Names
<1>2. f \in DOMAIN Options => f \notin DOMAIN Limits /\ f \notin ToSet(BoolFields)
  BY Names
<1> QED BY <1>1, <1>2, Zenon DEF Fits

\* _number complains of a field that is out of its range.
LEMMA BlamesNumeric ==
  ASSUME NEW b, NEW fields, DOMAIN fields \in SUBSET Nat, NEW needed,
         \A i \in DOMAIN fields : fields[i] \in DOMAIN Limits
  PROVE  Blames(Numeric(b, fields, needed), b)
<1> DEFINE bad == {i \in DOMAIN fields : fields[i] \in needed /\ ~InRange(b, fields[i])}
<1>1. \E r : Numeric(b, fields, needed) = Raise(bad # {}, r, fields[Min(bad)])
  BY Zenon DEF Numeric, Each
<1>2. \A i \in bad : Justified(b, fields[i])
  BY FitsIs DEF Justified, Right, FormFields
<1>3. bad \in SUBSET Nat
  OBVIOUS
<1> HIDE DEF bad
<1> QED BY <1>1, <1>2, <1>3, BlamesAt

\* The lists of fields, one by one.
LEMMA Lists ==
  /\ DOMAIN BoolFields = 1..4 /\ DOMAIN EntityFields = 1..4 /\ DOMAIN ChoiceFields = 1..6
  /\ DOMAIN ExitFields = 1..3 /\ DOMAIN TimingFields = 1..7 /\ DOMAIN NumberFields = 1..12
  /\ \A i \in 1..4 : BoolFields[i] \in ToSet(BoolFields)
  /\ \A i \in 1..4 : EntityFields[i] \in DOMAIN Options
  /\ \A i \in 1..6 : ChoiceFields[i] \in DOMAIN Options
  /\ \A i \in 1..3 : ExitFields[i] \in DOMAIN Limits
  /\ \A i \in 1..7 : TimingFields[i] \in DOMAIN Limits
  /\ \A i \in 1..12 : NumberFields[i] \in DOMAIN Limits
  /\ \A f \in DOMAIN Limits : \E i \in 1..12 : NumberFields[i] = f
  /\ \A f \in ToSet(BoolFields) : \E i \in 1..4 : BoolFields[i] = f
<1>1. DOMAIN BoolFields = 1..4 /\ \A i \in 1..4 : BoolFields[i] \in ToSet(BoolFields)
  BY DEF BoolFields, ToSet
<1>2. DOMAIN EntityFields = 1..4 /\ \A i \in 1..4 : EntityFields[i] \in DOMAIN Options
  BY Names DEF EntityFields
<1>3. DOMAIN ChoiceFields = 1..6 /\ \A i \in 1..6 : ChoiceFields[i] \in DOMAIN Options
  BY Names DEF ChoiceFields
<1>4. DOMAIN ExitFields = 1..3 /\ \A i \in 1..3 : ExitFields[i] \in DOMAIN Limits
  BY Names DEF ExitFields
<1>5. DOMAIN TimingFields = 1..7 /\ \A i \in 1..7 : TimingFields[i] \in DOMAIN Limits
  BY Names DEF TimingFields
<1>6. \A f \in ToSet(BoolFields) : \E i \in 1..4 : BoolFields[i] = f
  BY <1>1 DEF ToSet
<1>7. /\ DOMAIN NumberFields = 1..12
      /\ NumberFields[1] = "open_travel_seconds" /\ NumberFields[2] = "close_travel_seconds"
      /\ NumberFields[3] = "travel_margin_seconds" /\ NumberFields[4] = "contact_settle_seconds"
      /\ NumberFields[5] = "position_settle_seconds"
      /\ NumberFields[6] = "operation_timeout_seconds" /\ NumberFields[7] = "dock_settle_seconds"
      /\ NumberFields[8] = "controlled_exit_x" /\ NumberFields[9] = "controlled_exit_y"
      /\ NumberFields[10] = "controlled_exit_timeout_seconds"
      /\ NumberFields[11] = "open_position" /\ NumberFields[12] = "close_position"
  BY DEF NumberFields, TimingFields, ExitFields
<1>8. \A i \in 1..12 : NumberFields[i] \in DOMAIN Limits
  BY <1>7, Names
<1>9. \A f \in DOMAIN Limits : \E i \in 1..12 : NumberFields[i] = f
  BY <1>7, Names
<1> QED BY <1>1, <1>2, <1>3, <1>4, <1>5, <1>6, <1>7, <1>8, <1>9

\* _validate_supplied_fields complains only with reason, the thresholds last of all numbers.
LEMMA SuppliedBlames ==
  ASSUME NEW b
  PROVE  /\ Blames(SuppliedErrors(b), b)
         /\ SuppliedErrors(b) = <<>> => Thresholds(b) = <<>>
<1> DEFINE unknown(f) == Text(b, f) \notin {""} \cup Options[f]
           odd == {i \in DOMAIN BoolFields : /\ Has(b, BoolFields[i])
                                             /\ b[BoolFields[i]] \notin {"true", "false"}}
           strange == {i \in DOMAIN EntityFields : unknown(EntityFields[i])}
           wrong == {i \in DOMAIN ChoiceFields : unknown(ChoiceFields[i])}
           bools == Each(BoolFields, LAMBDA f : Has(b, f) /\ b[f] \notin {"true", "false"},
                         LAMBDA f : "invalid_boolean_value")
           numbers == Numeric(b, NumberFields, DOMAIN b)
           order == Thresholds(b)
           entities == Each(EntityFields, unknown, Reason)
           choices == Each(ChoiceFields, unknown, Reason)
           twice == Raise(/\ Text(b, "open_contact") # ""
                          /\ Text(b, "open_contact") = Text(b, "close_contact"),
                          "duplicate_endpoint", "close_contact")
<1>1. SuppliedErrors(b) = bools \o numbers \o order \o entities \o choices \o twice
  BY DEF SuppliedErrors
<1>2. ASSUME NEW f \in DOMAIN Options, unknown(f)
      PROVE  Justified(b, f)
  BY <1>2, FitsIs DEF Justified, Right, FormFields, Text
<1>3. /\ Blames(bools, b)
      /\ bools = <<>> => \A f \in ToSet(BoolFields) : Has(b, f) => Fits(b, f)
  <2>1. \E r : bools = Raise(odd # {}, r, BoolFields[Min(odd)])
    BY Zenon DEF Each
  <2>2. \A i \in odd : Justified(b, BoolFields[i])
    BY Lists, FitsIs DEF Justified, Right, FormFields
  <2>3. odd \in SUBSET Nat
    BY Lists
  <2>4. odd = {} => \A f \in ToSet(BoolFields) : Has(b, f) => Fits(b, f)
    BY Lists, FitsIs
  <2> HIDE DEF odd, bools
  <2>5. bools = <<>> => odd = {}
    BY <2>1, RaiseIs
  <2> QED BY <2>1, <2>2, <2>3, <2>4, <2>5, BlamesAt
<1>4. /\ Blames(numbers, b)
      /\ numbers = <<>> => \A f \in DOMAIN Limits : Has(b, f) => InRange(b, f)
  <2>1. Blames(numbers, b)
    BY Lists, BlamesNumeric
  <2>2. numbers = <<>> => \A i \in 1..12 : Has(b, NumberFields[i]) => InRange(b, NumberFields[i])
    BY Lists, NumericIs DEF Has
  <2> HIDE DEF numbers
  <2> QED BY <2>1, <2>2, Lists
<1>5. Clean(b) => Blames(order, b)
  <2>1. ASSUME Clean(b), InRange(b, "open_position"), InRange(b, "close_position"),
               b["close_position"] >= b["open_position"]
        PROVE  Justified(b, "open_position")
    <3>1. b["close_position"] \in 0..100 /\ b["open_position"] \in 0..100
      BY <2>1, LimitsAre DEF InRange
    <3>2. ~(b["close_position"] < b["open_position"])
      <4> DEFINE c == b["close_position"]
                 o == b["open_position"]
      <4>1. c \in Int /\ o \in Int /\ c >= o
        BY <2>1, <3>1
      <4> HIDE DEF c, o
      <4>2. ~(c < o)
        BY <4>1
      <4> QED BY <4>2 DEF c, o
    <3>3. ~Ordered(b)
      BY <3>2, Zenon DEF Ordered
    <3> QED BY <2>1, <3>3 DEF Justified
  <2> QED BY <2>1, BlamesRaise DEF Thresholds
<1>6. IsSeq(order)
  BY RaiseIs DEF Thresholds
<1>7. Blames(entities, b) /\ (entities = <<>> => strange = {})
  <2>1. \E r : entities = Raise(strange # {}, r, EntityFields[Min(strange)])
    BY Zenon DEF Each
  <2>2. \A i \in strange : Justified(b, EntityFields[i])
    BY <1>2, Lists
  <2> HIDE DEF unknown
  <2>3. strange \in SUBSET Nat
    BY Lists
  <2> HIDE DEF strange, entities
  <2> QED BY <2>1, <2>2, <2>3, BlamesAt, RaiseIs
<1>8. Blames(choices, b)
  <2>1. \E r : choices = Raise(wrong # {}, r, ChoiceFields[Min(wrong)])
    BY Zenon DEF Each
  <2>2. \A i \in wrong : Justified(b, ChoiceFields[i])
    BY <1>2, Lists
  <2> HIDE DEF unknown
  <2>3. wrong \in SUBSET Nat
    BY Lists
  <2> HIDE DEF wrong, choices
  <2> QED BY <2>1, <2>2, <2>3, BlamesAt
<1>9. strange = {} => Blames(twice, b)
  <2>1. ASSUME strange = {}, Text(b, "open_contact") # "",
               Text(b, "open_contact") = Text(b, "close_contact")
        PROVE  Justified(b, "close_contact")
    <3>1. EntityFields[3] = "open_contact" /\ EntityFields[4] = "close_contact"
      BY DEF EntityFields
    <3>2. ~unknown("open_contact") /\ ~unknown("close_contact")
      <4> HIDE DEF unknown
      <4>1. \A i \in 1..4 : ~unknown(EntityFields[i])
        BY <2>1, Lists
      <4>2. ~unknown(EntityFields[3]) /\ ~unknown(EntityFields[4])
        BY <4>1
      <4> QED BY <3>1, <4>2
    <3>3. Fits(b, "open_contact") /\ Fits(b, "close_contact")
      BY <2>1, <3>2, FitsIs, Names DEF Text
    <3>4. ~Apart(b)
      BY <2>1, <3>3, FitsIs, Names DEF Apart, Text
    <3> QED BY <3>3, <3>4 DEF Justified
  <2> QED BY <2>1, BlamesRaise
<1>10. IsSeq(twice)
  BY RaiseIs
<1> HIDE DEF unknown, odd, strange, wrong, bools, numbers, order, entities, choices, twice
<1>11. Blames(bools \o numbers, b) /\ (bools \o numbers = <<>> => Clean(b))
  BY <1>3, <1>4, BlamesJoin, JoinEmpty DEF Blames, Clean
<1>12. /\ Blames(bools \o numbers \o order, b)
       /\ bools \o numbers \o order = <<>> => order = <<>>
  BY <1>5, <1>6, <1>11, BlamesJoin, JoinEmpty DEF Blames
<1>13. /\ Blames(bools \o numbers \o order \o entities, b)
       /\ bools \o numbers \o order \o entities = <<>> => order = <<>> /\ entities = <<>>
  BY <1>7, <1>12, BlamesJoin, JoinEmpty DEF Blames
<1>14. /\ Blames(bools \o numbers \o order \o entities \o choices, b)
       /\ bools \o numbers \o order \o entities \o choices = <<>>
            => order = <<>> /\ entities = <<>>
  BY <1>8, <1>13, BlamesJoin, JoinEmpty DEF Blames
<1>15. /\ Blames(bools \o numbers \o order \o entities \o choices \o twice, b)
       /\ bools \o numbers \o order \o entities \o choices \o twice = <<>> => order = <<>>
  BY <1>7, <1>9, <1>10, <1>14, BlamesJoin, JoinEmpty DEF Blames
<1> QED BY <1>1, <1>15 DEF order

\* What each field of text may say.
LEMMA OptionsAre ==
  /\ Options["task_door_mode"] = {"hold_open", "after_exit"}
  /\ Options["open_source"] = Sources /\ Options["close_source"] = Sources
  /\ Options["open_contact_state"] = {"on", "off"}
  /\ Options["close_contact_state"] = {"on", "off"}
  /\ Options["position_kind"] = {"measured", "estimated"}
  /\ Options["cover_entity_id"] = Covers
  /\ Options["close_permission_entity"] = {"input_boolean.close"}
  /\ Options["open_contact"] = Sensors /\ Options["close_contact"] = Sensors
BY DEF Options

\* An empty field of text never fits.
LEMMA EmptyIsUnfit ==
  ASSUME NEW b, NEW f \in DOMAIN Options, Text(b, f) = ""
  PROVE  ~Fits(b, f)
<1>1. "" \notin Options[f]
  <2>1. "" \notin Covers
    BY FormAssumption
  <2>2. /\ "" \notin Options["task_door_mode"]
        /\ "" \notin Options["open_source"] /\ "" \notin Options["close_source"]
        /\ "" \notin Options["open_contact_state"] /\ "" \notin Options["close_contact_state"]
        /\ "" \notin Options["position_kind"] /\ "" \notin Options["cover_entity_id"]
        /\ "" \notin Options["close_permission_entity"]
        /\ "" \notin Options["open_contact"] /\ "" \notin Options["close_contact"]
    BY <2>1, OptionsAre DEF Sources, Sensors
  <2> QED BY <2>2, Names
<1> QED BY <1>1, FitsIs DEF Text

\* The fields of one direction.
LEMMA EndFields ==
  ASSUME NEW d \in Direction
  PROVE  /\ Field(d, "source") \in DOMAIN Options /\ Options[Field(d, "source")] = Sources
         /\ Field(d, "contact") \in DOMAIN Options /\ Options[Field(d, "contact")] = Sensors
         /\ Field(d, "state") \in DOMAIN Options /\ Options[Field(d, "state")] = {"on", "off"}
         /\ Field(d, "source") \in {"open_source", "close_source"}
         /\ Field(d, "contact") \in {"open_contact", "close_contact"}
         /\ Field(d, "state") \in {"open_contact_state", "close_contact_state"}
<1>1. CASE d = "open"
  <2>1. /\ Field(d, "source") = "open_source" /\ Field(d, "contact") = "open_contact"
        /\ Field(d, "state") = "open_contact_state"
    BY <1>1 DEF Field
  <2> QED BY <2>1, Names, OptionsAre
<1>2. CASE d = "close"
  <2>1. /\ Field(d, "source") = "close_source" /\ Field(d, "contact") = "close_contact"
        /\ Field(d, "state") = "close_contact_state"
    BY <1>2 DEF Field
  <2> QED BY <2>1, Names, OptionsAre
<1> QED BY <1>1, <1>2 DEF Direction

\* A field that does not fit may be complained of.
LEMMA UnrightIsJust ==
  ASSUME NEW b, NEW f \in FormFields, ~Fits(b, f)
  PROVE  Justified(b, f)
BY DEF Justified, Right

\* An evidence source is complained of when it is missing or unknown.
LEMMA BlamesSource ==
  ASSUME NEW b, NEW d \in Direction
  PROVE  Blames(SourceErrors(b, d), b)
<1> DEFINE f == Field(d, "source")
           missing == Raise(~Has(b, f), "missing_safety_configuration", f)
           invalid == Raise(Source(b, d) \notin Sources, "invalid_evidence_source", f)
<1>1. f \in FormFields /\ f \in DOMAIN Options /\ Options[f] = Sources
  BY EndFields DEF FormFields
<1>2. ~Has(b, f) => Justified(b, f)
  BY <1>1, FitsIs, UnrightIsJust
<1>3. Source(b, d) \notin Sources => Justified(b, f)
  BY <1>1, FitsIs, UnrightIsJust DEF Source, Text
<1>4. Blames(missing, b) /\ Blames(invalid, b)
  BY <1>2, <1>3, BlamesRaise DEF Has
<1>5. SourceErrors(b, d) = missing \o invalid
  BY DEF SourceErrors
<1> HIDE DEF missing, invalid
<1> QED BY <1>4, <1>5, BlamesJoin DEF Blames

\* A contact is complained of when it or its state does not fit.
LEMMA BlamesContact ==
  ASSUME NEW b, NEW d \in Direction, Source(b, d) = "contact"
  PROVE  Blames(ContactErrors(b, d), b)
<1> DEFINE c == Field(d, "contact")
           s == Field(d, "state")
<1>1. Text(b, c) = "" => ~Fits(b, c)
  BY EndFields, EmptyIsUnfit
<1>2. Text(b, s) \notin {"on", "off"} => ~Fits(b, s)
  BY EndFields, FitsIs DEF Text
<1>3. Text(b, c) = "" \/ Text(b, s) \notin {"on", "off"} => Justified(b, c)
  BY <1>1, <1>2 DEF Justified, Side
<1> QED BY <1>3, BlamesRaise DEF ContactErrors

\* So is the kind of a position.
LEMMA BlamesKind ==
  ASSUME NEW b
  PROVE  Blames(Raise(Text(b, "position_kind") \notin {"measured", "estimated"},
                      "invalid_position_configuration", "position_kind"), b)
<1>1. Text(b, "position_kind") \notin {"measured", "estimated"} => Justified(b, "position_kind")
  BY Names, OptionsAre, FitsIs, UnrightIsJust DEF Text, FormFields
<1> QED BY <1>1, BlamesRaise

\* So are the thresholds, in either order.
LEMMA BlamesThresholds ==
  ASSUME NEW b, NEW fields, fields \in {<<"close_position", "open_position">>,
                                         <<"open_position", "close_position">>}
  PROVE  Blames(Numeric(b, fields, ThresholdFields), b)
<1>1. DOMAIN fields \in SUBSET Nat /\ \A i \in DOMAIN fields : fields[i] \in DOMAIN Limits
  BY Names
<1> QED BY <1>1, BlamesNumeric

\* So is what a position needs, once the thresholds are apart.
LEMMA BlamesPosition ==
  ASSUME NEW b, Thresholds(b) = <<>>
  PROVE  Blames(PositionErrors(b), b)
<1> DEFINE kind == Raise(Text(b, "position_kind") \notin {"measured", "estimated"},
                         "invalid_position_configuration", "position_kind")
           numbers == Numeric(b, <<"close_position", "open_position">>, ThresholdFields)
<1>1. Blames(kind, b) /\ Blames(numbers, b) /\ Blames(<<>>, b)
  BY BlamesKind, BlamesThresholds, BlamesNone
<1>2. PositionErrors(b) = kind \o numbers \o <<>>
  BY DEF PositionErrors
<1> HIDE DEF kind, numbers
<1>3. Blames(kind \o numbers, b)
  BY <1>1, BlamesJoin DEF Blames
<1> QED BY <1>1, <1>2, <1>3, BlamesJoin DEF Blames

\* No end waits longer than the longest travel, margin and settling together.
LEMMA WaitBound ==
  ASSUME NEW b
  PROVE  LongestWait(b) <= 780
<1>1. \A d \in Direction : Number(b, Field(d, "travel")) \in 0..600
  <2>1. \A d \in Direction : Field(d, "travel") \in {"open_travel_seconds", "close_travel_seconds"}
    BY DEF Direction, Field
  <2> QED BY <2>1, LimitsAre DEF Number, InRange
<1>2. /\ Number(b, "travel_margin_seconds") \in 0..120
      /\ Number(b, "contact_settle_seconds") \in 0..60
      /\ Number(b, "position_settle_seconds") \in 0..60
  <2>1. /\ Limits["travel_margin_seconds"] = 0..120 /\ Limits["contact_settle_seconds"] = 0..60
        /\ Limits["position_settle_seconds"] = 0..60
    BY DEF Limits
  <2> QED BY <2>1 DEF Number, InRange
<1>3. \A d \in Direction : Settling(b, d) \in 0..60
  BY <1>2 DEF Settling
<1>4. ASSUME NEW d \in Direction
      PROVE  EndpointWait(b, d) \in Nat /\ EndpointWait(b, d) <= 780
  <2> DEFINE t == Number(b, Field(d, "travel"))
             m == Number(b, "travel_margin_seconds")
             s == Settling(b, d)
             r == Travelling(b, d)
  <2>1. r = t + m \/ r = 0
    BY DEF Travelling
  <2>2. t \in 0..600 /\ m \in 0..120 /\ s \in 0..60
    BY <1>1, <1>2, <1>3
  <2> HIDE DEF t, m, s, r
  <2>3. s + r \in Nat /\ s + r <= 780
    BY <2>1, <2>2
  <2> QED BY <2>3 DEF EndpointWait, s, r
<1> QED BY <1>4 DEF LongestWait, Direction

\* A timeout above that wait is never too short.
LEMMA BlamesTiming ==
  ASSUME NEW b
  PROVE  Blames(TimingErrors(b), b)
<1> DEFINE t == "operation_timeout_seconds"
           numbers == Numeric(b, TimingFields, NeededTimings(b))
           short == Raise(Number(b, t) <= LongestWait(b), "operation_timeout_too_short", t)
<1>1. Blames(numbers, b)
  BY Lists, BlamesNumeric
<1>2. Number(b, t) \in Nat /\ LongestWait(b) \in Nat
  BY NumberIs, WaitIs DEF Durations
<1>3. Number(b, t) <= LongestWait(b) => Justified(b, t)
  <2>1. CASE InRange(b, t)
    BY <1>2, <2>1, WaitBound DEF Justified, Roomy, Number
  <2>2. CASE ~InRange(b, t)
    BY <2>2, Names, FitsIs, UnrightIsJust DEF FormFields
  <2> QED BY <2>1, <2>2
<1>4. (Number(b, t) <= LongestWait(b)) \in BOOLEAN
  BY <1>2
<1>5. Blames(short, b)
  BY <1>3, <1>4, BlamesRaise
<1>6. TimingErrors(b) = numbers \o short
  BY DEF TimingErrors
<1> HIDE DEF numbers, short
<1> QED BY <1>1, <1>5, <1>6, BlamesJoin DEF Blames

\* Two lists that blame make one that does.
LEMMA BlamesBoth ==
  ASSUME NEW b, NEW s, NEW t, Blames(s, b), Blames(t, b)
  PROVE  Blames(s \o t, b)
BY BlamesJoin DEF Blames

\* Six of them do too.
LEMMA BlamesSix ==
  ASSUME NEW x, NEW a, NEW b, NEW c, NEW d, NEW e, NEW f, Blames(a, x), Blames(b, x),
         Blames(c, x), Blames(d, x), Blames(e, x), Blames(f, x)
  PROVE  Blames(a \o b \o c \o d \o e \o f, x)
BY BlamesBoth

\* A cover is complained of when it is missing, empty, unusable or taken.
LEMMA BlamesCover ==
  ASSUME NEW b
  PROVE  /\ Text(b, "cover_entity_id") = "" => Justified(b, "cover_entity_id")
         /\ ~Has(b, "cover_entity_id") => Justified(b, "cover_entity_id")
         /\ Text(b, "cover_entity_id") \in UnusableCovers \cup TakenCovers
              => Justified(b, "cover_entity_id")
<1> DEFINE f == "cover_entity_id"
<1>1. f \in DOMAIN Options /\ f \in FormFields
  BY Names DEF FormFields
<1>2. Text(b, f) = "" => Justified(b, f)
  BY <1>1, EmptyIsUnfit, UnrightIsJust
<1>3. ~Has(b, f) => Text(b, f) = ""
  BY DEF Text
<1>4. Text(b, f) \in UnusableCovers \cup TakenCovers => ~Fits(b, f) \/ ~Right(b, f)
  <2>1. Fits(b, f) => Has(b, f)
    BY <1>1, FitsIs
  <2> QED BY <2>1 DEF Right, Text
<1> QED BY <1>1, <1>2, <1>3, <1>4, UnrightIsJust DEF Justified

\* A task door mode is complained of when it is empty.
LEMMA BlamesMode ==
  ASSUME NEW b
  PROVE  Blames(Raise(Has(b, "task_door_mode") /\ Text(b, "task_door_mode") = "",
                      "invalid_task_door_mode", "task_door_mode"), b)
<1>1. Text(b, "task_door_mode") = "" => Justified(b, "task_door_mode")
  BY Names, EmptyIsUnfit, UnrightIsJust DEF FormFields
<1> QED BY <1>1, BlamesRaise DEF Has

\* What is asked of an enabled binding only complains with reason.
LEMMA EnabledBlames ==
  ASSUME NEW b, Thresholds(b) = <<>>
  PROVE  Blames(EnabledErrors(b, TRUE), b)
<1> DEFINE robot == Raise(~TRUE, "unsupported_robot", "none")
           mode == Raise(Has(b, "task_door_mode") /\ Text(b, "task_door_mode") = "",
                         "invalid_task_door_mode", "task_door_mode")
           cover == Raise(~Has(b, "cover_entity_id"), "missing_safety_configuration", "cover_entity_id")
           named == Raise(Text(b, "cover_entity_id") = "", "invalid_entity_reference", "cover_entity_id")
           side(d) == SourceErrors(b, d)
                        \o (IF Source(b, d) = "contact" THEN ContactErrors(b, d) ELSE <<>>)
           opens == side("open")
           closes == side("close")
           position == IF UsesPosition(b) THEN PositionErrors(b) ELSE <<>>
           risk == Raise(~On(b, "allow_estimated") /\ \E d \in Direction : Estimates(b, d),
                         "estimated_risk_not_accepted", "allow_estimated")
           timing == TimingErrors(b)
           handover == Raise(~On(b, "handover_confirmed"), "handover_required", "handover_confirmed")
           target == {i \in DOMAIN ExitFields : ~Has(b, ExitFields[i])}
           exits == Each(ExitFields, LAMBDA f : ~Has(b, f),
                         LAMBDA f : "missing_controlled_exit_target")
           exit == IF On(b, "controlled_exit_enabled") THEN exits ELSE <<>>
<1>1. Blames(robot, b)
  BY BlamesRaise
<1>2. Blames(mode, b)
  BY BlamesMode
<1>3. Blames(cover, b) /\ Blames(named, b)
  BY BlamesCover, BlamesRaise DEF Has
<1>4. ASSUME NEW d \in Direction
      PROVE  Blames(side(d), b)
  BY BlamesSource, BlamesContact, BlamesNone, BlamesBoth
<1>5. Blames(opens, b) /\ Blames(closes, b)
  BY <1>4 DEF Direction
<1>6. Blames(position, b)
  BY BlamesPosition, BlamesNone
<1>7. Blames(risk, b)
  <2>1. ~On(b, "allow_estimated") => Justified(b, "allow_estimated")
    BY Names DEF Justified, Right, FormFields
  <2> QED BY <2>1, BlamesRaise DEF On
<1>8. Blames(timing, b)
  BY BlamesTiming
<1>9. Blames(handover, b)
  <2>1. ~On(b, "handover_confirmed") => Justified(b, "handover_confirmed")
    BY Names DEF Justified, Right, FormFields
  <2> QED BY <2>1, BlamesRaise DEF On
<1>10. Blames(exit, b)
  <2>1. \E r : exits = Raise(target # {}, r, ExitFields[Min(target)])
    BY Zenon DEF Each
  <2>2. \A i \in target : Justified(b, ExitFields[i])
    BY Lists, FitsIs, UnrightIsJust DEF FormFields, InRange
  <2>3. target \in SUBSET Nat
    BY Lists
  <2> HIDE DEF target, exits
  <2>4. Blames(exits, b)
    BY <2>1, <2>2, <2>3, BlamesAt
  <2> QED BY <2>4, BlamesNone
<1> DEFINE first == robot \o mode \o cover \o named \o opens \o closes
<1>11. EnabledErrors(b, TRUE) = first \o position \o risk \o timing \o handover \o exit
  BY DEF EnabledErrors
<1> HIDE DEF robot, mode, cover, named, side, opens, closes, position, risk, timing, handover,
             target, exits, exit
<1>12. Blames(first, b)
  BY <1>1, <1>2, <1>3, <1>5, BlamesSix
<1> HIDE DEF first
<1>13. Blames(first \o position \o risk \o timing \o handover \o exit, b)
  BY <1>6, <1>7, <1>8, <1>9, <1>10, <1>12, BlamesSix
<1> QED BY <1>11, <1>13

\* The save complains only with reason, and keeps only what validate_binding accepts.
LEMMA SaveBlames ==
  ASSUME NEW b
  PROVE  /\ Blames(SaveErrors(b, TRUE), b)
         /\ SaveErrors(b, TRUE) = <<>> => BindingErrors(b, TRUE) = <<>>
<1> DEFINE enabled == IF On(b, "enabled") THEN EnabledErrors(b, TRUE) ELSE <<>>
           unusable == Raise(Text(b, "cover_entity_id") \in UnusableCovers, "unsupported_cover",
                             "cover_entity_id")
           taken == Raise(Text(b, "cover_entity_id") \in TakenCovers, "duplicate_binding",
                          "cover_entity_id")
           rest == IF On(b, "enabled") THEN unusable \o taken ELSE <<>>
<1>1. BindingErrors(b, TRUE) = SuppliedErrors(b) \o enabled
  BY DEF BindingErrors
<1>2. SaveErrors(b, TRUE) = BindingErrors(b, TRUE) \o rest
  BY DEF SaveErrors
<1>3. IsSeq(enabled) /\ (SuppliedErrors(b) = <<>> => Blames(enabled, b))
  BY EnabledIs, SuppliedBlames, EnabledBlames, BlamesNone DEF Blames
<1>4. Blames(rest, b)
  <2>1. /\ Text(b, "cover_entity_id") \in UnusableCovers => Justified(b, "cover_entity_id")
        /\ Text(b, "cover_entity_id") \in TakenCovers => Justified(b, "cover_entity_id")
    BY BlamesCover
  <2>2. Blames(unusable, b)
    <3> DEFINE p == Text(b, "cover_entity_id") \in UnusableCovers
    <3>1. p \in BOOLEAN /\ (p => Justified(b, "cover_entity_id"))
      BY <2>1
    <3> HIDE DEF p
    <3>2. \A r : Blames(Raise(p, r, "cover_entity_id"), b)
      BY <3>1, BlamesRaise
    <3> QED BY <3>2 DEF p
  <2>3. Blames(taken, b)
    <3> DEFINE p == Text(b, "cover_entity_id") \in TakenCovers
    <3>1. p \in BOOLEAN /\ (p => Justified(b, "cover_entity_id"))
      BY <2>1
    <3> HIDE DEF p
    <3>2. \A r : Blames(Raise(p, r, "cover_entity_id"), b)
      BY <3>1, BlamesRaise
    <3> QED BY <3>2 DEF p
  <2> HIDE DEF unusable, taken
  <2> QED BY <2>2, <2>3, BlamesBoth, BlamesNone
<1> HIDE DEF enabled, unusable, taken, rest
<1>5. Blames(BindingErrors(b, TRUE), b)
  <2>1. Blames(SuppliedErrors(b) \o enabled, b)
    BY <1>3, SuppliedBlames, BlamesJoin
  <2> QED BY <1>1, <2>1
<1> QED BY <1>2, <1>4, <1>5, BlamesBoth, JoinEmpty DEF Blames

\* Errors are answered with a form about the first of them.
LEMMA AnsweredIs ==
  ASSUME NEW b, NEW s, NEW next, Blames(s, b)
  PROVE  \/ s = <<>> /\ Answered(b, s, next) = next
         \/ \E e : Answered(b, s, next) = ErrorForm(b, e) /\ Justified(b, e.field)
<1>1. s # <<>> => Justified(b, Head(s).field)
  BY DEF Blames
<1> DEFINE h == Head(s)
<1>2. Answered(b, s, next) = IF s # <<>> THEN ErrorForm(b, h) ELSE next
  BY DEF Answered
<1> HIDE DEF h
<1>3. s # <<>> => Justified(b, h.field)
  BY <1>1 DEF h
<1> QED BY <1>2, <1>3

\* The steps of the form.
StepSet == {"garage", "garage_feedback", "garage_timing"}

\* Where a submission of b from a step can lead.
Leads(p, b, n) ==
  \/ p = Done(b) /\ BindingErrors(b, TRUE) = <<>>
  \/ \E s \in StepSet : p = Ask(s, b) /\ StepIndex(s) > n
  \/ \E e : p = ErrorForm(b, e) /\ Justified(b, e.field)

\* The save ends the flow or complains.
LEMMA SaveLeads ==
  ASSUME NEW b, NEW n
  PROVE  Leads(Save(b, TRUE), b, n)
<1>1. \/ SaveErrors(b, TRUE) = <<>> /\ Save(b, TRUE) = Done(b)
      \/ \E e : Save(b, TRUE) = ErrorForm(b, e) /\ Justified(b, e.field)
  BY SaveBlames, AnsweredIs DEF Save
<1> QED BY <1>1, SaveBlames DEF Leads

\* The first step leads on, to the save, or complains.
LEMMA BasicsLead ==
  ASSUME NEW b
  PROVE  Leads(SubmitBasics(b, TRUE), b, 0)
<1> DEFINE cover == "cover_entity_id"
           empty == Raise(Text(b, cover) = "", "missing_safety_configuration", cover)
           mode == Raise(Has(b, "task_door_mode") /\ Text(b, "task_door_mode") = "",
                         "invalid_task_door_mode", "task_door_mode")
           needs == empty \o mode \o SourceErrors(b, "open") \o SourceErrors(b, "close")
           at == IF FeedbackFields(b) # {} THEN "garage_feedback" ELSE "garage_timing"
           then == Ask(at, b)
           next == IF ~On(b, "enabled") THEN Save(b, TRUE) ELSE Answered(b, needs, then)
<1>1. SubmitBasics(b, TRUE) = Answered(b, SuppliedErrors(b), next)
  BY DEF SubmitBasics
<1>2. Blames(needs, b)
  <2>1. Blames(empty, b) /\ Blames(mode, b)
    BY BlamesCover, BlamesRaise, BlamesMode
  <2>2. Blames(SourceErrors(b, "open"), b) /\ Blames(SourceErrors(b, "close"), b)
    BY BlamesSource DEF Direction
  <2> HIDE DEF empty, mode
  <2> QED BY <2>1, <2>2, BlamesBoth
<1>3. Leads(then, b, 0)
  <2>1. at \in StepSet /\ StepIndex(at) > 0
    BY DEF StepSet, StepIndex
  <2> HIDE DEF at
  <2> QED BY <2>1 DEF Leads
<1> HIDE DEF at, needs, then
<1>4. Leads(Answered(b, needs, then), b, 0)
  BY <1>2, <1>3, AnsweredIs DEF Leads
<1>5. Leads(next, b, 0)
  BY <1>4, SaveLeads
<1> HIDE DEF next
<1>6. Leads(Answered(b, SuppliedErrors(b), next), b, 0)
  BY <1>5, SuppliedBlames, AnsweredIs DEF Leads
<1> QED BY <1>1, <1>6

\* The second step leads on or complains.
LEMMA FeedbackLeads ==
  ASSUME NEW b
  PROVE  Leads(SubmitFeedback(b), b, 1)
<1> DEFINE contact(d) == IF Source(b, d) = "contact" THEN ContactErrors(b, d) ELSE <<>>
           opens == contact("open")
           closes == contact("close")
           kind == Raise(Text(b, "position_kind") \notin {"measured", "estimated"},
                         "invalid_position_configuration", "position_kind")
           numbers == Numeric(b, <<"open_position", "close_position">>, ThresholdFields)
           position == IF ~UsesPosition(b) THEN <<>> ELSE kind \o numbers
           errors == SuppliedErrors(b) \o opens \o closes \o position
           next == Ask("garage_timing", b)
<1>1. SubmitFeedback(b) = Answered(b, errors, next)
  BY DEF SubmitFeedback
<1>2. Blames(opens, b) /\ Blames(closes, b)
  BY BlamesContact, BlamesNone DEF Direction
<1>3. Blames(kind, b) /\ Blames(numbers, b)
  BY BlamesKind, BlamesThresholds
<1> HIDE DEF contact, opens, closes, kind, numbers
<1>4. Blames(position, b)
  BY <1>3, BlamesBoth, BlamesNone
<1> HIDE DEF position
<1>5. Blames(errors, b)
  BY <1>2, <1>4, SuppliedBlames, BlamesBoth
<1>6. Leads(next, b, 1)
  BY DEF Leads, StepSet, StepIndex
<1> HIDE DEF errors, next
<1>7. Leads(Answered(b, errors, next), b, 1)
  BY <1>5, <1>6, AnsweredIs DEF Leads
<1> QED BY <1>1, <1>7

\* So a submission saves, leads to a later step or complains.
LEMMA SubmitLeads ==
  ASSUME NEW b, NEW step \in StepSet
  PROVE  Leads(Submit(step, b, TRUE), b, StepIndex(step))
<1>1. CASE step = "garage"
  BY <1>1, BasicsLead DEF Submit, StepIndex
<1>2. CASE step = "garage_feedback"
  BY <1>2, FeedbackLeads DEF Submit, StepIndex
<1>3. CASE step = "garage_timing"
  BY <1>3, SaveLeads DEF Submit
<1> QED BY <1>1, <1>2, <1>3 DEF StepSet

-----------------------------------------------------------------------------
(* The page a complaint is shown on. *)

\* A just complaint is of a field.
LEMMA JustField ==
  ASSUME NEW b, NEW f, Justified(b, f)
  PROVE  f \in FormFields /\ f # "none"
<1>1. "open_position" \in FormFields /\ "operation_timeout_seconds" \in FormFields
  BY Names DEF FormFields
<1>2. \A d \in Direction : Field(d, "contact") \in FormFields
  BY EndFields DEF FormFields
<1>3. "close_contact" \in FormFields /\ "none" \notin FormFields
  BY Names DEF FormFields
<1> QED BY <1>1, <1>2, <1>3, Zenon DEF Justified

\* _garage_error_form shows the field it complains of, at the step it belongs to.
LEMMA ErrorPage ==
  ASSUME NEW b, NEW e, Justified(b, e.field)
  PROVE  LET p == ErrorForm(b, e)
         IN /\ p.draft = b /\ p.error = e.field /\ p.step \in StepSet
            /\ p.fields = Shown(p.step, b) \cup {e.field}
            /\ e.field \in Shown("garage_feedback", b) /\ e.field \notin Shown("garage", b)
                 => p.step = "garage_feedback"
            /\ (/\ e.field \in HardwareFields /\ e.field \notin Shown("garage", b)
                /\ e.field \notin Shown("garage_timing", b))
                 => p.step = "garage_feedback"
<1> DEFINE p == ErrorForm(b, e)
<1>1. e.field # "none"
  BY JustField
<1> DEFINE f == e.field
           step == IF f \in Shown("garage", b) THEN "garage"
                   ELSE IF \/ f \in Shown("garage_feedback", b)
                           \/ (f \in HardwareFields /\ ~(f \in Shown("garage_timing", b)))
                   THEN "garage_feedback" ELSE "garage_timing"
<1>2. p = Page(step, b, Shown(step, b) \cup ({f} \ {"none"}), f)
  BY DEF ErrorForm
<1>3. /\ step \in StepSet
      /\ f \in Shown("garage_feedback", b) /\ f \notin Shown("garage", b) => step = "garage_feedback"
      /\ (f \in HardwareFields /\ f \notin Shown("garage", b) /\ f \notin Shown("garage_timing", b))
           => step = "garage_feedback"
  BY DEF StepSet
<1> HIDE DEF f, step, p
<1>4. p.draft = b /\ p.error = f /\ p.step = step /\ p.fields = Shown(step, b) \cup ({f} \ {"none"})
  BY <1>2 DEF Page
<1>5. {f} \ {"none"} = {f}
  BY <1>1 DEF f
<1>6. /\ p.draft = b /\ p.error = f /\ p.step \in StepSet
      /\ p.fields = Shown(p.step, b) \cup {f}
      /\ f \in Shown("garage_feedback", b) /\ f \notin Shown("garage", b)
           => p.step = "garage_feedback"
      /\ (f \in HardwareFields /\ f \notin Shown("garage", b) /\ f \notin Shown("garage_timing", b))
           => p.step = "garage_feedback"
  BY <1>3, <1>4, <1>5
<1> QED BY <1>6 DEF p, f

\* So its page is sound.
LEMMA ErrorPageSound ==
  ASSUME NEW b, NEW e, Justified(b, e.field)
  PROVE  SoundPage(ErrorForm(b, e))
<1> DEFINE p == ErrorForm(b, e)
<1>1. /\ p.draft = b /\ p.error = e.field
      /\ p.fields = Shown(p.step, b) \cup {e.field}
      /\ e.field \in Shown("garage_feedback", b) /\ e.field \notin Shown("garage", b)
           => p.step = "garage_feedback"
  BY ErrorPage
<1> HIDE DEF p
<1>2. ASSUME NEW d \in Direction, e.field = Field(d, "contact"), Source(b, d) = "contact"
      PROVE  Field(d, "state") \in p.fields
  <2>1. Field(d, "contact") \in FeedbackFields(b) /\ Field(d, "state") \in FeedbackFields(b)
    BY <1>2 DEF FeedbackFields
  <2>2. Shown("garage_feedback", b) = FeedbackFields(b)
    BY DEF Shown
  <2>3. e.field \notin Shown("garage", b)
    BY <1>2, EndFields DEF Shown
  <2> QED BY <1>1, <1>2, <2>1, <2>2, <2>3
<1>3. SoundPage(p)
  BY <1>1, <1>2 DEF SoundPage
<1> QED BY <1>3 DEF p

\* Which fields the steps show that the proofs tell apart.
LEMMA ShownIs ==
  ASSUME NEW b
  PROVE  /\ Shown("garage_feedback", b) = FeedbackFields(b)
         /\ "open_position" \notin Shown("garage", b)
         /\ "open_position" \notin Shown("garage_timing", b)
         /\ "open_position" \in FeedbackFields(b) => "close_position" \in FeedbackFields(b)
         /\ "open_position" \in FeedbackFields(b) <=> UsesPosition(b)
<1>1. "open_position" \notin NeededTimings(b)
  <2>1. \A d \in Direction : Field(d, "travel") \in {"open_travel_seconds", "close_travel_seconds"}
    BY DEF Direction, Field
  <2> QED BY <2>1 DEF NeededTimings
<1>2. "open_position" \notin ToSet(ExitFields)
  BY DEF ToSet, ExitFields
<1>3. Shown("garage_feedback", b) = FeedbackFields(b) /\ "open_position" \notin Shown("garage", b)
  BY DEF Shown
<1>4. "open_position" \notin Shown("garage_timing", b)
  BY <1>1, <1>2 DEF Shown
<1>5. \A d \in Direction : /\ Field(d, "contact") \notin {"open_position", "close_position"}
                           /\ Field(d, "state") \notin {"open_position", "close_position"}
  BY EndFields
<1>6. "open_position" \in FeedbackFields(b) <=> UsesPosition(b)
  BY <1>5 DEF FeedbackFields
<1>7. "close_position" \in FeedbackFields(b) <=> UsesPosition(b)
  BY <1>5 DEF FeedbackFields
<1> QED BY <1>3, <1>4, <1>6, <1>7

\* A closed threshold of 100 that no source reads is out of sight of the complaint.
LEMMA HiddenThreshold ==
  ASSUME NEW b, NEW e, e.field = "open_position", Justified(b, e.field), Clean(b),
         InRange(b, "open_position"), InRange(b, "close_position"),
         b["close_position"] = 100, ~UsesPosition(b)
  PROVE  Stuck(ErrorForm(b, e))
<1> DEFINE p == ErrorForm(b, e)
<1>1. e.field \in HardwareFields
  BY DEF HardwareFields
<1>2. p.step = "garage_feedback" /\ p.draft = b /\ p.error = e.field
      /\ p.fields = Shown(p.step, b) \cup {e.field}
  BY <1>1, ErrorPage, ShownIs
<1> HIDE DEF p
<1>3. Stuck(p)
  BY <1>2, ShownIs DEF Stuck, InRange
<1> QED BY <1>3 DEF p

-----------------------------------------------------------------------------
(* What the operator sends back. *)

\* What the answer says of a field the form asks for.
SentOf(page, f) ==
  IF f \in Blamed(page.error) THEN Entered(page.draft, f)
  ELSE IF Fits(page.draft, f) THEN page.draft[f]
  ELSE IF ~Has(page.draft, f) /\ f \in ToSet(BoolFields) THEN "false"
  ELSE IF ~Has(page.draft, f) /\ f \in DOMAIN Suggested(page.draft)
       THEN Suggested(page.draft)[f]
  ELSE Entered(page.draft, f)

\* The answer, field by field.
LEMMA AnswerIs ==
  ASSUME NEW page
  PROVE  /\ \A f : Has(page.draft, f) => Has(Answer(page), f)
         /\ \A f : f \notin page.fields =>
              /\ Has(Answer(page), f) <=> Has(page.draft, f)
              /\ Has(page.draft, f) => Answer(page)[f] = page.draft[f]
         /\ \A f \in page.fields : ~(MayStayEmpty(page.draft, f) /\ f # page.error) =>
              Has(Answer(page), f) /\ Answer(page)[f] = SentOf(page, f)
         /\ \A f \in page.fields : MayStayEmpty(page.draft, f) /\ f # page.error =>
              /\ Has(Answer(page), f) <=> Has(page.draft, f)
              /\ Has(page.draft, f) => Answer(page)[f] = page.draft[f]
<1> DEFINE b == page.draft
           left == {f \in page.fields : MayStayEmpty(b, f) /\ f # page.error}
           shown == page.fields \ left
<1>1. Answer(page) = [f \in DOMAIN b \cup shown |-> IF f \in shown THEN SentOf(page, f) ELSE b[f]]
  BY Zenon DEF Answer, SentOf
<1>2. \A f \in page.fields : f \in shown <=> ~(MayStayEmpty(b, f) /\ f # page.error)
  OBVIOUS
<1>3. \A f : f \notin page.fields => f \notin shown
  OBVIOUS
<1> HIDE DEF shown, left
<1> QED BY <1>1, <1>2, <1>3 DEF Has

\* A value that fits and is not complained of is sent back as it is.
LEMMA KeptIs ==
  ASSUME NEW page, NEW f \in FormFields, Fits(page.draft, f), f \notin Blamed(page.error)
  PROVE  Has(Answer(page), f) /\ Answer(page)[f] = page.draft[f]
<1>1. Has(page.draft, f)
  BY FitsIs DEF FormFields, InRange
<1>2. SentOf(page, f) = page.draft[f]
  BY DEF SentOf
<1> QED BY <1>1, <1>2, AnswerIs

\* The operator enters the good value, or a contact the other end does not use.
LEMMA EnteredIs ==
  ASSUME NEW b
  PROVE  /\ \A f : f \notin {"open_contact", "close_contact"} => Entered(b, f) = Good[f]
         /\ Entered(b, "open_contact") \in Sensors
         /\ Entered(b, "open_contact") # Text(b, "close_contact")
         /\ Entered(b, "close_contact") \in Sensors
         /\ Entered(b, "close_contact") # Text(b, "open_contact")
<1>1. \A x : \E s \in Sensors : s # x
  BY DEF Sensors
<1>2. \A f : f \notin {"open_contact", "close_contact"} => Entered(b, f) = Good[f]
  BY Zenon DEF Entered
<1>3. Entered(b, "open_contact") = CHOOSE s \in Sensors : s # Text(b, "close_contact")
  BY DEF Entered
<1>4. Entered(b, "close_contact") = CHOOSE s \in Sensors : s # Text(b, "open_contact")
  BY DEF Entered
<1> QED BY <1>1, <1>2, <1>3, <1>4

\* Whatever the operator enters is right.
LEMMA EnteredRight ==
  ASSUME NEW b, NEW a, NEW f \in FormFields, Has(a, f), a[f] = Entered(b, f)
  PROVE  Right(a, f)
<1>1. CASE f \in {"open_contact", "close_contact"}
  <2>1. f \in DOMAIN Options /\ Options[f] = Sensors
    BY <1>1, Names, OptionsAre
  <2>2. Entered(b, f) \in Sensors
    BY <1>1, EnteredIs
  <2>3. Fits(a, f)
    BY <2>1, <2>2, FitsIs
  <2> QED BY <1>1, <2>3 DEF Right
<1>2. CASE f \notin {"open_contact", "close_contact"}
  <2>1. a[f] = Good[f] /\ Fits(Good, f)
    <3>1. \A g \in FormFields : Fits(Good, g)
      BY FormAssumption DEF FormFields
    <3>2. Entered(b, f) = Good[f]
      BY <1>2, EnteredIs
    <3> QED BY <3>1, <3>2
  <2>2. Fits(a, f)
    BY <2>1, FitsIs DEF FormFields, InRange
  <2>3. f = "cover_entity_id" => a[f] \notin UnusableCovers \cup TakenCovers
    BY <2>1, FormAssumption
  <2>4. f \in {"allow_estimated", "handover_confirmed"} => Good[f] = "true"
    BY FormAssumption DEF On, Text
  <2>5. f \in {"allow_estimated", "handover_confirmed"} => On(a, f)
    BY <2>1, <2>4 DEF On, Text
  <2> QED BY <2>2, <2>3, <2>5 DEF Right
<1> QED BY <1>1, <1>2

\* A field that is shown and complained of is answered with a right value.
LEMMA BlamedIs ==
  ASSUME NEW page, NEW f \in FormFields, f \in page.fields, f \in Blamed(page.error)
  PROVE  /\ Has(Answer(page), f) /\ Answer(page)[f] = Entered(page.draft, f)
         /\ Right(Answer(page), f)
<1>1. ~(MayStayEmpty(page.draft, f) /\ f # page.error)
  BY DEF MayStayEmpty, Blamed
<1>2. Has(Answer(page), f) /\ Answer(page)[f] = Entered(page.draft, f)
  BY <1>1, AnswerIs DEF SentOf
<1> QED BY <1>2, EnteredRight

\* What fits goes on fitting, and what is right stays right.
LEMMA FitStays ==
  ASSUME NEW page, NEW f \in FormFields
  PROVE  /\ Fits(page.draft, f) => Fits(Answer(page), f)
         /\ Right(page.draft, f) => Right(Answer(page), f)
<1> DEFINE b == page.draft
           a == Answer(page)
<1>1. CASE Fits(b, f) /\ f \in Blamed(page.error) /\ f \in page.fields
  BY <1>1, BlamedIs DEF Right
<1>2. CASE Fits(b, f) /\ ~(f \in Blamed(page.error) /\ f \in page.fields)
  <2>1. Has(b, f)
    BY <1>2, FitsIs DEF FormFields, InRange
  <2>2. Has(a, f) /\ a[f] = b[f]
    BY <1>2, <2>1, KeptIs, AnswerIs
  <2>3. Fits(a, f)
    BY <1>2, <2>2, FitsIs DEF FormFields, InRange
  <2>4. On(b, f) => On(a, f)
    BY <2>1, <2>2 DEF On, Text
  <2> QED BY <2>2, <2>3, <2>4 DEF Right
<1>3. CASE ~Fits(b, f)
  BY <1>3 DEF Right
<1> QED BY <1>1, <1>2, <1>3

\* No default is given for the state of a contact: the operator enters it.
LEMMA StateGiven ==
  ASSUME NEW page, NEW d \in Direction, Field(d, "state") \in page.fields
  PROVE  Fits(Answer(page), Field(d, "state"))
<1> DEFINE f == Field(d, "state")
<1>1. f \in {"open_contact_state", "close_contact_state"} /\ f \in FormFields
  BY EndFields DEF FormFields
<1>2. f \notin ToSet(BoolFields) /\ f \notin DOMAIN Suggested(page.draft)
  <2>1. DOMAIN Suggested(page.draft) =
          {"travel_margin_seconds", "contact_settle_seconds", "position_settle_seconds",
           "dock_settle_seconds", "operation_timeout_seconds"}
    BY DEF Suggested
  <2> QED BY <1>1, <2>1, Names
<1>3. CASE Fits(page.draft, f)
  BY <1>1, <1>3, FitStays
<1>4. CASE ~Fits(page.draft, f)
  <2>1. SentOf(page, f) = Entered(page.draft, f)
    BY <1>2, <1>4 DEF SentOf
  <2>2. ~MayStayEmpty(page.draft, f)
    BY <1>1 DEF MayStayEmpty
  <2> QED BY <1>1, <2>1, <2>2, AnswerIs, EnteredRight DEF Right
<1> QED BY <1>3, <1>4

-----------------------------------------------------------------------------
(* What is settled stays settled. *)

\* Which issues are settled.
LEMMA SettledIs ==
  ASSUME NEW b
  PROVE  /\ \A f \in FormFields : f \in Settled(b) <=> Right(b, f)
         /\ \A d \in Direction : d \in Settled(b) <=> Side(b, d)
         /\ "apart" \in Settled(b) <=> Apart(b)
         /\ "ordered" \in Settled(b) <=> Ordered(b)
         /\ "roomy" \in Settled(b) <=> Roomy(b)
         /\ Settled(b) \subseteq Issues
<1>1. \A f \in FormFields : f \notin Direction \cup {"apart", "ordered", "roomy"}
  BY Names DEF FormFields, Direction
<1>2. \A d \in Direction : d \notin {"apart", "ordered", "roomy"}
  BY DEF Direction
<1> QED BY <1>1, <1>2 DEF Settled, Issues

\* The contacts among the fields.
LEMMA Contacts ==
  /\ "open_contact" \in FormFields /\ "close_contact" \in FormFields
  /\ \A b : /\ Fits(b, "open_contact") => Text(b, "open_contact") = b["open_contact"]
            /\ Fits(b, "close_contact") => Text(b, "close_contact") = b["close_contact"]
BY Names, FitsIs DEF FormFields, Text

\* The numbers that are compared among the fields.
LEMMA Levels ==
  /\ "open_position" \in FormFields /\ "close_position" \in FormFields
  /\ "operation_timeout_seconds" \in FormFields
  /\ \A b, f : f \in {"open_position", "close_position", "operation_timeout_seconds"} =>
       (Fits(b, f) <=> InRange(b, f)) /\ (Right(b, f) <=> InRange(b, f))
<1>1. /\ "open_position" \in DOMAIN Limits /\ "close_position" \in DOMAIN Limits
      /\ "operation_timeout_seconds" \in DOMAIN Limits
  BY Names
<1> QED BY <1>1, FitsIs DEF FormFields, Right

\* A complaint of a threshold or of the timeout has one of two causes.
LEMMA JustLevel ==
  ASSUME NEW b, NEW f \in {"open_position", "close_position", "operation_timeout_seconds"},
         Justified(b, f)
  PROVE  \/ ~InRange(b, f)
         \/ /\ f = "open_position" /\ ~Ordered(b) /\ Clean(b)
            /\ InRange(b, "open_position") /\ InRange(b, "close_position")
         \/ f = "operation_timeout_seconds" /\ ~Roomy(b)
<1>1. \A d \in Direction : f # Field(d, "contact")
  BY EndFields
<1> QED BY <1>1, Levels DEF Justified

\* Contacts that are apart stay apart.
LEMMA ApartStays ==
  ASSUME NEW page, SoundPage(page), Apart(page.draft)
  PROVE  Apart(Answer(page))
<1> DEFINE b == page.draft
           a == Answer(page)
           o == "open_contact"
           c == "close_contact"
<1>1. Fits(b, o) /\ Fits(b, c) /\ b[o] # b[c] /\ Fits(a, o) /\ Fits(a, c)
  BY Contacts, FitStays DEF Apart
<1>2. CASE page.error = o
  <2>1. o \in page.fields /\ o \in Blamed(page.error) /\ c \notin Blamed(page.error)
    BY <1>2 DEF SoundPage, Blamed
  <2>2. a[o] = Entered(b, o) /\ a[c] = b[c]
    BY <1>1, <2>1, BlamedIs, KeptIs, Contacts
  <2>3. a[o] # a[c]
    BY <1>1, <2>2, EnteredIs, Contacts
  <2> QED BY <1>1, <2>3 DEF Apart
<1>3. CASE page.error = c
  <2>1. c \in page.fields /\ c \in Blamed(page.error) /\ o \notin Blamed(page.error)
    BY <1>3 DEF SoundPage, Blamed
  <2>2. a[c] = Entered(b, c) /\ a[o] = b[o]
    BY <1>1, <2>1, BlamedIs, KeptIs, Contacts
  <2>3. a[o] # a[c]
    BY <1>1, <2>2, EnteredIs, Contacts
  <2> QED BY <1>1, <2>3 DEF Apart
<1>4. CASE page.error \notin {o, c}
  <2>1. o \notin Blamed(page.error) /\ c \notin Blamed(page.error)
    BY <1>4 DEF Blamed
  <2>2. a[o] = b[o] /\ a[c] = b[c]
    BY <1>1, <2>1, KeptIs, Contacts
  <2> QED BY <1>1, <2>2 DEF Apart
<1> QED BY <1>2, <1>3, <1>4

\* Thresholds that are in order stay in order.
LEMMA OrderedStays ==
  ASSUME NEW page, SoundPage(page), Ordered(page.draft)
  PROVE  Ordered(Answer(page))
<1> DEFINE b == page.draft
           a == Answer(page)
           o == "open_position"
           c == "close_position"
<1>1. InRange(b, o) /\ InRange(b, c) /\ b[c] < b[o] /\ Fits(b, o) /\ Fits(b, c)
  BY Levels DEF Ordered
<1>2. page.error \notin {o, c}
  <2>1. SUFFICES ASSUME page.error \in {o, c} PROVE FALSE
    OBVIOUS
  <2>2. Justified(b, page.error)
    BY <2>1 DEF SoundPage
  <2> QED BY <1>1, <2>1, <2>2, JustLevel
<1>3. o \notin Blamed(page.error) /\ c \notin Blamed(page.error)
  BY <1>2 DEF Blamed
<1>4. a[o] = b[o] /\ a[c] = b[c] /\ InRange(a, o) /\ InRange(a, c)
  BY <1>1, <1>3, KeptIs, FitStays, Levels
<1> QED BY <1>1, <1>4 DEF Ordered

\* A timeout that is long enough stays so.
LEMMA RoomyStays ==
  ASSUME NEW page, SoundPage(page), Roomy(page.draft)
  PROVE  Roomy(Answer(page))
<1> DEFINE b == page.draft
           a == Answer(page)
           t == "operation_timeout_seconds"
<1>1. InRange(b, t) /\ b[t] > 780 /\ Fits(b, t)
  BY Levels DEF Roomy
<1>2. page.error # t
  <2>1. SUFFICES ASSUME page.error = t PROVE FALSE
    OBVIOUS
  <2>2. Justified(b, t)
    BY <2>1 DEF SoundPage
  <2> QED BY <1>1, <2>2, JustLevel
<1>3. t \notin Blamed(page.error)
  BY <1>2 DEF Blamed
<1>4. a[t] = b[t] /\ InRange(a, t)
  BY <1>1, <1>3, KeptIs, FitStays, Levels
<1> QED BY <1>1, <1>4 DEF Roomy

\* No answer to a sound page unsettles anything.
LEMMA SettledStays ==
  ASSUME NEW page, SoundPage(page)
  PROVE  Settled(page.draft) \subseteq Settled(Answer(page))
<1> DEFINE b == page.draft
           a == Answer(page)
<1>1. \A f \in FormFields : Right(b, f) => Right(a, f)
  BY FitStays
<1>2. \A d \in Direction : Side(b, d) => Side(a, d)
  BY EndFields, FitStays DEF Side, FormFields
<1>3. Apart(b) => Apart(a)
  BY ApartStays
<1>4. Ordered(b) => Ordered(a)
  BY OrderedStays
<1>5. Roomy(b) => Roomy(a)
  BY RoomyStays
<1> QED BY <1>1, <1>2, <1>3, <1>4, <1>5 DEF Settled

-----------------------------------------------------------------------------
(* A complaint settles something new. *)

\* The answer to page settles an issue that was open.
Settles(page) == \E i \in Issues : i \notin Settled(page.draft) /\ i \in Settled(Answer(page))

\* A field that was not right is put right.
LEMMA RightSettles ==
  ASSUME NEW page, NEW f \in FormFields, page.error = f, f \in page.fields, ~Right(page.draft, f)
  PROVE  Settles(page)
<1>1. f \in Blamed(page.error)
  BY DEF Blamed
<1>2. Right(Answer(page), f)
  BY <1>1, BlamedIs
<1> QED BY <1>2, SettledIs DEF Settles, Issues

\* A contact is put right together with its state.
LEMMA SideSettles ==
  ASSUME NEW page, SoundPage(page), NEW d \in Direction, page.error = Field(d, "contact"),
         Source(page.draft, d) = "contact", ~Side(page.draft, d)
  PROVE  Settles(page)
<1> DEFINE c == Field(d, "contact")
           s == Field(d, "state")
<1>1. c \in {"open_contact", "close_contact"} /\ c \in FormFields
  BY EndFields DEF FormFields
<1>2. c \in page.fields /\ s \in page.fields
  BY <1>1 DEF SoundPage
<1>3. c \in Blamed(page.error)
  BY <1>1 DEF Blamed
<1>4. Fits(Answer(page), c)
  BY <1>1, <1>2, <1>3, BlamedIs DEF Right
<1>5. Fits(Answer(page), s)
  BY <1>2, StateGiven
<1>6. Side(Answer(page), d)
  BY <1>4, <1>5 DEF Side
<1> QED BY <1>6, SettledIs DEF Settles, Issues

\* Equal contacts are set apart.
LEMMA ApartSettles ==
  ASSUME NEW page, page.error = "close_contact", page.error \in page.fields, ~Apart(page.draft),
         Fits(page.draft, "open_contact"), Fits(page.draft, "close_contact")
  PROVE  Settles(page)
<1> DEFINE b == page.draft
           a == Answer(page)
           o == "open_contact"
           c == "close_contact"
<1>1. c \in Blamed(page.error) /\ o \notin Blamed(page.error)
  BY DEF Blamed
<1>2. a[c] = Entered(b, c) /\ a[o] = b[o] /\ Fits(a, o) /\ Fits(a, c)
  BY <1>1, BlamedIs, KeptIs, Contacts, FitStays
<1>3. a[o] # a[c]
  BY <1>2, EnteredIs, Contacts
<1>4. Apart(a)
  BY <1>2, <1>3 DEF Apart
<1> QED BY <1>4, SettledIs DEF Settles, Issues

\* A short timeout is made long enough.
LEMMA RoomySettles ==
  ASSUME NEW page, page.error = "operation_timeout_seconds", page.error \in page.fields,
         ~Roomy(page.draft)
  PROVE  Settles(page)
<1> DEFINE a == Answer(page)
           t == "operation_timeout_seconds"
<1>1. t \in Blamed(page.error)
  BY DEF Blamed
<1>2. a[t] = Good[t] /\ InRange(a, t)
  BY <1>1, BlamedIs, EnteredIs, Levels
<1>3. a[t] > 780
  <2>1. Good[t] > 600 + 120 + 60
    BY FormAssumption
  <2>2. a[t] \in 1..1800
    BY <1>2 DEF InRange, Limits
  <2> QED BY <1>2, <2>1, <2>2
<1>4. Roomy(a)
  BY <1>2, <1>3 DEF Roomy
<1> QED BY <1>4, SettledIs DEF Settles, Issues

\* Unless the closed threshold is out of sight and at the end of the scale.
LEMMA OrderedSettles ==
  ASSUME NEW b, NEW e, e.field = "open_position", Justified(b, e.field), ~Ordered(b), Clean(b),
         InRange(b, "open_position"), InRange(b, "close_position")
  PROVE  Stuck(ErrorForm(b, e)) \/ Settles(ErrorForm(b, e))
<1> DEFINE p == ErrorForm(b, e)
           a == Answer(p)
           o == "open_position"
           c == "close_position"
<1>1. p.draft = b /\ p.error = o /\ o \in p.fields
  BY ErrorPage
<1>2. o \in Blamed(p.error) /\ c \in Blamed(p.error)
  BY <1>1 DEF Blamed
<1>3. UsesPosition(b) => c \in p.fields
  <2>1. ASSUME UsesPosition(b)
        PROVE  p.step = "garage_feedback" /\ p.fields = Shown(p.step, b) \cup {e.field}
    BY <2>1, ErrorPage, ShownIs
  <2> QED BY <2>1, ShownIs
<1>4. b[c] \in 0..100 /\ Good[o] = 100 /\ Good[c] < 100
  <2>1. b[c] \in 0..100
    BY DEF InRange, Limits
  <2>2. Good[o] = 100 /\ Good[c] < 100
    BY FormAssumption
  <2> QED BY <2>1, <2>2
<1> HIDE DEF p
<1>5. a[o] = Good[o] /\ InRange(a, o)
  BY <1>1, <1>2, BlamedIs, EnteredIs, Levels
<1>6. CASE c \in p.fields
  <2>1. a[c] = Good[c] /\ InRange(a, c)
    BY <1>2, <1>6, BlamedIs, EnteredIs, Levels
  <2>2. Ordered(a)
    BY <1>4, <1>5, <2>1 DEF Ordered
  <2>3. Settles(p)
    BY <1>1, <2>2, SettledIs DEF Settles, Issues
  <2> QED BY <2>3 DEF p
<1>7. CASE c \notin p.fields /\ b[c] # 100
  <2>1. a[c] = b[c] /\ InRange(a, c)
    BY <1>1, <1>7, AnswerIs DEF InRange, Has
  <2>2. Ordered(a)
    BY <1>4, <1>5, <1>7, <2>1 DEF Ordered
  <2>3. Settles(p)
    BY <1>1, <2>2, SettledIs DEF Settles, Issues
  <2> QED BY <2>3 DEF p
<1>8. CASE c \notin p.fields /\ b[c] = 100
  BY <1>3, <1>8, HiddenThreshold
<1> QED BY <1>6, <1>7, <1>8

\* So every complaint settles something.
LEMMA ComplaintSettles ==
  ASSUME NEW b, NEW e, Justified(b, e.field)
  PROVE  Stuck(ErrorForm(b, e)) \/ Settles(ErrorForm(b, e))
<1> DEFINE p == ErrorForm(b, e)
<1>1. p.draft = b /\ p.error = e.field /\ e.field \in p.fields /\ SoundPage(p)
  BY ErrorPage, ErrorPageSound
<1>2. CASE /\ e.field = "open_position" /\ ~Ordered(b) /\ Clean(b)
           /\ InRange(b, "open_position") /\ InRange(b, "close_position")
  BY <1>2, OrderedSettles
<1> HIDE DEF p
<1>3. CASE e.field \in FormFields /\ ~Right(b, e.field)
  <2>1. Settles(p)
    BY <1>1, <1>3, RightSettles
  <2> QED BY <2>1 DEF p
<1>4. CASE \E d \in Direction :
             e.field = Field(d, "contact") /\ Source(b, d) = "contact" /\ ~Side(b, d)
  <2>1. Settles(p)
    BY <1>1, <1>4, SideSettles
  <2> QED BY <2>1 DEF p
<1>5. CASE /\ e.field = "close_contact" /\ ~Apart(b)
           /\ Fits(b, "open_contact") /\ Fits(b, "close_contact")
  <2>1. Settles(p)
    BY <1>1, <1>5, ApartSettles
  <2> QED BY <2>1 DEF p
<1>6. CASE /\ e.field = "operation_timeout_seconds" /\ InRange(b, e.field) /\ ~Roomy(b)
  <2>1. Settles(p)
    BY <1>1, <1>6, RoomySettles
  <2> QED BY <2>1 DEF p
<1> QED BY <1>2, <1>3, <1>4, <1>5, <1>6, Zenon DEF Justified

-----------------------------------------------------------------------------
(* The closed threshold at the end of the scale. *)

\* When all that comes before is right, the first complaint is of the thresholds.
LEMMA ThresholdsFirst ==
  ASSUME NEW b, Clean(b), InRange(b, "open_position"), InRange(b, "close_position"),
         b["close_position"] >= b["open_position"]
  PROVE  /\ IsSeq(SuppliedErrors(b)) /\ SuppliedErrors(b) # <<>>
         /\ Head(SuppliedErrors(b)).field = "open_position"
<1> DEFINE unknown(f) == Text(b, f) \notin {""} \cup Options[f]
           odd == {i \in DOMAIN BoolFields : /\ Has(b, BoolFields[i])
                                             /\ b[BoolFields[i]] \notin {"true", "false"}}
           off == {i \in DOMAIN NumberFields : /\ NumberFields[i] \in DOMAIN b
                                               /\ ~InRange(b, NumberFields[i])}
           strange == {i \in DOMAIN EntityFields : unknown(EntityFields[i])}
           wrong == {i \in DOMAIN ChoiceFields : unknown(ChoiceFields[i])}
           bools == Each(BoolFields, LAMBDA f : Has(b, f) /\ b[f] \notin {"true", "false"},
                         LAMBDA f : "invalid_boolean_value")
           numbers == Numeric(b, NumberFields, DOMAIN b)
           order == Thresholds(b)
           entities == Each(EntityFields, unknown, Reason)
           choices == Each(ChoiceFields, unknown, Reason)
           twice == Raise(/\ Text(b, "open_contact") # ""
                          /\ Text(b, "open_contact") = Text(b, "close_contact"),
                          "duplicate_endpoint", "close_contact")
<1>1. SuppliedErrors(b) = bools \o numbers \o order \o entities \o choices \o twice
  BY DEF SuppliedErrors
<1>2. bools = <<>>
  <2>1. \E r, f : bools = Raise(odd # {}, r, f)
    BY Zenon DEF Each
  <2>2. odd = {}
    BY Lists, FitsIs DEF Clean
  <2> HIDE DEF odd, bools
  <2> QED BY <2>1, <2>2 DEF Raise
<1>3. numbers = <<>>
  <2>1. \E r, f : numbers = Raise(off # {}, r, f)
    BY Zenon DEF Numeric, Each
  <2>2. off = {}
    BY Lists DEF Clean, Has
  <2> HIDE DEF off, numbers
  <2> QED BY <2>1, <2>2 DEF Raise
<1>4. order = <<[reason |-> "invalid_position_thresholds", field |-> "open_position"]>>
  BY DEF Thresholds, Raise
<1>5. IsSeq(order) /\ order # <<>> /\ Head(order).field = "open_position"
  <2>1. IsSeq(order)
    BY RaiseIs DEF Thresholds
  <2> QED BY <1>4, <2>1
<1>6. IsSeq(entities)
  <2>1. \E r, f : entities = Raise(strange # {}, r, f)
    BY Zenon DEF Each
  <2> HIDE DEF unknown, strange, entities
  <2> QED BY <2>1, RaiseIs
<1>7. IsSeq(choices)
  <2>1. \E r, f : choices = Raise(wrong # {}, r, f)
    BY Zenon DEF Each
  <2> HIDE DEF unknown, wrong, choices
  <2> QED BY <2>1, RaiseIs
<1>8. IsSeq(twice)
  BY RaiseIs
<1>9. IsSeq(bools) /\ IsSeq(numbers)
  BY <1>2, <1>3, BlamesNone DEF Blames
<1> HIDE DEF unknown, odd, off, strange, wrong, bools, numbers, order, entities, choices, twice
<1> DEFINE three == bools \o numbers \o order
<1>10. IsSeq(three) /\ three # <<>> /\ Head(three) = Head(order)
  <2>1. IsSeq(bools \o numbers) /\ bools \o numbers = <<>>
    BY <1>2, <1>3, <1>9, JoinHead
  <2>2. three = order
    BY <1>5, <2>1, JoinHead
  <2> QED BY <1>5, <2>2
<1> HIDE DEF three
<1> DEFINE four == three \o entities
           five == four \o choices
           six == five \o twice
<1>11. IsSeq(four) /\ four # <<>> /\ Head(four) = Head(order)
  BY <1>6, <1>10, JoinHead, JoinEmpty
<1> HIDE DEF four
<1>12. IsSeq(five) /\ five # <<>> /\ Head(five) = Head(order)
  BY <1>7, <1>11, JoinHead, JoinEmpty
<1> HIDE DEF five
<1>13. IsSeq(six) /\ six # <<>> /\ Head(six) = Head(order)
  BY <1>8, <1>12, JoinHead, JoinEmpty
<1>14. SuppliedErrors(b) = six
  BY <1>1 DEF three, four, five
<1> QED BY <1>5, <1>13, <1>14

\* Then the feedback step answers with that complaint.
LEMMA FeedbackBlamesThresholds ==
  ASSUME NEW b, IsSeq(SuppliedErrors(b)), SuppliedErrors(b) # <<>>
  PROVE  SubmitFeedback(b) = ErrorForm(b, Head(SuppliedErrors(b)))
<1> DEFINE contact(d) == IF Source(b, d) = "contact" THEN ContactErrors(b, d) ELSE <<>>
           opens == contact("open")
           closes == contact("close")
           kind == Raise(Text(b, "position_kind") \notin {"measured", "estimated"},
                         "invalid_position_configuration", "position_kind")
           numbers == Numeric(b, <<"open_position", "close_position">>, ThresholdFields)
           position == IF ~UsesPosition(b) THEN <<>> ELSE kind \o numbers
           errors == SuppliedErrors(b) \o opens \o closes \o position
           next == Ask("garage_timing", b)
<1>1. SubmitFeedback(b) = Answered(b, errors, next)
  BY DEF SubmitFeedback
<1>2. IsSeq(opens) /\ IsSeq(closes)
  BY BlamesContact, BlamesNone DEF Blames, Direction
<1>3. IsSeq(kind) /\ IsSeq(numbers)
  BY BlamesKind, BlamesThresholds DEF Blames
<1> HIDE DEF contact, opens, closes, kind, numbers
<1>4. IsSeq(position)
  BY <1>3, JoinEmpty, BlamesNone DEF Blames
<1> HIDE DEF position
<1> DEFINE s == SuppliedErrors(b)
           one == s \o opens
           two == one \o closes
<1>5. IsSeq(s) /\ s # <<>>
  OBVIOUS
<1> HIDE DEF s
<1>6. IsSeq(one) /\ one # <<>> /\ Head(one) = Head(s)
  BY <1>2, <1>5, JoinHead, JoinEmpty
<1> HIDE DEF one
<1>7. IsSeq(two) /\ two # <<>> /\ Head(two) = Head(s)
  BY <1>2, <1>6, JoinHead, JoinEmpty
<1> HIDE DEF two
<1>8. two \o position # <<>> /\ Head(two \o position) = Head(s)
  BY <1>4, <1>7, JoinHead, JoinEmpty
<1>9. errors = two \o position
  BY DEF two, one, s
<1> HIDE DEF errors, next
<1> QED BY <1>1, <1>8, <1>9 DEF Answered, s

\* The form goes on complaining of the open threshold.
LEMMA StuckStays ==
  ASSUME NEW page, Stuck(page)
  PROVE  Stuck(Submit(page.step, Answer(page), TRUE))
<1> DEFINE b == page.draft
           a == Answer(page)
           o == "open_position"
           c == "close_position"
<1>1. \A f \in page.fields :
        f = o \/ \E d \in Direction : f \in {Field(d, "contact"), Field(d, "state")}
  BY DEF Stuck, FeedbackFields
<1>2. \A f \in page.fields :
        f = o \/ f \in {"open_contact", "close_contact", "open_contact_state", "close_contact_state"}
  BY <1>1, EndFields
<1>3. \A f \in ToSet(BoolFields) : f \notin page.fields
  BY <1>2, Names
<1>4. \A f \in DOMAIN Limits : f # o => f \notin page.fields
  BY <1>2, Names
<1>5. \A f : f \notin page.fields => (Has(a, f) <=> Has(b, f)) /\ (Has(b, f) => a[f] = b[f])
  BY AnswerIs
<1>6. o \in page.fields /\ o \in Blamed(page.error) /\ o \in FormFields
  BY Levels DEF Stuck, Blamed
<1>7. InRange(a, o) /\ a[o] = Good[o]
  BY <1>6, BlamedIs, EnteredIs, Levels
<1>8. Clean(b) /\ ~UsesPosition(b) /\ InRange(b, c) /\ b[c] = 100
  BY Names DEF Stuck, Clean
<1>9. InRange(a, c) /\ a[c] = 100
  BY <1>4, <1>5, <1>8, Names DEF InRange, Has
<1>10. Clean(a)
  <2>1. \A f \in ToSet(BoolFields) : Has(a, f) => Fits(a, f)
    BY <1>3, <1>5, <1>8, FitsIs DEF Clean
  <2>2. \A f \in DOMAIN Limits : Has(a, f) => InRange(a, f)
    BY <1>4, <1>5, <1>7, <1>8 DEF Clean, InRange
  <2> QED BY <2>1, <2>2 DEF Clean
<1>11. ~UsesPosition(a)
  <2>1. \A d \in Direction : Field(d, "source") \notin page.fields
    BY <1>2, EndFields
  <2>2. \A d \in Direction : Source(a, d) = Source(b, d)
    BY <1>5, <2>1 DEF Source, Text
  <2> QED BY <1>8, <2>2 DEF UsesPosition
<1>12. a[o] = 100
  BY <1>7, FormAssumption
<1> DEFINE e == Head(SuppliedErrors(a))
<1> HIDE DEF a
<1>13. IsSeq(SuppliedErrors(a)) /\ SuppliedErrors(a) # <<>> /\ e.field = o
  BY <1>7, <1>9, <1>10, <1>12, ThresholdsFirst
<1>14. SubmitFeedback(a) = ErrorForm(a, e)
  BY <1>13, FeedbackBlamesThresholds
<1>15. Justified(a, o)
  BY <1>7, <1>9, <1>10, <1>12 DEF Justified, Ordered
<1> HIDE DEF e
<1>16. Stuck(ErrorForm(a, e))
  BY <1>7, <1>9, <1>10, <1>11, <1>13, <1>15, HiddenThreshold
<1>17. Submit(page.step, a, TRUE) = SubmitFeedback(a)
  BY DEF Submit, Stuck
<1> QED BY <1>14, <1>16, <1>17 DEF a

-----------------------------------------------------------------------------
(* The measure. *)

\* S is finite and has at most n elements.
AtMost(S, n) == IsFiniteSet(S) /\ Cardinality(S) \in 0..n

\* A list of n has at most n elements.
LEMMA ListBound ==
  ASSUME NEW n \in Nat, NEW f
  PROVE  AtMost({f[i] : i \in 1..n}, n)
<1> DEFINE S == {f[i] : i \in 1..n}
           g == [i \in 1..n |-> f[i]]
<1>1. g \in Surjection(1..n, S)
  BY DEF Surjection
<1>2. IsFiniteSet(1..n) /\ Cardinality(1..n) <= n /\ Cardinality(1..n) \in Nat
  <2>1. IsFiniteSet(1..n) /\ Cardinality(1..n) = IF 1 > n THEN 0 ELSE n - 1 + 1
    <3>1. 1 \in Int /\ n \in Int
      OBVIOUS
    <3> QED BY <3>1, FS_Interval
  <2> QED BY <2>1
<1> HIDE DEF S, g
<1>3. IsFiniteSet(S) /\ Cardinality(S) <= Cardinality(1..n) /\ Cardinality(S) \in Nat
  BY <1>1, <1>2, FS_Surjection, FS_CardinalityType
<1>4. AtMost(S, n)
  BY <1>2, <1>3 DEF AtMost
<1> QED BY <1>4 DEF S

\* The bounds of two sets add up.
LEMMA BothBound ==
  ASSUME NEW S, NEW T, NEW m \in Nat, NEW n \in Nat, AtMost(S, m), AtMost(T, n)
  PROVE  AtMost(S \cup T, m + n)
<1>1. IsFiniteSet(S) /\ IsFiniteSet(T) /\ Cardinality(S) \in 0..m /\ Cardinality(T) \in 0..n
  BY DEF AtMost
<1>2. IsFiniteSet(S \cup T) /\ IsFiniteSet(S \cap T)
  BY <1>1, FS_Union, FS_Intersection
<1>3. Cardinality(S \cup T) = Cardinality(S) + Cardinality(T) - Cardinality(S \cap T)
  BY <1>1, FS_Union
<1>4. Cardinality(S \cup T) \in Nat /\ Cardinality(S \cap T) \in Nat
  BY <1>2, FS_CardinalityType
<1> QED BY <1>1, <1>2, <1>3, <1>4 DEF AtMost

\* There are thirty-one issues.
LEMMA IssuesBound ==
  AtMost(Issues, 31)
<1> DEFINE ends == <<"open", "close">>
           rest == <<"apart", "ordered", "roomy">>
           numbers == {NumberFields[i] : i \in 1..12}
           bools == {BoolFields[i] : i \in 1..4}
           entities == {EntityFields[i] : i \in 1..4}
           choices == {ChoiceFields[i] : i \in 1..6}
           sides == {ends[i] : i \in 1..2}
           others == {rest[i] : i \in 1..3}
<1>1. DOMAIN Limits = numbers /\ ToSet(BoolFields) = bools
  BY Lists DEF ToSet
<1>2. DOMAIN Options = entities \cup choices
  <2>1. /\ EntityFields[1] = "cover_entity_id" /\ EntityFields[2] = "close_permission_entity"
        /\ EntityFields[3] = "open_contact" /\ EntityFields[4] = "close_contact"
    BY DEF EntityFields
  <2>2. /\ ChoiceFields[1] = "task_door_mode" /\ ChoiceFields[2] = "open_source"
        /\ ChoiceFields[3] = "close_source" /\ ChoiceFields[4] = "open_contact_state"
        /\ ChoiceFields[5] = "close_contact_state" /\ ChoiceFields[6] = "position_kind"
    BY DEF ChoiceFields
  <2> QED BY <2>1, <2>2, Names
<1>3. Direction = sides
  BY DEF Direction
<1>4. {"apart", "ordered", "roomy"} = others
  OBVIOUS
<1>5. /\ AtMost(numbers, 12) /\ AtMost(bools, 4) /\ AtMost(entities, 4)
      /\ AtMost(choices, 6) /\ AtMost(sides, 2) /\ AtMost(others, 3)
  BY ListBound
<1> HIDE DEF ends, rest, numbers, bools, entities, choices, sides, others
<1>6. AtMost(numbers \cup bools, 16)
  BY <1>5, BothBound
<1>7. AtMost(entities \cup choices, 10)
  <2>1. AtMost(entities, 4) /\ AtMost(choices, 6) /\ 4 \in Nat /\ 6 \in Nat
    BY <1>5
  <2>2. AtMost(entities \cup choices, 4 + 6)
    BY <2>1, BothBound
  <2> QED BY <2>2
<1>8. AtMost(sides \cup others, 5)
  <2>1. AtMost(sides, 2) /\ AtMost(others, 3)
    BY <1>5
  <2> QED BY <2>1, BothBound
<1> DEFINE fields == (numbers \cup bools) \cup (entities \cup choices)
<1>9. AtMost(fields, 26)
  BY <1>6, <1>7, BothBound
<1>10. Issues = fields \cup (sides \cup others)
  BY <1>1, <1>2, <1>3, <1>4 DEF Issues, FormFields
<1> HIDE DEF fields
<1> QED BY <1>8, <1>9, <1>10, BothBound

\* So many of them can be settled.
LEMMA SettledBound ==
  ASSUME NEW b
  PROVE  IsFiniteSet(Settled(b)) /\ Cardinality(Settled(b)) \in 0..31
<1>1. Settled(b) \in SUBSET Issues
  BY SettledIs
<1>2. IsFiniteSet(Settled(b)) /\ Cardinality(Settled(b)) <= Cardinality(Issues)
  BY <1>1, IssuesBound, FS_Subset DEF AtMost
<1>3. Cardinality(Settled(b)) \in Nat
  BY <1>2, FS_CardinalityType
<1>4. Cardinality(Issues) \in 0..31
  BY IssuesBound DEF AtMost
<1> QED BY <1>2, <1>3, <1>4

\* Settling more counts for more.
LEMMA MoreSettled ==
  ASSUME NEW b, NEW a, Settled(b) \subseteq Settled(a)
  PROVE  /\ Cardinality(Settled(b)) <= Cardinality(Settled(a))
         /\ Settled(b) # Settled(a) => Cardinality(Settled(b)) + 1 <= Cardinality(Settled(a))
<1>1. /\ Cardinality(Settled(b)) <= Cardinality(Settled(a))
      /\ Cardinality(Settled(a)) = Cardinality(Settled(b)) => Settled(a) = Settled(b)
  BY SettledBound, FS_Subset
<1>2. Cardinality(Settled(a)) \in Nat /\ Cardinality(Settled(b)) \in Nat
  BY SettledBound
<1> QED BY <1>1, <1>2

\* An open form has been submitted at most as often as its measure says.
PageInv(page, n) ==
  /\ n \in Nat
  /\ page.step \in {"none", "saved"} \cup StepSet
  /\ page.step = "none" => n = 0
  /\ (page.step = "saved" /\ On(page.draft, "enabled")) => Accepted(page.draft, 1)
  /\ page.step \in StepSet => SoundPage(page) /\ (n <= Progress(page) \/ Stuck(page))

\* The steps are numbered from zero to two.
LEMMA IndexIs ==
  ASSUME NEW s
  PROVE  StepIndex(s) \in 0..2
BY DEF StepIndex

\* What a submission leads to says what it has to say.
LEMMA SubmitSound ==
  ASSUME NEW page, page.step \in StepSet
  PROVE  LET q == Submit(page.step, Answer(page), TRUE)
         IN /\ q.draft = Answer(page) /\ SoundPage(q)
            /\ \/ q.step = "saved" /\ BindingErrors(Answer(page), TRUE) = <<>>
               \/ q.step \in StepSet
<1> DEFINE a == Answer(page)
           q == Submit(page.step, a, TRUE)
           n == StepIndex(page.step)
<1> HIDE DEF a
<1>1. Leads(q, a, n)
  BY SubmitLeads
<1> HIDE DEF q, n
<1>2. ASSUME q = Done(a)
      PROVE  q.draft = a /\ SoundPage(q) /\ q.step = "saved"
  BY <1>2 DEF Done, Page, SoundPage
<1>3. ASSUME NEW s \in StepSet, q = Ask(s, a)
      PROVE  q.draft = a /\ SoundPage(q) /\ q.step \in StepSet
  BY <1>3 DEF Ask, Page, SoundPage
<1>4. ASSUME NEW e, q = ErrorForm(a, e), Justified(a, e.field)
      PROVE  q.draft = a /\ SoundPage(q) /\ q.step \in StepSet
  BY <1>4, ErrorPage, ErrorPageSound
<1> QED BY <1>1, <1>2, <1>3, <1>4 DEF Leads, a, q

\* A submission raises the measure, unless the closed threshold is in the way.
LEMMA SubmitRaises ==
  ASSUME NEW page, page.step \in StepSet, SoundPage(page)
  PROVE  LET q == Submit(page.step, Answer(page), TRUE)
         IN q.step \in StepSet => Progress(page) + 1 <= Progress(q) \/ Stuck(q)
<1> DEFINE a == Answer(page)
           q == Submit(page.step, a, TRUE)
           n == StepIndex(page.step)
           m == StepIndex(q.step)
           k == Cardinality(Settled(a))
           l == Cardinality(Settled(Answer(q)))
<1>1. Leads(q, a, n)
  BY SubmitLeads
<1>2. Progress(page) = 3 * k + n /\ Progress(q) = 3 * l + m
  BY DEF Progress
<1>3. q.draft = a /\ SoundPage(q)
  BY SubmitSound
<1>4. Settled(a) \subseteq Settled(Answer(q))
  BY <1>3, SettledStays
<1>5. n \in 0..2 /\ m \in 0..2 /\ k \in 0..31 /\ l \in 0..31
  BY IndexIs, SettledBound
<1>6. k <= l /\ (Settled(a) # Settled(Answer(q)) => k + 1 <= l)
  BY <1>4, MoreSettled
<1> HIDE DEF a, q, n, m, k, l
<1>7. CASE q = Done(a)
  <2>1. q.step = "saved"
    BY <1>7 DEF Done, Page
  <2> QED BY <2>1 DEF StepSet, q, a
<1>8. ASSUME NEW s \in StepSet, q = Ask(s, a), StepIndex(s) > n
      PROVE  Progress(page) + 1 <= Progress(q)
  <2>1. m > n
    BY <1>8 DEF Ask, Page, m
  <2> QED BY <1>2, <1>5, <1>6, <2>1
<1>9. ASSUME NEW e, q = ErrorForm(a, e), Justified(a, e.field)
      PROVE  Progress(page) + 1 <= Progress(q) \/ Stuck(q)
  <2>1. Stuck(q) \/ Settles(q)
    BY <1>9, ComplaintSettles
  <2>2. Settles(q) => Settled(a) # Settled(Answer(q))
    BY <1>3 DEF Settles
  <2>3. ASSUME k + 1 <= l
        PROVE  Progress(page) + 1 <= Progress(q)
    BY <1>2, <1>5, <2>3
  <2> QED BY <1>6, <2>1, <2>2, <2>3
<1>10. q.step \in StepSet => Progress(page) + 1 <= Progress(q) \/ Stuck(q)
  BY <1>1, <1>7, <1>8, <1>9 DEF Leads, q, a
<1> QED BY <1>10 DEF q, a

\* One submission keeps the invariant.
LEMMA SubmitKeeps ==
  ASSUME NEW page, NEW n, PageInv(page, n), page.step \in StepSet
  PROVE  PageInv(Submit(page.step, Answer(page), TRUE), n + 1)
<1> DEFINE a == Answer(page)
           q == Submit(page.step, a, TRUE)
<1>1. n \in Nat /\ SoundPage(page) /\ (n <= Progress(page) \/ Stuck(page))
  BY DEF PageInv
<1>2. /\ q.draft = a /\ SoundPage(q)
      /\ (q.step = "saved" /\ BindingErrors(a, TRUE) = <<>>) \/ q.step \in StepSet
  BY SubmitSound
<1>3. q.step \in StepSet => Progress(page) + 1 <= Progress(q) \/ Stuck(q)
  BY <1>1, SubmitRaises
<1>4. Stuck(page) => Stuck(q)
  BY StuckStays
<1>5. \A p : Progress(p) \in Nat
  BY IndexIs, SettledBound DEF Progress
<1> HIDE DEF q, a
<1>6. q.step \in StepSet => n + 1 <= Progress(q) \/ Stuck(q)
  BY <1>1, <1>3, <1>4, <1>5
<1>7. (q.step = "saved" /\ On(q.draft, "enabled")) => Accepted(q.draft, 1)
  BY <1>2 DEF Accepted, StepSet
<1>8. q.step \in {"saved"} \cup StepSet /\ q.step # "none"
  BY <1>2 DEF StepSet
<1>9. PageInv(q, n + 1)
  BY <1>1, <1>2, <1>6, <1>7, <1>8 DEF PageInv
<1> QED BY <1>9 DEF q, a

\* A form that is opened has not been submitted.
LEMMA OpenKeeps ==
  ASSUME NEW b
  PROVE  PageInv(Ask("garage", b), 0)
<1> DEFINE p == Ask("garage", b)
<1>1. p.step = "garage" /\ SoundPage(p)
  BY DEF Ask, Page, SoundPage
<1>2. Progress(p) \in Nat
  BY IndexIs, SettledBound DEF Progress
<1> HIDE DEF p
<1>3. PageInv(p, 0)
  BY <1>1, <1>2 DEF PageInv, StepSet
<1> QED BY <1>3 DEF p

\* The steps of the form.
LEMMA StepsAre ==
  ToSet(Steps) = StepSet
<1>1. DOMAIN Steps = 1..3
  BY DEF Steps
<1>2. ToSet(Steps) = {Steps[1], Steps[2], Steps[3]}
  BY <1>1 DEF ToSet
<1> QED BY <1>2 DEF Steps, StepSet

\* The inductive invariant of the form.
FormInv == PageInv(form, tries)

\* The form never unsettles what is settled, and each complaint settles something:
\* so an open form has been submitted at most as often as its measure says, or is
\* stuck at a closed threshold of 100 per cent; what it saves enabled is accepted
\* (config_flow.py:713-798).
THEOREM FormInvariant ==
  FormSpec => []FormInv
<1>1. OpenForm => FormInv
  BY OpenKeeps DEF OpenForm, FormInv
<1>2. FormInv /\ [FormNext]_<<form, tries>> => FormInv'
  <2> SUFFICES ASSUME FormInv, [FormNext]_<<form, tries>>
               PROVE  FormInv'
    OBVIOUS
  <2>1. CASE SubmitForm
    <3>1. form.step \in StepSet
      BY <2>1, StepsAre DEF SubmitForm, FormOpen
    <3>2. PageInv(Submit(form.step, Answer(form), TRUE), tries + 1)
      BY <3>1, SubmitKeeps DEF FormInv
    <3> QED BY <2>1, <3>2 DEF SubmitForm, FormInv
  <2>2. CASE CloseForm
    <3>1. form'.step = "none" /\ tries' = 0
      BY <2>2 DEF CloseForm, NoForm, Page
    <3> QED BY <3>1 DEF FormInv, PageInv, StepSet
  <2>3. CASE ReopenForm
    <3>1. PageInv(Ask("garage", form.draft), 0)
      BY OpenKeeps
    <3> QED BY <2>3, <3>1 DEF ReopenForm, FormInv
  <2>4. CASE UNCHANGED <<form, tries>>
    BY <2>4 DEF FormInv
  <2> QED BY <2>1, <2>2, <2>3, <2>4 DEF FormNext
<1> QED BY <1>1, <1>2, PTL DEF FormSpec

\* The measure has an end: three steps for each of thirty-one issues.
LEMMA FormInvSaves ==
  ASSUME Patience \in Nat, Patience >= 96, FormInv
  PROVE  EveryDraftCanBeSaved
<1>1. ASSUME Number(form.draft, "close_position") < 100, form.step \in StepSet
      PROVE  tries # Patience
  <2>1. ~Stuck(form)
    <3>1. SUFFICES ASSUME Stuck(form) PROVE FALSE
      OBVIOUS
    <3>2. InRange(form.draft, "close_position") /\ form.draft["close_position"] = 100
      BY <3>1, Names DEF Stuck, Clean
    <3> QED BY <1>1, <3>2 DEF Number
  <2>2. tries \in Nat /\ tries <= Progress(form)
    BY <1>1, <2>1 DEF FormInv, PageInv
  <2> DEFINE k == Cardinality(Settled(Answer(form)))
             m == StepIndex(form.step)
  <2>3. k \in 0..31 /\ m \in 0..2 /\ Progress(form) = 3 * k + m
    BY IndexIs, SettledBound DEF Progress
  <2> HIDE DEF k, m
  <2>4. Progress(form) <= 95
    BY <2>3
  <2> QED BY <2>2, <2>3, <2>4
<1>2. form.step = "none" => tries # Patience
  BY DEF FormInv, PageInv
<1> QED BY <1>1, <1>2 DEF EveryDraftCanBeSaved, FormInv, PageInv

\* Whatever is stored for a robot, whole or not, an operator who corrects what the
\* form complains of, and nothing else, has it saved within ninety-six submissions,
\* three steps for each issue: no field that hinders the save stays out of sight
\* (config_flow.py:785-798).  The exception is a closed threshold of 100 per cent.
THEOREM EveryDraftIsSaved ==
  ASSUME Patience \in Nat, Patience >= 96
  PROVE  FormSpec => []EveryDraftCanBeSaved
<1>1. FormInv => EveryDraftCanBeSaved
  BY FormInvSaves
<1> QED BY <1>1, FormInvariant, PTL

=============================================================================
