----------------------- MODULE VacuumCoordinatorProofs -----------------------
(***************************************************************************)
(* Proofs about the coordinator, for any intervals, limits and durations.  *)
(***************************************************************************)
EXTENDS VacuumCoordinator, TLAPS

-----------------------------------------------------------------------------
(* What the proofs rest on.  stay says for how long the robot has been     *)
(* where it is; each part bounds it by the age of what still says          *)
(* otherwise.                                                              *)

\* A robot outside the zone has been in it for no time.
AwayIsNoStay == robot.place # "in" => stay = 0

\* A position outside the zone is as old as its age and the read that brought it, at
\* most, when the robot has come back in or left its dock since.
PayloadIsRecent ==
  ~Docked(robot.mode) /\ payload.place \in {"near", "out"} /\ posAge \in 0..MaxAge
    => stay <= posAge + MaxRead

\* So is the state the sensor has been given, and the next poll is due soon after.
ShownIsRecent ==
  shown = "on" /\ phase = "idle" /\ TaskActive(seen) /\ ~Docked(robot.mode)
    => stay <= MaxAge + MaxRead + (Longest - due)

\* A status that says a docked robot is not docked was read before it docked: in this
\* poll, or in one that is not older than the last success.
PollLength == MaxPoll + MaxRead
StatusIsRecent ==
  Docked(robot.mode) /\ ~Docked(seen) =>
    /\ okAge \in 0..(Unavailable - 1) => stay <= okAge + PollLength
    /\ phase = "traits" => stay <= lasting
    /\ phase = "home" => stay <= lasting + reading["home"]

\* What a sensor says of a docked robot was written when such a status still counted,
\* and the next poll writes it again.
SinceWritten ==
  CASE phase = "idle" -> Longest - due
    [] phase \in {"status", "traits"} -> Longest + lasting
    [] phase = "home" -> Longest + lasting + reading["home"]
WrittenIsRecent ==
  Docked(robot.mode) /\ shown = "on" => stay <= Unavailable + PollLength + SinceWritten

SampleInv ==
  TypeOK /\ AwayIsNoStay /\ PayloadIsRecent /\ ShownIsRecent
DockInv == TypeOK /\ StatusIsRecent /\ WrittenIsRecent
-----------------------------------------------------------------------------
(* Operators. *)

LEMMA Bounds ==
  /\ StatusEvery \in Nat /\ CloudEvery \in Nat /\ FullEvery \in Nat /\ Unavailable \in Nat
  /\ ImageCache \in Nat /\ ActiveEvery \in Nat /\ IdleEvery \in Nat
  /\ MaxRead \in Nat /\ MaxPoll \in Nat /\ MaxAge \in Nat
  /\ Longest \in Nat /\ StatusEvery <= Longest /\ CloudEvery <= Longest
  /\ MaxOf(FullEvery, MaxPoll) \in Nat
  /\ FullEvery <= MaxOf(FullEvery, MaxPoll) /\ MaxPoll <= MaxOf(FullEvery, MaxPoll)
  /\ Cap \in Nat /\ Cap > 0
  /\ OutBound = MaxAge + MaxRead + Longest + MaxPoll + MaxRead
  /\ DockBound = Unavailable + 2 * (Longest + MaxPoll + MaxRead)
<1>1. MaxAge \in Nat /\ Longest \in Nat /\ StatusEvery <= Longest /\ CloudEvery <= Longest
  BY CoordinatorAssumption DEF MaxAge, Longest, MaxOf
<1>2. /\ OutBound = MaxAge + MaxRead + Longest + MaxPoll + MaxRead
      /\ DockBound = Unavailable + 2 * (Longest + MaxPoll + MaxRead)
      /\ OutBound \in Nat /\ DockBound \in Nat
  BY <1>1, CoordinatorAssumption DEF OutBound, DockBound, Round
<1>3. MaxOf(OutBound, DockBound) \in Nat
  BY <1>2 DEF MaxOf
<1>4. Cap \in Nat /\ Cap > 0
  BY <1>3 DEF Cap
<1> QED BY <1>1, <1>2, <1>4, CoordinatorAssumption DEF MaxOf

LEMMA PlacesAre == {"in", "out"} \subseteq Places /\ Places \subseteq {"in", "near", "out"}
BY CoordinatorAssumption

\* An age grows by a tick unless it is at its cap or there is none.
LEMMA OlderIs ==
  ASSUME NEW cap \in Nat, NEW age \in Int, age >= None
  PROVE  /\ Older(age, cap) \in None..cap
         /\ age = None <=> Older(age, cap) = None
         /\ age # None => Older(age, cap) <= age + 1 /\ Older(age, cap) \in 0..cap
         /\ age # None /\ Older(age, cap) < cap => Older(age, cap) = age + 1
         /\ age # None /\ age < cap => Older(age, cap) = age + 1
BY DEF Older, None, MinOf

LEMMA ModesAre ==
  /\ \A m \in Modes : State(m) \in SeenModes /\ (Docked(State(m)) <=> Docked(m))
  /\ SeenModes \subseteq Modes
BY DEF Modes, State, SeenModes, Docked

\* What a sensor that says "on" tells of the position.
LEMMA ReportedIs ==
  ASSUME NEW mode \in SeenModes, NEW age \in None..(MaxAge + 1), NEW map \in Maps
  PROVE  /\ Reported(mode, age, map) \in {"on", "off", "unknown"}
         /\ Reported(mode, age, map) = "on" =>
              /\ map.place \in {"near", "out"}
              /\ TaskActive(mode) => age \in 0..MaxAge
              /\ "near" \notin Places => ~Docked(mode)
<1>1. map.place \in {"in", "near", "out", "none"} /\ (map.place = "near" => "near" \in Places)
  BY PlacesAre DEF Maps
<1>2. Trusted(mode, map) \in {"in", "near", "out", "unknown"}
  BY <1>1 DEF Trusted
<1>3. Trusted(mode, map) \in {"near", "out"} => map.place \in {"near", "out"}
  BY <1>1 DEF Trusted
<1>4. Trusted(mode, map) \in {"near", "out"} /\ Docked(mode) => "near" \in Places
  BY <1>1 DEF Trusted
<1>5. Fresh(mode, age) /\ TaskActive(mode) => age \in 0..MaxAge
  BY Bounds DEF Fresh, None
<1> QED BY <1>2, <1>3, <1>4, <1>5 DEF Reported

LEMMA MapsAre ==
  ASSUME NEW ticks, NEW map \in Answers(ticks)
  PROVE  /\ map \in Maps
         /\ ~Docked(robot.mode) /\ map.place \in {"near", "out"} =>
              robot.place = map.place \/ stay <= ticks
BY DEF Answers

LEMMA SucceedsIs ==
  ASSUME TypeOK, NEW mode \in SeenModes, NEW map, NEW age, NEW local \in BOOLEAN,
         NEW attempt \in None..IdleEvery, Succeeds(mode, map, age, attempt, local)
  PROVE  /\ phase' = "idle" /\ lasting' = 0 /\ full' = FALSE /\ available' = TRUE
         /\ interval' \in {StatusEvery, CloudEvery} /\ due' = interval' /\ due' \in 0..Longest
         /\ shown' = Reported(mode, age, map)
         /\ seen' = mode /\ lastSeen' = mode /\ okAge' = 0
         /\ payload' = map /\ posAge' = age /\ tryAge' \in None..IdleEvery
         /\ reading' \in [Readers -> None..MaxRead] /\ reading'["home"] = None
<1>1. 0 \in None..IdleEvery /\ 0 \in None..MaxRead /\ None \in None..MaxRead
  BY Bounds DEF None
<1>2. reading \in [Readers -> None..MaxRead]
  BY DEF TypeOK
<1>3. reading' \in [Readers -> None..MaxRead] /\ reading'["home"] = None
  BY <1>1, <1>2 DEF Succeeds, Readers
<1>4. StatusEvery \in 0..Longest /\ CloudEvery \in 0..Longest
  BY Bounds
<1> QED BY <1>1, <1>3, <1>4 DEF Succeeds, Ends

-----------------------------------------------------------------------------
(* Types. *)

LEMMA TypeInit == Init => TypeOK
<1> SUFFICES ASSUME Init PROVE TypeOK
  OBVIOUS
<1>1. /\ robot.mode \in Modes /\ robot.place \in Places
      /\ robot \in [mode : Modes, place : Places]
      /\ Docked(robot.mode) => robot.place = "in"
      /\ robot.mode \in SeenModes
  BY PlacesAre DEF Init, Modes, Docked, SeenModes
<1>2. payload \in Maps /\ reading \in [Readers -> None..MaxRead] /\ reading["home"] = None
  BY Bounds DEF Init, Maps, Readers, None
<1>3. stay \in 0..Cap
  BY Bounds DEF Init
<1>4. /\ lasting \in 0..MaxPoll /\ due \in 0..Longest /\ interval \in {StatusEvery, CloudEvery}
      /\ okAge \in None..Unavailable /\ fullAge \in None..MaxOf(FullEvery, MaxPoll)
      /\ tryAge \in None..IdleEvery /\ posAge \in None..(MaxAge + 1)
      /\ homeAge \in 0..(ImageCache + 1)
  BY Bounds DEF Init, None
<1> QED BY <1>1, <1>2, <1>3, <1>4 DEF Init, TypeOK

\* The map reads.
LEMMA ReadsType ==
  ASSUME TypeOK, BackgroundReads \/ BackgroundFails \/ ServiceReads
  PROVE  TypeOK'
<1>1. /\ robot' = robot /\ once' = once /\ stay' = stay /\ shown' = shown
      /\ phase' = phase /\ lasting' = lasting /\ due' = due /\ interval' = interval
      /\ full' = full /\ seen' = seen /\ lastSeen' = lastSeen /\ available' = available
      /\ okAge' = okAge /\ fullAge' = fullAge /\ homeAge' = homeAge /\ tryAge' = tryAge
  BY DEF BackgroundReads, BackgroundFails, ServiceReads, poller
<1>2. 0 \in None..(MaxAge + 1) /\ None \in None..MaxRead
  BY Bounds DEF None
<1>3. posAge' \in None..(MaxAge + 1)
  BY <1>2 DEF TypeOK, BackgroundReads, BackgroundFails, ServiceReads, NotRead
<1>4. payload' \in Maps
  BY MapsAre DEF TypeOK, BackgroundReads, BackgroundFails, ServiceReads
<1>5. reading \in [Readers -> None..MaxRead] /\ ((phase = "home") = (reading["home"] # None))
  BY DEF TypeOK
<1>6. reading' \in [Readers -> None..MaxRead] /\ reading'["home"] = reading["home"]
  BY <1>2, <1>5 DEF BackgroundReads, BackgroundFails, ServiceReads, NotRead, Readers
<1> QED BY <1>1, <1>3, <1>4, <1>5, <1>6 DEF TypeOK

LEMMA SuccessType ==
  ASSUME TypeOK, NEW mode \in SeenModes, NEW map \in Maps, NEW age \in None..(MaxAge + 1),
         NEW local \in BOOLEAN, NEW attempt \in None..IdleEvery,
         Succeeds(mode, map, age, attempt, local),
         robot' = robot, once' = once, stay' = stay,
         homeAge' = homeAge, fullAge' \in None..MaxOf(FullEvery, MaxPoll)
  PROVE  TypeOK'
<1>1. /\ phase' = "idle" /\ lasting' = 0 /\ full' = FALSE /\ available' = TRUE
      /\ interval' \in {StatusEvery, CloudEvery} /\ due' = interval'
      /\ shown' = Reported(mode, age, map)
      /\ seen' = mode /\ lastSeen' = mode /\ okAge' = 0
      /\ payload' = map /\ posAge' = age /\ tryAge' \in None..IdleEvery
      /\ reading' \in [Readers -> None..MaxRead] /\ reading'["home"] = None
  BY SucceedsIs
<1>2. shown' \in {"on", "off", "unknown", "unavailable"}
  BY <1>1, ReportedIs
<1>3. lasting' \in 0..MaxPoll /\ due' \in 0..Longest /\ okAge' \in None..Unavailable
  BY <1>1, Bounds DEF None
<1> QED BY <1>1, <1>2, <1>3 DEF TypeOK

\* A home refresh begins, or the poll succeeds.
LEMMA RefreshedType ==
  ASSUME TypeOK, phase \in {"status", "traits"},
         NEW mode \in SeenModes, NEW local \in BOOLEAN, Refreshed(mode, local),
         robot' = robot, once' = once, stay' = stay
  PROVE  TypeOK'
<1>1. fullAge' \in None..MaxOf(FullEvery, MaxPoll)
  BY Bounds DEF Refreshed, TypeOK, None
<1>2. CASE (TaskActive(mode) /\ homeAge > ImageCache) \/ lastSeen # mode
  <2>1. /\ phase' = "home" /\ homeAge' = 0 /\ seen' = mode
        /\ reading' = [reading EXCEPT !["home"] = 0]
        /\ lasting' = lasting /\ due' = due /\ interval' = interval /\ full' = full
        /\ lastSeen' = lastSeen /\ available' = available /\ okAge' = okAge
        /\ tryAge' = tryAge /\ posAge' = posAge /\ payload' = payload /\ shown' = shown
    BY <1>2 DEF Refreshed
  <2>2. 0 \in None..MaxRead /\ 0 # None /\ 0 \in 0..(ImageCache + 1)
    BY Bounds DEF None
  <2>3. reading' \in [Readers -> None..MaxRead] /\ reading'["home"] # None
    BY <2>1, <2>2 DEF TypeOK, Readers
  <2> QED BY <1>1, <2>1, <2>2, <2>3 DEF TypeOK
<1>3. CASE ~((TaskActive(mode) /\ homeAge > ImageCache) \/ lastSeen # mode)
  <2>1. Succeeds(mode, payload, posAge, tryAge, local) /\ homeAge' = homeAge
    BY <1>3 DEF Refreshed
  <2>2. /\ payload \in Maps /\ posAge \in None..(MaxAge + 1) /\ tryAge \in None..IdleEvery
    BY DEF TypeOK
  <2> QED BY <1>1, <2>1, <2>2, SuccessType
<1> QED BY <1>2, <1>3

LEMMA PollType == ASSUME TypeOK, Polling PROVE TypeOK'
<1>1. ASSUME NEW local \in BOOLEAN, PollStarts(local) PROVE TypeOK'
  <2>1. /\ robot' = robot /\ seen' = seen /\ lastSeen' = lastSeen /\ available' = available
        /\ okAge' = okAge /\ fullAge' = fullAge /\ homeAge' = homeAge
        /\ tryAge' = tryAge /\ posAge' = posAge /\ payload' = payload
        /\ reading' = reading /\ shown' = shown /\ stay' = stay
        /\ phase = "idle" /\ phase' = "status" /\ lasting' = 0 /\ due' = 0
    BY <1>1 DEF PollStarts, mapReads
  <2>2. once' \in BOOLEAN /\ full' \in BOOLEAN
    BY <1>1 DEF PollStarts, TypeOK
  <2>3. interval' \in {StatusEvery, CloudEvery}
    BY <1>1 DEF PollStarts, TypeOK
  <2>4. 0 \in 0..MaxPoll /\ 0 \in 0..Longest
    BY Bounds
  <2> QED BY <2>1, <2>2, <2>3, <2>4 DEF TypeOK
<1>2. ASSUME NEW local \in BOOLEAN, StatusRead(local) PROVE TypeOK'
  <2>1. State(robot.mode) \in SeenModes
    BY ModesAre DEF TypeOK
  <2>2. CASE full
    BY <1>2, <2>1, <2>2 DEF StatusRead, TypeOK, mapReads
  <2>3. CASE ~full
    BY <1>2, <2>1, <2>3, RefreshedType DEF StatusRead
  <2> QED BY <2>2, <2>3
<1>3. ASSUME NEW local \in BOOLEAN, TraitsRead(local) PROVE TypeOK'
  <2>1. seen \in SeenModes
    BY DEF TypeOK
  <2> QED BY <1>3, <2>1, RefreshedType DEF TraitsRead
<1>4. ASSUME NEW local \in BOOLEAN, HomeRead(local) PROVE TypeOK'
  <2>1. PICK map \in Answers(reading["home"]) : Succeeds(seen, map, 0, 0, local)
    BY <1>4 DEF HomeRead
  <2>2. /\ map \in Maps /\ seen \in SeenModes /\ 0 \in None..(MaxAge + 1)
        /\ 0 \in None..IdleEvery
    BY MapsAre, Bounds DEF TypeOK, None
  <2>3. /\ robot' = robot /\ once' = once /\ stay' = stay /\ homeAge' = homeAge
        /\ fullAge' \in None..MaxOf(FullEvery, MaxPoll)
    BY <1>4 DEF HomeRead, TypeOK
  <2> QED BY <2>1, <2>2, <2>3, SuccessType
<1>5. ASSUME NEW local \in BOOLEAN, HomeFails(local) PROVE TypeOK'
  <2>1. /\ payload \in Maps /\ seen \in SeenModes /\ posAge \in None..(MaxAge + 1)
        /\ tryAge \in None..IdleEvery
    BY DEF TypeOK
  <2>2. /\ robot' = robot /\ once' = once /\ stay' = stay /\ homeAge' = homeAge
        /\ fullAge' \in None..MaxOf(FullEvery, MaxPoll)
    BY <1>5 DEF HomeFails, TypeOK
  <2> QED BY <1>5, <2>1, <2>2, SuccessType DEF HomeFails
<1>6. CASE RefreshFails
  <2>1. /\ phase \in {"status", "traits"} /\ phase' = "idle" /\ lasting' = 0 /\ full' = FALSE
        /\ available' = Suppressed /\ interval' = interval /\ due' = interval
        /\ shown' = IF Suppressed THEN Reported(seen, posAge, payload) ELSE "unavailable"
        /\ robot' = robot /\ once' = once /\ seen' = seen /\ lastSeen' = lastSeen
        /\ okAge' = okAge /\ fullAge' = fullAge /\ homeAge' = homeAge
        /\ tryAge' = tryAge /\ posAge' = posAge /\ payload' = payload
        /\ reading' = reading /\ stay' = stay
    BY <1>6 DEF RefreshFails, Ends, mapReads
  <2>2. Suppressed \in BOOLEAN
    BY DEF Suppressed
  <2>3. shown' \in {"on", "off", "unknown", "unavailable"}
    BY <2>1, ReportedIs DEF TypeOK
  <2>4. 0 \in 0..MaxPoll /\ interval \in 0..Longest
    BY Bounds DEF TypeOK
  <2> QED BY <2>1, <2>2, <2>3, <2>4 DEF TypeOK
<1> QED BY <1>1, <1>2, <1>3, <1>4, <1>5, <1>6 DEF Polling

\* What a tick does to the clocks.
LEMMA TickIs ==
  ASSUME TypeOK, NEW next \in [mode : Modes, place : Places], Tick(next)
  PROVE  /\ robot' = next /\ (Docked(next.mode) => next.place = "in")
         /\ phase' = phase /\ seen' = seen /\ shown' = shown /\ payload' = payload
         /\ due \in 0..Longest /\ due' \in 0..Longest
         /\ due' = IF phase = "idle" THEN due - 1 ELSE due
         /\ lasting \in 0..MaxPoll /\ lasting' \in 0..MaxPoll
         /\ lasting' = IF phase \in {"status", "traits"} THEN lasting + 1 ELSE lasting
         /\ okAge' \in None..Unavailable
         /\ okAge' \in 0..(Unavailable - 1) => okAge \in 0..(Unavailable - 1) /\ okAge' = okAge + 1
         /\ posAge' \in None..(MaxAge + 1)
         /\ posAge' \in 0..MaxAge => posAge \in 0..MaxAge /\ posAge' = posAge + 1
         /\ reading' \in [Readers -> None..MaxRead]
         /\ reading["home"] # None =>
              reading["home"] \in 0..MaxRead /\ reading'["home"] = reading["home"] + 1
         /\ stay \in 0..Cap /\ stay' \in 0..Cap
         /\ stay' <= stay + 1
         /\ next.place # "in" => stay' = 0
         /\ Docked(next.mode) # Docked(robot.mode) => stay' <= 1
<1>1. /\ robot' = next /\ (Docked(next.mode) => next.place = "in")
      /\ phase' = phase /\ seen' = seen /\ shown' = shown /\ payload' = payload
  BY DEF Tick, Turns
<1>2. /\ due \in 0..Longest /\ due' \in 0..Longest
      /\ due' = IF phase = "idle" THEN due - 1 ELSE due
  BY Bounds DEF Tick, TypeOK
<1>3. /\ lasting \in 0..MaxPoll /\ lasting' \in 0..MaxPoll
      /\ lasting' = IF phase \in {"status", "traits"} THEN lasting + 1 ELSE lasting
  BY Bounds DEF Tick, TypeOK
<1>4. /\ okAge' \in None..Unavailable
      /\ okAge' \in 0..(Unavailable - 1) => okAge \in 0..(Unavailable - 1) /\ okAge' = okAge + 1
  <2>1. okAge \in None..Unavailable /\ okAge' = Older(okAge, Unavailable) /\ okAge \in Int
    BY Bounds DEF Tick, TypeOK, None
  <2>2. okAge' \in None..Unavailable
    BY <2>1, OlderIs, Bounds
  <2>3. okAge' # None /\ okAge' < Unavailable => okAge # None /\ okAge' = okAge + 1
    BY <2>1, OlderIs, Bounds
  <2> QED BY <2>1, <2>2, <2>3, Bounds DEF None
<1>5. /\ posAge' \in None..(MaxAge + 1)
      /\ posAge' \in 0..MaxAge => posAge \in 0..MaxAge /\ posAge' = posAge + 1
  <2>1. posAge \in None..(MaxAge + 1) /\ posAge' = Older(posAge, MaxAge + 1) /\ posAge \in Int
        /\ MaxAge + 1 \in Nat
    BY Bounds DEF Tick, TypeOK, None
  <2>2. posAge' \in None..(MaxAge + 1)
    BY <2>1, OlderIs
  <2>3. posAge' # None /\ posAge' < MaxAge + 1 => posAge # None /\ posAge' = posAge + 1
    BY <2>1, OlderIs
  <2> QED BY <2>1, <2>2, <2>3, Bounds DEF None
<1>6. /\ reading' \in [Readers -> None..MaxRead]
      /\ reading["home"] # None =>
           reading["home"] \in 0..MaxRead /\ reading'["home"] = reading["home"] + 1
  <2>1. \A r \in Readers : reading[r] \in None..MaxRead /\ reading[r] < MaxRead
    BY DEF Tick, TypeOK
  <2>2. \A r \in Readers : reading[r] \in Int /\ reading[r] >= None
    BY <2>1, Bounds DEF None
  <2>3. reading' = [r \in Readers |-> Older(reading[r], MaxRead)]
    BY DEF Tick
  <2>4. \A r \in Readers : Older(reading[r], MaxRead) \in None..MaxRead
    BY <2>2, OlderIs, Bounds
  <2>5. "home" \in Readers
    BY DEF Readers
  <2>6. reading["home"] # None => Older(reading["home"], MaxRead) = reading["home"] + 1
    BY <2>1, <2>2, <2>5, OlderIs, Bounds
  <2> QED BY <2>1, <2>2, <2>3, <2>4, <2>5, <2>6, Bounds DEF None
<1>7. /\ stay \in 0..Cap /\ stay' \in 0..Cap /\ stay' <= stay + 1
      /\ next.place # "in" => stay' = 0
      /\ Docked(next.mode) # Docked(robot.mode) => stay' <= 1
  <2>1. /\ stay \in 0..Cap /\ stay \in Int /\ stay >= None /\ stay # None
        /\ stay' = IF next.place # "in" THEN 0
             ELSE IF Docked(next.mode) # Docked(robot.mode) THEN 1 ELSE Older(stay, Cap)
    BY Bounds DEF Tick, TypeOK, None
  <2>2. Older(stay, Cap) \in 0..Cap /\ Older(stay, Cap) <= stay + 1
    BY <2>1, OlderIs, Bounds
  <2> QED BY <2>1, <2>2, Bounds
<1> QED BY <1>1, <1>2, <1>3, <1>4, <1>5, <1>6, <1>7

LEMMA TickType ==
  ASSUME TypeOK, NEW next \in [mode : Modes, place : Places], Tick(next)
  PROVE  TypeOK'
<1>1. /\ once' = once /\ full' = full /\ available' = available /\ interval' = interval
      /\ lastSeen' = lastSeen
  BY DEF Tick
<1>2. homeAge' \in 0..(ImageCache + 1)
  <2>1. homeAge \in 0..(ImageCache + 1) /\ homeAge' = Older(homeAge, ImageCache + 1)
        /\ homeAge \in Int /\ homeAge >= None /\ homeAge # None /\ ImageCache + 1 \in Nat
    BY Bounds DEF Tick, TypeOK, None
  <2> QED BY <2>1, OlderIs
<1>3. tryAge' \in None..IdleEvery
  <2>1. tryAge' = Older(tryAge, IdleEvery) /\ tryAge \in Int /\ tryAge >= None
    BY Bounds DEF Tick, TypeOK, None
  <2> QED BY <2>1, OlderIs, Bounds
<1>4. fullAge' \in None..MaxOf(FullEvery, MaxPoll)
  <2>1. fullAge' = Older(fullAge, FullEvery) /\ fullAge \in Int /\ fullAge >= None
    BY Bounds DEF Tick, TypeOK, None
  <2>2. fullAge' \in None..FullEvery
    BY <2>1, OlderIs, Bounds
  <2> QED BY <2>2, Bounds DEF None
<1>5. (phase = "home") = (reading'["home"] # None)
  <2>1. (phase = "home") = (reading["home"] # None)
    BY DEF TypeOK
  <2>2. reading["home"] = None => reading'["home"] = None
    BY DEF Tick, Readers, Older
  <2>3. reading["home"] # None => reading'["home"] # None
    BY TickIs DEF None
  <2> QED BY <2>1, <2>2, <2>3
<1>6. /\ robot' = next /\ (Docked(next.mode) => next.place = "in")
      /\ phase' = phase /\ seen' = seen /\ shown' = shown /\ payload' = payload
      /\ due' \in 0..Longest /\ lasting' \in 0..MaxPoll
      /\ okAge' \in None..Unavailable /\ posAge' \in None..(MaxAge + 1)
      /\ reading' \in [Readers -> None..MaxRead] /\ stay' \in 0..Cap
  BY TickIs
<1> QED BY <1>1, <1>2, <1>3, <1>4, <1>5, <1>6 DEF TypeOK

LEMMA TypeStep == TypeOK /\ [Next]_vars => TypeOK'
<1> SUFFICES ASSUME TypeOK, [Next]_vars PROVE TypeOK'
  OBVIOUS
<1>1. CASE Time
  <2>1. PICK mode \in Modes, place \in Places : Tick([mode |-> mode, place |-> place])
    BY <1>1 DEF Time
  <2> QED BY <2>1, TickType
<1>2. CASE UNCHANGED vars
  BY <1>2 DEF vars, TypeOK
<1> QED BY <1>1, <1>2, PollType, ReadsType DEF Next

-----------------------------------------------------------------------------
(* The position.  *)

\* What holds at the end of a poll leaves room until the next one.
LEMMA UntilDue ==
  ASSUME NEW s \in Int, NEW a \in Nat, NEW d \in 0..Longest, s <= a
  PROVE  s <= a + (Longest - d)
<1>1. Longest \in Nat
  BY Bounds
<1> QED BY <1>1

LEMMA OldestSample ==
  ASSUME NEW s \in Int, NEW age \in 0..MaxAge, s <= age + MaxRead
  PROVE  s <= MaxAge + MaxRead /\ MaxAge + MaxRead \in Nat
BY Bounds

\* A new map is no older than its read.
LEMMA NewMapIsRecent ==
  ASSUME TypeOK, AwayIsNoStay, robot' = robot, stay' = stay, posAge' = 0,
         NEW ticks \in 0..MaxRead, payload' \in Answers(ticks)
  PROVE  PayloadIsRecent'
<1>1. ~Docked(robot.mode) /\ payload'.place \in {"near", "out"} =>
        robot.place = payload'.place \/ stay <= ticks
  BY MapsAre
<1>2. robot.place = payload'.place /\ payload'.place \in {"near", "out"} => stay = 0
  BY DEF AwayIsNoStay
<1>3. stay \in Nat
  BY Bounds DEF TypeOK
<1> QED BY <1>1, <1>2, <1>3, Bounds DEF PayloadIsRecent

\* At the end of a poll that shows the robot outside its zone on a task.
LEMMA WrittenFromSample ==
  ASSUME TypeOK, TypeOK', PayloadIsRecent', robot' = robot, stay' = stay,
         phase' = "idle", due' \in 0..Longest,
         shown' = "on" => Reported(seen', posAge', payload') = "on"
  PROVE  ShownIsRecent'
<1> SUFFICES ASSUME shown' = "on", TaskActive(seen'), ~Docked(robot.mode)
             PROVE  stay <= MaxAge + MaxRead + (Longest - due')
  BY DEF ShownIsRecent
<1>1. seen' \in SeenModes /\ posAge' \in None..(MaxAge + 1) /\ payload' \in Maps
  BY DEF TypeOK
<1>2. payload'.place \in {"near", "out"} /\ posAge' \in 0..MaxAge
  BY <1>1, ReportedIs
<1>3. stay <= posAge' + MaxRead
  BY <1>2 DEF PayloadIsRecent
<1>4. stay \in Int
  BY Bounds DEF TypeOK
<1>5. stay <= MaxAge + MaxRead /\ MaxAge + MaxRead \in Nat
  BY <1>2, <1>3, <1>4, OldestSample
<1> QED BY <1>4, <1>5, UntilDue

LEMMA SampleInit == Init => SampleInv
<1> SUFFICES ASSUME Init PROVE SampleInv
  OBVIOUS
<1>1. AwayIsNoStay
  BY DEF Init, AwayIsNoStay
<1>2. PayloadIsRecent
  BY DEF Init, PayloadIsRecent
<1>3. ShownIsRecent
  BY DEF Init, ShownIsRecent
<1> QED BY <1>1, <1>2, <1>3, TypeInit DEF SampleInv

\* A poll that ends in success writes what it has read.
LEMMA SuccessSample ==
  ASSUME SampleInv, TypeOK', NEW mode \in SeenModes, NEW map, NEW age,
         NEW local \in BOOLEAN, NEW attempt \in None..IdleEvery,
         Succeeds(mode, map, age, attempt, local), PayloadIsRecent',
         robot' = robot, stay' = stay
  PROVE  SampleInv'
<1>1. /\ phase' = "idle" /\ due' \in 0..Longest
      /\ shown' = Reported(mode, age, map)
      /\ seen' = mode /\ payload' = map /\ posAge' = age
  BY SucceedsIs DEF SampleInv
<1>2. ShownIsRecent'
  BY <1>1, WrittenFromSample DEF SampleInv
<1>3. AwayIsNoStay'
  BY DEF SampleInv, AwayIsNoStay
<1> QED BY <1>2, <1>3 DEF SampleInv

LEMMA RefreshedSample ==
  ASSUME SampleInv, TypeOK', NEW mode \in SeenModes, NEW local \in BOOLEAN,
         Refreshed(mode, local), robot' = robot, stay' = stay
  PROVE  SampleInv'
<1>1. CASE (TaskActive(mode) /\ homeAge > ImageCache) \/ lastSeen # mode
  <2>1. phase' = "home" /\ posAge' = posAge /\ payload' = payload
    BY <1>1 DEF Refreshed
  <2> QED BY <2>1 DEF SampleInv, AwayIsNoStay, PayloadIsRecent, ShownIsRecent
<1>2. CASE ~((TaskActive(mode) /\ homeAge > ImageCache) \/ lastSeen # mode)
  <2>1. Succeeds(mode, payload, posAge, tryAge, local)
    BY <1>2 DEF Refreshed
  <2>2. tryAge \in None..IdleEvery /\ TypeOK
    BY DEF SampleInv, TypeOK
  <2>3. payload' = payload /\ posAge' = posAge
    BY <2>1, <2>2, SucceedsIs
  <2>4. PayloadIsRecent'
    BY <2>3 DEF SampleInv, PayloadIsRecent
  <2> QED BY <2>1, <2>2, <2>4, SuccessSample
<1> QED BY <1>1, <1>2

LEMMA PollSample == ASSUME SampleInv, Polling PROVE SampleInv'
<1> USE DEF SampleInv
<1>0. TypeOK'
  BY PollType
<1>1. ASSUME NEW local \in BOOLEAN, PollStarts(local) PROVE SampleInv'
  <2>1. /\ robot' = robot /\ stay' = stay /\ phase' = "status"
        /\ posAge' = posAge /\ payload' = payload
    BY <1>1 DEF PollStarts, mapReads
  <2> QED BY <1>0, <2>1 DEF AwayIsNoStay, PayloadIsRecent, ShownIsRecent
<1>2. ASSUME NEW local \in BOOLEAN, StatusRead(local) PROVE SampleInv'
  <2>1. State(robot.mode) \in SeenModes /\ robot' = robot /\ stay' = stay
    BY <1>2, ModesAre DEF StatusRead, TypeOK
  <2>2. CASE full
    <3>1. phase' = "traits" /\ posAge' = posAge /\ payload' = payload
      BY <1>2, <2>2 DEF StatusRead, mapReads
    <3> QED BY <1>0, <2>1, <3>1 DEF AwayIsNoStay, PayloadIsRecent, ShownIsRecent
  <2>3. CASE ~full
    BY <1>0, <1>2, <2>1, <2>3, RefreshedSample DEF StatusRead
  <2> QED BY <2>2, <2>3
<1>3. ASSUME NEW local \in BOOLEAN, TraitsRead(local) PROVE SampleInv'
  <2>1. seen \in SeenModes
    BY DEF TypeOK
  <2> QED BY <1>0, <1>3, <2>1, RefreshedSample DEF TraitsRead
<1>4. ASSUME NEW local \in BOOLEAN, HomeRead(local) PROVE SampleInv'
  <2>1. PICK map \in Answers(reading["home"]) : Succeeds(seen, map, 0, 0, local)
    BY <1>4 DEF HomeRead
  <2>2. /\ seen \in SeenModes /\ 0 \in None..IdleEvery
        /\ robot' = robot /\ stay' = stay
    BY <1>4, Bounds DEF TypeOK, None, HomeRead
  <2>3. payload' = map /\ posAge' = 0
    BY <2>1, <2>2, SucceedsIs
  <2>4. reading["home"] \in 0..MaxRead
    BY <1>4, Bounds DEF HomeRead, TypeOK, Readers, None
  <2>5. PayloadIsRecent'
    BY <2>1, <2>2, <2>3, <2>4, NewMapIsRecent
  <2> QED BY <1>0, <2>1, <2>2, <2>5, SuccessSample
<1>5. ASSUME NEW local \in BOOLEAN, HomeFails(local) PROVE SampleInv'
  <2>1. /\ seen \in SeenModes /\ tryAge \in None..IdleEvery
        /\ robot' = robot /\ stay' = stay
        /\ Succeeds(seen, payload, posAge, tryAge, local)
    BY <1>5 DEF TypeOK, HomeFails
  <2>2. payload' = payload /\ posAge' = posAge
    BY <2>1, SucceedsIs
  <2>3. PayloadIsRecent'
    BY <2>1, <2>2 DEF PayloadIsRecent
  <2> QED BY <1>0, <2>1, <2>3, SuccessSample
<1>6. CASE RefreshFails
  <2>1. /\ phase' = "idle" /\ due' = interval
        /\ shown' = IF Suppressed THEN Reported(seen, posAge, payload) ELSE "unavailable"
        /\ robot' = robot /\ seen' = seen /\ posAge' = posAge /\ payload' = payload
        /\ stay' = stay
    BY <1>6 DEF RefreshFails, Ends, mapReads
  <2>2. PayloadIsRecent' /\ AwayIsNoStay'
    BY <2>1 DEF PayloadIsRecent, AwayIsNoStay
  <2>3. due' \in 0..Longest
    BY <2>1, Bounds DEF TypeOK
  <2>4. shown' = "on" => Reported(seen', posAge', payload') = "on"
    BY <2>1
  <2>5. ShownIsRecent'
    BY <1>0, <2>1, <2>2, <2>3, <2>4, WrittenFromSample
  <2> QED BY <1>0, <2>2, <2>5
<1> QED BY <1>1, <1>2, <1>3, <1>4, <1>5, <1>6 DEF Polling

LEMMA ReadsSample ==
  ASSUME SampleInv, BackgroundReads \/ BackgroundFails \/ ServiceReads
  PROVE  SampleInv'
<1> USE DEF SampleInv
<1>0. TypeOK'
  BY ReadsType
<1>1. /\ robot' = robot /\ stay' = stay /\ shown' = shown
      /\ phase' = phase /\ due' = due /\ seen' = seen
  BY DEF BackgroundReads, BackgroundFails, ServiceReads, poller
<1>2. AwayIsNoStay' /\ ShownIsRecent'
  BY <1>1 DEF AwayIsNoStay, ShownIsRecent
<1>3. PayloadIsRecent'
  <2>1. CASE BackgroundReads
    <3>1. payload' \in Answers(reading["background"]) /\ posAge' = 0
      BY <2>1 DEF BackgroundReads
    <3>2. reading["background"] \in 0..MaxRead
      BY <2>1, Bounds DEF BackgroundReads, TypeOK, Readers, None
    <3> QED BY <1>1, <3>1, <3>2, NewMapIsRecent
  <2>2. CASE BackgroundFails
    BY <1>1, <2>2 DEF BackgroundFails, NotRead, PayloadIsRecent
  <2>3. CASE ServiceReads
    <3>1. payload' \in Answers(MaxRead) /\ posAge' = 0 /\ MaxRead \in 0..MaxRead
      BY <2>3, Bounds DEF ServiceReads
    <3> QED BY <1>1, <3>1, NewMapIsRecent
  <2> QED BY <2>1, <2>2, <2>3
<1> QED BY <1>0, <1>2, <1>3

\* A tick ages the sample by as much as the stay; a robot that leaves its dock begins
\* a new stay.
LEMMA TickSample ==
  ASSUME SampleInv, NEW next \in [mode : Modes, place : Places], Tick(next)
  PROVE  SampleInv'
<1> USE DEF SampleInv
<1>0. TypeOK'
  BY TickType
<1>1. /\ robot' = next
      /\ phase' = phase /\ seen' = seen /\ shown' = shown /\ payload' = payload
      /\ due \in 0..Longest /\ due' \in 0..Longest
      /\ due' = IF phase = "idle" THEN due - 1 ELSE due
      /\ posAge' \in 0..MaxAge => posAge \in 0..MaxAge /\ posAge' = posAge + 1
      /\ stay \in 0..Cap /\ stay' \in 0..Cap
      /\ stay' <= stay + 1
      /\ next.place # "in" => stay' = 0
      /\ Docked(next.mode) # Docked(robot.mode) => stay' <= 1
  BY TickIs
<1>2. AwayIsNoStay'
  BY <1>1 DEF AwayIsNoStay
<1>3. PayloadIsRecent'
  <2> SUFFICES ASSUME ~Docked(next.mode), payload.place \in {"near", "out"}, posAge' \in 0..MaxAge
               PROVE  stay' <= posAge' + MaxRead
    BY <1>1 DEF PayloadIsRecent
  <2>1. posAge \in 0..MaxAge /\ posAge' = posAge + 1
    BY <1>1
  <2>2. CASE Docked(robot.mode)
    <3>1. stay' <= 1
      BY <1>1, <2>2
    <3> QED BY <1>1, <2>1, <3>1, Bounds
  <2>3. CASE ~Docked(robot.mode)
    <3>1. stay <= posAge + MaxRead
      BY <2>1, <2>3 DEF PayloadIsRecent
    <3> QED BY <1>1, <2>1, <3>1, Bounds
  <2> QED BY <2>2, <2>3
<1>4. ShownIsRecent'
  <2> SUFFICES ASSUME shown = "on", phase = "idle", TaskActive(seen), ~Docked(next.mode)
               PROVE  stay' <= MaxAge + MaxRead + (Longest - due')
    BY <1>1 DEF ShownIsRecent
  <2>1. due' = due - 1
    BY <1>1
  <2>2. CASE Docked(robot.mode)
    <3>1. stay' <= 1
      BY <1>1, <2>2
    <3> QED BY <1>1, <2>1, <3>1, Bounds
  <2>3. CASE ~Docked(robot.mode)
    <3>1. stay <= MaxAge + MaxRead + (Longest - due)
      BY <2>3 DEF ShownIsRecent
    <3> QED BY <1>1, <2>1, <3>1, Bounds
  <2> QED BY <2>2, <2>3
<1> QED BY <1>0, <1>2, <1>3, <1>4

LEMMA SampleStep == SampleInv /\ [Next]_vars => SampleInv'
<1> SUFFICES ASSUME SampleInv, [Next]_vars PROVE SampleInv'
  OBVIOUS
<1>1. CASE Time
  <2>1. PICK mode \in Modes, place \in Places : Tick([mode |-> mode, place |-> place])
    BY <1>1 DEF Time
  <2> QED BY <2>1, TickSample
<1>2. CASE UNCHANGED vars
  BY <1>2 DEF vars, SampleInv, TypeOK, AwayIsNoStay, PayloadIsRecent, ShownIsRecent
<1> QED BY <1>1, <1>2, PollSample, ReadsSample DEF Next

-----------------------------------------------------------------------------
(* The dock. *)

LEMMA DockInit == Init => DockInv
<1> SUFFICES ASSUME Init PROVE DockInv
  OBVIOUS
<1>1. StatusIsRecent
  BY DEF Init, StatusIsRecent
<1>2. WrittenIsRecent
  BY DEF Init, WrittenIsRecent
<1> QED BY <1>1, <1>2, TypeInit DEF DockInv

\* A sensor that was written for a docked robot at the end of a poll.
LEMMA WrittenAtEnd ==
  ASSUME TypeOK', "near" \notin Places, robot' = robot, stay' = stay,
         phase' = "idle", due' \in 0..Longest,
         shown' = "on" => Reported(seen', posAge', payload') = "on",
         Docked(robot.mode) /\ ~Docked(seen') => stay <= Unavailable + PollLength
  PROVE  WrittenIsRecent'
<1> SUFFICES ASSUME Docked(robot.mode), shown' = "on"
             PROVE  stay <= Unavailable + PollLength + (Longest - due')
  BY DEF WrittenIsRecent, SinceWritten
<1>1. seen' \in SeenModes /\ posAge' \in None..(MaxAge + 1) /\ payload' \in Maps
  BY DEF TypeOK
<1>2. ~Docked(seen')
  BY <1>1, ReportedIs
<1>3. stay \in Nat /\ PollLength \in Nat
  BY Bounds DEF TypeOK, PollLength
<1>5. Unavailable + PollLength \in Nat /\ stay \in Int
  BY <1>3, Bounds
<1>6. stay <= Unavailable + PollLength
  BY <1>2
<1> QED BY <1>5, <1>6, UntilDue

\* A success dates the status now, though it was read when the poll began.
LEMMA SuccessDock ==
  ASSUME DockInv, TypeOK', "near" \notin Places,
         NEW mode \in SeenModes, NEW map, NEW age,
         NEW local \in BOOLEAN, NEW attempt \in None..IdleEvery,
         Succeeds(mode, map, age, attempt, local), robot' = robot, stay' = stay,
         Docked(robot.mode) /\ ~Docked(mode) => stay <= PollLength
  PROVE  DockInv'
<1>1. /\ phase' = "idle" /\ due' \in 0..Longest /\ okAge' = 0
      /\ shown' = Reported(mode, age, map)
      /\ seen' = mode /\ payload' = map /\ posAge' = age
  BY SucceedsIs DEF DockInv
<1>2. stay \in Nat /\ PollLength \in Nat
  BY Bounds DEF DockInv, TypeOK, PollLength
<1>3. StatusIsRecent'
  BY <1>1, <1>2 DEF StatusIsRecent
<1>4. Docked(robot.mode) /\ ~Docked(mode) => stay <= Unavailable + PollLength
  BY <1>2, Bounds
<1>5. WrittenIsRecent'
  BY <1>1, <1>4, WrittenAtEnd
<1> QED BY <1>3, <1>5 DEF DockInv

LEMMA RefreshedDock ==
  ASSUME DockInv, TypeOK', "near" \notin Places, phase \in {"status", "traits"},
         NEW mode \in SeenModes, NEW local \in BOOLEAN,
         Refreshed(mode, local), robot' = robot, stay' = stay,
         mode # seen => (Docked(mode) <=> Docked(robot.mode)),
         phase = "status" => (Docked(mode) <=> Docked(robot.mode))
  PROVE  DockInv'
<1> USE DEF DockInv
<1>1. stay \in Nat /\ lasting \in 0..MaxPoll /\ PollLength \in Nat /\ lasting <= PollLength
  BY Bounds DEF TypeOK, PollLength
<1>2. Docked(robot.mode) /\ ~Docked(mode) => phase = "traits" /\ mode = seen /\ stay <= lasting
  BY DEF StatusIsRecent
<1>3. CASE (TaskActive(mode) /\ homeAge > ImageCache) \/ lastSeen # mode
  <2>1. /\ phase' = "home" /\ seen' = mode /\ lasting' = lasting /\ okAge' = okAge
        /\ reading' = [reading EXCEPT !["home"] = 0] /\ shown' = shown
    BY <1>3 DEF Refreshed
  <2>2. reading'["home"] = 0
    BY <2>1 DEF TypeOK, Readers
  <2>3. StatusIsRecent'
    BY <1>1, <1>2, <2>1, <2>2 DEF StatusIsRecent
  <2>4. WrittenIsRecent'
    <3> SUFFICES ASSUME Docked(robot.mode), shown = "on"
                 PROVE  stay <= Unavailable + PollLength + (Longest + lasting + 0)
      BY <2>1, <2>2 DEF WrittenIsRecent, SinceWritten
    <3>1. stay <= Unavailable + PollLength + (Longest + lasting)
      BY DEF WrittenIsRecent, SinceWritten
    <3> QED BY <1>1, <3>1, Bounds
  <2> QED BY <2>3, <2>4
<1>4. CASE ~((TaskActive(mode) /\ homeAge > ImageCache) \/ lastSeen # mode)
  <2>1. Succeeds(mode, payload, posAge, tryAge, local)
    BY <1>4 DEF Refreshed
  <2>2. tryAge \in None..IdleEvery
    BY DEF TypeOK
  <2>3. Docked(robot.mode) /\ ~Docked(mode) => stay <= PollLength
    BY <1>1, <1>2
  <2> QED BY <2>1, <2>2, <2>3, SuccessDock
<1> QED BY <1>3, <1>4

LEMMA PollDock == ASSUME DockInv, "near" \notin Places, Polling PROVE DockInv'
<1> USE DEF DockInv
<1>0. TypeOK' /\ stay \in Nat /\ lasting \in 0..MaxPoll /\ PollLength \in Nat
  <2>1. TypeOK'
    BY PollType
  <2>2. stay \in Nat /\ lasting \in 0..MaxPoll
    BY Bounds DEF TypeOK
  <2>3. PollLength \in Nat
    BY Bounds DEF PollLength
  <2> QED BY <2>1, <2>2, <2>3
<1>1. ASSUME NEW local \in BOOLEAN, PollStarts(local) PROVE DockInv'
  <2>1. /\ robot' = robot /\ stay' = stay /\ phase = "idle" /\ phase' = "status"
        /\ seen' = seen /\ okAge' = okAge /\ lasting' = 0 /\ shown' = shown
    BY <1>1 DEF PollStarts, mapReads
  <2>2. StatusIsRecent'
    BY <2>1 DEF StatusIsRecent
  <2>3. WrittenIsRecent'
    <3> SUFFICES ASSUME Docked(robot.mode), shown = "on"
                 PROVE  stay <= Unavailable + PollLength + (Longest + 0)
      BY <2>1 DEF WrittenIsRecent, SinceWritten
    <3>1. stay <= Unavailable + PollLength + (Longest - due) /\ due \in Nat
      BY <2>1, Bounds DEF WrittenIsRecent, SinceWritten, TypeOK
    <3> QED BY <1>0, <3>1, Bounds
  <2> QED BY <1>0, <2>2, <2>3
<1>2. ASSUME NEW local \in BOOLEAN, StatusRead(local) PROVE DockInv'
  <2>1. /\ State(robot.mode) \in SeenModes /\ robot' = robot /\ stay' = stay
        /\ Docked(State(robot.mode)) <=> Docked(robot.mode)
        /\ phase = "status"
    BY <1>2, ModesAre DEF StatusRead, TypeOK
  <2>2. CASE full
    <3>1. /\ phase' = "traits" /\ seen' = State(robot.mode) /\ lasting' = lasting
          /\ shown' = shown
      BY <1>2, <2>2 DEF StatusRead
    <3>2. StatusIsRecent'
      BY <2>1, <3>1 DEF StatusIsRecent
    <3>3. WrittenIsRecent'
      BY <2>1, <3>1 DEF WrittenIsRecent, SinceWritten
    <3> QED BY <1>0, <3>2, <3>3
  <2>3. CASE ~full
    BY <1>0, <1>2, <2>1, <2>3, RefreshedDock DEF StatusRead
  <2> QED BY <2>2, <2>3
<1>3. ASSUME NEW local \in BOOLEAN, TraitsRead(local) PROVE DockInv'
  <2>1. seen \in SeenModes
    BY DEF TypeOK
  <2> QED BY <1>0, <1>3, <2>1, RefreshedDock DEF TraitsRead
<1>4. ASSUME phase = "home", Docked(robot.mode), ~Docked(seen) PROVE stay <= PollLength
  <2>1. stay <= lasting + reading["home"]
    BY <1>4 DEF StatusIsRecent
  <2>2. reading["home"] \in 0..MaxRead
    BY <1>4, Bounds DEF TypeOK, Readers, None
  <2> QED BY <1>0, <2>1, <2>2, Bounds DEF PollLength
<1>5. ASSUME NEW local \in BOOLEAN, HomeRead(local) PROVE DockInv'
  <2>1. PICK map \in Answers(reading["home"]) : Succeeds(seen, map, 0, 0, local)
    BY <1>5 DEF HomeRead
  <2>2. /\ seen \in SeenModes /\ 0 \in None..IdleEvery
        /\ robot' = robot /\ stay' = stay /\ phase = "home"
    BY <1>5, Bounds DEF TypeOK, None, HomeRead
  <2> QED BY <1>0, <1>4, <2>1, <2>2, SuccessDock
<1>6. ASSUME NEW local \in BOOLEAN, HomeFails(local) PROVE DockInv'
  <2>1. /\ seen \in SeenModes /\ tryAge \in None..IdleEvery
        /\ robot' = robot /\ stay' = stay /\ phase = "home"
        /\ Succeeds(seen, payload, posAge, tryAge, local)
    BY <1>6 DEF TypeOK, HomeFails
  <2> QED BY <1>0, <1>4, <2>1, SuccessDock
<1>7. CASE RefreshFails
  <2>1. /\ phase' = "idle" /\ due' = interval
        /\ shown' = IF Suppressed THEN Reported(seen, posAge, payload) ELSE "unavailable"
        /\ robot' = robot /\ seen' = seen /\ posAge' = posAge /\ payload' = payload
        /\ stay' = stay /\ okAge' = okAge
    BY <1>7 DEF RefreshFails, Ends, mapReads
  <2>2. StatusIsRecent'
    BY <2>1 DEF StatusIsRecent
  <2>3. due' \in 0..Longest
    BY <2>1, Bounds DEF TypeOK
  <2>4. WrittenIsRecent'
    <3>1. CASE Suppressed
      <4>1. okAge \in 0..(Unavailable - 1)
        BY <3>1, Bounds DEF Suppressed, TypeOK, None
      <4>2. Docked(robot.mode) /\ ~Docked(seen) => stay <= okAge + PollLength
        BY <4>1 DEF StatusIsRecent
      <4>3. Docked(robot.mode) /\ ~Docked(seen) => stay <= Unavailable + PollLength
        BY <1>0, <4>1, <4>2, Bounds
      <4>4. shown' = "on" => Reported(seen', posAge', payload') = "on"
        BY <2>1
      <4> QED BY <1>0, <2>1, <2>3, <4>3, <4>4, WrittenAtEnd
    <3>2. CASE ~Suppressed
      BY <2>1, <3>2 DEF WrittenIsRecent
    <3> QED BY <3>1, <3>2
  <2> QED BY <1>0, <2>2, <2>4
<1> QED BY <1>1, <1>2, <1>3, <1>5, <1>6, <1>7 DEF Polling

LEMMA ReadsDock ==
  ASSUME DockInv, BackgroundReads \/ BackgroundFails \/ ServiceReads
  PROVE  DockInv'
<1> USE DEF DockInv
<1>1. /\ robot' = robot /\ stay' = stay /\ shown' = shown /\ okAge' = okAge
      /\ phase' = phase /\ due' = due /\ seen' = seen /\ lasting' = lasting
  BY DEF BackgroundReads, BackgroundFails, ServiceReads, poller
<1>2. reading'["home"] = reading["home"]
  BY DEF BackgroundReads, BackgroundFails, ServiceReads, NotRead, TypeOK, Readers
<1> QED BY <1>1, <1>2, ReadsType DEF StatusIsRecent, WrittenIsRecent, SinceWritten

\* A tick moves every clock that bounds the stay; a robot that docks begins a new one.
LEMMA TickDock ==
  ASSUME DockInv, NEW next \in [mode : Modes, place : Places], Tick(next)
  PROVE  DockInv'
<1> USE DEF DockInv
<1>1. /\ robot' = next
      /\ phase' = phase /\ seen' = seen /\ shown' = shown
      /\ due \in 0..Longest /\ due' \in 0..Longest
      /\ due' = IF phase = "idle" THEN due - 1 ELSE due
      /\ lasting \in 0..MaxPoll /\ lasting' \in 0..MaxPoll
      /\ lasting' = IF phase \in {"status", "traits"} THEN lasting + 1 ELSE lasting
      /\ okAge' \in 0..(Unavailable - 1) => okAge \in 0..(Unavailable - 1) /\ okAge' = okAge + 1
      /\ reading["home"] # None =>
           reading["home"] \in 0..MaxRead /\ reading'["home"] = reading["home"] + 1
      /\ stay \in 0..Cap /\ stay' \in 0..Cap
      /\ stay' <= stay + 1
      /\ Docked(next.mode) # Docked(robot.mode) => stay' <= 1
  BY TickIs
<1>2. PollLength \in Nat
  BY Bounds DEF PollLength
<1>3. phase = "home" => reading["home"] \in 0..MaxRead /\ reading'["home"] = reading["home"] + 1
  BY <1>1 DEF TypeOK
<1>4. phase \in {"idle", "status", "traits", "home"}
  BY DEF TypeOK
<1>5. StatusIsRecent'
  <2> SUFFICES ASSUME Docked(next.mode), ~Docked(seen)
               PROVE  /\ okAge' \in 0..(Unavailable - 1) => stay' <= okAge' + PollLength
                      /\ phase = "traits" => stay' <= lasting'
                      /\ phase = "home" => stay' <= lasting' + reading'["home"]
    BY <1>1 DEF StatusIsRecent
  <2>1. CASE Docked(robot.mode)
    <3>1. /\ okAge \in 0..(Unavailable - 1) => stay <= okAge + PollLength
          /\ phase = "traits" => stay <= lasting
          /\ phase = "home" => stay <= lasting + reading["home"]
      BY <2>1 DEF StatusIsRecent
    <3>2. okAge' \in 0..(Unavailable - 1) => stay' <= okAge' + PollLength
      BY <1>1, <1>2, <3>1, Bounds
    <3>3. phase = "traits" => stay' <= lasting'
      BY <1>1, <3>1, Bounds
    <3>4. phase = "home" => stay' <= lasting' + reading'["home"]
      BY <1>1, <1>3, <3>1, Bounds
    <3> QED BY <3>2, <3>3, <3>4
  <2>2. CASE ~Docked(robot.mode)
    <3>1. stay' <= 1
      BY <1>1, <2>2
    <3>2. okAge' \in 0..(Unavailable - 1) => stay' <= okAge' + PollLength
      BY <1>1, <1>2, <3>1, Bounds
    <3>3. phase = "traits" => stay' <= lasting'
      BY <1>1, <3>1, Bounds
    <3>4. phase = "home" => stay' <= lasting' + reading'["home"]
      BY <1>1, <1>3, <3>1, Bounds
    <3> QED BY <3>2, <3>3, <3>4
  <2> QED BY <2>1, <2>2
<1>6. /\ SinceWritten' = SinceWritten + 1 /\ SinceWritten \in Nat
  <2>1. CASE phase = "idle"
    BY <1>1, <2>1, Bounds DEF SinceWritten
  <2>2. CASE phase \in {"status", "traits"}
    BY <1>1, <2>2, Bounds DEF SinceWritten
  <2>3. CASE phase = "home"
    BY <1>1, <1>3, <2>3, Bounds DEF SinceWritten
  <2> QED BY <1>4, <2>1, <2>2, <2>3
<1>7. WrittenIsRecent'
  <2> SUFFICES ASSUME Docked(next.mode), shown = "on"
               PROVE  stay' <= Unavailable + PollLength + SinceWritten'
    BY <1>1 DEF WrittenIsRecent
  <2>1. CASE Docked(robot.mode)
    <3>1. stay <= Unavailable + PollLength + SinceWritten
      BY <2>1 DEF WrittenIsRecent
    <3> QED BY <1>1, <1>2, <1>6, <3>1, Bounds
  <2>2. CASE ~Docked(robot.mode)
    <3>1. stay' <= 1
      BY <1>1, <2>2
    <3> QED BY <1>1, <1>2, <1>6, <3>1, Bounds
  <2> QED BY <2>1, <2>2
<1> QED BY <1>5, <1>7, TickType

LEMMA DockStep == ASSUME "near" \notin Places PROVE DockInv /\ [Next]_vars => DockInv'
<1> SUFFICES ASSUME DockInv, [Next]_vars PROVE DockInv'
  OBVIOUS
<1>1. CASE Time
  <2>1. PICK mode \in Modes, place \in Places : Tick([mode |-> mode, place |-> place])
    BY <1>1 DEF Time
  <2> QED BY <2>1, TickDock
<1>2. CASE UNCHANGED vars
  BY <1>2 DEF vars, DockInv, TypeOK, StatusIsRecent, WrittenIsRecent, SinceWritten
<1> QED BY <1>1, <1>2, PollDock, ReadsDock DEF Next

-----------------------------------------------------------------------------
(* Theorems. *)

\* Every variable has its type; a home refresh is a read of the map, and no poll
\* outlasts its replies (coordinator.py:460-600).
THEOREM CoordinatorIsTyped == Spec => []TypeOK
BY TypeInit, TypeStep, PTL DEF Spec

\* A robot on a task that has come back in is shown outside no longer than a sample may
\* age, a read may take and a poll may be away, for any intervals
\* (v1_map_position.py:59-68, coordinator.py:417-427).
THEOREM OutsideIsRecent == Spec => []OutsideWasTrue
<1>1. SampleInv => OutsideWasTrue
  <2> SUFFICES ASSUME SampleInv, shown = "on", phase = "idle", TaskActive(seen),
                      ~Docked(robot.mode)
               PROVE  stay <= OutBound
    BY DEF OutsideWasTrue
  <2>1. stay <= MaxAge + MaxRead + (Longest - due)
    BY DEF SampleInv, ShownIsRecent
  <2>2. stay \in Nat /\ due \in Nat
    BY Bounds DEF SampleInv, TypeOK
  <2> QED BY <2>1, <2>2, Bounds
<1> QED BY <1>1, SampleInit, SampleStep, PTL DEF Spec

\* A docked robot is not shown outside once the time is over in which failed polls are
\* hidden, for any intervals, if no place is beside the dock: within the dock's tolerance
\* and outside the zone (coordinator.py:551-563, 574-589).
THEOREM DockedIsShownInside == ASSUME "near" \notin Places PROVE Spec => []DockedIsNotOutside
<1>1. DockInv => DockedIsNotOutside
  <2> SUFFICES ASSUME DockInv, Docked(robot.mode), shown = "on" PROVE ~(stay > DockBound)
    BY DEF DockedIsNotOutside
  <2>1. stay <= Unavailable + PollLength + SinceWritten
    BY DEF DockInv, WrittenIsRecent
  <2>2. /\ stay \in Nat /\ due \in 0..Longest /\ lasting \in 0..MaxPoll
        /\ phase \in {"idle", "status", "traits", "home"}
        /\ phase = "home" => reading["home"] \in 0..MaxRead
    BY Bounds DEF DockInv, TypeOK, Readers, None
  <2>3. SinceWritten \in Nat /\ SinceWritten <= Longest + MaxPoll + MaxRead
    <3>1. CASE phase = "idle"
      BY <2>2, <3>1, Bounds DEF SinceWritten
    <3>2. CASE phase \in {"status", "traits"}
      BY <2>2, <3>2, Bounds DEF SinceWritten
    <3>3. CASE phase = "home"
      BY <2>2, <3>3, Bounds DEF SinceWritten
    <3> QED BY <2>2, <3>1, <3>2, <3>3
  <2>4. stay <= Unavailable + (MaxPoll + MaxRead) + (Longest + MaxPoll + MaxRead)
    BY <2>1, <2>2, <2>3, Bounds DEF PollLength
  <2> QED BY <2>2, <2>4, Bounds
<1> QED BY <1>1, DockInit, DockStep, PTL DEF Spec

=============================================================================
