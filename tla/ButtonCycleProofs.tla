-------------------------- MODULE ButtonCycleProofs --------------------------
(***************************************************************************)
(* Proofs about the button cycle, for any travel, latency and window that  *)
(* cover each other, any length of the queue and any number of clicks,     *)
(* commands and losses.                                                    *)
(***************************************************************************)
EXTENDS ButtonCycle, TLAPS

-----------------------------------------------------------------------------
(* What the proofs rest on.                                                *)

Clicks == [id : {"press"}, moving : BOOLEAN, single : BOOLEAN]
Calls == [id : {"command"}, service : Services]
Triggers == Clicks \cup Calls

\* A trigger whose run will record a window.
Recording(t) == t.id = "command" /\ t.service \in Commands

\* An upper bound of the ticks for which the motor still runs.  A command on its way
\* may find the door at the far end, however it moves until then; a motor that is
\* started at the end it drives to runs for one tick.
Longest(d, f) ==
  CASE f.service \in {"open_cover", "close_cover"} -> Latency - f.age + Travel
    [] f.service = "stop_cover" -> 0
    [] f.service = "none" ->
         CASE d.motor = "up"    -> IF d.at = Travel THEN 1 ELSE Travel - d.at
           [] d.motor = "down"  -> IF d.at = 0 THEN 1 ELSE d.at
           [] d.motor = "still" -> 0

\* The window that will stand when all of q has run, with w on the helper now, lasts
\* for n ticks or is unknown.
Covers(q, w, n) ==
  /\ \A i \in 1..Len(q) :
       Recording(q[i]) /\ (\A j \in 1..Len(q) : j > i => ~Recording(q[j]))
         => RecordWindow(q[i].service) >= n
  /\ (\A i \in 1..Len(q) : ~Recording(q[i])) => w = Unknown \/ w >= n

\* No command came behind a click on the running motor.
LatestClicks(q) ==
  \A i \in 1..Len(q) :
    q[i].id = "press" /\ q[i].moving => \A j \in 1..Len(q) : j > i => ~Recording(q[j])

NoLiveClick(q) == \A i \in 1..Len(q) : q[i].id = "press" => ~q[i].moving

MotionIsRecorded == ~blind => Covers(queue, clock, Longest(door, flight))
ClicksAreLive == LatestClicks(queue) /\ (blind => NoLiveClick(queue))

CycleInv ==
  /\ TypeOK /\ queue \in Seq(Triggers)
  /\ MotionIsRecorded
  /\ ClicksAreLive
  /\ PressOnMovingDoorStops

Doors == [at : 0..Travel, motor : Motors, magnet : BOOLEAN]
Flights == [service : Commands \cup {"none"}, age : 0..Latency]
Clocks == 0..Window \cup {-1}

-----------------------------------------------------------------------------
(* Operators.                                                              *)

LEMMA Ticks ==
  /\ Travel \in Nat /\ Latency \in Nat /\ Window \in Nat /\ MaxRuns \in Nat
  /\ MaxPresses \in Nat /\ MaxOthers \in Nat /\ MaxLosses \in Nat
  /\ Travel > 0 /\ MaxRuns > 0 /\ Window >= Travel + Latency
BY ButtonAssumption

\* The bound is no longer than the window a command records, a stop needs none, and a
\* motor that runs or is about to run has at least a tick left.
LEMMA LongestFits ==
  ASSUME NEW d \in Doors, NEW f \in Flights
  PROVE  /\ Longest(d, f) \in Nat
         /\ f.service \in Commands => Longest(d, f) <= RecordWindow(f.service)
<1>1. CASE f.service \in {"open_cover", "close_cover"}
  BY <1>1, Ticks DEF Longest, Doors, Flights, RecordWindow
<1>2. CASE f.service = "stop_cover"
  BY <1>2, Ticks DEF Longest, Doors, Flights, RecordWindow
<1>3. CASE f.service = "none"
  BY <1>3, Ticks DEF Longest, Doors, Flights, RecordWindow, Motors, Commands
<1> QED BY <1>1, <1>2, <1>3 DEF Flights, Commands

LEMMA MovingTakesTime ==
  ASSUME door \in Doors, flight \in Flights, Moving
  PROVE  Longest(door, flight) >= 1
<1>1. CASE flight.service \in {"open_cover", "close_cover"}
  BY <1>1, Ticks DEF Longest, Doors, Flights
<1>2. CASE flight.service = "none" /\ door.motor # "still"
  BY <1>2, Ticks DEF Longest, Doors, Flights, Motors
<1> QED BY <1>1, <1>2 DEF Flights, Moving, Commands

\* A door that is not Moving needs no window.
LEMMA RestTakesNone ==
  ASSUME door \in Doors, flight \in Flights, ~Moving
  PROVE  Longest(door, flight) = 0
BY DEF Longest, Doors, Flights, Motors, Moving, Commands

\* What a click records, a command does not; nobody's window is shorter than nothing.
LEMMA WindowIs ==
  ASSUME NEW s
  PROVE  RecordWindow(s) \in Nat
BY Ticks DEF RecordWindow

LEMMA ExactFits ==
  ASSUME door \in Doors, flight \in Flights
  PROVE  ToGo <= Longest(door, flight) /\ ToGo \in Int
<1>1. CASE flight.service \in {"open_cover", "close_cover"}
  BY <1>1, Ticks DEF Longest, Doors, Flights, ToGo
<1>2. CASE flight.service = "stop_cover"
  BY <1>2, Ticks DEF Longest, Doors, Flights, ToGo
<1>3. CASE flight.service = "none"
  BY <1>3, Ticks DEF Longest, Doors, Flights, Motors, ToGo
<1> QED BY <1>1, <1>2, <1>3 DEF Flights, Commands

\* A shorter bound is covered by what covers the longer.
LEMMA CoversLess ==
  ASSUME NEW q \in Seq(Triggers), NEW w \in Clocks, NEW n \in Nat, NEW m \in Nat,
         m <= n, Covers(q, w, n)
  PROVE  Covers(q, w, m)
BY WindowIs, Ticks DEF Covers, Clocks

LEMMA CoversNothing ==
  ASSUME NEW q, NEW w \in Clocks
  PROVE  Covers(q, w, 0)
BY WindowIs, Ticks DEF Covers, Clocks, Unknown

\* An unknown helper refuses every click until a command sets it.
LEMMA CoversUnknown ==
  ASSUME NEW q, NEW w, NEW n, Covers(q, w, n)
  PROVE  Covers(q, Unknown, n)
BY DEF Covers

LEMMA CoversTick ==
  ASSUME NEW q \in Seq(Triggers), NEW w \in Clocks, NEW n \in Nat, NEW m \in Nat,
         m <= (IF n > 0 THEN n - 1 ELSE 0), Covers(q, w, n)
  PROVE  Covers(q, IF w > 0 THEN w - 1 ELSE w, m)
BY WindowIs, Ticks DEF Covers, Clocks, Unknown

LEMMA OvertakenIs ==
  ASSUME NEW q \in Seq(Triggers)
  PROVE  /\ Overtaken(q) \in Seq(Triggers) /\ Len(Overtaken(q)) = Len(q)
         /\ \A i \in 1..Len(q) : /\ q[i].id = "command" => Overtaken(q)[i] = q[i]
                                 /\ Overtaken(q)[i].id = q[i].id
                                 /\ Recording(Overtaken(q)[i]) <=> Recording(q[i])
         /\ NoLiveClick(Overtaken(q))
<1>1. \A i \in 1..Len(q) : q[i] \in Triggers
  OBVIOUS
<1>2. \A t \in Triggers : t.id = "press" => /\ [t EXCEPT !.moving = FALSE] \in Clicks
                                            /\ ~[t EXCEPT !.moving = FALSE].moving
                                            /\ [t EXCEPT !.moving = FALSE].id = "press"
  BY DEF Triggers, Clicks, Calls
<1>3. DOMAIN q = 1..Len(q)
  OBVIOUS
<1>4. \A i \in 1..Len(q) :
         /\ Overtaken(q)[i] = IF q[i].id = "press" THEN [q[i] EXCEPT !.moving = FALSE] ELSE q[i]
         /\ Overtaken(q)[i] \in Triggers
  BY <1>1, <1>2, <1>3 DEF Overtaken, Triggers
<1>5. Overtaken(q) \in [1..Len(q) -> Triggers]
  BY <1>3, <1>4 DEF Overtaken
<1>6. Overtaken(q) \in Seq(Triggers) /\ Len(Overtaken(q)) = Len(q)
  BY <1>5
<1>7. \A i \in 1..Len(q) : Overtaken(q)[i].id = q[i].id
  BY <1>1, <1>2, <1>4 
<1>8. \A i \in 1..Len(q) : q[i].id = "command" => Overtaken(q)[i] = q[i]
  BY <1>4
<1>9. NoLiveClick(Overtaken(q))
  BY <1>1, <1>2, <1>4, <1>6, <1>7 DEF NoLiveClick
<1> QED BY <1>6, <1>7, <1>8, <1>9 DEF Recording

LEMMA AdmittedIs ==
  ASSUME NEW q \in Seq(Triggers), NEW busy \in BOOLEAN, NEW t \in Triggers,
         Len(q) <= MaxRuns
  PROVE  /\ Admitted(q, busy, t) \in Seq(Triggers) /\ Len(Admitted(q, busy, t)) <= MaxRuns
         /\ Room(q, busy) =>
              /\ Len(Admitted(q, busy, t)) = Len(q) + 1 /\ Len(q) \in Nat
              /\ Admitted(q, busy, t)[Len(q) + 1] = t
              /\ \A i \in 1..Len(q) : Admitted(q, busy, t)[i] = q[i]
         /\ ~Room(q, busy) => Admitted(q, busy, t) = q
<1>1. CASE Room(q, busy)
  <2>1. Admitted(q, busy, t) = Append(q, t)
    BY <1>1 DEF Admitted
  <2>2. Len(q) + 1 <= MaxRuns
    BY <1>1, Ticks DEF Room
  <2> QED BY <2>1, <2>2, <1>1
<1>2. CASE ~Room(q, busy)
  BY <1>2 DEF Admitted
<1> QED BY <1>1, <1>2

LEMMA TailIs ==
  ASSUME NEW q \in Seq(Triggers), q # <<>>
  PROVE  /\ Tail(q) \in Seq(Triggers) /\ Len(Tail(q)) = Len(q) - 1
         /\ \A i \in 1..(Len(q) - 1) : Tail(q)[i] = q[i + 1]
         /\ Head(q) = q[1] /\ q[1] \in Triggers /\ Len(q) \in Nat /\ Len(q) > 0
OBVIOUS

\* Triggers.
LEMMA TriggerIs ==
  /\ \A b \in BOOLEAN : /\ Click(b) \in Triggers /\ ~Recording(Click(b))
                        /\ Click(b).id = "press" /\ Click(b).moving = b
  /\ DoubleClick \in Triggers /\ ~Recording(DoubleClick) /\ ~DoubleClick.moving
  /\ \A s \in Services : /\ Command(s) \in Triggers /\ Command(s).id = "command"
                         /\ Command(s).service = s
                         /\ Recording(Command(s)) <=> s \in Commands
BY DEF Click, DoubleClick, Command, Triggers, Clicks, Calls, Recording

\* What is admitted behind the queue and records nothing changes nothing.
LEMMA AdmitQuiet ==
  ASSUME NEW q \in Seq(Triggers), NEW busy \in BOOLEAN, NEW t \in Triggers,
         Len(q) <= MaxRuns, ~Recording(t), NEW w, NEW n, Covers(q, w, n)
  PROVE  Covers(Admitted(q, busy, t), w, n)
<1> DEFINE r == Admitted(q, busy, t)
<1>1. CASE ~Room(q, busy)
  BY <1>1, AdmittedIs
<1>2. CASE Room(q, busy)
  <2>1. /\ Len(r) = Len(q) + 1 /\ r[Len(q) + 1] = t /\ Len(q) \in Nat
        /\ \A i \in 1..Len(q) : r[i] = q[i]
    BY <1>2, AdmittedIs
  <2> HIDE DEF r
  <2>2. ASSUME NEW i \in 1..Len(r), Recording(r[i]),
               \A j \in 1..Len(r) : j > i => ~Recording(r[j])
        PROVE  RecordWindow(r[i].service) >= n
    <3>1. i \in 1..Len(q) /\ r[i] = q[i]
      BY <2>1, <2>2
    <3>2. \A j \in 1..Len(q) : j > i => ~Recording(q[j])
      BY <2>1, <2>2
    <3> QED BY <3>1, <3>2, <2>2 DEF Covers
  <2>3. ASSUME \A i \in 1..Len(r) : ~Recording(r[i])
        PROVE  w = Unknown \/ w >= n
    <3>1. \A i \in 1..Len(q) : ~Recording(q[i])
      BY <2>1, <2>3
    <3> QED BY <3>1 DEF Covers
  <2>4. Covers(r, w, n)
    BY <2>2, <2>3 DEF Covers
  <2> QED BY <2>4 DEF r
<1> QED BY <1>1, <1>2

LEMMA AdmitQuietClicks ==
  ASSUME NEW q \in Seq(Triggers), NEW busy \in BOOLEAN, NEW t \in Triggers,
         Len(q) <= MaxRuns, ~Recording(t)
  PROVE  LET r == Admitted(q, busy, t) IN
         /\ LatestClicks(q) => LatestClicks(r)
         /\ NoLiveClick(q) /\ (t.id = "press" => ~t.moving) => NoLiveClick(r)
<1> DEFINE r == Admitted(q, busy, t)
<1>1. CASE ~Room(q, busy)
  BY <1>1, AdmittedIs
<1>2. CASE Room(q, busy)
  <2>1. /\ Len(r) = Len(q) + 1 /\ r[Len(q) + 1] = t /\ Len(q) \in Nat
        /\ \A i \in 1..Len(q) : r[i] = q[i]
    BY <1>2, AdmittedIs
  <2> HIDE DEF r
  <2>2. LatestClicks(q) => LatestClicks(r)
    BY <2>1 DEF LatestClicks
  <2>3. NoLiveClick(q) /\ (t.id = "press" => ~t.moving) => NoLiveClick(r)
    BY <2>1 DEF NoLiveClick
  <2> QED BY <2>2, <2>3 DEF r
<1> QED BY <1>1, <1>2

\* A command is recorded last, whatever waits before it.
LEMMA AdmitCommand ==
  ASSUME NEW q \in Seq(Triggers), NEW busy \in BOOLEAN, NEW s \in Commands,
         Len(q) <= MaxRuns, Room(q, busy), NEW w, NEW n, RecordWindow(s) >= n
  PROVE  Covers(Admitted(q, busy, Command(s)), w, n)
<1> DEFINE r == Admitted(q, busy, Command(s))
<1>1. s \in Services /\ Command(s) \in Triggers /\ Recording(Command(s))
        /\ Command(s).service = s
  BY TriggerIs DEF Services
<1>2. /\ Len(r) = Len(q) + 1 /\ r[Len(q) + 1] = Command(s) /\ Len(q) \in Nat
      /\ \A i \in 1..Len(q) : r[i] = q[i]
  BY <1>1, AdmittedIs
<1> HIDE DEF r
<1>3. Recording(r[Len(r)]) /\ Len(r) \in 1..Len(r)
  BY <1>1, <1>2
<1>4. ASSUME NEW i \in 1..Len(r), \A j \in 1..Len(r) : j > i => ~Recording(r[j])
      PROVE  i = Len(r)
  BY <1>3, <1>4
<1>5. RecordWindow(r[Len(r)].service) >= n
  BY <1>1, <1>2
<1>6. Covers(r, w, n)
  BY <1>3, <1>4, <1>5 DEF Covers
<1> QED BY <1>6 DEF r

LEMMA AdmitCommandClicks ==
  ASSUME NEW q \in Seq(Triggers), NEW busy \in BOOLEAN, NEW s \in Services,
         Len(q) <= MaxRuns, NoLiveClick(q)
  PROVE  NoLiveClick(Admitted(q, busy, Command(s)))
<1> DEFINE r == Admitted(q, busy, Command(s))
<1>1. Command(s) \in Triggers /\ Command(s).id = "command"
  BY TriggerIs
<1>2. CASE ~Room(q, busy)
  BY <1>1, <1>2, AdmittedIs
<1>3. CASE Room(q, busy)
  <2>1. /\ Len(r) = Len(q) + 1 /\ r[Len(q) + 1] = Command(s) /\ Len(q) \in Nat
        /\ \A i \in 1..Len(q) : r[i] = q[i]
    BY <1>1, <1>3, AdmittedIs
  <2> HIDE DEF r
  <2>2. NoLiveClick(r)
    BY <1>1, <2>1 DEF NoLiveClick
  <2> QED BY <2>2 DEF r
<1> QED BY <1>2, <1>3

LEMMA NoneIsLatest ==
  ASSUME NEW q, NoLiveClick(q)
  PROVE  LatestClicks(q)
BY DEF NoLiveClick, LatestClicks

\* When the head has run, the rest stands behind what it recorded.
LEMMA TailQuiet ==
  ASSUME NEW q \in Seq(Triggers), q # <<>>, ~Recording(Head(q)),
         NEW w, NEW n, Covers(q, w, n)
  PROVE  Covers(Tail(q), w, n)
<1> DEFINE r == Tail(q)
<1>1. /\ r \in Seq(Triggers) /\ Len(r) = Len(q) - 1 /\ Len(q) \in Nat /\ Len(q) > 0
      /\ \A i \in 1..(Len(q) - 1) : r[i] = q[i + 1]
      /\ ~Recording(q[1])
  BY TailIs
<1> HIDE DEF r
<1>2. ASSUME NEW i \in 1..Len(r), Recording(r[i]),
             \A j \in 1..Len(r) : j > i => ~Recording(r[j])
      PROVE  RecordWindow(r[i].service) >= n
  <2>1. i + 1 \in 1..Len(q) /\ r[i] = q[i + 1]
    BY <1>1
  <2>2. ASSUME NEW j \in 1..Len(q), j > i + 1
        PROVE  ~Recording(q[j])
    <3>1. j - 1 \in 1..Len(r) /\ j - 1 > i /\ r[j - 1] = q[j]
      BY <1>1, <2>2
    <3> QED BY <3>1, <1>2
  <2> QED BY <2>1, <2>2, <1>2 DEF Covers
<1>3. ASSUME \A i \in 1..Len(r) : ~Recording(r[i])
      PROVE  w = Unknown \/ w >= n
  <2>1. ASSUME NEW j \in 1..Len(q)
        PROVE  ~Recording(q[j])
    <3>1. CASE j = 1
      BY <3>1, <1>1
    <3>2. CASE j # 1
      <4>1. j - 1 \in 1..Len(r) /\ r[j - 1] = q[j]
        BY <1>1, <3>2
      <4> QED BY <4>1, <1>3
    <3> QED BY <3>1, <3>2
  <2> QED BY <2>1 DEF Covers
<1>4. Covers(r, w, n)
  BY <1>2, <1>3 DEF Covers
<1> QED BY <1>4 DEF r

LEMMA TailRecorded ==
  ASSUME NEW q \in Seq(Triggers), q # <<>>, Recording(Head(q)),
         NEW w, NEW n, Covers(q, w, n)
  PROVE  Covers(Tail(q), RecordWindow(Head(q).service), n)
<1> DEFINE r == Tail(q)
<1>1. /\ r \in Seq(Triggers) /\ Len(r) = Len(q) - 1 /\ Len(q) \in Nat /\ Len(q) > 0
      /\ \A i \in 1..(Len(q) - 1) : r[i] = q[i + 1]
      /\ Recording(q[1]) /\ Head(q) = q[1]
  BY TailIs
<1> HIDE DEF r
<1>2. ASSUME NEW i \in 1..Len(r), Recording(r[i]),
             \A j \in 1..Len(r) : j > i => ~Recording(r[j])
      PROVE  RecordWindow(r[i].service) >= n
  <2>1. i + 1 \in 1..Len(q) /\ r[i] = q[i + 1]
    BY <1>1
  <2>2. ASSUME NEW j \in 1..Len(q), j > i + 1
        PROVE  ~Recording(q[j])
    <3>1. j - 1 \in 1..Len(r) /\ j - 1 > i /\ r[j - 1] = q[j]
      BY <1>1, <2>2
    <3> QED BY <3>1, <1>2
  <2> QED BY <2>1, <2>2, <1>2 DEF Covers
<1>3. ASSUME \A i \in 1..Len(r) : ~Recording(r[i])
      PROVE  RecordWindow(q[1].service) >= n
  <2>1. ASSUME NEW j \in 1..Len(q), j > 1
        PROVE  ~Recording(q[j])
    <3>1. j - 1 \in 1..Len(r) /\ r[j - 1] = q[j]
      BY <1>1, <2>1
    <3> QED BY <3>1, <1>3
  <2>2. 1 \in 1..Len(q)
    BY <1>1
  <2> QED BY <2>1, <2>2, <1>1 DEF Covers
<1>4. Covers(r, RecordWindow(q[1].service), n)
  BY <1>2, <1>3 DEF Covers
<1> QED BY <1>1, <1>4 DEF r

LEMMA TailClicks ==
  ASSUME NEW q \in Seq(Triggers), q # <<>>
  PROVE  /\ LatestClicks(q) => LatestClicks(Tail(q))
         /\ NoLiveClick(q) => NoLiveClick(Tail(q))
<1> DEFINE r == Tail(q)
<1>1. /\ r \in Seq(Triggers) /\ Len(r) = Len(q) - 1 /\ Len(q) \in Nat /\ Len(q) > 0
      /\ \A i \in 1..(Len(q) - 1) : r[i] = q[i + 1]
  BY TailIs
<1> HIDE DEF r
<1>2. ASSUME LatestClicks(q), NEW i \in 1..Len(r), r[i].id = "press", r[i].moving,
             NEW j \in 1..Len(r), j > i
      PROVE  ~Recording(r[j])
  <2>1. /\ i + 1 \in 1..Len(q) /\ r[i] = q[i + 1]
        /\ j + 1 \in 1..Len(q) /\ r[j] = q[j + 1] /\ j + 1 > i + 1
    BY <1>1, <1>2
  <2> QED BY <2>1, <1>2 DEF LatestClicks
<1>3. NoLiveClick(q) => NoLiveClick(r)
  <2>1. \A i \in 1..Len(r) : i + 1 \in 1..Len(q) /\ r[i] = q[i + 1]
    BY <1>1
  <2> QED BY <2>1 DEF NoLiveClick
<1>4. LatestClicks(q) => LatestClicks(r)
  BY <1>2 DEF LatestClicks
<1> QED BY <1>3, <1>4 DEF r

\* A click on the running motor at the head of the queue is answered with the window of
\* the motion it was made on.
LEMMA HeadIsLive ==
  ASSUME NEW q \in Seq(Triggers), q # <<>>, LatestClicks(q),
         Head(q).id = "press", Head(q).moving,
         NEW w, NEW n, Covers(q, w, n)
  PROVE  w = Unknown \/ w >= n
<1>1. Head(q) = q[1] /\ q[1] \in Triggers /\ Len(q) \in Nat /\ Len(q) > 0
  BY TailIs
<1>2. ~Recording(q[1])
  BY <1>1 DEF Recording
<1>3. \A j \in 1..Len(q) : j > 1 => ~Recording(q[j])
  BY <1>1 DEF LatestClicks
<1>4. \A j \in 1..Len(q) : ~Recording(q[j])
  BY <1>1, <1>2, <1>3
<1> QED BY <1>4 DEF Covers

-----------------------------------------------------------------------------
(* Steps.                                                                  *)

Kept(q, b, w, f) ==
  /\ q \in Seq(Triggers) /\ Len(q) <= MaxRuns
  /\ ~b => Covers(q, w, Longest(door, f))
  /\ LatestClicks(q) /\ (b => NoLiveClick(q))

\* A command is noted behind everything that waits, or makes the motor run blind.
LEMMA OrderKeeps ==
  ASSUME NEW q, NEW busy \in BOOLEAN, NEW s \in Services, Order(q, busy, s),
         door \in Doors, flight \in Flights, clock \in Clocks, blind \in BOOLEAN,
         Kept(q, blind, clock, flight)
  PROVE  flight' \in Flights /\ blind' \in BOOLEAN /\ Kept(queue', blind', clock, flight')
<1> USE DEF Kept
<1>1. CASE s \in Commands
  <2> DEFINE o == Overtaken(q)
  <2>1. o \in Seq(Triggers) /\ Len(o) = Len(q) /\ NoLiveClick(o)
    BY OvertakenIs
  <2>2. Room(o, busy) <=> Room(q, busy)
    BY <2>1 DEF Room
  <2>3. /\ queue' = Admitted(o, busy, Command(s))
        /\ flight' = [service |-> s, age |-> 0]
        /\ blind' = ((blind \/ ~Room(q, busy)) /\ s # "stop_cover")
    BY <1>1 DEF Order
  <2>4. flight' \in Flights /\ flight'.service = s
    BY <1>1, <2>3, Ticks DEF Flights
  <2>5. blind' \in BOOLEAN
    BY <2>3
  <2> HIDE DEF o
  <2>6. queue' \in Seq(Triggers) /\ Len(queue') <= MaxRuns
    BY <2>1, <2>3, AdmittedIs, TriggerIs
  <2>7. NoLiveClick(queue') /\ LatestClicks(queue')
    <3>1. NoLiveClick(queue')
      BY <2>1, <2>3, AdmitCommandClicks
    <3> QED BY <3>1, NoneIsLatest
  <2>8. ~blind' => Covers(queue', clock, Longest(door, flight'))
    <3>1. CASE Room(q, busy)
      <4>1. RecordWindow(s) >= Longest(door, flight')
        BY <1>1, <2>4, LongestFits, WindowIs
      <4> QED BY <1>1, <2>1, <2>2, <2>3, <3>1, <4>1, AdmitCommand
    <3>2. CASE ~Room(q, busy) /\ s # "stop_cover"
      BY <2>3, <3>2
    <3>3. CASE s = "stop_cover"
      <4>1. Longest(door, flight') = 0
        BY <2>4, <3>3 DEF Longest
      <4> QED BY <4>1, CoversNothing
    <3> QED BY <3>1, <3>2, <3>3
  <2> QED BY <2>4, <2>5, <2>6, <2>7, <2>8
<1>2. CASE s \notin Commands
  <2>1. /\ queue' = Admitted(q, busy, Command(s)) /\ flight' = flight /\ blind' = blind
    BY <1>2 DEF Order
  <2>2. /\ Command(s) \in Triggers /\ ~Recording(Command(s))
        /\ Command(s).id = "command"
    BY <1>2, TriggerIs
  <2>3. queue' \in Seq(Triggers) /\ Len(queue') <= MaxRuns
    BY <2>1, <2>2, AdmittedIs
  <2>4. LatestClicks(queue') /\ (blind => NoLiveClick(queue'))
    BY <2>1, <2>2, AdmitQuietClicks
  <2>5. ~blind => Covers(queue', clock, Longest(door, flight))
    BY <2>1, <2>2, AdmitQuiet
  <2> QED BY <2>1, <2>3, <2>4, <2>5
<1> QED BY <1>1, <1>2

\* A click is on the running motor only where the motion is recorded.
LEMMA ClickKeeps ==
  ASSUME NEW q, NEW t \in Triggers, t.id = "press", t.moving => ~blind,
         calling \in BOOLEAN, blind \in BOOLEAN, Kept(q, blind, clock, flight)
  PROVE  Kept(Admitted(q, calling, t), blind, clock, flight)
<1>1. ~Recording(t)
  BY DEF Recording
<1>2. Admitted(q, calling, t) \in Seq(Triggers) /\ Len(Admitted(q, calling, t)) <= MaxRuns
  BY AdmittedIs DEF Kept
<1>3. /\ LatestClicks(Admitted(q, calling, t))
      /\ blind => NoLiveClick(Admitted(q, calling, t))
  BY <1>1, AdmitQuietClicks DEF Kept
<1>4. ~blind => Covers(Admitted(q, calling, t), clock, Longest(door, flight))
  BY <1>1, AdmitQuiet DEF Kept
<1> QED BY <1>2, <1>3, <1>4 DEF Kept

\* With every tick the bound is a tick shorter, while the command is on its way as well
\* as while the door travels.
LEMMA TickShortens ==
  ASSUME Tick, door \in Doors, flight \in Flights
  PROVE  /\ door' \in Doors /\ flight' \in Flights
         /\ Longest(door', flight') <=
              (IF Longest(door, flight) > 0 THEN Longest(door, flight) - 1 ELSE 0)
         /\ door'.motor = "still" /\ flight'.service = "none" => Longest(door', flight') = 0
         /\ flight'.service = flight.service
<1>1. Further \in 0..Travel
  BY Ticks DEF Further, Doors, Motors
<1>2. door' \in Doors
  BY <1>1 DEF Tick, Doors, Motors
<1>3. door'.at = Further /\ door'.motor = IF Stopped(Further) THEN "still" ELSE door.motor
  BY DEF Tick, Doors
<1>4. /\ flight' \in Flights /\ flight'.service = flight.service
      /\ flight.service # "none" => flight'.age = flight.age + 1
  BY Ticks DEF Tick, Flights
<1>5. Longest(door', flight') <=
        (IF Longest(door, flight) > 0 THEN Longest(door, flight) - 1 ELSE 0)
  <2>1. CASE flight.service \in {"open_cover", "close_cover"}
    BY <1>4, <2>1, Ticks DEF Longest, Flights
  <2>2. CASE flight.service = "stop_cover"
    BY <1>4, <2>2 DEF Longest
  <2>3. CASE flight.service = "none"
    <3>1. CASE door.motor = "up"
      <4>1. /\ Longest(door, flight) = IF door.at = Travel THEN 1 ELSE Travel - door.at
            /\ door.at \in 0..Travel
        BY <2>3, <3>1 DEF Longest, Doors
      <4>2. CASE door.at >= Travel - 1
        <5>1. Further = Travel
          BY <3>1, <4>1, <4>2, Ticks DEF Further
        <5>2. Longest(door', flight') = 0
          BY <1>3, <1>4, <2>3, <3>1, <5>1 DEF Longest, Stopped
        <5> QED BY <4>1, <4>2, <5>2, Ticks
      <4>3. CASE door.at < Travel - 1
        <5>1. Further = door.at + 1 /\ Further # Travel
          BY <3>1, <4>1, <4>3, Ticks DEF Further
        <5>2. Longest(door', flight') = Travel - (door.at + 1)
          BY <1>3, <1>4, <2>3, <3>1, <5>1 DEF Longest, Stopped
        <5> QED BY <4>1, <4>3, <5>2, Ticks
      <4> QED BY <4>1, <4>2, <4>3, Ticks
    <3>2. CASE door.motor = "down"
      <4>1. /\ Longest(door, flight) = IF door.at = 0 THEN 1 ELSE door.at
            /\ door.at \in 0..Travel
        BY <2>3, <3>2 DEF Longest, Doors
      <4>2. CASE door.at <= 1
        <5>1. Further = 0
          BY <3>2, <4>1, <4>2, Ticks DEF Further
        <5>2. Longest(door', flight') = 0
          BY <1>3, <1>4, <2>3, <3>2, <5>1 DEF Longest, Stopped
        <5> QED BY <4>1, <4>2, <5>2, Ticks
      <4>3. CASE door.at > 1
        <5>1. Further = door.at - 1 /\ Further # 0
          BY <3>2, <4>1, <4>3, Ticks DEF Further
        <5>2. Longest(door', flight') = door.at - 1
          BY <1>3, <1>4, <2>3, <3>2, <5>1 DEF Longest, Stopped
        <5> QED BY <4>1, <4>3, <5>2, Ticks
      <4> QED BY <4>1, <4>2, <4>3, Ticks
    <3>3. CASE door.motor = "still"
      <4>1. Longest(door, flight) = 0 /\ Longest(door', flight') = 0
        BY <1>3, <1>4, <2>3, <3>3 DEF Longest
      <4> QED BY <4>1
    <3> QED BY <3>1, <3>2, <3>3 DEF Doors, Motors
  <2> QED BY <2>1, <2>2, <2>3 DEF Flights, Commands
<1>6. door'.motor = "still" /\ flight'.service = "none" => Longest(door', flight') = 0
  BY <1>2, <1>4 DEF Longest, Doors, Flights
<1> QED BY <1>2, <1>4, <1>5, <1>6

LEMMA ArriveShortens ==
  ASSUME Arrive, door \in Doors, flight \in Flights
  PROVE  /\ door' \in Doors /\ flight' \in Flights
         /\ Longest(door', flight') <= Longest(door, flight)
<1>1. flight.service \in Commands
  BY DEF Arrive, Flights
<1>2. MotorOf(flight.service) \in Motors
  BY <1>1 DEF MotorOf, Commands, Motors
<1>3. door' \in Doors /\ door'.motor = MotorOf(flight.service) /\ door'.at = door.at
  BY <1>2 DEF Arrive, Doors
<1>4. flight' \in Flights /\ flight'.service = "none"
  BY Ticks DEF Arrive, Flights
<1>5. CASE flight.service = "open_cover"
  <2>1. Longest(door, flight) = Latency - flight.age + Travel
    BY <1>5 DEF Longest
  <2>2. Longest(door', flight') = IF door.at = Travel THEN 1 ELSE Travel - door.at
    BY <1>3, <1>4, <1>5 DEF Longest, MotorOf
  <2> QED BY <1>3, <1>4, <2>1, <2>2, Ticks DEF Doors, Flights
<1>6. CASE flight.service = "close_cover"
  <2>1. Longest(door, flight) = Latency - flight.age + Travel
    BY <1>6 DEF Longest
  <2>2. Longest(door', flight') = IF door.at = 0 THEN 1 ELSE door.at
    BY <1>3, <1>4, <1>6 DEF Longest, MotorOf
  <2> QED BY <1>3, <1>4, <2>1, <2>2, Ticks DEF Doors, Flights
<1>7. CASE flight.service = "stop_cover"
  <2>1. Longest(door, flight) = 0 /\ Longest(door', flight') = 0
    BY <1>3, <1>4, <1>7 DEF Longest, MotorOf
  <2> QED BY <1>3, <1>4, <2>1
<1> QED BY <1>1, <1>5, <1>6, <1>7 DEF Commands

LEMMA CycleInit == Init => CycleInv
<1> SUFFICES ASSUME Init PROVE CycleInv
  OBVIOUS
<1>1. Len(queue) = 0 /\ queue \in Seq(Triggers)
  BY DEF Init
<1>2. TypeOK
  <2>1. door \in [at : 0..Travel, motor : Motors, magnet : BOOLEAN]
    <3>1. {0, Travel} \subseteq 0..Travel
      BY Ticks
    <3>2. door.at \in {0, Travel} /\ door.motor = "still" /\ door.magnet = TRUE
      BY DEF Init
    <3>3. door = [at |-> door.at, motor |-> door.motor, magnet |-> door.magnet]
      BY DEF Init
    <3> QED BY <3>1, <3>2, <3>3 DEF Motors
  <2>2. flight \in [service : Commands \cup {"none"}, age : 0..Latency]
    BY Ticks DEF Init
  <2>3. clock \in 0..Window \cup {-1}
    BY Ticks DEF Init, Unknown
  <2>4. left \in [{"press", "other", "loss"} -> Nat]
    BY Ticks DEF Init
  <2>5. last \in [moving : BOOLEAN, did : Commands \cup {"none", "refused"}]
    BY DEF Init
  <2>6. Len(queue) <= MaxRuns
    BY <1>1, Ticks
  <2> QED BY <2>1, <2>2, <2>3, <2>4, <2>5, <2>6 DEF TypeOK, Init
<1>3. Longest(door, flight) = 0
  BY DEF Init, Longest
<1>4. MotionIsRecorded
  BY <1>2, <1>3, CoversNothing DEF MotionIsRecorded, TypeOK, Clocks
<1>5. ClicksAreLive
  BY <1>1 DEF ClicksAreLive, LatestClicks, NoLiveClick
<1>6. PressOnMovingDoorStops
  BY DEF Init, PressOnMovingDoorStops
<1> QED BY <1>1, <1>2, <1>4, <1>5, <1>6 DEF CycleInv

LEMMA InvIs ==
  CycleInv <=>
    /\ door \in Doors /\ flight \in Flights /\ clock \in Clocks
    /\ enabled \in BOOLEAN /\ calling \in BOOLEAN /\ blind \in BOOLEAN
    /\ left \in [{"press", "other", "loss"} -> Nat]
    /\ last \in [moving : BOOLEAN, did : Commands \cup {"none", "refused"}]
    /\ Kept(queue, blind, clock, flight)
    /\ PressOnMovingDoorStops
BY DEF CycleInv, TypeOK, Doors, Flights, Clocks, Kept, MotionIsRecorded, ClicksAreLive

LEMMA SpendKeeps ==
  ASSUME NEW what \in {"press", "other", "loss"}, Spend(what),
         left \in [{"press", "other", "loss"} -> Nat]
  PROVE  left' \in [{"press", "other", "loss"} -> Nat]
BY DEF Spend

\* The answer to a click that was made on a recorded motion which still runs.
LEMMA LiveClickStops ==
  ASSUME door \in Doors, flight \in Flights, clock \in Clocks, Moving,
         clock = Unknown \/ clock >= Longest(door, flight)
  PROVE  Answer \in {"refused", "stop_cover"}
<1>1. CASE clock = Unknown
  BY <1>1 DEF Answer, ReadingsUnknown
<1>2. CASE clock # Unknown
  <2>1. clock > 0
    BY <1>2, MovingTakesTime, LongestFits, Ticks DEF Clocks, Unknown
  <2>2. CASE ReadingsUnknown
    BY <2>2 DEF Answer
  <2>3. CASE ~ReadingsUnknown
    <3>1. IsMoving
      BY <2>1 DEF IsMoving
    <3> QED BY <2>3, <3>1 DEF Answer
  <2> QED BY <2>2, <2>3
<1> QED BY <1>1, <1>2

LEMMA AnswerIs == Answer \in Commands \cup {"refused"}
<1>1. CASE ReadingsUnknown
  BY <1>1 DEF Answer
<1>2. CASE ~ReadingsUnknown /\ IsMoving
  BY <1>2 DEF Answer, Commands
<1>3. CASE ~ReadingsUnknown /\ ~IsMoving
  <2>1. Contact \in {"on", "off"}
    BY <1>3 DEF ReadingsUnknown, Contact
  <2> QED BY <1>3, <2>1 DEF Answer, Commands
<1> QED BY <1>1, <1>2, <1>3

LEMMA CycleStep == CycleInv /\ [Next]_vars => CycleInv'
<1> SUFFICES ASSUME CycleInv, [Next]_vars PROVE CycleInv'
  OBVIOUS
<1>a. /\ door \in Doors /\ flight \in Flights /\ clock \in Clocks
      /\ enabled \in BOOLEAN /\ calling \in BOOLEAN /\ blind \in BOOLEAN
      /\ left \in [{"press", "other", "loss"} -> Nat]
      /\ last \in [moving : BOOLEAN, did : Commands \cup {"none", "refused"}]
      /\ Kept(queue, blind, clock, flight)
      /\ PressOnMovingDoorStops
  BY InvIs
<1>b. SUFFICES /\ door' \in Doors /\ flight' \in Flights /\ clock' \in Clocks
               /\ enabled' \in BOOLEAN /\ calling' \in BOOLEAN /\ blind' \in BOOLEAN
               /\ left' \in [{"press", "other", "loss"} -> Nat]
               /\ last' \in [moving : BOOLEAN, did : Commands \cup {"none", "refused"}]
               /\ Kept(queue, blind, clock, flight)'
               /\ PressOnMovingDoorStops'
  BY DEF CycleInv, TypeOK, Doors, Flights, Clocks, Kept, MotionIsRecorded, ClicksAreLive
<1>c. last' = last => PressOnMovingDoorStops'
  BY <1>a DEF PressOnMovingDoorStops
<1>1. CASE Press
  <2>1. /\ door' = door /\ flight' = flight /\ clock' = clock /\ enabled' = enabled
        /\ calling' = calling /\ blind' = blind /\ last' = last
        /\ queue' = Admitted(queue, calling, Click(Moving /\ ~blind))
        /\ Spend("press")
    BY <1>1 DEF Press
  <2>2. left' \in [{"press", "other", "loss"} -> Nat]
    BY <1>a, <2>1, SpendKeeps
  <2>3. (Moving /\ ~blind) \in BOOLEAN
    OBVIOUS
  <2>4. /\ Click(Moving /\ ~blind) \in Triggers /\ Click(Moving /\ ~blind).id = "press"
        /\ Click(Moving /\ ~blind).moving = (Moving /\ ~blind)
    BY <2>3, TriggerIs
  <2>5. Kept(queue', blind, clock, flight)
    BY <1>a, <2>1, <2>4, ClickKeeps
  <2>6. Kept(queue, blind, clock, flight)'
    BY <2>1, <2>5 DEF Kept
  <2> QED BY <1>a, <1>c, <2>1, <2>2, <2>6
<1>2. CASE PressTwice
  <2>1. /\ door' = door /\ flight' = flight /\ clock' = clock /\ enabled' = enabled
        /\ calling' = calling /\ blind' = blind /\ last' = last
        /\ queue' = Admitted(queue, calling, DoubleClick)
        /\ Spend("press")
    BY <1>2 DEF PressTwice
  <2>2. left' \in [{"press", "other", "loss"} -> Nat]
    BY <1>a, <2>1, SpendKeeps
  <2>3. /\ DoubleClick \in Triggers /\ DoubleClick.id = "press" /\ ~DoubleClick.moving
    BY TriggerIs DEF DoubleClick
  <2>4. Kept(queue', blind, clock, flight)
    BY <1>a, <2>1, <2>3, ClickKeeps
  <2>5. Kept(queue, blind, clock, flight)'
    BY <2>1, <2>4 DEF Kept
  <2> QED BY <1>a, <1>c, <2>1, <2>2, <2>5
<1>3. CASE OtherCommand
  <2>1. /\ door' = door /\ clock' = clock /\ enabled' = enabled
        /\ calling' = calling /\ last' = last /\ Spend("other")
    BY <1>3 DEF OtherCommand
  <2>2. PICK s \in Services : Order(queue, calling, s)
    BY <1>3 DEF OtherCommand
  <2>3. left' \in [{"press", "other", "loss"} -> Nat]
    BY <1>a, <2>1, SpendKeeps
  <2>4. flight' \in Flights /\ blind' \in BOOLEAN /\ Kept(queue', blind', clock, flight')
    BY <1>a, <2>2, OrderKeeps
  <2>5. Kept(queue, blind, clock, flight)'
    BY <2>1, <2>4 DEF Kept
  <2> QED BY <1>a, <1>c, <2>1, <2>3, <2>4, <2>5
<1>4. CASE Record
  <2>1. /\ door' = door /\ flight' = flight /\ enabled' = enabled /\ left' = left
        /\ calling' = calling /\ blind' = blind /\ last' = last
        /\ queue # <<>> /\ queue' = Tail(queue)
        /\ Recording(Head(queue)) /\ clock' = RecordWindow(Head(queue).service)
    BY <1>4 DEF Record, Begin, Rest, Recording
  <2>2. clock' \in Clocks
    BY <2>1, Ticks DEF RecordWindow, Clocks
  <2>3. ~blind => Covers(Tail(queue), clock', Longest(door, flight))
    BY <1>a, <2>1, TailRecorded DEF Kept
  <2>4. LatestClicks(Tail(queue)) /\ (blind => NoLiveClick(Tail(queue)))
    BY <1>a, <2>1, TailClicks DEF Kept
  <2>5. Tail(queue) \in Seq(Triggers) /\ Len(Tail(queue)) <= MaxRuns
    BY <1>a, <2>1, TailIs, Ticks DEF Kept
  <2>6. Kept(queue, blind, clock, flight)'
    BY <2>1, <2>3, <2>4, <2>5 DEF Kept
  <2> QED BY <1>a, <1>c, <2>1, <2>2, <2>6
<1>5. CASE Ignore
  <2>1. /\ door' = door /\ flight' = flight /\ clock' = clock /\ enabled' = enabled
        /\ left' = left /\ calling' = calling /\ blind' = blind /\ last' = last
        /\ queue # <<>> /\ queue' = Tail(queue)
        /\ ~Recording(Head(queue))
    BY <1>5 DEF Ignore, Begin, Rest, Recording
  <2>3. ~blind => Covers(Tail(queue), clock, Longest(door, flight))
    BY <1>a, <2>1, TailQuiet DEF Kept
  <2>4. LatestClicks(Tail(queue)) /\ (blind => NoLiveClick(Tail(queue)))
    BY <1>a, <2>1, TailClicks DEF Kept
  <2>5. Tail(queue) \in Seq(Triggers) /\ Len(Tail(queue)) <= MaxRuns
    BY <1>a, <2>1, TailIs, Ticks DEF Kept
  <2>6. Kept(queue, blind, clock, flight)'
    BY <2>1, <2>3, <2>4, <2>5 DEF Kept
  <2> QED BY <1>a, <1>c, <2>1, <2>6
<1>6. CASE AnswerPress
  <2>1. /\ door' = door /\ clock' = clock /\ enabled' = enabled /\ left' = left
        /\ queue # <<>> /\ Head(queue).id = "press"
        /\ last' = [moving |-> Head(queue).moving /\ Moving, did |-> Answer]
    BY <1>6 DEF AnswerPress, Begin
  <2>2. ~Recording(Head(queue))
    BY <2>1 DEF Recording
  <2>3. Kept(Tail(queue), blind, clock, flight)
    <3>3. ~blind => Covers(Tail(queue), clock, Longest(door, flight))
      BY <1>a, <2>1, <2>2, TailQuiet DEF Kept
    <3>4. LatestClicks(Tail(queue)) /\ (blind => NoLiveClick(Tail(queue)))
      BY <1>a, <2>1, TailClicks DEF Kept
    <3>5. Tail(queue) \in Seq(Triggers) /\ Len(Tail(queue)) <= MaxRuns
      BY <1>a, <2>1, TailIs, Ticks DEF Kept
    <3> QED BY <3>3, <3>4, <3>5 DEF Kept
  <2>4. last' \in [moving : BOOLEAN, did : Commands \cup {"none", "refused"}]
    <3>1. (Head(queue).moving /\ Moving) \in BOOLEAN
      OBVIOUS
    <3> QED BY <2>1, <3>1, AnswerIs
  <2>5. PressOnMovingDoorStops'
    <3>1. ASSUME Head(queue).moving, Moving
          PROVE  Answer \in {"refused", "stop_cover"}
      <4>1. queue \in Seq(Triggers) /\ LatestClicks(queue)
        BY <1>a DEF Kept
      <4>2. Head(queue) = queue[1] /\ 1 \in 1..Len(queue)
        BY <2>1, <4>1, TailIs
      <4>3. ~blind
        BY <1>a, <2>1, <3>1, <4>2 DEF Kept, NoLiveClick
      <4>4. clock = Unknown \/ clock >= Longest(door, flight)
        BY <1>a, <2>1, <3>1, <4>1, <4>3, HeadIsLive DEF Kept
      <4> QED BY <1>a, <3>1, <4>4, LiveClickStops
    <3>2. last'.moving => Head(queue).moving /\ Moving
      BY <2>1
    <3>3. last'.did = Answer
      BY <2>1
    <3> QED BY <3>1, <3>2, <3>3 DEF PressOnMovingDoorStops
  <2>6. CASE Answer = "refused"
    <3>1. /\ queue' = Tail(queue) /\ flight' = flight /\ calling' = calling
          /\ blind' = blind
      BY <1>6, <2>6 DEF AnswerPress, Rest
    <3>2. Kept(queue, blind, clock, flight)'
      BY <2>1, <2>3, <3>1 DEF Kept
    <3> QED BY <1>a, <2>1, <2>4, <2>5, <3>1, <3>2
  <2>7. CASE Answer # "refused"
    <3>1. Order(Tail(queue), TRUE, Answer) /\ calling' = TRUE
      BY <1>6, <2>7 DEF AnswerPress, Rest
    <3>2. Answer \in Services
      BY <2>7, AnswerIs DEF Services
    <3>3. /\ flight' \in Flights /\ blind' \in BOOLEAN
          /\ Kept(queue', blind', clock, flight')
      BY <1>a, <2>3, <3>1, <3>2, OrderKeeps
    <3>4. Kept(queue, blind, clock, flight)'
      BY <2>1, <3>3 DEF Kept
    <3> QED BY <1>a, <2>1, <2>4, <2>5, <3>1, <3>3, <3>4
  <2> QED BY <2>6, <2>7
<1>7. CASE CallReturns
  BY <1>7, <1>a, <1>c DEF CallReturns, Kept
<1>8. CASE Arrive
  <2>1. /\ clock' = clock /\ enabled' = enabled /\ queue' = queue /\ calling' = calling
        /\ blind' = blind /\ left' = left /\ last' = last
    BY <1>8 DEF Arrive
  <2>2. /\ door' \in Doors /\ flight' \in Flights
        /\ Longest(door', flight') <= Longest(door, flight)
    BY <1>8, <1>a, ArriveShortens
  <2>3. Longest(door', flight') \in Nat /\ Longest(door, flight) \in Nat
    BY <1>a, <2>2, LongestFits
  <2>4. ~blind => Covers(queue, clock, Longest(door', flight'))
    BY <1>a, <2>2, <2>3, CoversLess DEF Kept
  <2>5. Kept(queue, blind, clock, flight)'
    BY <1>a, <2>1, <2>4 DEF Kept
  <2> QED BY <1>a, <1>c, <2>1, <2>2, <2>5
<1>9. CASE Tick
  <2>1. /\ enabled' = enabled /\ queue' = queue /\ calling' = calling
        /\ left' = left /\ last' = last
        /\ clock' = IF clock > 0 THEN clock - 1 ELSE clock
        /\ blind' = (blind /\ (door'.motor # "still" \/ flight.service # "none"))
    BY <1>9 DEF Tick
  <2>2. /\ door' \in Doors /\ flight' \in Flights
        /\ Longest(door', flight') <=
             (IF Longest(door, flight) > 0 THEN Longest(door, flight) - 1 ELSE 0)
        /\ door'.motor = "still" /\ flight'.service = "none" => Longest(door', flight') = 0
        /\ flight'.service = flight.service
    BY <1>9, <1>a, TickShortens
  <2>3. Longest(door', flight') \in Nat /\ Longest(door, flight) \in Nat
    BY <1>a, <2>2, LongestFits
  <2>4. clock' \in Clocks
    BY <1>a, <2>1, Ticks DEF Clocks
  <2>5. ~blind' => Covers(queue, clock', Longest(door', flight'))
    <3>1. CASE blind
      <4>1. ~blind' => Longest(door', flight') = 0
        BY <2>1, <2>2, <3>1
      <4> QED BY <2>4, <4>1, CoversNothing
    <3>2. CASE ~blind
      BY <1>a, <2>1, <2>2, <2>3, <3>2, CoversTick DEF Kept
    <3> QED BY <3>1, <3>2
  <2>6. blind' \in BOOLEAN /\ (blind' => blind)
    BY <1>a, <2>1
  <2>7. Kept(queue, blind, clock, flight)'
    BY <1>a, <2>1, <2>5, <2>6 DEF Kept
  <2> QED BY <1>a, <1>c, <2>1, <2>2, <2>4, <2>6, <2>7
<1>10. CASE LoseReading
  <2>1. /\ flight' = flight /\ enabled' = enabled /\ queue' = queue
        /\ calling' = calling /\ blind' = blind /\ last' = last /\ Spend("loss")
    BY <1>10 DEF LoseReading
  <2>2. left' \in [{"press", "other", "loss"} -> Nat]
    BY <1>a, <2>1, SpendKeeps
  <2>3. CASE clock' = Unknown /\ door' = door
    <3>1. clock' \in Clocks
      BY <2>3 DEF Clocks, Unknown
    <3>2. ~blind => Covers(queue, Unknown, Longest(door, flight))
      BY <1>a, CoversUnknown DEF Kept
    <3>3. Kept(queue, blind, clock, flight)'
      BY <1>a, <2>1, <2>3, <3>2 DEF Kept
    <3> QED BY <1>a, <1>c, <2>1, <2>2, <2>3, <3>1, <3>3
  <2>4. CASE door' = [door EXCEPT !.magnet = ~@] /\ clock' = clock
    <3>1. door' \in Doors /\ door'.at = door.at /\ door'.motor = door.motor
      BY <1>a, <2>4 DEF Doors
    <3>2. Longest(door', flight') = Longest(door, flight)
      BY <2>1, <3>1 DEF Longest
    <3>3. Kept(queue, blind, clock, flight)'
      BY <1>a, <2>1, <2>4, <3>2 DEF Kept
    <3> QED BY <1>a, <1>c, <2>1, <2>2, <2>4, <3>1, <3>3
  <2> QED BY <1>10, <2>3, <2>4 DEF LoseReading
<1>11. CASE Restart
  <2>1. /\ door' = door /\ flight' = flight /\ clock' = clock /\ last' = last
        /\ enabled' = FALSE /\ queue' = <<>> /\ calling' = FALSE /\ blind' = Moving
        /\ Spend("loss")
    BY <1>11 DEF Restart
  <2>2. left' \in [{"press", "other", "loss"} -> Nat]
    BY <1>a, <2>1, SpendKeeps
  <2>3. blind' \in BOOLEAN
    BY <2>1 DEF Moving
  <2>4. ~blind' => Covers(<<>>, clock, Longest(door, flight))
    BY <1>a, <2>1, RestTakesNone, CoversNothing
  <2>5. LatestClicks(<<>>) /\ NoLiveClick(<<>>)
    BY DEF LatestClicks, NoLiveClick
  <2>6. <<>> \in Seq(Triggers) /\ Len(<<>>) <= MaxRuns
    BY Ticks
  <2>7. Kept(queue, blind, clock, flight)'
    BY <2>1, <2>4, <2>5, <2>6 DEF Kept
  <2> QED BY <1>a, <1>c, <2>1, <2>2, <2>3, <2>7
<1>12. CASE Enable
  BY <1>12, <1>a, <1>c DEF Enable, Kept
<1>13. CASE UNCHANGED vars
  BY <1>13, <1>a, <1>c DEF vars, Kept
<1> QED
  BY <1>1, <1>2, <1>3, <1>4, <1>5, <1>6, <1>7, <1>8, <1>9, <1>10, <1>11, <1>12, <1>13
     DEF Next

-----------------------------------------------------------------------------
(* Theorems.                                                               *)

\* The invariant: the helper, with what waits to be recorded, lasts as long as the motor
\* can run, unless the motor runs on a command nobody recorded; and a click on a running
\* motor has no command behind it in the queue.
THEOREM CycleInvariant == Spec => []CycleInv
<1>1. CycleInv /\ [Next]_vars => CycleInv'
  BY CycleStep
<1> QED BY <1>1, CycleInit, PTL DEF Spec

\* Every variable keeps its type; beyond "max" no run waits.
THEOREM CycleIsTyped == Spec => []TypeOK
<1>1. CycleInv => TypeOK
  BY DEF CycleInv
<1> QED BY <1>1, CycleInvariant, PTL

\* TRAVEL_WINDOW is long enough: when no run waits, the recorded window outlasts the
\* motor, wherever the door was and whatever was ordered before.
THEOREM WindowIsLongEnough == Spec => []WindowCoversTravel
<1>1. CycleInv => WindowCoversTravel
  <2> SUFFICES ASSUME CycleInv, enabled, queue = <<>>, ~calling, ~blind
               PROVE  clock = Unknown \/ clock >= ToGo
    BY DEF WindowCoversTravel
  <2>1. /\ door \in Doors /\ flight \in Flights /\ clock \in Clocks
        /\ Covers(queue, clock, Longest(door, flight))
    BY InvIs DEF Kept
  <2>2. clock = Unknown \/ clock >= Longest(door, flight)
    BY <2>1 DEF Covers
  <2>3. /\ ToGo <= Longest(door, flight) /\ ToGo \in Int
        /\ Longest(door, flight) \in Nat
    BY <2>1, ExactFits, LongestFits
  <2> QED BY <2>1, <2>2, <2>3, Ticks DEF Clocks, Unknown
<1> QED BY <1>1, CycleInvariant, PTL

\* "A press during the travel window must STOP the door": however many clicks, commands
\* and restarts come between, a click on a motor that runs on a recorded command is
\* never answered with a movement.
THEOREM PressesStopTheDoor == Spec => []PressOnMovingDoorStops
<1>1. CycleInv => PressOnMovingDoorStops
  BY DEF CycleInv
<1> QED BY <1>1, CycleInvariant, PTL

=============================================================================
