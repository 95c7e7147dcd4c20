------------------------ MODULE DoorAutomationProofs ------------------------
(***************************************************************************)
(* Proofs about the door automation, for any length of its queue and any   *)
(* number of cleans, visits and mishaps.                                   *)
(***************************************************************************)
EXTENDS DoorAutomation, FiniteSetTheorems, SequenceTheorems, TLAPS

-----------------------------------------------------------------------------
(* What the proofs rest on.                                                *)

RobotSet == [status : Statuses, was : Statuses, place : Places, task : BOOLEAN, blip : BOOLEAN]
DoorSet == [gap : Gaps, motor : {"still", "up", "down"}, reading : {"below", "full", "unknown"}, magnet : BOOLEAN]
SeenSet == [status : Statuses \cup {"unavailable"}, timer : BOOLEAN,
            outside : {"on", "off", "unknown"}, ended : {"recent", "old"}]
Triggers == {"leave", "return", "park_task", "park_dock"}
Misses == {"no", "dropped", "unread", "echoed", "raised"}
Holders == {"no", "yes", "touched", "raised"}

\* What the robot does, or was doing when it was paused.
Doing == IF robot.status = "paused" THEN robot.was ELSE robot.status

\* A robot whose status is, or was when last seen, that of the dock stands there: it
\* moves on only after a poll.  A robot that cleans has a clean unfinished.
Whereabouts ==
  /\ robot.status = "charging" \/ seen.status = "charging" \/ robot.blip => robot.place = "dock"
  /\ robot.status = "paused" => robot.was \notin {"charging", "paused"}
  /\ robot.blip => Doing = "docking"
  /\ Doing = "cleaning" => robot.task

\* The end of a clean is only recent while none is under way.
EndIsMarked == seen.ended = "recent" => ~robot.task

\* Every departure trigger stands for a real departure that no run has paused yet, and
\* so does a robot outside that was last seen inside.
Leaves(q) == {i \in 1..Len(q) : q[i] = "leave"}
Unseen == IF seen.outside = "off" /\ robot.place = "out" THEN 1 ELSE 0
DeparturesAreReal == Cardinality(Leaves(queue)) + Unseen <= spare

\* While the departure run has a paused robot in its care, the robot is seen paused or
\* not at all.
InCare ==
  held = "yes" /\ robot.status = "paused" =>
    \/ run.pc = "pausing"
    \/ run.pc \in {"leave_shut", "leave_settle", "resuming"} /\ seen.status \in {"paused", "unavailable"}
    \/ "warning" \in said

\* Before its first clean the robot stays on its dock and has nothing queued but what a
\* blip of its status triggers.
StillDocked ==
  count["clean"] = 0 =>
    /\ robot.place = "dock" /\ robot.status \in {"charging", "docking"} /\ ~robot.task
    /\ robot.status = "docking" => robot.blip
    /\ seen.ended = "old" /\ seen.outside # "on"
    /\ \A i \in 1..Len(queue) : queue[i] \in {"park_task", "park_dock"}
    /\ run.pc = "idle"

-----------------------------------------------------------------------------
(* The queue. *)

\* What the limit lets through of new triggers goes behind those that wait.
LEMMA QueuedIs ==
  ASSUME NEW ts \in Seq(Triggers), queue \in Seq(Triggers), Len(queue) <= MaxRuns, MaxRuns \in Nat
  PROVE  LET q == Queued(ts)
         IN  /\ q \in Seq(Triggers) /\ Len(q) <= MaxRuns
             /\ Len(queue) <= Len(q) /\ Len(q) <= Len(queue) + Len(ts)
             /\ \A i \in 1..Len(queue) : q[i] = queue[i]
             /\ \A i \in (Len(queue) + 1)..Len(q) : q[i] = ts[i - Len(queue)]
<1> DEFINE taken == IF Running THEN 1 ELSE 0
           room == MaxRuns - Len(queue) - taken
           n == IF Len(ts) < room THEN Len(ts) ELSE room
           s == SubSeq(ts, 1, n)
           q == queue \o s
<1>1. Len(queue) \in Nat /\ Len(ts) \in Nat
  BY LenProperties
<1>2. room \in Int /\ room <= MaxRuns - Len(queue) /\ n \in Int /\ n <= Len(ts) /\ n <= room
  <2>1. taken \in {0, 1}
    OBVIOUS
  <2> HIDE DEF taken
  <2>2. room \in Int /\ room <= MaxRuns - Len(queue)
    BY <1>1, <2>1
  <2> HIDE DEF room
  <2> QED
    BY <1>1, <2>2
<1> HIDE DEF taken, room, n
<1>3. \A i \in 1..n : ts[i] \in Triggers
  BY <1>1, <1>2, ElementOfSeq
<1>4. /\ s \in Seq(Triggers) /\ Len(s) = IF 1 <= n THEN n - 1 + 1 ELSE 0
      /\ \A i \in 1..(n - 1 + 1) : s[i] = ts[1 + i - 1]
  BY <1>2, <1>3, SubSeqProperties
<1> HIDE DEF s
<1>5. /\ q \in Seq(Triggers) /\ Len(q) = Len(queue) + Len(s)
      /\ \A i \in 1..(Len(queue) + Len(s)) : q[i] = IF i <= Len(queue) THEN queue[i] ELSE s[i - Len(queue)]
  BY <1>4, ConcatProperties
<1>6. Len(s) \in Nat /\ Len(s) <= Len(ts) /\ Len(queue) + Len(s) <= MaxRuns
  BY <1>1, <1>2, <1>4
<1>7. \A i \in 1..Len(s) : s[i] = ts[i]
  BY <1>2, <1>4, <1>6
<1>8. Queued(ts) = q
  BY DEF Queued, q, s, n, room, taken
<1> HIDE DEF q
<1>9. /\ Len(queue) <= Len(q) /\ Len(q) <= Len(queue) + Len(ts) /\ Len(q) <= MaxRuns
  BY <1>1, <1>5, <1>6
<1>10. \A i \in 1..Len(queue) : q[i] = queue[i]
  BY <1>1, <1>5, <1>6
<1>11. \A i \in (Len(queue) + 1)..Len(q) : q[i] = ts[i - Len(queue)]
  <2> SUFFICES ASSUME NEW i \in (Len(queue) + 1)..Len(q) PROVE q[i] = ts[i - Len(queue)]
    OBVIOUS
  <2>1. i \in 1..(Len(queue) + Len(s)) /\ ~(i <= Len(queue)) /\ i - Len(queue) \in 1..Len(s)
    BY <1>1, <1>5, <1>6
  <2> QED
    BY <1>5, <1>7, <2>1
<1> QED
  BY <1>5, <1>8, <1>9, <1>10, <1>11

LEMMA LeavesAreFinite ==
  ASSUME NEW q \in Seq(Triggers)
  PROVE  /\ Leaves(q) \subseteq 1..Len(q) /\ IsFiniteSet(Leaves(q))
         /\ Cardinality(Leaves(q)) \in Nat
<1>1. Len(q) \in Int
  BY LenProperties
<1>2. IsFiniteSet(1..Len(q)) /\ Leaves(q) \in SUBSET (1..Len(q))
  BY <1>1, FS_Interval DEF Leaves
<1> QED
  BY <1>2, FS_Subset, FS_CardinalityType

\* New triggers bring as many departures as there are among them.
LEMMA LeavesGrow ==
  ASSUME NEW ts \in Seq(Triggers), queue \in Seq(Triggers), Len(queue) <= MaxRuns, MaxRuns \in Nat
  PROVE  /\ (\A i \in 1..Len(ts) : ts[i] # "leave") => Leaves(Queued(ts)) = Leaves(queue)
         /\ Len(ts) <= 1 => Cardinality(Leaves(Queued(ts))) <= Cardinality(Leaves(queue)) + 1
<1> DEFINE q == Queued(ts)
<1>1. /\ q \in Seq(Triggers)
      /\ Len(queue) <= Len(q) /\ Len(q) <= Len(queue) + Len(ts)
      /\ \A i \in 1..Len(queue) : q[i] = queue[i]
      /\ \A i \in (Len(queue) + 1)..Len(q) : q[i] = ts[i - Len(queue)]
  BY QueuedIs
<1> HIDE DEF q
<1>2. Len(queue) \in Nat /\ Len(ts) \in Nat /\ Len(q) \in Nat
  BY <1>1, LenProperties
<1>3. ASSUME \A i \in 1..Len(ts) : ts[i] # "leave" PROVE Leaves(q) = Leaves(queue)
  <2>1. \A i \in (Len(queue) + 1)..Len(q) : q[i] # "leave"
    <3> SUFFICES ASSUME NEW i \in (Len(queue) + 1)..Len(q) PROVE q[i] # "leave"
      OBVIOUS
    <3>1. i - Len(queue) \in 1..Len(ts)
      BY <1>1, <1>2
    <3> QED
      BY <1>1, <1>3, <3>1
  <2>2. \A i \in 1..Len(q) : i \in 1..Len(queue) \/ i \in (Len(queue) + 1)..Len(q)
    BY <1>1, <1>2
  <2>3. \A i \in 1..Len(queue) : i \in 1..Len(q)
    BY <1>1, <1>2
  <2> QED
    BY <1>1, <2>1, <2>2, <2>3 DEF Leaves
<1>4. ASSUME Len(ts) <= 1 PROVE Cardinality(Leaves(q)) <= Cardinality(Leaves(queue)) + 1
  <2>1. \A i \in 1..Len(q) : i \in 1..Len(queue) \/ i = Len(queue) + 1
    BY <1>1, <1>2, <1>4
  <2>2. Leaves(q) \subseteq Leaves(queue) \cup {Len(queue) + 1}
    BY <1>1, <2>1 DEF Leaves
  <2>3. /\ IsFiniteSet(Leaves(queue) \cup {Len(queue) + 1})
        /\ Cardinality(Leaves(queue) \cup {Len(queue) + 1}) =
             IF Len(queue) + 1 \in Leaves(queue) THEN Cardinality(Leaves(queue))
             ELSE Cardinality(Leaves(queue)) + 1
    BY LeavesAreFinite, FS_AddElement
  <2>4. Cardinality(Leaves(q)) <= Cardinality(Leaves(queue) \cup {Len(queue) + 1})
    BY <2>2, <2>3, FS_Subset
  <2>5. Cardinality(Leaves(q)) \in Nat /\ Cardinality(Leaves(queue)) \in Nat
    BY <1>1, LeavesAreFinite
  <2> QED
    BY <2>3, <2>4, <2>5
<1> QED
  BY <1>3, <1>4 DEF q

\* A departure that a run takes up is one less.
LEMMA LeavesShrink ==
  ASSUME NEW q \in Seq(Triggers), q # <<>>
  PROVE  /\ Tail(q) \in Seq(Triggers) /\ Len(Tail(q)) <= Len(q)
         /\ Cardinality(Leaves(Tail(q))) =
              IF Head(q) = "leave" THEN Cardinality(Leaves(q)) - 1 ELSE Cardinality(Leaves(q))
<1>1. /\ Tail(q) \in Seq(Triggers) /\ Len(Tail(q)) = Len(q) - 1 /\ Len(q) \in Nat /\ Len(q) > 0
      /\ \A i \in 1..Len(Tail(q)) : Tail(q)[i] = q[i + 1]
      /\ Head(q) = q[1]
  BY HeadTailProperties, LenProperties, EmptySeq
<1> DEFINE f == [i \in Leaves(Tail(q)) |-> i + 1]
<1>2. Leaves(Tail(q)) \subseteq 1..(Len(q) - 1) /\ Leaves(q) \subseteq 1..Len(q)
  BY <1>1 DEF Leaves
<1>3. \A i \in Leaves(Tail(q)) : i + 1 \in Leaves(q) \ {1}
  BY <1>1, <1>2 DEF Leaves
<1>4. \A j \in Leaves(q) \ {1} : j - 1 \in Leaves(Tail(q)) /\ (j - 1) + 1 = j
  <2> SUFFICES ASSUME NEW j \in Leaves(q), j # 1 PROVE j - 1 \in Leaves(Tail(q)) /\ (j - 1) + 1 = j
    OBVIOUS
  <2>1. j \in 1..Len(q) /\ q[j] = "leave"
    BY DEF Leaves
  <2>2. j - 1 \in 1..Len(Tail(q)) /\ (j - 1) + 1 = j
    BY <1>1, <2>1
  <2>3. Tail(q)[j - 1] = q[j]
    BY <1>1, <2>2
  <2> QED
    BY <2>1, <2>2, <2>3 DEF Leaves
<1>5. \A i, j \in Leaves(Tail(q)) : i + 1 = j + 1 => i = j
  BY <1>2, <1>1
<1>6. f \in Bijection(Leaves(Tail(q)), Leaves(q) \ {1})
  <2>1. f \in [Leaves(Tail(q)) -> Leaves(q) \ {1}]
    BY <1>3
  <2>2. \A i, j \in Leaves(Tail(q)) : f[i] = f[j] => i = j
    BY <1>5
  <2>3. \A j \in Leaves(q) \ {1} : \E i \in Leaves(Tail(q)) : f[i] = j
    BY <1>4
  <2> QED
    BY <2>1, <2>2, <2>3 DEF Bijection, Injection, IsInjective, Surjection
<1>7. ExistsBijection(Leaves(Tail(q)), Leaves(q) \ {1})
  BY <1>6 DEF ExistsBijection
<1>8. Cardinality(Leaves(q) \ {1}) = Cardinality(Leaves(Tail(q)))
  BY <1>1, <1>7, FS_Bijection, LeavesAreFinite
<1>9. Cardinality(Leaves(q) \ {1}) =
        IF 1 \in Leaves(q) THEN Cardinality(Leaves(q)) - 1 ELSE Cardinality(Leaves(q))
  BY LeavesAreFinite, FS_RemoveElement
<1>10. 1 \in Leaves(q) <=> Head(q) = "leave"
  BY <1>1 DEF Leaves
<1> QED
  BY <1>1, <1>8, <1>9, <1>10

LEMMA NewTriggers ==
  /\ \A old, new : /\ ParkTriggers(old, new) \in Seq(Triggers)
                   /\ \A i \in 1..Len(ParkTriggers(old, new)) :
                        ParkTriggers(old, new)[i] \in {"park_task", "park_dock"}
  /\ \A old, new : /\ LeaveTriggers(old, new) \in Seq(Triggers) /\ Len(LeaveTriggers(old, new)) <= 1
                   /\ ~(old = "off" /\ new = "on") => LeaveTriggers(old, new) = <<>>
  /\ <<"return">> \in Seq(Triggers) /\ Len(<<"return">>) = 1 /\ <<"return">>[1] = "return"
<1> DEFINE P == {"park_task", "park_dock"}
<1>1. ASSUME NEW a \in {<<"park_task">>, <<>>}, NEW b \in {<<"park_dock">>, <<>>}
      PROVE  a \o b \in Seq(Triggers) /\ \A i \in 1..Len(a \o b) : (a \o b)[i] \in P
  <2>1. a \in Seq(P) /\ b \in Seq(P) /\ a \in Seq(Triggers) /\ b \in Seq(Triggers)
    <3>1. /\ <<"park_task">> \in Seq(P) /\ <<"park_dock">> \in Seq(P)
          /\ <<"park_task">> \in Seq(Triggers) /\ <<"park_dock">> \in Seq(Triggers)
      BY DEF Triggers
    <3>2. <<>> \in Seq(P) /\ <<>> \in Seq(Triggers)
      BY EmptySeq
    <3> QED
      BY <3>1, <3>2
  <2>2. a \o b \in Seq(P) /\ a \o b \in Seq(Triggers)
    BY <2>1, ConcatProperties
  <2> QED
    BY <2>2, ElementOfSeq
<1>2. ASSUME NEW old, NEW new
      PROVE  /\ ParkTriggers(old, new) \in Seq(Triggers)
             /\ \A i \in 1..Len(ParkTriggers(old, new)) : ParkTriggers(old, new)[i] \in P
  <2> DEFINE a == IF TriggerMatches({"on", "unknown"}, {"off"}, TaskOf(old), TaskOf(new))
                  THEN <<"park_task">> ELSE <<>>
             b == IF TriggerMatches({"cleaning", "returning", "paused", "unavailable"},
                                    {"docked"}, VacuumOf(old), VacuumOf(new))
                  THEN <<"park_dock">> ELSE <<>>
  <2>1. a \in {<<"park_task">>, <<>>} /\ b \in {<<"park_dock">>, <<>>}
    OBVIOUS
  <2>2. ParkTriggers(old, new) = a \o b
    BY DEF ParkTriggers
  <2> HIDE DEF a, b
  <2> QED
    BY <1>1, <2>1, <2>2
<1>3. ASSUME NEW old, NEW new
      PROVE  /\ LeaveTriggers(old, new) \in Seq(Triggers) /\ Len(LeaveTriggers(old, new)) <= 1
             /\ ~(old = "off" /\ new = "on") => LeaveTriggers(old, new) = <<>>
  <2>1. <<"leave">> \in Seq(Triggers) /\ Len(<<"leave">>) = 1
    BY DEF Triggers
  <2>2. <<>> \in Seq(Triggers) /\ Len(<<>>) = 0
    BY EmptySeq
  <2>3. LeaveTriggers(old, new) = <<>> \/ (LeaveTriggers(old, new) = <<"leave">> /\ old = "off" /\ new = "on")
    BY DEF LeaveTriggers, TriggerMatches
  <2>4. CASE LeaveTriggers(old, new) = <<>>
    BY <2>2, <2>4
  <2>5. CASE LeaveTriggers(old, new) = <<"leave">> /\ old = "off" /\ new = "on"
    BY <2>1, <2>5
  <2> QED
    BY <2>3, <2>4, <2>5
<1>4. <<"return">> \in Seq(Triggers) /\ Len(<<"return">>) = 1 /\ <<"return">>[1] = "return"
  BY DEF Triggers
<1> QED
  BY <1>2, <1>3, <1>4

-----------------------------------------------------------------------------
(* The conditions. *)

LEMMA WhatHolds == ASSUME NEW e, NEW states, NEW t PROVE Holds(Is(e, states), t) <=> Reading(e, t) \in states
<1> DEFINE c == Is(e, states)
<1>1. c.entity = e /\ c.is = states /\ c.negated = FALSE
  BY DEF Is
<1> HIDE DEF c
<1>2. Holds(c, t) <=> Reading(e, t) \in states
  <2> DEFINE r == Reading(e, t) \in states
  <2>1. Holds(c, t) = (r # FALSE)
    BY <1>1, Zenon DEF Holds
  <2>2. r \in BOOLEAN
    OBVIOUS
  <2> HIDE DEF r
  <2>3. (r # FALSE) <=> r
    BY <2>2
  <2>4. Holds(c, t) <=> r
    BY <2>1, <2>3
  <2> QED
    BY <2>4 DEF r
<1> QED
  BY <1>2 DEF c

LEMMA LeaveTells == ASSUME NEW t, Fires(LeaveConditions, t) PROVE t = "leave"
<1>1. Holds(Is("trigger", {"leave"}), t)
  BY DEF Fires, LeaveConditions
<1> QED
  BY <1>1, WhatHolds DEF Reading

LEMMA ReturnTells == ASSUME NEW t, Fires(ReturnConditions, t) PROVE t = "return"
<1>1. Holds(Is("trigger", {"return"}), t)
  BY DEF Fires, ReturnConditions
<1> QED
  BY <1>1, WhatHolds DEF Reading

LEMMA RechecksTell ==
  ASSUME NEW t, Fires(ParkRechecks, t) PROVE TaskOf(seen.status) = "off" /\ seen.ended = "recent"
<1>1. Holds(TaskOff, t) /\ Holds(TaskReallyEnded, t)
  BY DEF Fires, ParkRechecks
<1>2. TaskOf(seen.status) = "off"
  BY <1>1, WhatHolds DEF TaskOff, Reading
<1>3. seen.ended = "recent"
  BY <1>1, WhatHolds DEF TaskReallyEnded, Reading
<1> QED
  BY <1>2, <1>3

LEMMA ParkTells == ASSUME NEW t, Fires(ParkConditions, t) PROVE seen.ended = "recent"
<1>1. Fires(ParkRechecks, t)
  BY DEF Fires, ParkConditions
<1> QED
  BY <1>1, RechecksTell

-----------------------------------------------------------------------------
(* What the steps leave alone. *)

\* An order moves the door as it says or not at all, and goes on or ends the run.
LEMMA OrderFrame ==
  ASSUME NEW action, NEW next, NEW pc \in Pcs, Order(action, next, pc)
  PROVE  /\ UNCHANGED <<robot, seen, spare, said>>
         /\ UNCHANGED count \/ Bump("mishap", MaxMishaps)
         /\ door' \in {door, next}
         /\ \E c \in Pcs, waited \in BOOLEAN :
              run' = [run EXCEPT !.pc = c] \/ run' = [pc |-> c, waited |-> waited]
BY DEF Order, Raised, Goto, Waited, Pcs

\* Of the steps of a run only the resume moves the robot.
LEMMA StepFrame ==
  ASSUME Step
  PROVE  /\ UNCHANGED <<seen, missed, spare>>
         /\ UNCHANGED count \/ Bump("mishap", MaxMishaps)
         /\ UNCHANGED robot \/ LeaveResume
         /\ UNCHANGED held \/ LeaveResume \/ (held = "yes" /\ held' = "raised")
         /\ run.pc # "idle"
         /\ said \subseteq said' /\ said' \subseteq said \cup Alerts
         /\ door' \in {door, Closing}
         /\ \E pc \in Pcs, waited \in BOOLEAN :
              run' = [run EXCEPT !.pc = pc] \/ run' = [pc |-> pc, waited |-> waited]
<1>1. CASE LeavePaused
  <2>1. Order("close", Closing, "leave_shut") /\ "leave_shut" \in Pcs
    BY <1>1 DEF LeavePaused, Pcs
  <2> QED
    BY <1>1, <2>1, OrderFrame DEF LeavePaused, At
<1>2. CASE LeaveNotPaused
  BY <1>2 DEF LeaveNotPaused, At, EndWith, Waited, Alert, World, Pcs, Alerts
<1>3. CASE LeaveShutWait \/ ParkShutWait
  <2>1. DoorShut \in BOOLEAN
    BY DEF DoorShut
  <2> QED
    BY <1>3, <2>1 DEF LeaveShutWait, ParkShutWait, ShutWait, At, Waited, World, Pcs
<1>4. CASE LeaveNotShut
  BY <1>4 DEF LeaveNotShut, At, EndWith, Waited, Alert, World, Pcs, Alerts
<1>5. CASE LeaveResume
  BY <1>5 DEF LeaveResume, At, Goto, Pcs
<1>6. CASE LeaveResumed
  BY <1>6 DEF LeaveResumed, At, End, Waited, World, Pcs
<1>7. CASE LeaveNotResumed
  BY <1>7 DEF LeaveNotResumed, At, EndWith, Waited, Alert, World, Pcs, Alerts
<1>8. CASE ReturnSettled
  BY <1>8 DEF ReturnSettled, At, Goto, World, Pcs
<1>9. CASE ReturnOpen
  BY <1>9 DEF ReturnOpen, At, End, Waited, World, Pcs
<1>10. CASE ReturnNotOpen
  BY <1>10 DEF ReturnNotOpen, At, EndWith, Waited, Alert, World, Pcs, Alerts
<1>11. CASE ParkRecheck
  BY <1>11 DEF ParkRecheck, At, End, EndWith, Waited, Alert, World, Pcs, Alerts
<1>12. CASE ParkClose
  <2>1. Order("close", Closing, "park_shut") /\ "park_shut" \in Pcs
    BY <1>12 DEF ParkClose, Pcs
  <2> QED
    BY <1>12, <2>1, OrderFrame DEF ParkClose, At
<1>13. CASE ParkSettled
  BY <1>13 DEF ParkSettled, At, End, EndWith, Waited, Alert, World, Pcs, Alerts
<1> QED
  BY <1>1, <1>2, <1>3, <1>4, <1>5, <1>6, <1>7, <1>8, <1>9, <1>10, <1>11, <1>12, <1>13 DEF Step

\* A run that begins takes up the first trigger.
Begins == BeginLeave \/ BeginReturn \/ BeginPark \/ BeginNothing

LEMMA BeginFrame ==
  ASSUME Begins, run \in [pc : Pcs, waited : BOOLEAN]
  PROVE  /\ run.pc = "idle" /\ queue # <<>> /\ queue' = Tail(queue)
         /\ UNCHANGED seen
         /\ UNCHANGED count \/ Bump("mishap", MaxMishaps)
         /\ missed' \in {missed, "unread", "echoed", "raised"}
         /\ \/ UNCHANGED <<robot, spare, held, said>>
            \/ /\ BeginLeave /\ Head(queue) = "leave" /\ spare' = spare - 1
               /\ \/ run'.pc = "pausing" /\ said' = {}
                  \/ run'.pc = "idle" /\ said' = said
               /\ \/ /\ robot.status \notin {"charging", "paused"}
                     /\ robot' = [robot EXCEPT !.status = "paused", !.was = robot.status]
                     /\ held' = IF run'.pc = "idle" THEN "raised" ELSE "yes"
                  \/ UNCHANGED <<robot, held>>
         /\ door' \in {door, Opening}
         /\ \E pc \in Pcs, waited \in BOOLEAN :
              run' = run \/ run' = [run EXCEPT !.pc = pc] \/ run' = [pc |-> pc, waited |-> waited]
<1>1. CASE BeginLeave
  <2>1. Head(queue) = "leave"
    BY <1>1, LeaveTells DEF BeginLeave
  <2>2. Goto("pausing") => run'.pc = "pausing"
    BY DEF Goto
  <2>3. Raised("pause") => run'.pc = "idle" /\ Bump("mishap", MaxMishaps)
    BY DEF Raised, Waited
  <2>4. /\ run.pc = "idle" /\ queue # <<>> /\ queue' = Tail(queue)
        /\ UNCHANGED <<door, seen, missed>> /\ spare' = spare - 1
    BY <1>1 DEF BeginLeave, Begin, Running
  <2>5. /\ \/ Goto("pausing") /\ said' = {} /\ UNCHANGED count
           \/ Raised("pause") /\ UNCHANGED said
        /\ \/ /\ robot.status \notin {"charging", "paused"}
              /\ robot' = [robot EXCEPT !.status = "paused", !.was = robot.status]
              /\ held' = IF run'.pc = "idle" THEN "raised" ELSE "yes"
           \/ UNCHANGED <<robot, held>>
    BY <1>1 DEF BeginLeave, Died
  <2>6. \E pc \in Pcs, waited \in BOOLEAN :
          run' = run \/ run' = [run EXCEPT !.pc = pc] \/ run' = [pc |-> pc, waited |-> waited]
    BY <2>5 DEF Goto, Raised, Waited, Pcs
  <2> QED
    BY <1>1, <2>1, <2>2, <2>3, <2>4, <2>5, <2>6
<1>2. CASE BeginReturn
  <2>1. Order("open", Opening, "open_settle") /\ "open_settle" \in Pcs
    BY <1>2 DEF BeginReturn, Pcs
  <2> QED
    BY <1>2, <2>1, OrderFrame DEF BeginReturn, Begin, Running
<1>3. CASE BeginPark
  BY <1>3 DEF BeginPark, Begin, Running, Goto, World, Pcs
<1>4. CASE BeginNothing
  BY <1>4 DEF BeginNothing, Begin, Running, World, Pcs
<1> QED
  BY <1>1, <1>2, <1>3, <1>4 DEF Begins

-----------------------------------------------------------------------------
(* The types. *)

LEMMA TypesAre ==
  TypeOK <=>
    /\ robot \in RobotSet /\ door \in DoorSet /\ seen \in SeenSet
    /\ queue \in Seq(Triggers) /\ Len(queue) <= MaxRuns
    /\ run \in [pc : Pcs, waited : BOOLEAN] /\ count \in [Bounded -> Nat]
    /\ spare \in Int /\ missed \in Misses
    /\ held \in Holders /\ said \subseteq Alerts
BY DEF TypeOK, RobotSet, DoorSet, SeenSet, Triggers, Misses, Holders

LEMMA RunsAreBounded == MaxRuns \in Nat
BY AutomationAssumption

LEMMA AutomationBegins == Init => TypeOK
<1> SUFFICES ASSUME Init PROVE TypeOK
  OBVIOUS
<1>1. robot \in RobotSet
  BY DEF Init, RobotSet, Statuses, CleaningStates, ReturnStates, Places
<1>2. door \in DoorSet
  BY DEF Init, DoorSet, Gaps
<1>3. seen \in SeenSet
  BY DEF Init, SeenSet, Statuses
<1>4. queue \in Seq(Triggers) /\ Len(queue) <= MaxRuns
  BY EmptySeq, RunsAreBounded DEF Init
<1>5. run \in [pc : Pcs, waited : BOOLEAN] /\ count \in [Bounded -> Nat]
  BY DEF Init, Pcs
<1>6. spare \in Int /\ missed \in Misses /\ held \in Holders /\ said \subseteq Alerts
  BY DEF Init, Misses, Holders
<1> QED
  BY <1>1, <1>2, <1>3, <1>4, <1>5, <1>6, TypesAre

LEMMA Counted ==
  ASSUME TypeOK, NEW e \in Bounded, NEW bound, Bump(e, bound)
  PROVE  /\ count' \in [Bounded -> Nat]
         /\ \A d \in Bounded : count'[d] = 0 => count[d] = 0
         /\ e = "mishap" => count'["clean"] = count["clean"]
BY DEF TypeOK, Bump, Bounded

\* The records that the environment makes of the robot, and a run of the door.
LEMMA RobotChanges ==
  ASSUME NEW r \in RobotSet
  PROVE  /\ \A s \in Statuses, t \in BOOLEAN : [r EXCEPT !.status = s, !.task = t] \in RobotSet
         /\ \A s \in Statuses, t \in BOOLEAN : [r EXCEPT !.status = s, !.blip = t] \in RobotSet
         /\ \A s \in Statuses, w \in Statuses : [r EXCEPT !.status = s, !.was = w] \in RobotSet
         /\ \A s \in Statuses : [r EXCEPT !.status = s] \in RobotSet
         /\ \A p \in Places : [r EXCEPT !.place = p] \in RobotSet
         /\ \A p \in Places, s \in Statuses : [r EXCEPT !.place = p, !.status = s] \in RobotSet
BY DEF RobotSet

LEMMA StatusNames ==
  /\ {"charging", "paused", "cleaning", "returning_home", "docking", "going_to_wash_the_mop"} = Statuses
  /\ "cleaning" \notin ReturnStates /\ "charging" \notin ReturnStates /\ "paused" \notin ReturnStates
  /\ "docking" \in ReturnStates
BY DEF Statuses, CleaningStates, ReturnStates

LEMMA DoorChanges ==
  ASSUME NEW d \in DoorSet
  PROVE  /\ [d EXCEPT !.motor = "up", !.reading = "full"] \in DoorSet
         /\ [d EXCEPT !.motor = "down", !.reading = "below"] \in DoorSet
         /\ [d EXCEPT !.magnet = FALSE] \in DoorSet
         /\ [d EXCEPT !.reading = "unknown"] \in DoorSet
         /\ [d EXCEPT !.gap = "ajar"] \in DoorSet
         /\ \A gap \in Gaps : [d EXCEPT !.gap = gap, !.motor = "still",
                                  !.reading = IF gap = "open" THEN "full" ELSE "below"] \in DoorSet
BY DEF DoorSet, Gaps

LEMMA QueueGrows ==
  ASSUME TypeOK, NEW ts \in Seq(Triggers), queue' = Queued(ts)
  PROVE  queue' \in Seq(Triggers) /\ Len(queue') <= MaxRuns
BY QueuedIs, TypesAre, RunsAreBounded

LEMMA RunTypes ==
  ASSUME run \in [pc : Pcs, waited : BOOLEAN],
         \E pc \in Pcs, waited \in BOOLEAN :
           run' = run \/ run' = [run EXCEPT !.pc = pc] \/ run' = [pc |-> pc, waited |-> waited]
  PROVE  run' \in [pc : Pcs, waited : BOOLEAN]
OBVIOUS

\* What moves the robot without the automation.
Roams ==
  \/ StartClean \/ LeaveDock \/ Finish \/ WashMop \/ Depart \/ Travel
  \/ Wander \/ BlipStart \/ BlipEnd \/ Touch

LEMMA RoamTypes == ASSUME TypeOK, Roams PROVE TypeOK'
<1>1. robot \in RobotSet /\ seen \in SeenSet /\ spare \in Int /\ robot.was \in Statuses
  BY TypesAre DEF RobotSet
<1> DEFINE Good == /\ robot' \in RobotSet /\ UNCHANGED <<door, queue, run, missed>> /\ said' \subseteq said
                   /\ spare' \in Int /\ (held' = held \/ held' = "touched")
                   /\ seen' = seen \/ seen' = [seen EXCEPT !.ended = "recent"]
                   /\ UNCHANGED count \/ \E e \in Bounded, bound \in Nat : Bump(e, bound)
<1>2. /\ {"clean", "visit", "mishap"} = Bounded
      /\ MaxCleans \in Nat /\ MaxVisits \in Nat /\ MaxMishaps \in Nat
  BY AutomationAssumption DEF Bounded
<1>3. ASSUME StartClean PROVE Good
  BY <1>1, <1>2, <1>3, RobotChanges, StatusNames DEF StartClean, RobotSteps
<1>4. ASSUME LeaveDock PROVE Good
  BY <1>1, <1>4, RobotChanges, StatusNames DEF LeaveDock, RobotSteps
<1>5. ASSUME Finish PROVE Good
  BY <1>1, <1>5, RobotChanges, StatusNames DEF Finish, Turn
<1>6. ASSUME WashMop PROVE Good
  BY <1>1, <1>2, <1>6, RobotChanges, StatusNames DEF WashMop, Turn, RobotSteps
<1>7. ASSUME Depart PROVE Good
  <2>1. spare' \in Int
    BY <1>1, <1>7 DEF Depart
  <2>2. robot' \in RobotSet
    BY <1>1, <1>7, RobotChanges DEF Depart, Places
  <2> QED
    BY <1>7, <2>1, <2>2 DEF Depart
<1>8. ASSUME Travel PROVE Good
  BY <1>1, <1>8, RobotChanges, StatusNames DEF Travel, RobotSteps, Places
<1>9. ASSUME Wander PROVE Good
  BY <1>1, <1>2, <1>9, RobotChanges DEF Wander, RobotSteps, Places
<1>10. ASSUME BlipStart PROVE Good
  BY <1>1, <1>2, <1>10, RobotChanges, StatusNames DEF BlipStart, RobotSteps
<1>11. ASSUME BlipEnd PROVE Good
  BY <1>1, <1>11, RobotChanges, StatusNames DEF BlipEnd, RobotSteps
<1>12. ASSUME Touch PROVE Good
  <2>1. robot' \in RobotSet
    <3>1. \/ robot' = [robot EXCEPT !.status = robot.was, !.was = "charging"]
          \/ robot' = [robot EXCEPT !.status = "paused", !.was = "cleaning"]
      BY <1>12 DEF Touch
    <3>2. [robot EXCEPT !.status = robot.was, !.was = "charging"] \in RobotSet
      BY <1>1, RobotChanges, StatusNames
    <3>3. [robot EXCEPT !.status = "paused", !.was = "cleaning"] \in RobotSet
      BY <1>1, RobotChanges, StatusNames
    <3> QED
      BY <3>1, <3>2, <3>3
  <2>2. \E e \in Bounded, bound \in Nat : Bump(e, bound)
    BY <1>2, <1>12 DEF Touch
  <2>3. UNCHANGED <<door, seen, queue, run, spare, missed, said>> /\ held' = "touched"
    BY <1>12 DEF Touch
  <2> QED
    BY <1>1, <2>1, <2>2, <2>3
<1>13. Good
  BY <1>3, <1>4, <1>5, <1>6, <1>7, <1>8, <1>9, <1>10, <1>11, <1>12 DEF Roams
<1>14. count' \in [Bounded -> Nat]
  BY <1>13, TypesAre, Counted
<1>15. seen' \in SeenSet
  <2>1. [seen EXCEPT !.ended = "recent"] \in SeenSet
    BY <1>1 DEF SeenSet
  <2> QED
    BY <1>1, <1>13, <2>1
<1> QED
  BY <1>13, <1>14, <1>15, TypesAre DEF TypeOK, RobotSet, DoorSet, SeenSet, Triggers, Misses, Holders

LEMMA WorldTypes ==
  ASSUME TypeOK,
         GuardOpens \/ Poll \/ LoseStatus \/ Sample \/ AgeOut \/ Sustain \/ AgeMarker \/ LoseContact
           \/ LosePosition \/ Motor \/ Jam
  PROVE  TypeOK'
<1>1. /\ robot \in RobotSet /\ door \in DoorSet /\ seen \in SeenSet /\ robot.status \in Statuses
      /\ queue \in Seq(Triggers) /\ Len(queue) <= MaxRuns /\ count \in [Bounded -> Nat]
      /\ door.gap \in Gaps /\ door.motor \in {"still", "up", "down"}
  BY TypesAre DEF RobotSet, DoorSet
<1> DEFINE Good == /\ seen' \in SeenSet /\ door' \in DoorSet
                   /\ queue' \in Seq(Triggers) /\ Len(queue') <= MaxRuns
                   /\ count' \in [Bounded -> Nat] /\ missed' \in Misses
                   /\ UNCHANGED <<robot, run, spare, held, said>>
<1>2. missed \in Misses /\ "mishap" \in Bounded
  BY TypesAre DEF Bounded
<1>3. ASSUME GuardOpens \/ LoseContact \/ LosePosition PROVE Good
  <2>1. count' \in [Bounded -> Nat]
    BY <1>1, <1>2, <1>3, Counted DEF GuardOpens, LoseContact, LosePosition
  <2> QED
    BY <1>1, <1>2, <1>3, <2>1, DoorChanges DEF GuardOpens, LoseContact, LosePosition
<1>4. ASSUME NEW status \in Statuses \cup {"unavailable"}, Shown(status)
      PROVE  /\ seen' \in SeenSet /\ queue' \in Seq(Triggers) /\ Len(queue') <= MaxRuns
             /\ UNCHANGED <<robot, door, run, spare, held, missed, said>>
  <2>1. (status \in ReturnStates) \in BOOLEAN
    OBVIOUS
  <2>2. \A timer \in BOOLEAN : [seen EXCEPT !.status = status, !.timer = timer] \in SeenSet
    BY <1>1 DEF SeenSet
  <2>3. queue' \in Seq(Triggers) /\ Len(queue') <= MaxRuns
    BY <1>4, NewTriggers, QueueGrows DEF Shown
  <2>4. seen' = [seen EXCEPT !.status = status, !.timer = status \in ReturnStates]
    BY <1>4 DEF Shown
  <2>5. seen' \in SeenSet
    BY <2>1, <2>2, <2>4
  <2> QED
    BY <1>4, <2>3, <2>5 DEF Shown
<1>5. ASSUME Poll PROVE Good
  BY <1>1, <1>2, <1>4, <1>5 DEF Poll
<1>6. ASSUME LoseStatus PROVE Good
  <2>1. count' \in [Bounded -> Nat]
    BY <1>6, Counted DEF LoseStatus, Bounded
  <2> QED
    BY <1>1, <1>2, <1>4, <1>6, <2>1 DEF LoseStatus
<1>7. ASSUME NEW outside \in {"on", "off", "unknown"}, Sampled(outside) PROVE Good
  <2>1. [seen EXCEPT !.outside = outside] \in SeenSet
    BY <1>1 DEF SeenSet
  <2>2. queue' \in Seq(Triggers) /\ Len(queue') <= MaxRuns
    BY <1>7, NewTriggers, QueueGrows DEF Sampled
  <2> QED
    BY <1>1, <1>2, <1>7, <2>1, <2>2 DEF Sampled
<1>8. ASSUME Sample \/ AgeOut PROVE Good
  BY <1>7, <1>8 DEF Sample, AgeOut
<1>9. ASSUME Sustain PROVE Good
  <2>1. [seen EXCEPT !.timer = FALSE] \in SeenSet
    BY <1>1 DEF SeenSet
  <2>2. queue' \in Seq(Triggers) /\ Len(queue') <= MaxRuns
    BY <1>9, NewTriggers, QueueGrows DEF Sustain
  <2>3. missed' \in Misses
    BY <1>9 DEF Sustain, Misses
  <2> QED
    BY <1>1, <1>9, <2>1, <2>2, <2>3 DEF Sustain
<1>10. ASSUME AgeMarker PROVE Good
  <2>1. [seen EXCEPT !.ended = "old"] \in SeenSet
    BY <1>1 DEF SeenSet
  <2> QED
    BY <1>1, <1>2, <1>10, <2>1 DEF AgeMarker
<1>11. ASSUME Motor PROVE Good
  <2> DEFINE gap == Further(door.gap, door.motor)
  <2>1. gap \in Gaps
    BY <1>1 DEF Further, Gaps
  <2>2. door' = IF gap = "ajar" THEN [door EXCEPT !.gap = gap]
                ELSE [door EXCEPT !.gap = gap, !.motor = "still",
                         !.reading = IF gap = "open" THEN "full" ELSE "below"]
    BY <1>11 DEF Motor, Resting
  <2> HIDE DEF gap
  <2>3. door' \in DoorSet
    BY <1>1, <2>1, <2>2, DoorChanges
  <2> QED
    BY <1>1, <1>2, <1>11, <2>3 DEF Motor
<1>12. ASSUME Jam PROVE Good
  <2>1. count' \in [Bounded -> Nat]
    BY <1>2, <1>12, Counted DEF Jam
  <2> QED
    BY <1>1, <1>2, <1>12, <2>1, DoorChanges DEF Jam, Resting
<1>13. Good
  BY <1>3, <1>5, <1>6, <1>8, <1>9, <1>10, <1>11, <1>12
<1> QED
  BY <1>13, TypesAre DEF TypeOK, RobotSet, DoorSet, SeenSet, Triggers, Misses, Holders

LEMMA AutomationTypes ==
  ASSUME TypeOK, Begins \/ (Step /\ UNCHANGED queue) PROVE TypeOK'
<1>1. /\ robot \in RobotSet /\ door \in DoorSet /\ robot.status \in Statuses /\ robot.was \in Statuses
      /\ queue \in Seq(Triggers) /\ Len(queue) <= MaxRuns /\ spare \in Int
      /\ run \in [pc : Pcs, waited : BOOLEAN] /\ said \subseteq Alerts /\ missed \in Misses
  BY TypesAre DEF RobotSet
<1> DEFINE Good == /\ UNCHANGED seen /\ missed' \in Misses /\ robot' \in RobotSet /\ door' \in DoorSet
                   /\ queue' \in Seq(Triggers) /\ Len(queue') <= MaxRuns /\ spare' \in Int
                   /\ run' \in [pc : Pcs, waited : BOOLEAN]
                   /\ UNCHANGED count \/ Bump("mishap", MaxMishaps)
                   /\ held' \in {held, "yes", "no", "raised"} /\ said' \subseteq Alerts
<1>2. ASSUME Begins PROVE Good
  <2>1. queue' \in Seq(Triggers) /\ Len(queue') <= MaxRuns
    <3>1. Len(queue') <= Len(queue) /\ Len(queue) \in Nat /\ Len(queue') \in Nat /\ queue' \in Seq(Triggers)
      BY <1>1, <1>2, BeginFrame, LeavesShrink, LenProperties
    <3> QED
      BY <1>1, <3>1, RunsAreBounded
  <2>2. robot' \in RobotSet
    <3>1. [robot EXCEPT !.status = "paused", !.was = robot.status] \in RobotSet
      BY <1>1, RobotChanges, StatusNames
    <3> QED
      BY <1>1, <1>2, <3>1, BeginFrame
  <2>3. spare' \in Int
    BY <1>1, <1>2, BeginFrame
  <2>4. run' \in [pc : Pcs, waited : BOOLEAN]
    BY <1>1, <1>2, BeginFrame, RunTypes
  <2>5. door' \in DoorSet
    BY <1>1, <1>2, BeginFrame, DoorChanges DEF Opening
  <2>6. missed' \in Misses
    BY <1>1, <1>2, BeginFrame DEF Misses
  <2> QED
    BY <1>1, <1>2, <2>1, <2>2, <2>3, <2>4, <2>5, <2>6, BeginFrame
<1>3. ASSUME Step, UNCHANGED queue PROVE Good
  <2>1. robot' \in RobotSet /\ held' \in {held, "no", "raised"}
    <3>1. [robot EXCEPT !.status = robot.was, !.was = "charging"] \in RobotSet
      BY <1>1, RobotChanges, StatusNames
    <3> QED
      BY <1>1, <1>3, <3>1, StepFrame DEF LeaveResume
  <2>2. run' \in [pc : Pcs, waited : BOOLEAN]
    BY <1>1, <1>3, StepFrame, RunTypes
  <2>3. door' \in DoorSet
    BY <1>1, <1>3, StepFrame, DoorChanges DEF Closing
  <2> QED
    BY <1>1, <1>3, <2>1, <2>2, <2>3, StepFrame
<1>4. Good
  BY <1>2, <1>3
<1>5. count' \in [Bounded -> Nat]
  BY <1>4, Counted, TypesAre DEF Bounded
<1> QED
  BY <1>4, <1>5, TypesAre DEF TypeOK, RobotSet, DoorSet, SeenSet, Triggers, Misses, Holders

\* The steps of the automation, as the proofs take them apart.
LEMMA StepsAre ==
  ASSUME Next
  PROVE  \/ Roams \/ Begins \/ (Step /\ UNCHANGED queue)
         \/ GuardOpens \/ Poll \/ LoseStatus \/ Sample \/ AgeOut \/ Sustain \/ AgeMarker \/ LoseContact
         \/ LosePosition \/ Motor \/ Jam
BY DEF Next, Automation, Environment, Roams, Begins

LEMMA TypesStay == TypeOK /\ [Next]_vars => TypeOK'
<1>1. ASSUME TypeOK, Next PROVE TypeOK'
  BY <1>1, StepsAre, RoamTypes, WorldTypes, AutomationTypes
<1>2. TypeOK /\ UNCHANGED vars => TypeOK'
  BY DEF TypeOK, vars
<1> QED
  BY <1>1, <1>2

\* Every variable has its type, and the queue its limit (build.py:584-586).
THEOREM AutomationIsTyped == Spec => []TypeOK
BY AutomationBegins, TypesStay, PTL DEF Spec

-----------------------------------------------------------------------------
(* Where the robot is. *)

\* What a pause and a resume make of the robot.
LEMMA PauseAndResume ==
  ASSUME TypeOK, Begins \/ (Step /\ UNCHANGED queue)
  PROVE  /\ seen' = seen
         /\ \/ robot' = robot
            \/ /\ robot'.status = "paused" /\ robot'.was = robot.status
               /\ robot.status \notin {"charging", "paused"}
               /\ robot'.place = robot.place /\ robot'.task = robot.task /\ robot'.blip = robot.blip
            \/ /\ robot'.status = robot.was /\ robot.status = "paused"
               /\ robot'.place = robot.place /\ robot'.task = robot.task /\ robot'.blip = robot.blip
<1>1. robot \in RobotSet /\ run \in [pc : Pcs, waited : BOOLEAN]
  BY TypesAre
<1>2. CASE Begins
  BY <1>1, <1>2, BeginFrame DEF RobotSet
<1>3. CASE Step
  BY <1>1, <1>3, StepFrame DEF RobotSet, LeaveResume
<1> QED
  BY <1>2, <1>3

WhereAndEnd == Whereabouts /\ (~QuickCleans => EndIsMarked)

LEMMA RoamWhere == ASSUME TypeOK, WhereAndEnd, Roams PROVE WhereAndEnd'
<1>1. robot \in RobotSet /\ seen \in SeenSet
  BY TypesAre
<1> DEFINE Kept == seen'.status = seen.status /\ seen'.ended = seen.ended
<1>2. /\ robot.status \in Statuses /\ robot.was \in Statuses
      /\ robot.place \in Places /\ robot.task \in BOOLEAN /\ robot.blip \in BOOLEAN
  BY <1>1 DEF RobotSet
<1>3. CASE StartClean
  BY <1>1, <1>3 DEF RobotSet, StartClean, RobotSteps, WhereAndEnd, Whereabouts, EndIsMarked, Doing
<1>4. CASE LeaveDock
  BY <1>1, <1>4 DEF RobotSet, LeaveDock, RobotSteps, WhereAndEnd, Whereabouts, EndIsMarked, Doing
<1>5. CASE Finish
  BY <1>1, <1>5 DEF RobotSet, SeenSet, Finish, Turn, WhereAndEnd, Whereabouts, EndIsMarked, Doing
<1>6. CASE WashMop
  BY <1>1, <1>6 DEF RobotSet, WashMop, Turn, RobotSteps, WhereAndEnd, Whereabouts, EndIsMarked, Doing
<1>7. CASE Depart
  BY <1>1, <1>7 DEF RobotSet, Depart, MayPass, WhereAndEnd, Whereabouts, EndIsMarked, Doing
<1>8. CASE Travel
  BY <1>1, <1>8, StatusNames DEF RobotSet, Travel, MayPass, RobotSteps, WhereAndEnd, Whereabouts, EndIsMarked, Doing
<1>9. CASE Wander
  BY <1>1, <1>9 DEF RobotSet, Wander, RobotSteps, WhereAndEnd, Whereabouts, EndIsMarked, Doing
<1>10. CASE BlipStart
  BY <1>1, <1>10 DEF RobotSet, BlipStart, RobotSteps, WhereAndEnd, Whereabouts, EndIsMarked, Doing
<1>11. CASE BlipEnd
  BY <1>1, <1>11 DEF RobotSet, BlipEnd, RobotSteps, WhereAndEnd, Whereabouts, EndIsMarked, Doing
<1>12. CASE Touch
  BY <1>1, <1>12 DEF RobotSet, Touch, WhereAndEnd, Whereabouts, EndIsMarked, Doing
<1> QED
  BY <1>3, <1>4, <1>5, <1>6, <1>7, <1>8, <1>9, <1>10, <1>11, <1>12 DEF Roams

LEMMA WhereStays == TypeOK /\ WhereAndEnd /\ [Next]_vars => WhereAndEnd'
<1> SUFFICES ASSUME TypeOK, WhereAndEnd, [Next]_vars PROVE WhereAndEnd'
  OBVIOUS
<1>1. robot \in RobotSet /\ seen \in SeenSet
  BY TypesAre
<1>2. ASSUME robot' = robot, seen'.status \in {seen.status, robot.status, "unavailable"},
             seen'.ended \in {seen.ended, "old"}
      PROVE  WhereAndEnd'
  BY <1>2 DEF WhereAndEnd, Whereabouts, EndIsMarked, Doing
<1>3. CASE UNCHANGED vars
  BY <1>2, <1>3 DEF vars
<1>4. CASE Roams
  BY <1>4, RoamWhere
<1>5. CASE Begins \/ (Step /\ UNCHANGED queue)
  BY <1>5, PauseAndResume DEF WhereAndEnd, Whereabouts, EndIsMarked, Doing
<1>6. CASE GuardOpens \/ LoseContact \/ LosePosition \/ Motor \/ Jam
  BY <1>2, <1>6 DEF GuardOpens, LoseContact, LosePosition, Motor, Jam
<1>7. CASE Poll \/ LoseStatus
  BY <1>1, <1>2, <1>7 DEF SeenSet, Poll, LoseStatus, Shown
<1>8. CASE Sample \/ AgeOut
  BY <1>1, <1>2, <1>8 DEF SeenSet, Sample, AgeOut, Sampled
<1>9. CASE Sustain \/ AgeMarker
  BY <1>1, <1>2, <1>9 DEF SeenSet, Sustain, AgeMarker
<1> QED
  BY <1>3, <1>4, <1>5, <1>6, <1>7, <1>8, <1>9, StepsAre

LEMMA WhereBegins == Init => WhereAndEnd
BY DEF Init, WhereAndEnd, Whereabouts, EndIsMarked, Doing

\* The parking run closes the door only behind a robot on its dock whose clean is over,
\* if no clean starts while the end of the last is recent (build.py:512-560).
THEOREM ParkWaitsForTheEnd == ASSUME ~QuickCleans PROVE Spec => ParkClosesOnlyAfterTask
<1>1. TypeOK /\ WhereAndEnd /\ [Next]_vars
        => [At("park_delay") /\ run'.pc = "park_shut" => robot.place = "dock" /\ ~robot.task]_vars
  <2> SUFFICES ASSUME TypeOK, WhereAndEnd, Next, At("park_delay"), run'.pc = "park_shut"
               PROVE  robot.place = "dock" /\ ~robot.task
    OBVIOUS
  <2>1. run.pc = "park_delay" /\ run \in [pc : Pcs, waited : BOOLEAN]
    BY TypesAre DEF At
  <2>2. ParkClose
    <3>1. ~Roams
      BY <2>1 DEF Roams, StartClean, LeaveDock, Finish, WashMop, Depart, Travel, Wander,
                  BlipStart, BlipEnd, Touch, RobotSteps
    <3>2. ~(GuardOpens \/ Poll \/ LoseStatus \/ Sample \/ AgeOut \/ Sustain \/ AgeMarker \/ LoseContact
            \/ LosePosition \/ Motor \/ Jam)
      BY <2>1 DEF GuardOpens, Poll, LoseStatus, Shown, Sample, AgeOut, Sampled, Sustain, AgeMarker, LoseContact,
                  LosePosition, Motor, Jam
    <3>3. Step
      BY <2>1, <3>1, <3>2, StepsAre, BeginFrame
    <3>4. ~ParkRecheck
      <4>1. ParkRecheck => End \/ EndWith("warning")
        BY DEF ParkRecheck
      <4>2. End \/ EndWith("warning") => run' = [pc |-> "idle", waited |-> FALSE]
        BY DEF End, EndWith, Waited
      <4>3. run' # [pc |-> "idle", waited |-> FALSE]
        OBVIOUS
      <4> QED
        BY <4>1, <4>2, <4>3
    <3> QED
      BY <2>1, <3>3, <3>4
         DEF Step, At, LeavePaused, LeaveNotPaused, LeaveShutWait, ParkShutWait, ShutWait, LeaveNotShut, LeaveResume,
             LeaveResumed, LeaveNotResumed, ReturnSettled, ReturnOpen, ReturnNotOpen, ParkSettled
  <2>3. TaskOf(seen.status) = "off" /\ seen.ended = "recent"
    BY <2>2, RechecksTell DEF ParkClose
  <2>4. seen.status = "charging"
    <3>1. seen.status \in Statuses \cup {"unavailable"}
      BY TypesAre DEF SeenSet
    <3> QED
      BY <2>3, <3>1 DEF TaskOf
  <2> QED
    BY <2>3, <2>4 DEF WhereAndEnd, Whereabouts, EndIsMarked
<1> QED
  BY <1>1, AutomationIsTyped, WhereBegins, WhereStays, PTL DEF Spec, ParkClosesOnlyAfterTask

-----------------------------------------------------------------------------
(* One pause per departure. *)

LEMMA RoamDepartures == ASSUME TypeOK, DeparturesAreReal, Roams PROVE DeparturesAreReal'
<1>1. /\ robot \in RobotSet /\ seen \in SeenSet /\ spare \in Int
      /\ queue \in Seq(Triggers) /\ Cardinality(Leaves(queue)) \in Nat
  BY TypesAre, LeavesAreFinite
<1> DEFINE leaves == Cardinality(Leaves(queue))
<1>2. ASSUME UNCHANGED <<queue, spare>>, seen'.outside = seen.outside,
             robot'.place = "out" => robot.place = "out"
      PROVE  DeparturesAreReal'
  <2>1. Unseen' <= Unseen /\ Unseen' \in {0, 1} /\ Unseen \in {0, 1}
    BY <1>2 DEF Unseen
  <2>2. Cardinality(Leaves(queue')) = leaves
    BY <1>2
  <2>3. leaves + Unseen <= spare
    BY DEF DeparturesAreReal
  <2> HIDE DEF leaves
  <2>4. leaves + Unseen' <= spare'
    BY <1>1, <1>2, <2>1, <2>3 DEF leaves
  <2> QED
    BY <2>2, <2>4 DEF DeparturesAreReal
<1>3. CASE Depart
  <2>1. robot.place = "zone" /\ spare' = spare + 1 /\ queue' = queue
    BY <1>3 DEF Depart
  <2>2. Unseen = 0 /\ Unseen' \in {0, 1}
    BY <2>1 DEF Unseen
  <2>3. leaves + Unseen <= spare /\ Cardinality(Leaves(queue')) = leaves
    BY <2>1 DEF DeparturesAreReal
  <2> HIDE DEF leaves
  <2>4. leaves + Unseen' <= spare'
    BY <1>1, <2>1, <2>2, <2>3 DEF leaves
  <2> QED
    BY <2>3, <2>4 DEF DeparturesAreReal
<1>4. CASE StartClean \/ LeaveDock \/ WashMop \/ BlipStart \/ BlipEnd
  BY <1>1, <1>2, <1>4 DEF StartClean, LeaveDock, WashMop, Turn, BlipStart, BlipEnd, RobotSteps, RobotSet
<1>5. CASE Finish
  BY <1>1, <1>2, <1>5 DEF Finish, Turn, RobotSet, SeenSet
<1>6. CASE Travel \/ Wander
  BY <1>1, <1>2, <1>6 DEF Travel, Wander, RobotSteps, RobotSet
<1>7. CASE Touch
  BY <1>1, <1>2, <1>7 DEF Touch, RobotSet
<1> QED
  BY <1>3, <1>4, <1>5, <1>6, <1>7 DEF Roams

LEMMA NoMore ==
  ASSUME NEW a \in Nat, NEW b \in Nat, NEW u \in Nat, NEW v \in Nat, NEW s \in Int,
         b <= a, v <= u, a + u <= s
  PROVE  b + v <= s
OBVIOUS

LEMMA DeparturesStay == TypeOK /\ DeparturesAreReal /\ [Next]_vars => DeparturesAreReal'
<1> SUFFICES ASSUME TypeOK, DeparturesAreReal, [Next]_vars PROVE DeparturesAreReal'
  OBVIOUS
<1>1. /\ robot \in RobotSet /\ seen \in SeenSet /\ spare \in Int
      /\ queue \in Seq(Triggers) /\ Len(queue) <= MaxRuns /\ MaxRuns \in Nat
  BY TypesAre, RunsAreBounded
<1> DEFINE leaves == Cardinality(Leaves(queue))
           leavesNext == Cardinality(Leaves(queue'))
<1>2. leaves \in Nat /\ leaves + Unseen <= spare /\ Unseen \in {0, 1} /\ Unseen' \in {0, 1}
  BY <1>1, LeavesAreFinite DEF DeparturesAreReal, Unseen
<1>3. queue' \in Seq(Triggers) /\ leavesNext \in Nat /\ spare' \in Int
  BY TypesStay, TypesAre, LeavesAreFinite DEF TypeOK, Triggers
<1> HIDE DEF leaves, leavesNext
<1>4. ASSUME leavesNext + Unseen' <= spare' PROVE DeparturesAreReal'
  BY <1>4 DEF DeparturesAreReal, leavesNext
<1>5. ASSUME leavesNext <= leaves, spare' = spare, Unseen' <= Unseen PROVE DeparturesAreReal'
  <2>1. leavesNext + Unseen' <= spare
    <3>1. leaves \in Nat /\ leaves + Unseen <= spare /\ spare \in Int
      BY <1>1, <1>2
    <3>2. leavesNext \in Nat /\ leavesNext <= leaves
      BY <1>3, <1>5
    <3>3. Unseen \in Nat /\ Unseen' \in Nat /\ Unseen' <= Unseen
      BY <1>2, <1>5
    <3> QED
      BY <3>1, <3>2, <3>3, NoMore
  <2> QED
    BY <1>4, <1>5, <2>1
<1>6. queue' = queue => leavesNext <= leaves
  BY <1>2 DEF leaves, leavesNext
<1>7. CASE UNCHANGED vars
  <2>1. Unseen' <= Unseen
    BY <1>2, <1>7 DEF Unseen, vars
  <2> QED
    BY <1>5, <1>6, <1>7, <2>1 DEF vars
<1>8. CASE Roams
  BY <1>8, RoamDepartures
<1>9. CASE Begins
  <2>1. queue # <<>> /\ queue' = Tail(queue) /\ seen' = seen /\ robot'.place = robot.place
    BY <1>1, <1>9, BeginFrame, TypesAre DEF RobotSet
  <2>2. Unseen' = Unseen
    BY <2>1 DEF Unseen
  <2>3. leavesNext = IF Head(queue) = "leave" THEN leaves - 1 ELSE leaves
    BY <1>1, <2>1, LeavesShrink DEF leaves, leavesNext
  <2>4. spare' = spare \/ (Head(queue) = "leave" /\ spare' = spare - 1)
    BY <1>9, BeginFrame, TypesAre
  <2>5. leavesNext + Unseen' <= spare'
    BY <1>1, <1>2, <1>3, <2>2, <2>3, <2>4
  <2> QED
    BY <1>4, <2>5
<1>10. CASE Step /\ UNCHANGED queue
  <2>1. seen' = seen /\ robot'.place = robot.place /\ spare' = spare
    BY <1>10, PauseAndResume, StepFrame
  <2>2. Unseen' <= Unseen
    BY <1>2, <2>1 DEF Unseen
  <2> QED
    BY <1>5, <1>6, <1>10, <2>1, <2>2
<1>11. CASE GuardOpens \/ LoseContact \/ LosePosition \/ Motor \/ Jam \/ AgeMarker
  <2>1. UNCHANGED <<robot, queue, spare>> /\ seen'.outside = seen.outside
    BY <1>1, <1>11 DEF GuardOpens, LoseContact, LosePosition, Motor, Jam, AgeMarker, SeenSet
  <2>2. Unseen' <= Unseen
    BY <1>2, <2>1 DEF Unseen
  <2> QED
    BY <1>5, <1>6, <2>1, <2>2
<1>12. CASE Poll \/ LoseStatus
  <2>1. PICK status : Shown(status)
    BY <1>12 DEF Poll, LoseStatus
  <2>2. UNCHANGED <<robot, spare>> /\ seen'.outside = seen.outside
    BY <1>1, <2>1 DEF Shown, SeenSet
  <2>3. Leaves(queue') = Leaves(queue)
    BY <1>1, <2>1, NewTriggers, LeavesGrow DEF Shown
  <2>4. Unseen' <= Unseen /\ leavesNext <= leaves
    BY <1>2, <2>2, <2>3 DEF Unseen, leaves, leavesNext
  <2> QED
    BY <1>5, <2>2, <2>4
<1>13. CASE Sustain
  <2>1. UNCHANGED <<robot, spare>> /\ seen'.outside = seen.outside
    BY <1>1, <1>13 DEF Sustain, SeenSet
  <2>2. Leaves(queue') = Leaves(queue)
    <3> DEFINE ts == <<"return">>
    <3>1. ts \in Seq(Triggers) /\ Len(ts) = 1 /\ ts[1] = "return" /\ queue' = Queued(ts)
      BY <1>13, NewTriggers DEF Sustain
    <3> HIDE DEF ts
    <3>2. \A i \in 1..Len(ts) : ts[i] # "leave"
      BY <3>1
    <3> QED
      BY <1>1, <3>1, <3>2, LeavesGrow
  <2>3. Unseen' <= Unseen /\ leavesNext <= leaves
    BY <1>2, <2>1, <2>2 DEF Unseen, leaves, leavesNext
  <2> QED
    BY <1>5, <2>1, <2>3
<1>14. CASE Sample \/ AgeOut
  <2>1. PICK outside \in {"on", "off", "unknown"} :
          Sampled(outside) /\ (outside = "on" => robot.place = "out") /\ (outside = "off" => robot.place # "out")
    BY <1>14 DEF Sample, AgeOut
  <2> DEFINE ts == LeaveTriggers(seen.outside, outside)
  <2>2. UNCHANGED <<robot, spare>> /\ seen'.outside = outside /\ queue' = Queued(ts)
    BY <1>1, <2>1 DEF Sampled, SeenSet
  <2>3. Unseen' = 0
    BY <2>1, <2>2 DEF Unseen
  <2>4. CASE seen.outside = "off" /\ outside = "on"
    <3>1. Unseen = 1
      BY <2>1, <2>4 DEF Unseen
    <3>2. leavesNext <= leaves + 1
      BY <1>1, <2>2, NewTriggers, LeavesGrow DEF leaves, leavesNext
    <3>3. leavesNext + Unseen' <= spare'
      BY <1>1, <1>2, <1>3, <2>2, <2>3, <3>1, <3>2
    <3> QED
      BY <1>4, <3>3
  <2>5. CASE ~(seen.outside = "off" /\ outside = "on")
    <3>1. ts = <<>> /\ ts \in Seq(Triggers)
      BY <2>5, NewTriggers
    <3>2. \A i \in 1..Len(ts) : ts[i] # "leave"
      BY <3>1, EmptySeq
    <3>3. Leaves(queue') = Leaves(queue)
      BY <1>1, <2>2, <3>1, <3>2, LeavesGrow
    <3>4. leavesNext <= leaves /\ Unseen' <= Unseen
      BY <1>2, <2>3, <3>3 DEF leaves, leavesNext
    <3> QED
      BY <1>5, <2>2, <3>4
  <2> QED
    BY <2>4, <2>5
<1> QED
  BY <1>7, <1>8, <1>9, <1>10, <1>11, <1>12, <1>13, <1>14, StepsAre

LEMMA DeparturesBegin == Init => DeparturesAreReal
<1> SUFFICES ASSUME Init PROVE DeparturesAreReal
  OBVIOUS
<1>1. Leaves(queue) = {}
  BY EmptySeq DEF Init, Leaves
<1>2. Cardinality(Leaves(queue)) = 0
  BY <1>1, FS_EmptySet
<1>3. Unseen = 0 /\ spare = 0
  BY DEF Init, Unseen
<1> QED
  BY <1>2, <1>3 DEF DeparturesAreReal

\* However often the sensor flaps, the runs pause the robot at most once per real
\* departure (build.py:438-474).
THEOREM OnePauseEach == Spec => []OnePausePerDeparture
<1>1. TypeOK /\ DeparturesAreReal => OnePausePerDeparture
  <2> SUFFICES ASSUME TypeOK, DeparturesAreReal PROVE spare >= 0
    BY DEF OnePausePerDeparture
  <2>1. Cardinality(Leaves(queue)) \in Nat /\ spare \in Int /\ Unseen \in {0, 1}
    BY TypesAre, LeavesAreFinite DEF Unseen
  <2>2. Cardinality(Leaves(queue)) + Unseen <= spare
    BY DEF DeparturesAreReal
  <2> QED
    BY <2>1, <2>2
<1> QED
  BY <1>1, AutomationIsTyped, DeparturesBegin, DeparturesStay, PTL DEF Spec

-----------------------------------------------------------------------------
(* A paused robot is not left in silence. *)

LEMMA SeenPaused ==
  ASSUME NEW s \in Statuses \cup {"unavailable"}
  PROVE  /\ VacuumOf(s) = "paused" => s = "paused"
         /\ VacuumOf("paused") = "paused" /\ VacuumOf("unavailable") = "unavailable"
BY DEF VacuumOf, Statuses, CleaningStates, ReturnStates

LEMMA CareOfStep ==
  ASSUME TypeOK, InCare, Step, UNCHANGED queue PROVE InCare'
<1> SUFFICES ASSUME held' = "yes", robot'.status = "paused"
             PROVE  \/ run'.pc = "pausing"
                    \/ /\ run'.pc \in {"leave_shut", "leave_settle", "resuming"}
                       /\ seen'.status \in {"paused", "unavailable"}
                    \/ "warning" \in said'
  BY DEF InCare
<1> DEFINE Cared == run'.pc \in {"leave_shut", "leave_settle", "resuming"} /\ seen'.status \in {"paused", "unavailable"}
<1>1. /\ run \in [pc : Pcs, waited : BOOLEAN] /\ robot \in RobotSet /\ seen' = seen
      /\ seen.status \in Statuses \cup {"unavailable"} /\ said \subseteq said'
  BY TypesAre, StepFrame DEF SeenSet
<1>2. held = "yes" /\ robot.status = "paused" /\ robot' = robot
  <2>1. robot' = robot
    BY StepFrame DEF LeaveResume
  <2>2. held = "yes"
    BY <2>1, StepFrame DEF LeaveResume
  <2> QED
    BY <2>1, <2>2
<1>3. \/ run.pc = "pausing"
      \/ run.pc \in {"leave_shut", "leave_settle", "resuming"} /\ seen.status \in {"paused", "unavailable"}
      \/ "warning" \in said
  BY <1>2 DEF InCare
<1>4. EndWith("warning") => "warning" \in said'
  BY DEF EndWith, Alert
<1>5. \A pc \in Pcs : Goto(pc) \/ Waited(pc, DoorShut) => run'.pc = pc
  BY <1>1 DEF Goto, Waited
<1>6. CASE "warning" \in said
  BY <1>1, <1>6
<1>7. CASE run.pc = "pausing"
  <2>1. LeavePaused \/ LeaveNotPaused
    BY <1>7 DEF Step, At, LeaveShutWait, ParkShutWait, ShutWait, LeaveNotShut, LeaveResume, LeaveResumed,
                LeaveNotResumed, ReturnSettled, ReturnOpen, ReturnNotOpen, ParkRecheck, ParkClose, ParkSettled
  <2>2. CASE LeavePaused
    <3>1. seen.status = "paused"
      BY <1>1, <2>2, SeenPaused DEF LeavePaused, PauseSeen
    <3>2. ~Died
      BY <1>2, <2>2 DEF LeavePaused
    <3>3. Goto("leave_shut")
      BY <2>2, <3>2 DEF LeavePaused, Order, Raised, Waited, Died
    <3> QED
      BY <1>1, <1>5, <3>1, <3>3 DEF Pcs
  <2>3. CASE LeaveNotPaused
    BY <1>4, <2>3 DEF LeaveNotPaused
  <2> QED
    BY <2>1, <2>2, <2>3
<1>8. CASE run.pc = "leave_shut" /\ seen.status \in {"paused", "unavailable"}
  <2>1. LeaveShutWait
    BY <1>8 DEF Step, At, LeavePaused, LeaveNotPaused, ParkShutWait, ShutWait, LeaveNotShut, LeaveResume, LeaveResumed,
                LeaveNotResumed, ReturnSettled, ReturnOpen, ReturnNotOpen, ParkRecheck, ParkClose, ParkSettled
  <2> QED
    BY <1>1, <1>5, <1>8, <2>1 DEF LeaveShutWait, ShutWait, Pcs
<1>9. CASE run.pc = "leave_settle" /\ seen.status \in {"paused", "unavailable"}
  <2>1. LeaveNotShut \/ LeaveResume
    BY <1>9 DEF Step, At, LeavePaused, LeaveNotPaused, LeaveShutWait, ParkShutWait, ShutWait, LeaveResumed,
                LeaveNotResumed, ReturnSettled, ReturnOpen, ReturnNotOpen, ParkRecheck, ParkClose, ParkSettled
  <2> QED
    BY <1>1, <1>4, <1>5, <1>9, <2>1 DEF LeaveNotShut, LeaveResume, Pcs
<1>10. CASE run.pc = "resuming" /\ seen.status \in {"paused", "unavailable"}
  <2>1. LeaveResumed \/ LeaveNotResumed
    BY <1>10 DEF Step, At, LeavePaused, LeaveNotPaused, LeaveShutWait, ParkShutWait, ShutWait, LeaveNotShut,
                 LeaveResume, ReturnSettled, ReturnOpen, ReturnNotOpen, ParkRecheck, ParkClose, ParkSettled
  <2>2. ~ResumeSeen
    BY <1>1, <1>10, SeenPaused DEF ResumeSeen
  <2> QED
    BY <1>4, <2>1, <2>2 DEF LeaveResumed, LeaveNotResumed
<1> QED
  BY <1>3, <1>6, <1>7, <1>8, <1>9, <1>10

LEMMA CareStays == TypeOK /\ InCare /\ [Next]_vars => InCare'
<1> SUFFICES ASSUME TypeOK, InCare, [Next]_vars PROVE InCare'
  OBVIOUS
<1>1. robot \in RobotSet /\ seen \in SeenSet /\ run \in [pc : Pcs, waited : BOOLEAN]
  BY TypesAre
<1>2. ASSUME UNCHANGED run, UNCHANGED said \/ said' = said \ {"critical"}, held' = "yes" => held = "yes",
             robot'.status = "paused" => robot.status = "paused",
             seen'.status \in {seen.status, robot.status, "unavailable"}
      PROVE  InCare'
  BY <1>2 DEF InCare
<1>3. CASE UNCHANGED vars
  BY <1>2, <1>3 DEF vars
<1>4. CASE StartClean \/ LeaveDock \/ WashMop \/ BlipStart \/ BlipEnd
  BY <1>1, <1>2, <1>4 DEF StartClean, LeaveDock, WashMop, Turn, BlipStart, BlipEnd, RobotSteps, RobotSet
<1>5. CASE Finish
  BY <1>1, <1>2, <1>5 DEF Finish, Turn, RobotSet, SeenSet
<1>6. CASE Depart \/ Travel \/ Wander
  BY <1>1, <1>2, <1>6 DEF Depart, Travel, Wander, RobotSteps, RobotSet
<1>7. CASE Touch
  BY <1>7 DEF Touch, InCare
<1>8. CASE Begins
  <2>1. CASE UNCHANGED <<robot, spare, held, said>>
    <3>1. run.pc = "idle" /\ seen' = seen
      BY <1>1, <1>8, BeginFrame
    <3> QED
      BY <2>1, <3>1 DEF InCare
  <2>2. CASE run'.pc = "pausing"
    BY <2>2 DEF InCare
  <2>3. CASE /\ run'.pc = "idle" /\ said' = said
             /\ held' = "raised" \/ UNCHANGED <<robot, held>>
    <3>1. run.pc = "idle"
      BY <1>1, <1>8, BeginFrame
    <3> QED
      BY <2>3, <3>1 DEF InCare
  <2> QED
    BY <1>1, <1>8, <2>1, <2>2, <2>3, BeginFrame
<1>9. CASE Step /\ UNCHANGED queue
  BY <1>9, CareOfStep
<1>10. CASE GuardOpens \/ LoseContact \/ LosePosition \/ Motor \/ Jam
  BY <1>2, <1>10 DEF GuardOpens, LoseContact, LosePosition, Motor, Jam
<1>11. CASE Poll \/ LoseStatus
  BY <1>1, <1>2, <1>11 DEF SeenSet, Poll, LoseStatus, Shown
<1>12. CASE Sample \/ AgeOut
  BY <1>1, <1>2, <1>12 DEF SeenSet, Sample, AgeOut, Sampled
<1>13. CASE Sustain \/ AgeMarker
  BY <1>1, <1>2, <1>13 DEF SeenSet, Sustain, AgeMarker
<1> QED
  BY <1>3, <1>4, <1>5, <1>6, <1>7, <1>8, <1>9, <1>10, <1>11, <1>12, <1>13, StepsAre DEF Roams

\* A robot that the automation paused and did not put back to work is reported, unless
\* its run died of a call that raised (build.py:344-474).
THEOREM StrandedIsReported == Spec => []StrandIsReported
<1>1. Init => InCare
  BY DEF Init, InCare
<1>2. InCare => StrandIsReported
  BY DEF InCare, StrandIsReported
<1> QED
  BY <1>1, <1>2, AutomationIsTyped, CareStays, PTL DEF Spec

-----------------------------------------------------------------------------
(* A docked robot moves no door. *)

LEMMA DockedStays == ASSUME FastPolls PROVE TypeOK /\ StillDocked /\ [Next]_vars => StillDocked'
<1> SUFFICES ASSUME TypeOK, StillDocked, [Next]_vars, count'["clean"] = 0
             PROVE  /\ robot'.place = "dock" /\ robot'.status \in {"charging", "docking"} /\ ~robot'.task
                    /\ robot'.status = "docking" => robot'.blip
                    /\ seen'.ended = "old" /\ seen'.outside # "on"
                    /\ \A i \in 1..Len(queue') : queue'[i] \in {"park_task", "park_dock"}
                    /\ run'.pc = "idle"
  BY DEF StillDocked
<1> DEFINE Docked == /\ robot'.place = "dock" /\ robot'.status \in {"charging", "docking"} /\ ~robot'.task
                     /\ robot'.status = "docking" => robot'.blip
           Unseen0 == seen'.ended = "old" /\ seen'.outside # "on"
           Parking == \A i \in 1..Len(queue') : queue'[i] \in {"park_task", "park_dock"}
<1>1. /\ robot \in RobotSet /\ seen \in SeenSet /\ count \in [Bounded -> Nat]
      /\ queue \in Seq(Triggers) /\ Len(queue) <= MaxRuns /\ MaxRuns \in Nat
      /\ run \in [pc : Pcs, waited : BOOLEAN]
  BY TypesAre, RunsAreBounded
<1>2. count["clean"] = 0
  <2>1. \A e \in Bounded : \A bound : Bump(e, bound) => count["clean"] = 0
    BY Counted DEF Bounded
  <2>2. UNCHANGED count => count["clean"] = 0
    OBVIOUS
  <2>3. {"clean", "visit", "mishap"} = Bounded
    BY DEF Bounded
  <2>4. Begins \/ Step => UNCHANGED count \/ Bump("mishap", MaxMishaps)
    BY <1>1, BeginFrame, StepFrame
  <2>5. Roams => count["clean"] = 0
    BY <2>1, <2>2, <2>3
       DEF Roams, StartClean, LeaveDock, Finish, WashMop, Depart, Travel, Wander, BlipStart, BlipEnd, Touch
  <2>6. UNCHANGED vars => UNCHANGED count
    BY DEF vars
  <2> QED
    BY <2>1, <2>2, <2>3, <2>4, <2>5, <2>6, StepsAre
       DEF GuardOpens, Poll, LoseStatus, Sample, AgeOut, Sampled, Sustain, AgeMarker, LoseContact,
                  LosePosition, Motor, Jam
<1>3. /\ robot.place = "dock" /\ robot.status \in {"charging", "docking"} /\ ~robot.task
      /\ robot.status = "docking" => robot.blip
      /\ seen.ended = "old" /\ seen.outside # "on"
      /\ \A i \in 1..Len(queue) : queue[i] \in {"park_task", "park_dock"}
      /\ run.pc = "idle"
  BY <1>2 DEF StillDocked
<1>4. ASSUME UNCHANGED <<robot, queue, run>>, seen'.ended \in {seen.ended, "old"}, seen'.outside = seen.outside
      PROVE  Docked /\ Unseen0 /\ Parking /\ run'.pc = "idle"
  BY <1>3, <1>4
<1>5. CASE UNCHANGED vars \/ GuardOpens \/ LoseContact \/ LosePosition \/ Motor \/ Jam
  BY <1>4, <1>5 DEF vars, GuardOpens, LoseContact, LosePosition, Motor, Jam
<1>6. CASE Roams
  <2>1. ~StartClean
    BY <1>1, <1>2 DEF StartClean, Bump, Bounded
  <2>2. ~LeaveDock /\ ~Finish /\ ~WashMop /\ ~Depart /\ ~Travel /\ ~Wander /\ ~Touch
    BY <1>3 DEF LeaveDock, Finish, WashMop, Turn, Depart, Travel, Wander, Touch, ReturnStates
  <2>3. BlipStart \/ BlipEnd
    BY <1>6, <2>1, <2>2 DEF Roams
  <2> QED
    BY <1>1, <1>3, <2>3 DEF BlipStart, BlipEnd, RobotSteps, RobotSet
<1>7. CASE Begins
  <2>1. queue # <<>> /\ queue' = Tail(queue) /\ seen' = seen
    BY <1>1, <1>7, BeginFrame
  <2>2. /\ Len(queue) \in Nat /\ Len(queue) > 0 /\ Len(queue') = Len(queue) - 1
        /\ Head(queue) = queue[1] /\ \A i \in 1..Len(queue') : queue'[i] = queue[i + 1]
    BY <1>1, <2>1, HeadTailProperties, LenProperties, EmptySeq
  <2>3. Head(queue) \in {"park_task", "park_dock"}
    BY <1>3, <2>2
  <2>4. Parking
    BY <1>3, <2>2
  <2>5. BeginNothing
    <3>1. ~BeginLeave /\ ~BeginReturn
      BY <2>3, LeaveTells, ReturnTells DEF BeginLeave, BeginReturn
    <3>2. ~BeginPark
      BY <1>3, ParkTells DEF BeginPark
    <3> QED
      BY <1>7, <3>1, <3>2 DEF Begins
  <2>6. UNCHANGED <<robot, run>>
    BY <2>5 DEF BeginNothing, World
  <2> QED
    BY <1>3, <2>1, <2>4, <2>6
<1>8. CASE Step
  BY <1>3, <1>8, StepFrame
<1>9. CASE Poll \/ LoseStatus
  <2>1. PICK status : Shown(status)
    BY <1>9 DEF Poll, LoseStatus
  <2> DEFINE ts == ParkTriggers(seen.status, status)
  <2>2. /\ UNCHANGED <<robot, run>> /\ queue' = Queued(ts)
        /\ seen' = [seen EXCEPT !.status = status, !.timer = status \in ReturnStates]
    BY <2>1 DEF Shown
  <2>3. seen'.ended = seen.ended /\ seen'.outside = seen.outside
    BY <1>1, <2>2 DEF SeenSet
  <2>4. ts \in Seq(Triggers) /\ \A i \in 1..Len(ts) : ts[i] \in {"park_task", "park_dock"}
    BY NewTriggers
  <2> HIDE DEF ts
  <2>5. Parking
    <3>1. /\ queue' \in Seq(Triggers) /\ Len(queue') <= Len(queue) + Len(ts)
          /\ Len(queue) \in Nat /\ Len(ts) \in Nat /\ Len(queue') \in Nat
          /\ \A i \in 1..Len(queue) : queue'[i] = queue[i]
          /\ \A i \in (Len(queue) + 1)..Len(queue') : queue'[i] = ts[i - Len(queue)]
      BY <1>1, <2>2, <2>4, QueuedIs, LenProperties
    <3> SUFFICES ASSUME NEW i \in 1..Len(queue') PROVE queue'[i] \in {"park_task", "park_dock"}
      OBVIOUS
    <3>2. CASE i \in 1..Len(queue)
      BY <1>3, <3>1, <3>2
    <3>3. CASE i \notin 1..Len(queue)
      <4>1. i \in (Len(queue) + 1)..Len(queue') /\ i - Len(queue) \in 1..Len(ts)
        BY <3>1, <3>3
      <4> QED
        BY <2>4, <3>1, <4>1
    <3> QED
      BY <3>2, <3>3
  <2> QED
    BY <1>3, <2>2, <2>3, <2>5
<1>10. CASE Sample \/ AgeOut
  <2>1. PICK outside \in {"off", "unknown"} : Sampled(outside)
    BY <1>3, <1>10 DEF Sample, AgeOut
  <2> DEFINE ts == LeaveTriggers(seen.outside, outside)
  <2>2. UNCHANGED <<robot, run>> /\ seen'.ended = seen.ended /\ seen'.outside = outside /\ queue' = Queued(ts)
    BY <1>1, <2>1 DEF Sampled, SeenSet
  <2>3. ts = <<>> /\ ts \in Seq(Triggers) /\ Len(ts) = 0
    BY NewTriggers, EmptySeq
  <2> HIDE DEF ts
  <2>4. Parking
    <3>1. /\ Len(queue') <= Len(queue) + 0 /\ Len(queue) <= Len(queue')
          /\ queue' \in Seq(Triggers)
          /\ \A i \in 1..Len(queue) : queue'[i] = queue[i]
      BY <1>1, <2>2, <2>3, QueuedIs
    <3>2. Len(queue) \in Nat /\ Len(queue') \in Nat
      BY <1>1, <3>1, LenProperties
    <3> QED
      BY <1>3, <3>1, <3>2
  <2> QED
    BY <1>3, <2>2, <2>4
<1>11. CASE Sustain
  <2>1. seen.status \in ReturnStates /\ seen.status = robot.status /\ ~robot.blip
    BY <1>11 DEF Sustain, Sustained
  <2> QED
    BY <1>3, <2>1 DEF ReturnStates
<1>12. CASE AgeMarker
  BY <1>3, <1>12 DEF AgeMarker
<1> QED
  BY <1>5, <1>6, <1>7, <1>8, <1>9, <1>10, <1>11, <1>12, StepsAre

\* Whatever the status of a docked robot blips through, no run moves the door, if the
\* sustained return of the trigger outlasts a blip (build.py:176-184).
THEOREM DockedRobotIsLeftAlone == ASSUME FastPolls PROVE Spec => DockedRobotMovesNoDoor
<1>1. Init => StillDocked
  BY EmptySeq DEF Init, StillDocked
<1>2. TypeOK /\ StillDocked /\ [Next]_vars
        => [run.pc # run'.pc /\ run'.pc \in {"open_settle", "leave_shut", "park_shut"}
              => count["clean"] > 0 \/ robot.place # "dock"]_vars
  <2> SUFFICES ASSUME TypeOK, StillDocked, Next, run'.pc \in {"open_settle", "leave_shut", "park_shut"},
                      ~(count["clean"] > 0)
               PROVE  FALSE
    OBVIOUS
  <2>1. count["clean"] = 0 /\ count \in [Bounded -> Nat]
    BY TypesAre DEF Bounded
  <2>2. run.pc = "idle" /\ run' # run
    BY <2>1 DEF StillDocked
  <2>3. Begins \/ Step
    <3>1. ~Roams
      BY <2>2 DEF Roams, StartClean, LeaveDock, Finish, WashMop, Depart, Travel, Wander,
                  BlipStart, BlipEnd, Touch, RobotSteps
    <3>2. ~(GuardOpens \/ Poll \/ LoseStatus \/ Sample \/ AgeOut \/ Sustain \/ AgeMarker \/ LoseContact
            \/ LosePosition \/ Motor \/ Jam)
      BY <2>2 DEF GuardOpens, Poll, LoseStatus, Shown, Sample, AgeOut, Sampled, Sustain, AgeMarker, LoseContact,
                  LosePosition, Motor, Jam
    <3> QED
      BY <3>1, <3>2, StepsAre
  <2>4. count'["clean"] = 0
    <3>1. run \in [pc : Pcs, waited : BOOLEAN] /\ "mishap" \in Bounded
      BY TypesAre DEF Bounded
    <3>2. UNCHANGED count \/ Bump("mishap", MaxMishaps)
      BY <2>3, <3>1, BeginFrame, StepFrame
    <3> QED
      BY <2>1, <3>1, <3>2, Counted
  <2>5. run'.pc = "idle"
    BY <2>4, DockedStays DEF StillDocked
  <2> QED
    BY <2>5
<1> QED
  BY <1>1, <1>2, AutomationIsTyped, DockedStays, PTL DEF Spec, DockedRobotMovesNoDoor

=============================================================================
