----------------------------- MODULE StuckTracker -----------------------------
(***************************************************************************)
(* The verdict that a robot which should be moving is stuck: StuckTracker  *)
(* of v1_stuck_detection.py, fed by the coordinator with each position it  *)
(* has read.                                                               *)
(*                                                                         *)
(* Two judgements over two anchors.  The short one reports a robot that    *)
(* stays near its anchor for a short window; any farther move gives it a   *)
(* new anchor.  The wide one, the backstop, reports a robot that moves but *)
(* does not leave a large region for a long time.  The first verdict of    *)
(* either is the one that is kept, and fires an event once.                *)
(***************************************************************************)
EXTENDS Integers

CONSTANTS
  Points,          \* positions of the robot
  Dist,            \* their distances
  Radius, Window,              \* of the short judgement
  BackRadius, BackWindow,      \* of the backstop
  MaxTime,         \* bound on the clock
  None,            \* no anchor, no verdict, no event
  Unreadable       \* a map without a position

ASSUME StuckAssumption ==
  /\ Dist \in [Points -> [Points -> Nat]]
  /\ \A p, q \in Points : Dist[p][q] = Dist[q][p] /\ Dist[p][p] = 0
  /\ \A p, q, r \in Points : Dist[p][r] <= Dist[p][q] + Dist[q][r]
  /\ Radius \in Nat /\ BackRadius \in Nat /\ Radius < BackRadius
  /\ Window \in Nat \ {0} /\ BackWindow \in Nat /\ Window < BackWindow
  /\ MaxTime \in Nat
  /\ Unreadable \notin Points
  /\ None \notin Int /\ None \notin [at : Points, since : Int]
  /\ None \notin [reason : {"stopped", "trapped"}, at : Int]

VARIABLES
  now,      \* the clock, at which every read is stamped
  tr,       \* the tracker: its two anchors, its verdicts, the last stamp
  sent,     \* _stuck_event_sent
  event,    \* the last EVENT_VACUUM_STUCK fired
  trail,    \* history: positions seen since the last reset
  skipped   \* history: those of them that only became an anchor after a gap

vars == <<now, tr, sent, event, trail, skipped>>

Time == 0..MaxTime
Anchor == [at : Points, since : Time]
Tracker ==
  [anchor : Anchor \cup {None},      \* _anchor
   stuck : Time \cup {None},         \* _stuck_since
   last : Time \cup {None},          \* _last_sample_time
   wide : Anchor \cup {None},        \* _backstop_anchor
   trapped : Time \cup {None}]       \* _backstop_since
Event == [reason : {"stopped", "trapped"}, at : Time]

Reset == [anchor |-> None, stuck |-> None, last |-> None, wide |-> None, trapped |-> None]

Place(p, t) == [at |-> p, since |-> t]

\* Neither verdict is overwritten while it stands.
Since(verdict, t) == IF verdict = None THEN t ELSE verdict

-----------------------------------------------------------------------------
(* StuckTracker.observe. *)

\* _observe_backstop.
Backstop(s, p, t) ==
  CASE s.wide = None -> [s EXCEPT !.wide = Place(p, t)]
    [] s.wide # None /\ Dist[p][s.wide.at] > BackRadius ->
         [s EXCEPT !.wide = Place(p, t), !.trapped = None]
    [] s.wide # None /\ Dist[p][s.wide.at] <= BackRadius
       /\ t - s.wide.since >= BackWindow ->
         [s EXCEPT !.trapped = Since(@, s.wide.since), !.stuck = Since(@, s.wide.since)]
    [] OTHER -> s

\* The new window goes on counting from the old one.
MovedKeepingTime(s, p, t) == [s EXCEPT !.anchor = Place(p, @.since), !.stuck = None]
\* A move takes the region of the backstop with it.
MovedAltogether(s, p, t) ==
  [s EXCEPT !.anchor = Place(p, t), !.wide = Place(p, t), !.stuck = None]
\* A move starts a new short window and drops the verdict.
Moved(s, p, t) == [s EXCEPT !.anchor = Place(p, t), !.stuck = None]

\* A position that was not seen before, with an anchor to judge it by.
Judged(s, p, t) ==
  IF Dist[p][s.anchor.at] > Radius THEN Backstop(Moved(s, p, t), p, t)
  ELSE IF t - s.anchor.since >= Window THEN [s EXCEPT !.stuck = Since(@, s.anchor.since)]
  ELSE Backstop(s, p, t)

\* The first position of a stretch, or the first after a gap.
Anchored(s, p, t) ==
  [s EXCEPT !.anchor = Place(p, t), !.wide = IF @ = None THEN Place(p, t) ELSE @]

\* A gap costs the short window, not the verdict.
Lost(s, t) == [s EXCEPT !.anchor = None, !.last = t]

Repeated(s, t) == s.last = t

Observed(s, p, t, move) ==
  CASE ~move -> Reset
    [] move /\ p = Unreadable -> Lost(s, t)
    [] move /\ p # Unreadable /\ Repeated(s, t) -> s
    [] OTHER ->
         LET u == [s EXCEPT !.last = t]
         IN IF s.anchor = None THEN Anchored(u, p, t) ELSE Judged(u, p, t)

-----------------------------------------------------------------------------
(* The coordinator. *)

\* stuck_is_backstop.
Reason(s) == IF s.trapped # None THEN "trapped" ELSE "stopped"

\* The event is remembered although the verdict was dropped.
ReportAlways(before, s) ==
  LET news == s.stuck # None /\ ~sent
  IN /\ event' = IF news THEN [reason |-> Reason(s), at |-> now] ELSE event
     /\ sent' = (sent \/ news)

\* _observe_stuck_detection after the tracker: one event for each verdict.
Report(before, s) ==
  LET news == s.stuck # None /\ ~(before.stuck # None /\ sent)
  IN /\ event' = IF news THEN [reason |-> Reason(s), at |-> now] ELSE event
     /\ sent' = (s.stuck # None)

\* A position has been read: p, with the robot in a state of movement or not.
Sample(p, move) ==
  /\ tr' = Observed(tr, p, now, move)
  /\ Report(tr, tr')
  /\ LET seen == IF p = Unreadable \/ Repeated(tr, now) THEN {} ELSE {Place(p, now)}
         resumes == tr.anchor = None /\ tr.wide # None
     IN /\ trail' = IF move THEN trail \cup seen ELSE {}
        /\ skipped' = IF ~move THEN {} ELSE IF resumes THEN skipped \cup seen ELSE skipped
  /\ UNCHANGED now

\* Time passes; a read that fails is not observed at all.
Tick == now < MaxTime /\ now' = now + 1 /\ UNCHANGED <<tr, sent, event, trail, skipped>>

Init ==
  /\ now = 0 /\ tr = Reset
  /\ sent = FALSE /\ event = None /\ trail = {} /\ skipped = {}

Next ==
  \/ Tick
  \/ \E p \in Points \cup {Unreadable}, move \in BOOLEAN : Sample(p, move)

Spec == Init /\ [][Next]_vars

-----------------------------------------------------------------------------
(* Properties. *)

\* Every variable has its type.
TypeOK ==
  /\ now \in Time /\ tr \in Tracker /\ sent \in BOOLEAN
  /\ event \in Event \cup {None}
  /\ trail \in SUBSET Anchor /\ skipped \in SUBSET trail

\* All positions judged from s on lie within r of s.
StayedNear(s, r) == \A q \in trail : q.since >= s.since => Dist[q.at][s.at] <= r

\* An event is true of the positions that were read: "stopped" of a robot that
\* stayed within the radius for the window, "trapped" of one that stayed in the
\* region, and a radius around it, for the long window
\* (v1_stuck_detection.py:284-324).  "trapped" promises nothing across a gap,
\* after which the backstop does not look at the next position.
EventTrue(e) ==
  \E s \in trail :
    IF e.reason = "stopped"
    THEN e.at - s.since >= Window /\ StayedNear(s, Radius)
    ELSE /\ e.at - s.since >= BackWindow
         /\ skipped = {} => StayedNear(s, BackRadius + Radius)

\* Every event is true, and a verdict that has had one gets no other while it stands.
EventsAreTrue == [][event' # event => EventTrue(event)' /\ tr.stuck = None]_vars

\* The swings of a trapped robot never erase the backstop's verdict: while the
\* backstop holds, the robot is stuck (v1_stuck_detection.py:302-305).
BackstopHolds == tr.trapped # None => tr.stuck # None

\* From its first position s to its last q the robot has not left the region it
\* began its movement in, or the radius if its positions had no gap, for a window.
Stays(s, q) ==
  LET over(r, w) == q.since - s.since >= w /\ StayedNear(s, r)
  IN  /\ \A o \in trail : s.since <= o.since /\ o.since <= q.since
      /\ \/ q \notin skipped /\ over(BackRadius, BackWindow)
         \/ skipped = {} /\ over(Radius, Window)

\* Such a robot is found stuck by the first position that is judged when the
\* window is over (v1_stuck_detection.py:187-196).
ReportedInTime == \A s, q \in trail : Stays(s, q) => tr.stuck # None

\* And its owner has had an event of this movement, whatever verdicts were reached,
\* told and dropped in movements before it (coordinator.py:452-458).
StuckIsTold ==
  \A s, q \in trail : Stays(s, q) => event # None /\ event.at - s.since >= Window

=============================================================================
