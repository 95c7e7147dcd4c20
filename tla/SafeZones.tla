------------------------------ MODULE SafeZones ------------------------------
(***************************************************************************)
(* The safe zones of the robots: one store for the whole installation,     *)
(* loaded once by whoever comes first, read without waiting by the garage  *)
(* runtime and the zone sensors, changed by services and written whole.    *)
(*                                                                         *)
(* Store, of Home Assistant, keeps the data of the latest save until a     *)
(* writer takes them; writers take turns, and one that finds nothing left  *)
(* to write returns.  A write is atomic.                                   *)
(***************************************************************************)
EXTENDS Integers, FiniteSets

CONSTANTS
  ZoneRobots,   \* the robots of the installation
  Zones,        \* what may be set for one
  MaxJobs,      \* bound: service calls, sensors added and setups
  MaxRestarts   \* bound: times Home Assistant stops without warning

ASSUME ZoneAssumption ==
  Zones \cap {"no zone", "unsure"} = {} /\ MaxRestarts \in Nat

NoZone == "no zone"
Jobs == 1..MaxJobs
ZoneMaps == [ZoneRobots -> Zones \cup {NoZone}]

VARIABLES
  disk,        \* the file
  pending,     \* Store's data not yet taken by a writer, or {}
  writing,     \* what the writer has taken, or {}
  zones,       \* _zones
  loaded,      \* _loaded
  job,         \* where each caller of the store stands
  seen,        \* what the sensors of a robot say
  restarts,    \* restarts left
  told,        \* history: the zone a robot must have, by the calls that returned
  early        \* history: the robots whose sensors came in the middle of a load

zoneVars == <<disk, pending, writing, zones, loaded, job, seen, restarts, told, early>>

-----------------------------------------------------------------------------
(* The store. *)

NoZones == [r \in ZoneRobots |-> NoZone]
Loads(j) == job[j].at \in {"loading", "read"}
Loading == \E j \in Jobs : Loads(j)
Saves(j) == job[j].at \in {"saving", "writing"}

\* async_set and async_clear change _zones before they save it; the save before the
\* change would be a plausible slip.
SnapshotBefore(old, new) == old
Snapshot(old, new) == new

At(j, at) == job' = [job EXCEPT ![j].at = at]
Called(at) == [at |-> at, op |-> "none", robot |-> "none", zone |-> NoZone, data |-> {}]
Finished(j, at) == job' = [job EXCEPT ![j] = Called(at)]
Began(j, at, op, robot, zone) ==
  job' = [job EXCEPT ![j] = [at |-> at, op |-> op, robot |-> robot, zone |-> zone, data |-> {}]]

\* What a caller does once async_load has returned, with _zones as they are then, up
\* to its next await.
Goes(j, op, robot, zone, now) ==
  LET next == [now EXCEPT ![robot] = zone]
  IN \/ /\ op \in {"set", "clear"}
        /\ zones' = next /\ pending' = {Snapshot(now, next)}
        /\ Began(j, "saving", op, robot, zone)
        /\ told' = IF \E i \in Jobs \ {j} : Loads(i) THEN [r \in ZoneRobots |-> "unsure"]
                   ELSE [told EXCEPT ![robot] = zone]
        /\ UNCHANGED <<seen, early>>
     \/ /\ op = "sensor"
        /\ seen' = [seen EXCEPT ![robot] = now[robot]]
        /\ early' = IF \E i \in Jobs \ {j} : Loads(i) THEN early \cup {robot} ELSE early
        /\ zones' = now /\ Finished(j, "over") /\ UNCHANGED <<pending, told>>
     \/ /\ op = "get"
        /\ zones' = now /\ Finished(j, "over")
        /\ UNCHANGED <<pending, seen, told, early>>

\* async_load goes to the file once, whether or not the file has been read; a load for
\* everybody would be a plausible slip.
MustLoadAlways == TRUE
MustLoad == ~loaded

Ask(j, op, robot, zone) ==
  /\ job[j].at = "idle" /\ (j > 1 => job[j - 1].at # "idle")
  /\ IF MustLoad THEN /\ loaded' = TRUE /\ Began(j, "loading", op, robot, zone)
                      /\ UNCHANGED <<zones, pending, seen, told, early>>
     ELSE Goes(j, op, robot, zone, zones) /\ UNCHANGED loaded
  /\ UNCHANGED <<disk, writing, restarts>>

SetZone(j, robot, zone) == Ask(j, "set", robot, zone)
ClearZone(j, robot) == Ask(j, "clear", robot, NoZone)
GetZone(j, robot) == Ask(j, "get", robot, NoZone)
EditorContext(j, robot) == Ask(j, "get", robot, NoZone)
SensorAdded(j, robot) == seen[robot] = "absent" /\ Ask(j, "sensor", robot, NoZone)
SetupGarages(j) == \E robot \in ZoneRobots : Ask(j, "get", robot, NoZone)

\* Store reads the file, or gives back what it has not written.
ReadsFile(j) ==
  /\ job[j].at = "loading"
  /\ job' = [job EXCEPT ![j].at = "read", ![j].data = IF pending # {} THEN pending ELSE {disk}]
  /\ UNCHANGED <<disk, pending, writing, zones, loaded, seen, restarts, told, early>>

LoadEnds(j) ==
  /\ job[j].at = "read"
  /\ \E now \in job[j].data : Goes(j, job[j].op, job[j].robot, job[j].zone, now)
  /\ UNCHANGED <<disk, writing, loaded, restarts>>

\* A record cannot be understood: the caller fails, and _loaded stays.
LoadFails(j) ==
  /\ job[j].at = "read" /\ Finished(j, "failed")
  /\ told' = [r \in ZoneRobots |-> "unsure"]
  /\ UNCHANGED <<disk, pending, writing, zones, loaded, seen, restarts, early>>

\* The signal of async_dispatcher_send, to the sensors that listen.
Signalled(robot) == seen' = IF seen[robot] = "absent" THEN seen ELSE [seen EXCEPT ![robot] = zones[robot]]

\* _async_save gets its turn: Store writes what is left to write.
Takes(j) ==
  /\ job[j].at = "saving" /\ writing = {}
  /\ IF pending = {} THEN Finished(j, "over") /\ Signalled(job[j].robot) /\ UNCHANGED writing
     ELSE At(j, "writing") /\ writing' = pending /\ UNCHANGED seen
  /\ pending' = {}
  /\ UNCHANGED <<disk, zones, loaded, restarts, told, early>>

Written(j) ==
  /\ job[j].at = "writing"
  /\ disk' \in writing /\ writing' = {}
  /\ Finished(j, "over") /\ Signalled(job[j].robot)
  /\ UNCHANGED <<pending, zones, loaded, restarts, told, early>>

\* The sensors also answer every update of their coordinator.
Updated(robot) ==
  /\ seen[robot] # "absent" /\ seen' = [seen EXCEPT ![robot] = zones[robot]]
  /\ early' = IF Loading THEN early ELSE early \ {robot}
  /\ UNCHANGED <<disk, pending, writing, zones, loaded, job, restarts, told>>

\* Home Assistant stops in the middle of anything and starts anew.
Restart ==
  /\ restarts > 0 /\ restarts' = restarts - 1
  /\ disk' \in {disk} \cup writing
  /\ zones' = NoZones /\ loaded' = FALSE /\ pending' = {} /\ writing' = {}
  /\ job' = [j \in Jobs |-> IF job[j].at \in {"idle", "over", "failed"} THEN job[j]
                           ELSE Called("failed")]
  /\ seen' = [r \in ZoneRobots |-> "absent"] /\ early' = {}
  /\ told' = [r \in ZoneRobots |-> IF \E j \in Jobs : Saves(j) /\ job[j].robot = r THEN "unsure" ELSE told[r]]

-----------------------------------------------------------------------------

ZoneInit ==
  /\ disk \in ZoneMaps /\ told = disk
  /\ pending = {} /\ writing = {} /\ zones = NoZones /\ loaded = FALSE
  /\ job = [j \in Jobs |-> Called("idle")]
  /\ seen = [r \in ZoneRobots |-> "absent"] /\ early = {}
  /\ restarts = MaxRestarts

ZoneNext ==
  \/ \E j \in Jobs :
       \/ \E r \in ZoneRobots :
            \/ \E z \in Zones : SetZone(j, r, z)
            \/ ClearZone(j, r) \/ GetZone(j, r) \/ EditorContext(j, r) \/ SensorAdded(j, r)
       \/ SetupGarages(j)
       \/ ReadsFile(j) \/ LoadEnds(j) \/ LoadFails(j) \/ Takes(j) \/ Written(j)
  \/ \E r \in ZoneRobots : Updated(r)
  \/ Restart

ZoneSpec == ZoneInit /\ [][ZoneNext]_zoneVars

-----------------------------------------------------------------------------
(* Properties. *)

\* A zone that was set or cleared by a call that returned is the one in the file, the
\* one in memory and the one the sensors speak of, through restarts and the saves of
\* other robots' zones, unless a change was made in the middle of a load or a load has
\* failed (safe_zone_store.py:57-101, binary_sensor.py:264-279).
SavedZoneSurvives ==
  \A r \in ZoneRobots :
    (told[r] # "unsure" /\ \A j \in Jobs : ~(Saves(j) /\ job[j].robot = r)) =>
      /\ disk[r] = told[r]
      /\ (loaded /\ ~Loading) => zones[r] = told[r]
      /\ seen[r] \in {"absent", told[r]} \/ r \in early
=============================================================================
