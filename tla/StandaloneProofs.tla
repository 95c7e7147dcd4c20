--------------------------- MODULE StandaloneProofs ---------------------------
(***************************************************************************)
(* Proofs about the parts of the integration that share no state with the  *)
(* others, each by itself: those that keep what its users have set, for    *)
(* any accounts, robots, zones, spots and bounds; and the tracker of stuck *)
(* robots, for every set of positions, every radius and every window.      *)
(***************************************************************************)
EXTENDS SafeZones, DeviceSettings, AccountFlow, MapImage, StuckTracker, TLAPS

-----------------------------------------------------------------------------
(* The safe zones.  A robot whose zone is certain has it in whatever will  *)
(* be written last: in the data that wait for a writer or, when none wait, *)
(* in what is being written or, when nothing is, in the file.  Once no     *)
(* call for the robot is at its save, all three agree about it.  In the    *)
(* middle of the load nothing has been saved as long as any zone is        *)
(* certain, so what the load finds is what the file says.                  *)

JobSet == [at : {"idle", "loading", "read", "saving", "writing", "over", "failed"},
           op : {"none", "set", "clear", "get", "sensor"}, robot : ZoneRobots \cup {"none"},
           zone : Zones \cup {NoZone}, data : SUBSET ZoneMaps]

ZoneTypeOK ==
  /\ disk \in ZoneMaps /\ zones \in ZoneMaps
  /\ pending \in SUBSET ZoneMaps /\ writing \in SUBSET ZoneMaps
  /\ loaded \in BOOLEAN /\ restarts \in Nat
  /\ job \in [Jobs -> JobSet]
  /\ \A j \in Jobs : Loads(j) \/ Saves(j) => job[j].robot \in ZoneRobots
  /\ seen \in [ZoneRobots -> Zones \cup {NoZone, "absent"}] /\ early \in SUBSET ZoneRobots
  /\ told \in [ZoneRobots -> Zones \cup {NoZone, "unsure"}]

Certain(r) == told[r] # "unsure"
SavesFor(j, r) == Saves(j) /\ job[j].robot = r

\* The file is read once until the next restart, and nothing happens before.
OneLoad == \A i, j \in Jobs : Loads(i) /\ Loads(j) => i = j
BeforeLoad ==
  ~loaded => /\ pending = {} /\ writing = {}
             /\ \A j \in Jobs : ~Loads(j) /\ ~Saves(j)
             /\ \A r \in ZoneRobots : seen[r] = "absent"

\* In the middle of a load.
MidLoad(r) ==
  Loading => /\ pending = {} /\ writing = {}
             /\ \A j \in Jobs : ~Saves(j) /\ (job[j].at = "read" => \A d \in job[j].data : d[r] = told[r])
             /\ seen[r] # "absent" => r \in early

\* What will be written last.
LastWritten(r) ==
  /\ \A p \in pending : p[r] = told[r]
  /\ pending = {} => \A w \in writing : w[r] = told[r]
  /\ pending = {} /\ writing = {} => disk[r] = told[r]

\* What has been settled.
InFile(r) ==
  (\A j \in Jobs : ~SavesFor(j, r)) => disk[r] = told[r] /\ (seen[r] \in {"absent", told[r]} \/ r \in early)
InWriting(r) ==
  (\A j \in Jobs : SavesFor(j, r) => job[j].at = "writing") => \A w \in writing : w[r] = told[r]
InMemory(r) == loaded /\ ~Loading => zones[r] = told[r]
Settled(r) == InFile(r) /\ InWriting(r) /\ InMemory(r)

ZoneInv ==
  /\ ZoneTypeOK /\ OneLoad /\ BeforeLoad
  /\ \A r \in ZoneRobots : Certain(r) => MidLoad(r) /\ LastWritten(r) /\ Settled(r)

\* The initial states satisfy it: nothing is loaded, and the file says what is certain.
LEMMA ZoneBegins == ASSUME ZoneAssumption PROVE ZoneInit => ZoneInv
<1> SUFFICES ASSUME ZoneAssumption, ZoneInit PROVE ZoneInv
  OBVIOUS
<1>1. \A j \in Jobs : job[j].at = "idle"
  BY DEF ZoneInit, Called
<1>2. ZoneTypeOK
  BY <1>1 DEF ZoneInit, ZoneTypeOK, ZoneMaps, NoZones, Called, JobSet, Loads, Saves, ZoneAssumption
<1>3. OneLoad /\ BeforeLoad /\ ~Loading
  BY <1>1 DEF ZoneInit, OneLoad, BeforeLoad, Loading, Loads, Saves
<1>4. \A r \in ZoneRobots : MidLoad(r) /\ LastWritten(r) /\ Settled(r)
  BY <1>3 DEF ZoneInit, MidLoad, LastWritten, Settled, InFile, InWriting, InMemory
<1> QED
  BY <1>2, <1>3, <1>4 DEF ZoneInv

\* A caller whose load has returned, with what is certain in the zones it was given: it
\* changes one of them and is to save it, shows it on a sensor or reads it.
LEMMA GoesStep ==
  ASSUME ZoneAssumption, ZoneInv, NEW j \in Jobs, NEW op, NEW robot \in ZoneRobots,
         NEW zone \in Zones \cup {NoZone}, NEW current \in ZoneMaps,
         Goes(j, op, robot, zone, current), UNCHANGED <<disk, writing, loaded, restarts>>,
         ~Saves(j), loaded,
         \A r \in ZoneRobots : Certain(r) /\ ~(\E i \in Jobs \ {j} : Loads(i)) => current[r] = told[r]
  PROVE  ZoneInv'
<1> DEFINE Others == \E i \in Jobs \ {j} : Loads(i)
<1>1. ZoneTypeOK /\ OneLoad
  BY DEF ZoneInv
<1>2. CASE op \in {"set", "clear"} /\ pending' = {[current EXCEPT ![robot] = zone]}
  <2> DEFINE next == [current EXCEPT ![robot] = zone]
             new == [at |-> "saving", op |-> op, robot |-> robot, zone |-> zone, data |-> {}]
  <2>1. /\ zones' = next /\ pending' = {next} /\ seen' = seen /\ early' = early
        /\ job' = [job EXCEPT ![j] = new]
        /\ told' = IF Others THEN [r \in ZoneRobots |-> "unsure"] ELSE [told EXCEPT ![robot] = zone]
    BY <1>2 DEF Goes, Snapshot, Began
  <2>2. next \in ZoneMaps /\ next[robot] = zone /\ \A r \in ZoneRobots \ {robot} : next[r] = current[r]
    BY DEF ZoneMaps
  <2>3. new \in JobSet
    BY <1>2 DEF JobSet
  <2>10. new.at = "saving" /\ new.robot = robot
    OBVIOUS
  <2> HIDE DEF next, new
  <2>4. \A i \in Jobs : job'[i] = IF i = j THEN new ELSE job[i]
    BY <1>1, <2>1 DEF ZoneTypeOK
  <2>5. /\ Saves(j)' /\ ~Loads(j)' /\ job'[j].robot = robot /\ job'[j].at = "saving"
        /\ \A i \in Jobs \ {j} : (Loads(i)' <=> Loads(i)) /\ (Saves(i)' <=> Saves(i)) /\ job'[i] = job[i]
    BY <2>4, <2>10 DEF Loads, Saves
  <2>6. ZoneTypeOK'
    BY <1>1, <2>1, <2>2, <2>3, <2>5 DEF ZoneTypeOK
  <2>7. OneLoad' /\ BeforeLoad'
    BY <1>1, <2>5 DEF OneLoad, BeforeLoad
  <2>8. CASE Others
    <3>1. \A r \in ZoneRobots : ~Certain(r)'
      BY <2>1, <2>8 DEF Certain
    <3> QED
      BY <2>6, <2>7, <3>1 DEF ZoneInv
  <2>9. CASE ~Others
    <3>1. ~Loading'
      BY <2>5, <2>9 DEF Loading
    <3>2. \A r \in ZoneRobots : told'[r] = IF r = robot THEN zone ELSE told[r]
      BY <1>1, <2>1, <2>9 DEF ZoneTypeOK
    <3>3. ASSUME NEW r \in ZoneRobots, Certain(r)' PROVE MidLoad(r)' /\ LastWritten(r)' /\ Settled(r)'
      <4>1. next[r] = told'[r]
        BY <2>2, <2>9, <3>2, <3>3 DEF Certain
      <4>2. MidLoad(r)'
        BY <3>1 DEF MidLoad
      <4>3. LastWritten(r)'
        BY <2>1, <4>1 DEF LastWritten
      <4>4. SavesFor(j, robot)' /\ job'[j].at # "writing"
        BY <2>5 DEF SavesFor
      <4>5. CASE r = robot
        <5>1. InFile(r)' /\ InWriting(r)'
          BY <4>4, <4>5 DEF InFile, InWriting
        <5>2. InMemory(r)'
          BY <2>1, <4>1 DEF InMemory
        <5> QED
          BY <4>2, <4>3, <5>1, <5>2 DEF Settled
      <4>6. CASE r # robot
        <5>1. told'[r] = told[r] /\ Certain(r) /\ Settled(r)
          BY <3>2, <3>3, <4>6 DEF Certain, ZoneInv
        <5>2. \A i \in Jobs : (SavesFor(i, r)' <=> SavesFor(i, r)) /\ (SavesFor(i, r) => job'[i] = job[i])
          BY <2>5, <4>6 DEF SavesFor
        <5>3. InFile(r)' /\ InWriting(r)'
          BY <2>1, <5>1, <5>2 DEF Settled, InFile, InWriting
        <5>4. InMemory(r)'
          BY <2>1, <4>1 DEF InMemory
        <5> QED
          BY <4>2, <4>3, <5>3, <5>4 DEF Settled
      <4> QED
        BY <4>5, <4>6
    <3> QED
      BY <2>6, <2>7, <3>3 DEF ZoneInv
  <2> QED
    BY <2>8, <2>9
<1>3. CASE /\ op \in {"sensor", "get"} /\ zones' = current /\ Finished(j, "over") /\ UNCHANGED <<pending, told>>
           /\ \/ UNCHANGED <<seen, early>>
              \/ /\ seen' = [seen EXCEPT ![robot] = current[robot]]
                 /\ early' = IF Others THEN early \cup {robot} ELSE early
  <2> DEFINE new == Called("over")
  <2>1. new \in JobSet /\ new.at = "over"
    BY DEF Called, JobSet
  <2>2. \A i \in Jobs : job'[i] = IF i = j THEN new ELSE job[i]
    BY <1>1, <1>3 DEF ZoneTypeOK, Finished
  <2> HIDE DEF new
  <2>3. job' \in [Jobs -> JobSet]
    BY <1>1, <1>3, <2>1 DEF ZoneTypeOK, Finished, new
  <2>4. /\ ~Saves(j)' /\ ~Loads(j)' /\ job'[j].at = "over"
        /\ \A i \in Jobs \ {j} : (Loads(i)' <=> Loads(i)) /\ (Saves(i)' <=> Saves(i)) /\ job'[i] = job[i]
    BY <2>1, <2>2 DEF Loads, Saves
  <2>5. (Loading' <=> Others) /\ (Others => Loading)
    BY <2>4 DEF Loading
  <2>6. ZoneTypeOK'
    <3>0. current[robot] \in Zones \cup {NoZone, "absent"}
      BY DEF ZoneMaps
    <3>1. seen' \in [ZoneRobots -> Zones \cup {NoZone, "absent"}] /\ early' \in SUBSET ZoneRobots
      BY <1>1, <1>3, <3>0 DEF ZoneTypeOK
    <3>2. \A i \in Jobs : Loads(i)' \/ Saves(i)' => job'[i].robot \in ZoneRobots
      BY <1>1, <2>4 DEF ZoneTypeOK
    <3> QED
      BY <1>1, <1>3, <2>3, <3>1, <3>2 DEF ZoneTypeOK
  <2>7. OneLoad' /\ BeforeLoad'
    BY <1>1, <2>4 DEF OneLoad, BeforeLoad
  <2>8. ASSUME NEW r \in ZoneRobots, Certain(r)' PROVE MidLoad(r)' /\ LastWritten(r)' /\ Settled(r)'
    <3>1. told'[r] = told[r] /\ Certain(r) /\ MidLoad(r) /\ LastWritten(r) /\ Settled(r)
      BY <1>3, <2>8 DEF Certain, ZoneInv
    <3>2. \/ seen'[r] = seen[r] /\ early' = early
          \/ /\ seen'[r] = current[r] /\ r = robot
             /\ early' = IF Others THEN early \cup {robot} ELSE early
          \/ /\ seen'[r] = seen[r]
             /\ early' = IF Others THEN early \cup {robot} ELSE early
      BY <1>1, <1>3 DEF ZoneTypeOK
    <3>3. LastWritten(r)'
      BY <1>3, <3>1 DEF LastWritten
    <3>4. MidLoad(r)'
      <4>1. Others => \A i \in Jobs : ~Saves(i)' /\ (job'[i].at = "read" => \A d \in job'[i].data : d[r] = told'[r])
        BY <2>4, <2>5, <3>1 DEF MidLoad
      <4>2. Others => (seen'[r] # "absent" => r \in early')
        BY <2>5, <3>1, <3>2 DEF MidLoad
      <4> QED
        BY <1>3, <2>5, <3>1, <4>1, <4>2 DEF MidLoad
    <3>5. \A i \in Jobs : (SavesFor(i, r)' <=> SavesFor(i, r)) /\ (SavesFor(i, r) => job'[i] = job[i])
      BY <2>4 DEF SavesFor
    <3>6. Settled(r)'
      <4>1. InWriting(r)' /\ InMemory(r)'
        BY <1>3, <2>5, <3>1, <3>2, <3>5 DEF Settled, InWriting, InMemory
      <4>2. InFile(r)'
        BY <1>3, <2>5, <3>1, <3>2, <3>5 DEF Settled, InFile
      <4> QED
        BY <4>1, <4>2 DEF Settled
    <3> QED
      BY <3>3, <3>4, <3>6
  <2> QED
    BY <2>6, <2>7, <2>8 DEF ZoneInv
<1> QED
  BY <1>2, <1>3 DEF Goes, Snapshot

\* A caller that asks for the zones: the first begins the load, any other goes on.
LEMMA AskStep ==
  ASSUME ZoneAssumption, ZoneInv, NEW j \in Jobs, NEW op \in {"set", "clear", "get", "sensor"},
         NEW robot \in ZoneRobots, NEW zone \in Zones \cup {NoZone}, Ask(j, op, robot, zone)
  PROVE  ZoneInv'
<1>1. ZoneTypeOK /\ OneLoad /\ BeforeLoad
  BY DEF ZoneInv
<1>2. CASE loaded
  <2>1. Goes(j, op, robot, zone, zones) /\ UNCHANGED <<disk, writing, loaded, restarts>>
    BY <1>2 DEF Ask, MustLoad
  <2>2. ~Saves(j) /\ ~Loads(j)
    BY DEF Ask, Saves, Loads
  <2>3. \A r \in ZoneRobots : Certain(r) /\ ~(\E i \in Jobs \ {j} : Loads(i)) => zones[r] = told[r]
    BY <1>2, <2>2 DEF ZoneInv, Settled, InMemory, Loading
  <2> QED
    BY <1>1, <1>2, <2>1, <2>2, <2>3, GoesStep DEF ZoneTypeOK
<1>3. CASE ~loaded
  <2> DEFINE new == [at |-> "loading", op |-> op, robot |-> robot, zone |-> zone, data |-> {}]
  <2>1. /\ loaded' = TRUE /\ job' = [job EXCEPT ![j] = new]
        /\ UNCHANGED <<zones, pending, seen, told, early, disk, writing, restarts>>
    BY <1>3 DEF Ask, MustLoad, Began
  <2>2. new \in JobSet /\ new.at = "loading" /\ new.robot = robot
    BY DEF JobSet
  <2> HIDE DEF new
  <2>3. \A i \in Jobs : job'[i] = IF i = j THEN new ELSE job[i]
    BY <1>1, <2>1 DEF ZoneTypeOK
  <2>4. /\ Loads(j)' /\ job'[j].at = "loading" /\ job'[j].robot \in ZoneRobots
        /\ \A i \in Jobs : ~Saves(i)' /\ (i # j => ~Loads(i)') /\ (i # j => job'[i] = job[i])
    BY <1>1, <1>3, <2>2, <2>3 DEF BeforeLoad, Loads, Saves
  <2>5. ZoneTypeOK'
    BY <1>1, <2>1, <2>2, <2>4 DEF ZoneTypeOK
  <2>6. OneLoad' /\ BeforeLoad' /\ Loading'
    BY <2>1, <2>4 DEF OneLoad, BeforeLoad, Loading
  <2>7. ASSUME NEW r \in ZoneRobots, Certain(r)' PROVE MidLoad(r)' /\ LastWritten(r)' /\ Settled(r)'
    <3>1. Certain(r) /\ LastWritten(r) /\ Settled(r) /\ told' = told
      BY <2>1, <2>7 DEF Certain, ZoneInv
    <3>2. \A i \in Jobs : ~SavesFor(i, r) /\ ~SavesFor(i, r)'
      BY <1>1, <1>3, <2>4 DEF BeforeLoad, SavesFor
    <3>3. MidLoad(r)'
      <4>1. pending' = {} /\ writing' = {} /\ seen'[r] = "absent"
        BY <1>1, <1>3, <2>1 DEF BeforeLoad
      <4>2. \A i \in Jobs : job'[i].at # "read"
        BY <1>1, <1>3, <2>4 DEF BeforeLoad, Loads
      <4> QED
        BY <2>4, <4>1, <4>2 DEF MidLoad
    <3>4. LastWritten(r)'
      BY <2>1, <3>1 DEF LastWritten
    <3>5. InFile(r)' /\ InWriting(r)'
      BY <2>1, <3>1, <3>2 DEF Settled, InFile, InWriting
    <3>6. InMemory(r)'
      BY <2>6 DEF InMemory
    <3> QED
      BY <3>3, <3>4, <3>5, <3>6 DEF Settled
  <2> QED
    BY <2>5, <2>6, <2>7 DEF ZoneInv
<1> QED
  BY <1>2, <1>3

\* The load itself: reads, ends or fails.
LEMMA LoadStep ==
  ASSUME ZoneAssumption, ZoneInv, NEW j \in Jobs, ReadsFile(j) \/ LoadEnds(j) \/ LoadFails(j)
  PROVE  ZoneInv'
<1>1. ZoneTypeOK /\ OneLoad /\ BeforeLoad /\ job[j] \in JobSet
  BY DEF ZoneInv, ZoneTypeOK
<1>2. CASE ReadsFile(j)
  <2> DEFINE found == IF pending # {} THEN pending ELSE {disk}
             new == [job[j] EXCEPT !.at = "read", !.data = found]
  <2>1. found \in SUBSET ZoneMaps
    BY <1>1 DEF ZoneTypeOK
  <2>2. job' = [job EXCEPT ![j] = new]
        /\ UNCHANGED <<disk, pending, writing, zones, loaded, seen, restarts, told, early>>
    BY <1>1, <1>2 DEF ReadsFile, ZoneTypeOK
  <2>3. pending = {} => \A d \in found : d = disk
    OBVIOUS
  <2> HIDE DEF found
  <2>4. new \in JobSet
    BY <1>1, <2>1 DEF JobSet
  <2>5. new.at = "read" /\ new.data = found /\ new.robot = job[j].robot
    BY <1>1 DEF JobSet
  <2> HIDE DEF new
  <2>6. \A i \in Jobs : job'[i] = IF i = j THEN new ELSE job[i]
    BY <1>1, <2>2 DEF ZoneTypeOK
  <2>7. /\ Loads(j) /\ job'[j].data = found /\ job'[j].robot = job[j].robot
        /\ \A i \in Jobs : (Loads(i)' <=> Loads(i)) /\ (Saves(i)' <=> Saves(i))
                           /\ (i # j => job'[i] = job[i])
    BY <1>2, <2>5, <2>6 DEF ReadsFile, Loads, Saves
  <2>8. ZoneTypeOK'
    BY <1>1, <2>2, <2>4, <2>7 DEF ZoneTypeOK
  <2>9. OneLoad' /\ BeforeLoad'
    BY <1>1, <2>2, <2>7 DEF OneLoad, BeforeLoad
  <2>10. Loading' /\ Loading
    BY <2>7 DEF Loading
  <2>11. ASSUME NEW r \in ZoneRobots, Certain(r)' PROVE MidLoad(r)' /\ LastWritten(r)' /\ Settled(r)'
    <3>1. Certain(r) /\ MidLoad(r) /\ LastWritten(r) /\ Settled(r)
      BY <2>2, <2>11 DEF Certain, ZoneInv
    <3>2. pending = {} /\ writing = {} /\ disk[r] = told[r]
      BY <2>10, <3>1 DEF MidLoad, LastWritten
    <3>3. \A i \in Jobs : ~Saves(i)' /\ (job'[i].at = "read" => \A d \in job'[i].data : d[r] = told'[r])
      BY <2>2, <2>3, <2>7, <2>10, <3>1, <3>2 DEF MidLoad
    <3>4. MidLoad(r)' /\ LastWritten(r)'
      BY <2>2, <2>10, <3>1, <3>2, <3>3 DEF MidLoad, LastWritten
    <3>5. \A i \in Jobs : ~SavesFor(i, r) /\ ~SavesFor(i, r)'
      BY <2>7, <3>3 DEF SavesFor
    <3>6. InFile(r)' /\ InWriting(r)' /\ InMemory(r)'
      BY <2>2, <2>10, <3>1, <3>2, <3>5 DEF Settled, InFile, InWriting, InMemory
    <3> QED
      BY <3>4, <3>6 DEF Settled
  <2> QED
    BY <2>8, <2>9, <2>11 DEF ZoneInv
<1>3. CASE LoadEnds(j)
  <2>1. PICK current \in job[j].data : Goes(j, job[j].op, job[j].robot, job[j].zone, current)
    BY <1>3 DEF LoadEnds
  <2>2. Loads(j) /\ ~Saves(j) /\ loaded /\ job[j].at = "read"
    BY <1>1, <1>3 DEF LoadEnds, Loads, Saves, BeforeLoad, ZoneTypeOK
  <2>3. current \in ZoneMaps /\ job[j].robot \in ZoneRobots /\ job[j].zone \in Zones \cup {NoZone}
    BY <1>1, <2>2 DEF ZoneTypeOK, JobSet
  <2>4. \A r \in ZoneRobots : Certain(r) => current[r] = told[r]
    BY <2>2 DEF ZoneInv, MidLoad, Loading
  <2> QED
    BY <1>3, <2>1, <2>2, <2>3, <2>4, GoesStep DEF LoadEnds
<1>4. CASE LoadFails(j)
  <2> DEFINE new == Called("failed")
  <2>1. new \in JobSet /\ new.at = "failed"
    BY DEF Called, JobSet
  <2>2. /\ job' = [job EXCEPT ![j] = new] /\ told' = [r \in ZoneRobots |-> "unsure"]
        /\ UNCHANGED <<disk, pending, writing, zones, loaded, seen, restarts, early>>
    BY <1>4 DEF LoadFails, Finished
  <2> HIDE DEF new
  <2>3. \A i \in Jobs : job'[i] = IF i = j THEN new ELSE job[i]
    BY <1>1, <2>2 DEF ZoneTypeOK
  <2>4. \A i \in Jobs : (Loads(i)' => Loads(i)) /\ (Saves(i)' => Saves(i))
                        /\ (Loads(i)' \/ Saves(i)' => job'[i] = job[i])
    BY <2>1, <2>3 DEF Loads, Saves
  <2>5. ZoneTypeOK'
    BY <1>1, <2>1, <2>2, <2>4 DEF ZoneTypeOK
  <2>6. OneLoad' /\ BeforeLoad'
    BY <1>1, <2>2, <2>4 DEF OneLoad, BeforeLoad
  <2>7. \A r \in ZoneRobots : ~Certain(r)'
    BY <2>2 DEF Certain
  <2> QED
    BY <2>5, <2>6, <2>7 DEF ZoneInv
<1> QED
  BY <1>2, <1>3, <1>4

\* A save whose turn it is finds nothing left and is over, or takes what waits.
LEMMA TakesStep ==
  ASSUME ZoneAssumption, ZoneInv, NEW j \in Jobs, Takes(j)
  PROVE  ZoneInv'
<1> DEFINE new == IF pending = {} THEN Called("over") ELSE [job[j] EXCEPT !.at = "writing"]
<1>1. ZoneTypeOK /\ OneLoad /\ BeforeLoad /\ job[j] \in JobSet
  BY DEF ZoneInv, ZoneTypeOK
<1>2. /\ job[j].at = "saving" /\ writing = {} /\ pending' = {} /\ writing' = pending
      /\ job' = [job EXCEPT ![j] = new]
      /\ UNCHANGED <<disk, zones, loaded, restarts, told, early>>
  <2>1. job' = [job EXCEPT ![j] = new]
    BY <1>1 DEF Takes, Finished, At, ZoneTypeOK
  <2> QED
    BY <2>1 DEF Takes
<1>3. new \in JobSet
  BY <1>1 DEF Called, JobSet
<1>4. new.at = (IF pending = {} THEN "over" ELSE "writing") /\ (pending # {} => new.robot = job[j].robot)
  BY <1>1 DEF Called, JobSet
<1>5. seen' = seen \/ seen' = [seen EXCEPT ![job[j].robot] = zones[job[j].robot]]
  BY DEF Takes, Signalled
<1> HIDE DEF new
<1>6. \A i \in Jobs : job'[i] = IF i = j THEN new ELSE job[i]
  BY <1>1, <1>2 DEF ZoneTypeOK
<1>7. /\ Saves(j) /\ (Saves(j)' <=> pending # {}) /\ (pending # {} => job'[j].at = "writing")
      /\ \A i \in Jobs : (Loads(i)' <=> Loads(i)) /\ (i # j => (Saves(i)' <=> Saves(i)) /\ job'[i] = job[i])
  BY <1>2, <1>4, <1>6 DEF Loads, Saves
<1>8. loaded /\ job[j].robot \in ZoneRobots /\ (Loading' <=> Loading)
  BY <1>1, <1>7 DEF BeforeLoad, ZoneTypeOK, Loading
<1>9. ZoneTypeOK'
  <2>1. seen' \in [ZoneRobots -> Zones \cup {NoZone, "absent"}]
    BY <1>1, <1>5, <1>8 DEF ZoneTypeOK, ZoneMaps
  <2>2. \A i \in Jobs : Loads(i)' \/ Saves(i)' => job'[i].robot \in ZoneRobots
    BY <1>1, <1>2, <1>4, <1>6, <1>7 DEF ZoneTypeOK, Loads
  <2> QED
    BY <1>1, <1>2, <1>3, <2>1, <2>2 DEF ZoneTypeOK
<1>10. OneLoad' /\ BeforeLoad'
  BY <1>1, <1>2, <1>7, <1>8 DEF OneLoad, BeforeLoad
<1>11. ASSUME NEW r \in ZoneRobots, Certain(r)' PROVE MidLoad(r)' /\ LastWritten(r)' /\ Settled(r)'
  <2>1. told'[r] = told[r] /\ Certain(r) /\ MidLoad(r) /\ LastWritten(r) /\ Settled(r)
    BY <1>2, <1>11 DEF Certain, ZoneInv
  <2>2. ~Loading /\ ~Loading' /\ zones[r] = told[r]
    BY <1>7, <1>8, <2>1 DEF MidLoad, Settled, InMemory
  <2>3. MidLoad(r)' /\ InMemory(r)'
    BY <1>2, <2>1, <2>2 DEF MidLoad, InMemory
  <2>4. LastWritten(r)'
    BY <1>2, <2>1 DEF LastWritten
  <2>5. InWriting(r)'
    BY <1>2, <2>1 DEF LastWritten, InWriting
  <2>6. InFile(r)'
    <3>1. seen'[r] = seen[r] \/ seen'[r] = told[r]
      BY <1>1, <1>5, <2>2 DEF ZoneTypeOK
    <3>2. CASE \A i \in Jobs : ~SavesFor(i, r)
      BY <1>2, <2>1, <3>1, <3>2 DEF Settled, InFile
    <3>3. CASE job[j].robot = r /\ \A i \in Jobs : ~SavesFor(i, r)'
      <4>1. pending = {}
        BY <1>4, <1>6, <1>7, <3>3 DEF SavesFor
      <4>2. disk'[r] = told'[r]
        BY <1>2, <2>1, <4>1 DEF LastWritten
      <4>3. seen'[r] \in {"absent", told[r]}
        BY <1>1, <1>2, <2>2, <3>3, <4>1 DEF Takes, Signalled, ZoneTypeOK
      <4> QED
        BY <1>2, <4>2, <4>3 DEF InFile
    <3>4. CASE job[j].robot # r /\ \E i \in Jobs : SavesFor(i, r)
      BY <1>7, <3>4 DEF SavesFor, InFile
    <3>5. CASE \E i \in Jobs : SavesFor(i, r)'
      BY <3>5 DEF InFile
    <3> QED
      BY <3>2, <3>3, <3>4, <3>5
  <2> QED
    BY <2>1, <2>3, <2>4, <2>5, <2>6 DEF Settled
<1> QED
  BY <1>9, <1>10, <1>11 DEF ZoneInv

\* A write ends: what was taken is the file.
LEMMA WrittenStep ==
  ASSUME ZoneAssumption, ZoneInv, NEW j \in Jobs, Written(j)
  PROVE  ZoneInv'
<1> DEFINE new == Called("over")
<1>1. ZoneTypeOK /\ OneLoad /\ BeforeLoad /\ new \in JobSet /\ new.at = "over"
  BY DEF ZoneInv, Called, JobSet
<1>2. /\ job[j].at = "writing" /\ disk' \in writing /\ writing' = {}
      /\ job' = [job EXCEPT ![j] = new] /\ Signalled(job[j].robot)
      /\ UNCHANGED <<pending, zones, loaded, restarts, told, early>>
  BY DEF Written, Finished
<1> HIDE DEF new
<1>3. \A i \in Jobs : job'[i] = IF i = j THEN new ELSE job[i]
  BY <1>1, <1>2 DEF ZoneTypeOK
<1>4. /\ Saves(j) /\ ~Saves(j)' /\ job[j].at = "writing"
      /\ \A i \in Jobs : (Loads(i)' <=> Loads(i)) /\ (i # j => (Saves(i)' <=> Saves(i)) /\ job'[i] = job[i])
  BY <1>1, <1>2, <1>3 DEF Loads, Saves
<1>5. loaded /\ job[j].robot \in ZoneRobots /\ (Loading' <=> Loading)
  BY <1>1, <1>4 DEF BeforeLoad, ZoneTypeOK, Loading
<1>6. ZoneTypeOK'
  <2>1. seen' \in [ZoneRobots -> Zones \cup {NoZone, "absent"}]
    BY <1>1, <1>2, <1>5 DEF Signalled, ZoneTypeOK, ZoneMaps
  <2>2. \A i \in Jobs : Loads(i)' \/ Saves(i)' => job'[i].robot \in ZoneRobots
    BY <1>1, <1>3, <1>4 DEF ZoneTypeOK, Loads
  <2> QED
    BY <1>1, <1>2, <2>1, <2>2 DEF ZoneTypeOK
<1>7. OneLoad' /\ BeforeLoad'
  BY <1>1, <1>2, <1>4, <1>5 DEF OneLoad, BeforeLoad
<1>8. ASSUME NEW r \in ZoneRobots, Certain(r)' PROVE MidLoad(r)' /\ LastWritten(r)' /\ Settled(r)'
  <2>1. told'[r] = told[r] /\ Certain(r) /\ MidLoad(r) /\ LastWritten(r) /\ Settled(r)
    BY <1>2, <1>8 DEF Certain, ZoneInv
  <2>2. ~Loading /\ ~Loading' /\ zones[r] = told[r]
    BY <1>4, <1>5, <2>1 DEF MidLoad, Settled, InMemory
  <2>3. MidLoad(r)' /\ InMemory(r)'
    BY <1>2, <2>1, <2>2 DEF MidLoad, InMemory
  <2>4. LastWritten(r)' /\ InWriting(r)'
    BY <1>2, <2>1 DEF LastWritten, InWriting
  <2>5. seen'[r] = seen[r] \/ seen'[r] = told[r]
    BY <1>1, <1>2, <1>5, <2>2 DEF Signalled, ZoneTypeOK
  <2>6. job[j].robot = r => seen'[r] \in {"absent", told[r]}
    BY <1>1, <1>2, <2>2 DEF Signalled, ZoneTypeOK
  <2>7. InFile(r)'
    <3> SUFFICES ASSUME \A i \in Jobs : ~SavesFor(i, r)'
                 PROVE  disk'[r] = told[r] /\ (seen'[r] \in {"absent", told[r]} \/ r \in early)
      BY <1>2, <2>1 DEF InFile
    <3>1. \A i \in Jobs : SavesFor(i, r) => i = j
      BY <1>4 DEF SavesFor
    <3>2. disk'[r] = told[r]
      BY <1>2, <2>1, <3>1 DEF Settled, InWriting
    <3>3. job[j].robot # r => \A i \in Jobs : ~SavesFor(i, r)
      BY <3>1 DEF SavesFor
    <3> QED
      BY <2>1, <2>5, <2>6, <3>2, <3>3 DEF Settled, InFile
  <2> QED
    BY <2>3, <2>4, <2>7 DEF Settled
<1> QED
  BY <1>6, <1>7, <1>8 DEF ZoneInv

\* A sensor that answers an update of its coordinator says what is in memory.
LEMMA UpdatedStep ==
  ASSUME ZoneAssumption, ZoneInv, NEW robot \in ZoneRobots, Updated(robot)
  PROVE  ZoneInv'
<1>1. ZoneTypeOK /\ OneLoad /\ BeforeLoad
  BY DEF ZoneInv
<1>2. /\ seen[robot] # "absent" /\ seen' = [seen EXCEPT ![robot] = zones[robot]]
      /\ early' = (IF Loading THEN early ELSE early \ {robot})
      /\ UNCHANGED <<disk, pending, writing, zones, loaded, job, restarts, told>>
  BY DEF Updated
<1>3. loaded
  BY <1>1, <1>2 DEF BeforeLoad, ZoneTypeOK
<1>4. \A j \in Jobs : (Loads(j)' <=> Loads(j)) /\ (Saves(j)' <=> Saves(j)) /\ job'[j] = job[j]
  BY <1>2 DEF Loads, Saves
<1>5. Loading' <=> Loading
  BY <1>4 DEF Loading
<1>6. ZoneTypeOK'
  BY <1>1, <1>2, <1>4 DEF ZoneTypeOK, ZoneMaps
<1>7. OneLoad' /\ BeforeLoad'
  BY <1>1, <1>2, <1>3, <1>4 DEF OneLoad, BeforeLoad
<1>8. ASSUME NEW r \in ZoneRobots, Certain(r)' PROVE MidLoad(r)' /\ LastWritten(r)' /\ Settled(r)'
  <2>1. told'[r] = told[r] /\ Certain(r) /\ MidLoad(r) /\ LastWritten(r) /\ Settled(r)
    BY <1>2, <1>8 DEF Certain, ZoneInv
  <2>2. seen'[r] = IF r = robot THEN zones[r] ELSE seen[r]
    BY <1>1, <1>2 DEF ZoneTypeOK
  <2>3. LastWritten(r)'
    BY <1>2, <2>1 DEF LastWritten
  <2>4. MidLoad(r)'
    <3>1. Loading => (seen'[r] # "absent" => r \in early')
      BY <1>2, <2>1, <2>2 DEF MidLoad
    <3> QED
      BY <1>2, <1>4, <1>5, <2>1, <3>1 DEF MidLoad
  <2>5. \A j \in Jobs : SavesFor(j, r)' <=> SavesFor(j, r)
    BY <1>4 DEF SavesFor
  <2>6. InWriting(r)' /\ InMemory(r)'
    BY <1>2, <1>5, <2>1, <2>5 DEF Settled, InWriting, InMemory
  <2>7. InFile(r)'
    <3>1. CASE Loading
      BY <1>2, <2>1, <2>2, <2>5, <3>1 DEF MidLoad, Settled, InFile
    <3>2. CASE ~Loading
      BY <1>2, <1>3, <2>1, <2>2, <2>5, <3>2 DEF Settled, InFile, InMemory
    <3> QED
      BY <3>1, <3>2
  <2> QED
    BY <2>3, <2>4, <2>6, <2>7 DEF Settled
<1> QED
  BY <1>6, <1>7, <1>8 DEF ZoneInv

\* Counting a restart off.
LEMMA OneFewer == ASSUME NEW n \in Nat, n > 0 PROVE n - 1 \in Nat
  OBVIOUS

\* A restart forgets what was not written, and leaves certain only what nobody was saving.
LEMMA RestartStep == ASSUME ZoneAssumption, ZoneInv, Restart PROVE ZoneInv'
<1>1. ZoneTypeOK
  BY DEF ZoneInv
<1>2. /\ disk' \in {disk} \cup writing /\ zones' = NoZones /\ loaded' = FALSE
      /\ pending' = {} /\ writing' = {} /\ early' = {}
      /\ restarts > 0 /\ restarts' = restarts - 1
      /\ seen' = [r \in ZoneRobots |-> "absent"]
      /\ told' = [r \in ZoneRobots |-> IF \E j \in Jobs : SavesFor(j, r) THEN "unsure" ELSE told[r]]
  BY DEF Restart, SavesFor
<1>3. /\ job' \in [Jobs -> JobSet]
      /\ \A j \in Jobs : ~Loads(j)' /\ ~Saves(j)'
  <2>1. Called("failed") \in JobSet /\ Called("failed").at = "failed"
    BY DEF Called, JobSet
  <2>2. job' = [j \in Jobs |-> IF job[j].at \in {"idle", "over", "failed"} THEN job[j] ELSE Called("failed")]
    BY DEF Restart
  <2>3. \A j \in Jobs : job'[j].at \in {"idle", "over", "failed"} /\ job'[j] \in JobSet
    BY <1>1, <2>1, <2>2 DEF ZoneTypeOK
  <2> QED
    BY <2>2, <2>3 DEF Loads, Saves
<1>4. ZoneTypeOK'
  <2>1. disk' \in ZoneMaps
    BY <1>1, <1>2 DEF ZoneTypeOK
  <2>4. restarts' \in Nat
    <3>1. restarts \in Nat /\ restarts > 0 /\ restarts' = restarts - 1
      BY <1>1, <1>2 DEF ZoneTypeOK
    <3> QED
      BY <3>1, OneFewer
  <2>2. zones' \in ZoneMaps
    BY <1>2 DEF ZoneMaps, NoZones
  <2>3. told' \in [ZoneRobots -> Zones \cup {NoZone, "unsure"}]
    BY <1>1, <1>2 DEF ZoneTypeOK
  <2> QED
    BY <1>2, <1>3, <2>1, <2>2, <2>3, <2>4 DEF ZoneTypeOK
<1>5. OneLoad' /\ BeforeLoad' /\ ~Loading'
  BY <1>2, <1>3 DEF OneLoad, BeforeLoad, Loading
<1>6. ASSUME NEW r \in ZoneRobots, Certain(r)' PROVE MidLoad(r)' /\ LastWritten(r)' /\ Settled(r)'
  <2>1. told'[r] = told[r] /\ Certain(r) /\ \A j \in Jobs : ~SavesFor(j, r)
    BY <1>2, <1>6 DEF Certain
  <2>2. Settled(r)
    BY <2>1 DEF ZoneInv
  <2>3. disk'[r] = told'[r]
    BY <1>2, <2>1, <2>2 DEF Settled, InFile, InWriting
  <2>4. MidLoad(r)' /\ LastWritten(r)'
    BY <1>2, <1>5, <2>3 DEF MidLoad, LastWritten
  <2>5. InFile(r)' /\ InWriting(r)' /\ InMemory(r)'
    BY <1>2, <2>3 DEF InFile, InWriting, InMemory
  <2> QED
    BY <2>4, <2>5 DEF Settled
<1> QED
  BY <1>4, <1>5, <1>6 DEF ZoneInv

\* Every step keeps the invariant.
LEMMA ZoneStep == ASSUME ZoneAssumption PROVE ZoneInv /\ [ZoneNext]_zoneVars => ZoneInv'
<1> SUFFICES ASSUME ZoneAssumption, ZoneInv, [ZoneNext]_zoneVars PROVE ZoneInv'
  OBVIOUS
<1>1. CASE UNCHANGED zoneVars
  <2>1. \A j \in Jobs : (Loads(j)' <=> Loads(j)) /\ (Saves(j)' <=> Saves(j))
    BY <1>1 DEF zoneVars, Loads, Saves
  <2>2. ZoneTypeOK' /\ OneLoad' /\ BeforeLoad' /\ (Loading' <=> Loading)
    BY <1>1, <2>1 DEF zoneVars, ZoneInv, ZoneTypeOK, OneLoad, BeforeLoad, Loading
  <2>3. ASSUME NEW r \in ZoneRobots, Certain(r)' PROVE MidLoad(r)' /\ LastWritten(r)' /\ Settled(r)'
    <3>1. MidLoad(r) /\ LastWritten(r) /\ Settled(r)
      BY <1>1, <2>3 DEF zoneVars, Certain, ZoneInv
    <3>2. MidLoad(r)' /\ LastWritten(r)'
      BY <1>1, <2>1, <2>2, <3>1 DEF zoneVars, MidLoad, LastWritten
    <3>3. \A j \in Jobs : SavesFor(j, r)' <=> SavesFor(j, r)
      BY <1>1, <2>1 DEF zoneVars, SavesFor
    <3>4. InFile(r)' /\ InWriting(r)' /\ InMemory(r)'
      BY <1>1, <2>2, <3>1, <3>3 DEF zoneVars, Settled, InFile, InWriting, InMemory
    <3> QED
      BY <3>2, <3>4 DEF Settled
  <2> QED
    BY <2>2, <2>3 DEF ZoneInv
<1>2. ASSUME NEW j \in Jobs, NEW r \in ZoneRobots,
             \/ \E z \in Zones : SetZone(j, r, z)
             \/ ClearZone(j, r) \/ GetZone(j, r) \/ EditorContext(j, r) \/ SensorAdded(j, r)
      PROVE  ZoneInv'
  BY <1>2, AskStep DEF SetZone, ClearZone, GetZone, EditorContext, SensorAdded
<1>3. ASSUME NEW j \in Jobs, SetupGarages(j) PROVE ZoneInv'
  BY <1>3, AskStep DEF SetupGarages
<1>4. CASE ZoneNext
  BY <1>2, <1>3, <1>4, LoadStep, TakesStep, WrittenStep, UpdatedStep, RestartStep DEF ZoneNext
<1> QED
  BY <1>1, <1>4

\* A zone set or cleared by a call that returned is in the file, in memory and on the
\* sensors, through restarts and the saves of other robots' zones, unless a change was
\* made in the middle of a load or a load has failed (safe_zone_store.py:57-101,
\* binary_sensor.py:264-279).
THEOREM SavedZoneIsKept == ASSUME ZoneAssumption PROVE ZoneSpec => []SavedZoneSurvives
<1>1. ZoneInv => SavedZoneSurvives
  BY DEF ZoneInv, SavedZoneSurvives, Certain, Settled, InFile, InMemory, SavesFor
<1> QED
  BY <1>1, ZoneBegins, ZoneStep, PTL DEF ZoneSpec

-----------------------------------------------------------------------------
(* The settings.  A call for a timer that runs by itself sends, beside the *)
(* field it sets, what is wanted of the others, because it began on a      *)
(* trait that shows the device: either it did at that moment, or a whole   *)
(* poll has been made since the last change, and such a poll brings what   *)
(* the device has.  A call of any other family sends nothing else.         *)

Names == CASE family = "timer" -> {"enabled", "start", "end"}
           [] family = "q10" -> {"value", "fan"}
           [] OTHER -> {"value"}
Whole == [Names -> Values]

SettingTypeOK ==
  /\ device \in Whole
  /\ family = "timer" => shown \in Whole
  /\ DOMAIN set = Sets /\ \A c \in Sets : DOMAIN set[c] = {"at", "kind", "field", "sends"}
  /\ DOMAIN reader = Readers /\ \A r \in Readers : DOMAIN reader[r] = {"at", "got"}
  /\ wanted \in [Names -> Values \cup {NoValue}]

\* What a call sends.
Sends(c, s) ==
  IF family = "timer"
  THEN /\ s \in Whole
       /\ c \notin blurred =>
            \A f \in Names : f # set[c].field /\ wanted[f] # NoValue => s[f] = wanted[f]
  ELSE DOMAIN s = {set[c].field} /\ s[set[c].field] \in Values
Sendings ==
  \A c \in Sets : set[c].at = "sending" =>
    /\ set[c].field \in Names
    /\ family = "timer" => set[c].kind = "plain"
    /\ \A s \in set[c].sends : Sends(c, s)

\* Of two calls for a timer under way neither runs by itself.
BesideBlurred ==
  family = "timer" => \A c, d \in Sets : c # d /\ Under(c) /\ Under(d) => c \in blurred

\* What the history of the polls tells of a timer.
Seen ==
  family = "timer" =>
    /\ pushes = <<>>
    /\ \A r \in Readers : r # 0 => reader[r].at = "off" /\ reader[r].got = {}
    /\ reader[0].at # "got" => reader[0].got = {}
    /\ reader[0].got \subseteq Whole
    /\ polled = "asked" => reader[0].at \in {"asking", "got"}
    /\ polled # "no" => reader[0].got \subseteq {device}
    /\ polled = "yes" => shown = device

SettingInv == SettingTypeOK /\ Sendings /\ BesideBlurred /\ Seen /\ LastSettingHolds

\* The fields are those of the family.
LEMMA FieldNames == ASSUME SettingTypeOK PROVE Fields = Names
  BY DEF SettingTypeOK, Fields, Whole

\* A part laid over the settings changes the fields it has.
LEMMA Overlays ==
  ASSUME NEW all \in Whole, NEW s,
         s \in Whole \/ \E f \in Names : DOMAIN s = {f} /\ s[f] \in Values
  PROVE  /\ Overlaid(all, s) \in Whole
         /\ \A f \in Names : Overlaid(all, s)[f] = IF f \in DOMAIN s THEN s[f] ELSE all[f]
<1>1. DOMAIN all = Names /\ \A f \in Names : all[f] \in Values
  BY DEF Whole
<1>2. \A f \in Names : f \in DOMAIN s => s[f] \in Values
  BY DEF Whole
<1>3. Overlaid(all, s) = [f \in Names |-> IF f \in DOMAIN s THEN s[f] ELSE all[f]]
  BY <1>1 DEF Overlaid
<1>4. \A f \in Names : (IF f \in DOMAIN s THEN s[f] ELSE all[f]) \in Values
  BY <1>1, <1>2
<1> QED
  BY <1>3, <1>4 DEF Whole

\* The initial states satisfy it.
LEMMA SettingBegins == SettingInit => SettingInv
<1> SUFFICES ASSUME SettingInit PROVE SettingInv
  OBVIOUS
<1>1. device \in Whole /\ shown = device
  BY DEF SettingInit, Names, Values, Whole
<1>2. Fields = Names
  BY <1>1 DEF Fields, Whole
<1>3. /\ DOMAIN NoCall = {"at", "kind", "field", "sends"} /\ NoCall.at = "idle"
      /\ DOMAIN NoRead = {"at", "got"} /\ NoRead.at = "off" /\ NoRead.got = {}
  BY DEF NoCall, NoRead
<1>4. 0 \in Readers
  BY SettingAssumption DEF Readers
<1>5. SettingTypeOK
  BY <1>1, <1>2, <1>3 DEF SettingInit, SettingTypeOK
<1>6. Sendings /\ BesideBlurred
  BY <1>3 DEF SettingInit, Sendings, BesideBlurred, Under
<1>7. Seen
  BY <1>1, <1>3, <1>4 DEF SettingInit, Seen
<1>8. LastSettingHolds
  BY DEF SettingInit, LastSettingHolds
<1> QED
  BY <1>5, <1>6, <1>7, <1>8 DEF SettingInv

\* A call begins.
LEMMA BeginStep ==
  ASSUME SettingInv, NEW c \in Sets, NEW kind, NEW field \in Fields, NEW value \in Values,
         family = "timer" => kind = "plain", Begin(c, kind, field, value)
  PROVE  SettingInv'
<1> DEFINE new == [at |-> "sending", kind |-> kind, field |-> field, sends |-> {Setting(field, value)}]
           beside == {d \in Sets : Under(d)}
<1>1. SettingTypeOK /\ field \in Names /\ Fields = Names
  BY FieldNames DEF SettingInv
<1>2. /\ set[c].at = "idle" /\ set' = [set EXCEPT ![c] = new]
      /\ family = "timer" =>
           /\ blurred \subseteq blurred' /\ beside \subseteq blurred'
           /\ c \notin blurred' => beside = {} /\ (shown = device \/ polled = "yes")
      /\ UNCHANGED <<family, device, shown, available, reader, pushes, troubles, wanted, polled>>
  BY DEF Begin, Turn
<1>3. Names' = Names /\ Fields' = Fields
  BY <1>2 DEF Names, Fields
<1>4. /\ DOMAIN new = {"at", "kind", "field", "sends"} /\ new.at = "sending" /\ new.field = field
      /\ new.kind = kind /\ new.sends = {Setting(field, value)}
  OBVIOUS
<1> HIDE DEF new, beside
<1>5. /\ DOMAIN set' = Sets /\ \A d \in Sets : set'[d] = IF d = c THEN new ELSE set[d]
  BY <1>1, <1>2 DEF SettingTypeOK
<1>6. SettingTypeOK'
  BY <1>1, <1>2, <1>3, <1>4, <1>5 DEF SettingTypeOK, Whole
<1>7. Sendings'
  <2>1. Sends(c, Setting(field, value))'
    <3>1. CASE family = "timer"
      <4>1. Setting(field, value) = [shown EXCEPT ![field] = value] /\ shown \in Whole
        BY <1>1, <3>1 DEF Setting, SettingTypeOK
      <4>2. Setting(field, value) \in Whole
            /\ \A f \in Names : f # field => Setting(field, value)[f] = shown[f]
        BY <1>1, <4>1 DEF Whole
      <4>3. c \notin blurred' => shown = device
        BY <1>2, <3>1 DEF SettingInv, Seen
      <4>4. \A f \in Names : wanted[f] # NoValue => device[f] = wanted[f]
        BY <1>1 DEF SettingInv, LastSettingHolds
      <4>5. set'[c].field = field
        BY <1>4, <1>5
      <4>6. \A f \in Names : c \notin blurred' /\ f # field /\ wanted[f] # NoValue
              => Setting(field, value)[f] = wanted[f]
        BY <4>2, <4>3, <4>4
      <4>7. Whole' = Whole
        BY <1>3 DEF Whole
      <4>8. Setting(field, value)' = Setting(field, value)
        BY <1>2 DEF Setting
      <4> QED
        BY <1>2, <1>3, <3>1, <4>2, <4>5, <4>6, <4>7, <4>8 DEF Sends
    <3>2. CASE family # "timer"
      <4>1. Setting(field, value) = [f \in {field} |-> value]
        BY <3>2 DEF Setting
      <4>2. DOMAIN Setting(field, value) = {field} /\ Setting(field, value)[field] = value
        BY <4>1
      <4>3. set'[c].field = field /\ Setting(field, value)' = Setting(field, value)
        BY <1>2, <1>4, <1>5 DEF Setting
      <4> QED
        BY <1>2, <3>2, <4>2, <4>3 DEF Sends
    <3> QED
      BY <3>1, <3>2
  <2>2. ASSUME NEW d \in Sets, d # c, set'[d].at = "sending"
        PROVE  /\ set'[d] = set[d] /\ set[d].field \in Names
               /\ family = "timer" => set[d].kind = "plain"
               /\ \A s \in set[d].sends : Sends(d, s)'
    <3>1. /\ set'[d] = set[d] /\ set[d].field \in Names
          /\ family = "timer" => set[d].kind = "plain"
          /\ \A s \in set[d].sends : Sends(d, s)
      BY <1>5, <2>2 DEF SettingInv, Sendings
    <3> QED
      BY <1>2, <1>3, <3>1 DEF Sends, Whole
  <2>3. Setting(field, value)' = Setting(field, value)
    BY <1>2 DEF Setting
  <2> QED
    BY <1>1, <1>2, <1>3, <1>4, <1>5, <2>1, <2>2, <2>3 DEF Sendings
<1>8. BesideBlurred'
  <2> SUFFICES ASSUME family = "timer", NEW d \in Sets, NEW e \in Sets, d # e, Under(d)', Under(e)'
               PROVE  d \in blurred'
    BY <1>2 DEF BesideBlurred
  <2>1. \A g \in Sets : g # c => (Under(g)' <=> Under(g))
    BY <1>5 DEF Under
  <2>2. CASE d = c
    BY <1>2, <2>1, <2>2 DEF beside
  <2>3. CASE d # c
    BY <1>2, <2>1, <2>3 DEF beside
  <2> QED
    BY <2>2, <2>3
<1>9. LastSettingHolds'
  BY <1>2 DEF SettingInv, LastSettingHolds, Fields
<1>10. Seen'
  BY <1>2, <1>3 DEF SettingInv, Seen, Whole
<1> QED
  BY <1>6, <1>7, <1>8, <1>9, <1>10 DEF SettingInv

\* A step that sends nothing: it may end a call.
LEMMA QuietStep ==
  ASSUME SettingInv, UNCHANGED <<family, device, wanted, blurred>>, Seen',
         family = "timer" => shown' \in Whole,
         DOMAIN reader' = Readers, \A r \in Readers : DOMAIN reader'[r] = {"at", "got"},
         DOMAIN set' = Sets, \A c \in Sets : DOMAIN set'[c] = {"at", "kind", "field", "sends"},
         \A c \in Sets : set'[c] = set[c] \/ set'[c].at \in {"over", "failed"}
  PROVE  SettingInv'
<1>1. Names' = Names /\ Whole' = Whole /\ Fields' = Fields
  BY DEF Names, Whole, Fields
<1>2. SettingTypeOK'
  BY <1>1 DEF SettingInv, SettingTypeOK
<1>3. Sendings'
  <2> SUFFICES ASSUME NEW c \in Sets, set'[c].at = "sending"
               PROVE  /\ set'[c].field \in Names
                      /\ family = "timer" => set'[c].kind = "plain"
                      /\ \A s \in set'[c].sends : Sends(c, s)'
    BY <1>1 DEF Sendings
  <2>1. set'[c] = set[c]
    OBVIOUS
  <2>2. /\ set[c].field \in Names
        /\ family = "timer" => set[c].kind = "plain"
        /\ \A s \in set[c].sends : Sends(c, s)
    BY <2>1 DEF SettingInv, Sendings
  <2> QED
    BY <1>1, <2>1, <2>2 DEF Sends
<1>4. BesideBlurred'
  BY DEF SettingInv, BesideBlurred, Under
<1>5. LastSettingHolds'
  BY <1>1 DEF SettingInv, LastSettingHolds
<1> QED
  BY <1>2, <1>3, <1>4, <1>5 DEF SettingInv

\* The end of a call, whatever its outcome.
LEMMA CallEnds ==
  ASSUME SettingInv, NEW c, NEW at \in {"over", "failed"}, Finishes(c, at)
  PROVE  /\ DOMAIN set' = Sets /\ \A d \in Sets : DOMAIN set'[d] = {"at", "kind", "field", "sends"}
         /\ \A d \in Sets : set'[d] = set[d] \/ set'[d].at \in {"over", "failed"}
         /\ c \in Sets => set'[c].at = at
         /\ \A d \in Sets : d # c => set'[d] = set[d]
<1> DEFINE new == [NoCall EXCEPT !.at = at]
<1>1. DOMAIN new = {"at", "kind", "field", "sends"} /\ new.at = at
  BY DEF NoCall
<1> HIDE DEF new
<1>2. set' = [set EXCEPT ![c] = new]
  BY DEF Finishes, new
<1> QED
  BY <1>1, <1>2 DEF SettingInv, SettingTypeOK

\* The command of a call takes effect, and what is wanted of its field is what it set or,
\* where the call was not by itself or has failed, nothing any more.
LEMMA TakesEffect ==
  ASSUME SettingInv, NEW c \in Sets, set[c].at = "sending", UNCHANGED <<family, blurred>>,
         device' = device \/ \E s \in set[c].sends : device' = Overlaid(device, s),
         Pushed, polled' = "no", shown' = shown \/ shown' = device',
         DOMAIN reader' = Readers, \A r \in Readers : DOMAIN reader'[r] = {"at", "got"},
         family = "timer" => reader' = reader,
         DOMAIN set' = Sets, \A d \in Sets : DOMAIN set'[d] = {"at", "kind", "field", "sends"},
         set'[c].at # "sending", \A d \in Sets : d # c => set'[d] = set[d],
         IF c \in blurred THEN wanted' = [f \in Fields |-> NoValue]
         ELSE \/ wanted' = [wanted EXCEPT ![set[c].field] = NoValue]
              \/ wanted' = [wanted EXCEPT ![set[c].field] = device'[set[c].field]]
  PROVE  SettingInv'
<1> DEFINE field == set[c].field
<1>1. SettingTypeOK /\ Fields = Names /\ field \in Names /\ \A s \in set[c].sends : Sends(c, s)
  BY FieldNames DEF SettingInv, Sendings
<1>2. Names' = Names /\ Whole' = Whole
  BY DEF Names, Whole
<1> HIDE DEF field
<1>3. \A s \in set[c].sends : s \in Whole \/ \E f \in Names : DOMAIN s = {f} /\ s[f] \in Values
  BY <1>1 DEF Sends, field
<1>4. /\ device' \in Whole
      /\ \A s \in set[c].sends, f \in Names :
           Overlaid(device, s)[f] = IF f \in DOMAIN s THEN s[f] ELSE device[f]
  <2>1. device \in Whole
    BY <1>1 DEF SettingTypeOK
  <2>2. ASSUME NEW s \in set[c].sends
        PROVE  /\ Overlaid(device, s) \in Whole
               /\ \A f \in Names : Overlaid(device, s)[f] = IF f \in DOMAIN s THEN s[f] ELSE device[f]
    <3>1. s \in Whole \/ \E f \in Names : DOMAIN s = {f} /\ s[f] \in Values
      BY <1>3
    <3> QED
      BY <2>1, <3>1, Overlays
  <2> QED
    BY <2>1, <2>2
<1>5. Fields' = Names
  BY <1>2, <1>4 DEF Fields, Whole
<1>6. wanted' \in [Names -> Values \cup {NoValue}]
  BY <1>1, <1>4 DEF SettingTypeOK, Whole, field
<1>7. SettingTypeOK'
  BY <1>1, <1>2, <1>4, <1>6 DEF SettingTypeOK
<1>8. family = "timer" => \A d \in Sets : d # c /\ Under(d) => d \in blurred /\ c \in blurred
  BY DEF SettingInv, BesideBlurred, Under
<1>9. Sendings'
  <2> SUFFICES ASSUME NEW d \in Sets, set'[d].at = "sending"
               PROVE  /\ set'[d].field \in Names
                      /\ family = "timer" => set'[d].kind = "plain"
                      /\ \A s \in set'[d].sends : Sends(d, s)'
    BY <1>2 DEF Sendings
  <2>1. /\ d # c /\ set'[d] = set[d] /\ set[d].at = "sending" /\ set[d].field \in Names
        /\ family = "timer" => set[d].kind = "plain"
        /\ \A s \in set[d].sends : Sends(d, s)
    BY DEF SettingInv, Sendings
  <2>2. family = "timer" => d \in blurred'
    BY <1>8, <2>1 DEF Under
  <2> QED
    BY <1>2, <2>1, <2>2 DEF Sends
<1>10. BesideBlurred'
  <2>1. \A d \in Sets : d # c => (Under(d)' <=> Under(d))
    BY DEF Under
  <2> QED
    BY <1>8, <2>1 DEF SettingInv, BesideBlurred
<1>11. Seen'
  BY <1>2 DEF SettingInv, Seen, Pushed
<1>12. LastSettingHolds'
  <2> SUFFICES ASSUME NEW f \in Names, wanted'[f] # NoValue PROVE device'[f] = wanted'[f]
    BY <1>5 DEF LastSettingHolds
  <2>1. c \notin blurred
    BY <1>1
  <2>2. CASE f = field
    BY <1>1, <2>1, <2>2 DEF SettingTypeOK, field
  <2>3. CASE f # field
    <3>1. wanted'[f] = wanted[f]
      BY <1>1, <2>1, <2>3 DEF SettingTypeOK, field
    <3>2. device[f] = wanted[f]
      BY <1>1, <3>1 DEF SettingInv, LastSettingHolds
    <3>3. \A s \in set[c].sends : f \in DOMAIN s => s[f] = wanted[f]
      BY <1>1, <2>1, <2>3, <3>1 DEF Sends, field
    <3>4. \A s \in set[c].sends : Overlaid(device, s)[f] = IF f \in DOMAIN s THEN s[f] ELSE device[f]
      BY <1>4
    <3> QED
      BY <3>1, <3>2, <3>3, <3>4
  <2> QED
    BY <2>2, <2>3
<1> QED
  BY <1>7, <1>9, <1>10, <1>11, <1>12 DEF SettingInv

\* The steps of a call.
LEMMA CallStep ==
  ASSUME SettingInv, NEW c \in Sets,
         \/ \E field \in Fields, value \in Values : Services(c, field, value)
         \/ RefuseA01(c) \/ RefuseQ7(c) \/ RefuseQ10(c) \/ Sent(c) \/ NotSent(c)
  PROVE  SettingInv'
<1>1. SettingTypeOK
  BY DEF SettingInv
<1>2. ASSUME NEW field \in Fields, NEW value \in Values, Services(c, field, value) PROVE SettingInv'
  <2>1. \E kind \in {"plain", "refresh", "home"} :
          (family = "timer" => kind = "plain") /\ Begin(c, kind, field, value)
    BY <1>2 DEF Services, SetTime, TurnV1, SelectV1, SetNumber, ResetConsumable, SelectMap, SelectQ7,
                CommandQ7, SelectA01, TurnA01, PressA01, SelectQ10, PressQ10, CommandQ10
  <2> QED
    BY <2>1, BeginStep
<1>3. CASE RefuseA01(c) \/ RefuseQ7(c) \/ RefuseQ10(c)
  <2>1. Refuse(c)
    BY <1>3 DEF RefuseA01, RefuseQ7, RefuseQ10
  <2>2. /\ Finishes(c, "failed")
        /\ UNCHANGED <<family, device, shown, reader, pushes, wanted, polled, blurred>>
    BY <2>1 DEF Refuse
  <2>3. Seen' /\ (family = "timer" => shown' \in Whole)
    BY <1>1, <2>2 DEF SettingInv, Seen, SettingTypeOK, Whole, Names
  <2>4. /\ DOMAIN set' = Sets /\ \A d \in Sets : DOMAIN set'[d] = {"at", "kind", "field", "sends"}
        /\ \A d \in Sets : set'[d] = set[d] \/ set'[d].at \in {"over", "failed"}
    BY <2>2, CallEnds
  <2>5. DOMAIN reader' = Readers /\ \A r \in Readers : DOMAIN reader'[r] = {"at", "got"}
    BY <1>1, <2>2 DEF SettingTypeOK
  <2> QED
    BY <2>2, <2>3, <2>4, <2>5, QuietStep
<1>4. CASE Sent(c)
  <2>1. /\ set[c].at = "sending" /\ \E s \in set[c].sends : device' = Overlaid(device, s)
        /\ Pushed /\ polled' = "no" /\ UNCHANGED <<family, blurred>>
        /\ shown' = shown \/ shown' = device'
        /\ wanted' = IF c \in blurred THEN [f \in Fields |-> NoValue]
                     ELSE [wanted EXCEPT ![set[c].field] = device'[set[c].field]]
    BY <1>4 DEF Sent
  <2>2. /\ DOMAIN set' = Sets /\ \A d \in Sets : DOMAIN set'[d] = {"at", "kind", "field", "sends"}
        /\ set'[c].at # "sending" /\ \A d \in Sets : d # c => set'[d] = set[d]
        /\ DOMAIN reader' = Readers /\ \A r \in Readers : DOMAIN reader'[r] = {"at", "got"}
        /\ family = "timer" => reader' = reader
    <3>1. CASE set[c].kind \in {"refresh", "home"}
      <4>1. set' = [set EXCEPT ![c].at = "reading"] /\ reader' = [reader EXCEPT ![c] = Asking]
        BY <1>4, <3>1 DEF Sent
      <4>2. DOMAIN NoRead = {"at", "got"}
        BY DEF NoRead
      <4>3. DOMAIN Asking = {"at", "got"}
        BY <4>2 DEF Asking
      <4>4. family # "timer"
        BY <2>1, <3>1 DEF SettingInv, Sendings
      <4> QED
        BY <1>1, <4>1, <4>3, <4>4 DEF SettingTypeOK
    <3>2. CASE set[c].kind \notin {"refresh", "home"}
      <4>1. Finishes(c, "over") /\ reader' = reader
        BY <1>4, <3>2 DEF Sent
      <4> QED
        BY <1>1, <4>1, CallEnds DEF SettingTypeOK
    <3> QED
      BY <3>1, <3>2
  <2> QED
    BY <2>1, <2>2, TakesEffect
<1>5. CASE NotSent(c)
  <2>1. /\ set[c].at = "sending" /\ Pushed /\ polled' = "no"
        /\ device' = device \/ \E s \in set[c].sends : device' = Overlaid(device, s)
        /\ UNCHANGED <<family, blurred>> /\ shown' = shown /\ reader' = reader /\ Finishes(c, "failed")
        /\ wanted' = IF c \in blurred THEN [f \in Fields |-> NoValue]
                     ELSE [wanted EXCEPT ![set[c].field] = NoValue]
    BY <1>5 DEF NotSent
  <2>2. /\ DOMAIN set' = Sets /\ \A d \in Sets : DOMAIN set'[d] = {"at", "kind", "field", "sends"}
        /\ set'[c].at = "failed" /\ \A d \in Sets : d # c => set'[d] = set[d]
    BY <2>1, CallEnds
  <2>3. DOMAIN reader' = Readers /\ \A r \in Readers : DOMAIN reader'[r] = {"at", "got"}
    BY <1>1, <2>1 DEF SettingTypeOK
  <2> QED
    BY <2>1, <2>2, <2>3, TakesEffect
<1> QED
  BY <1>2, <1>3, <1>4, <1>5

\* The steps of a read, of the poll that it is in, and of a status.
LEMMA ReadStep ==
  ASSUME SettingInv, NEW r \in Readers,
         \/ r = 0 /\ (PollStarts \/ Solicits)
         \/ Reads(r) \/ Shows(r) \/ ReadsStatus(r) \/ ReadFails(r)
  PROVE  SettingInv'
<1>1. SettingTypeOK /\ Sendings /\ Seen
  BY DEF SettingInv
<1>2. DOMAIN NoRead = {"at", "got"} /\ NoRead.at = "off" /\ NoRead.got = {}
  BY DEF NoRead
<1>3. DOMAIN Asking = {"at", "got"} /\ Asking.at = "asking" /\ Asking.got = {}
  BY <1>2 DEF Asking
<1>4. Names' = Names /\ Whole' = Whole
  BY DEF Names, Whole, PollStarts, Solicits, Reads, Shows, ReadsStatus, ReadFails
<1>5. family = "timer" /\ reader[r].at # "off" => r = 0
  BY <1>1 DEF Seen
<1>6. ASSUME NEW at \in {"over", "failed"}, Done(r, at)
      PROVE  /\ DOMAIN reader' = Readers /\ \A q \in Readers : DOMAIN reader'[q] = {"at", "got"}
             /\ reader'[r] = NoRead /\ \A q \in Readers : q # r => reader'[q] = reader[q]
             /\ DOMAIN set' = Sets /\ \A d \in Sets : DOMAIN set'[d] = {"at", "kind", "field", "sends"}
             /\ \A d \in Sets : set'[d] = set[d] \/ set'[d].at \in {"over", "failed"}
  <2>1. reader' = [reader EXCEPT ![r] = NoRead]
    BY <1>6 DEF Done
  <2>2. CASE r = 0
    BY <1>1, <1>2, <1>6, <2>1, <2>2 DEF Done, SettingTypeOK
  <2>3. CASE r # 0
    <3>1. Finishes(r, at)
      BY <1>6, <2>3 DEF Done
    <3> QED
      BY <1>1, <1>2, <2>1, <3>1, CallEnds DEF SettingTypeOK
  <2> QED
    BY <2>2, <2>3
<1>7. CASE r = 0 /\ PollStarts
  <2>1. /\ reader[0].at = "off" /\ reader' = [reader EXCEPT ![0] = Asking]
        /\ polled' = IF polled = "no" THEN "asked" ELSE polled
        /\ UNCHANGED <<family, device, shown, pushes, set, wanted, blurred>>
    BY <1>7 DEF PollStarts
  <2>2. /\ DOMAIN reader' = Readers /\ \A q \in Readers : DOMAIN reader'[q] = {"at", "got"}
        /\ reader'[0] = Asking /\ \A q \in Readers : q # 0 => reader'[q] = reader[q]
    BY <1>1, <1>3, <1>7, <2>1 DEF SettingTypeOK
  <2>3. Seen'
    BY <1>1, <1>3, <1>4, <2>1, <2>2 DEF Seen
  <2> QED
    BY <1>1, <1>4, <2>1, <2>2, <2>3, QuietStep DEF SettingTypeOK
<1>8. CASE r = 0 /\ Solicits
  <2>1. /\ family = "q10" /\ Done(0, "over")
        /\ UNCHANGED <<family, device, shown, wanted, blurred>>
    BY <1>8 DEF Solicits
  <2>2. Seen'
    BY <2>1 DEF Seen
  <2> QED
    BY <1>6, <1>8, <2>1, <2>2, QuietStep
<1>9. CASE Reads(r)
  <2> DEFINE new == [at |-> "got", got |-> {device}]
  <2>1. /\ reader[r].at = "asking" /\ reader' = [reader EXCEPT ![r] = new]
        /\ UNCHANGED <<family, device, shown, pushes, set, wanted, polled, blurred>>
    BY <1>9 DEF Reads
  <2>2. DOMAIN new = {"at", "got"} /\ new.at = "got" /\ new.got = {device}
    OBVIOUS
  <2> HIDE DEF new
  <2>3. /\ DOMAIN reader' = Readers /\ \A q \in Readers : DOMAIN reader'[q] = {"at", "got"}
        /\ reader'[r] = new /\ \A q \in Readers : q # r => reader'[q] = reader[q]
    BY <1>1, <2>1, <2>2 DEF SettingTypeOK
  <2>4. Seen'
    BY <1>1, <1>4, <1>5, <2>1, <2>2, <2>3 DEF Seen, SettingTypeOK
  <2> QED
    BY <1>1, <1>4, <2>1, <2>3, <2>4, QuietStep DEF SettingTypeOK
<1>10. CASE Shows(r)
  <2>1. /\ reader[r].at = "got" /\ shown' \in reader[r].got /\ Done(r, "over")
        /\ polled' = IF r = 0 /\ polled = "asked" THEN "yes" ELSE polled
        /\ UNCHANGED <<family, device, pushes, wanted, blurred>>
    BY <1>10 DEF Shows
  <2>2. family = "timer" => r = 0 /\ shown' \in Whole /\ (polled # "no" => shown' = device)
    BY <1>1, <1>5, <2>1 DEF Seen
  <2>3. Seen'
    BY <1>1, <1>2, <1>4, <1>6, <2>1, <2>2 DEF Seen
  <2> QED
    BY <1>4, <1>6, <2>1, <2>2, <2>3, QuietStep
<1>11. CASE ReadsStatus(r)
  <2>1. /\ reader[r].at = "asking" /\ Done(r, "over")
        /\ polled' = IF r = 0 /\ polled = "asked" THEN "no" ELSE polled
        /\ UNCHANGED <<family, device, shown, pushes, wanted, blurred>>
    BY <1>11 DEF ReadsStatus, Missed
  <2>2. Seen'
    BY <1>1, <1>2, <1>4, <1>5, <1>6, <2>1 DEF Seen
  <2> QED
    BY <1>1, <1>4, <1>6, <2>1, <2>2, QuietStep DEF SettingTypeOK
<1>12. CASE ReadFails(r)
  <2> DEFINE end == IF r > 0 /\ set[r].kind = "home" THEN "failed" ELSE "over"
  <2>1. end \in {"over", "failed"}
    OBVIOUS
  <2>2. /\ reader[r].at # "off" /\ Done(r, end)
        /\ shown' \in {shown} \cup (IF family \in V1Families THEN reader[r].got ELSE {})
        /\ polled' = IF r = 0 /\ polled = "asked" THEN "no" ELSE polled
        /\ UNCHANGED <<family, device, pushes, wanted, blurred>>
    BY <1>12 DEF ReadFails, Missed
  <2> HIDE DEF end
  <2>3. family = "timer" => r = 0 /\ shown' \in Whole /\ (polled = "yes" => shown' = device)
    BY <1>1, <1>5, <2>2 DEF Seen, SettingTypeOK
  <2>4. Seen'
    BY <1>1, <1>2, <1>4, <1>6, <2>1, <2>2, <2>3 DEF Seen
  <2> QED
    BY <1>4, <1>6, <2>1, <2>2, <2>3, <2>4, QuietStep
<1> QED
  BY <1>7, <1>8, <1>9, <1>10, <1>11, <1>12

\* A push, which no timer sends.
LEMMA PushStep == ASSUME SettingInv, PushArrives \/ PushLost PROVE SettingInv'
<1>1. /\ pushes # <<>>
      /\ UNCHANGED <<family, device, reader, set, wanted, blurred>>
  BY DEF PushArrives, PushLost
<1>2. family # "timer"
  BY <1>1 DEF SettingInv, Seen
<1>3. Seen'
  BY <1>1, <1>2 DEF Seen
<1> QED
  BY <1>1, <1>2, <1>3, QuietStep DEF SettingInv, SettingTypeOK

\* A setting made elsewhere is wanted like that of a call, and no call for a timer runs
\* by itself beside it.
LEMMA ElsewhereStep ==
  ASSUME SettingInv, NEW field \in Fields, NEW value \in Values, Elsewhere(field, value)
  PROVE  SettingInv'
<1>1. SettingTypeOK /\ Fields = Names /\ Sendings /\ Seen
  BY FieldNames DEF SettingInv
<1>2. /\ device' = [device EXCEPT ![field] = value] /\ Pushed
      /\ wanted' = [wanted EXCEPT ![field] = value] /\ polled' = "no"
      /\ blurred' = IF family = "timer" THEN blurred \cup {c \in Sets : Under(c)} ELSE blurred
      /\ UNCHANGED <<family, shown, reader, set>>
  BY DEF Elsewhere
<1>3. Names' = Names /\ Whole' = Whole
  BY <1>2 DEF Names, Whole
<1>4. device' \in Whole
  BY <1>1, <1>2 DEF SettingTypeOK, Whole
<1>5. wanted' \in [Names -> Values \cup {NoValue}]
  BY <1>1, <1>2 DEF SettingTypeOK
<1>6. SettingTypeOK'
  BY <1>1, <1>2, <1>3, <1>4, <1>5 DEF SettingTypeOK
<1>7. Sendings'
  <2> SUFFICES ASSUME NEW c \in Sets, set[c].at = "sending"
               PROVE  /\ set[c].field \in Names
                      /\ family = "timer" => set[c].kind = "plain"
                      /\ \A s \in set[c].sends : Sends(c, s)'
    BY <1>2, <1>3 DEF Sendings
  <2>1. /\ set[c].field \in Names
        /\ family = "timer" => set[c].kind = "plain"
        /\ \A s \in set[c].sends : Sends(c, s)
    BY <1>1 DEF Sendings
  <2>2. family = "timer" => c \in blurred'
    BY <1>2 DEF Under
  <2> QED
    BY <1>2, <1>3, <2>1, <2>2 DEF Sends
<1>8. BesideBlurred'
  BY <1>2 DEF BesideBlurred, Under
<1>9. Seen'
  BY <1>1, <1>2, <1>3 DEF Seen, Pushed
<1>10. LastSettingHolds'
  <2> SUFFICES ASSUME NEW f \in Names, wanted'[f] # NoValue PROVE device'[f] = wanted'[f]
    BY <1>3, <1>4 DEF LastSettingHolds, Fields, Whole
  <2>1. wanted[f] # NoValue => device[f] = wanted[f]
    BY <1>1 DEF SettingInv, LastSettingHolds
  <2> QED
    BY <1>1, <1>2, <2>1 DEF SettingTypeOK, Whole
<1> QED
  BY <1>6, <1>7, <1>8, <1>9, <1>10 DEF SettingInv

\* Every step preserves it.
LEMMA SettingStep == SettingInv /\ [SettingNext]_settingVars => SettingInv'
<1> SUFFICES ASSUME SettingInv, [SettingNext]_settingVars PROVE SettingInv'
  OBVIOUS
<1>1. 0 \in Readers
  BY SettingAssumption DEF Readers
<1>2. ASSUME NEW c \in Sets,
             \/ \E field \in Fields, value \in Values : Services(c, field, value)
             \/ RefuseA01(c) \/ RefuseQ7(c) \/ RefuseQ10(c) \/ Sent(c) \/ NotSent(c)
      PROVE  SettingInv'
  BY <1>2, CallStep
<1>3. CASE Reading
  <2>1. CASE PollStarts \/ Solicits
    BY <1>1, <2>1, ReadStep
  <2>2. CASE PushArrives
    BY <2>2, PushStep
  <2>3. ASSUME NEW r \in Readers, ReadsV1(r) \/ ReadsZeo(r) \/ ReadsQ7(r) \/ ReadsStatus(r) \/ Shows(r)
        PROVE  SettingInv'
    <3>1. Reads(r) \/ ReadsStatus(r) \/ Shows(r)
      BY <2>3 DEF ReadsV1, ReadsZeo, ReadsQ7
    <3> QED
      BY <3>1, ReadStep
  <2> QED
    BY <1>3, <2>1, <2>2, <2>3 DEF Reading
<1>4. ASSUME NEW r \in Readers, ReadFails(r) PROVE SettingInv'
  BY <1>4, ReadStep
<1>5. CASE PushLost
  BY <1>5, PushStep
<1>6. ASSUME NEW field \in Fields, NEW value \in Values, Elsewhere(field, value) PROVE SettingInv'
  BY <1>6, ElsewhereStep
<1>7. CASE UNCHANGED settingVars
  <2>1. UNCHANGED <<family, device, shown, reader, pushes, set, wanted, polled, blurred>>
    BY <1>7 DEF settingVars
  <2>2. Seen'
    BY <2>1 DEF SettingInv, Seen, Whole, Names
  <2>3. SettingTypeOK
    BY DEF SettingInv
  <2>4. family = "timer" => shown' \in Whole
    BY <2>1, <2>3 DEF SettingTypeOK, Whole, Names
  <2>5. /\ DOMAIN reader' = Readers /\ \A r \in Readers : DOMAIN reader'[r] = {"at", "got"}
        /\ DOMAIN set' = Sets /\ \A c \in Sets : DOMAIN set'[c] = {"at", "kind", "field", "sends"}
    BY <2>1, <2>3 DEF SettingTypeOK
  <2> QED
    BY <2>1, <2>2, <2>4, <2>5, QuietStep
<1> QED
  BY <1>2, <1>3, <1>4, <1>5, <1>6, <1>7 DEF SettingNext

\* What a field was given it keeps until it is given something else: for every device,
\* however many calls, and whatever is lost - but for the calls for a timer that run
\* beside another change of it, or on a trait behind the device of which no whole poll
\* has been made since the change (time.py:42-117, switch.py:150-168,
\* coordinator.py:274-297).
THEOREM SettingIsKept == SettingSpec => []LastSettingHolds
<1>1. SettingInv => LastSettingHolds
  BY DEF SettingInv
<1> QED
  BY <1>1, SettingBegins, SettingStep, PTL DEF SettingSpec

-----------------------------------------------------------------------------
(* The flows.  That an entry is its account's rests on who may create one: *)
(* a flow that does has the id of the account it logged in to, no other    *)
(* flow has it, and there is no entry under it.  That the options are      *)
(* those last saved rests on the drafts: unless another flow has saved     *)
(* meanwhile, a draft has the garage of its entry.                         *)

OptionSet == [number : {"few", "many"}, map : {"plain", "full"}, garage : {"none", "door"}]
EntrySet == [user : Users, server : Servers, data : Accounts, options : OptionSet]
Steps == {"none", "user", "custom_url", "confirm", "requesting", "code", "logged in",
          "creating", "form", "select", "garage", "ended"}
FlowSet == [at : Steps, source : {"none", "user", "dhcp", "reauth", "options"},
            entry : Accounts \cup {"none"}, user : Users \cup {"none"},
            server : Servers \cup {"none", "auto"},
            form : {"none", "user", "custom_url", "confirm"},
            id : Accounts \cup {"none", "discovery"}, got : Accounts \cup {"none"},
            draft : SUBSET OptionSet, said : SUBSET Submissions, late : BOOLEAN]

FlowTypeOK ==
  /\ holder \in [Users \X Servers -> Accounts \cup {"none"}]
  /\ entries \in [Accounts -> SUBSET EntrySet]
  /\ flow \in [Flows -> FlowSet]
  /\ chosen \in [Accounts -> OptionSet]
  /\ changes \in Nat

\* What a login has found out by each of its steps.
LoginKnown(x) ==
  /\ x.at \in {"custom_url", "confirm", "requesting", "code", "logged in", "creating"} => x.user \in Users
  /\ x.at \in {"code", "logged in", "creating"} => x.server \in Servers
  /\ x.at \in {"logged in", "creating"} => x.got \in Accounts
  /\ x.source = "reauth" => x.entry \in Accounts
  /\ x.at = "creating" => x.id = x.got

\* A flow of the options form: of an entry, and its draft with what the form said.
FormOf(x) ==
  x.at \in {"form", "select", "garage"} =>
    /\ x.source = "options" /\ x.entry \in Accounts /\ entries[x.entry] # {}
    /\ ~x.late => \A d \in x.draft : d.garage = chosen[x.entry].garage
DraftSaid(x) ==
  x.at \in {"select", "garage"} =>
    \A d \in x.draft, i \in x.said : d.number = i.number /\ d.map = i.map

\* A flow that creates an entry is the only one of its account, which has none.
CreatesAlone ==
  \A f \in Flows : flow[f].at = "creating" =>
    /\ entries[flow[f].id] = {}
    /\ \A g \in Flows : flow[g].at = "creating" /\ flow[g].id = flow[f].id => g = f

\* An account without an entry has no options of its own.
NoEntryDefault == \A a \in Accounts : entries[a] = {} => chosen[a] = Default

FlowInv ==
  /\ FlowTypeOK
  /\ \A f \in Flows : LoginKnown(flow[f]) /\ FormOf(flow[f]) /\ DraftSaid(flow[f])
  /\ CreatesAlone /\ NoEntryDefault
  /\ EntryIsItsAccount /\ OptionsAreAsSaved

\* What a flow starts from.
LEMMA NoFlowIs ==
  /\ NoFlow \in FlowSet /\ NoFlow.at = "none" /\ NoFlow.source = "none" /\ NoFlow.entry = "none"
  /\ NoFlow.draft = {} /\ NoFlow.late = FALSE
  BY DEF NoFlow, FlowSet, Steps

\* The initial states satisfy it: there are no entries and no flows.
LEMMA FlowBegins == ASSUME FlowAssumption PROVE FlowInit => FlowInv
<1> SUFFICES ASSUME FlowAssumption, FlowInit PROVE FlowInv
  OBVIOUS
<1>2. Default \in OptionSet
  BY DEF Default, OptionSet
<1>3. FlowTypeOK
  BY NoFlowIs, <1>2 DEF FlowInit, FlowTypeOK, FlowAssumption
<1>4. \A f \in Flows : flow[f] = NoFlow
  BY DEF FlowInit
<1>5. ASSUME NEW f \in Flows PROVE LoginKnown(flow[f]) /\ FormOf(flow[f]) /\ DraftSaid(flow[f])
  BY <1>4, NoFlowIs DEF LoginKnown, FormOf, DraftSaid
<1>6. CreatesAlone /\ NoEntryDefault /\ EntryIsItsAccount /\ OptionsAreAsSaved
  BY <1>4, NoFlowIs DEF FlowInit, CreatesAlone, NoEntryDefault, EntryIsItsAccount, OptionsAreAsSaved
<1> QED
  BY <1>3, <1>5, <1>6 DEF FlowInv

\* Where no saved options change and no entry goes, what holds of the flows still holds.
LEMMA StillSo ==
  ASSUME \A g \in Flows : LoginKnown(flow'[g]) /\ FormOf(flow'[g]) /\ DraftSaid(flow'[g]),
         UNCHANGED chosen, \A a \in Accounts : entries[a] # {} => entries'[a] # {}
  PROVE  \A g \in Flows : (LoginKnown(flow[g]) /\ FormOf(flow[g]) /\ DraftSaid(flow[g]))'
<1> TAKE g \in Flows
<1>1. LoginKnown(flow[g])' /\ DraftSaid(flow[g])'
  BY DEF LoginKnown, DraftSaid
<1>2. FormOf(flow[g])'
  <2>1. FormOf(flow'[g])
    OBVIOUS
  <2> QED
    BY <2>1 DEF FormOf
<1> QED
  BY <1>1, <1>2

\* A step of one flow that changes no entry keeps the invariant where the flow it leaves
\* behind satisfies it and does not create beside another.
LEMMA OneFlowMoves ==
  ASSUME FlowInv, NEW f \in Flows, NEW x \in FlowSet,
         flow' = [flow EXCEPT ![f] = x], UNCHANGED <<holder, entries, chosen, changes>>,
         LoginKnown(x), FormOf(x), DraftSaid(x),
         x.at = "creating" => /\ entries[x.id] = {}
                              /\ \A g \in Flows \ {f} : flow[g].at = "creating" => flow[g].id # x.id
  PROVE  FlowInv'
<1>1. FlowTypeOK'
  BY DEF FlowInv, FlowTypeOK
<1>2. \A g \in Flows : flow'[g] = IF g = f THEN x ELSE flow[g]
  BY DEF FlowInv, FlowTypeOK
<1>3. ASSUME NEW g \in Flows PROVE (LoginKnown(flow[g]) /\ FormOf(flow[g]) /\ DraftSaid(flow[g]))'
  <2>1. flow'[g] \in FlowSet /\ LoginKnown(flow'[g]) /\ FormOf(flow'[g]) /\ DraftSaid(flow'[g])
    BY <1>2 DEF FlowInv, FlowTypeOK
  <2> QED
    BY <2>1 DEF LoginKnown, FormOf, DraftSaid
<1>4. CreatesAlone'
  BY <1>2 DEF FlowInv, CreatesAlone
<1>5. NoEntryDefault' /\ EntryIsItsAccount' /\ OptionsAreAsSaved'
  BY DEF FlowInv, NoEntryDefault, EntryIsItsAccount, OptionsAreAsSaved
<1> QED
  BY <1>1, <1>3, <1>4, <1>5 DEF FlowInv

\* The end of a flow, of whatever kind, is such a step.
LEMMA FlowEnds ==
  ASSUME FlowInv, NEW f \in Flows, Ends(f), UNCHANGED <<holder, entries, chosen, changes>>
  PROVE  FlowInv'
<1>1. Over \in FlowSet
  BY NoFlowIs DEF Over, FlowSet, Steps
<1>2. LoginKnown(Over) /\ FormOf(Over) /\ DraftSaid(Over) /\ Over.at # "creating"
  BY NoFlowIs DEF Over, FlowSet, LoginKnown, FormOf, DraftSaid
<1>3. flow' = [flow EXCEPT ![f] = Over]
  BY DEF Ends
<1> QED
  BY <1>1, <1>2, <1>3, OneFlowMoves

\* The steps that open a flow.
LEMMA FlowOpens ==
  ASSUME FlowAssumption, FlowInv, NEW f \in Flows,
         \/ Start(f) \/ Discover(f)
         \/ \E a \in Accounts : Reauth(f, a) \/ OpenOptions(f, a)
  PROVE  FlowInv'
<1>1. CASE Start(f)
  <2> DEFINE x == [NoFlow EXCEPT !.at = "user", !.source = "user"]
  <2>1. x \in FlowSet /\ LoginKnown(x) /\ FormOf(x) /\ DraftSaid(x) /\ x.at # "creating"
    BY NoFlowIs, ZenonT(60) DEF FlowSet, Steps, LoginKnown, FormOf, DraftSaid
  <2> QED
    BY <1>1, <2>1, OneFlowMoves DEF Start
<1>2. CASE Discover(f)
  <2> DEFINE x == [NoFlow EXCEPT !.at = "user", !.source = "dhcp", !.id = "discovery"]
  <2>1. x \in FlowSet /\ LoginKnown(x) /\ FormOf(x) /\ DraftSaid(x) /\ x.at # "creating"
    BY NoFlowIs, ZenonT(60) DEF FlowSet, Steps, LoginKnown, FormOf, DraftSaid
  <2> QED
    BY <1>2, <2>1, OneFlowMoves DEF Discover
<1>3. ASSUME NEW a \in Accounts, Reauth(f, a) PROVE FlowInv'
  <2>1. PICK e \in entries[a] :
          flow' = [flow EXCEPT ![f] = [NoFlow EXCEPT !.at = "confirm", !.source = "reauth",
                     !.entry = a, !.user = e.user, !.server = e.server, !.form = "confirm", !.id = a]]
    BY <1>3 DEF Reauth
  <2> DEFINE x == [NoFlow EXCEPT !.at = "confirm", !.source = "reauth",
                     !.entry = a, !.user = e.user, !.server = e.server, !.form = "confirm", !.id = a]
  <2>2. e.user \in Users /\ e.server \in Servers
    BY <2>1 DEF FlowInv, FlowTypeOK, EntrySet
  <2>3. x \in FlowSet /\ LoginKnown(x) /\ FormOf(x) /\ DraftSaid(x) /\ x.at # "creating"
    BY <2>2, NoFlowIs, ZenonT(60) DEF FlowSet, Steps, LoginKnown, FormOf, DraftSaid
  <2> QED
    BY <1>3, <2>1, <2>3, OneFlowMoves DEF Reauth
<1>4. ASSUME NEW a \in Accounts, OpenOptions(f, a) PROVE FlowInv'
  <2>1. PICK e \in entries[a] :
          flow' = [flow EXCEPT ![f] = [NoFlow EXCEPT !.at = "form", !.source = "options",
                                                     !.entry = a, !.draft = {e.options}]]
    BY <1>4 DEF OpenOptions
  <2> DEFINE x == [NoFlow EXCEPT !.at = "form", !.source = "options", !.entry = a, !.draft = {e.options}]
  <2>2. e.options \in OptionSet /\ e.options = chosen[a]
    BY <2>1 DEF FlowInv, FlowTypeOK, EntrySet, OptionsAreAsSaved
  <2>3. x \in FlowSet /\ LoginKnown(x) /\ FormOf(x) /\ DraftSaid(x) /\ x.at # "creating"
    BY <2>2, NoFlowIs, ZenonT(60) DEF FlowSet, Steps, LoginKnown, FormOf, DraftSaid
  <2> QED
    BY <1>4, <2>1, <2>3, OneFlowMoves DEF OpenOptions
<1> QED
  BY <1>1, <1>2, <1>3, <1>4

\* The steps of a login before it knows its account.
LEMMA LoginStep ==
  ASSUME FlowAssumption, FlowInv, NEW f \in Flows,
         \/ Confirm(f) \/ CodeSent(f) \/ CodeRefused(f) \/ LoggedIn(f)
         \/ \E user \in Users, region \in Official \cup {"auto", "custom"} : SubmitUser(f, user, region)
         \/ \E server \in Own : SubmitUrl(f, server)
  PROVE  FlowInv'
<1>1. flow[f] \in FlowSet /\ LoginKnown(flow[f])
  BY DEF FlowInv, FlowTypeOK
<1>2. CASE Confirm(f)
  <2> DEFINE x == [flow[f] EXCEPT !.at = "requesting"]
  <2>1. x \in FlowSet /\ x.at = "requesting" /\ x.user = flow[f].user /\ x.source = flow[f].source
        /\ x.entry = flow[f].entry
    <3>1. x \in FlowSet
      BY <1>1 DEF FlowSet, Steps
    <3>2. x.at = "requesting" /\ x.user = flow[f].user /\ x.source = flow[f].source
          /\ x.entry = flow[f].entry
      BY <1>1 DEF FlowSet, Steps
    <3> QED
      BY <3>1, <3>2
  <2>2. flow' = [flow EXCEPT ![f] = x] /\ UNCHANGED <<holder, entries, chosen, changes>>
    BY <1>2 DEF Confirm, Awaits
  <2> HIDE DEF x
  <2>3. LoginKnown(x) /\ FormOf(x) /\ DraftSaid(x) /\ x.at # "creating"
    BY <1>1, <1>2, <2>1 DEF Confirm, LoginKnown, FormOf, DraftSaid
  <2> QED
    BY <2>1, <2>2, <2>3, OneFlowMoves
<1>3. CASE CodeSent(f)
  <2>1. PICK server \in Servers : flow' = [flow EXCEPT ![f].at = "code", ![f].server = server]
    BY <1>3 DEF CodeSent
  <2> DEFINE x == [flow[f] EXCEPT !.at = "code", !.server = server]
  <2>2. x \in FlowSet /\ x.at = "code" /\ x.server = server /\ x.user = flow[f].user
        /\ x.source = flow[f].source /\ x.entry = flow[f].entry
    <3>1. x \in FlowSet
      BY <1>1 DEF FlowSet, Steps
    <3>2. x.at = "code" /\ x.server = server /\ x.user = flow[f].user
          /\ x.source = flow[f].source /\ x.entry = flow[f].entry
      BY <1>1 DEF FlowSet, Steps
    <3> QED
      BY <3>1, <3>2
  <2>3. flow' = [flow EXCEPT ![f] = x] /\ UNCHANGED <<holder, entries, chosen, changes>>
    BY <1>3, <2>1 DEF CodeSent, FlowInv, FlowTypeOK
  <2> HIDE DEF x
  <2>4. LoginKnown(x) /\ FormOf(x) /\ DraftSaid(x) /\ x.at # "creating"
    BY <1>1, <1>3, <2>2 DEF CodeSent, LoginKnown, FormOf, DraftSaid
  <2> QED
    BY <2>2, <2>3, <2>4, OneFlowMoves
<1>4. CASE CodeRefused(f)
  <2> DEFINE x == [flow[f] EXCEPT !.at = flow[f].form]
  <2>1. x \in FlowSet /\ x.at \in {"none", "user", "custom_url", "confirm"} /\ x.user = flow[f].user
        /\ x.source = flow[f].source /\ x.entry = flow[f].entry
    <3>1. x \in FlowSet
      BY <1>1, ZenonT(60) DEF FlowSet, Steps
    <3>2. x.at \in {"none", "user", "custom_url", "confirm"} /\ x.user = flow[f].user
          /\ x.source = flow[f].source /\ x.entry = flow[f].entry
      BY <1>1 DEF FlowSet, Steps
    <3> QED
      BY <3>1, <3>2
  <2>2. flow' = [flow EXCEPT ![f] = x] /\ UNCHANGED <<holder, entries, chosen, changes>>
    BY <1>4 DEF CodeRefused, Awaits
  <2> HIDE DEF x
  <2>3. LoginKnown(x) /\ FormOf(x) /\ DraftSaid(x) /\ x.at # "creating"
    BY <1>1, <1>4, <2>1 DEF CodeRefused, LoginKnown, FormOf, DraftSaid
  <2> QED
    BY <2>1, <2>2, <2>3, OneFlowMoves
<1>5. CASE LoggedIn(f)
  <2> DEFINE account == holder[<<flow[f].user, flow[f].server>>]
             x == [flow[f] EXCEPT !.at = "logged in", !.got = account]
  <2>1. account \in Accounts
    BY <1>1, <1>5 DEF LoggedIn, LoginKnown, FlowInv, FlowTypeOK
  <2>2. flow' = [flow EXCEPT ![f] = x] /\ UNCHANGED <<holder, entries, chosen, changes>>
    BY <1>5 DEF LoggedIn, FlowInv, FlowTypeOK
  <2> HIDE DEF account
  <2>3. x \in FlowSet /\ x.at = "logged in" /\ x.got = account /\ x.user = flow[f].user
        /\ x.server = flow[f].server /\ x.source = flow[f].source /\ x.entry = flow[f].entry
    <3>1. x \in FlowSet
      BY <1>1, <2>1, ZenonT(60) DEF FlowSet, Steps
    <3>2. x.at = "logged in" /\ x.got = account /\ x.user = flow[f].user
          /\ x.server = flow[f].server /\ x.source = flow[f].source /\ x.entry = flow[f].entry
      BY <1>1, <2>1 DEF FlowSet, Steps
    <3> QED
      BY <3>1, <3>2
  <2> HIDE DEF x
  <2>4. LoginKnown(x) /\ FormOf(x) /\ DraftSaid(x) /\ x.at # "creating"
    BY <1>1, <1>5, <2>1, <2>3 DEF LoggedIn, LoginKnown, FormOf, DraftSaid
  <2> QED
    BY <2>2, <2>3, <2>4, OneFlowMoves
<1>6. ASSUME NEW user \in Users, NEW region \in Official \cup {"auto", "custom"},
             SubmitUser(f, user, region)
      PROVE  FlowInv'
  <2> DEFINE at == IF region = "custom" THEN "custom_url" ELSE "requesting"
             server == IF region = "custom" THEN "none" ELSE region
             x == [flow[f] EXCEPT !.user = user, !.at = at, !.server = server, !.form = "user"]
  <2>1. server \in Servers \cup {"none", "auto"} /\ at \in {"custom_url", "requesting"}
    BY DEF Servers
  <2>2. flow' = [flow EXCEPT ![f] = x] /\ UNCHANGED <<holder, entries, chosen, changes>>
    BY <1>6 DEF SubmitUser, FlowInv, FlowTypeOK
  <2> HIDE DEF at, server
  <2>3. x \in FlowSet /\ x.at = at /\ x.user = user /\ x.source = flow[f].source
        /\ x.entry = flow[f].entry
    <3>1. x \in FlowSet
      BY <1>1, <2>1, ZenonT(60) DEF FlowSet, Steps
    <3>2. x.at = at /\ x.user = user /\ x.source = flow[f].source
          /\ x.entry = flow[f].entry
      BY <1>1, <2>1 DEF FlowSet, Steps
    <3> QED
      BY <3>1, <3>2
  <2> HIDE DEF x
  <2>4. LoginKnown(x) /\ FormOf(x) /\ DraftSaid(x) /\ x.at # "creating"
    BY <1>1, <2>1, <2>3 DEF LoginKnown, FormOf, DraftSaid
  <2> QED
    BY <2>2, <2>3, <2>4, OneFlowMoves
<1>7. ASSUME NEW server \in Own, SubmitUrl(f, server) PROVE FlowInv'
  <2> DEFINE x == [flow[f] EXCEPT !.at = "requesting", !.server = server, !.form = "custom_url"]
  <2>1. x \in FlowSet /\ x.at = "requesting" /\ x.user = flow[f].user /\ x.source = flow[f].source
        /\ x.entry = flow[f].entry
    <3>1. x \in FlowSet
      BY <1>1 DEF FlowSet, Steps, Servers
    <3>2. x.at = "requesting" /\ x.user = flow[f].user /\ x.source = flow[f].source
          /\ x.entry = flow[f].entry
      BY <1>1 DEF FlowSet, Steps, Servers
    <3> QED
      BY <3>1, <3>2
  <2>2. flow' = [flow EXCEPT ![f] = x] /\ UNCHANGED <<holder, entries, chosen, changes>>
    BY <1>7 DEF SubmitUrl, FlowInv, FlowTypeOK
  <2> HIDE DEF x
  <2>3. LoginKnown(x) /\ FormOf(x) /\ DraftSaid(x) /\ x.at # "creating"
    BY <1>1, <1>7, <2>1 DEF SubmitUrl, LoginKnown, FormOf, DraftSaid
  <2> QED
    BY <2>1, <2>2, <2>3, OneFlowMoves
<1> QED
  BY <1>2, <1>3, <1>4, <1>5, <1>6, <1>7

\* An open flow that a step ends leaves nothing behind; any other is as it was, but for
\* what it knows of others.
LEMMA SomeFlowsEnd ==
  ASSUME FlowInv, NEW P \in SUBSET Flows,
         flow' = [g \in Flows |-> IF g \in P THEN Over ELSE flow[g]]
  PROVE  /\ flow' \in [Flows -> FlowSet]
         /\ \A g \in Flows : /\ flow'[g] = (IF g \in P THEN Over ELSE flow[g])
                             /\ LoginKnown(flow'[g]) /\ FormOf(flow'[g]) /\ DraftSaid(flow'[g])
                             /\ g \in P => flow'[g].at = "ended"
<1>1. Over \in FlowSet /\ Over.at = "ended" /\ LoginKnown(Over) /\ FormOf(Over) /\ DraftSaid(Over)
  BY NoFlowIs, ZenonT(60) DEF Over, FlowSet, Steps, LoginKnown, FormOf, DraftSaid
<1> QED
  BY <1>1 DEF FlowInv, FlowTypeOK

\* The account a login has found: its own entry is renewed, or it has none and gets one.
LEMMA AccountStep ==
  ASSUME FlowAssumption, FlowInv, NEW f \in Flows, Renew(f) \/ Known(f) \/ Created(f)
  PROVE  FlowInv'
<1>1. flow[f] \in FlowSet /\ LoginKnown(flow[f])
  BY DEF FlowInv, FlowTypeOK
<1>2. CASE Renew(f) /\ (InProgress(f, flow[f].got) \/ Mismatch(f))
  BY <1>2, FlowEnds DEF Renew
<1>3. CASE Renew(f) /\ ~(InProgress(f, flow[f].got) \/ Mismatch(f))
  <2> DEFINE a == flow[f].entry
  <2>1. a \in Accounts /\ flow[f].got = a
    BY <1>1, <1>3 DEF Renew, LoginKnown, Mismatch
  <2>2. /\ entries' = [entries EXCEPT ![a] = {[e EXCEPT !.data = a] : e \in entries[a]}]
        /\ UNCHANGED <<holder, chosen, changes>>
    BY <1>3, <2>1 DEF Renew
  <2>7. flow' = [g \in Flows |-> IF g \in {f} THEN Over ELSE flow[g]]
    BY <1>3 DEF Renew, Ends, FlowInv, FlowTypeOK
  <2> HIDE DEF a
  <2>3. entries \in [Accounts -> SUBSET EntrySet]
    BY DEF FlowInv, FlowTypeOK
  <2>4. \A e \in EntrySet : LET x == [e EXCEPT !.data = a]
                            IN x \in EntrySet /\ x.data = a /\ x.options = e.options
    BY <2>1 DEF EntrySet
  <2>5. \A b \in Accounts : entries'[b] = IF b = a THEN {[e EXCEPT !.data = a] : e \in entries[a]}
                                                   ELSE entries[b]
    BY <2>1, <2>2, <2>3
  <2>8. \A b \in Accounts : \A e \in entries'[b] : 
          \E old \in entries[b] : e \in EntrySet /\ e.options = old.options /\ (e.data = b \/ e = old)
    <3>1. ASSUME NEW e \in entries'[a]
          PROVE  \E old \in entries[a] : e \in EntrySet /\ e.options = old.options /\ e.data = a
      <4> DEFINE Renewed(x) == [x EXCEPT !.data = a]
      <4>0. e \in {Renewed(x) : x \in entries[a]}
        BY <2>1, <2>5
      <4> HIDE DEF Renewed
      <4>1. PICK old \in entries[a] : e = Renewed(old)
        BY <4>0
      <4>2. old \in EntrySet
        BY <2>1, <2>3
      <4> QED
        BY <2>4, <4>1, <4>2 DEF Renewed
    <3>2. ASSUME NEW b \in Accounts, b # a PROVE entries'[b] = entries[b]
      BY <2>5, <3>2
    <3> QED
      BY <2>3, <3>1, <3>2
  <2>9. /\ entries' \in [Accounts -> SUBSET EntrySet]
        /\ \A b \in Accounts : entries[b] = {} <=> entries'[b] = {}
    <3>1. \A b \in Accounts : entries'[b] \in SUBSET EntrySet
      BY <2>8
    <3>2. entries[a] = {} <=> {[e EXCEPT !.data = a] : e \in entries[a]} = {}
      OBVIOUS
    <3>3. \A b \in Accounts : entries[b] = {} <=> entries'[b] = {}
      BY <2>5, <3>2
    <3> QED
      BY <2>2, <2>3, <3>1, <3>3
  <2>10. EntryIsItsAccount' /\ OptionsAreAsSaved'
    BY <2>2, <2>8 DEF FlowInv, EntryIsItsAccount, OptionsAreAsSaved
  <2>6. /\ flow' \in [Flows -> FlowSet]
        /\ \A g \in Flows : /\ flow'[g] = (IF g \in {f} THEN Over ELSE flow[g])
                            /\ LoginKnown(flow'[g]) /\ FormOf(flow'[g]) /\ DraftSaid(flow'[g])
                            /\ g \in {f} => flow'[g].at = "ended"
    BY <2>7, SomeFlowsEnd
  <2>11. \A g \in Flows : (LoginKnown(flow[g]) /\ FormOf(flow[g]) /\ DraftSaid(flow[g]))'
    <3>1. \A g \in Flows : LoginKnown(flow'[g]) /\ FormOf(flow'[g]) /\ DraftSaid(flow'[g])
      BY <2>6
    <3> QED
      BY <2>2, <2>9, <3>1, StillSo
  <2>12. CreatesAlone' /\ NoEntryDefault'
    <3>1. \A g \in Flows : flow[g].at = "creating" => flow[g].id \in Accounts
      BY DEF FlowInv, LoginKnown
    <3>2. CreatesAlone'
      BY <2>6, <2>9, <3>1 DEF FlowInv, CreatesAlone
    <3> QED
      BY <2>2, <2>9, <3>2 DEF FlowInv, NoEntryDefault
  <2> QED
    BY <2>2, <2>6, <2>9, <2>10, <2>11, <2>12 DEF FlowInv, FlowTypeOK
<1>4. CASE Known(f)
  <2> DEFINE got == flow[f].got
             x == [flow[f] EXCEPT !.at = "creating", !.id = got]
  <2>1. CASE InProgress(f, got) \/ entries[got] # {}
    BY <1>4, <2>1, FlowEnds DEF Known
  <2>2. CASE ~(InProgress(f, got) \/ entries[got] # {})
    <3>1. flow' = [flow EXCEPT ![f] = x] /\ UNCHANGED <<holder, entries, chosen, changes>>
      BY <1>4, <2>2 DEF Known, FlowInv, FlowTypeOK
    <3>2. got \in Accounts
      BY <1>1, <1>4 DEF Known, LoginKnown
    <3>3. \A g \in Flows \ {f} : flow[g].at = "creating" => flow[g].id # got
      BY <2>2 DEF InProgress, Open
    <3>4. x \in FlowSet
      BY <1>1, <3>2, ZenonT(60) DEF FlowSet, Steps
    <3>5. x.at = "creating" /\ x.id = got /\ x.got = got
      BY <1>1, <3>2 DEF FlowSet
    <3>6. x.user = flow[f].user /\ x.server = flow[f].server /\ x.source = flow[f].source
      BY <1>1 DEF FlowSet
    <3> HIDE DEF x
    <3>7. LoginKnown(x) /\ FormOf(x) /\ DraftSaid(x)
      BY <1>1, <1>4, <3>2, <3>5, <3>6 DEF Known, LoginKnown, FormOf, DraftSaid
    <3> QED
      BY <2>2, <3>1, <3>3, <3>4, <3>5, <3>7, OneFlowMoves
  <2> QED
    BY <2>1, <2>2
<1>5. CASE Created(f)
  <2> DEFINE a == flow[f].id
             new == [user |-> flow[f].user, server |-> flow[f].server, data |-> flow[f].got,
                     options |-> Default]
             over == {g \in Flows : g = f \/ (Open(g) /\ flow[g].id \in {"discovery", a})}
  <2>1. a \in Accounts /\ flow[f].got = a /\ entries[a] = {}
    BY <1>1, <1>5 DEF Created, LoginKnown, FlowInv, CreatesAlone
  <2>2. new \in EntrySet /\ new.data = a /\ new.options = Default
    BY <1>1, <1>5, <2>1 DEF Created, LoginKnown, EntrySet, OptionSet, Default
  <2>3. /\ entries' = [entries EXCEPT ![a] = {new}]
        /\ UNCHANGED <<holder, chosen, changes>>
        /\ flow' = [g \in Flows |-> IF g \in over THEN Over ELSE flow[g]]
    BY <1>5 DEF Created
  <2>4. \A g \in Flows : flow[g].at = "creating" /\ flow[g].id = a => g \in over
    BY DEF Open
  <2>5. over \in SUBSET Flows
    OBVIOUS
  <2> HIDE DEF a, new, over
  <2>6. /\ flow' \in [Flows -> FlowSet]
        /\ \A g \in Flows : /\ flow'[g] = (IF g \in over THEN Over ELSE flow[g])
                            /\ LoginKnown(flow'[g]) /\ FormOf(flow'[g]) /\ DraftSaid(flow'[g])
                            /\ g \in over => flow'[g].at = "ended"
    BY <2>3, <2>5, SomeFlowsEnd
  <2>7. /\ entries' \in [Accounts -> SUBSET EntrySet]
        /\ EntryIsItsAccount' /\ OptionsAreAsSaved' /\ NoEntryDefault'
    BY <2>1, <2>2, <2>3 DEF FlowInv, FlowTypeOK, EntryIsItsAccount, OptionsAreAsSaved, NoEntryDefault
  <2>8. CreatesAlone'
    BY <2>1, <2>3, <2>4, <2>6 DEF FlowInv, FlowTypeOK, CreatesAlone
  <2>9. \A g \in Flows : (LoginKnown(flow[g]) /\ FormOf(flow[g]) /\ DraftSaid(flow[g]))'
    <3>1. \A g \in Flows : LoginKnown(flow'[g]) /\ FormOf(flow'[g]) /\ DraftSaid(flow'[g])
      BY <2>6
    <3>2. \A b \in Accounts : entries[b] # {} => entries'[b] # {}
      BY <2>3 DEF FlowInv, FlowTypeOK
    <3> QED
      BY <2>3, <3>1, <3>2, StillSo
  <2> QED
    BY <2>3, <2>6, <2>7, <2>8, <2>9 DEF FlowInv, FlowTypeOK
<1> QED
  BY <1>2, <1>3, <1>4, <1>5

\* What Draft keeps of a form it accepts (_apply_options of the options flow).
LEMMA DraftKeeps ==
  ASSUME NEW old \in OptionSet, NEW input \in Submissions
  PROVE  LET d == Draft(old, input)
         IN /\ d \in OptionSet /\ d.garage = old.garage /\ d.map = input.map
            /\ Accepted(input.number) => d.number = input.number
<1> DEFINE n == IF Accepted(input.number) THEN input.number ELSE old.number
           d == [old EXCEPT !.map = input.map, !.number = n]
<1>1. n \in {"few", "many"} /\ input.map \in {"plain", "full"}
  BY DEF Accepted, OptionSet, Submissions
<1>2. Draft(old, input) = d /\ (Accepted(input.number) => n = input.number)
  BY DEF Draft
<1> HIDE DEF n
<1>3. d \in OptionSet
  BY <1>1 DEF OptionSet
<1>4. d.garage = old.garage /\ d.map = input.map /\ d.number = n
  BY DEF OptionSet
<1> QED
  BY <1>2, <1>3, <1>4

\* A flow that saves a draft its form has said keeps the invariant: the entry and the
\* history get the same options, and the entry's other flows learn of it.
LEMMA SaveStep ==
  ASSUME FlowInv, NEW f \in Flows, NEW input \in Submissions, NEW draft \in OptionSet,
         Save(f, input, draft), UNCHANGED <<holder, changes>>,
         flow[f].at \in {"form", "garage"},
         draft.number = input.number, draft.map = input.map,
         flow[f].late \/ flow[f].at = "garage" \/ draft.garage = chosen[flow[f].entry].garage
  PROVE  FlowInv'
<1> DEFINE a == flow[f].entry
           others == {g \in Flows : g # f /\ flow[g].source = "options" /\ flow[g].entry = a}
<1>1. a \in Accounts
  BY DEF FlowInv, FormOf
<1>2. entries \in [Accounts -> SUBSET EntrySet] /\ chosen \in [Accounts -> OptionSet]
      /\ flow \in [Flows -> FlowSet]
  BY DEF FlowInv, FlowTypeOK
<1>3. chosen' = [chosen EXCEPT ![a] = draft]
  <2>1. draft = [number |-> draft.number, map |-> draft.map, garage |-> draft.garage]
    BY DEF OptionSet
  <2>2. (IF flow[f].late \/ flow[f].at = "garage" THEN draft.garage ELSE chosen[a].garage)
          = draft.garage
    OBVIOUS
  <2>3. chosen' = [chosen EXCEPT ![a] =
          [number |-> input.number, map |-> input.map,
           garage |-> IF flow[f].late \/ flow[f].at = "garage" THEN draft.garage ELSE @.garage]]
    BY DEF Save
  <2> QED
    BY <1>1, <1>2, <2>1, <2>2, <2>3
<1>4. entries' = [entries EXCEPT ![a] = {[e EXCEPT !.options = draft] : e \in entries[a]}]
  BY DEF Save
<1>5. \A g \in Flows : flow'[g] = IF g = f THEN Over
                                  ELSE IF g \in others THEN [flow[g] EXCEPT !.late = TRUE]
                                  ELSE flow[g]
  BY DEF Save
<1>6. flow' \in [Flows -> FlowSet]
  <2>1. Over \in FlowSet
    BY NoFlowIs DEF Over, FlowSet, Steps
  <2>2. \A x \in FlowSet : [x EXCEPT !.late = TRUE] \in FlowSet
    BY DEF FlowSet
  <2>3. \A g \in Flows : flow'[g] \in FlowSet
    BY <1>2, <1>5, <2>1, <2>2
  <2>4. flow' = [g \in Flows |-> flow'[g]]
    BY DEF Save
  <2> QED
    BY <2>3, <2>4
<1> HIDE DEF a, others
<1>7. \A b \in Accounts : \A e \in entries'[b] :
        \E old \in entries[b] :
          e \in EntrySet /\ e.data = old.data /\ e.options = (IF b = a THEN draft ELSE old.options)
  <2> DEFINE Saved(x) == [x EXCEPT !.options = draft]
  <2>1. \A x \in EntrySet : Saved(x) \in EntrySet /\ Saved(x).data = x.data /\ Saved(x).options = draft
    BY DEF EntrySet
  <2>2. ASSUME NEW e \in entries'[a]
        PROVE  \E old \in entries[a] : e \in EntrySet /\ e.data = old.data /\ e.options = draft
    <3>1. e \in {Saved(x) : x \in entries[a]}
      BY <1>1, <1>2, <1>4
    <3> HIDE DEF Saved
    <3>2. PICK old \in entries[a] : e = Saved(old)
      BY <3>1
    <3>3. old \in EntrySet
      BY <1>1, <1>2
    <3> QED
      BY <2>1, <3>2, <3>3
  <2>3. \A b \in Accounts \ {a} : entries'[b] = entries[b]
    BY <1>2, <1>4
  <2> QED
    BY <1>2, <2>2, <2>3
<1>8. \A b \in Accounts : entries[b] = {} <=> entries'[b] = {}
  <2>1. entries[a] = {} <=> {[e EXCEPT !.options = draft] : e \in entries[a]} = {}
    OBVIOUS
  <2>2. entries'[a] = {[e EXCEPT !.options = draft] : e \in entries[a]}
    BY <1>1, <1>2, <1>4
  <2>3. \A b \in Accounts \ {a} : entries'[b] = entries[b]
    BY <1>2, <1>4
  <2> QED
    BY <2>1, <2>2, <2>3
<1>9. FlowTypeOK'
  <2>1. \A b \in Accounts : entries'[b] \in SUBSET EntrySet
    BY <1>7
  <2>2. entries' \in [Accounts -> SUBSET EntrySet]
    BY <1>2, <1>4, <2>1
  <2> QED
    BY <1>1, <1>2, <1>3, <1>6, <2>2 DEF FlowInv, FlowTypeOK
<1>10. EntryIsItsAccount'
  BY <1>7 DEF FlowInv, EntryIsItsAccount
<1>11. OptionsAreAsSaved'
  BY <1>1, <1>2, <1>3, <1>7 DEF FlowInv, OptionsAreAsSaved
<1>12. NoEntryDefault'
  <2>1. entries[a] # {}
    BY DEF FlowInv, FormOf, a
  <2> QED
    BY <1>2, <1>3, <1>8, <2>1 DEF FlowInv, NoEntryDefault
<1>13. \A g \in Flows : flow'[g].at = "creating" =>
                          flow[g].at = "creating" /\ flow'[g].id = flow[g].id /\ flow[g].id \in Accounts
  <2>1. Over.at # "creating"
    BY NoFlowIs DEF Over, FlowSet
  <2>2. \A x \in FlowSet : LET y == [x EXCEPT !.late = TRUE] IN y.at = x.at /\ y.id = x.id
    BY DEF FlowSet
  <2>3. \A g \in Flows : flow[g].at = "creating" => flow[g].id \in Accounts
    BY DEF FlowInv, LoginKnown
  <2> QED
    BY <1>2, <1>5, <2>1, <2>2, <2>3
<1>14. CreatesAlone'
  BY <1>8, <1>13 DEF FlowInv, CreatesAlone
<1>15. ASSUME NEW g \in Flows PROVE (LoginKnown(flow[g]) /\ FormOf(flow[g]) /\ DraftSaid(flow[g]))'
  <2>1. CASE g = f
    <3>1. flow'[g] = Over /\ LoginKnown(Over) /\ Over.at = "ended"
      BY <1>5, <2>1, NoFlowIs DEF Over, FlowSet, LoginKnown
    <3> QED
      BY <3>1 DEF LoginKnown, FormOf, DraftSaid
  <2>2. CASE g # f /\ g \in others
    <3> DEFINE y == flow'[g]
    <3>1. y = [flow[g] EXCEPT !.late = TRUE] /\ flow[g] \in FlowSet
      BY <1>2, <1>5, <2>2
    <3>2. y.late /\ y.at = flow[g].at /\ y.source = flow[g].source /\ y.entry = flow[g].entry
      BY <3>1 DEF FlowSet
    <3>3. y.user = flow[g].user /\ y.server = flow[g].server /\ y.got = flow[g].got /\ y.id = flow[g].id
      BY <3>1 DEF FlowSet
    <3>4. y.draft = flow[g].draft /\ y.said = flow[g].said
      BY <3>1 DEF FlowSet
    <3> HIDE DEF y
    <3>5. LoginKnown(y) /\ FormOf(y) /\ DraftSaid(y)
      <4>1. LoginKnown(flow[g]) /\ FormOf(flow[g]) /\ DraftSaid(flow[g])
        BY DEF FlowInv
      <4>2. LoginKnown(y)
        BY <3>2, <3>3, <4>1 DEF LoginKnown
      <4>3. FormOf(y)
        BY <3>2, <4>1 DEF FormOf
      <4>4. DraftSaid(y)
        BY <3>2, <3>4, <4>1 DEF DraftSaid
      <4> QED
        BY <4>2, <4>3, <4>4
    <3>6. (y.at \in {"form", "select", "garage"} => entries'[y.entry] # {}) /\ y.late
      BY <1>8, <3>2, <3>5 DEF FormOf
    <3> QED
      BY <3>5, <3>6 DEF y, LoginKnown, FormOf, DraftSaid
  <2>3. CASE g # f /\ g \notin others
    <3>1. flow'[g] = flow[g] /\ LoginKnown(flow[g]) /\ FormOf(flow[g]) /\ DraftSaid(flow[g])
      BY <1>5, <2>3 DEF FlowInv
    <3>2. flow[g].at \in {"form", "select", "garage"} =>
            flow[g].entry # a /\ chosen'[flow[g].entry] = chosen[flow[g].entry]
                              /\ entries'[flow[g].entry] # {}
      BY <1>2, <1>3, <1>8, <2>3, <3>1 DEF FormOf, others
    <3> QED
      BY <3>1, <3>2 DEF LoginKnown, FormOf, DraftSaid
  <2> QED
    BY <2>1, <2>2, <2>3
<1> QED
  BY <1>9, <1>10, <1>11, <1>12, <1>14, <1>15 DEF FlowInv

\* The steps of an options flow.
LEMMA OptionsStep ==
  ASSUME FlowAssumption, FlowInv, NEW f \in Flows,
         \/ \E input \in Submissions, legacy \in BOOLEAN, garage \in BOOLEAN :
              SubmitOptions(f, input, legacy, garage)
         \/ \E offered \in BOOLEAN : SelectGarage(f, offered)
         \/ \E binding \in {"none", "door"} : GarageSaved(f, binding)
  PROVE  FlowInv'
<1>1. flow[f] \in FlowSet /\ LoginKnown(flow[f]) /\ FormOf(flow[f]) /\ DraftSaid(flow[f])
  BY DEF FlowInv, FlowTypeOK
<1>2. ASSUME NEW input \in Submissions, NEW legacy \in BOOLEAN, NEW garage \in BOOLEAN,
             SubmitOptions(f, input, legacy, garage)
      PROVE  FlowInv'
  <2> DEFINE refused == ~Accepted(input.number) \/ legacy
  <2>1. flow[f].at = "form" /\ UNCHANGED <<holder, changes>>
    BY <1>2 DEF SubmitOptions
  <2>2. PICK old \in flow[f].draft :
          LET draft == Draft(old, input)
          IN IF refused \/ garage
             THEN /\ flow' = [flow EXCEPT ![f].draft = {draft},
                                          ![f].at = IF refused THEN "form" ELSE "select",
                                          ![f].said = IF refused THEN {} ELSE {input}]
                  /\ entries' = [entries EXCEPT ![flow[f].entry] = Kept(flow[f].entry, draft)]
                  /\ UNCHANGED chosen
             ELSE Save(f, input, draft)
    BY <1>2 DEF SubmitOptions
  <2> DEFINE d == Draft(old, input)
  <2>3. old \in OptionSet
    BY <1>1 DEF FlowSet
  <2>4. /\ d \in OptionSet /\ d.garage = old.garage /\ d.map = input.map
        /\ Accepted(input.number) => d.number = input.number
    BY <2>3, DraftKeeps
  <2>5. flow[f].late \/ d.garage = chosen[flow[f].entry].garage
    BY <1>1, <2>1, <2>4 DEF FormOf
  <2>6. CASE refused \/ garage
    <3> DEFINE at == IF refused THEN "form" ELSE "select"
               said == IF refused THEN {} ELSE {input}
               x == [flow[f] EXCEPT !.draft = {d}, !.at = at, !.said = said]
    <3>1. flow' = [flow EXCEPT ![f] = x]
      BY <2>2, <2>6 DEF FlowInv, FlowTypeOK
    <3>2. entries' = entries /\ chosen' = chosen
      BY <2>2, <2>6 DEF Kept, FlowInv, FlowTypeOK
    <3>3. at \in {"form", "select"} /\ said \in SUBSET Submissions
      OBVIOUS
    <3>4. \A i \in said : d.number = i.number /\ d.map = i.map
      BY <2>4
    <3> HIDE DEF at, said, refused, d
    <3>5. x \in FlowSet
      BY <1>1, <2>4, <3>3, ZenonT(60) DEF FlowSet, Steps
    <3>6. x.at = at /\ x.draft = {d} /\ x.said = said
      BY <1>1 DEF FlowSet
    <3>7. x.source = flow[f].source /\ x.entry = flow[f].entry /\ x.late = flow[f].late
      BY <1>1 DEF FlowSet
    <3> HIDE DEF x
    <3>8. LoginKnown(x)
      BY <1>1, <2>1, <3>3, <3>6, <3>7 DEF LoginKnown, FormOf
    <3>9. FormOf(x)
      BY <1>1, <2>1, <2>5, <3>6, <3>7 DEF FormOf
    <3>10. DraftSaid(x)
      BY <3>4, <3>6 DEF DraftSaid
    <3> QED
      BY <2>1, <3>1, <3>2, <3>3, <3>5, <3>6, <3>8, <3>9, <3>10, OneFlowMoves
  <2>7. CASE ~(refused \/ garage)
    <3>1. Save(f, input, d) /\ Accepted(input.number)
      BY <2>2, <2>7
    <3> QED
      BY <2>1, <2>4, <2>5, <3>1, SaveStep
  <2> QED
    BY <2>6, <2>7
<1>3. ASSUME NEW offered \in BOOLEAN, SelectGarage(f, offered) PROVE FlowInv'
  <2>1. CASE ~offered
    BY <1>3, <2>1, FlowEnds DEF SelectGarage
  <2>2. CASE offered
    <3> DEFINE x == [flow[f] EXCEPT !.at = "garage"]
    <3>1. flow' = [flow EXCEPT ![f] = x] /\ UNCHANGED <<holder, entries, chosen, changes>>
      BY <1>3, <2>2 DEF SelectGarage, Awaits
    <3>2. x \in FlowSet
      BY <1>1 DEF FlowSet, Steps
    <3>3. x.at = "garage" /\ x.draft = flow[f].draft /\ x.said = flow[f].said
      BY <1>1 DEF FlowSet
    <3>4. x.source = flow[f].source /\ x.entry = flow[f].entry /\ x.late = flow[f].late
      BY <1>1 DEF FlowSet
    <3> HIDE DEF x
    <3>5. LoginKnown(x) /\ FormOf(x) /\ DraftSaid(x)
      BY <1>1, <1>3, <3>3, <3>4 DEF SelectGarage, LoginKnown, FormOf, DraftSaid
    <3> QED
      BY <3>1, <3>2, <3>3, <3>5, OneFlowMoves
  <2> QED
    BY <2>1, <2>2
<1>4. ASSUME NEW binding \in {"none", "door"}, GarageSaved(f, binding) PROVE FlowInv'
  <2>1. flow[f].at = "garage" /\ UNCHANGED <<holder, changes>>
    BY <1>4 DEF GarageSaved
  <2>2. PICK old \in flow[f].draft, input \in flow[f].said :
          Save(f, input, [old EXCEPT !.garage = binding])
    BY <1>4 DEF GarageSaved
  <2> DEFINE d == [old EXCEPT !.garage = binding]
  <2>3. old \in OptionSet /\ input \in Submissions /\ old.number = input.number /\ old.map = input.map
    BY <1>1, <2>1 DEF FlowSet, DraftSaid
  <2>4. d \in OptionSet
    BY <2>3 DEF OptionSet
  <2>5. d.number = old.number /\ d.map = old.map
    BY <2>3 DEF OptionSet
  <2> HIDE DEF d
  <2>6. Save(f, input, d)
    BY <2>2 DEF d
  <2> QED
    BY <2>1, <2>3, <2>4, <2>5, <2>6, SaveStep
<1> QED
  BY <1>2, <1>3, <1>4

\* What others do: a user closes a dialog, an account changes hands, an entry is removed.
LEMMA OthersStep ==
  ASSUME FlowAssumption, FlowInv,
         \/ \E f \in Flows : Closed(f)
         \/ \E user \in Users, server \in Servers, a \in Accounts \cup {"none"} : Registers(user, server, a)
         \/ \E a \in Accounts : Removed(a)
  PROVE  FlowInv'
<1>1. ASSUME NEW f \in Flows, Closed(f) PROVE FlowInv'
  BY <1>1, FlowEnds DEF Closed
<1>2. ASSUME NEW user \in Users, NEW server \in Servers, NEW a \in Accounts \cup {"none"},
             Registers(user, server, a)
      PROVE  FlowInv'
  <2>1. UNCHANGED <<entries, flow, chosen>> /\ holder' = [holder EXCEPT ![<<user, server>>] = a]
        /\ changes > 0 /\ changes' = changes - 1
    BY <1>2 DEF Registers, Change
  <2>2. FlowTypeOK'
    BY <2>1 DEF FlowInv, FlowTypeOK
  <2>3. ASSUME NEW f \in Flows PROVE (LoginKnown(flow[f]) /\ FormOf(flow[f]) /\ DraftSaid(flow[f]))'
    <3>1. LoginKnown(flow[f]) /\ FormOf(flow[f]) /\ DraftSaid(flow[f])
      BY DEF FlowInv
    <3>2. LoginKnown(flow[f])'
      BY <2>1, <3>1 DEF LoginKnown
    <3>3. FormOf(flow[f])'
      BY <2>1, <3>1 DEF FormOf
    <3>4. DraftSaid(flow[f])'
      BY <2>1, <3>1 DEF DraftSaid
    <3> QED
      BY <3>2, <3>3, <3>4
  <2> QED
    BY <2>1, <2>2, <2>3 DEF FlowInv, CreatesAlone, NoEntryDefault, EntryIsItsAccount, OptionsAreAsSaved
<1>3. ASSUME NEW a \in Accounts, Removed(a) PROVE FlowInv'
  <2> DEFINE over == {g \in Flows : Open(g) /\ flow[g].entry = a}
  <2>1. /\ entries' = [entries EXCEPT ![a] = {}] /\ chosen' = [chosen EXCEPT ![a] = Default]
        /\ flow' = [g \in Flows |-> IF g \in over THEN Over ELSE flow[g]]
        /\ UNCHANGED holder /\ changes > 0 /\ changes' = changes - 1
    BY <1>3 DEF Removed, Change
  <2>2. over \in SUBSET Flows /\ \A g \in Flows \ over : flow[g].entry = a => flow[g].at \in {"none", "ended"}
    BY DEF Open
  <2> HIDE DEF over
  <2>3. /\ flow' \in [Flows -> FlowSet]
        /\ \A g \in Flows : /\ flow'[g] = (IF g \in over THEN Over ELSE flow[g])
                            /\ LoginKnown(flow'[g]) /\ FormOf(flow'[g]) /\ DraftSaid(flow'[g])
                            /\ g \in over => flow'[g].at = "ended"
    BY <2>1, <2>2, SomeFlowsEnd
  <2>4. FlowTypeOK'
    BY <2>1, <2>3 DEF FlowInv, FlowTypeOK, Default, OptionSet
  <2>5. NoEntryDefault' /\ EntryIsItsAccount' /\ OptionsAreAsSaved'
    BY <2>1 DEF FlowInv, FlowTypeOK, NoEntryDefault, EntryIsItsAccount, OptionsAreAsSaved
  <2>6. CreatesAlone'
    BY <2>1, <2>3 DEF FlowInv, FlowTypeOK, CreatesAlone
  <2>7. ASSUME NEW g \in Flows PROVE (LoginKnown(flow[g]) /\ FormOf(flow[g]) /\ DraftSaid(flow[g]))'
    <3>1. LoginKnown(flow'[g]) /\ FormOf(flow'[g]) /\ DraftSaid(flow'[g])
      BY <2>3
    <3>2. flow'[g].at \in {"form", "select", "garage"} => flow'[g].entry # a
      BY <2>2, <2>3
    <3>3. \A b \in Accounts \ {a} : entries'[b] = entries[b] /\ chosen'[b] = chosen[b]
      BY <2>1 DEF FlowInv, FlowTypeOK
    <3> QED
      BY <3>1, <3>2, <3>3 DEF LoginKnown, FormOf, DraftSaid
  <2> QED
    BY <2>4, <2>5, <2>6, <2>7 DEF FlowInv
<1> QED
  BY <1>1, <1>2, <1>3

\* Every step keeps the invariant.
LEMMA FlowStep == ASSUME FlowAssumption PROVE FlowInv /\ [FlowNext]_flowVars => FlowInv'
<1> SUFFICES ASSUME FlowAssumption, FlowInv, [FlowNext]_flowVars PROVE FlowInv'
  OBVIOUS
<1>1. CASE UNCHANGED flowVars
  <2>1. \A f \in Flows : (LoginKnown(flow[f]) /\ FormOf(flow[f]) /\ DraftSaid(flow[f]))'
    BY <1>1, StillSo DEF flowVars, FlowInv
  <2> QED
    BY <1>1, <2>1 DEF flowVars, FlowInv, FlowTypeOK, CreatesAlone, NoEntryDefault, EntryIsItsAccount,
                      OptionsAreAsSaved
<1>2. CASE FlowNext
  BY <1>2, FlowOpens, LoginStep, AccountStep, OptionsStep, OthersStep DEF FlowNext
<1> QED
  BY <1>1, <1>2

\* An entry holds the login of its own account and no other, whatever flows are open side
\* by side and whatever becomes of names and entries meanwhile (config_flow.py:274-282).
THEOREM EntryKeepsItsAccount == ASSUME FlowAssumption PROVE FlowSpec => []EntryIsItsAccount
<1>1. FlowInv => EntryIsItsAccount
  BY DEF FlowInv
<1> QED
  BY <1>1, FlowBegins, FlowStep, PTL DEF FlowSpec

\* The options of an entry are those that were last saved for it, and no refused or
\* abandoned form, no login and no other entry's flow changes them
\* (config_flow.py:363, 374-444).
THEOREM OptionsStayAsSaved == ASSUME FlowAssumption PROVE FlowSpec => []OptionsAreAsSaved
<1>1. FlowInv => OptionsAreAsSaved
  BY DEF FlowInv
<1> QED
  BY <1>1, FlowBegins, FlowStep, PTL DEF FlowSpec

-----------------------------------------------------------------------------
(* The pictures.  What is kept under a key was drawn for a map at that     *)
(* address, with the marker moved to where the robot of the key is; a map  *)
(* found under the key has the same address and marker, and may be another *)
(* one in all the rest.                                                    *)

\* A picture that may answer a fetch.
Fits(c, res, got) ==
  /\ got.map # c.map => got.address = c.address
  /\ got.marker \in {c.drawn, res.x}
  /\ ~res.trusted => got.marker = c.drawn
  /\ res.from_dock /\ c.layout = <<"other", "robot">> /\ converter =>
       got.marker # Nowhere /\ got.marker - res.x \in -Tolerance..Tolerance

\* A picture that was moved for its key.
KeptFor(k, c, res) ==
  /\ k.key = CacheKey(c, res)
  /\ RenderPosition(c.drawn, res) # Nowhere
  /\ k.picture.address = c.address /\ k.picture.marker = RenderPosition(c.drawn, res)

ImageInv ==
  /\ content \subseteq Contents /\ resolved \in Resolutions
  /\ \A k \in cache : \E c \in Contents, res \in Resolutions : KeptFor(k, c, res)
  /\ \A f \in Fetches :
       /\ fetch[f].at = "running" => fetch[f].of \in Contents /\ fetch[f].by \in Resolutions
       /\ fetch[f].at = "done" => Fits(fetch[f].of, fetch[f].by, fetch[f].got)
  /\ fetch = [f \in Fetches |-> fetch[f]]

\* Where a marker is moved, and when it may stay.
LEMMA MovedToRobot ==
  ASSUME NEW drawn, NEW res \in Resolutions
  PROVE  LET target == RenderPosition(drawn, res)
         IN /\ target # Nowhere => target = res.x /\ res.trusted
            /\ target = Nowhere /\ res.from_dock =>
                 drawn # Nowhere /\ drawn - res.x \in -Tolerance..Tolerance
            /\ res.from_dock => res.x = Charger /\ res.x - res.x \in -Tolerance..Tolerance
<1>1. res.from_dock => res.trusted /\ res.x = Charger
  <2>1. CASE res \in [x : Spots, trusted : {TRUE}, from_dock : {FALSE}]
    BY <2>1
  <2>2. CASE res = [x |-> Charger, trusted |-> TRUE, from_dock |-> TRUE]
    BY <2>2
  <2>3. CASE res = [x |-> Nowhere, trusted |-> FALSE, from_dock |-> FALSE]
    BY <2>3
  <2> QED
    BY <2>1, <2>2, <2>3 DEF Resolutions
<1>2. Charger # Nowhere /\ Charger - Charger \in -Tolerance..Tolerance
  BY DEF Charger, Nowhere, Tolerance
<1>3. RenderPosition(drawn, res) # Nowhere => RenderPosition(drawn, res) = res.x /\ res.trusted
  BY DEF RenderPosition
<1>4. RenderPosition(drawn, res) = Nowhere /\ res.from_dock =>
        drawn # Nowhere /\ drawn - res.x \in -Tolerance..Tolerance
  BY <1>1, <1>2 DEF RenderPosition
<1> QED
  BY <1>1, <1>2, <1>3, <1>4

\* A kept picture fits every map and robot with its key.
LEMMA KeptFits ==
  ASSUME NEW k \in cache, NEW c \in Contents, NEW res \in Resolutions, ImageInv,
         k.key = CacheKey(c, res)
  PROVE  Fits(c, res, k.picture)
<1>1. PICK old \in Contents, by \in Resolutions : KeptFor(k, old, by)
  BY DEF ImageInv
<1>2. old.address = c.address /\ old.drawn = c.drawn /\ by = res
  BY <1>1 DEF KeptFor, CacheKey
<1>3. k.picture.address = c.address /\ k.picture.marker = res.x /\ res.trusted /\ res.x # Nowhere
  BY <1>1, <1>2, MovedToRobot DEF KeptFor
<1> QED
  BY <1>3, MovedToRobot DEF Fits

\* The walk finds the position in a map it understands.
LEMMA RobotIsFound == RobotBlocks(<<"other", "robot">>) # {}
<1> DEFINE layout == <<"other", "robot">>
<1>1. DOMAIN layout = 1..2 /\ layout[1] = "other" /\ layout[2] = "robot"
  OBVIOUS
<1> HIDE DEF layout
<1>2. 2 \in RobotBlocks(layout)
  BY <1>1 DEF RobotBlocks
<1> QED
  BY <1>2 DEF layout

\* The picture drawn again, or left alone.
LEMMA DrawnFits ==
  ASSUME NEW c \in Contents, NEW res \in Resolutions
  PROVE  /\ \A picture \in Rerendered(c, res) :
              /\ Fits(c, res, picture)
              /\ KeptFor([key |-> CacheKey(c, res), picture |-> picture], c, res)
         /\ Rerendered(c, res) = {} => Fits(c, res, Picture(c, c.drawn))
<1> DEFINE target == RenderPosition(c.drawn, res)
<1>1. ASSUME NEW picture \in Rerendered(c, res)
      PROVE  /\ Fits(c, res, picture)
             /\ KeptFor([key |-> CacheKey(c, res), picture |-> picture], c, res)
  <2>1. target # Nowhere /\ picture = Picture(c, target)
    BY <1>1 DEF Rerendered
  <2>2. picture.map = c.map /\ picture.address = c.address /\ picture.marker = target
    BY <2>1 DEF Picture
  <2>3. target = res.x /\ res.trusted
    BY <2>1, MovedToRobot
  <2>4. Fits(c, res, picture)
    BY <2>1, <2>2, <2>3, MovedToRobot DEF Fits
  <2>5. KeptFor([key |-> CacheKey(c, res), picture |-> picture], c, res)
    BY <2>1, <2>2 DEF KeptFor
  <2> QED
    BY <2>4, <2>5
<1>2. ASSUME Rerendered(c, res) = {} PROVE Fits(c, res, Picture(c, c.drawn))
  <2>1. c.layout = <<"other", "robot">> /\ converter => target = Nowhere
    BY <1>2, RobotIsFound DEF Rerendered
  <2>2. Picture(c, c.drawn).map = c.map /\ Picture(c, c.drawn).marker = c.drawn
    BY DEF Picture
  <2> QED
    BY <2>1, <2>2, MovedToRobot DEF Fits
<1> QED
  BY <1>1, <1>2

\* The initial states satisfy it: nothing is kept and nothing was fetched.
LEMMA ImageBegins == ImageInit => ImageInv
  BY DEF ImageInit, ImageInv, NoFetch

\* A map or a position comes anew.
LEMMA WorldStep == ASSUME ImageInv, MapRefreshed \/ RobotMoved PROVE ImageInv'
<1>1. /\ content' \subseteq Contents /\ resolved' \in Resolutions
      /\ UNCHANGED <<cache, fetch, converter>>
  BY DEF MapRefreshed, RobotMoved, ImageInv
<1>2. \A f \in Fetches : fetch[f].at = "done" => Fits(fetch[f].of, fetch[f].by, fetch[f].got)'
  BY <1>1 DEF ImageInv, Fits
<1>3. \A k \in cache : \E c \in Contents, res \in Resolutions : KeptFor(k, c, res)
  BY DEF ImageInv
<1> QED
  BY <1>1, <1>2, <1>3 DEF ImageInv

\* A fetch is answered with a picture that fits.
LEMMA AnsweredStep ==
  ASSUME ImageInv, NEW f \in Fetches, NEW c \in Contents, NEW res \in Resolutions, NEW picture,
         Answered(f, c, res, picture), Fits(c, res, picture),
         UNCHANGED <<content, converter, resolved>>,
         \A k \in cache' : \E d \in Contents, by \in Resolutions : KeptFor(k, d, by)
  PROVE  ImageInv'
<1> DEFINE new == [at |-> "done", of |-> c, by |-> res, got |-> picture]
<1>1. new.at = "done" /\ new.of = c /\ new.by = res /\ new.got = picture
  OBVIOUS
<1> HIDE DEF new
<1>2. fetch' = [fetch EXCEPT ![f] = new]
  BY DEF Answered, new
<1>3. \A g \in Fetches : fetch'[g] = IF g = f THEN new ELSE fetch[g]
  BY <1>2 DEF ImageInv
<1>4. \A g \in Fetches : fetch'[g].at = "done" => Fits(fetch'[g].of, fetch'[g].by, fetch'[g].got)
  BY <1>1, <1>3 DEF ImageInv
<1>5. \A g \in Fetches : fetch'[g].at = "done" => Fits(fetch[g].of, fetch[g].by, fetch[g].got)'
  BY <1>4 DEF Fits
<1>6. \A g \in Fetches : fetch'[g].at = "running" => fetch'[g].of \in Contents /\ fetch'[g].by \in Resolutions
  BY <1>1, <1>3 DEF ImageInv
<1>7. fetch' = [g \in Fetches |-> fetch'[g]]
  BY <1>2 DEF ImageInv
<1> QED
  BY <1>5, <1>6, <1>7 DEF ImageInv

\* The steps of a fetch.
LEMMA FetchStep ==
  ASSUME ImageInv, NEW f \in Fetches, FetchStarts(f) \/ FetchRaises(f) \/ FetchEnds(f)
  PROVE  ImageInv'
<1>1. CASE FetchStarts(f)
  <2>1. PICK c \in content :
          LET kept == {k \in cache : k.key = CacheKey(c, resolved)}
          IN IF kept # {} THEN \E k \in kept : Answered(f, c, resolved, k.picture)
             ELSE fetch' = [fetch EXCEPT ![f] = [at |-> "running", of |-> c, by |-> resolved]]
    BY <1>1 DEF FetchStarts
  <2>2. c \in Contents /\ resolved \in Resolutions /\ UNCHANGED <<content, converter, resolved, cache>>
    BY <1>1 DEF FetchStarts, ImageInv
  <2>3. ASSUME NEW k \in cache, k.key = CacheKey(c, resolved), Answered(f, c, resolved, k.picture)
        PROVE  ImageInv'
    <3>1. Fits(c, resolved, k.picture)
      BY <2>2, <2>3, KeptFits
    <3>2. \A kept \in cache' : \E d \in Contents, by \in Resolutions : KeptFor(kept, d, by)
      BY <2>2 DEF ImageInv
    <3> QED
      BY <2>2, <2>3, <3>1, <3>2, AnsweredStep
  <2>4. ASSUME fetch' = [fetch EXCEPT ![f] = [at |-> "running", of |-> c, by |-> resolved]] PROVE ImageInv'
    <3>1. \A g \in Fetches : fetch'[g] = IF g = f THEN [at |-> "running", of |-> c, by |-> resolved]
                                         ELSE fetch[g]
      BY <2>4 DEF ImageInv
    <3>2. \A g \in Fetches : fetch'[g].at = "running" => fetch'[g].of \in Contents /\ fetch'[g].by \in Resolutions
      BY <2>2, <3>1 DEF ImageInv
    <3>3. \A g \in Fetches : fetch'[g].at = "done" => Fits(fetch'[g].of, fetch'[g].by, fetch'[g].got)
      BY <3>1 DEF ImageInv
    <3>4. \A g \in Fetches : fetch'[g].at = "done" => Fits(fetch[g].of, fetch[g].by, fetch[g].got)'
      BY <2>2, <3>3 DEF Fits
    <3>5. fetch' = [g \in Fetches |-> fetch'[g]]
      BY <2>4 DEF ImageInv
    <3>6. \A k \in cache' : \E d \in Contents, by \in Resolutions : KeptFor(k, d, by)
      BY <2>2 DEF ImageInv
    <3> QED
      BY <2>2, <3>2, <3>4, <3>5, <3>6 DEF ImageInv
  <2> QED
    BY <2>1, <2>3, <2>4
<1>2. CASE FetchRaises(f)
  <2>1. fetch' = [fetch EXCEPT ![f] = [at |-> "raised"]] /\ UNCHANGED <<content, converter, resolved, cache>>
    BY <1>2 DEF FetchRaises
  <2>2. \A g \in Fetches : fetch'[g] = IF g = f THEN [at |-> "raised"] ELSE fetch[g]
    BY <2>1 DEF ImageInv
  <2>3. \A g \in Fetches : fetch'[g].at \in {"running", "done"} => fetch'[g] = fetch[g]
    BY <2>2
  <2>4. \A g \in Fetches : fetch'[g].at = "done" => Fits(fetch'[g].of, fetch'[g].by, fetch'[g].got)
    BY <2>3 DEF ImageInv
  <2>5. \A g \in Fetches : fetch'[g].at = "done" => Fits(fetch[g].of, fetch[g].by, fetch[g].got)'
    BY <2>1, <2>4 DEF Fits
  <2>6. fetch' = [g \in Fetches |-> fetch'[g]]
    BY <2>1 DEF ImageInv
  <2>7. \A k \in cache' : \E d \in Contents, by \in Resolutions : KeptFor(k, d, by)
    BY <2>1 DEF ImageInv
  <2> QED
    BY <2>1, <2>3, <2>5, <2>6, <2>7 DEF ImageInv
<1>3. CASE FetchEnds(f)
  <2> DEFINE c == fetch[f].of
             res == fetch[f].by
  <2>1. c \in Contents /\ res \in Resolutions /\ UNCHANGED <<content, converter, resolved>>
    BY <1>3 DEF FetchEnds, ImageInv
  <2>2. CASE Rerendered(c, res) = {} /\ cache' = cache /\ Answered(f, c, res, Picture(c, c.drawn))
    <3>1. Fits(c, res, Picture(c, c.drawn))
      BY <2>1, <2>2, DrawnFits
    <3>2. \A k \in cache' : \E d \in Contents, by \in Resolutions : KeptFor(k, d, by)
      BY <2>2 DEF ImageInv
    <3> QED
      BY <2>1, <2>2, <3>1, <3>2, AnsweredStep
  <2>3. ASSUME NEW picture \in Rerendered(c, res),
               cache' = {[key |-> k, picture |-> picture] : k \in KeyKept(c, res)},
               Answered(f, c, res, picture)
        PROVE  ImageInv'
    <3>1. Fits(c, res, picture) /\ KeptFor([key |-> CacheKey(c, res), picture |-> picture], c, res)
      BY <2>1, DrawnFits
    <3>2. \A k \in cache' : k = [key |-> CacheKey(c, res), picture |-> picture]
      BY <2>3 DEF KeyKept
    <3>3. \A k \in cache' : \E d \in Contents, by \in Resolutions : KeptFor(k, d, by)
      BY <2>1, <3>1, <3>2
    <3> QED
      BY <2>1, <2>3, <3>1, <3>3, AnsweredStep
  <2> QED
    BY <1>3, <2>2, <2>3 DEF FetchEnds
<1> QED
  BY <1>1, <1>2, <1>3

\* Every step keeps the invariant.
LEMMA ImageStep == ImageInv /\ [ImageNext]_imageVars => ImageInv'
<1> SUFFICES ASSUME ImageInv, [ImageNext]_imageVars PROVE ImageInv'
  OBVIOUS
<1>1. CASE UNCHANGED imageVars
  <2>1. \A f \in Fetches : fetch[f].at = "done" => Fits(fetch[f].of, fetch[f].by, fetch[f].got)'
    BY <1>1 DEF imageVars, ImageInv, Fits
  <2>2. \A k \in cache : \E c \in Contents, res \in Resolutions : KeptFor(k, c, res)
    BY DEF ImageInv
  <2> QED
    BY <1>1, <2>1, <2>2 DEF imageVars, ImageInv
<1>2. CASE ImageNext
  BY <1>2, WorldStep, FetchStep DEF ImageNext
<1> QED
  BY <1>1, <1>2

\* Whoever fetches the picture gets that of the map as it was when they asked, or of an
\* earlier one at the same address, with the marker where the map had it or where the
\* robot was known to be (image.py:111-168, v1_map_render.py:18-27).
THEOREM PictureFitsItsMap == ImageSpec => []PictureIsOfItsMap
<1>1. ImageInv => PictureIsOfItsMap
  BY DEF ImageInv, PictureIsOfItsMap, Fits
<1> QED
  BY <1>1, ImageBegins, ImageStep, PTL DEF ImageSpec

-----------------------------------------------------------------------------
(* The stuck tracker.  It remembers two positions.  The invariant says     *)
(* what they tell of the whole trail: that everything since the anchor is  *)
(* near it, that everything since the backstop's anchor is in its region,  *)
(* and that each is the beginning of the trail unless the robot has moved  *)
(* away from it.                                                           *)


\* Stamps lie in the past, and every position of the trail has its own.
Stamped ==
  /\ tr.last # None => tr.last <= now
  /\ \A q \in trail : tr.last # None /\ q.since <= tr.last
  /\ \A q, o \in trail : q.since = o.since => q = o

\* The anchors are positions of the trail.
AnchorsSeen ==
  /\ tr.anchor # None => tr.anchor \in trail /\ tr.wide # None
  /\ tr.wide # None => tr.wide \in trail
  /\ tr.wide = None => trail = {} /\ tr.stuck = None /\ tr.trapped = None

\* Everything since the anchor is near it.
NearAnchor == tr.anchor # None => StayedNear(tr.anchor, Radius)

\* Without a gap the anchor lies in the region, and everything since the
\* beginning of the region is in it or next to it.
InRegion ==
  skipped = {} =>
    /\ tr.anchor # None => Dist[tr.anchor.at][tr.wide.at] <= BackRadius
    /\ tr.wide # None => StayedNear(tr.wide, BackRadius + Radius)

FirstOf(s) == \A q \in trail : s.since <= q.since

\* An anchor is where the movement began, unless the robot has left there.
BeginsTrail ==
  \A s \in trail : FirstOf(s) =>
    /\ tr.wide = s \/ ~StayedNear(s, BackRadius)
    /\ (skipped = {} /\ tr.anchor # None) => tr.anchor = s \/ ~StayedNear(s, Radius)

\* A verdict of the backstop rests on a whole long window.
TrappedLong ==
  tr.trapped # None => tr.wide # None /\ tr.last # None
                       /\ tr.last - tr.wide.since >= BackWindow

\* The flag of the sent event follows the verdict.
FlagIsVerdict == sent <=> tr.stuck # None

TrackerInv ==
  /\ TypeOK /\ TrappedLong /\ Stamped /\ AnchorsSeen /\ NearAnchor /\ InRegion /\ BeginsTrail
  /\ BackstopHolds /\ ReportedInTime /\ FlagIsVerdict

-----------------------------------------------------------------------------

LEMMA NoneFacts ==
  /\ None \notin Time /\ None \notin Anchor /\ None \notin Event
  /\ \A a \in Anchor : a.at \in Points /\ a.since \in Time
  /\ \A p \in Points, t \in Time : Place(p, t) \in Anchor
<1>1. Time \subseteq Int
  BY StuckAssumption DEF Time
<1>2. Anchor \subseteq [at : Points, since : Int]
  BY <1>1 DEF Anchor
<1>3. Event \subseteq [reason : {"stopped", "trapped"}, at : Int]
  BY <1>1 DEF Event
<1>5. \A p \in Points, t \in Time : Place(p, t) \in Anchor
  BY DEF Anchor, Place
<1>6. \A a \in Anchor : a.at \in Points /\ a.since \in Time
  BY DEF Anchor
<1> QED
  BY StuckAssumption, <1>1, <1>2, <1>3, <1>5, <1>6

\* observe leaves the tracker in its type.
LEMMA ObservedType ==
  ASSUME TypeOK, NEW p \in Points \cup {Unreadable}, NEW move \in BOOLEAN
  PROVE  Observed(tr, p, now, move) \in Tracker
<1> USE NoneFacts
<1>1. now \in Time /\ tr \in Tracker
  BY DEF TypeOK
<1>2. Reset \in Tracker /\ Lost(tr, now) \in Tracker
  BY <1>1 DEF Reset, Lost, Tracker
<1>3. CASE p \in Points
  <2> DEFINE u == [tr EXCEPT !.last = now]
  <2>1. u \in Tracker
    BY <1>1 DEF Tracker
  <2>2. Place(p, now) \in Anchor
    BY <1>1, <1>3
  <2>3. Anchored(u, p, now) \in Tracker
    BY <2>1, <2>2 DEF Anchored, Tracker
  <2>4. ASSUME NEW s \in Tracker PROVE Backstop(s, p, now) \in Tracker
    <3>1. /\ [s EXCEPT !.wide = Place(p, now)] \in Tracker
          /\ [s EXCEPT !.wide = Place(p, now), !.trapped = None] \in Tracker
      BY <2>2 DEF Tracker
    <3>2. s.wide # None =>
            [s EXCEPT !.trapped = Since(@, s.wide.since), !.stuck = Since(@, s.wide.since)]
              \in Tracker
      BY DEF Tracker, Since
    <3> QED
      BY <3>1, <3>2 DEF Backstop
  <2>5. Moved(u, p, now) \in Tracker
    BY <2>1, <2>2 DEF Moved, Tracker
  <2>6. u.anchor # None => Judged(u, p, now) \in Tracker
    <3>1. u.anchor # None => [u EXCEPT !.stuck = Since(@, u.anchor.since)] \in Tracker
      BY <2>1 DEF Since, Tracker
    <3> QED
      BY <2>1, <2>4, <2>5, <3>1 DEF Judged
  <2>7. u.anchor = tr.anchor
    BY <1>1 DEF Tracker
  <2> QED
    BY <1>1, <1>2, <2>3, <2>6, <2>7 DEF Observed
<1> QED
  BY <1>1, <1>2, <1>3 DEF Observed

\* What observe makes of a new position when it has anchors to judge it by.
Escaped(u, p) ==
  /\ Dist[p][tr.wide.at] > BackRadius
  /\ u.wide = Place(p, now) /\ u.trapped = None
InLong(u, p) ==
  /\ Dist[p][tr.wide.at] <= BackRadius /\ now - tr.wide.since >= BackWindow
  /\ u.wide = tr.wide /\ u.trapped # None /\ u.stuck # None
InYet(u, p) ==
  /\ Dist[p][tr.wide.at] <= BackRadius /\ now - tr.wide.since < BackWindow
  /\ u.wide = tr.wide /\ u.trapped = tr.trapped

JudgedMoved(u, p) ==
  /\ Dist[p][tr.anchor.at] > Radius /\ u.anchor = Place(p, now)
  /\ \/ Escaped(u, p) /\ u.stuck = None
     \/ InLong(u, p)
     \/ InYet(u, p) /\ u.stuck = None
JudgedStill(u, p) ==
  /\ Dist[p][tr.anchor.at] <= Radius /\ now - tr.anchor.since >= Window
  /\ u.anchor = tr.anchor /\ u.wide = tr.wide
  /\ u.stuck # None /\ u.trapped = tr.trapped
JudgedNear(u, p) ==
  /\ Dist[p][tr.anchor.at] <= Radius /\ now - tr.anchor.since < Window
  /\ u.anchor = tr.anchor
  /\ \/ Escaped(u, p) /\ u.stuck = tr.stuck
     \/ InLong(u, p)
     \/ InYet(u, p) /\ u.stuck = tr.stuck

LEMMA JudgedCases ==
  ASSUME TypeOK, NEW p \in Points, ~Repeated(tr, now),
         tr.anchor # None, tr.wide # None
  PROVE  LET u == Observed(tr, p, now, TRUE)
         IN u.last = now /\ (JudgedMoved(u, p) \/ JudgedStill(u, p) \/ JudgedNear(u, p))
<1> DEFINE v == [tr EXCEPT !.last = now]
           w == Moved(v, p, now)
           u == Observed(tr, p, now, TRUE)
<1>1. /\ now \in Time /\ now \in Int
      /\ tr.anchor \in Anchor /\ tr.wide \in Anchor
      /\ tr.anchor.since \in Int /\ tr.wide.since \in Int
      /\ tr.stuck \in Time \cup {None} /\ tr.trapped \in Time \cup {None}
  BY StuckAssumption DEF TypeOK, Tracker, Anchor, Time
<1>2. p # Unreadable
  BY StuckAssumption
<1>3. u = Judged(v, p, now)
  BY <1>1, <1>2 DEF Observed, TypeOK, Tracker
<1>4. /\ v.anchor = tr.anchor /\ v.wide = tr.wide /\ v.stuck = tr.stuck
      /\ v.trapped = tr.trapped /\ v.last = now
  BY DEF TypeOK, Tracker
<1>5. /\ w.anchor = Place(p, now) /\ w.wide = tr.wide /\ w.stuck = None
      /\ w.trapped = tr.trapped /\ w.last = now
  BY DEF TypeOK, Tracker, Moved
<1>6. Dist[p][tr.anchor.at] \in Int /\ Dist[p][tr.wide.at] \in Int
  BY StuckAssumption, <1>1 DEF Anchor
<1>7. v \in Tracker /\ w \in Tracker
  BY <1>1, NoneFacts DEF Moved, Tracker, TypeOK
<1>8. ASSUME NEW s \in Tracker, s.wide = tr.wide, s.trapped = tr.trapped, s.last = now
      PROVE  LET b == Backstop(s, p, now)
             IN /\ b.last = now /\ b.anchor = s.anchor
                /\ \/ Escaped(b, p) /\ b.stuck = s.stuck
                   \/ InLong(b, p)
                   \/ InYet(b, p) /\ b.stuck = s.stuck
  <2> DEFINE b == Backstop(s, p, now)
  <2>1. CASE Dist[p][tr.wide.at] > BackRadius
    <3>1. b = [s EXCEPT !.wide = Place(p, now), !.trapped = None]
      BY StuckAssumption, <1>1, <1>6, <1>8, <2>1 DEF Backstop
    <3> QED
      BY <1>8, <2>1, <3>1 DEF Escaped, Tracker
  <2>2. CASE Dist[p][tr.wide.at] <= BackRadius /\ now - tr.wide.since >= BackWindow
    <3>1. b = [s EXCEPT !.trapped = Since(@, s.wide.since), !.stuck = Since(@, s.wide.since)]
      BY StuckAssumption, <1>1, <1>6, <1>8, <2>2 DEF Backstop
    <3>2. s.wide.since # None
      BY <1>1, <1>8, NoneFacts
    <3> QED
      BY <1>8, <2>2, <3>1, <3>2 DEF InLong, Since, Tracker
  <2>3. CASE Dist[p][tr.wide.at] <= BackRadius /\ now - tr.wide.since < BackWindow
    <3>1. b = s
      BY StuckAssumption, <1>1, <1>6, <1>8, <2>3 DEF Backstop
    <3> QED
      BY <1>8, <2>3, <3>1 DEF InYet
  <2> QED
    BY StuckAssumption, <1>1, <1>6, <2>1, <2>2, <2>3
<1> HIDE DEF u, v, w
<1>9. CASE Dist[p][tr.anchor.at] > Radius
  <2>1. u = Backstop(w, p, now)
    BY <1>3, <1>4, <1>9 DEF Judged, w
  <2> QED
    BY <1>5, <1>7, <1>8, <1>9, <2>1 DEF JudgedMoved, u
<1>10. CASE Dist[p][tr.anchor.at] <= Radius /\ now - tr.anchor.since >= Window
  <2>1. u = [v EXCEPT !.stuck = Since(@, v.anchor.since)]
    BY StuckAssumption, <1>1, <1>3, <1>4, <1>6, <1>10 DEF Judged
  <2>2. tr.anchor.since # None
    BY <1>1, NoneFacts
  <2> QED
    BY <1>4, <1>7, <1>10, <2>1, <2>2 DEF JudgedStill, Since, Tracker, u
<1>11. CASE Dist[p][tr.anchor.at] <= Radius /\ now - tr.anchor.since < Window
  <2>1. u = Backstop(v, p, now)
    BY StuckAssumption, <1>1, <1>3, <1>4, <1>6, <1>11 DEF Judged
  <2> QED
    BY <1>4, <1>7, <1>8, <1>11, <2>1 DEF JudgedNear, u
<1>12. \/ Dist[p][tr.anchor.at] > Radius
       \/ Dist[p][tr.anchor.at] <= Radius /\ now - tr.anchor.since >= Window
       \/ Dist[p][tr.anchor.at] <= Radius /\ now - tr.anchor.since < Window
  BY StuckAssumption, <1>1, <1>6
<1> QED
  BY <1>9, <1>10, <1>11, <1>12

\* The trail after a new position, which is later than all of it.
LEMMA TrailGrows ==
  ASSUME TypeOK, Stamped, NEW p \in Points, ~Repeated(tr, now)
  PROVE  /\ Place(p, now) \in Anchor /\ Place(p, now).at = p /\ Place(p, now).since = now
         /\ now \in Int
         /\ \A q \in trail : q \in Anchor /\ q.at \in Points /\ q.since \in Int /\ q.since < now
         /\ Place(p, now) \notin trail
<1>1. now \in Time /\ now \in Int /\ trail \subseteq Anchor
      /\ tr.last \in Time \cup {None} /\ \A t \in Time : t \in Int
  BY StuckAssumption DEF TypeOK, Time, Tracker
<1>2. /\ Place(p, now) \in Anchor /\ Place(p, now).at = p /\ Place(p, now).since = now
  BY <1>1, NoneFacts DEF Place
<1>4. Place(p, now) \notin trail
  <2>1. ASSUME Place(p, now) \in trail PROVE FALSE
    <3>1. now <= tr.last /\ tr.last \in Int /\ tr.last <= now
      BY <1>1, <1>2, <2>1, NoneFacts DEF Stamped
    <3>2. tr.last # now
      BY DEF Repeated
    <3>3. now \in Int
      BY <1>1
    <3> QED
      BY <3>1, <3>2, <3>3
  <2> QED
    BY <2>1
<1>3. ASSUME NEW q \in trail PROVE q.at \in Points /\ q.since \in Int /\ q.since < now
  <2>1. q.since \in Int /\ q.since <= tr.last /\ tr.last \in Int /\ tr.last <= now
    BY <1>1, NoneFacts DEF Stamped
  <2>2. tr.last # now
    BY DEF Repeated
  <2>3. q.at \in Points
    BY <1>1, NoneFacts
  <2>4. now \in Int
    BY <1>1
  <2>5. q.since < now
    BY <2>1, <2>2, <2>4
  <2> QED
    BY <2>1, <2>3, <2>5
<1> QED
  BY <1>1, <1>2, <1>3, <1>4

\* A judged position keeps the invariant.
LEMMA JudgedStep ==
  ASSUME TrackerInv, NEW p \in Points, Sample(p, TRUE),
         ~Repeated(tr, now), tr.anchor # None
  PROVE  TrackerInv'
<1> DEFINE P == Place(p, now)
<1>1. TypeOK /\ Stamped /\ AnchorsSeen /\ NearAnchor /\ InRegion /\ BeginsTrail
      /\ BackstopHolds /\ ReportedInTime /\ FlagIsVerdict /\ TrappedLong
  BY DEF TrackerInv
<1>2. /\ P \in Anchor /\ P.at = p /\ P.since = now /\ now \in Int /\ now # None
      /\ \A q \in trail : q \in Anchor /\ q.at \in Points /\ q.since \in Int /\ q.since < now
      /\ P \notin trail
  BY <1>1, TrailGrows, NoneFacts DEF TypeOK
<1>3. tr.wide # None /\ tr.anchor \in trail /\ tr.wide \in trail
  BY <1>1 DEF AnchorsSeen
<1>4. p # Unreadable
  BY StuckAssumption
<1>5. /\ now' = now /\ trail' = trail \cup {P} /\ skipped' = skipped
      /\ tr' = Observed(tr, p, now, TRUE) /\ Report(tr, tr')
      /\ skipped \subseteq trail
  BY <1>1, <1>3, <1>4 DEF Sample, TypeOK
<1>6. tr' \in Tracker
  BY <1>1, <1>5, ObservedType
<1>7. tr'.last = now /\ (JudgedMoved(tr', p) \/ JudgedStill(tr', p) \/ JudgedNear(tr', p))
  BY <1>1, <1>3, <1>5, JudgedCases
<1>8. /\ tr'.anchor # None /\ tr'.wide # None
      /\ tr'.anchor \in {tr.anchor, P} /\ tr'.wide \in {tr.wide, P}
      /\ tr'.anchor = P <=> Dist[p][tr.anchor.at] > Radius
      /\ tr'.wide = P => Dist[p][tr.wide.at] > BackRadius
      /\ P # None /\ tr.anchor # P /\ tr.wide # P
  <2>1. P # None /\ tr.anchor # P /\ tr.wide # P
    BY <1>2, <1>3, NoneFacts
  <2>2. Dist[p][tr.anchor.at] \in Int /\ Radius \in Int
    BY StuckAssumption, <1>2, <1>3
  <2> QED
    BY <1>3, <1>7, <2>1, <2>2 DEF JudgedMoved, JudgedStill, JudgedNear, Escaped, InLong, InYet
<1> HIDE DEF P
<1>9. /\ \A a, b \in Points : Dist[a][b] \in Int /\ Dist[a][b] = Dist[b][a] /\ Dist[a][a] = 0
      /\ Radius \in Nat /\ BackRadius \in Nat /\ Radius < BackRadius
      /\ Window \in Nat \ {0} /\ BackWindow \in Nat /\ Window < BackWindow
  BY StuckAssumption
<1>10. TypeOK'
  BY <1>1, <1>2, <1>5, <1>6 DEF TypeOK, Report, Event, Reason
<1>11. Stamped'
  <2>1. tr'.last = now /\ now' = now /\ now \in Int
    BY <1>2, <1>5, <1>7
  <2>2. \A q \in trail' : q.since <= now
    BY <1>2, <1>5
  <2>3. \A q, o \in trail : q.since = o.since => q = o
    BY <1>1 DEF Stamped
  <2>4. \A q, o \in trail' : q.since = o.since => q = o
    BY <1>2, <1>5, <2>3
  <2> QED
    BY <1>2, <2>1, <2>2, <2>4 DEF Stamped
<1>12. AnchorsSeen'
  BY <1>3, <1>5, <1>8 DEF AnchorsSeen
<1>13. NearAnchor'
  <2>1. CASE tr'.anchor = P
    <3>1. \A q \in trail' : q.since >= P.since => Dist[q.at][P.at] <= Radius
      <4> SUFFICES ASSUME NEW q \in trail', q.since >= P.since
                   PROVE  Dist[q.at][P.at] <= Radius
        OBVIOUS
      <4>1. q = P
        BY <1>2, <1>5
      <4> QED
        BY <1>2, <1>9, <4>1
    <3> QED
      BY <2>1, <3>1 DEF NearAnchor, StayedNear
  <2>2. CASE tr'.anchor = tr.anchor
    <3>1. StayedNear(tr.anchor, Radius)
      BY <1>1, <1>3, <1>8 DEF NearAnchor
    <3>2. Dist[p][tr.anchor.at] <= Radius
      BY <1>2, <1>3, <1>8, <1>9, <2>2
    <3>3. \A q \in trail' : q.since >= tr.anchor.since => Dist[q.at][tr.anchor.at] <= Radius
      BY <1>2, <1>5, <3>1, <3>2 DEF StayedNear
    <3> QED
      BY <2>2, <3>3 DEF NearAnchor, StayedNear
  <2> QED
    BY <1>8, <2>1, <2>2
<1>14. InRegion'
  <2> SUFFICES ASSUME skipped = {}
               PROVE  /\ Dist[tr'.anchor.at][tr'.wide.at] <= BackRadius
                      /\ \A q \in trail' : q.since >= tr'.wide.since =>
                           Dist[q.at][tr'.wide.at] <= BackRadius + Radius
    BY <1>5 DEF InRegion, StayedNear
  <2>1. /\ Dist[tr.anchor.at][tr.wide.at] <= BackRadius
        /\ StayedNear(tr.wide, BackRadius + Radius)
    BY <1>1, <1>3 DEF InRegion
  <2>2. tr.anchor.at \in Points /\ tr.wide.at \in Points
    BY <1>2, <1>3
  <2>3. Dist[p][tr.anchor.at] <= Radius => Dist[p][tr.wide.at] <= BackRadius + Radius
    <3>1. Dist[p][tr.wide.at] <= Dist[p][tr.anchor.at] + Dist[tr.anchor.at][tr.wide.at]
      BY StuckAssumption, <2>2
    <3> QED
      BY <1>9, <2>1, <2>2, <3>1
  <2>4. Dist[tr'.anchor.at][tr'.wide.at] <= BackRadius
    <3>1. CASE JudgedMoved(tr', p)
      <4>1. tr'.anchor = P /\ (tr'.wide = P \/ (tr'.wide = tr.wide /\ Dist[p][tr.wide.at] <= BackRadius))
        BY <3>1 DEF JudgedMoved, Escaped, InLong, InYet, P
      <4>2. Dist[p][p] <= BackRadius
        BY <1>2, <1>9
      <4> QED
        BY <1>2, <4>1, <4>2
    <3>2. CASE JudgedStill(tr', p)
      BY <2>1, <3>2 DEF JudgedStill
    <3>3. CASE JudgedNear(tr', p)
      <4>1. tr'.anchor = tr.anchor /\ (tr'.wide = P \/ tr'.wide = tr.wide)
            /\ Dist[p][tr.anchor.at] <= Radius
        BY <3>3 DEF JudgedNear, Escaped, InLong, InYet, P
      <4>2. Dist[tr.anchor.at][p] <= BackRadius
        <5>1. Dist[tr.anchor.at][p] = Dist[p][tr.anchor.at] /\ Dist[p][tr.anchor.at] \in Int
          BY <1>2, <1>9, <2>2
        <5> QED
          BY <1>9, <4>1, <5>1
      <4> QED
        BY <1>2, <2>1, <4>1, <4>2
    <3> QED
      BY <1>7, <3>1, <3>2, <3>3
  <2>5. CASE tr'.wide = P
    <3>1. ASSUME NEW q \in trail', q.since >= P.since
          PROVE  Dist[q.at][P.at] <= BackRadius + Radius
      <4>1. q = P
        BY <1>2, <1>5, <3>1
      <4> QED
        BY <1>2, <1>9, <4>1
    <3> QED
      BY <2>4, <2>5, <3>1
  <2>6. CASE tr'.wide = tr.wide
    <3>1. Dist[p][tr.wide.at] <= BackRadius + Radius
      BY <1>7, <1>8, <1>9, <2>2, <2>3, <2>6
         DEF JudgedMoved, JudgedStill, JudgedNear, Escaped, InLong, InYet
    <3>2. \A q \in trail' : q.since >= tr.wide.since => Dist[q.at][tr.wide.at] <= BackRadius + Radius
      BY <1>2, <1>5, <2>1, <3>1 DEF StayedNear
    <3> QED
      BY <2>4, <2>6, <3>2
  <2> QED
    BY <1>8, <2>4, <2>5, <2>6
<1>15. BeginsTrail'
  <2> SUFFICES ASSUME NEW s \in trail', FirstOf(s)'
               PROVE  /\ tr'.wide = s \/ ~StayedNear(s, BackRadius)'
                      /\ skipped = {} => tr'.anchor = s \/ ~StayedNear(s, Radius)'
    BY <1>5 DEF BeginsTrail
  <2>1. s \in trail /\ FirstOf(s)
    BY <1>2, <1>3, <1>5 DEF FirstOf
  <2>2. /\ tr.wide = s \/ ~StayedNear(s, BackRadius)
        /\ skipped = {} => tr.anchor = s \/ ~StayedNear(s, Radius)
    BY <1>1, <2>1 DEF BeginsTrail
  <2>3. \A r \in Nat : ~StayedNear(s, r) => ~StayedNear(s, r)'
    BY <1>5 DEF StayedNear
  <2>4. \A r \in Nat : Dist[p][s.at] > r => ~StayedNear(s, r)'
    BY <1>2, <1>5, <1>9, <2>1 DEF StayedNear
  <2> QED
    BY StuckAssumption, <1>2, <1>3, <1>8, <1>9, <2>1, <2>2, <2>3, <2>4
<1>16. TrappedLong'
  <2>1. tr.trapped # None => now - tr.wide.since >= BackWindow
    <3>1. tr.last # None => tr.last \in Int /\ tr.last <= now
      BY StuckAssumption, <1>1 DEF TypeOK, Tracker, Time, Stamped
    <3> QED
      BY <1>1, <1>2, <1>3, <1>9, <3>1 DEF TrappedLong
  <2>2. tr'.trapped # None => now - tr'.wide.since >= BackWindow
    BY <1>7, <2>1 DEF JudgedMoved, JudgedStill, JudgedNear, Escaped, InLong, InYet
  <2> QED
    BY <1>2, <1>7, <1>8, <2>2 DEF TrappedLong
<1>17. BackstopHolds'
  BY StuckAssumption, <1>1, <1>2, <1>3, <1>7, NoneFacts DEF BackstopHolds, TrappedLong, Stamped, JudgedMoved, JudgedStill, JudgedNear, Escaped, InLong, InYet, TypeOK, Tracker, Time
<1>18. ReportedInTime'
  <2> SUFFICES ASSUME NEW s \in trail', NEW q \in trail',
                      \A o \in trail' : s.since <= o.since /\ o.since <= q.since,
                      \/ /\ q \notin skipped
                         /\ q.since - s.since >= BackWindow /\ StayedNear(s, BackRadius)'
                      \/ /\ skipped = {}
                         /\ q.since - s.since >= Window /\ StayedNear(s, Radius)'
               PROVE  tr'.stuck # None
    BY <1>5 DEF ReportedInTime, Stays, StayedNear
  <2>1. q = P
    BY <1>2, <1>5
  <2>2. FirstOf(s)'
    BY DEF FirstOf
  <2>3. \/ now - s.since >= BackWindow /\ tr'.wide = s
        \/ now - s.since >= Window /\ tr'.anchor = s
    BY <1>2, <1>5, <1>8, <1>15, <2>1, <2>2 DEF BeginsTrail
  <2>4. s # P
    BY <1>2, <1>3, <1>5
  <2>5. CASE now - s.since >= BackWindow /\ tr'.wide = s
    <3>1. tr'.wide = tr.wide /\ now - tr.wide.since \in Int
      BY <1>2, <1>3, <1>8, <2>4, <2>5
    <3>2. ~InYet(tr', p)
      BY <1>9, <2>5, <3>1 DEF InYet
    <3>3. ~Escaped(tr', p)
      BY <1>8, <3>1 DEF Escaped, P
    <3> QED
      BY <1>7, <3>2, <3>3 DEF JudgedMoved, JudgedStill, JudgedNear, InLong
  <2>6. CASE now - s.since >= Window /\ tr'.anchor = s
    BY <1>2, <1>3, <1>7, <1>8, <1>9, <2>4, <2>6
       DEF JudgedMoved, JudgedStill, JudgedNear
  <2> QED
    BY <2>3, <2>5, <2>6
<1>19. FlagIsVerdict'
  BY <1>5 DEF Report, FlagIsVerdict
<1> QED
  BY <1>10, <1>11, <1>12, <1>13, <1>14, <1>15, <1>16, <1>17, <1>18, <1>19 DEF TrackerInv

\* The first position of all, or the first after a gap, keeps the invariant.
LEMMA AnchoredStep ==
  ASSUME TrackerInv, NEW p \in Points, Sample(p, TRUE),
         ~Repeated(tr, now), tr.anchor = None
  PROVE  TrackerInv'
<1> DEFINE P == Place(p, now)
<1>1. TypeOK /\ Stamped /\ AnchorsSeen /\ NearAnchor /\ InRegion /\ BeginsTrail
      /\ BackstopHolds /\ ReportedInTime /\ FlagIsVerdict /\ TrappedLong
  BY DEF TrackerInv
<1>2. /\ P \in Anchor /\ P.at = p /\ P.since = now /\ now \in Int /\ P # None /\ now # None
      /\ \A q \in trail : q \in Anchor /\ q.at \in Points /\ q.since \in Int /\ q.since < now
      /\ P \notin trail
  BY <1>1, TrailGrows, NoneFacts DEF TypeOK
<1>3. p # Unreadable
  BY StuckAssumption
<1>4. /\ now' = now /\ trail' = trail \cup {P}
      /\ skipped' = IF tr.wide # None THEN skipped \cup {P} ELSE skipped
      /\ tr' = Observed(tr, p, now, TRUE) /\ Report(tr, tr')
      /\ skipped \subseteq trail
  BY <1>1, <1>3 DEF Sample, TypeOK
<1>5. tr' \in Tracker
  BY <1>1, <1>4, ObservedType
<1>6. /\ tr'.last = now /\ tr'.anchor = P /\ tr'.stuck = tr.stuck /\ tr'.trapped = tr.trapped
      /\ tr'.wide = IF tr.wide = None THEN P ELSE tr.wide
  <2> DEFINE u == [tr EXCEPT !.last = now]
  <2>1. tr \in Tracker
    BY <1>1 DEF TypeOK
  <2>2. tr' = Anchored(u, p, now)
    BY <1>3, <1>4, <2>1 DEF Observed, Tracker
  <2> QED
    BY <2>1, <2>2 DEF Anchored, Tracker
<1> HIDE DEF P
<1>7. TypeOK'
  BY <1>1, <1>2, <1>4, <1>5 DEF TypeOK, Report, Event, Reason
<1>8. Stamped'
  <2>1. tr'.last = now /\ now' = now /\ now \in Int
    BY <1>2, <1>4, <1>6
  <2>2. \A q \in trail' : q.since <= now
    BY <1>2, <1>4
  <2>3. \A q, o \in trail : q.since = o.since => q = o
    BY <1>1 DEF Stamped
  <2>4. \A q, o \in trail' : q.since = o.since => q = o
    BY <1>2, <1>4, <2>3
  <2> QED
    BY <1>2, <2>1, <2>2, <2>4 DEF Stamped
<1>9. AnchorsSeen'
  BY <1>1, <1>2, <1>4, <1>6 DEF AnchorsSeen
<1>10. \A q \in trail' : q.since >= P.since => q = P
  BY <1>2, <1>4
<1>11. Dist[P.at][P.at] = 0 /\ Radius \in Nat /\ BackRadius \in Nat
  BY <1>2, StuckAssumption
<1>12. NearAnchor'
  <2>1. \A q \in trail' : q.since >= P.since => Dist[q.at][P.at] <= Radius
    BY <1>10, <1>11
  <2> QED
    BY <1>6, <2>1 DEF NearAnchor, StayedNear
<1>13. CASE tr.wide = None
  <2>1. trail = {} /\ tr.stuck = None /\ tr.trapped = None /\ skipped = {}
    BY <1>1, <1>4, <1>13 DEF AnchorsSeen
  <2>2. trail' = {P} /\ tr'.wide = P /\ skipped' = {} /\ tr'.stuck = None /\ tr'.trapped = None
    BY <1>4, <1>6, <1>13, <2>1
  <2>3. \A q \in trail' : Dist[q.at][P.at] <= BackRadius + Radius
    BY <1>11, <2>2
  <2>4. Dist[P.at][P.at] <= BackRadius
    BY <1>11
  <2>5. InRegion'
    BY <1>6, <2>2, <2>3, <2>4 DEF InRegion, StayedNear
  <2>6. BeginsTrail'
    BY <1>6, <2>2 DEF BeginsTrail
  <2>7. TrappedLong' /\ BackstopHolds'
    BY <2>2 DEF TrappedLong, BackstopHolds
  <2>8. ReportedInTime'
    <3> SUFFICES ASSUME NEW s \in trail', NEW q \in trail',
                        q.since - s.since >= BackWindow \/ q.since - s.since >= Window
                 PROVE  FALSE
      BY DEF ReportedInTime, Stays
    <3>1. q.since - s.since = 0
      BY <1>2, <2>2
    <3> QED
      BY <3>1, StuckAssumption
  <2>9. FlagIsVerdict'
    BY <1>4 DEF Report, FlagIsVerdict
  <2> QED
    BY <1>7, <1>8, <1>9, <1>12, <2>5, <2>6, <2>7, <2>8, <2>9 DEF TrackerInv
<1>14. CASE tr.wide # None
  <2>1. tr'.wide = tr.wide /\ P \in skipped' /\ skipped' # {} /\ tr.wide \in trail
    BY <1>1, <1>4, <1>6, <1>14 DEF AnchorsSeen
  <2>2. InRegion'
    BY <2>1 DEF InRegion
  <2>3. BeginsTrail'
    <3> SUFFICES ASSUME NEW s \in trail', FirstOf(s)'
                 PROVE  tr'.wide = s \/ ~StayedNear(s, BackRadius)'
      BY <2>1 DEF BeginsTrail
    <3>1. s \in trail /\ FirstOf(s)
      BY <1>2, <1>4, <2>1 DEF FirstOf
    <3>2. ~StayedNear(s, BackRadius) => ~StayedNear(s, BackRadius)'
      BY <1>4 DEF StayedNear
    <3> QED
      BY <1>1, <2>1, <3>1, <3>2 DEF BeginsTrail
  <2>4. TrappedLong'
    <3>1. tr.last # None => tr.last \in Int /\ tr.last <= now
      BY <1>1, StuckAssumption DEF TypeOK, Tracker, Time, Stamped
    <3>2. BackWindow \in Int /\ tr.wide.since \in Int
      BY <1>2, <2>1, StuckAssumption
    <3>3. tr.trapped # None => now - tr.wide.since >= BackWindow
      BY <1>1, <1>2, <3>1, <3>2 DEF TrappedLong
    <3> QED
      BY <1>2, <1>6, <1>14, <2>1, <3>3 DEF TrappedLong
  <2>5. BackstopHolds'
    BY <1>1, <1>6 DEF BackstopHolds
  <2>6. ReportedInTime'
    <3> SUFFICES ASSUME NEW s \in trail', NEW q \in trail', q \notin skipped',
                        \A o \in trail' : s.since <= o.since /\ o.since <= q.since
                 PROVE  FALSE
      BY <2>1 DEF ReportedInTime, Stays
    <3>1. P \in trail' /\ P.since <= q.since
      BY <1>4
    <3>2. q = P
      BY <1>2, <1>4, <3>1
    <3> QED
      BY <2>1, <3>2
  <2>7. FlagIsVerdict'
    BY <1>4 DEF Report, FlagIsVerdict
  <2> QED
    BY <1>7, <1>8, <1>9, <1>12, <2>2, <2>3, <2>4, <2>5, <2>6, <2>7 DEF TrackerInv
<1> QED
  BY <1>13, <1>14

\* A map without a position ends the short window and keeps the verdict.
LEMMA LostStep ==
  ASSUME TrackerInv, Sample(Unreadable, TRUE)
  PROVE  TrackerInv'
<1>1. TypeOK /\ Stamped /\ AnchorsSeen /\ NearAnchor /\ InRegion /\ BeginsTrail
      /\ BackstopHolds /\ ReportedInTime /\ FlagIsVerdict /\ TrappedLong
  BY DEF TrackerInv
<1>2. /\ now' = now /\ trail' = trail /\ skipped' = skipped
      /\ tr' = Lost(tr, now) /\ Report(tr, tr')
  BY DEF Sample, Observed
<1>3. /\ tr'.last = now /\ tr'.anchor = None /\ tr'.wide = tr.wide
      /\ tr'.stuck = tr.stuck /\ tr'.trapped = tr.trapped
  BY <1>1, <1>2 DEF Lost, TypeOK, Tracker
<1>4. tr' \in Tracker
  BY <1>1, <1>2 DEF Lost, TypeOK, Tracker
<1>5. now \in Int /\ now # None /\ (tr.last # None => tr.last \in Int)
      /\ \A q \in trail : q.since \in Int
  BY <1>1, StuckAssumption DEF TypeOK, Tracker, Time, Anchor
<1>6. TypeOK'
  BY <1>1, <1>2, <1>4 DEF TypeOK, Report, Event, Reason
<1>7. Stamped'
  <2>1. \A q \in trail : q.since <= now
    BY <1>1, <1>5 DEF Stamped
  <2>2. \A q, o \in trail : q.since = o.since => q = o
    BY <1>1 DEF Stamped
  <2> QED
    BY <1>2, <1>3, <1>5, <2>1, <2>2 DEF Stamped
<1>8. AnchorsSeen' /\ NearAnchor' /\ InRegion'
  BY <1>1, <1>2, <1>3 DEF AnchorsSeen, NearAnchor, InRegion, StayedNear
<1>9. BeginsTrail'
  BY <1>1, <1>2, <1>3 DEF BeginsTrail, FirstOf, StayedNear
<1>10. TrappedLong'
  <2>1. BackWindow \in Int /\ (tr.wide # None => tr.wide.since \in Int)
    BY <1>1, <1>5, StuckAssumption DEF AnchorsSeen
  <2>2. tr.last # None => tr.last <= now
    BY <1>1 DEF Stamped
  <2>3. tr.trapped # None => tr.wide # None /\ now - tr.wide.since >= BackWindow
    BY <1>1, <1>5, <2>1, <2>2 DEF TrappedLong
  <2> QED
    BY <1>3, <1>5, <2>3 DEF TrappedLong
<1>11. BackstopHolds' /\ ReportedInTime'
  BY <1>1, <1>2, <1>3 DEF BackstopHolds, ReportedInTime, Stays, StayedNear
<1>12. FlagIsVerdict'
  BY <1>2 DEF Report, FlagIsVerdict
<1> QED
  BY <1>6, <1>7, <1>8, <1>9, <1>10, <1>11, <1>12 DEF TrackerInv

\* A position that is read twice changes nothing.
LEMMA RepeatedStep ==
  ASSUME TrackerInv, NEW p \in Points, Sample(p, TRUE), Repeated(tr, now)
  PROVE  UNCHANGED vars
<1>1. p # Unreadable
  BY StuckAssumption
<1>2. tr' = tr /\ Report(tr, tr') /\ now' = now
  BY <1>1 DEF Sample, Observed
<1>3. trail' = trail /\ skipped' = skipped
  BY <1>1 DEF Sample
<1>4. sent \in BOOLEAN /\ (sent <=> tr.stuck # None)
  BY DEF TrackerInv, TypeOK, FlagIsVerdict
<1>5. event' = event /\ sent' = sent
  BY <1>2, <1>4 DEF Report
<1> QED
  BY <1>2, <1>3, <1>5 DEF vars

\* A robot that is not in movement has no trail and no verdict.
LEMMA ResetStep ==
  ASSUME TrackerInv, NEW p \in Points \cup {Unreadable}, Sample(p, FALSE)
  PROVE  TrackerInv'
<1>1. now' = now /\ trail' = {} /\ skipped' = {} /\ tr' = Reset /\ Report(tr, tr')
  BY DEF Sample, Observed
<1>2. Reset \in Tracker
  BY DEF Reset, Tracker
<1>3. TypeOK'
  BY <1>1, <1>2 DEF TrackerInv, TypeOK, Report, Event, Reason
<1>4. Stamped' /\ AnchorsSeen' /\ NearAnchor' /\ InRegion' /\ BeginsTrail' /\ TrappedLong'
  BY <1>1 DEF Reset, Stamped, AnchorsSeen, NearAnchor, InRegion, BeginsTrail, TrappedLong
<1>5. BackstopHolds' /\ ReportedInTime'
  BY <1>1 DEF Reset, BackstopHolds, ReportedInTime
<1>6. FlagIsVerdict'
  BY <1>1 DEF Report, FlagIsVerdict
<1> QED
  BY <1>3, <1>4, <1>5, <1>6 DEF TrackerInv

\* Time passing, and what is not an action, keep the invariant.
LEMMA TickStep ==
  ASSUME TrackerInv, Tick \/ UNCHANGED vars
  PROVE  TrackerInv'
<1>1. UNCHANGED <<tr, sent, event, trail, skipped>> /\ (now' = now \/ now' = now + 1)
  BY DEF Tick, vars
<1>2. now \in Int /\ now' \in Time /\ now <= now'
  BY StuckAssumption DEF TrackerInv, TypeOK, Time, Tick, vars
<1>3. TypeOK'
  BY <1>1, <1>2 DEF TrackerInv, TypeOK
<1>4. Stamped'
  <2>1. tr.last # None => tr.last \in Int /\ tr.last <= now
    BY StuckAssumption DEF TrackerInv, TypeOK, Tracker, Time, Stamped
  <2>2. now' \in Int
    BY <1>1, <1>2
  <2>3. tr.last # None => tr.last <= now'
    BY <1>2, <2>1, <2>2
  <2> QED
    BY <1>1, <2>3 DEF TrackerInv, Stamped
<1>5. AnchorsSeen' /\ NearAnchor' /\ InRegion' /\ BeginsTrail' /\ TrappedLong'
  BY <1>1 DEF TrackerInv, AnchorsSeen, NearAnchor, InRegion, BeginsTrail, TrappedLong,
              StayedNear, FirstOf
<1>6. BackstopHolds' /\ ReportedInTime' /\ FlagIsVerdict'
  BY <1>1 DEF TrackerInv, BackstopHolds, ReportedInTime, Stays, FlagIsVerdict, StayedNear
<1> QED
  BY <1>3, <1>4, <1>5, <1>6 DEF TrackerInv

-----------------------------------------------------------------------------

\* The tracker's invariant: what its two anchors tell of the whole trail.
THEOREM TrackerInvariant == Spec => []TrackerInv
<1>1. Init => TrackerInv
  <2> SUFFICES ASSUME Init PROVE TrackerInv
    OBVIOUS
  <2>1. TypeOK
    <3>1. Reset \in Tracker
      BY DEF Reset, Tracker
    <3>2. 0 \in Time
      BY StuckAssumption DEF Time
    <3> QED
      BY <3>1, <3>2 DEF Init, TypeOK
  <2>2. Stamped /\ AnchorsSeen /\ NearAnchor /\ InRegion /\ BeginsTrail /\ TrappedLong
    BY DEF Init, Reset, Stamped, AnchorsSeen, NearAnchor, InRegion, BeginsTrail, TrappedLong
  <2>3. BackstopHolds /\ ReportedInTime /\ FlagIsVerdict
    BY DEF Init, Reset, BackstopHolds, ReportedInTime, FlagIsVerdict
  <2> QED
    BY <2>1, <2>2, <2>3 DEF TrackerInv
<1>2. TrackerInv /\ [Next]_vars => TrackerInv'
  <2> SUFFICES ASSUME TrackerInv, [Next]_vars PROVE TrackerInv'
    OBVIOUS
  <2>1. CASE Tick \/ UNCHANGED vars
    BY <2>1, TickStep
  <2>2. ASSUME NEW p \in Points, Sample(p, TRUE) PROVE TrackerInv'
    <3>1. CASE Repeated(tr, now)
      <4>1. UNCHANGED vars
        BY <2>2, <3>1, RepeatedStep
      <4> QED
        BY <4>1, TickStep
    <3>2. CASE ~Repeated(tr, now) /\ tr.anchor = None
      BY <2>2, <3>2, AnchoredStep
    <3>3. CASE ~Repeated(tr, now) /\ tr.anchor # None
      BY <2>2, <3>3, JudgedStep
    <3> QED
      BY <3>1, <3>2, <3>3
  <2>3. ASSUME NEW p \in Points \cup {Unreadable}, Sample(p, FALSE) PROVE TrackerInv'
    BY <2>3, ResetStep
  <2>4. CASE Sample(Unreadable, TRUE)
    BY <2>4, LostStep
  <2> QED
    BY <2>1, <2>2, <2>3, <2>4 DEF Next
<1> QED
  BY <1>1, <1>2, PTL DEF Spec

\* Every variable has its type.
THEOREM TrackerTypes == Spec => []TypeOK
BY TrackerInvariant, PTL DEF TrackerInv

\* The swings of a trapped robot never erase the backstop's verdict
\* (v1_stuck_detection.py:302-305).
THEOREM BackstopHoldsAlways == Spec => []BackstopHolds
BY TrackerInvariant, PTL DEF TrackerInv

\* A robot that never left where its movement began is reported when the window
\* is over (v1_stuck_detection.py:187-196).
THEOREM ReportedInTimeAlways == Spec => []ReportedInTime
BY TrackerInvariant, PTL DEF TrackerInv

\* A verdict falls only on a position that is judged, by the one judgement or
\* the other, and has its event at once.
LEMMA NewVerdict ==
  ASSUME TrackerInv, Next, tr.stuck = None, tr'.stuck # None
  PROVE  /\ event' = [reason |-> Reason(tr'), at |-> now]
         /\ \/ /\ tr'.trapped = None
               /\ tr'.anchor # None /\ now - tr'.anchor.since >= Window
            \/ /\ tr'.trapped # None
               /\ tr'.wide # None /\ now - tr'.wide.since >= BackWindow
<1>1. TypeOK /\ AnchorsSeen /\ BackstopHolds /\ FlagIsVerdict /\ tr \in Tracker
  BY DEF TrackerInv, TypeOK
<1>2. PICK p \in Points \cup {Unreadable}, move \in BOOLEAN : Sample(p, move)
  BY DEF Next, Tick
<1>3. tr' = Observed(tr, p, now, move) /\ Report(tr, tr')
  BY <1>2 DEF Sample
<1>4. /\ tr.stuck = None /\ tr.trapped = None /\ tr'.stuck # None
      /\ event' = [reason |-> Reason(tr'), at |-> now]
  BY <1>1, <1>3 DEF Report, BackstopHolds, FlagIsVerdict
<1>5. move = TRUE
  BY <1>3, <1>4 DEF Observed, Reset
<1>6. p # Unreadable
  BY <1>1, <1>3, <1>4, <1>5 DEF Observed, Lost, Tracker
<1>7. ~Repeated(tr, now)
  BY <1>3, <1>4, <1>5, <1>6 DEF Observed
<1>8. tr.anchor # None
  <2> DEFINE u == [tr EXCEPT !.last = now]
  <2>1. tr.anchor = None => tr' = Anchored(u, p, now)
    BY <1>1, <1>3, <1>5, <1>6, <1>7 DEF Observed, Tracker
  <2>2. Anchored(u, p, now).stuck = None
    BY <1>1, <1>4 DEF Anchored, Tracker
  <2> QED
    BY <1>4, <2>1, <2>2
<1>9. tr.wide # None /\ p \in Points
  BY <1>1, <1>6, <1>8 DEF AnchorsSeen
<1>10. JudgedMoved(tr', p) \/ JudgedStill(tr', p) \/ JudgedNear(tr', p)
  BY <1>1, <1>3, <1>5, <1>7, <1>8, <1>9, JudgedCases
<1>11. \/ JudgedStill(tr', p) /\ tr'.trapped = None
       \/ InLong(tr', p)
  BY <1>4, <1>10 DEF JudgedMoved, JudgedStill, JudgedNear
<1> QED
  BY <1>4, <1>8, <1>9, <1>11 DEF JudgedStill, InLong

\* An event is fired by a new verdict only.
LEMMA EventIsVerdict ==
  ASSUME TrackerInv, Next, event' # event
  PROVE  tr.stuck = None /\ tr'.stuck # None
<1>1. PICK p \in Points \cup {Unreadable}, move \in BOOLEAN : Sample(p, move)
  BY DEF Next, Tick
<1>2. Report(tr, tr') /\ FlagIsVerdict
  BY <1>1 DEF Sample, TrackerInv
<1> QED
  BY <1>2 DEF Report, FlagIsVerdict

\* An event is true of the positions that were read, and a verdict has one
\* (v1_stuck_detection.py:284-324, coordinator.py:452-458).
THEOREM EventsAreTrueAlways == Spec => EventsAreTrue
<1>1. TrackerInv /\ TrackerInv' /\ [Next]_vars
        => [event' # event => EventTrue(event)' /\ tr.stuck = None]_vars
  <2> SUFFICES ASSUME TrackerInv, TrackerInv', Next, event' # event
               PROVE  EventTrue(event)' /\ tr.stuck = None
    BY DEF vars
  <2>0. tr.stuck = None /\ tr'.stuck # None
    BY EventIsVerdict
  <2>1. /\ event' = [reason |-> Reason(tr'), at |-> now]
        /\ event'.at = now /\ event'.reason = Reason(tr')
    BY <2>0, NewVerdict
  <2>2. AnchorsSeen' /\ NearAnchor' /\ InRegion'
    BY DEF TrackerInv
  <2>3. CASE tr'.trapped = None /\ tr'.anchor # None /\ now - tr'.anchor.since >= Window
    <3>1. event'.reason = "stopped" /\ tr'.anchor \in trail'
      BY <2>1, <2>2, <2>3 DEF Reason, AnchorsSeen
    <3>2. StayedNear(tr.anchor, Radius)'
      BY <2>2, <2>3 DEF NearAnchor
    <3> QED
      BY <2>0, <2>1, <2>3, <3>1, <3>2 DEF EventTrue
  <2>4. CASE tr'.trapped # None /\ tr'.wide # None /\ now - tr'.wide.since >= BackWindow
    <3>1. event'.reason = "trapped" /\ tr'.wide \in trail'
      BY <2>1, <2>2, <2>4 DEF Reason, AnchorsSeen
    <3>2. skipped' = {} => StayedNear(tr.wide, BackRadius + Radius)'
      BY <2>2, <2>4 DEF InRegion
    <3> QED
      BY <2>0, <2>1, <2>4, <3>1, <3>2 DEF EventTrue
  <2> QED
    BY <2>0, <2>3, <2>4, NewVerdict
<1> QED
  BY <1>1, TrackerInvariant, PTL DEF Spec, EventsAreTrue

\* The owner of a robot that stands under a verdict has had an event, at least a
\* window after some position of this very movement.
Told == tr.stuck # None => event # None /\ \E o \in trail : event.at - o.since >= Window

\* A verdict that stands has been told when it fell, and the trail only grows.
LEMMA ToldStep ==
  ASSUME TrackerInv, TrackerInv', Told, [Next]_vars
  PROVE  Told'
<1>1. CASE tr'.stuck = None
  BY <1>1 DEF Told
<1>2. CASE tr.stuck # None /\ tr'.stuck # None
  <2>1. FlagIsVerdict
    BY DEF TrackerInv
  <2>2. event' = event /\ trail \subseteq trail'
    <3>1. CASE Tick \/ UNCHANGED vars
      BY <3>1 DEF Tick, vars
    <3>2. ASSUME NEW p \in Points \cup {Unreadable}, NEW move \in BOOLEAN, Sample(p, move)
          PROVE  event' = event /\ trail \subseteq trail'
      <4>1. tr' = Observed(tr, p, now, move) /\ Report(tr, tr')
        BY <3>2 DEF Sample
      <4>2. move
        BY <1>2, <4>1 DEF Observed, Reset
      <4>3. trail \subseteq trail'
        BY <3>2, <4>2 DEF Sample
      <4> QED
        BY <1>2, <2>1, <4>1, <4>3 DEF Report, FlagIsVerdict
    <3> QED
      BY <3>1, <3>2 DEF Next
  <2> QED
    BY <1>2, <2>2 DEF Told
<1>3. CASE tr.stuck = None /\ tr'.stuck # None
  <2>1. Next
    BY <1>3 DEF vars
  <2>2. /\ event' = [reason |-> Reason(tr'), at |-> now] /\ event'.at = now
        /\ \/ tr'.anchor # None /\ now - tr'.anchor.since >= Window
           \/ tr'.wide # None /\ now - tr'.wide.since >= BackWindow
    BY <1>3, <2>1, NewVerdict
  <2>3. event' # None
    <3>1. now \in Time /\ Reason(tr') \in {"stopped", "trapped"}
      BY DEF TrackerInv, TypeOK, Reason
    <3>2. event' \in Event
      BY <2>2, <3>1 DEF Event
    <3> QED
      BY <3>2, NoneFacts
  <2>4. /\ tr'.anchor # None => tr'.anchor \in trail'
        /\ tr'.wide # None => tr'.wide \in trail'
    BY DEF TrackerInv, AnchorsSeen
  <2>5. \A o \in trail' : o.since \in Int
    BY StuckAssumption DEF TrackerInv, TypeOK, Anchor, Time
  <2>6. now \in Int /\ Window \in Int /\ BackWindow \in Int /\ Window < BackWindow
    BY StuckAssumption DEF TrackerInv, TypeOK, Time
  <2>7. \E o \in trail' : now - o.since >= Window
    BY <2>2, <2>4, <2>5, <2>6
  <2> QED
    BY <2>2, <2>3, <2>7 DEF Told
<1> QED
  BY <1>1, <1>2, <1>3

\* The owner of a robot that stays has had an event of this very movement, however
\* many verdicts were reached and dropped before (coordinator.py:452-458).
THEOREM StuckIsToldAlways == Spec => []StuckIsTold
<1>1. Init => Told
  BY DEF Init, Reset, Told
<1>2. Spec => []Told
  BY <1>1, ToldStep, TrackerInvariant, PTL DEF Spec
<1>3. TrackerInv /\ Told => StuckIsTold
  <2> SUFFICES ASSUME TrackerInv, Told, NEW s \in trail, NEW q \in trail, Stays(s, q)
               PROVE  event # None /\ event.at - s.since >= Window
    BY DEF StuckIsTold
  <2>1. tr.stuck # None
    BY DEF TrackerInv, ReportedInTime
  <2>2. PICK o \in trail : event.at - o.since >= Window
    BY <2>1 DEF Told
  <2>3. event # None /\ s.since <= o.since
    BY <2>1 DEF Told, Stays
  <2>4. event.at \in Int /\ s.since \in Int /\ o.since \in Int /\ Window \in Int
    BY <2>3, StuckAssumption DEF TrackerInv, TypeOK, Event, Anchor, Time
  <2> QED
    BY <2>2, <2>3, <2>4
<1> QED
  BY <1>2, <1>3, TrackerInvariant, PTL

=============================================================================
