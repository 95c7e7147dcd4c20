----------------------------- MODULE MCStandalone -----------------------------
(* The parts of the integration that share no state with the others.  Each is    *)
(* explored by itself, while the others stay as they began.                      *)
EXTENDS StuckTracker, SafeZones, AccountFlow, MapImage

VARIABLE part

allVars == <<vars, zoneVars, flowVars, imageVars, part>>

\* A robot on a line: 0 and 2 are a swing apart, 2 and 3 a creep, 3 and 0 an escape.
MCPoints == {0, 2, 3}
MCDist == [p \in MCPoints |-> [q \in MCPoints |-> IF p > q THEN p - q ELSE q - p]]

AllInit ==
  /\ part \in {"stuck", "zones", "flow", "image"}
  /\ Init /\ ZoneInit /\ FlowInit /\ ImageInit
  \* The parts that do not move have but one state.
  /\ part # "zones" => \A r \in ZoneRobots : disk[r] = NoZone
  /\ part # "flow" => \A u \in Users, s \in Servers : holder[<<u, s>>] = "none"
  /\ part # "image" => content = {NoImage} /\ converter /\ ~resolved.trusted

AllNext ==
  \/ part = "stuck" /\ Next /\ UNCHANGED <<zoneVars, flowVars, imageVars, part>>
  \/ part = "zones" /\ ZoneNext /\ UNCHANGED <<vars, flowVars, imageVars, part>>
  \/ part = "flow" /\ FlowNext /\ UNCHANGED <<vars, zoneVars, imageVars, part>>
  \/ part = "image" /\ ImageNext /\ UNCHANGED <<vars, zoneVars, flowVars, part>>

AllSpec == AllInit /\ [][AllNext]_allVars
=============================================================================
