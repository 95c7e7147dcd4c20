------------------------------ MODULE MapImage ------------------------------
(***************************************************************************)
(* The picture of a map as a dashboard fetches it.  The library draws the  *)
(* robot where the map says; a docked robot drawn elsewhere is moved by    *)
(* rewriting the position in the raw map and drawing it again, which takes *)
(* a while in an executor, and the result is kept under a key.             *)
(*                                                                         *)
(* Positions are places on a line.  A raw map is the sequence of its       *)
(* blocks; "odd" is one at which the walk gives up, for its header or its  *)
(* length.                                                                 *)
(***************************************************************************)
EXTENDS Integers

CONSTANTS
  Spots,       \* where a robot may be drawn, or its place known to be
  Fetches,     \* fetches that may overlap
  MaxImages    \* bound: refreshes of the map and new positions

Nowhere == -1
Charger == 0
Addresses == 0..MaxImages
Tolerance == 50

VARIABLES
  content,   \* home_map_content of this map, with the address of its raw bytes, or {}
  converter, \* the library's parser is there and draws a rewritten map
  resolved,  \* resolve_vacuum_position()
  cache,     \* _corrected_cache, or {}
  fetch,     \* the calls of async_image
  shifts     \* refreshes and new positions left

imageVars == <<content, converter, resolved, cache, fetch, shifts>>

Layouts == {<<>>, <<"other", "robot">>, <<"odd", "robot">>}
Contents ==
  {c \in [map : 0..MaxImages, address : Addresses, layout : Layouts,
          drawn : Spots \cup {Nowhere}] : c.layout = <<>> => c.drawn = Nowhere}
\* A docked robot is where the charger is; of two maps, only one is the current one.
Resolutions == [x : Spots, trusted : {TRUE}, from_dock : {FALSE}]
                 \cup {[x |-> Charger, trusted |-> TRUE, from_dock |-> TRUE]}
                 \cup {[x |-> Nowhere, trusted |-> FALSE, from_dock |-> FALSE]}

-----------------------------------------------------------------------------
(* v1_map_render.py *)

\* The position block: the first of its kind, if the walk gets there and it has room.
RobotBlocks(layout) ==
  {i \in DOMAIN layout : /\ layout[i] = "robot"
                         /\ \A j \in 1..(i - 1) : layout[j] = "other"}

\* Where the marker is to go, or Nowhere to leave the picture alone.
RenderPosition(drawn, res) ==
  IF /\ res.trusted
     /\ \/ drawn = Nowhere
        \/ res.from_dock /\ drawn - res.x \notin -Tolerance..Tolerance
  THEN res.x ELSE Nowhere

Picture(c, marker) == [map |-> c.map, address |-> c.address, marker |-> marker]

\* The picture drawn again, or {}: the block is rewritten where the walk finds it and
\* read back by the same walk.
Rerendered(c, res) ==
  LET target == RenderPosition(c.drawn, res)
  IN IF target # Nowhere /\ RobotBlocks(c.layout) # {} /\ converter
     THEN {Picture(c, target)} ELSE {}

-----------------------------------------------------------------------------
(* RoborockMap.async_image *)

CacheKey(c, res) == <<c.address, c.drawn, res>>

NoFetch == [at |-> "idle"]
Answered(f, c, res, picture) ==
  fetch' = [fetch EXCEPT ![f] = [at |-> "done", of |-> c, by |-> res, got |-> picture]]

\* The key is taken with the map it describes, before the executor is awaited; taken
\* after it would be a plausible slip.
KeyAtEnd(c, res) == {CacheKey(now, resolved) : now \in content}
KeyKept(c, res) == {CacheKey(c, res)}

FetchStarts(f) ==
  /\ fetch[f].at # "running"
  /\ \E c \in content :
       LET kept == {k \in cache : k.key = CacheKey(c, resolved)}
       IN IF kept # {} THEN \E k \in kept : Answered(f, c, resolved, k.picture)
          ELSE fetch' = [fetch EXCEPT ![f] = [at |-> "running", of |-> c, by |-> resolved]]
  /\ UNCHANGED <<content, converter, resolved, cache, shifts>>

\* Without a map of this flag async_image raises.
FetchRaises(f) ==
  /\ fetch[f].at # "running" /\ content = {}
  /\ fetch' = [fetch EXCEPT ![f] = [at |-> "raised"]]
  /\ UNCHANGED <<content, converter, resolved, cache, shifts>>

FetchEnds(f) ==
  /\ fetch[f].at = "running"
  /\ LET c == fetch[f].of  res == fetch[f].by  corrected == Rerendered(c, res)
     IN \/ /\ corrected = {} /\ cache' = cache
           /\ Answered(f, c, res, Picture(c, c.drawn))
        \/ \E picture \in corrected :
             /\ cache' = {[key |-> k, picture |-> picture] : k \in KeyKept(c, res)}
             /\ Answered(f, c, res, picture)
  /\ UNCHANGED <<content, converter, resolved, shifts>>

-----------------------------------------------------------------------------
(* The rest of the integration. *)

Shift == shifts > 0 /\ shifts' = shifts - 1

\* A home refresh brings the map anew, or without this flag.  Its bytes lie where
\* nothing lies that is still in use: the old ones, and those a fetch works on.
MapRefreshed ==
  /\ Shift
  /\ \/ content' = {}
     \/ \E c \in Contents :
          /\ c.map = MaxImages - shifts + 1
          /\ \A old \in content : c.address # old.address
          /\ \A f \in Fetches : fetch[f].at = "running" => c.address # fetch[f].of.address
          /\ content' = {c}
  /\ UNCHANGED <<converter, resolved, cache, fetch>>

RobotMoved ==
  /\ Shift /\ resolved' \in Resolutions \ {resolved}
  /\ UNCHANGED <<content, converter, cache, fetch>>

NoImage == [map |-> 0, address |-> 0, layout |-> <<>>, drawn |-> Nowhere]

ImageInit ==
  /\ content \in {{c} : c \in {k \in Contents : k.map = 0 /\ k.address = 0}}
  /\ converter \in BOOLEAN /\ resolved \in Resolutions
  /\ cache = {} /\ fetch = [f \in Fetches |-> NoFetch] /\ shifts = MaxImages

ImageNext ==
  \/ MapRefreshed \/ RobotMoved
  \/ \E f \in Fetches : FetchStarts(f) \/ FetchRaises(f) \/ FetchEnds(f)

ImageSpec == ImageInit /\ [][ImageNext]_imageVars

-----------------------------------------------------------------------------

\* Whoever fetches the picture gets that of the map as it was when they asked -- or of
\* an earlier one whose bytes had lain at the same address, the key knows no better --
\* with the marker where the map had it or where the robot was known to be: never
\* moved on a position nobody trusts, and on a docked robot never left in another
\* place if the map can be patched at all (image.py:111-168, v1_map_render.py:18-27).
PictureIsOfItsMap ==
  \A f \in Fetches : fetch[f].at = "done" =>
    LET c == fetch[f].of  res == fetch[f].by  got == fetch[f].got
    IN /\ got.map # c.map => got.address = c.address
       /\ got.marker \in {c.drawn, res.x}
       /\ ~res.trusted => got.marker = c.drawn
       /\ res.from_dock /\ c.layout = <<"other", "robot">> /\ converter =>
            got.marker # Nowhere /\ got.marker - res.x \in -Tolerance..Tolerance
=============================================================================
