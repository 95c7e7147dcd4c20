------------------------------ MODULE GarageSetup ------------------------------
(***************************************************************************)
(* Who owns which door: config entries that are set up, reloaded and       *)
(* unloaded, the garage runtimes they create, and the registry of covers   *)
(* that is to keep two robots off one door.                                *)
(*                                                                         *)
(* Entries set up concurrently; within one entry Home Assistant's setup    *)
(* lock orders setup and unload.  stage[e] is the await at which the entry *)
(* is suspended.  The loop over its robots runs from one await to the      *)
(* next, robot by robot, in stage "binding", in which no other coroutine   *)
(* gets the event loop.                                                    *)
(***************************************************************************)
EXTENDS Integers, FiniteSets

CONSTANTS
  Entries,    \* config entries
  Robots,     \* V1 robots, each of one account
  EntryOf,    \* the entry of each robot
  Covers,     \* cover entities
  None,       \* no binding, no runtime
  MaxLoads,   \* bound on the setups of one entry
  MaxEdits,   \* bound on edits of the options
  MaxFaults   \* bound on setups and unloads that fail

ASSUME SetupAssumption ==
  /\ EntryOf \in [Robots -> Entries]
  /\ MaxLoads \in Nat /\ MaxEdits \in Nat /\ MaxFaults \in Nat
  /\ None \notin [cover : Covers, valid : BOOLEAN]
  /\ None \notin [robot : Robots, cover : Covers, load : 1..MaxLoads]

VARIABLES
  options,    \* the enabled binding of each robot in its entry's options
  snapshot,   \* roborock_plus_options_snapshot
  notified,   \* an update listener is about to run
  reload,     \* async_reload waits for the setup lock
  stage,      \* the await at which each entry is suspended
  todo,       \* coordinators the loop of async_setup_garages has not reached
  known,      \* the bindings of all entries as that loop found them
  owners,     \* REGISTRY_KEY: the runtime that holds each cover
  bound,      \* coordinator.garage_runtime
  error,      \* coordinator.garage_setup_error
  hooks,      \* runtimes whose shutdown the entry's unload will call
  live,       \* runtimes that are not shut down
  loads, edits, faults,   \* what the bounds have left or used
  missed      \* history: options edited in mid-loop of the present setup

vars == <<options, snapshot, notified, reload, stage, todo, known, owners, bound,
          error, hooks, live, loads, edits, faults, missed>>

\* An enabled binding; one that validate_binding refuses is not valid.
Binding == [cover : Covers, valid : BOOLEAN]
Bindings == Binding \cup {None}
Runtime == [robot : Robots, cover : Covers, load : 1..MaxLoads]

Stages ==
  {"not_loaded", "devices", "store", "binding", "starting", "platforms",
   "loaded", "unloading", "failed_unload"}
Reasons == {"none", "invalid_binding", "duplicate_binding", "garage_setup_failed"}

Of(e) == {r \in Robots : EntryOf[r] = e}
Yielded == \A e \in Entries : stage[e] # "binding"

-----------------------------------------------------------------------------
(* async_setup_garages. *)

\* validate_binding_ownership: another robot's options claim the cover.
Claimed(e, r) ==
  \E other \in Robots \ {r} :
    known[e][other] # None /\ known[e][other].cover = options[r].cover

Taken(e, r) == Claimed(e, r) \/ owners[options[r].cover] # None

\* What garage_setup_error says of an exception, which may carry no reason.
Reason(why) == IF why = "" THEN "garage_setup_failed" ELSE why

\* The runtime's shutdown is not registered.
HookedNever(e, rt) == hooks[e]
Hooked(e, rt) == hooks[e] \cup {rt}

\* The loop reaches robot r: it has no binding, or its binding is refused.
Refuse(e, r) ==
  /\ stage[e] = "binding" /\ r \in todo[e]
  /\ bound' = [bound EXCEPT ![r] = None]
  /\ \/ options[r] = None /\ error' = [error EXCEPT ![r] = "none"]
     \/ /\ options[r] # None /\ ~options[r].valid
        /\ error' = [error EXCEPT ![r] = Reason("invalid_binding")]
     \/ /\ options[r] # None /\ options[r].valid /\ Taken(e, r)
        /\ error' = [error EXCEPT ![r] = Reason("duplicate_binding")]
  /\ todo' = [todo EXCEPT ![e] = @ \ {r}]
  /\ UNCHANGED <<options, snapshot, notified, reload, stage, known, owners, hooks,
                 live, loads, edits, faults, missed>>

\* It gets a runtime, which owns the cover before it is started.
Bind(e, r) ==
  /\ stage[e] = "binding" /\ r \in todo[e]
  /\ options[r] # None /\ options[r].valid /\ ~Taken(e, r)
  /\ LET rt == [robot |-> r, cover |-> options[r].cover, load |-> loads[e]]
     IN /\ owners' = [owners EXCEPT ![rt.cover] = rt]
        /\ bound' = [bound EXCEPT ![r] = rt]
        /\ hooks' = [hooks EXCEPT ![e] = Hooked(e, rt)]
        /\ live' = live \cup {rt}
  /\ error' = [error EXCEPT ![r] = "none"]
  /\ stage' = [stage EXCEPT ![e] = "starting"]
  /\ UNCHANGED <<options, snapshot, notified, reload, todo, known, loads, edits, faults,
                 missed>>

\* async_start returns, or raises: the runtime stays bound and keeps its cover.
Starting(e, r) == stage[e] = "starting" /\ r \in todo[e] /\ bound[r] # None

Started(e, r) ==
  /\ Yielded /\ Starting(e, r)
  /\ todo' = [todo EXCEPT ![e] = @ \ {r}]
  /\ stage' = [stage EXCEPT ![e] = "binding"]
  /\ UNCHANGED <<options, snapshot, notified, reload, known, owners, bound, error,
                 hooks, live, loads, edits, faults, missed>>

StartFails(e, r) ==
  /\ Yielded /\ Starting(e, r)
  /\ faults < MaxFaults /\ faults' = faults + 1
  /\ error' = [error EXCEPT ![r] = Reason("")]
  /\ todo' = [todo EXCEPT ![e] = @ \ {r}]
  /\ stage' = [stage EXCEPT ![e] = "binding"]
  /\ UNCHANGED <<options, snapshot, notified, reload, known, owners, bound,
                 hooks, live, loads, edits, missed>>

\* The loop is over: the options are recorded and the update listener is added.
Recorded(e) ==
  /\ stage[e] = "binding" /\ todo[e] = {}
  /\ snapshot' = [r \in Robots |-> IF r \in Of(e) THEN options[r] ELSE snapshot[r]]
  /\ stage' = [stage EXCEPT ![e] = "platforms"]
  /\ UNCHANGED <<options, notified, reload, todo, known, owners, bound, error, hooks,
                 live, loads, edits, faults, missed>>

-----------------------------------------------------------------------------
(* The rest of async_setup_entry, and the unload. *)

\* async_setup_entry begins, at start-up, at a retry or within a reload.
SetupEntry(e) ==
  /\ Yielded /\ stage[e] = "not_loaded"
  /\ loads[e] < MaxLoads /\ loads' = [loads EXCEPT ![e] = @ + 1]
  /\ stage' = [stage EXCEPT ![e] = "devices"]
  /\ reload' = [reload EXCEPT ![e] = FALSE]
  /\ missed' = [missed EXCEPT ![e] = FALSE]
  /\ UNCHANGED <<options, snapshot, notified, todo, known, owners, bound, error, hooks,
                 live, edits, faults>>

\* ConfigEntryNotReady or ConfigEntryAuthFailed.
NotReady(e) ==
  /\ Yielded /\ stage[e] = "devices"
  /\ faults < MaxFaults /\ faults' = faults + 1
  /\ stage' = [stage EXCEPT ![e] = "not_loaded"]
  /\ UNCHANGED <<options, snapshot, notified, reload, todo, known, owners, bound, error,
                 hooks, live, loads, edits, missed>>

\* Some of the robots answered and have a new coordinator.
CoordinatorsReady(e) ==
  /\ Yielded /\ stage[e] = "devices"
  /\ \E ready \in SUBSET Of(e) :
       /\ ready # {}
       /\ todo' = [todo EXCEPT ![e] = ready]
  /\ bound' = [r \in Robots |-> IF r \in Of(e) THEN None ELSE bound[r]]
  /\ error' = [r \in Robots |-> IF r \in Of(e) THEN "none" ELSE error[r]]
  /\ stage' = [stage EXCEPT ![e] = "store"]
  /\ UNCHANGED <<options, snapshot, notified, reload, known, owners, hooks, live,
                 loads, edits, faults, missed>>

\* The safe zones are loaded and the options of all entries collected.
StoreLoaded(e) ==
  /\ Yielded /\ stage[e] = "store"
  /\ known' = [known EXCEPT ![e] = options]
  /\ stage' = [stage EXCEPT ![e] = "binding"]
  /\ UNCHANGED <<options, snapshot, notified, reload, todo, owners, bound, error, hooks,
                 live, loads, edits, faults, missed>>

PlatformsReady(e) ==
  /\ Yielded /\ stage[e] = "platforms"
  /\ stage' = [stage EXCEPT ![e] = "loaded"]
  /\ UNCHANGED <<options, snapshot, notified, reload, todo, known, owners, bound, error,
                 hooks, live, loads, edits, faults, missed>>

\* async_unload_entry, for a reload or because the entry is disabled.
UnloadEntry(e) ==
  /\ Yielded /\ stage[e] = "loaded"
  /\ stage' = [stage EXCEPT ![e] = "unloading"]
  /\ UNCHANGED <<options, snapshot, notified, reload, todo, known, owners, bound, error,
                 hooks, live, loads, edits, faults, missed>>

\* The platforms are gone: every shutdown that was registered is called.
Unloaded(e) ==
  /\ Yielded /\ stage[e] = "unloading"
  /\ stage' = [stage EXCEPT ![e] = "not_loaded"]
  /\ live' = live \ hooks[e]
  /\ hooks' = [hooks EXCEPT ![e] = {}]
  /\ UNCHANGED <<options, snapshot, notified, reload, todo, known, owners, bound, error,
                 loads, edits, faults, missed>>

\* A platform refuses to go: the entry stays as it is, and reloads no more.
UnloadRefused(e) ==
  /\ Yielded /\ stage[e] = "unloading"
  /\ faults < MaxFaults /\ faults' = faults + 1
  /\ stage' = [stage EXCEPT ![e] = "failed_unload"]
  /\ UNCHANGED <<options, snapshot, notified, reload, todo, known, owners, bound, error,
                 hooks, live, loads, edits, missed>>

-----------------------------------------------------------------------------
(* The options flow and its listener. *)

\* _save_garage_binding refuses a cover that other options claim.
Saveable(r, b) ==
  b # None =>
    /\ b.valid
    /\ \A other \in Robots \ {r} : options[other] # None => options[other].cover # b.cover

SaveBinding(r, b) ==
  /\ Yielded
  /\ edits < MaxEdits /\ edits' = edits + 1
  /\ b # options[r] /\ Saveable(r, b)
  /\ options' = [options EXCEPT ![r] = b]
  /\ LET e == EntryOf[r]
     IN /\ notified' = [notified EXCEPT
             ![e] = @ \/ stage[e] \in {"platforms", "loaded", "unloading", "failed_unload"}]
        /\ missed' = [missed EXCEPT ![e] = @ \/ stage[e] = "starting"]
  /\ UNCHANGED <<snapshot, reload, stage, todo, known, owners, bound, error, hooks, live,
                 loads, faults>>

\* The options are never found to differ.
SameAlways(e) == TRUE
Same(e) == \A r \in Of(e) : snapshot[r] = options[r]

\* _async_options_updated asks for a reload if the options are new.
OptionsUpdated(e) ==
  /\ Yielded /\ notified[e]
  /\ notified' = [notified EXCEPT ![e] = FALSE]
  /\ snapshot' = [r \in Robots |-> IF r \in Of(e) THEN options[r] ELSE snapshot[r]]
  /\ reload' = [reload EXCEPT ![e] = @ \/ ~Same(e)]
  /\ UNCHANGED <<options, stage, todo, known, owners, bound, error, hooks, live, loads,
                 edits, faults, missed>>

-----------------------------------------------------------------------------

Init ==
  /\ options \in [Robots -> Bindings]
  /\ \A r, s \in Robots :
       (r # s /\ options[r] # None /\ options[s] # None) => options[r].cover # options[s].cover
  /\ snapshot = [r \in Robots |-> None]
  /\ notified = [e \in Entries |-> FALSE] /\ reload = [e \in Entries |-> FALSE]
  /\ stage = [e \in Entries |-> "not_loaded"]
  /\ todo = [e \in Entries |-> {}]
  /\ known = [e \in Entries |-> [r \in Robots |-> None]]
  /\ owners = [c \in Covers |-> None]
  /\ bound = [r \in Robots |-> None] /\ error = [r \in Robots |-> "none"]
  /\ hooks = [e \in Entries |-> {}] /\ live = {}
  /\ loads = [e \in Entries |-> 0] /\ edits = 0 /\ faults = 0
  /\ missed = [e \in Entries |-> FALSE]

SettingUp(e) ==
  \/ \E r \in Of(e) : Refuse(e, r) \/ Bind(e, r) \/ Started(e, r)
  \/ Recorded(e) \/ CoordinatorsReady(e) \/ StoreLoaded(e) \/ PlatformsReady(e)

Reloading(e) ==
  \/ OptionsUpdated(e)
  \/ reload[e] /\ (UnloadEntry(e) \/ SetupEntry(e))
  \/ Unloaded(e)

Next ==
  \E e \in Entries :
    \/ SettingUp(e) \/ Reloading(e)
    \/ SetupEntry(e) \/ NotReady(e) \/ UnloadEntry(e) \/ UnloadRefused(e)
    \/ \E r \in Of(e) :
         \/ StartFails(e, r)
         \/ \E b \in Bindings : SaveBinding(r, b)

\* Awaits return, queued listeners run and a requested reload gets its lock.
Fairness == \A e \in Entries : WF_vars(SettingUp(e)) /\ WF_vars(Reloading(e))

Spec == Init /\ [][Next]_vars /\ Fairness

-----------------------------------------------------------------------------
(* Properties. *)

\* Every variable has its type.
TypeOK ==
  /\ options \in [Robots -> Bindings] /\ snapshot \in [Robots -> Bindings]
  /\ notified \in [Entries -> BOOLEAN] /\ reload \in [Entries -> BOOLEAN]
  /\ stage \in [Entries -> Stages]
  /\ todo \in [Entries -> SUBSET Robots]
  /\ known \in [Entries -> [Robots -> Bindings]]
  /\ owners \in [Covers -> Runtime \cup {None}]
  /\ bound \in [Robots -> Runtime \cup {None}] /\ error \in [Robots -> Reasons]
  /\ hooks \in [Entries -> SUBSET Runtime] /\ live \in SUBSET Runtime
  /\ loads \in [Entries -> 0..MaxLoads] /\ edits \in 0..MaxEdits /\ faults \in 0..MaxFaults
  /\ missed \in [Entries -> BOOLEAN]

\* No two runtimes that are not shut down drive the same door, whichever entries
\* set up or reload concurrently and whatever is saved meanwhile
\* (garage_runtime.py:759-764).
OneRuntimePerDoor ==
  \A rt, other \in live : rt.cover = other.cover => rt = other

\* An entry that is unloaded leaves no runtime behind, a start that failed
\* included (garage_runtime.py:766, 317).
NoRuntimeOutlivesUnload ==
  \A e \in Entries :
    stage[e] \in {"not_loaded", "devices", "store"} =>
      \A rt \in live : EntryOf[rt.robot] # e

\* What DoorTenure sees: of an entry whether its loop has begun, of a door the runtimes
\* that drive it.
Opened == {e \in Entries : stage[e] \notin {"not_loaded", "devices", "store"}}
Driving == [c \in Covers |-> {rt \in live : rt.cover = c}]

Tenure == INSTANCE DoorTenure WITH
  Tenants <- Runtime,
  DoorOf <- [rt \in Runtime |-> rt.cover],
  HomeOf <- [rt \in Runtime |-> EntryOf[rt.robot]],
  open <- Opened,
  tenants <- Driving

\* However setups, reloads and edits interleave and whatever of them fails, a runtime
\* gets a door only when no other drives it and its own entry is set up, and the unload
\* of the entry takes away its own runtimes, all of them and no others
\* (garage_runtime.py:759-766, 317-326).
ImplementsTenure == Tenure!Spec

\* A runtime of e drives a door its robot's options no longer name.
Stale(e) ==
  \E rt \in live :
    /\ EntryOf[rt.robot] = e
    /\ options[rt.robot] = None \/ options[rt.robot].cover # rt.cover

\* A runtime never keeps a door for good that its options have given up, unless
\* they were edited while the loop was at an await or a platform refuses to
\* unload (__init__.py:424-431).
RuntimeFollowsOptions ==
  \A e \in Entries :
    (stage[e] = "loaded" /\ Stale(e) /\ ~missed[e])
      ~> (~Stale(e) \/ stage[e] = "failed_unload")

\* A binding is refused as a duplicate only if another robot's options or another
\* runtime that is alive has its door: an unload gives the door back
\* (specs/2026-10-15-spec-garage-control.md:314).
RefusedOnlyForRival ==
  \A r \in Robots :
    (stage[EntryOf[r]] = "loaded" /\ error[r] = "duplicate_binding") =>
      \/ \E other \in Robots \ {r} :
           options[other] # None /\ options[other].cover = options[r].cover
      \/ \E rt \in live : rt.robot # r /\ rt.cover = options[r].cover

=============================================================================
