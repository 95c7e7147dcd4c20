--------------------------- MODULE GarageSetupProofs ---------------------------
(***************************************************************************)
(* Proofs about GarageSetup for any accounts, robots, doors and bounds.    *)
(*                                                                         *)
(* That no two runtimes share a door rests on the registry: whatever is    *)
(* alive is registered for its cover, and a cover is registered only while *)
(* nobody has it.  That none outlives its entry rests on the hooks: what   *)
(* is alive will be shut down by its entry's unload, and an entry that is  *)
(* not loaded has no hooks left.                                           *)
(***************************************************************************)
EXTENDS GarageSetup, TLAPS

Unbound == {"not_loaded", "devices", "store"}

\* Every runtime that is alive is the registered owner of its door.
LiveOwns == \A rt \in live : owners[rt.cover] = rt

\* Every runtime that is alive is shut down by the unload of its own entry.
LiveHooked == \A rt \in live : rt \in hooks[EntryOf[rt.robot]]

\* Before the loop over its robots an entry has nothing to shut down.
UnboundUnhooked == \A e \in Entries : stage[e] \in Unbound => hooks[e] = {}

\* An entry beyond its first step has begun a setup.
LoadCounted == \A e \in Entries : stage[e] # "not_loaded" => loads[e] >= 1

Owned == LiveOwns /\ LiveHooked /\ UnboundUnhooked /\ LoadCounted
SetupInv == TypeOK /\ Owned

-----------------------------------------------------------------------------

\* The initial states satisfy the invariant (nothing is set up).
LEMMA SetupInit == ASSUME SetupAssumption PROVE Init => SetupInv
<1> SUFFICES ASSUME SetupAssumption, Init PROVE SetupInv
  OBVIOUS
<1>1. TypeOK
  BY DEF Init, TypeOK, SetupAssumption, Bindings, Binding, Stages, Reasons
<1>2. Owned
  BY DEF Init, Owned, LiveOwns, LiveHooked, UnboundUnhooked, LoadCounted, Unbound
<1> QED
  BY <1>1, <1>2 DEF SetupInv

\* The steps that bind nothing keep the types (each names what it changes).
LEMMA StepTypes ==
  ASSUME SetupAssumption, SetupInv, NEW e \in Entries,
         \/ Recorded(e) \/ SetupEntry(e) \/ NotReady(e) \/ CoordinatorsReady(e)
         \/ StoreLoaded(e) \/ PlatformsReady(e) \/ UnloadEntry(e) \/ Unloaded(e)
         \/ UnloadRefused(e) \/ OptionsUpdated(e)
  PROVE  TypeOK'
<1> USE DEF SetupInv, TypeOK, SetupAssumption, Stages
<1>1. CASE Recorded(e)
  BY <1>1 DEF Recorded
<1>2. CASE SetupEntry(e)
  BY <1>2 DEF SetupEntry
<1>3. CASE NotReady(e)
  BY <1>3 DEF NotReady
<1>4. CASE CoordinatorsReady(e)
  BY <1>4 DEF CoordinatorsReady, Of, Reasons
<1>5. CASE StoreLoaded(e)
  BY <1>5 DEF StoreLoaded
<1>6. CASE PlatformsReady(e)
  BY <1>6 DEF PlatformsReady
<1>7. CASE UnloadEntry(e)
  BY <1>7 DEF UnloadEntry
<1>8. CASE Unloaded(e)
  BY <1>8 DEF Unloaded
<1>9. CASE UnloadRefused(e)
  BY <1>9 DEF UnloadRefused
<1>10. CASE OptionsUpdated(e)
  BY <1>10 DEF OptionsUpdated
<1> QED
  BY <1>1, <1>2, <1>3, <1>4, <1>5, <1>6, <1>7, <1>8, <1>9, <1>10

\* They leave the registry, the hooks and what is alive consistent.
LEMMA StepOwned ==
  ASSUME SetupAssumption, SetupInv, NEW e \in Entries,
         \/ Recorded(e) \/ SetupEntry(e) \/ NotReady(e) \/ CoordinatorsReady(e)
         \/ StoreLoaded(e) \/ PlatformsReady(e) \/ UnloadEntry(e) \/ Unloaded(e)
         \/ UnloadRefused(e) \/ OptionsUpdated(e)
  PROVE  Owned'
<1> USE DEF SetupInv, TypeOK, SetupAssumption, Owned, LiveOwns, LiveHooked,
            UnboundUnhooked, LoadCounted, Unbound
<1>1. CASE Recorded(e)
  BY <1>1 DEF Recorded
<1>2. CASE SetupEntry(e)
  BY <1>2 DEF SetupEntry
<1>3. CASE NotReady(e)
  BY <1>3 DEF NotReady
<1>4. CASE CoordinatorsReady(e)
  BY <1>4 DEF CoordinatorsReady
<1>5. CASE StoreLoaded(e)
  BY <1>5 DEF StoreLoaded
<1>6. CASE PlatformsReady(e)
  BY <1>6 DEF PlatformsReady
<1>7. CASE UnloadEntry(e)
  BY <1>7 DEF UnloadEntry
<1>8. CASE Unloaded(e)
  BY <1>8 DEF Unloaded, Runtime
<1>9. CASE UnloadRefused(e)
  BY <1>9 DEF UnloadRefused
<1>10. CASE OptionsUpdated(e)
  BY <1>10 DEF OptionsUpdated
<1> QED
  BY <1>1, <1>2, <1>3, <1>4, <1>5, <1>6, <1>7, <1>8, <1>9, <1>10

\* The runtime that Bind creates is one, and its cover was free.
LEMMA BindStep ==
  ASSUME SetupAssumption, SetupInv, NEW e \in Entries, NEW r \in Of(e), Bind(e, r)
  PROVE  SetupInv'
<1> DEFINE rt == [robot |-> r, cover |-> options[r].cover, load |-> loads[e]]
<1>1. r \in Robots /\ EntryOf[r] = e
  BY DEF Of
<1>2. options[r] \in Binding
  BY <1>1 DEF Bind, SetupInv, TypeOK, Bindings
<1>3. loads[e] \in 1..MaxLoads
  BY DEF SetupInv, TypeOK, Owned, LoadCounted, Bind, SetupAssumption
<1>4. rt \in Runtime /\ rt.cover = options[r].cover /\ rt.robot = r
  BY <1>1, <1>2, <1>3 DEF Runtime, Binding
<1>5. owners[rt.cover] = None
  BY <1>4 DEF Bind, Taken
<1>6. \A other \in live : other.cover # rt.cover
  <2>1. \A other \in live : owners[other.cover] # None
    BY DEF SetupInv, Owned, LiveOwns, TypeOK, SetupAssumption, Runtime
  <2> QED
    BY <1>5, <2>1
<1>7. /\ owners' = [owners EXCEPT ![rt.cover] = rt]
      /\ bound' = [bound EXCEPT ![r] = rt]
      /\ hooks' = [hooks EXCEPT ![e] = @ \cup {rt}]
      /\ live' = live \cup {rt}
      /\ stage' = [stage EXCEPT ![e] = "starting"]
      /\ error' = [error EXCEPT ![r] = "none"]
      /\ UNCHANGED <<options, snapshot, notified, reload, todo, known, loads, edits,
                     faults, missed>>
  BY DEF Bind, Hooked
<1> HIDE DEF rt
<1>8. TypeOK'
  BY <1>1, <1>4, <1>7 DEF SetupInv, TypeOK, Stages, Reasons, Runtime
<1>9. LiveOwns'
  BY <1>4, <1>6, <1>7 DEF SetupInv, TypeOK, Owned, LiveOwns, Runtime
<1>10. LiveHooked'
  BY <1>1, <1>4, <1>7 DEF SetupInv, TypeOK, Owned, LiveHooked, Runtime, SetupAssumption
<1>11. UnboundUnhooked' /\ LoadCounted'
  BY <1>3, <1>7 DEF SetupInv, TypeOK, Owned, UnboundUnhooked, LoadCounted, Unbound
<1> QED
  BY <1>8, <1>9, <1>10, <1>11 DEF SetupInv, Owned

\* The other steps of one robot: refused, started, not started, or given a new
\* binding by the options flow.
LEMMA RobotStep ==
  ASSUME SetupAssumption, SetupInv, NEW e \in Entries, NEW r \in Of(e),
         \/ Refuse(e, r) \/ Started(e, r) \/ StartFails(e, r)
         \/ \E b \in Bindings : SaveBinding(r, b)
  PROVE  SetupInv'
<1> USE DEF SetupInv, TypeOK, SetupAssumption, Of
<1>1. CASE Refuse(e, r)
  <2>1. TypeOK'
    BY <1>1 DEF Refuse, Reason, Reasons
  <2>2. Owned'
    BY <1>1 DEF Refuse, Owned, LiveOwns, LiveHooked, UnboundUnhooked, LoadCounted
  <2> QED
    BY <2>1, <2>2
<1>2. CASE Started(e, r)
  <2>1. TypeOK'
    BY <1>2 DEF Started, Starting, Stages
  <2>2. Owned'
    BY <1>2 DEF Started, Starting, Owned, LiveOwns, LiveHooked, UnboundUnhooked,
                LoadCounted, Unbound
  <2> QED
    BY <2>1, <2>2
<1>3. CASE StartFails(e, r)
  <2>1. TypeOK'
    BY <1>3 DEF StartFails, Starting, Stages, Reason, Reasons
  <2>2. Owned'
    BY <1>3 DEF StartFails, Starting, Owned, LiveOwns, LiveHooked, UnboundUnhooked,
                LoadCounted, Unbound
  <2> QED
    BY <2>1, <2>2
<1>4. CASE \E b \in Bindings : SaveBinding(r, b)
  <2>1. TypeOK'
    BY <1>4 DEF SaveBinding
  <2>2. Owned'
    BY <1>4 DEF SaveBinding, Owned, LiveOwns, LiveHooked, UnboundUnhooked, LoadCounted
  <2> QED
    BY <2>1, <2>2
<1> QED
  BY <1>1, <1>2, <1>3, <1>4

LEMMA SetupNext == ASSUME SetupAssumption PROVE SetupInv /\ [Next]_vars => SetupInv'
<1> SUFFICES ASSUME SetupAssumption, SetupInv, [Next]_vars PROVE SetupInv'
  OBVIOUS
<1>1. CASE UNCHANGED vars
  BY <1>1 DEF vars, SetupInv, TypeOK, Owned, LiveOwns, LiveHooked, UnboundUnhooked,
              LoadCounted
<1>2. ASSUME NEW e \in Entries, NEW r \in Of(e), Bind(e, r) PROVE SetupInv'
  BY <1>2, BindStep
<1>3. ASSUME NEW e \in Entries, NEW r \in Of(e),
             \/ Refuse(e, r) \/ Started(e, r) \/ StartFails(e, r)
             \/ \E b \in Bindings : SaveBinding(r, b)
      PROVE  SetupInv'
  BY <1>3, RobotStep
<1>4. ASSUME NEW e \in Entries,
             \/ Recorded(e) \/ SetupEntry(e) \/ NotReady(e) \/ CoordinatorsReady(e)
             \/ StoreLoaded(e) \/ PlatformsReady(e) \/ UnloadEntry(e) \/ Unloaded(e)
             \/ UnloadRefused(e) \/ OptionsUpdated(e)
      PROVE  SetupInv'
  BY <1>4, StepTypes, StepOwned DEF SetupInv
<1> QED
  BY <1>1, <1>2, <1>3, <1>4 DEF Next, SettingUp, Reloading

-----------------------------------------------------------------------------

\* The inductive invariant holds in every reachable state.
THEOREM SetupInvariant == ASSUME SetupAssumption PROVE Spec => []SetupInv
<1>1. Init => SetupInv
  BY SetupInit
<1>2. SetupInv /\ [Next]_vars => SetupInv'
  BY SetupNext
<1> QED
  BY <1>1, <1>2, PTL DEF Spec

\* Every variable keeps its type.
THEOREM SetupTypes == ASSUME SetupAssumption PROVE Spec => []TypeOK
<1>1. SetupInv => TypeOK
  BY DEF SetupInv
<1> QED
  BY <1>1, SetupInvariant, PTL

\* No two live runtimes drive one door (garage_runtime.py:759-764).
THEOREM OneRuntimePerDoorHolds ==
  ASSUME SetupAssumption PROVE Spec => []OneRuntimePerDoor
<1>1. SetupInv => OneRuntimePerDoor
  BY DEF SetupInv, Owned, LiveOwns, OneRuntimePerDoor
<1> QED
  BY <1>1, SetupInvariant, PTL

\* An unloaded entry leaves no runtime behind (garage_runtime.py:766, 317).
THEOREM NoRuntimeOutlivesUnloadHolds ==
  ASSUME SetupAssumption PROVE Spec => []NoRuntimeOutlivesUnload
<1>1. SetupInv => NoRuntimeOutlivesUnload
  BY DEF SetupInv, Owned, LiveHooked, UnboundUnhooked, Unbound, NoRuntimeOutlivesUnload
<1> QED
  BY <1>1, SetupInvariant, PTL

-----------------------------------------------------------------------------
(* The setup of the garages implements DoorTenure. *)

\* An entry's unload shuts down runtimes of its own robots and of no others.
HooksOwn == \A e \in Entries : \A rt \in hooks[e] : EntryOf[rt.robot] = e

\* Nothing is hooked at first, and only Bind adds to the hooks.
LEMMA HooksOwnNext ==
  /\ Init => HooksOwn
  /\ SetupAssumption /\ SetupInv /\ HooksOwn /\ [Next]_vars => HooksOwn'
<1>1. Init => HooksOwn
  BY DEF Init, HooksOwn
<1>2. ASSUME SetupAssumption, SetupInv, HooksOwn, [Next]_vars PROVE HooksOwn'
  <2>1. CASE UNCHANGED hooks
    BY <1>2, <2>1 DEF HooksOwn
  <2>2. ASSUME NEW e \in Entries, NEW r \in Of(e), Bind(e, r) PROVE HooksOwn'
    <3>1. hooks' = [hooks EXCEPT ![e] = hooks[e] \cup
                     {[robot |-> r, cover |-> options[r].cover, load |-> loads[e]]}]
      BY <2>2 DEF Bind, Hooked
    <3> QED
      BY <1>2, <2>2, <3>1 DEF HooksOwn, Of, SetupInv, TypeOK
  <2>3. ASSUME NEW e \in Entries, Unloaded(e) PROVE HooksOwn'
    BY <1>2, <2>3 DEF Unloaded, HooksOwn, SetupInv, TypeOK
  <2>4. ASSUME NEW e \in Entries, NEW r \in Of(e),
               \/ Refuse(e, r) \/ Started(e, r) \/ StartFails(e, r)
               \/ \E b \in Bindings : SaveBinding(r, b)
        PROVE  HooksOwn'
    BY <2>1, <2>4 DEF Refuse, Started, StartFails, SaveBinding
  <2>5. ASSUME NEW e \in Entries,
               \/ Recorded(e) \/ SetupEntry(e) \/ NotReady(e) \/ CoordinatorsReady(e)
               \/ StoreLoaded(e) \/ PlatformsReady(e) \/ UnloadEntry(e)
               \/ UnloadRefused(e) \/ OptionsUpdated(e)
        PROVE  HooksOwn'
    BY <2>1, <2>5 DEF Recorded, SetupEntry, NotReady, CoordinatorsReady, StoreLoaded,
                      PlatformsReady, UnloadEntry, UnloadRefused, OptionsUpdated
  <2>6. CASE UNCHANGED vars
    BY <2>1, <2>6 DEF vars
  <2> QED
    BY <1>2, <2>2, <2>3, <2>4, <2>5, <2>6 DEF Next, SettingUp, Reloading
<1> QED
  BY <1>1, <1>2

\* Bind lets a door that nobody drives: what is registered for it would be alive.
LEMMA BindLets ==
  ASSUME SetupAssumption, SetupInv, NEW e \in Entries, NEW r \in Of(e), Bind(e, r)
  PROVE  Tenure!Next
<1> DEFINE rt == [robot |-> r, cover |-> options[r].cover, load |-> loads[e]]
<1>1. r \in Robots /\ EntryOf[r] = e
  BY DEF Of
<1>2. options[r] \in Binding
  BY <1>1 DEF Bind, SetupInv, TypeOK, Bindings
<1>3. loads[e] \in 1..MaxLoads
  BY DEF SetupInv, TypeOK, Owned, LoadCounted, Bind, SetupAssumption
<1>4. rt \in Runtime /\ rt.cover \in Covers /\ rt.robot = r
  BY <1>1, <1>2, <1>3 DEF Runtime, Binding
<1>5. owners[rt.cover] = None
  BY DEF Bind, Taken
<1>6. \A other \in live : other.cover # rt.cover
  BY <1>5 DEF SetupInv, Owned, LiveOwns, TypeOK, SetupAssumption, Runtime
<1>7. live' = live \cup {rt} /\ stage[e] = "binding" /\ stage' = [stage EXCEPT ![e] = "starting"]
  BY DEF Bind
<1> HIDE DEF rt
<1>8. Opened' = Opened /\ e \in Opened
  BY <1>7 DEF Opened, SetupInv, TypeOK
<1>9. Driving[rt.cover] = {}
  BY <1>4, <1>6 DEF Driving
<1>10. Driving' = [Driving EXCEPT ![rt.cover] = {rt}]
  BY <1>4, <1>6, <1>7 DEF Driving
<1>11. Tenure!Lets(rt)
  BY <1>1, <1>4, <1>8, <1>9, <1>10 DEF Tenure!Lets
<1> QED
  BY <1>4, <1>11 DEF Tenure!Next

\* The end of an unload closes the entry: of its runtimes none is left, of the others all.
LEMMA UnloadCloses ==
  ASSUME SetupAssumption, SetupInv, HooksOwn, NEW e \in Entries, Unloaded(e)
  PROVE  Tenure!Next
<1>1. live' = live \ hooks[e] /\ stage[e] = "unloading" /\ stage' = [stage EXCEPT ![e] = "not_loaded"]
  BY DEF Unloaded
<1>2. e \in Opened /\ Opened' = Opened \ {e}
  BY <1>1 DEF Opened, SetupInv, TypeOK
<1>3. \A rt \in live : rt \in hooks[e] <=> EntryOf[rt.robot] = e
  BY DEF HooksOwn, SetupInv, Owned, LiveHooked
<1>4. \A rt \in live : rt \in Runtime
  BY DEF SetupInv, TypeOK
<1>5. Driving' = [c \in Covers |-> {rt \in Driving[c] :
                   [t \in Runtime |-> EntryOf[t.robot]][rt] # e}]
  BY <1>1, <1>3, <1>4 DEF Driving
<1>6. Tenure!Closes(e)
  BY <1>2, <1>5 DEF Tenure!Closes
<1> QED
  BY <1>6 DEF Tenure!Next

\* Every other step opens the entry whose loop begins, or is a stutter.
LEMMA OtherSteps ==
  ASSUME SetupAssumption, SetupInv, NEW e \in Entries,
         \/ Recorded(e) \/ SetupEntry(e) \/ NotReady(e) \/ CoordinatorsReady(e)
         \/ StoreLoaded(e) \/ PlatformsReady(e) \/ UnloadEntry(e)
         \/ UnloadRefused(e) \/ OptionsUpdated(e)
         \/ \E r \in Of(e) : \/ Refuse(e, r) \/ Started(e, r) \/ StartFails(e, r)
                            \/ \E b \in Bindings : SaveBinding(r, b)
  PROVE  [Tenure!Next]_<<Opened, Driving>>
<1>1. Driving' = Driving
  BY DEF Driving, Refuse, Started, StartFails, Recorded, SetupEntry, NotReady,
         CoordinatorsReady, StoreLoaded, PlatformsReady, UnloadEntry, UnloadRefused,
         SaveBinding, OptionsUpdated
<1>2. CASE StoreLoaded(e)
  <2>1. e \notin Opened /\ Opened' = Opened \cup {e}
    BY <1>2 DEF StoreLoaded, Opened, SetupInv, TypeOK
  <2> QED
    BY <1>1, <2>1 DEF Tenure!Next, Tenure!Opens
<1>3. CASE ~StoreLoaded(e)
  <2>1. Opened' = Opened
    BY <1>3 DEF Opened, SetupInv, TypeOK, Refuse, Started, Starting, StartFails, Recorded,
                SetupEntry, NotReady, CoordinatorsReady, PlatformsReady, UnloadEntry,
                UnloadRefused, SaveBinding, OptionsUpdated
  <2> QED
    BY <1>1, <2>1
<1> QED
  BY <1>2, <1>3

\* The setup of the garages implements DoorTenure, for any accounts, robots, doors,
\* reloads and edits (garage_runtime.py:759-766, 317-326).
THEOREM TenureImplemented == ASSUME SetupAssumption PROVE Spec => ImplementsTenure
<1>1. Init => Tenure!Init
  BY DEF Init, Tenure!Init, Opened, Driving
<1>2. SetupInv /\ HooksOwn /\ [Next]_vars => [Tenure!Next]_<<Opened, Driving>>
  <2> SUFFICES ASSUME SetupInv, HooksOwn, [Next]_vars PROVE [Tenure!Next]_<<Opened, Driving>>
    OBVIOUS
  <2>1. CASE UNCHANGED vars
    BY <2>1 DEF vars, Opened, Driving
  <2>2. ASSUME NEW e \in Entries, NEW r \in Of(e), Bind(e, r) PROVE Tenure!Next
    BY <2>2, BindLets
  <2>3. ASSUME NEW e \in Entries, Unloaded(e) PROVE Tenure!Next
    BY <2>3, UnloadCloses
  <2> QED
    BY <2>1, <2>2, <2>3, OtherSteps DEF Next, SettingUp, Reloading
<1>3. Init => HooksOwn
  BY HooksOwnNext
<1>4. SetupInv /\ HooksOwn /\ [Next]_vars => HooksOwn'
  BY HooksOwnNext
<1> QED
  BY <1>1, <1>2, <1>3, <1>4, SetupInvariant, PTL DEF Spec, ImplementsTenure, Tenure!Spec

=============================================================================
