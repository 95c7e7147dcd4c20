------------------------------- MODULE DoorTenure -------------------------------
(***************************************************************************)
(* What the setup of the garages promises, of all accounts together: a     *)
(* door has one tenant at a time, the runtime that drives it; an account   *)
(* lets doors only while it is open, and takes all of its tenants along    *)
(* when it closes.  Which robot gets a door that several ask for, and when *)
(* an account opens, is left to the implementation.                        *)
(***************************************************************************)
CONSTANTS
  Entries,   \* accounts
  Covers,    \* doors
  Tenants,   \* who may drive a door: the runtimes there can be
  DoorOf,    \* the door a tenant drives
  HomeOf     \* the account it belongs to

VARIABLES
  open,      \* the accounts that may have tenants
  tenants    \* the tenants of each door

Opens(e) ==
  /\ e \notin open
  /\ open' = open \cup {e}
  /\ UNCHANGED tenants

Lets(t) ==
  /\ HomeOf[t] \in open
  /\ tenants[DoorOf[t]] = {}
  /\ tenants' = [tenants EXCEPT ![DoorOf[t]] = {t}]
  /\ UNCHANGED open

Closes(e) ==
  /\ e \in open
  /\ open' = open \ {e}
  /\ tenants' = [c \in Covers |-> {t \in tenants[c] : HomeOf[t] # e}]

Init == open = {} /\ tenants = [c \in Covers |-> {}]

Next == (\E e \in Entries : Opens(e) \/ Closes(e)) \/ \E t \in Tenants : Lets(t)

Spec == Init /\ [][Next]_<<open, tenants>>
=============================================================================
