------------------------------ MODULE AccountFlow ------------------------------
(***************************************************************************)
(* The config flow, by which an account becomes a config entry and an      *)
(* entry whose credentials have expired logs in again, and the first form  *)
(* of the options flow.  Flows are open side by side, wait for their user  *)
(* and for Roborock's servers, and accounts and entries change meanwhile.  *)
(*                                                                         *)
(* Home Assistant, external here, refuses the unique id of another flow,   *)
(* starts one reauth of an entry at a time under the entry's id, and ends  *)
(* the discoveries when an entry is made; an entry made under a unique id  *)
(* that is taken would replace the one that has it, options and all.       *)
(***************************************************************************)
EXTENDS Naturals

CONSTANTS
  Users,       \* names users log in with
  Official,    \* servers of Roborock: the regions
  Own,         \* servers users run themselves
  Accounts,    \* rruid: the accounts there ever are
  MaxFlows,    \* bound: flows
  MaxChanges   \* bound: accounts registered anew, entries removed

ASSUME FlowAssumption ==
  /\ Official \cap Own = {} /\ MaxChanges \in Nat
  /\ "none" \notin Users \cup Official \cup Own \cup Accounts /\ "discovery" \notin Accounts

Servers == Official \cup Own
Flows == 1..MaxFlows

VARIABLES
  holder,   \* the account a user has on a server, or "none"
  entries,  \* the config entries under their unique ids; {} where there is none
  flow,     \* the flows
  chosen,   \* history: the options last saved for the entry of an account
  changes   \* changes left

flowVars == <<holder, entries, flow, chosen, changes>>

\* The options: a number, what the map shows, and the binding of a garage, which is
\* chosen in forms of its own.
Default == [number |-> "few", map |-> "plain", garage |-> "none"]
Submissions == [number : {"few", "many", "refused"}, map : {"plain", "full"}]

-----------------------------------------------------------------------------

NoFlow == [at |-> "none", source |-> "none", entry |-> "none", user |-> "none",
           server |-> "none", form |-> "none", id |-> "none", got |-> "none",
           draft |-> {}, said |-> {}, late |-> FALSE]
Idle(f) == flow[f].at = "none" /\ (f > 1 => flow[f - 1].at # "none")
Open(f) == flow[f].at \notin {"none", "ended"}
Over == [NoFlow EXCEPT !.at = "ended"]
Ends(f) == flow' = [flow EXCEPT ![f] = Over]
Awaits(f, at) == flow' = [flow EXCEPT ![f].at = at]

\* async_step_user without input.
Start(f) ==
  /\ Idle(f)
  /\ flow' = [flow EXCEPT ![f] = [NoFlow EXCEPT !.at = "user", !.source = "user"]]
  /\ UNCHANGED <<holder, entries, chosen, changes>>

\* async_step_dhcp: only before there are entries and while no other flow is open; a
\* robot that belongs to an entry ends it as well.
Discover(f) ==
  /\ Idle(f) /\ \A a \in Accounts : entries[a] = {}
  /\ \A g \in Flows : ~Open(g)
  /\ flow' = [flow EXCEPT ![f] = [NoFlow EXCEPT !.at = "user", !.source = "dhcp", !.id = "discovery"]]
  /\ UNCHANGED <<holder, entries, chosen, changes>>

\* async_step_reauth: the user and the server of the entry.
Reauth(f, a) ==
  /\ Idle(f) /\ ~\E g \in Flows : Open(g) /\ flow[g].source = "reauth" /\ flow[g].entry = a
  /\ \E e \in entries[a] :
       flow' = [flow EXCEPT ![f] = [NoFlow EXCEPT !.at = "confirm", !.source = "reauth",
                  !.entry = a, !.user = e.user, !.server = e.server, !.form = "confirm", !.id = a]]
  /\ UNCHANGED <<holder, entries, chosen, changes>>

\* Automatic finds the region by the user, a custom server is asked for.
SubmitUser(f, user, region) ==
  /\ flow[f].at = "user"
  /\ flow' = [flow EXCEPT ![f].user = user,
       ![f].at = IF region = "custom" THEN "custom_url" ELSE "requesting",
       ![f].server = IF region = "custom" THEN "none" ELSE region, ![f].form = "user"]
  /\ UNCHANGED <<holder, entries, chosen, changes>>

\* is_valid_server_url refuses what is no http address with a host; any other, with
\* the blanks around it cut off, is the server.
SubmitUrl(f, server) ==
  /\ flow[f].at = "custom_url"
  /\ flow' = [flow EXCEPT ![f].at = "requesting", ![f].server = server, ![f].form = "custom_url"]
  /\ UNCHANGED <<holder, entries, chosen, changes>>

Confirm(f) ==
  /\ flow[f].at = "confirm" /\ Awaits(f, "requesting")
  /\ UNCHANGED <<holder, entries, chosen, changes>>

\* _request_code: the form again after any error.
CodeSent(f) ==
  /\ flow[f].at = "requesting"
  /\ \E server \in Servers :
       /\ IF flow[f].server = "auto" THEN server \in Official ELSE server = flow[f].server
       /\ holder[<<flow[f].user, server>>] # "none"
       /\ flow' = [flow EXCEPT ![f].at = "code", ![f].server = server]
  /\ UNCHANGED <<holder, entries, chosen, changes>>

CodeRefused(f) ==
  /\ flow[f].at = "requesting" /\ Awaits(f, flow[f].form)
  /\ UNCHANGED <<holder, entries, chosen, changes>>

\* code_login_v4: the server answers for whoever has the name by then.
LoggedIn(f) ==
  /\ flow[f].at = "code" /\ holder[<<flow[f].user, flow[f].server>>] # "none"
  /\ flow' = [flow EXCEPT ![f].at = "logged in", ![f].got = holder[<<flow[f].user, flow[f].server>>]]
  /\ UNCHANGED <<holder, entries, chosen, changes>>

\* async_set_unique_id, of Home Assistant.
InProgress(f, a) == \E g \in Flows \ {f} : Open(g) /\ flow[g].id = a

\* _abort_if_unique_id_mismatch, and the plausible slip of leaving it out.
MismatchNever(f) == FALSE
Mismatch(f) == flow[f].got # flow[f].entry

\* A reauth changes the user data of its entry and nothing else, and reloads it.
Renew(f) ==
  /\ flow[f].at = "logged in" /\ flow[f].source = "reauth"
  /\ entries' = IF InProgress(f, flow[f].got) \/ Mismatch(f) THEN entries
                ELSE [entries EXCEPT ![flow[f].entry] =
                       {[e EXCEPT !.data = flow[f].got] : e \in entries[flow[f].entry]}]
  /\ Ends(f) /\ UNCHANGED <<holder, chosen, changes>>

\* Any other flow goes on to create an entry unless the account has one, and waits for
\* the client's base_url on the way.
Known(f) ==
  /\ flow[f].at = "logged in" /\ flow[f].source # "reauth"
  /\ IF InProgress(f, flow[f].got) \/ entries[flow[f].got] # {} THEN Ends(f)
     ELSE flow' = [flow EXCEPT ![f].at = "creating", ![f].id = flow[f].got]
  /\ UNCHANGED <<holder, entries, chosen, changes>>

Created(f) ==
  /\ flow[f].at = "creating"
  /\ entries' = [entries EXCEPT ![flow[f].id] =
       {[user |-> flow[f].user, server |-> flow[f].server, data |-> flow[f].got, options |-> Default]}]
  /\ flow' = [g \in Flows |-> IF g = f \/ (Open(g) /\ flow[g].id \in {"discovery", flow[f].id})
                              THEN Over ELSE flow[g]]
  /\ UNCHANGED <<holder, chosen, changes>>

-----------------------------------------------------------------------------
(* The options flow of an entry. *)

\* It works on a deep copy.
OpenOptions(f, a) ==
  /\ Idle(f)
  /\ \E e \in entries[a] :
       flow' = [flow EXCEPT ![f] = [NoFlow EXCEPT !.at = "form", !.source = "options",
                                                  !.entry = a, !.draft = {e.options}]]
  /\ UNCHANGED <<holder, entries, chosen, changes>>

\* What a submission leaves of the entry's own options: a copy that shares the drawables
\* would be a plausible slip.
KeptShared(a, draft) == {[e EXCEPT !.options.map = draft.map] : e \in entries[a]}
Kept(a, draft) == entries[a]

Accepted(number) == number \in {"few", "many"}
Draft(old, input) ==
  [old EXCEPT !.map = input.map, !.number = IF Accepted(input.number) THEN input.number ELSE @]

\* Saving stores the whole draft, over what another flow has stored meanwhile.
Save(f, input, draft) ==
  LET a == flow[f].entry
  IN /\ entries' = [entries EXCEPT ![a] = {[e EXCEPT !.options = draft] : e \in entries[a]}]
     /\ chosen' = [chosen EXCEPT ![a] =
          [number |-> input.number, map |-> input.map,
           garage |-> IF flow[f].late \/ flow[f].at = "garage" THEN draft.garage ELSE @.garage]]
     /\ flow' = [g \in Flows |->
          IF g = f THEN Over
          ELSE IF flow[g].source = "options" /\ flow[g].entry = a THEN [flow[g] EXCEPT !.late = TRUE]
          ELSE flow[g]]

\* async_step_drawables keeps in its draft the fields it accepts, whatever becomes of
\* the others, and shows the form again when one is refused or when another entry uses
\* the door of a legacy automation.
SubmitOptions(f, input, legacy, garage) ==
  /\ flow[f].at = "form"
  /\ \E old \in flow[f].draft :
       LET draft == Draft(old, input)
           refused == ~Accepted(input.number) \/ legacy
       IN IF refused \/ garage
          THEN /\ flow' = [flow EXCEPT ![f].draft = {draft},
                                       ![f].at = IF refused THEN "form" ELSE "select",
                                       ![f].said = IF refused THEN {} ELSE {input}]
               /\ entries' = [entries EXCEPT ![flow[f].entry] = Kept(flow[f].entry, draft)]
               /\ UNCHANGED chosen
          ELSE Save(f, input, draft)
  /\ UNCHANGED <<holder, changes>>

\* async_step_garage_select offers the robots of the entry that are set up; without one
\* the flow is over and its draft lost.
SelectGarage(f, offered) ==
  /\ flow[f].at = "select"
  /\ IF offered THEN Awaits(f, "garage") ELSE Ends(f)
  /\ UNCHANGED <<holder, entries, chosen, changes>>

\* The forms of the garage, which GarageBinding models, end.
GarageSaved(f, binding) ==
  /\ flow[f].at = "garage"
  /\ \E draft \in flow[f].draft, input \in flow[f].said : Save(f, input, [draft EXCEPT !.garage = binding])
  /\ UNCHANGED <<holder, changes>>

-----------------------------------------------------------------------------
(* The others. *)

Closed(f) ==
  /\ Open(f) /\ flow[f].at \in {"user", "custom_url", "confirm", "code", "form", "select", "garage"}
  /\ Ends(f)
  /\ UNCHANGED <<holder, entries, chosen, changes>>

Change == changes > 0 /\ changes' = changes - 1

\* A user gives up an account, or registers under the name of an old one.
Registers(user, server, account) ==
  /\ Change /\ holder[<<user, server>>] # account
  /\ account # "none" => \A u \in Users, s \in Servers : holder[<<u, s>>] # account
  /\ holder' = [holder EXCEPT ![<<user, server>>] = account]
  /\ UNCHANGED <<entries, flow, chosen>>

Removed(a) ==
  /\ Change /\ entries[a] # {} /\ entries' = [entries EXCEPT ![a] = {}]
  /\ chosen' = [chosen EXCEPT ![a] = Default]
  /\ flow' = [f \in Flows |-> IF Open(f) /\ flow[f].entry = a THEN Over ELSE flow[f]]
  /\ UNCHANGED holder

-----------------------------------------------------------------------------

FlowInit ==
  /\ holder \in [Users \X Servers -> Accounts \cup {"none"}]
  /\ \A p, q \in Users \X Servers : holder[p] = holder[q] => holder[p] = "none" \/ p = q
  /\ entries = [a \in Accounts |-> {}]
  /\ flow = [f \in Flows |-> NoFlow]
  /\ chosen = [a \in Accounts |-> Default] /\ changes = MaxChanges

FlowNext ==
  \/ \E f \in Flows :
       \/ Start(f) \/ Discover(f) \/ Confirm(f) \/ CodeSent(f) \/ CodeRefused(f)
       \/ LoggedIn(f) \/ Renew(f) \/ Known(f) \/ Created(f) \/ Closed(f)
       \/ \E a \in Accounts : Reauth(f, a) \/ OpenOptions(f, a)
       \/ \E input \in Submissions, legacy \in BOOLEAN, garage \in BOOLEAN : SubmitOptions(f, input, legacy, garage)
       \/ \E offered \in BOOLEAN : SelectGarage(f, offered)
       \/ \E binding \in {"none", "door"} : GarageSaved(f, binding)
       \/ \E user \in Users, region \in Official \cup {"auto", "custom"} : SubmitUser(f, user, region)
       \/ \E server \in Own : SubmitUrl(f, server)
  \/ \E user \in Users, server \in Servers, a \in Accounts \cup {"none"} : Registers(user, server, a)
  \/ \E a \in Accounts : Removed(a)

FlowSpec == FlowInit /\ [][FlowNext]_flowVars

-----------------------------------------------------------------------------

\* The entry of an account holds the login of that account and no other, whatever has
\* become of its name on the server meanwhile (config_flow.py:274-282).
EntryIsItsAccount == \A a \in Accounts : \A e \in entries[a] : e.data = a

\* Its options are those that were last saved: what the form that saved them said at the
\* end and, unless another one was saved while it was open, the garage as it was; no
\* refused or abandoned form, no login and no other flow changes them
\* (config_flow.py:363, 374-444).
OptionsAreAsSaved == \A a \in Accounts : \A e \in entries[a] : e.options = chosen[a]
=============================================================================
