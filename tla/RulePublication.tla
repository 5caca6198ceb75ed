--------------------------- MODULE RulePublication ---------------------------
(***************************************************************************)
(* What the loading of custom rules promises, without threads, mutexes,    *)
(* timestamps and truncated files.  The states of a site's rules are       *)
(* numbered; a state is published in the site's file and loaded from there *)
(* into a WAF instance of each manager.  A request of the rule API makes a *)
(* change and is confirmed with an instance that has it.  WAFManager shows *)
(* that the code implements it.                                            *)
(***************************************************************************)
EXTENDS Integers

CONSTANTS Sites, Handlers

VARIABLES
    rules,         \* per site: the number of the state of its rules
    file,          \* per site: the state its file holds (None: no custom rules)
    wafInstances,  \* per manager and site: the state its instance has
    request        \* per handler: how far its request is, and the change it made

vars == <<rules, file, wafInstances, request>>

NotLoaded == -1
None == 0
Managers == {"proxy", "api"}

Idle == [phase |-> "idle"]
Changed(phase, s, rev) == [phase |-> phase, site |-> s, rev |-> rev]

Init ==
    /\ rules = [s \in Sites |-> 1]
    /\ file = [s \in Sites |-> None]
    /\ wafInstances = [m \in Managers |-> [s \in Sites |-> NotLoaded]]
    /\ request = [h \in Handlers |-> Idle]

Become(h, state) == request' = [request EXCEPT ![h] = state]
Put(m, s, rev) == wafInstances' = [wafInstances EXCEPT ![m][s] = rev]

Change(h, s) ==
    /\ request[h].phase = "idle"
    /\ rules' = [rules EXCEPT ![s] = @ + 1]
    /\ Become(h, Changed("waiting", s, rules[s] + 1))
    /\ UNCHANGED <<file, wafInstances>>

\* A file goes forward, to a state the rules have or had.
Publish(s) ==
    /\ \E rev \in file[s]..rules[s] : file' = [file EXCEPT ![s] = rev]
    /\ UNCHANGED <<rules, wafInstances, request>>

\* What may be loaded: a published state, on the API's side none that is older than
\* the one there; or no custom rules.
Loadable(m, s) ==
    {rev \in None..file[s] : rev = None \/ m = "proxy" \/ rev >= wafInstances["api"][s]}

Load(m, s) ==
    /\ \E rev \in Loadable(m, s) : Put(m, s, rev)
    /\ UNCHANGED <<rules, file, request>>

\* The handler's change is in the instance it leaves, or nothing is.
Confirm(h) ==
    /\ request[h].phase = "waiting"
    /\ \E s \in Sites : \E rev \in Loadable("api", s) :
          /\ s = request[h].site
          /\ rev = None \/ rev >= request[h].rev
          /\ Put("api", s, rev)
    /\ Become(h, [request[h] EXCEPT !.phase = "confirmed"])
    /\ UNCHANGED <<rules, file>>

Refuse(h) ==
    /\ request[h].phase = "waiting"
    /\ Become(h, [request[h] EXCEPT !.phase = "refused"])
    /\ UNCHANGED <<rules, file, wafInstances>>

Reply(h) ==
    /\ request[h].phase \in {"confirmed", "refused"}
    /\ Become(h, Idle)
    /\ UNCHANGED <<rules, file, wafInstances>>

Next ==
    \/ \E s \in Sites : Publish(s) \/ \E m \in Managers : Load(m, s)
    \/ \E h \in Handlers :
        \/ \E s \in Sites : Change(h, s)
        \/ Confirm(h) \/ Refuse(h) \/ Reply(h)

Spec == Init /\ [][Next]_vars
=============================================================================
