------------------------ MODULE MCCapabilityService ------------------------
(***************************************************************************)
(* CapabilityService with two rule sets composed through SecurityChain: a  *)
(* filter that denies key_combo and asks for clicks, registered before an  *)
(* auditing module that vetoes the response of a screenshot.               *)
(***************************************************************************)
EXTENDS CapabilityService, TLC

Chain == INSTANCE SecurityChain

Click == "click"
KeyCombo == "key_combo"
Screenshot == "screenshot"
Query == "query"
MCFingerprints == {Click, KeyCombo, Screenshot, Query}

MCChain ==
    Chain!RegisterModule(Chain!RegisterModule(<<>>, "filter", 10), "auditor", 100)

\* The rules of config/security_filter_rules.toml, reduced to one of each kind.
Rule(ops) == [capability |-> "ax", operations |-> ops, field |-> "none", values |-> {}]
Filter(op) ==
    Chain!FilterPreHook({Rule({KeyCombo})}, {Rule({Click})},
                        [capability |-> "ax", operation |-> op, params |-> <<>>])

MCPreVerdict ==
    [f \in MCFingerprints |->
       Chain!RunHook(MCChain, [m \in {"filter", "auditor"} |->
                        IF m = "filter" THEN Filter(f) ELSE "Skip"]).action]

MCPostVerdict ==
    [f \in MCFingerprints |->
       Chain!RunHook(MCChain, [m \in {"filter", "auditor"} |->
                        IF m = "auditor" /\ f = Screenshot THEN "Deny" ELSE "Skip"]).action]

MCLoaded == MCFingerprints \ {Query}
MCDescriptions == {"d1", "d2"}

\* Calls are made under two tasks of one description, which no call looks at; a
\* third task, or another description, is for the registry alone.
CallsUnderTwoTasks ==
    \/ \A c \in Clients : pc[c] = "idle"
    \/ next_id <= 3 /\ \A t \in Live : tasks[t].root_description = "d1"

Symmetry == Permutations(Clients)
=============================================================================
