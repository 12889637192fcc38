--------------------------- MODULE SecurityChain ---------------------------
(***************************************************************************)
(* The chain of security modules (core/security_chain.cc) and the rules    *)
(* filter that ships with the daemon (security/filter/security_filter.cc), *)
(* as functions.  A chain is a sequence of [priority, module] in the order *)
(* in which the modules are driven.                                        *)
(***************************************************************************)
EXTENDS Naturals, SequencesExt

\* registerModule(): std::lower_bound puts the newcomer before the first entry
\* whose priority is not smaller.
LowerBound(chain, priority) ==
    LET notSmaller == {i \in DOMAIN chain : chain[i].priority >= priority}
    IN  IF notSmaller = {} THEN Len(chain) + 1 ELSE Min(notSmaller)

RegisterModule(chain, module, priority) ==
    InsertAt(chain, LowerBound(chain, priority), [priority |-> priority, module |-> module])

\* One turn of the loop of runPreHook / runPostHook, act being the modules'
\* verdicts: Deny returns at once; the first NeedConfirm leaves its reason.
DriveOne(act, acc, entry) ==
    IF acc.action = "Deny" THEN acc
    ELSE LET action == act[entry.module] IN
         [action |-> IF action \in {"Deny", "NeedConfirm"} THEN action ELSE acc.action,
          reason |-> IF action = "Deny"
                        \/ (action = "NeedConfirm" /\ acc.action # "NeedConfirm")
                     THEN entry.module ELSE acc.reason,
          driven |-> Append(acc.driven, entry.module)]

\* What the loop holds after each of its turns.
Drive(chain, act) ==
    LET acc[n \in 0 .. Len(chain)] ==
            IF n = 0 THEN [action |-> "Pass", reason |-> "none", driven |-> <<>>]
            ELSE DriveOne(act, acc[n - 1], chain[n])
    IN  acc

RunHook(chain, act) == Drive(chain, act)[Len(chain)]

\* runTaskBeginHook(): only a Deny counts.
RunTaskBeginHook(chain, act) ==
    IF \E i \in DOMAIN chain : act[chain[i].module] = "Deny" THEN "Deny" ELSE "Pass"

\* SecurityFilter::preHook(): deny rules before confirm rules.  A rule matches
\* a request by capability ("*" for any), by operation (no list for any) and,
\* if it names a field, by that field's value (no pattern for any value).
MatchRule(rule, request) ==
    /\ rule.capability \in {"*", request.capability}
    /\ rule.operations = {} \/ request.operation \in rule.operations
    /\ rule.field = "none" \/
          /\ rule.field \in DOMAIN request.params
          /\ rule.values = {} \/ request.params[rule.field] \in rule.values

FilterPreHook(denyRules, confirmRules, request) ==
    IF \E r \in denyRules : MatchRule(r, request) THEN "Deny"
    ELSE IF \E r \in confirmRules : MatchRule(r, request) THEN "NeedConfirm"
    ELSE "Pass"
=============================================================================
