---------------------------- MODULE ConfirmGate ----------------------------
(***************************************************************************)
(* What askConfirm() promises to the security chain, without pipes, locks  *)
(* or promises: a request is either refused on the spot or stays open      *)
(* until it returns, and it returns an approval only if the user gave that *)
(* very answer to this request, or if it timed out and the service is      *)
(* configured to let timed out requests pass.  A denial is always          *)
(* possible; trust is never invented.                                      *)
(***************************************************************************)
EXTENDS Naturals

CONSTANTS
    Askers,       \* threads that call askConfirm()
    TimeoutMode   \* "wait_forever", "timeout_deny" or "timeout_allow"

Deny == [confirmed |-> FALSE, trust |-> FALSE]
Allow == [confirmed |-> TRUE, trust |-> FALSE]
AllowAndTrust == [confirmed |-> TRUE, trust |-> TRUE]
Answers == {Deny, Allow, AllowAndTrust}

VARIABLES
    open,     \* the askers whose request is open
    heard,    \* what the user has said to the asker's open request
    verdict   \* what the asker's last request returned

gateVars == <<open, heard, verdict>>

Init ==
    /\ open = {}
    /\ heard = [a \in Askers |-> {}]
    /\ verdict = [a \in Askers |-> Deny]

\* No UI is connected.
Refuse(a) ==
    /\ a \notin open
    /\ verdict' = [verdict EXCEPT ![a] = Deny]
    /\ UNCHANGED <<open, heard>>

Ask(a) ==
    /\ a \notin open
    /\ open' = open \cup {a}
    /\ UNCHANGED <<heard, verdict>>

\* The user closes the dialog that shows a's request; there is one.
Hear(a, v) ==
    /\ a \in open
    /\ heard[a] = {}
    /\ heard' = [heard EXCEPT ![a] = {v}]
    /\ UNCHANGED <<open, verdict>>

MayReturn(a) ==
    heard[a] \cup {Deny} \cup (IF TimeoutMode = "timeout_allow" THEN {Allow} ELSE {})

Return(a, v) ==
    /\ a \in open
    /\ v \in MayReturn(a)
    /\ open' = open \ {a}
    /\ heard' = [heard EXCEPT ![a] = {}]
    /\ verdict' = [verdict EXCEPT ![a] = v]

Next ==
    \E a \in Askers :
        \/ Refuse(a) \/ Ask(a)
        \/ \E v \in Answers : Hear(a, v) \/ Return(a, v)

Spec == Init /\ [][Next]_gateVars
=============================================================================
