----------------------------- MODULE BundledCalls -----------------------------
(***************************************************************************)
(* What request bundling promises its callers, without task, timer, limit  *)
(* or threshold: a call waits alone until it is sent together with others, *)
(* the members of one batch share its fate, and each call ends once.  A    *)
(* withdrawn call was never sent.                                          *)
(***************************************************************************)
CONSTANT Calls

VARIABLES
    phase,    \* where each call is
    outcome,  \* how it ended: "none" for a response, or the error
    batches   \* the sets of calls that travel together

vars == <<phase, outcome, batches>>

Waiting == {c \in Calls : phase[c] = "waiting"}

Init ==
    /\ phase = [c \in Calls |-> "idle"]
    /\ outcome = [c \in Calls |-> "none"]
    /\ batches = {}

End(S, err) ==
    /\ phase' = [c \in Calls |-> IF c \in S THEN "answered" ELSE phase[c]]
    /\ outcome' = [c \in Calls |-> IF c \in S THEN err ELSE outcome[c]]

(* Send the batches of `new`, in one turn; `c` may be among their calls.    *)
Send(new, c) ==
    /\ batches' = batches \cup new
    /\ phase' = [d \in Calls |-> IF d \in UNION new THEN "sent"
                                 ELSE IF d = c THEN "waiting" ELSE phase[d]]
    /\ UNCHANGED outcome

(* A new call may make those before it leave, and may leave with them, after *)
(* them, or stay.                                                            *)
Submit(c) ==
    /\ phase[c] = "idle"
    /\ \E D \in SUBSET Waiting :
         \E new \in {{}, {D}, {{c}}, {D, {c}}, {D \cup {c}}} :
            /\ {} \notin new
            /\ Send(new, c)

Refuse(c) ==
    /\ phase[c] = "idle"
    /\ UNCHANGED batches
    /\ End({c}, "INVALID_ARGUMENT")

Withdraw(c) ==
    /\ phase[c] = "waiting"
    /\ UNCHANGED batches
    /\ End({c}, "CANCELLED")

Dispatch(D) ==
    /\ D # {}
    /\ D \subseteq Waiting
    /\ batches' = batches \cup {D}
    /\ phase' = [d \in Calls |-> IF d \in D THEN "sent" ELSE phase[d]]
    /\ UNCHANGED outcome

Finish(D, err) ==
    /\ D \in batches
    /\ batches' = batches \ {D}
    /\ End(D, err)

Next ==
    \/ \E c \in Calls : Submit(c) \/ Refuse(c) \/ Withdraw(c)
    \/ \E D \in SUBSET Waiting : Dispatch(D)
    \/ \E D \in batches : \E err \in {"none", "API_ERROR"} : Finish(D, err)

Spec == Init /\ [][Next]_vars

=============================================================================
