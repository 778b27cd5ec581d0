----------------------------- MODULE HotReload -----------------------------
(***************************************************************************)
(* What hot reload promises to a reader of DESIGN.md: a policy file is     *)
(* published by somebody else, and the PDP goes on serving one policy set, *)
(* the live one, which is only ever replaced as a whole by a content that  *)
(* was published and valid when it was picked up.  A rejection touches     *)
(* readiness and nothing else.  PolicyReload is the detailed              *)
(* specification that implements this one.                                 *)
(***************************************************************************)
CONSTANTS
    Contents,    \* the readable contents the policy file may have
    Schemas,     \* what contents may be validated against
    ValidUnder,  \* for each schema the contents that pass strict validation
    Unreadable,  \* a file that is missing or cannot be read
    Nothing,     \* no policy set, no schema
    Flaky        \* whether a read of a good file may fail

VARIABLES
    published,   \* what the policy file holds now
    rules,       \* the schema of this process, one for its whole life
    offered,     \* a content picked up and validated, not yet live
    live,        \* the policy set that decides requests
    phase,       \* where a replacement stands
    ready        \* what /readyz answers

vars == <<published, rules, offered, live, phase, ready>>

Published == Contents \cup {Unreadable}
Valid == IF rules \in Schemas THEN ValidUnder[rules] ELSE {}

Init ==
    /\ published \in Published
    /\ rules = Nothing
    /\ offered = Nothing
    /\ live = Nothing
    /\ phase = "idle"
    /\ ready = FALSE

Publish ==
    /\ published' \in Published \ {published}
    /\ UNCHANGED <<rules, offered, live, phase, ready>>

\* A process settles on a schema before it looks at any policy.
Boot ==
    /\ rules = Nothing
    /\ rules' \in Schemas
    /\ UNCHANGED <<published, offered, live, phase, ready>>

\* A valid content is picked up as a whole, at one instant.
Offer ==
    /\ phase = "idle"
    /\ published \in Valid
    /\ offered' = published
    /\ phase' = "offered"
    /\ UNCHANGED <<published, rules, live, ready>>

\* The first policy set goes live together with readiness.
Start ==
    /\ phase = "offered"
    /\ live = Nothing
    /\ live' = offered
    /\ offered' = Nothing
    /\ phase' = "idle"
    /\ ready' = TRUE
    /\ UNCHANGED <<published, rules>>

Install ==
    /\ phase = "offered"
    /\ live # Nothing
    /\ live' = offered
    /\ offered' = Nothing
    /\ phase' = "installed"
    /\ UNCHANGED <<published, rules, ready>>

Accept ==
    /\ phase = "installed"
    /\ phase' = "idle"
    /\ ready' = TRUE
    /\ UNCHANGED <<published, rules, offered, live>>

\* Readiness also returns when what is published is what is live.
Reaffirm ==
    /\ phase = "idle"
    /\ live # Nothing
    /\ published = live
    /\ ready' = TRUE
    /\ UNCHANGED <<published, rules, offered, live, phase>>

\* Readiness is withdrawn only for a bad file (or a read that failed).
Reject ==
    /\ phase = "idle"
    /\ live # Nothing
    /\ Flaky \/ published \notin Valid
    /\ ready' = FALSE
    /\ UNCHANGED <<published, rules, offered, live, phase>>

\* A crash loses everything but what is published.
Crash ==
    /\ rules' = Nothing
    /\ offered' = Nothing
    /\ live' = Nothing
    /\ phase' = "idle"
    /\ ready' = FALSE
    /\ UNCHANGED published

Next ==
    \/ Publish \/ Boot \/ Offer \/ Start \/ Install
    \/ Accept \/ Reaffirm \/ Reject \/ Crash

Spec == Init /\ [][Next]_vars
=============================================================================
