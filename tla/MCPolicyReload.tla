--------------------------- MODULE MCPolicyReload ---------------------------
(***************************************************************************)
(* A small instance of PolicyReload: two schemas, two contents valid under *)
(* the old one of which only the second is valid under the new one, one    *)
(* that needs the new schema, one that does not parse, missing files.      *)
(***************************************************************************)
EXTENDS PolicyReload

CONSTANTS v1, v2, needsNew, syntaxError, old, new

MCContents == {v1, v2, needsNew, syntaxError}
MCParses == {v1, v2, needsNew}
MCSchemas == {old, new}

MCValidUnder == [s \in {old, new} |-> IF s = old THEN {v1, v2} ELSE {v2, needsNew}]
=============================================================================
