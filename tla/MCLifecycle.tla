---------------------------- MODULE MCLifecycle ----------------------------
(***************************************************************************)
(* A client and the health subcommand, over one environment of each kind.  *)
(***************************************************************************)
EXTENDS Lifecycle

CONSTANTS pep, probe

MCClients == {pep, probe}
MCProbes == {probe}

Env(bind, faults, pidOne) == [bind |-> bind, faults |-> faults, pidOne |-> pidOne]
Address(ip, port) == [ip |-> ip, port |-> port]

MCEnvironments ==
    {Env(bind, {}, TRUE) :
        bind \in {Unset, Malformed, Address("any4", "8080"), Address("any6", "8080"),
                  Address("any6only", "8080"), Address("host", "8080"),
                  Address("any4", "zero")}}
    \cup {Env(Unset, {}, FALSE), Env(Unset, {"AUTHZ_POLICY_PATH"}, TRUE)}
=============================================================================
