SPECIFICATION Spec
CONSTANTS
    pep = pep
    probe = probe
    Clients <- MCClients
    Probes <- MCProbes
    Environments <- MCEnvironments
    Unset = Unset
    Malformed = Malformed
INVARIANT CleanExit
PROPERTIES BegunIsAnswered HealthFailsOnlyWhenDown SigtermStops ProbesReturn
