SPECIFICATION UntornSpec
CONSTANTS
    v1 = v1
    v2 = v2
    needsNew = needsNew
    syntaxError = syntaxError
    old = old
    new = new
    Contents <- MCContents
    Parses <- MCParses
    Schemas <- MCSchemas
    ValidUnder <- MCValidUnder
    Unreadable = Unreadable
    Nothing = Nothing
    Capacity = 2
    IoErrors = TRUE
INVARIANTS TypeOK ServesAfterValidation NeverUnvalidatedLive SkipIsSound
PROPERTIES FailStatic ImplementsHotReload
