CONSTANTS
    c1 = c1
    c2 = c2
    t1 = t1
    t2 = t2
    q1 = q1
    Ids <- MC_Ids
    Tokens <- MC_Tokens
    Queues <- MC_Queues
    MaxCalls = 2
    MaxGen = 2
    PluginCallsIn <- MC_PluginCallsAll
    TokenReuse = FALSE
SYMMETRY MC_Symmetry
SPECIFICATION Spec
INVARIANT RegistrationAttributedToCaller
