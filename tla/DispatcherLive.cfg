CONSTANTS
    c1 = c1
    c2 = c2
    t1 = t1
    t2 = t2
    q1 = q1
    Ids <- MC_Ids
    Tokens <- MC_Tokens
    Queues <- MC_Queues
    MaxCalls = 1
    MaxGen = 1
    PluginCallsIn <- MC_PluginCalls
    TokenReuse = FALSE
SPECIFICATION Spec
PROPERTIES
    UnaryEntryReleased
