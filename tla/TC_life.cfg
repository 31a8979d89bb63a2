CONSTANTS
    Clients = {c1}
    Engine = engine
    Users <- AllPrograms
SPECIFICATION FairSpec
INVARIANTS HooksExclusive Settled
PROPERTIES HookOrder StatesLeft Updated
