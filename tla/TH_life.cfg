CONSTANTS
    Owner = o
    Others = {t}
    Self = self
    None = None
    Environments <- MCEnvironments
    MaxOverrun = 2
    MaxSignals = 3
SPECIFICATION FairSpec
INVARIANTS Awake Paced
PROPERTIES StepsInside Terminates
