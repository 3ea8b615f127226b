\* Three controllers, one election, one entry: the quorum settles on its leader.
CONSTANTS
    v1 = v1
    Nil = Nil
    Controllers <- ThreeControllers
    Values = {v1}
    MaxEpoch = 1
    MaxLog = 1
SPECIFICATION Spec
PROPERTIES CommittedIsApplied
