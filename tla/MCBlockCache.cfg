SPECIFICATION Spec
CONSTANTS
    Lba = {l1, l2, l3}
    Data = {d1, d2}
    N = 2
    AgeCap = 2
INVARIANT IInv
PROPERTIES HotSurvives StoreSpec
