SPECIFICATION Spec
CONSTANTS
    Kids = {k1}
    Handlers = {h1, h2}
    Keys = {g1}
    Slots = 2
    MaxLate = 1
INVARIANTS
    TypeOK
    AnswerIsOwn
    
    NothingLeaks
PROPERTIES
    GrantWasFree
