\* Two requests of every kind overlap, fail and crash at every call.
SPECIFICATION TwoTokens
CONSTANTS
    Emails = {e1, e2}
    Ids = {u1, u2}
    Orgs = {o1, o2}
    Edits <- OneColumn
    Requests = {r1, r2}
    None = None
SYMMETRY Symmetry
INVARIANTS
    TypeOK
    
    LateAreRefused
PROPERTY
    BothOrNeither
CHECK_DEADLOCK FALSE
