\* Requests on two files, of two organizations, fail and interleave at every call.
SPECIFICATION Spec
CONSTANTS
    Files = {f1, f2}
    Vehicles = {v1}
    Shipments = {s1}
    Organizations = {o1, o2}
    Requests = {k1, k2}
    NoOwner = NoOwner
SYMMETRY Symmetry
INVARIANTS
    TypeOK
    RowKeepsObject
    AnswersStayTrue
