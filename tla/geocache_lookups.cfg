\* Look-ups of places in a row and a search overlap, keys expire, Redis and Mapbox fail.
SPECIFICATION Spec
CONSTANTS
    Places <- Row
    Queries = {q1}
    Lookups = {l1, l2}
    Threshold = 1
    None = None
INVARIANTS
    TypeOK
    AnswersAreNear
    MapboxIsLastResort
PROPERTY
    LookupsEnd
