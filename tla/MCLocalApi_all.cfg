\* Two connections at a time to a region of two bytes.
SPECIFICATION Spec
CONSTANTS
    Conns = {1, 2}
    SIZE = 2
    MAX_TRANSFER = 2
    Requests <- TestRequests
INVARIANTS WritesAreWhole ReturnsAreServed
PROPERTIES RaisesForAReason HandlersEnd
