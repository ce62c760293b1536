\* Calls of which nothing but the local API could fail.
SPECIFICATION Spec
CONSTANTS
    Conns = {1, 2}
    SIZE = 2
    MAX_TRANSFER = 2
    Requests <- TestRequests
PROPERTY LegalCallsReturn
