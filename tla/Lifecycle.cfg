SPECIFICATION Spec
CONSTANTS
    Listeners = {http}
    Requests = {r1, r2}
    Encodings = {protobuf, json}
INVARIANTS
    RequestsKeepClients
    CountedEventsSent
PROPERTY Stops
CHECK_DEADLOCK FALSE
