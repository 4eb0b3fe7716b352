SPECIFICATION Spec
CONSTANTS
    api = api
    login = login
    tls = tls
    plain = plain
    Hosts = {api, login}
    Ports = {tls, plain}
    PlainPorts = {plain}
    Home <- HomeOrigin
    LoginHost = login
    NoLocation = NoLocation
    MaxRequests = 3
    MaxRetries = 1
INVARIANTS HeadersScoped BodyWhole ActedOnce AttemptsBounded
CHECK_DEADLOCK FALSE
