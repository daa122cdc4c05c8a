\* Two concurrent calls of one method.  When all are invoked, nothing is left to do.
CONSTANTS
    Null = Null
    get = get  list = list  run = run  drop = drop  put = put
    plain = plain  short = short  capped = capped  private = private
    bare = bare  strict = strict  some = some  none = none
    eager = eager  limited = limited
    Codes = {"UNAVAILABLE", "ABORTED"}
    Methods = {get, list, run, drop, put}
    ClientConfig <- MCClientConfig
    ConfigOverrides <- MCConfigOverrides
    BaseTimeout = 30
    Headers = {"tags", "id"}
    BaseHeaders <- MCBaseHeaders
    Transports = {"grpc", "fallback"}
    Calls = {plain, short}
    MethodOf <- MCMethodOf
    OptionsOf <- MCOptionsOf
    MaxCalls = 2
SPECIFICATION Spec
CHECK_DEADLOCK FALSE
INVARIANTS OptionsStayWithTheirCall
