SPECIFICATION Spec
CONSTANTS
    Services = {web, db}
    Tunnels = {http, sql}
    web = web
    db = db
    http = http
    sql = sql
CHECK_DEADLOCK FALSE
INVARIANTS
    LockKept
    ImagesPushed
    ResponseComes
PROPERTIES
    BuildEnds
    ExitOrErrorEndsUp
