CONSTANTS
    Caller = {main, other, worker, httpd, pgw}
    WorkThread = worker
    HttpThread = httpd
    PgThread = pgw
    Nobody = Nobody
SPECIFICATION FairSpec
CHECK_DEADLOCK FALSE
INVARIANTS ApplicationSound
PROPERTIES CloseReturns
