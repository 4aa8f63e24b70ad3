\* Four report() calls at an error and a debug level, set_reporting to
\* every destination with a valid level, a stricter one and an invalid one.
\* The store (MAX_STORED_MSGS) is larger than the number of calls.
CONSTANTS
    RPT_CRIT = 0
    RPT_ERR = 1
    RPT_INFO = 4
    RPT_DEBUG = 5
    STDERR = STDERR
    SYSLOG = SYSLOG
    STORE = STORE
    MAX_STORED_MSGS = 200
    Levels = {1, 5}
    NewLevels = {1, 4, 9}
    MaxReports = 4
    NewDests = {STDERR, SYSLOG, STORE}
SPECIFICATION Spec
INVARIANT TypeOK
INVARIANT ReportConservation
INVARIANT OutputInIssueOrder
