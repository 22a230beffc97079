SPECIFICATION ClientSpec
CONSTANTS
    a = a
    b = b
    Run <- MCRun
    Failing <- MCFailing
    Page = Page
    User = User
    NoRun = NoRun
    Old <- MCOld
    MaxExtras = 1
INVARIANTS
    ClientTypeOK
    OneRunIsShown
    ShownRunIsWatched
    ResultFitsTrace
PROPERTY
    EndIsShown
CHECK_DEADLOCK FALSE
