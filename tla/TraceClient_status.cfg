SPECIFICATION SettlingSpec
CONSTANTS
    a = a
    b = b
    Run <- MCRun
    Failing <- MCFailing
    Page = Page
    User = User
    NoRun = NoRun
    Old <- MCOld
    MaxExtras = 0
PROPERTY StatusSettles
CHECK_DEADLOCK FALSE
