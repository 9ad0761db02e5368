SPECIFICATION Spec
CONSTANTS
    JobIds = {j1, j2}
    item = item
    a = a
    b = b
    Keys = {item}
    NoKey = NoKey
    NoJob = NoJob
    Silence = Silence
    Peers = {a, b, item}
    Callers = {a, b}
    Asked <- AskedOneItem
    Rows = {item}
    Requests <- BothRevisions
    Capacity = 2
    Concurrency = 1
    MaxCalls = 2
    MaxRestarts = 1
    MaxRevision = 2
    Names = {n1, n2}
    NoName = NoName
    Texts = {Blank, t1, t2}
    Blank = Blank
    Absent = Absent
    MaxTyped = 2
    MaxSends = 2
    MaxEvents = 1
    Ids = {letter}
    Apps = {"mail"}
    AppOf <- AllMail
    LastMoment = 2
    Pids = {p1, p2}
    Bodies <- PortBodies
    NoService = NoService
    NoProcess = NoProcess
    MaxBirths = 3
    MaxSockets = 1
    MaxPlans = 1
    MaxStops = 2
    Calendars = {work, home}
    Accounts = {a, b}
    work = work
    home = home
    OwnerOf <- CalendarOwners
    PrimaryOf <- CalendarPrimaries
    NoAccount = NoAccount
    Reach = 1
    WindowLimit = 1
    Today = 2
    LastDay = 2
    Browsed = {4}
    MaxSignins = 2
    MaxMishaps = 1
SYMMETRY Symmetry
INVARIANTS RetainedIsAccounted VerdictStands AnalysisFitsRow SavedIsKept SilenceIsKept StopsOnlyReviewed CalendarIsTrue
PROPERTIES FailuresStay OtherTextsSurvive RemindersReturn
CHECK_DEADLOCK FALSE
