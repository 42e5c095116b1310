SPECIFICATION FairSpec
CONSTANTS
    p1 = p1
    o1 = o1
    h1 = h1
    h2 = h2
    None = None
    Periodic = {p1}
    OneShot = {o1}
    Blocking = {p1}
    Reused = {p1}
    Stopping = {p1}
    Handles = {h1, h2}
    QueueLen = 3
INVARIANTS TypeOK NoCallAfterDelete CallsAreRight FreedTimersSkipped RunningIsScheduled
PROPERTY BlockingDeleteReturns
CHECK_DEADLOCK FALSE
