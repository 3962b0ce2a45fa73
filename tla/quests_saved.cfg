SPECIFICATION Spec
CONSTANTS
    q1 = q1
    q2 = q2
    kill = kill
    visit = visit
    Timer = Timer
    None = None
    Quest = {q1, q2}
    Kinds = {kill, visit, Timer}
    Conditions <- ConditionsOf
    Ordered = {q1}
INVARIANTS PaidMeansFulfilled OrderKept
PROPERTIES ImplementsRewards
