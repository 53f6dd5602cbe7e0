SPECIFICATION KeyboardSpec
CONSTANT MaxVisits = 2
INVARIANT CommandsOutlastFreeze
\* The bound on visits ends it.
CHECK_DEADLOCK FALSE
