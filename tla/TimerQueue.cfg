\* Three timers, once and repeating, added from anywhere; the wall clock
\* is set once.
SPECIFICATION Spec
CONSTANTS
    Timers = {a, b, c}
    Delays = {0, 1, 3}
    Intervals = {0, 2}
    Steps = {2}
INVARIANTS
    TimersArmed
PROPERTY EveryTimerRuns
