\* One machine, two slots of which the timeline shows the second, two changes.
SPECIFICATION RefreshSpec
CONSTANTS
    Machines = {m1}
    Slots = {1, 2}
    Window = {2}
    MaxRevision = 2
PROPERTIES
    AnswersCurrent
    PageCatchesUp
CHECK_DEADLOCK FALSE
