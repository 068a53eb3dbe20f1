SPECIFICATION Spec
CONSTANTS
    Count = 3
    Layouts <- WideOrTall
    Width = 2
    Viewport = 2
    Step = 1
    Lead = 0
    MaxSteps = 3
INVARIANTS
    Autoplay
    ShownPages
PROPERTIES
    StepsFollowTheScreen
CHECK_DEADLOCK FALSE
