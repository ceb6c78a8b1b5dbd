SPECIFICATION CalendarSpec
CONSTANTS
    Clock = {20, 21}
    Widths = {80, 90, 110, 140}
    Loads <- MCLoads
    Unset = Unset
INVARIANT LastGoodDataIsDrawn
