SPECIFICATION Spec
CONSTANTS
    Widths <- MCWidths
    Heights = {1, 2, 3, 5, 6, 7}
    Bars <- MCBars
    Lists <- MCLists
    Statuses <- MCStatuses
    Title <- MCTitle
    Hints <- MCHints
    NoSessions <- MCNoSessions
    Names <- MCNames
INVARIANTS CurrentIsShown ListFits
