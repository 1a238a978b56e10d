\* The parts without the scheduler's state, one in each behaviour.  A
\* behaviour of Screen, Clock or Status ends at its bound, and sd_init may hang.
CONSTANTS
    Cards <- MCCards
    Requests <- MCRequests
    MaxFaults = 2
    Words <- MCWords
    Strings <- MCStrings
    MaxLength = 3
    Squares <- MCSquares
    GlyphX = 2
    GlyphY = 2
    MaxX = 2
    MaxY = 2
    FWidth = 3
    FHeight = 1
    Font <- MCFont
    Grants <- MCGrants
    Boxes <- MCBoxes
    Texts <- MCTexts
    Values = {0, 10, 175}
    Colours <- MCColours
    MaxCalls = 2
    Word = 4
    MaxTime = 13
    MaxRun = 9
    Waits = {0, 1, 3}
    Readings <- MCReadings
    SecondTicks = 1000000
    MaxReports = 2
INIT MCInit
NEXT MCNext
INVARIANTS
    ReadsWhatWasAsked
    AgreesWithCard
    FailsForAReason
    NumbersReadBack
    ComparesAndCopies
    RootIsFloor
    ShowsWhatWasAsked
    NeverAhead
    WaitsLongEnough
    ShowsTheLatest
CHECK_DEADLOCK FALSE
