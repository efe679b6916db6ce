CONSTANTS
    first = 1
    last = 5
    Ranges <- MCRanges
SPECIFICATION SpecRepeats
PROPERTIES DuplicateFreeRejected
