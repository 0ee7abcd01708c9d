SPECIFICATION MCSpec
CONSTANTS
    MaxNodes = 3
    Iterators = {"a", "b", "loop"}
    Ints <- MCInts
    Indices <- MCIndices
    Lists <- MCLists
    Ranges <- MCRanges
    Keys <- MCKeys
    Stored = {1, 2}
    Size = 3
    Hashes <- MCHashes
INVARIANTS IteratorsAlive
PROPERTIES IsSequence IsMap
CHECK_DEADLOCK FALSE
VIEW MCView
