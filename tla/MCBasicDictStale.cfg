SPECIFICATION DictSpec
CONSTANTS
    Iterators = {"a", "loop"}
    Keys <- MCKeys
    Stored = {1}
    Size = 3
    Hashes <- OneBucket
INVARIANTS DictStaleRefused
VIEW AnswerView
CHECK_DEADLOCK FALSE
