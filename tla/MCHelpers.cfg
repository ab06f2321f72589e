SPECIFICATION Spec
CONSTANTS
    Width = 9
    Mantissa = 7
    Unit = 4
    Inf = 8192
    Refused = Refused
    Word = 1048576
    Octet = 256
    Junk = Junk
    Names = {"a", "b"}
    Foreign = "x"
    Absent = Absent
    NoInteger = NoInteger
    Members = {"m", "n"}
    Contents = {"one", "two"}
    Zero = "zero"
    Mismatch = "mismatch"
    Parts = {"To", "Headers"}
    Nil = Nil
    MaxHeap = 10
    MaxMessages = 2
    DelayConfigs <- MCDelayConfigs
    Attempts <- MCAttempts
    Samples <- MCSamples
    OptionSets <- MCOptions
    HashStrings <- MCHashes
    KeyLists <- MCKeys
    PageConfigs <- MCPageConfigs
    Numbers <- MCNumbers
INVARIANTS
    DelaysAsDocumented
    HashesVerify
    KeysStayInside
    PagesWithinLimits
    NullsKeptApart
    MessagesKept
