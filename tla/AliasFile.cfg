CONSTANTS
    Files <- AliasFiles
    NoFile = NoFile
    DbList <- DbListKey
    Chars <- AliasChars
    MaxLineLength = 4
    SampleLines <- AliasSampleLines
SPECIFICATION Spec
INVARIANTS TypeOK EmptyValueUnreachable
PROPERTY AliasImplementsContract
CHECK_DEADLOCK FALSE
