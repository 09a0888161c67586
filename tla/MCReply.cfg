\* Replies in every wrapping, objects of every shape, bios of up to seven
\* characters.
CONSTANTS
    Contents <- MCContents
    MaxBioChars = 5
SPECIFICATION Spec
INVARIANTS
    TypeOK
    ReadsNoPart
    WrappedIsRead
    WordsKept
    TidyAfterOnePass
    RejectionExplained
