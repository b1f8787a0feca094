SPECIFICATION EditorSpec
CONSTANTS
    a = a
    b = b
    NoFilter = NoFilter
    GenreList <- MCGenreList
    MinYears <- MCMinYears
    MaxYears <- MCMaxYears
    Visible = 2
INVARIANTS
    EditorInv
    SpanHoldsAYear
PROPERTIES
    SavesWhatWasChanged
