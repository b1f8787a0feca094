SPECIFICATION SessionSpec
CONSTANTS
    anna = anna
    ben = ben
    a = a
    None = None
    Local = Local
    Movies <- MCMovies
    Accounts <- MCAccounts
    SecondPhone = {}
INVARIANTS
    HomeHasLists
