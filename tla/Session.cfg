SPECIFICATION SessionFairSpec
CONSTANTS
    anna = anna
    ben = ben
    a = a
    None = None
    Local = Local
    Movies <- MCMovies
    Accounts <- MCAccounts
    SecondPhone <- MCSecondPhone
INVARIANTS
    SessionInv
    VerdictsStayHome
PROPERTIES
    KeepsVerdicts
    SignInEnds
