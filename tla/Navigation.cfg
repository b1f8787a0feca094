SPECIFICATION NavSpec
CONSTANTS
    anna = anna
    ben = ben
    n1 = n1
    n2 = n2
    None = None
    Unnamed = Unnamed
    Accounts <- MCAccounts
    Names <- MCNames
    MaxSignIns = 1
SYMMETRY Alike
INVARIANTS
    NamelessIsAsked
PROPERTIES
    NamesStay
    ClashesAreLate
    AnswersCloseLogin
