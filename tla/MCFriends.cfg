SPECIFICATION FriendsSpec
CONSTANTS
    a = a
    b = b
    c = c
    None = None
    n1 = n1
    n2 = n2
    n3 = n3
    Unnamed = Unnamed
    Names <- MCNames
    NamesThen <- MCNamesThen
    Users <- MCUsers
    Lists <- MCLists
    Searches <- MCSearches
INVARIANTS
    FriendsInv
PROPERTIES
    AddsNewFriends
    CombineStaysInRange
\* A crash is the end.
CHECK_DEADLOCK FALSE
