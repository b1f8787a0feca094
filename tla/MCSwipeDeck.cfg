SPECIFICATION DeckFairSpec
CONSTANTS
    Movies = {m1, m2}
    None = None
    Decks <- MCDecks
    AccountLists <- MCAccountLists
    Swipes = {"excluded", "skipped"}
INVARIANTS
    DeckInv
PROPERTIES
    OneVerdictPerCard
    ButtonsRecover
