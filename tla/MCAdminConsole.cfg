\* One tab, two calls under way at once, two pairs of tokens.
SPECIFICATION ConsoleSpec
CONSTANTS
    NoToken = NoToken
    NoUser = NoUser
    Users = {u1, u2}
    Slots = {s1, s2}
    MaxTokens = 2
    MaxOpen = 2
SYMMETRY Symmetry
INVARIANTS
    BusyMeansWaiting
    AnswersFindTheirForm
PROPERTIES
    PresentedOnce
