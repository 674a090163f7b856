SPECIFICATION Spec
CONSTANTS
    Token <- MCToken
    MaxTokens = 4
    Capacity = 2
INVARIANT HistoryHoldsCommands
INVARIANT ParsesTheGrammar
INVARIANT DecisionsAreSound
PROPERTY HistoryIsAList
