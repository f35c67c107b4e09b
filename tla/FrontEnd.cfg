SPECIFICATION Spec
CONSTANTS
    Recipes <- Texts
    MAX_SOURCE = 22
    MAX_COLLECTED_DIAGNOSTICS = 2
INVARIANTS ParserInv Agrees TreeIsText
PROPERTY ParseAdvances
