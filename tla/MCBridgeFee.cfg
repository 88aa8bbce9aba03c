SPECIFICATION Spec
CONSTANTS
    Accounts = {o1, o2}
    NoAccount = none
    PARTS = 1000
    WORD = 4096
    TOKEN = 100
    Threshold = 5
    Prices <- MCPrices
    Coefs = {0, 1, 3, 50, 99, 100, 101}
INVARIANTS
    TypeOK
    FeeIsNoMore
    FeeIsNoTokenLess
