SPECIFICATION Spec
CONSTANTS
    Accounts = {0, 1}
    NoAccount = NoAccount
    WipeMayFail = FALSE
    MaxConns = 2
    MaxQueue = 4
PROPERTIES RemovalWipes
