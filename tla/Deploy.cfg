SPECIFICATION Spec
CONSTANTS
    Ops = {op}
    MaxTokens = 3
    MaxVersions = 3
    Migrators = {m1, m2}
    Files = 2
    Threads = {t1, t2}
INVARIANTS
    SecretUsable
    NoAccountsBeforeSchema
PROPERTIES
    LevelRises
    Recovers
