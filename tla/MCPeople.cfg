SPECIFICATION MCSpec
CONSTANTS
    Parts = {"mail", "reset", "move", "session", "secrets", "parser", "deleted", "drain", "twins", "others", "linked", "cleaned"}
    a1 = a1
    a2 = a2
    e1 = e1
    e2 = e2
    c1 = c1
    c2 = c2
    w1 = w1
    w2 = w2
    m1 = m1
    m2 = m2
    p = p
    q = q
    Mails = {m1, m2}
    Poison = {m2}
    Workers = {w1, w2}
    LeaseBase = 6
    LeaseCap = 12
    Doublings = 1
    Ids = {a1, a2}
    Emails = {e1, e2}
    Clients = {c1, c2}
    Ops = {}
    MaxAccounts = 0
    MaxPw = 0
    MaxVersion = 0
    MaxTokens = 0
INVARIANTS OneSender CredentialsAreCurrent ApplicantsAreCounted
PROPERTIES AccountSteps ApplicantSteps
SYMMETRY Alike
CHECK_DEADLOCK FALSE
