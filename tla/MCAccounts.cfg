\* Two e-mails, one of which may be a nickname, and three accounts in turn.
SPECIFICATION Spec
CONSTANTS
    ana = ana
    bia = bia
    nick = nick
    p1 = p1
    p2 = p2
    r1 = r1
    r2 = r2
    None = None
    Names <- MCNames
    Emails <- MCEmails
    Passwords <- MCPasswords
    Requests <- MCRequests
    TokenLife = 1
    MaxId = 3
    MaxTime = 2
    MaxTokens = 1
SYMMETRY Symmetry
INVARIANTS
    TypeOK
    TokensKeepTheirMeaning
    LoginProvesPassword
    EveryoneLogsInAsThemselves
CHECK_DEADLOCK FALSE
