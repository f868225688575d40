CONSTANTS
    adm = adm
    old = old
    ann = ann
    bob = bob
    mailAdm = mailAdm
    mailOld = mailOld
    mailAnn = mailAnn
    typedAnn = typedAnn
    typedANN = typedANN
    w1 = w1
    w2 = w2
    None = None
    Ids = {adm, old}
    Admin = adm
    Leftover = {old}
    Spellings = {}
    Normal <- MCNormal
    Emails = {mailAdm, mailOld, mailAnn}
    HomeEmail <- MCHomeEmail
    RequestIds = {}
    Workers = {w1, w2}
    MaxEvents = 3
    MaxDecided = 3
    LowerCase <- MCLowerCase
    NameOf <- MCNameOf
    AddressOf <- MCAddressOf
    Place <- MCPlace
    Queries <- MCQueries
    MinQueryLength = 2
    MaxResults = 1
SPECIFICATION Spec
PROPERTIES OnlyUnbanReactivates
CHECK_DEADLOCK FALSE
