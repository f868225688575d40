CONSTANTS
    adm = adm
    old = old
    ann = ann
    bob = bob
    mailAdm = mailAdm
    mailOld = mailOld
    mailAnn = mailAnn
    typedAnn = typedAnn
    typedANN = typedANN
    w1 = w1
    w2 = w2
    None = None
    Ids = {adm, old, ann}
    Admin = adm
    Leftover = {old}
    Spellings = {typedAnn}
    Normal <- MCNormal
    Emails = {mailAdm, mailOld, mailAnn}
    HomeEmail <- MCHomeEmail
    RequestIds = {q1}
    Workers = {w1}
    MaxEvents = 4
    MaxDecided = 4
    LowerCase <- MCLowerCase
    NameOf <- MCNameOf
    AddressOf <- MCAddressOf
    Place <- MCPlace
    Queries <- MCQueries
    MinQueryLength = 2
    MaxResults = 1
SPECIFICATION Spec
INVARIANTS ReplayIsTable SuggestionsHold
PROPERTIES LifecycleSpec
CHECK_DEADLOCK FALSE
