CONSTANTS
    adm = adm
    old = old
    ann = ann
    bob = bob
    mailAdm = mailAdm
    mailOld = mailOld
    mailAnn = mailAnn
    typedAnn = typedAnn
    typedANN = typedANN
    w1 = w1
    w2 = w2
    None = None
    Ids = {adm, old, ann, bob}
    Admin = adm
    Leftover = {old}
    Spellings = {typedAnn, typedANN}
    Normal <- MCNormal
    Emails = {mailAdm, mailOld, mailAnn}
    HomeEmail <- MCHomeEmail
    RequestIds = {q1}
    Workers = {w1, w2}
    MaxEvents = 3
    MaxDecided = 4
    LowerCase <- MCLowerCase
    NameOf <- MCNameOf
    AddressOf <- MCAddressOf
    Place <- MCPlace
    Queries <- MCQueries
    MinQueryLength = 2
    MaxResults = 1
SPECIFICATION Spec
SYMMETRY Alike
INVARIANTS TypeOK EverythingTold AuthorityHasOrigin SupportGrantsWhatWasAsked ApprovedMeansGranted EmailUnique OnlyLeftoversUndecided
CHECK_DEADLOCK FALSE
