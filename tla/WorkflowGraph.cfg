SPECIFICATION Spec
CONSTANTS
    sohu = sohu
    tencent = tencent
    alibaba = alibaba
    n1 = n1
    n2 = n2
    n3 = n3
    n4 = n4
    sohuMail = sohuMail
    tencentMail = tencentMail
    Companies = {sohu, tencent, alibaba}
    NoCompany = NoCompany
    Names = {n1, n2, n3, n4}
    NoName = NoName
    Domains = {sohuMail, tencentMail}
    NoDomain = NoDomain
    Personal = {sohuMail}
    Recruiting = {}
    Mails <- MCMails
    Extracted <- MCExtracted
    Catalog <- MCCatalog
    Seeds <- MCSeeds
    Applications = {a1, a2}
    Interviews = {i1, i2}
    None = None
    MaxCrashes = 1
INVARIANTS EvidenceIsAudited PersistedIsSound DoubtsAreAnswered MailboxIsNoEmployer NoQuestionTwice
PROPERTY RunEnds
CHECK_DEADLOCK FALSE
