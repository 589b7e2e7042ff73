SPECIFICATION Spec
CONSTANTS
    r1 = r1
    r2 = r2
    ann = ann
    eve = eve
    acme = acme
    spam = spam
    Requests = {r1}
    NoRequest = NoRequest
    Grants = {g1, g2}
    Requesters = {ann}
    Domains = {acme}
    Templates = {nda}
    Submitter <- OneSubmitter
    DomainOf <- OneCompany
    RuleAction <- Reviewed
    AcceptanceScope = "person"
    Deciders = {d1, d2}
    Readers = {h1}
    TermDays = 2
    DueDays = 2
    LinkTtl = 1
    SweepAfter = 1
    HandlersFail = TRUE
    MaxTime = 3
    MaxVersion = 1
PROPERTY
    ClosedNeverStarts
