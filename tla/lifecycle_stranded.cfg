SPECIFICATION Spec
CONSTANTS
    r1 = r1
    r2 = r2
    ann = ann
    eve = eve
    acme = acme
    spam = spam
    Requests = {r1, r2}
    NoRequest = NoRequest
    Grants = {g1, g2}
    Requesters = {ann, bob, eve}
    Domains = {acme, spam}
    Templates = {nda}
    Submitter <- TwoSubmitters
    DomainOf <- TwoCompanies
    RuleAction <- Ruled
    AcceptanceScope = "domain"
    Deciders = {d1}
    Readers = {h1}
    TermDays = 1
    DueDays = 1
    LinkTtl = 1
    SweepAfter = 1
    HandlersFail = FALSE
    MaxTime = 3
    MaxVersion = 2
INVARIANT
    NoStrandedGrant
