\* One or two of everything: two staff requests and one signatory of one
\* agreement with two versions; one document, group, grant and download;
\* two uploads and one download of one file.
SPECIFICATION Spec
CONSTANTS
    Signers = {ann}
    Agreements = {nda}
    MaxVersions = 2
    Languages = {de, en}
    Launched = {de}
    Texts = {a, b}
    NoText = NoText
    Editors = {e1, e2}
    Pages = {p1}
    MaxStamp = 2
    Requesters = {ann}
    Templates = {nda}
    MaxVersion = 1
    Documents = {d1}
    Groups = {g1}
    Grants = {h1}
    Downloads = {s1}
    NoTemplate = NoTemplate
    Keys = {k1, k2, k3}
    NoKey = NoKey
    Signatures = {a1}
    Uploads = {u1, u2}
    Streams = {s1}
    MaxFileVersion = 2
    MaxPages = 1
    PageCounts = {0, 1, 2}
INVARIANTS
    TypeOK
    SignedTextStands
    NumbersNeverCollide
    ListedIsInForce
    EndIsImmediate
    ProposalCoversDelivery
    CountIsExact
    RowsHaveObjects
    ErasedKeepNoRecord
PROPERTIES
    RegisterKept
CHECK_DEADLOCK FALSE
