\* One staff request and one signatory of one version.
SPECIFICATION VersionsSpec
CONSTANTS
    Signers = {ann}
    Agreements = {nda}
    MaxVersions = 1
    Languages = {de}
    Launched = {de}
    Texts = {a, b}
    NoText = NoText
    Editors = {e1}
    Pages = {p1}
    MaxStamp = 1
INVARIANT SignedTextNeverChanges
CHECK_DEADLOCK FALSE
