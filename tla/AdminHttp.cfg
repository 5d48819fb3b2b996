SPECIFICATION MCSpec
CONSTANTS
    Client <- Connections
    Requests <- RequestsOf
    FirstDocument <- First
    Rejections = {"DatasourceCandidateError", "DatasourceRenameError", "DatasourceValidationError"}
    MaxBody = 1
    QueueCapacity = 2
    MaxRevision = 2
    MaxSupply = 6
    MaxDepth = 6
    MaxEdits = 1
INVARIANTS AnswersAndAuditAgree ServedIsRenderable
PROPERTIES IdentityKept
CHECK_DEADLOCK FALSE
