SPECIFICATION RSpec
CONSTANTS
    Requests <- SmallRequests
    HandlerSets <- SmallHandlerSets
    MaxData = 2
    NoText = NoText
    Offered <- SmallData
    DevIds = {1, 2}
    GroupTags = {1}
    MaxCalls = 6
    Queries <- SmallQueries
    Objects <- SmallObjects
    Reported <- SmallObjects
INVARIANTS
    BodiesInv
    DueIsHandled
    OnceInOrder
    EndAfterRow
    ReportsLastResult
    AnswerToQuery
    ReportOfControl
PROPERTIES
    BodyIsLog
    RequestsAreAnswered
CHECK_DEADLOCK FALSE
