CONSTANTS
    outer = outer
    inner = inner
    scope = scope
    namespace = namespace
    Names = {outer, inner}
    Fragments = {F, G}
    Claims = {scope, namespace}
    Records <- MCRecords
    NoOne = NoOne
    MaxDepth = 2
    MaxNodes = 6
SPECIFICATION Spec
INVARIANTS
    TypeOK
    EveryReachedFieldIsAllowed
    OnlyForbiddenFieldsAreRefused
    LeadingOperationsAreAllowed
