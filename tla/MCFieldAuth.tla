----------------------------- MODULE MCFieldAuth -----------------------------
EXTENDS FieldAuth
CONSTANTS outer, inner, scope, namespace
\* A field that needs a claim, one below it that needs another, one that
\* needs only a login, and a path that two records share.
MCRecords == <<
    [type |-> "query", path |-> <<outer>>, claims |-> {scope}],
    [type |-> "mutation", path |-> <<outer, inner>>, claims |-> {scope}],
    [type |-> "mutation", path |-> <<outer, inner>>, claims |-> {namespace}],
    [type |-> "query", path |-> <<inner, outer>>, claims |-> {}] >>
=============================================================================
