------------------------------ MODULE FieldAuth ------------------------------
(***************************************************************************)
(* RequiresAuthValidationRule: before a GraphQL document runs, a listener  *)
(* walks it once and keeps the path of the field it is in; a sink corrects *)
(* that path inside fragment definitions; the rule looks the path up in    *)
(* the field authority and reports the fields the caller may not have.     *)
(*                                                                         *)
(* External: the parser, which delivers the nodes of the document in order *)
(* (here chosen one at a time), and the executer, which runs a document    *)
(* only when no rule reported an error or threw.  Aliases and inline       *)
(* fragments do not show in a path: the listener ignores both.             *)
(***************************************************************************)
EXTENDS Naturals, SequencesExt

CONSTANTS
    Names,          \* field names
    Fragments,      \* fragment names
    Claims,         \* claims, each a type with its value
    Records,        \* settings: sequence of [type, path, claims]
    NoOne,          \* neither a container nor a path
    MaxDepth,       \* bound: nesting of fields
    MaxNodes        \* bound: nodes of a document

OperationTypes == {"query", "mutation"}

ASSUME RecordsAssumption ==
    Records \in Seq([type : OperationTypes, path : Seq(Names),
                     claims : SUBSET Claims])
\* A container is told from no container, and a fragment from an operation,
\* which is named by its place in the document.
ASSUME NamesAssumption ==
    /\ NoOne \notin Fragments /\ NoOne \notin Nat /\ NoOne \notin Seq(Names)
    /\ \A f \in Fragments : f \notin Nat
ASSUME BoundsAssumption == MaxDepth \in Nat /\ MaxNodes \in Nat

VARIABLES
    caller,         \* HttpContext.User: [authenticated, claims]
    type,           \* the listener's OperationType
    running,        \* the top of the listener's RunningPath, as field names
    open,           \* the parser's: the fields entered and not left
    fragmentMap,    \* fragment -> the paths of its spreads not yet claimed
    root,           \* path of CurrentFragmentDefinitionRoot, or NoOne
    errors,         \* what the rule reported: pairs <<operation type, path>>
    verdict,        \* "reading", "run", "refused" or "threw"
    home,           \* history: the definition being read
    nodes           \* history: the fields, spreads and operations read

vars == <<caller, type, running, open, fragmentMap, root, errors, verdict,
          home, nodes>>

Init ==
    /\ caller \in [authenticated : BOOLEAN, claims : SUBSET Claims]
    /\ ~caller.authenticated => caller.claims = {}
    /\ type = "query"
    /\ running = <<>>
    /\ open = <<>>
    /\ fragmentMap = [f \in Fragments |-> <<>>]
    /\ root = NoOne
    /\ errors = {}
    /\ verdict = "reading"
    /\ home = NoOne
    /\ nodes = <<>>

(***************************************************************************)
(* The authority.  Records of the same type and path are merged, and a     *)
(* path is looked up as a whole.                                           *)
(***************************************************************************)
Matching(t, path) == {i \in DOMAIN Records : Records[i].type = t /\ Records[i].path = path}

Found(t, path) == Matching(t, path) # {}

RequiredClaims(t, path) == UNION {Records[i].claims : i \in Matching(t, path)}

\* Mutant: one of the required claims is enough.
CanAccessWithAny(t, path) ==
    /\ Found(t, path) => caller.authenticated
    /\ \/ RequiredClaims(t, path) = {}
       \/ RequiredClaims(t, path) \cap caller.claims # {}

\* Every required claim is one of the user's.
CanAccess(t, path) ==
    /\ Found(t, path) => caller.authenticated
    /\ RequiredClaims(t, path) \subseteq caller.claims

-----------------------------------------------------------------------------
(***************************************************************************)
(* The walk: one action per kind of node entered or left.                  *)
(***************************************************************************)
Reads(node) == nodes' = Append(nodes, node)

Reading == verdict = "reading" /\ Len(nodes) < MaxNodes

\* Mutant: the sink leaves the path as the listener has it.
ListenersPath(path) == path

\* The sink prefixes the path while CurrentFragmentDefinitionRoot is set:
\* it is never set back.
CurrentFieldPath(path) == IF root = NoOne THEN path ELSE root \o path

\* Mutant: the operation is pushed on the path like a field.
EnterOperationPushes(t) ==
    /\ Reading
    /\ open = <<>>
    /\ home' = Len(nodes) + 1
    /\ Reads([kind |-> "operation", home |-> home', type |-> t, path |-> <<>>])
    /\ type' = t
    /\ running' = <<NoOne>>
    /\ errors' = IF t = "mutation" /\ ~caller.authenticated
                 THEN errors \cup {<<t, <<>>>>} ELSE errors
    /\ UNCHANGED <<caller, open, fragmentMap, root, verdict>>

EnterOperation(t) ==
    /\ Reading
    /\ open = <<>>                      \* between definitions
    /\ home' = Len(nodes) + 1
    /\ Reads([kind |-> "operation", home |-> home', type |-> t, path |-> <<>>])
    /\ type' = t
    /\ running' = <<>>
    /\ errors' = IF t = "mutation" /\ ~caller.authenticated
                 THEN errors \cup {<<t, <<>>>>} ELSE errors
    /\ UNCHANGED <<caller, open, fragmentMap, root, verdict>>

EnterField(name) ==
    /\ Reading
    /\ home # NoOne
    /\ Len(open) < MaxDepth
    /\ open' = Append(open, name)
    /\ running' = Append(running, name)
    /\ LET path == CurrentFieldPath(running') IN
       errors' = IF CanAccess(type, path) THEN errors
                 ELSE errors \cup {<<type, path>>}
    /\ Reads([kind |-> "field", home |-> home, type |-> type, path |-> open'])
    /\ UNCHANGED <<caller, type, fragmentMap, root, verdict, home>>

\* Mutant: Leave does not pop the path.
LeaveFieldStays ==
    /\ verdict = "reading"
    /\ open # <<>>
    /\ open' = Front(open)
    /\ UNCHANGED <<caller, type, running, fragmentMap, root, errors, verdict, home, nodes>>

LeaveField ==
    /\ verdict = "reading"
    /\ open # <<>>
    /\ open' = Front(open)
    /\ running' = Front(running)
    /\ UNCHANGED <<caller, type, fragmentMap, root, errors, verdict, home, nodes>>

\* The path is the listener's: the sink does not prefix it.
EnterSpread(f) ==
    /\ Reading
    /\ home # NoOne
    /\ fragmentMap' = [fragmentMap EXCEPT ![f] = Append(@, running)]
    /\ Reads([kind |-> "spread", home |-> home, type |-> f, path |-> open])
    /\ UNCHANGED <<caller, type, running, open, root, errors, verdict, home>>

\* SafeFragmentMapPop takes the last spread; the others are dropped.
EnterFragment(f) ==
    /\ Reading
    /\ open = <<>>
    /\ \A i \in DOMAIN nodes : nodes[i].home # f
    /\ home' = f
    /\ Reads([kind |-> "fragment", home |-> f, type |-> f, path |-> <<>>])
    /\ IF fragmentMap[f] = <<>>
       THEN /\ verdict' = "threw"
            /\ UNCHANGED <<root, fragmentMap>>
       ELSE /\ root' = Last(fragmentMap[f])
            /\ fragmentMap' = [fragmentMap EXCEPT ![f] = <<>>]
            /\ UNCHANGED verdict
    /\ UNCHANGED <<caller, type, running, open, errors>>

\* The executer, after the last node.
Execute ==
    /\ verdict = "reading"
    /\ open = <<>>
    /\ home # NoOne
    /\ verdict' = IF errors = {} THEN "run" ELSE "refused"
    /\ UNCHANGED <<caller, type, running, open, fragmentMap, root, errors, home, nodes>>

Done ==
    /\ verdict # "reading"
    /\ UNCHANGED vars

Next ==
    \/ \E t \in OperationTypes : EnterOperation(t)
    \/ \E name \in Names : EnterField(name)
    \/ LeaveField
    \/ \E f \in Fragments : EnterSpread(f) \/ EnterFragment(f)
    \/ Execute
    \/ Done

Spec == Init /\ [][Next]_vars

-----------------------------------------------------------------------------
(***************************************************************************)
(* What a document means, from its text alone.                             *)
(***************************************************************************)
Of(kind) == {i \in DOMAIN nodes : nodes[i].kind = kind}

\* Documents whose meaning the walk can follow: operations of one type, all
\* before the fragments, each fragment spread once, by an operation.
Plain ==
    /\ \A i, j \in Of("operation") : nodes[i].type = nodes[j].type
    /\ \A i \in Of("operation"), j \in Of("fragment") : i < j
    /\ \A i \in Of("spread") : nodes[i].home \notin Fragments
    /\ \A i, j \in Of("spread") : nodes[i].type = nodes[j].type => i = j
    /\ \A i \in Of("fragment") : \E j \in Of("spread") : nodes[j].type = nodes[i].home

\* The operation types and the full paths at which the executer reaches a
\* field of a plain document.
FieldsOf(definition) == {i \in Of("field") : nodes[i].home = definition}
Reached ==
    {<<nodes[i].type, nodes[i].path>> : i \in {k \in Of("field") : nodes[k].home \notin Fragments}}
    \cup
    UNION {{<<nodes[nodes[s].home].type, nodes[s].path \o nodes[i].path>> :
               i \in FieldsOf(nodes[s].type)} : s \in Of("spread")}

\* What the settings ask of a caller: every record of the type and the path
\* is met, and a mutation is never anonymous.
Allowed(t, path) ==
    /\ t = "mutation" => caller.authenticated
    /\ \A i \in DOMAIN Records :
          Records[i].type = t /\ Records[i].path = path =>
              caller.authenticated /\ Records[i].claims \subseteq caller.claims

-----------------------------------------------------------------------------
\* The types of the variables.
Homes == {NoOne} \cup Fragments \cup 1 .. MaxNodes
Nodes == [kind : {"operation", "field", "spread", "fragment"}, home : Homes,
          type : OperationTypes \cup Fragments, path : Seq(Names)]

TypeOK ==
    /\ caller \in [authenticated : BOOLEAN, claims : SUBSET Claims]
    /\ type \in OperationTypes
    /\ running \in Seq(Names)
    /\ open \in Seq(Names)
    /\ fragmentMap \in [Fragments -> Seq(Seq(Names))]
    /\ root \in Seq(Names) \cup {NoOne}
    /\ errors \subseteq OperationTypes \X Seq(Names)
    /\ verdict \in {"reading", "run", "refused", "threw"}
    /\ home \in Homes
    /\ nodes \in Seq(Nodes)

\* A plain document runs only when its caller may have every field the
\* executer will reach, at the path where it reaches it: also the fields of a
\* fragment that is defined after the field that spreads it.
EveryReachedFieldIsAllowed ==
    verdict = "run" /\ Plain => \A r \in Reached : Allowed(r[1], r[2])

\* A plain document is refused only for a field or an operation that the
\* caller may not have, and the rule never throws on it.
OnlyForbiddenFieldsAreRefused ==
    Plain =>
        /\ verdict # "threw"
        /\ verdict = "refused" =>
            \/ \E r \in Reached : ~Allowed(r[1], r[2])
            \/ \E i \in Of("operation") :
                  nodes[i].type = "mutation" /\ ~caller.authenticated

\* Whatever the document does with fragments, an operation that comes before
\* the first of them is checked in full when the document runs: its own
\* fields, at every depth, and the login of a mutation.
Leading(i) == \A j \in Of("fragment") : i < j

AllowedAt(i) ==
    CASE nodes[i].kind = "operation" -> nodes[i].type = "mutation" => caller.authenticated
      [] nodes[i].kind = "field"     -> Allowed(nodes[i].type, nodes[i].path)
      [] OTHER                       -> TRUE

LeadingOperationsAreAllowed ==
    verdict = "run" => \A i \in DOMAIN nodes : Leading(i) => AllowedAt(i)
=============================================================================
