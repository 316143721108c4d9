--------------------------- MODULE EmailTemplates ---------------------------
(***************************************************************************)
(* The email templates of one tenant: rows of `email_templates` laid over  *)
(* the defaults built into the server.  Listing merges the two; sending    *)
(* resolves one name, renders it and calls the mail provider, while other  *)
(* requests replace and delete rows.                                       *)
(***************************************************************************)
EXTENDS Naturals, FiniteSets, Sequences, SequencesExt

CONSTANTS
    Name,           \* template names, numbered in alphabetical order
    Builtin,        \* names of email.DefaultTemplates
    Request,        \* SendEmailWithTemplate requests in flight at the same time
    MaxVersions,    \* bound: custom definitions ever submitted
    NoTemplate

ASSUME TemplatesAssumption ==
    /\ Name \subseteq Nat /\ Name # {}
    /\ Builtin \subseteq Name /\ IsFiniteSet(Builtin)
    /\ MaxVersions \in Nat

VARIABLES
    custom,         \* the tenant's row of each name, NoTemplate if there is none
    versions,       \* definitions submitted so far; they differ in their version
    pc,             \* where each request is
    name,           \* body.Template of each request
    chosen,         \* the definition each request resolved
    window          \* definitions in effect for that name since the request began (history)

vars == <<custom, versions, pc, name, chosen, window>>

(***************************************************************************)
(* A definition: whether its text fields (subject and body) and its HTML   *)
(* field parse.  An empty HTML field is not parsed.                        *)
(***************************************************************************)
TemplateDefinition ==
    [version : 0 .. MaxVersions, text : {"parses", "broken"}, html : {"empty", "parses", "broken"}]

ASSUME NoTemplateAssumption == NoTemplate \notin TemplateDefinition

DefaultTemplate == [version |-> 0, text |-> "parses", html |-> "parses"]

Parses(def) == def.text = "parses" /\ def.html # "broken"

Init ==
    /\ custom = [n \in Name |-> NoTemplate]
    /\ versions = 0
    /\ pc = [r \in Request |-> "idle"]
    /\ name = [r \in Request |-> CHOOSE n \in Name : TRUE]
    /\ chosen = [r \in Request |-> NoTemplate]
    /\ window = [r \in Request |-> {}]

\* SELECT by tenant and name: the row, NoTemplate for pgx.ErrNoRows.
GetEmailTemplate(n) == custom[n]

\* What a name stands for: the row, or else the default.
InEffect(n) ==
    IF GetEmailTemplate(n) # NoTemplate THEN GetEmailTemplate(n)
    ELSE IF n \in Builtin THEN DefaultTemplate ELSE NoTemplate

Watch(n) ==
    window' = [r \in Request |-> IF pc[r] # "idle" /\ name[r] = n
                                 THEN window[r] \union {InEffect(n)'} ELSE window[r]]
-----------------------------------------------------------------------------
(***************************************************************************)
(* Writing: one statement each.                                            *)
(***************************************************************************)
\* INSERT ... ON CONFLICT (tenant_id, name) DO UPDATE of all three fields.
Upsert(n, def) == custom' = [custom EXCEPT ![n] = def]

\* DELETE, which is no error when there is no row.
DeleteRow(n) == custom' = [custom EXCEPT ![n] = NoTemplate]

\* Mutant: the HTML field is not validated.
ValidateText(def) == def.text = "parses"

ValidateTemplate(def) == Parses(def)

UpsertEmailTemplate(n) ==
    /\ versions < MaxVersions
    /\ versions' = versions + 1
    /\ \E def \in TemplateDefinition :
        /\ def.version = versions'
        /\ IF ValidateTemplate(def) THEN Upsert(n, def) ELSE UNCHANGED custom
    /\ Watch(n)
    /\ UNCHANGED <<pc, name, chosen>>

DeleteEmailTemplate(n) ==
    /\ DeleteRow(n)
    /\ Watch(n)
    /\ UNCHANGED <<versions, pc, name, chosen>>
-----------------------------------------------------------------------------
(***************************************************************************)
(* Listing: the defaults in the random order of a Go map, then the rows,   *)
(* in the order of the SELECT, whose names have not been seen.             *)
(***************************************************************************)
Rows == {n \in Name : custom[n] # NoTemplate}

IsAscending(s) == \A i, j \in DOMAIN s : i < j => s[i] < s[j]

\* ORDER BY name.
Ascending(S) == CHOOSE s \in SetToSeqs(S) : IsAscending(s)

\* Mutant: every row is appended, seen or not.
AppendAll(seen, rows) == rows

Unseen(seen, rows) == rows \ seen

CustomEntry(n) == [name |-> n, def |-> custom[n], custom |-> TRUE]
DefaultEntry(n) == [name |-> n, def |-> DefaultTemplate, custom |-> FALSE]

\* Mutant: the defaults are looked up first.
EntryDefaultFirst(n) == IF n \in Builtin THEN DefaultEntry(n) ELSE CustomEntry(n)

\* The list has a lookup of its own: customByName, or else DefaultTemplates,
\* one of which has every name in nameOrder.
Entry(n) == IF n \in Rows THEN CustomEntry(n) ELSE DefaultEntry(n)

ListEmailTemplates(order) ==
    LET nameOrder == order \o Ascending(Unseen(Builtin, Rows))
    IN  [i \in DOMAIN nameOrder |-> Entry(nameOrder[i])]
-----------------------------------------------------------------------------
(***************************************************************************)
(* Sending.                                                                *)
(***************************************************************************)
SendEmailWithTemplate(r, n) ==
    /\ pc[r] = "idle"
    /\ pc' = [pc EXCEPT ![r] = "resolving"]
    /\ name' = [name EXCEPT ![r] = n]
    /\ window' = [window EXCEPT ![r] = {InEffect(n)}]
    /\ UNCHANGED <<custom, versions, chosen>>

Answer(r) ==
    /\ pc' = [pc EXCEPT ![r] = "idle"]
    /\ chosen' = [chosen EXCEPT ![r] = NoTemplate]
    /\ window' = [window EXCEPT ![r] = {}]
    /\ UNCHANGED <<custom, versions, name>>

Choose(r, def) ==
    /\ chosen' = [chosen EXCEPT ![r] = def]
    /\ pc' = [pc EXCEPT ![r] = "rendering"]
    /\ UNCHANGED <<custom, versions, name, window>>

\* Mutant: any error of the query, not only pgx.ErrNoRows, means the default.
DefaultOnError(n) == IF n \in Builtin THEN DefaultTemplate ELSE NoTemplate

OnError(n) == NoTemplate

\* Mutant: a name that is neither a row nor a default resolves to nothing.
FoundAnyway(def) == TRUE

Found(def) == def # NoTemplate

\* The SELECT answers, or fails; "template not found" in the latter case too.
resolveTemplate(r) ==
    /\ pc[r] = "resolving"
    /\ \E def \in {InEffect(name[r]), OnError(name[r])} :
        IF Found(def) THEN Choose(r, def) ELSE Answer(r)

\* Executing a template that parses may still fail on its variables.
RenderTemplate(r) ==
    /\ pc[r] = "rendering"
    /\ Parses(chosen[r])
    /\ pc' = [pc EXCEPT ![r] = "sending"]
    /\ UNCHANGED <<custom, versions, name, chosen, window>>

RenderError(r) == pc[r] = "rendering" /\ Answer(r)

\* buildEmailProvider and Send, whether they succeed or not.
Send(r) == pc[r] = "sending" /\ Answer(r)

Next ==
    \/ \E n \in Name : UpsertEmailTemplate(n) \/ DeleteEmailTemplate(n)
    \/ \E r \in Request :
        \/ \E n \in Name : SendEmailWithTemplate(r, n)
        \/ resolveTemplate(r) \/ RenderTemplate(r) \/ RenderError(r) \/ Send(r)

Spec == Init /\ [][Next]_vars
-----------------------------------------------------------------------------
(***************************************************************************)
(* Type invariant.                                                         *)
(***************************************************************************)
PC == {"idle", "resolving", "rendering", "sending"}

\* Every variable stays in its type; a request past resolveTemplate has a
\* definition, and no other request has one.
TypeOK ==
    /\ custom \in [Name -> TemplateDefinition \union {NoTemplate}]
    /\ versions \in 0 .. MaxVersions
    /\ pc \in [Request -> PC]
    /\ name \in [Request -> Name]
    /\ chosen \in [Request -> TemplateDefinition \union {NoTemplate}]
    /\ window \in [Request -> SUBSET (TemplateDefinition \union {NoTemplate})]
    /\ \A r \in Request : (chosen[r] # NoTemplate) = (pc[r] \in {"rendering", "sending"})

(***************************************************************************)
(* Safety.                                                                 *)
(***************************************************************************)
\* What GET /email/templates lists is what a send would use: in whatever order
\* the defaults come, every name that resolves is listed exactly once, with
\* the definition it resolves to.  The list and resolveTemplate overlay rows on
\* defaults each in its own way.
ListedIsSent ==
    \A order \in SetToSeqs(Builtin) :
        LET list == ListEmailTemplates(order)
        IN  /\ \A i, j \in DOMAIN list : list[i].name = list[j].name => i = j
            /\ {list[i].name : i \in DOMAIN list} = {n \in Name : Found(InEffect(n))}
            /\ \A i \in DOMAIN list : list[i].def = InEffect(list[i].name)

\* A mail is rendered from a definition that was in effect for its name at some
\* time during the request: never from a default that a custom row hid all
\* along, nor from a row replaced or deleted before the request began.
SentWasInEffect == \A r \in Request : chosen[r] # NoTemplate => chosen[r] \in window[r]

\* Template syntax errors are caught "at upsert time rather than at send time":
\* what a request renders always parses.
SyntaxCaughtAtUpsert == \A r \in Request : chosen[r] # NoTemplate => Parses(chosen[r])
=============================================================================
