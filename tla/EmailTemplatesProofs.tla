------------------------ MODULE EmailTemplatesProofs ------------------------
(***************************************************************************)
(* Theorems about EmailTemplates, for any number of names, requests and    *)
(* versions.                                                               *)
(***************************************************************************)
EXTENDS EmailTemplates, FiniteSetTheorems, TLAPS

\* Only definitions that parse are stored.
StoredParses == \A n \in Name : custom[n] # NoTemplate => Parses(custom[n])

\* A request's window holds what is in effect for its name now.
WindowInv == \A r \in Request : pc[r] # "idle" => InEffect(name[r]) \in window[r]

TemplatesInv == TypeOK /\ StoredParses /\ WindowInv /\ SentWasInEffect /\ SyntaxCaughtAtUpsert

\* The SELECT answers a list that ends, even of infinitely many names.
FinitelyManyRows == IsFiniteSet(Rows)
-----------------------------------------------------------------------------
(***************************************************************************)
(* Listing.  A set of names that is finite can be listed, and in order.    *)
(***************************************************************************)
\* A listing of a finite set is a sequence that holds each element once.
LEMMA ListingHoldsEachOnce ==
    ASSUME NEW S, IsFiniteSet(S), NEW s \in SetToSeqs(S)
    PROVE  /\ s \in Seq(S) /\ Len(s) = Cardinality(S) /\ DOMAIN s = 1 .. Len(s)
           /\ \A i, j \in DOMAIN s : s[i] = s[j] => i = j
           /\ \A x \in S : \E i \in DOMAIN s : s[i] = x
<1> DEFINE D == 1 .. Cardinality(S)
<1>1. Cardinality(S) \in Nat
  BY FS_CardinalityType
<1>2. s \in [D -> S] /\ \A i, j \in D : s[i] = s[j] => i = j
  BY DEF SetToSeqs
<1>3. s \in Seq(S) /\ Len(s) = Cardinality(S) /\ DOMAIN s = D
  BY <1>1, <1>2
<1>4. s \in Injection(D, S)
  BY <1>2 DEF Injection, IsInjective
<1>5. Cardinality(D) = Cardinality(S)
  BY <1>1, FS_Interval
<1>6. s \in Surjection(D, S)
  BY <1>4, <1>5, FS_Injection
<1> QED BY <1>2, <1>3, <1>6 DEF Surjection

\* A finite set of numbers has a listing in ascending order: each element at
\* the place that counts the elements up to it.
LEMMA AscendingListing ==
    ASSUME NEW S \in SUBSET Nat, IsFiniteSet(S)
    PROVE  Ascending(S) \in SetToSeqs(S) /\ IsAscending(Ascending(S))
<1> DEFINE c == Cardinality(S)
           UpTo(x) == {y \in S : y <= x}
           rank == [x \in S |-> Cardinality(UpTo(x))]
<1>1. c \in Nat
  BY FS_CardinalityType
<1>2. \A x \in S : IsFiniteSet(UpTo(x)) /\ Cardinality(UpTo(x)) \in Nat /\ Cardinality(UpTo(x)) <= c
  <2> TAKE x \in S
  <2>1. UpTo(x) \in SUBSET S
    OBVIOUS
  <2> QED BY <2>1, FS_Subset, FS_CardinalityType
<1>3. \A x, y \in S : x < y => rank[x] < rank[y]
  <2> SUFFICES ASSUME NEW x \in S, NEW y \in S, x < y
               PROVE  Cardinality(UpTo(x)) < Cardinality(UpTo(y))
    OBVIOUS
  <2>0. x \in Nat /\ y \in Nat /\ \A z \in S : z \in Nat /\ (z <= x => z <= y)
    OBVIOUS
  <2>1. UpTo(x) \in SUBSET UpTo(y) /\ y \in UpTo(y) /\ y \notin UpTo(x)
    <3>1. UpTo(x) \subseteq UpTo(y)
      BY <2>0
    <3>2. y \in UpTo(y) /\ y \notin UpTo(x)
      BY <2>0
    <3> QED BY <3>1, <3>2
  <2>2. UpTo(x) # UpTo(y)
    BY <2>1
  <2> HIDE DEF UpTo
  <2> QED BY <1>2, <2>1, <2>2, FS_Subset
<1>4. \A x \in S : rank[x] \in 1 .. c
  <2> SUFFICES ASSUME NEW x \in S PROVE Cardinality(UpTo(x)) \in 1 .. c
    OBVIOUS
  <2>1. x \in UpTo(x)
    OBVIOUS
  <2>2. Cardinality(UpTo(x)) # 0
    <3> HIDE DEF UpTo
    <3> QED BY <1>2, <2>1, FS_EmptySet
  <2> QED BY <1>1, <1>2, <2>2
<1>5. rank \in Injection(S, 1 .. c)
  <2>1. \A x, y \in S : rank[x] = rank[y] => x = y
    <3> SUFFICES ASSUME NEW x \in S, NEW y \in S, rank[x] = rank[y] PROVE x = y
      OBVIOUS
    <3>1. x \in Nat /\ y \in Nat /\ rank[x] \in Nat
      BY <1>4
    <3>2. ~(x < y) /\ ~(y < x)
      <4> HIDE DEF rank
      <4> QED BY <1>3, <3>1
    <3> QED BY <3>1, <3>2
  <2> QED BY <1>4, <2>1 DEF Injection, IsInjective
<1>6. rank \in Surjection(S, 1 .. c)
  <2>1. IsFiniteSet(1 .. c) /\ Cardinality(1 .. c) = c
    BY <1>1, FS_Interval
  <2> HIDE DEF rank
  <2> QED BY <1>5, <2>1, FS_Injection
<1> DEFINE s == [i \in 1 .. c |-> CHOOSE x \in S : rank[x] = i]
<1> HIDE DEF rank
<1>7. \A i \in 1 .. c : s[i] \in S /\ rank[s[i]] = i
  BY <1>6 DEF Surjection
<1>8. s \in SetToSeqs(S)
  BY <1>7 DEF SetToSeqs
<1>9. s \in Seq(S) /\ Len(s) = c
  BY <1>1, <1>7
<1>10. \A i, j \in 1 .. c : i < j => s[i] < s[j]
  <2> SUFFICES ASSUME NEW i \in 1 .. c, NEW j \in 1 .. c, i < j PROVE s[i] < s[j]
    OBVIOUS
  <2> HIDE DEF s
  <2>1. s[i] \in S /\ s[j] \in S /\ rank[s[i]] = i /\ rank[s[j]] = j
    BY <1>7
  <2>2. ~(s[j] < s[i]) /\ s[i] # s[j]
    <3>1. i \in Nat /\ j \in Nat /\ ~(j < i) /\ i # j
      BY <1>1
    <3>2. s[j] < s[i] => j < i
      BY <1>3, <2>1
    <3> QED BY <2>1, <3>1, <3>2
  <2>3. s[i] \in Nat /\ s[j] \in Nat
    BY <2>1
  <2> QED BY <2>2, <2>3
<1>11. IsAscending(s)
  BY <1>9, <1>10 DEF IsAscending
<1> QED BY <1>8, <1>11 DEF Ascending

\* For a name that is a row's or a default's, the lookup of the list finds what
\* that of resolveTemplate does.
LEMMA ListedAsResolved ==
    ASSUME NEW n \in Builtin \union Rows
    PROVE  Entry(n).name = n /\ Entry(n).def = InEffect(n)
<1>1. CASE n \in Rows
  BY <1>1 DEF Entry, CustomEntry, InEffect, GetEmailTemplate, Rows
<1>2. CASE n \in Builtin \ Rows
  BY <1>2, TemplatesAssumption DEF Entry, DefaultEntry, InEffect, GetEmailTemplate, Rows
<1> QED BY <1>1, <1>2

\* Of finitely many rows, what GET /email/templates lists is what a send
\* would use.
LEMMA ListsWhatIsInEffect ==
    ASSUME FinitelyManyRows PROVE ListedIsSent
<1> DEFINE unseen == Unseen(Builtin, Rows)
           rows == Ascending(unseen)
<1>1. unseen \in SUBSET Nat /\ IsFiniteSet(unseen)
  <2>1. unseen \in SUBSET Rows
    BY DEF Unseen
  <2>2. IsFiniteSet(unseen)
    BY <2>1, FS_Subset DEF FinitelyManyRows
  <2>3. Rows \in SUBSET Nat
    BY TemplatesAssumption DEF Rows
  <2> QED BY <2>1, <2>2, <2>3
<1>2. rows \in SetToSeqs(unseen)
  BY <1>1, AscendingListing
<1> HIDE DEF rows
<1>3. /\ rows \in Seq(unseen) /\ DOMAIN rows = 1 .. Len(rows)
      /\ \A i, j \in DOMAIN rows : rows[i] = rows[j] => i = j
      /\ \A n \in unseen : \E i \in DOMAIN rows : rows[i] = n
  BY <1>1, <1>2, ListingHoldsEachOnce
<1> SUFFICES ASSUME NEW order \in SetToSeqs(Builtin)
             PROVE  LET list == ListEmailTemplates(order)
                    IN  /\ \A i, j \in DOMAIN list : list[i].name = list[j].name => i = j
                        /\ {list[i].name : i \in DOMAIN list} = {n \in Name : Found(InEffect(n))}
                        /\ \A i \in DOMAIN list : list[i].def = InEffect(list[i].name)
  BY DEF ListedIsSent
<1>4. /\ order \in Seq(Builtin) /\ DOMAIN order = 1 .. Len(order)
      /\ \A i, j \in DOMAIN order : order[i] = order[j] => i = j
      /\ \A n \in Builtin : \E i \in DOMAIN order : order[i] = n
  BY TemplatesAssumption, ListingHoldsEachOnce
<1> DEFINE nameOrder == order \o rows
           k == Len(order)
<1>5. /\ k \in Nat /\ Len(rows) \in Nat
      /\ DOMAIN nameOrder = 1 .. k + Len(rows)
      /\ \A i \in 1 .. k : nameOrder[i] = order[i] /\ order[i] \in Builtin
      /\ \A i \in 1 .. Len(rows) : nameOrder[k + i] = rows[i] /\ rows[i] \in unseen
  BY <1>3, <1>4
<1> HIDE DEF nameOrder, k
<1>6. \A n \in unseen : n \notin Builtin /\ n \in Rows
  BY DEF Unseen
<1>7. \A i \in DOMAIN nameOrder :
        \/ i \in 1 .. k
        \/ i - k \in 1 .. Len(rows) /\ i = k + (i - k)
  BY <1>5
<1>8. \A i, j \in DOMAIN nameOrder : nameOrder[i] = nameOrder[j] => i = j
  <2> SUFFICES ASSUME NEW i \in DOMAIN nameOrder, NEW j \in DOMAIN nameOrder, nameOrder[i] = nameOrder[j]
               PROVE  i = j
    OBVIOUS
  <2>1. CASE i \in 1 .. k /\ j \in 1 .. k
    BY <1>4, <1>5, <2>1 DEF k
  <2>2. CASE i - k \in 1 .. Len(rows) /\ j - k \in 1 .. Len(rows)
    <3>1. rows[i - k] = rows[j - k]
      BY <1>5, <1>7, <2>2
    <3>2. i - k = j - k
      BY <1>3, <2>2, <3>1
    <3> QED BY <1>5, <2>2, <3>2
  <2>3. CASE i \in 1 .. k /\ j - k \in 1 .. Len(rows)
    BY <1>5, <1>6, <1>7, <2>3
  <2>4. CASE j \in 1 .. k /\ i - k \in 1 .. Len(rows)
    BY <1>5, <1>6, <1>7, <2>4
  <2> QED BY <1>7, <2>1, <2>2, <2>3, <2>4
<1>9. {nameOrder[i] : i \in DOMAIN nameOrder} = {n \in Name : Found(InEffect(n))}
  <2>1. \A i \in DOMAIN nameOrder : nameOrder[i] \in Builtin \union Rows
    BY <1>5, <1>6, <1>7
  <2>2. \A n \in Builtin \union Rows : \E i \in DOMAIN nameOrder : nameOrder[i] = n
    <3>1. ASSUME NEW n \in Builtin
          PROVE  \E i \in DOMAIN nameOrder : nameOrder[i] = n
      <4>1. PICK i \in 1 .. k : order[i] = n
        BY <1>4 DEF k
      <4>2. i \in DOMAIN nameOrder /\ nameOrder[i] = n
        BY <1>5, <4>1
      <4> QED BY <4>2
    <3>2. ASSUME NEW n \in Rows \ Builtin
          PROVE  \E i \in DOMAIN nameOrder : nameOrder[i] = n
      <4>1. PICK i \in 1 .. Len(rows) : rows[i] = n
        BY <1>3 DEF Unseen
      <4> QED BY <1>5, <4>1
    <3> QED BY <3>1, <3>2
  <2>3. {n \in Name : Found(InEffect(n))} = Builtin \union Rows
    <3>1. DefaultTemplate # NoTemplate
      BY NoTemplateAssumption, TemplatesAssumption DEF DefaultTemplate, TemplateDefinition
    <3> QED BY <3>1, TemplatesAssumption DEF Found, InEffect, GetEmailTemplate, Rows
  <2> QED BY <2>1, <2>2, <2>3
<1>10. ListEmailTemplates(order) = [i \in DOMAIN nameOrder |-> Entry(nameOrder[i])]
  BY DEF ListEmailTemplates, nameOrder, rows
<1>11. \A i \in DOMAIN nameOrder :
         /\ ListEmailTemplates(order)[i].name = nameOrder[i]
         /\ ListEmailTemplates(order)[i].def = InEffect(nameOrder[i])
  <2> TAKE i \in DOMAIN nameOrder
  <2>1. nameOrder[i] \in Builtin \union Rows
    BY <1>5, <1>6, <1>7
  <2>2. /\ Entry(nameOrder[i]).name = nameOrder[i]
        /\ Entry(nameOrder[i]).def = InEffect(nameOrder[i])
    BY <2>1, ListedAsResolved
  <2> QED BY <1>10, <2>2
<1>12. DOMAIN ListEmailTemplates(order) = DOMAIN nameOrder
  BY <1>10
<1> QED BY <1>8, <1>9, <1>11, <1>12
-----------------------------------------------------------------------------
\* What a name stands for is a definition, or none; if one, it parses.
LEMMA InEffectType ==
    ASSUME NEW n \in Name, custom \in [Name -> TemplateDefinition \union {NoTemplate}]
    PROVE  /\ InEffect(n) \in TemplateDefinition \union {NoTemplate}
           /\ StoredParses /\ InEffect(n) # NoTemplate => Parses(InEffect(n))
<1>1. DefaultTemplate \in TemplateDefinition
  BY TemplatesAssumption DEF DefaultTemplate, TemplateDefinition
<1>2. Parses(DefaultTemplate)
  BY DEF DefaultTemplate, Parses
<1> QED BY <1>1, <1>2 DEF InEffect, GetEmailTemplate, StoredParses

\* The invariant holds at first.
LEMMA InitTemplates == Init => TemplatesInv
<1> SUFFICES ASSUME Init PROVE TemplatesInv OBVIOUS
<1>1. TypeOK
  <2>1. (CHOOSE n \in Name : TRUE) \in Name
    BY TemplatesAssumption
  <2>2. /\ custom \in [Name -> TemplateDefinition \union {NoTemplate}]
        /\ chosen \in [Request -> TemplateDefinition \union {NoTemplate}]
        /\ window \in [Request -> SUBSET (TemplateDefinition \union {NoTemplate})]
    BY DEF Init
  <2>3. pc \in [Request -> PC] /\ name \in [Request -> Name] /\ versions \in 0 .. MaxVersions
    BY <2>1, TemplatesAssumption DEF Init, PC
  <2>4. \A r \in Request : chosen[r] = NoTemplate /\ pc[r] \notin {"rendering", "sending"}
    BY DEF Init
  <2> QED BY <2>2, <2>3, <2>4 DEF TypeOK
<1> QED BY <1>1 DEF Init, TemplatesInv, StoredParses, WindowInv, SentWasInEffect, SyntaxCaughtAtUpsert

\* Rows change, and every request's window takes note.
LEMMA WriteStep ==
    ASSUME TemplatesInv, NEW n \in Name, NEW def \in TemplateDefinition \union {NoTemplate},
           custom' = [custom EXCEPT ![n] = def] \/ custom' = custom,
           custom' # custom /\ def # NoTemplate => Parses(def),
           versions' \in 0 .. MaxVersions,
           Watch(n), UNCHANGED <<pc, name, chosen>>
    PROVE  TemplatesInv'
<1>1. TypeOK /\ StoredParses /\ WindowInv /\ SentWasInEffect /\ SyntaxCaughtAtUpsert
  BY DEF TemplatesInv
<1>2. custom' \in [Name -> TemplateDefinition \union {NoTemplate}]
  BY <1>1 DEF TypeOK
<1>3. \A m \in Name : custom'[m] = custom[m] \/ (m = n /\ custom' # custom /\ custom'[m] = def)
  BY <1>1 DEF TypeOK
<1>4. \A m \in Name \ {n} : InEffect(m)' = InEffect(m)
  BY <1>3 DEF InEffect, GetEmailTemplate
<1>5. InEffect(n)' \in TemplateDefinition \union {NoTemplate}
  <2>1. DefaultTemplate \in TemplateDefinition
    BY TemplatesAssumption DEF DefaultTemplate, TemplateDefinition
  <2> QED BY <1>2, <2>1 DEF InEffect, GetEmailTemplate
<1>6. \A r \in Request : window[r] \subseteq window'[r]
  BY DEF Watch
<1>7. TypeOK'
  <2>1. window' \in [Request -> SUBSET (TemplateDefinition \union {NoTemplate})]
    BY <1>1, <1>5 DEF TypeOK, Watch
  <2> QED BY <1>1, <1>2, <2>1 DEF TypeOK
<1>8. StoredParses'
  BY <1>1, <1>3 DEF StoredParses
<1>9. WindowInv'
  <2> SUFFICES ASSUME NEW r \in Request, pc[r] # "idle"
               PROVE  InEffect(name[r])' \in window'[r]
    BY DEF WindowInv
  <2>1. CASE name[r] = n
    BY <2>1 DEF Watch
  <2>2. CASE name[r] # n
    <3>1. name[r] \in Name \ {n}
      BY <1>1, <2>2 DEF TypeOK
    <3>2. InEffect(name[r])' = InEffect(name[r])
      BY <3>1, <1>4
    <3> QED BY <1>1, <1>6, <3>2 DEF WindowInv
  <2> QED BY <2>1, <2>2
<1>10. SentWasInEffect' /\ SyntaxCaughtAtUpsert'
  BY <1>1, <1>6 DEF SentWasInEffect, SyntaxCaughtAtUpsert
<1> QED BY <1>7, <1>8, <1>9, <1>10 DEF TemplatesInv

\* A request answers, whatever it answers.
LEMMA AnswerStep ==
    ASSUME TemplatesInv, NEW r \in Request, Answer(r)
    PROVE  TemplatesInv'
<1>1. TypeOK /\ StoredParses /\ WindowInv /\ SentWasInEffect /\ SyntaxCaughtAtUpsert
  BY DEF TemplatesInv
<1>2. TypeOK'
  BY <1>1 DEF TypeOK, Answer, PC
<1>3. WindowInv'
  BY <1>1 DEF TypeOK, Answer, WindowInv, InEffect, GetEmailTemplate
<1>4. StoredParses' /\ SentWasInEffect' /\ SyntaxCaughtAtUpsert'
  BY <1>1 DEF TypeOK, Answer, StoredParses, SentWasInEffect, SyntaxCaughtAtUpsert
<1> QED BY <1>2, <1>3, <1>4 DEF TemplatesInv

\* A request begins: its window opens with what is in effect.
LEMMA BeginStep ==
    ASSUME TemplatesInv, NEW r \in Request, NEW n \in Name, SendEmailWithTemplate(r, n)
    PROVE  TemplatesInv'
<1>1. TypeOK /\ StoredParses /\ WindowInv /\ SentWasInEffect /\ SyntaxCaughtAtUpsert
  BY DEF TemplatesInv
<1>2. InEffect(n) \in TemplateDefinition \union {NoTemplate}
  BY <1>1, InEffectType DEF TypeOK
<1>3. TypeOK'
  BY <1>1, <1>2 DEF TypeOK, SendEmailWithTemplate, PC
<1>4. chosen[r] = NoTemplate
  BY <1>1 DEF TypeOK, SendEmailWithTemplate
<1>5. /\ window'[r] = {InEffect(n)} /\ name'[r] = n /\ custom' = custom /\ chosen' = chosen
      /\ \A s \in Request \ {r} : pc'[s] = pc[s] /\ name'[s] = name[s] /\ window'[s] = window[s]
  BY <1>1 DEF TypeOK, SendEmailWithTemplate
<1>6. WindowInv'
  BY <1>1, <1>5 DEF WindowInv, InEffect, GetEmailTemplate
<1>7. StoredParses' /\ SentWasInEffect' /\ SyntaxCaughtAtUpsert'
  BY <1>1, <1>4, <1>5 DEF StoredParses, SentWasInEffect, SyntaxCaughtAtUpsert
<1> QED BY <1>3, <1>6, <1>7 DEF TemplatesInv

\* A request chooses what is in effect.
LEMMA ChooseStep ==
    ASSUME TemplatesInv, NEW r \in Request, pc[r] = "resolving",
           Choose(r, InEffect(name[r])), InEffect(name[r]) # NoTemplate
    PROVE  TemplatesInv'
<1>1. TypeOK /\ StoredParses /\ WindowInv /\ SentWasInEffect /\ SyntaxCaughtAtUpsert
  BY DEF TemplatesInv
<1>2. InEffect(name[r]) \in TemplateDefinition /\ Parses(InEffect(name[r]))
  BY <1>1, InEffectType DEF TypeOK
<1>3. TypeOK'
  BY <1>1, <1>2 DEF TypeOK, Choose, PC
<1>4. /\ chosen'[r] = InEffect(name[r]) /\ UNCHANGED <<custom, name, window>>
      /\ \A s \in Request \ {r} : chosen'[s] = chosen[s] /\ pc'[s] = pc[s]
  BY <1>1 DEF TypeOK, Choose
<1>5. WindowInv'
  BY <1>1, <1>4 DEF WindowInv, InEffect, GetEmailTemplate
<1>6. StoredParses' /\ SentWasInEffect' /\ SyntaxCaughtAtUpsert'
  BY <1>1, <1>2, <1>4 DEF WindowInv, StoredParses, SentWasInEffect, SyntaxCaughtAtUpsert
<1> QED BY <1>3, <1>5, <1>6 DEF TemplatesInv

\* Every step keeps the invariant.
LEMMA NextTemplates == TemplatesInv /\ [Next]_vars => TemplatesInv'
<1> SUFFICES ASSUME TemplatesInv, [Next]_vars PROVE TemplatesInv' OBVIOUS
<1>0. TypeOK
  BY DEF TemplatesInv
<1>1. ASSUME NEW n \in Name, UpsertEmailTemplate(n)
      PROVE  TemplatesInv'
  <2>1. versions' \in 0 .. MaxVersions
    BY <1>0, <1>1, TemplatesAssumption DEF TypeOK, UpsertEmailTemplate
  <2>2. PICK def \in TemplateDefinition :
          IF ValidateTemplate(def) THEN custom' = [custom EXCEPT ![n] = def] ELSE UNCHANGED custom
    BY <1>1 DEF UpsertEmailTemplate, Upsert
  <2> QED BY <1>1, <2>1, <2>2, WriteStep DEF UpsertEmailTemplate, ValidateTemplate
<1>2. ASSUME NEW n \in Name, DeleteEmailTemplate(n)
      PROVE  TemplatesInv'
  BY <1>0, <1>2, WriteStep DEF DeleteEmailTemplate, DeleteRow, TypeOK
<1>3. ASSUME NEW r \in Request, NEW n \in Name, SendEmailWithTemplate(r, n)
      PROVE  TemplatesInv'
  BY <1>3, BeginStep
<1>4. ASSUME NEW r \in Request, resolveTemplate(r)
      PROVE  TemplatesInv'
  BY <1>4, AnswerStep, ChooseStep DEF resolveTemplate, Found, OnError
<1>5. ASSUME NEW r \in Request, RenderTemplate(r)
      PROVE  TemplatesInv'
  BY <1>5 DEF RenderTemplate, TemplatesInv, TypeOK, PC, StoredParses, WindowInv, InEffect, GetEmailTemplate,
              SentWasInEffect, SyntaxCaughtAtUpsert
<1>6. ASSUME NEW r \in Request, RenderError(r) \/ Send(r)
      PROVE  TemplatesInv'
  BY <1>6, AnswerStep DEF RenderError, Send
<1>7. CASE UNCHANGED vars
  BY <1>7 DEF vars, TemplatesInv, TypeOK, StoredParses, WindowInv, InEffect, GetEmailTemplate,
              SentWasInEffect, SyntaxCaughtAtUpsert
<1> QED BY <1>1, <1>2, <1>3, <1>4, <1>5, <1>6, <1>7 DEF Next
-----------------------------------------------------------------------------
\* The invariant holds throughout.
THEOREM TemplatesInvariant == Spec => []TemplatesInv
BY InitTemplates, NextTemplates, PTL DEF Spec

\* TypeOK: every variable stays in its type, and a request has a definition
\* exactly between resolving its template and answering.
THEOREM TemplatesTypeCorrect == Spec => []TypeOK
<1>1. TemplatesInv => TypeOK BY DEF TemplatesInv
<1> QED BY <1>1, TemplatesInvariant, PTL

\* SentWasInEffect: whatever is replaced or deleted while a request resolves,
\* renders and sends, its mail is of a definition in effect during the request.
THEOREM SendsWhatWasInEffect == Spec => []SentWasInEffect
<1>1. TemplatesInv => SentWasInEffect BY DEF TemplatesInv
<1> QED BY <1>1, TemplatesInvariant, PTL

\* SyntaxCaughtAtUpsert: no request comes to render what does not parse.
THEOREM NothingBrokenIsRendered == Spec => []SyntaxCaughtAtUpsert
<1>1. TemplatesInv => SyntaxCaughtAtUpsert BY DEF TemplatesInv
<1> QED BY <1>1, TemplatesInvariant, PTL

\* FinitelyManyRows: each request writes one row at most.
LEMMA RowsStayFinite == Spec => []FinitelyManyRows
<1>1. Init => FinitelyManyRows
  <2> SUFFICES ASSUME Init PROVE FinitelyManyRows OBVIOUS
  <2>1. Rows = {}
    BY DEF Init, Rows
  <2> QED BY <2>1, FS_EmptySet DEF FinitelyManyRows
<1>2. TypeOK /\ FinitelyManyRows /\ [Next]_vars => FinitelyManyRows'
  <2> SUFFICES ASSUME TypeOK, FinitelyManyRows, [Next]_vars PROVE FinitelyManyRows'
    OBVIOUS
  <2>1. ASSUME NEW n \in Name, NEW def, custom' = [custom EXCEPT ![n] = def]
        PROVE  FinitelyManyRows'
    <3>1. Rows' \in SUBSET (Rows \union {n})
      BY <2>1 DEF TypeOK, Rows
    <3>2. IsFiniteSet(Rows \union {n})
      BY FS_AddElement DEF FinitelyManyRows
    <3> QED BY <3>1, <3>2, FS_Subset DEF FinitelyManyRows
  <2>2. CASE UNCHANGED custom
    BY <2>2 DEF FinitelyManyRows, Rows
  <2>3. ASSUME NEW n \in Name, UpsertEmailTemplate(n) \/ DeleteEmailTemplate(n)
        PROVE  FinitelyManyRows'
    BY <2>1, <2>2, <2>3 DEF UpsertEmailTemplate, Upsert, DeleteEmailTemplate, DeleteRow
  <2>4. ASSUME NEW r \in Request,
               \/ \E n \in Name : SendEmailWithTemplate(r, n)
               \/ resolveTemplate(r) \/ RenderTemplate(r) \/ RenderError(r) \/ Send(r)
        PROVE  FinitelyManyRows'
    BY <2>2, <2>4 DEF SendEmailWithTemplate, resolveTemplate, Choose, Answer, RenderTemplate, RenderError, Send
  <2>5. CASE UNCHANGED vars
    BY <2>2, <2>5 DEF vars
  <2> QED BY <2>3, <2>4, <2>5 DEF Next
<1> QED BY <1>1, <1>2, TemplatesTypeCorrect, PTL DEF Spec

\* ListedIsSent: in whatever order the defaults come and whatever rows there
\* are, every name that resolves is listed exactly once, with the definition
\* that a send would use.
THEOREM TemplatesListedAreSent == Spec => []ListedIsSent
<1>1. FinitelyManyRows => ListedIsSent BY ListsWhatIsInEffect
<1> QED BY <1>1, RowsStayFinite, PTL
=============================================================================
