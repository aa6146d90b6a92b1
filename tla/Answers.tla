------------------------------ MODULE Answers ------------------------------
(***************************************************************************)
(* Context packages, claims, conflicts and answers (apps/api/src/          *)
(* context.ts, semantic.ts, reasoning.ts, semantic-reasoning.ts).          *)
(*                                                                         *)
(* A question is one PostgreSQL transaction at READ COMMITTED: it ensures  *)
(* entities and semantic claims, looks for scope conflicts, ensures the    *)
(* claims of its fragments, looks for contradictions, and writes the       *)
(* answer.  Entities, claims and conflicts are shared by all questions and *)
(* unique in the database, so questions that are asked at the same time    *)
(* wait for each other's rows, fail on them, and may deadlock.             *)
(*                                                                         *)
(* Abstracted: a text is what the extractors make of it, an optional       *)
(* subject (with one, it parses as a triple), what is said, and whether it *)
(* is denied; one node, principal and predicate; scores, graph expansion,  *)
(* provenance, model runs; semantic edges, which are written with their    *)
(* claim; which objects the principal may retrieve.  The wording is in     *)
(* AnswerText.                                                             *)
(***************************************************************************)
EXTENDS Naturals, Sequences, FiniteSets, SequencesExt

CONSTANTS Askers,        \* questions the API may be serving at once
          Objects,       \* knowledge objects
          Texts,         \* records [subject, said, denied]; "" for none
          MaxFragments, MaxPackages, MaxQuestions   \* bounds

VARIABLES fragments,   \* the paragraphs, each with its object
          packages,    \* context packages: the fragments each carries, ranked
          rows,        \* entities, claims and claim_conflicts, a bag of keys
          links,       \* claim_evidence: claim and fragment
          members,     \* context_claims: package and claim
          answers,
          asked,       \* how many questions began
          asking       \* the transaction of each asker

answerVars == <<fragments, packages, rows, links, members, answers, asked, asking>>

NoQuestion == [at |-> "idle", kind |-> "reason", pkg |-> 0, ev |-> <<>>, todo |-> <<>>,
               found |-> FALSE, mine |-> {}, linked |-> {}, joined |-> {}, seen |-> {}]

AnswersInit ==
    /\ fragments = <<>> /\ packages = <<>> /\ answers = <<>> /\ asked = 0
    /\ rows = EmptyBag /\ links = {} /\ members = {}
    /\ asking = [r \in Askers |-> NoQuestion]

-----------------------------------------------------------------------------
(* The keys of the unique indexes.  A claim about an object is fingerprinted *)
(* with the object, a semantic claim with its entities.                      *)

Text(f) == fragments[f]

Assertion(f) == <<"assertion", Text(f).cko, Text(f).subject, Text(f).said, Text(f).denied>>
Triple(f)    == <<"triple", "", Text(f).subject, Text(f).said, Text(f).denied>>
Entity(name) == <<"entity", name>>

IsClaim(k) == k[1] \in {"assertion", "triple"}

\* The rows a phase asks for, in order, each with the fragment it is evidence of.
Ensures(phase, ev) ==
    FlattenSeq([i \in DOMAIN ev |->
        LET f == ev[i] IN
        IF phase = "claims" THEN <<[key |-> Assertion(f), f |-> f]>>
        ELSE IF Text(f).subject = "" THEN <<>>
        ELSE <<[key |-> Entity(Text(f).subject), f |-> f], [key |-> Entity(Text(f).said), f |-> f],
               [key |-> Triple(f), f |-> f]>>])

\* Claims that exclude each other: same subject, another thing said.
ScopeConflict(a, b) == a[1] = "triple" /\ b[1] = "triple" /\ a[3] = b[3] /\ a[4] # b[4]

\* The same said and denied; an empty normalized text contradicts nothing.
Contradict(a, b) ==
    /\ a[1] = "assertion" /\ b[1] = "assertion"
    /\ a[4] # "" /\ <<a[3], a[4]>> = <<b[3], b[4]>> /\ a[5] # b[5]

\* context_claims JOIN claims: what was committed, and what this transaction wrote.
ClaimsOf(q) == q.joined \cup {m[2] : m \in {n \in members : n[1] = q.pkg}}

Pairs(kind, q) ==
    LET Clash(a, b) == IF kind = "scope" THEN ScopeConflict(a, b) ELSE Contradict(a, b) IN
    {<<kind, {p[1], p[2]}>> : p \in {x \in ClaimsOf(q) \X ClaimsOf(q) : Clash(x[1], x[2])}}

\* The phases of executeSemanticKnowledgeReasoning: a transaction that has asked
\* for all rows of one goes on to the next that has any.
Then(q, from, to, todo) == IF q.at = from /\ q.todo = <<>> THEN [q EXCEPT !.at = to, !.todo = todo] ELSE q

AfterSemantic(q) == Then(q, "semantic", "scope", SetToSeq(Pairs("scope", q)))
AfterScope(q) == IF q.kind = "semantic" THEN Then(q, "scope", "answer", <<>>)
                 ELSE Then(q, "scope", "claims", Ensures("claims", q.ev))
AfterClaims(q) == Then(q, "claims", "polarity", SetToSeq(Pairs("polarity", q)))

Settled(q) == Then(AfterClaims(AfterScope(AfterSemantic(q))), "polarity", "answer", <<>>)

-----------------------------------------------------------------------------
(* Documents and context packages.                                         *)

\* ingestTextArtifact: one paragraph after the other.
Ingest(c, t) ==
    /\ Len(fragments) < MaxFragments
    /\ fragments' = Append(fragments, [cko |-> c, subject |-> t.subject, said |-> t.said,
                                       denied |-> t.denied])
    /\ UNCHANGED <<packages, rows, links, members, answers, asked, asking>>

\* The ranking may be any; no fragment comes twice.  (Nothing found is left out:
\* no claim, no conflict.)
Rankings == {ev \in UNION {[1 .. n -> DOMAIN fragments] : n \in 1 .. Len(fragments)} :
               \A i, j \in DOMAIN ev : ev[i] = ev[j] => i = j}

\* POST /v1/context
Assemble(ev) ==
    /\ Len(packages) < MaxPackages /\ packages' = Append(packages, ev)
    /\ UNCHANGED <<fragments, rows, links, members, answers, asked, asking>>

-----------------------------------------------------------------------------
(* Questions.                                                              *)

QuestionGoes(r, q) == /\ asking' = [asking EXCEPT ![r] = q]
              /\ UNCHANGED <<fragments, packages, rows, links, members, answers, asked>>

QuestionContinues(r, q) == QuestionGoes(r, Settled(q))

QuestionBegins(r, q) == /\ asked < MaxQuestions /\ asked' = asked + 1
                /\ asking' = [asking EXCEPT ![r] = q]
                /\ UNCHANGED <<fragments, packages, rows, links, members, answers>>

Busy == Cardinality({r \in Askers : asking[r].at # "idle"})

Start(kind, p, ev) == Settled([NoQuestion EXCEPT !.at = "semantic", !.kind = kind, !.pkg = p, !.ev = ev,
                                         !.todo = Ensures("semantic", ev)])

\* POST /v1/context/:id/reason and /v1/context/:id/semantic
Reason(r, kind, p) ==
    /\ asking[r].at = "idle" /\ QuestionBegins(r, Start(kind, p, packages[p]))

\* POST /v1/reason: the package is made in the same transaction.
Ask(r, ev) ==
    /\ asking[r].at = "idle" /\ Len(packages) + Busy < MaxPackages
    /\ QuestionBegins(r, Start("reason", 0, ev))

Committed(k) == k \in BagToSet(rows)

\* Mutant: evidence is recorded with a new claim only.
LinkNew(q, ws, isNew) ==
    LET claims == {w \in ws : IsClaim(w.key)} IN
    [q EXCEPT !.linked = IF isNew THEN @ \cup {<<w.key, w.f>> : w \in claims} ELSE @,
              !.joined = @ \cup {w.key : w \in claims}]

\* claim_evidence and context_claims, ON CONFLICT DO NOTHING.
Link(q, ws, isNew) ==
    LET claims == {w \in ws : IsClaim(w.key)} IN
    [q EXCEPT !.linked = @ \cup {<<w.key, w.f>> : w \in claims},
              !.joined = @ \cup {w.key : w \in claims}]

\* SELECT, row after row, up to the first that is neither committed nor written
\* by this transaction.  A row that was found stays, so the SELECTs before are one step.
Look(r) ==
    LET q == asking[r]
        there == {n \in 0 .. Len(q.todo) : \A i \in 1 .. n : Committed(q.todo[i].key) \/ q.todo[i].key \in q.mine}
        n == CHOOSE i \in there : \A j \in there : j <= i IN
    /\ q.at \in {"semantic", "claims"} /\ q.todo # <<>> /\ ~q.found
    /\ QuestionContinues(r, Link([q EXCEPT !.todo = SubSeq(@, n + 1, Len(@)), !.found = n < Len(q.todo)],
                    {q.todo[i] : i \in 1 .. n}, FALSE))

\* An INSERT waits for a transaction that has inserted the same key.
Wants(r) == LET q == asking[r] IN
            IF q.todo = <<>> THEN {}
            ELSE IF q.at \in {"semantic", "claims"} THEN (IF q.found THEN {Head(q.todo).key} ELSE {})
            ELSE {Head(q.todo)}

WaitsFor(r, o) == o # r /\ Wants(r) \cap asking[o].mine # {}
Waits(r) == \E o \in Askers : WaitsFor(r, o)

\* INSERT after a SELECT that found nothing: a unique violation ends the
\* transaction when the row was committed in between.
Insert(r) ==
    LET q == asking[r]  w == Head(q.todo) IN
    /\ q.found /\ ~Waits(r)
    /\ QuestionContinues(r, IF Committed(w.key) THEN NoQuestion
                    ELSE Link([q EXCEPT !.todo = Tail(@), !.found = FALSE, !.mine = @ \cup {w.key}], {w}, TRUE))

\* Mutant: only a conflict that is new counts.
DetectNew(r) ==
    LET q == asking[r]  k == Head(q.todo) IN
    /\ q.at \in {"scope", "polarity"} /\ q.todo # <<>> /\ ~Waits(r)
    /\ QuestionContinues(r, [q EXCEPT !.todo = Tail(@), !.seen = IF Committed(k) THEN @ ELSE @ \cup {k},
                         !.mine = IF Committed(k) THEN @ ELSE @ \cup {k}])

\* INSERT ... ON CONFLICT DO NOTHING, or the row that is there.
Detect(r) ==
    LET q == asking[r]  k == Head(q.todo) IN
    /\ q.at \in {"scope", "polarity"} /\ q.todo # <<>> /\ ~Waits(r)
    /\ QuestionContinues(r, [q EXCEPT !.todo = Tail(@), !.seen = @ \cup {k},
                         !.mine = IF Committed(k) THEN @ ELSE @ \cup {k}])

\* The answer and its claims; COMMIT.
Answer(r) ==
    LET q == asking[r]
        p == IF q.pkg = 0 THEN Len(packages) + 1 ELSE q.pkg IN
    /\ q.at = "answer"
    /\ packages' = IF q.pkg = 0 THEN Append(packages, q.ev) ELSE packages
    /\ rows' = rows (+) SetToBag(q.mine)
    /\ links' = links \cup q.linked
    /\ members' = members \cup {<<p, k>> : k \in q.joined}
    /\ answers' = IF q.kind = "semantic" THEN answers
                  ELSE Append(answers,
                     [pkg |-> p, contested |-> q.seen # {},
                      supporting |-> {Assertion(f) : f \in {q.ev[i] : i \in DOMAIN q.ev}},
                      conflicting |-> UNION {k[2] : k \in {s \in q.seen : s[1] = "polarity"}}])
    /\ asking' = [asking EXCEPT ![r] = NoQuestion] /\ UNCHANGED <<fragments, asked>>

\* A provider, the connection or the process fails: ROLLBACK.
Fail(r) == asking[r].at # "idle" /\ QuestionGoes(r, NoQuestion)

\* PostgreSQL ends one of the transactions that wait for each other.
BreakDeadlock(r) ==
    /\ \E S \in SUBSET Askers : r \in S /\ \A x \in S : \E o \in S : WaitsFor(x, o)
    /\ QuestionGoes(r, NoQuestion)

Proceed(r) == Look(r) \/ Insert(r) \/ Detect(r) \/ Answer(r) \/ BreakDeadlock(r)

AnswersNext ==
    \/ \E c \in Objects, t \in Texts : Ingest(c, t)
    \/ \E ev \in Rankings : Assemble(ev)
    \/ \E r \in Askers : \/ Proceed(r) \/ Fail(r)
                         \/ \E ev \in Rankings : Ask(r, ev)
                         \/ \E p \in DOMAIN packages, k \in {"reason", "semantic"} : Reason(r, k, p)

AnswersSpec == AnswersInit /\ [][AnswersNext]_answerVars

-----------------------------------------------------------------------------
AnswersTypeOK ==
    /\ \A f \in DOMAIN fragments : fragments[f].cko \in Objects
    /\ \A p \in DOMAIN packages : packages[p] \in Seq(DOMAIN fragments)
    /\ \A l \in links : Committed(l[1]) /\ l[2] \in DOMAIN fragments
    /\ \A m \in members : m[1] \in DOMAIN packages /\ Committed(m[2])
    /\ \A a \in DOMAIN answers : answers[a].pkg \in DOMAIN packages

(* Entities, claims and conflicts are there once, however many questions   *)
(* come upon them at the same time (the unique indexes of 008 and 009, and *)
(* the SELECT before each INSERT).                                         *)
OneRowPerFact == \A k \in BagToSet(rows) : rows[k] = 1

Evidence(a) == {packages[answers[a].pkg][i] : i \in DOMAIN packages[answers[a].pkg]}

\* What two paragraphs say cannot both be: read from the texts alone.
Contradicts(f, g) ==
    \/ /\ Text(f).said # "" /\ <<Text(f).subject, Text(f).said>> = <<Text(g).subject, Text(g).said>>
       /\ Text(f).denied # Text(g).denied
    \/ Text(f).subject # "" /\ Text(f).subject = Text(g).subject /\ Text(f).said # Text(g).said

(* An answer is marked contested exactly when two of its paragraphs        *)
(* contradict each other, whoever found the conflict first                 *)
(* (detectContextConflicts, detectTemporalScopeConflicts).                 *)
ContestedIffContradicted ==
    \A a \in DOMAIN answers :
        answers[a].contested <=> \E f, g \in Evidence(a) : Contradicts(f, g)

TraceOf(a) == {l[2] : l \in {x \in links : x[1] \in answers[a].supporting \cup answers[a].conflicting}}

(* The trace of an answer (loadAnswerTrace) leads to every paragraph it    *)
(* was made from, and never to an object its package has nothing of, though*)
(* claims and their evidence are shared with everybody's answers.          *)
TraceIsTheEvidence ==
    \A a \in DOMAIN answers :
        /\ Evidence(a) \subseteq TraceOf(a)
        /\ \A f \in TraceOf(a) : \E g \in Evidence(a) : Text(f).cko = Text(g).cko

(* What overlapping questions come upon is shared by all of them: one row  *)
(* a fact, the conflict that one finds contests the answers of all, and    *)
(* each answer's trace still leads to its own evidence.                    *)
FactsAreShared == OneRowPerFact /\ ContestedIffContradicted /\ TraceIsTheEvidence
=============================================================================
