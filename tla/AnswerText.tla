----------------------------- MODULE AnswerText -----------------------------
(***************************************************************************)
(* The wording of the answer a reader is shown without a model: the one    *)
(* line of executeContextReasoning (apps/api/src/reasoning.ts), taken      *)
(* through the sanitizer of answer-boundary.ts by                          *)
(* executeSemanticKnowledgeReasoning.                                      *)
(*                                                                         *)
(* A text is a sequence of lines, a line a sequence of words.  A word is a *)
(* fact, a fact that begins with a bracket, something no answer may repeat *)
(* wherever it stands (a command, a protocol line, internal metadata: the  *)
(* regular expressions are abstracted), a line with a role before a colon, *)
(* which is known by how it begins, or a citation mark.  A paragraph of    *)
(* evidence may have several lines: ingestion splits at blank lines only.  *)
(* The words about a conflict at the end are left out.                     *)
(***************************************************************************)
EXTENDS Naturals, Sequences, SequencesExt

CONSTANTS Shapes,        \* what a paragraph may look like: sequences of kinds, one a line
          MaxEvidence    \* how many paragraphs a package may carry here

VARIABLE evidence        \* the shapes of the package's paragraphs, in order

textVars == evidence

TextInit == evidence = <<>>

Find(shape) == Len(evidence) < MaxEvidence /\ evidence' = Append(evidence, shape)

TextNext == \E shape \in Shapes : Find(shape)

TextSpec == TextInit /\ [][TextNext]_textVars

-----------------------------------------------------------------------------
Word(kind, n) == [kind |-> kind, n |-> n]

\* The n-th paragraph, one word a line.
Paragraph(n) == [i \in DOMAIN evidence[n] |-> <<Word(evidence[n][i], n)>>]

Mark(n) == Word("mark", n)

\* cleanLine: nothing to hide, no role to begin with, and not something that looks like
\* JSON, which a line that begins with a bracket and ends with a citation does.
Clean(line) == /\ line # <<>>
               /\ \A i \in DOMAIN line : line[i].kind # "unsafe"
               /\ Head(line).kind # "role"
               /\ ~ (Head(line).kind \in {"bracket", "mark"} /\ Last(line).kind = "mark")

\* sanitizeGeneratedAnswer: the clean lines, on one line.
Safe(text) == FlattenSeq(SelectSeq(text, Clean))

\* `a b`: the last line of a goes on with the first of b.
Joined(a, b) ==
    IF a = <<>> THEN b ELSE IF b = <<>> THEN a
    ELSE SubSeq(a, 1, Len(a) - 1) \o <<Last(a) \o Head(b)>> \o Tail(b)

\* Mutant: paragraphs that are dropped do not count.
DeterministicOfSafe ==
    LET safe == SelectSeq([n \in DOMAIN evidence |-> n], LAMBDA n : Safe(Paragraph(n)) # <<>>)
        said == [k \in DOMAIN safe |-> Joined(Paragraph(safe[k]), << <<Mark(k)>> >>)] IN
    FoldLeft(Joined, <<>>, SubSeq(said, 1, IF Len(said) < 4 THEN Len(said) ELSE 4))

\* executeContextReasoning: the first four paragraphs as they are, each with its mark.
Deterministic ==
    LET said == [n \in DOMAIN evidence |-> Joined(Paragraph(n), << <<Mark(n)>> >>)] IN
    FoldLeft(Joined, <<>>, SubSeq(said, 1, IF Len(said) < 4 THEN Len(said) ELSE 4))

\* executeSemanticKnowledgeReasoning shows it sanitized; <<>> for the refusal.
Shown == Safe(Deterministic)

-----------------------------------------------------------------------------
\* The citation a reader finds after the i-th word, 0 for none.
CitedAt(text, i) ==
    LET marks == {j \in i .. Len(text) : text[j].kind = "mark"} IN
    IF marks = {} THEN 0 ELSE text[CHOOSE j \in marks : \A k \in marks : j <= k].n

(* What is dropped renumbers nothing and lends its mark to nothing: a mark *)
(* that is shown stands after its paragraph's last line, and whatever else *)
(* is shown of that paragraph leads to it; and what must be hidden wherever*)
(* it stands is not shown, nor a line that begins with a role, unless it   *)
(* begins a paragraph and follows the mark of the one before it.           *)
ShownTextIsCited ==
    LET marked == {n \in DOMAIN evidence : Mark(n) \in {Shown[i] : i \in DOMAIN Shown}} IN
    \A i \in DOMAIN Shown :
        LET word == Shown[i] IN
        CASE word.kind = "unsafe" -> FALSE
          [] word.kind = "mark" ->
                /\ i > 1 /\ Shown[i - 1].kind # "mark" /\ Shown[i - 1].n = word.n
                /\ Shown[i - 1].kind = Last(evidence[word.n])
          [] OTHER -> /\ word.n \in marked => CitedAt(Shown, i) = word.n
                      /\ word.kind = "role" => i > 1 /\ Shown[i - 1] = Mark(word.n - 1)

(* An answer exposes its citations and no instructions: what a reader is   *)
(* shown is no line of a role, and is followed by its paragraph's mark.    *)
(* The test of the boundary says so of deterministic answers, whose        *)
(* paragraphs it makes safe one by one; in the answer that is shown the    *)
(* mark stands on the paragraph's last line, on which the next paragraph   *)
(* begins, and the line is judged as one.                                  *)
AnswersExposeCitations ==
    \A i \in DOMAIN Shown :
        Shown[i].kind # "mark" => Shown[i].kind # "role" /\ CitedAt(Shown, i) = Shown[i].n
=============================================================================
