------------------------------- MODULE MCNode -------------------------------
(***************************************************************************)
(* One instance for TLC of the parts of the Local Node's API.  They share  *)
(* no state (each has its own tables), so that what one of them may do     *)
(* does not depend on the others: in every behaviour one part moves and    *)
(* the rest stay where they begin, and the states are the sum of those of  *)
(* the parts, not their product.                                           *)
(***************************************************************************)
EXTENDS Identity, WorkspaceGraph, AnswerText, Gateway, Capture, Corpus, EventStream, TLC

CONSTANTS Moving,      \* the parts that move
          t1, t2

VARIABLE part

Two == {t1, t2}        \* requests, questions, transactions
Symmetry == Permutations(Two)

NodeInit ==
    /\ part \in Moving
    /\ IdentityInit /\ AnswersInit /\ GatewayInit /\ CaptureInit /\ CorpusInit /\ StreamInit /\ TextInit
    \* It may begin in several ways, and begins in one of them when it stays.
    /\ part # "gateway" => policy = CHOOSE p \in Policies : TRUE
    /\ part # "corpus" => \A d \in Documents : content[d] = CHOOSE c \in Contents : TRUE

InOrder(ps) == ps[1][1] * 10 + Len(ps[1]) <= ps[2][1] * 10 + Len(ps[2])

Moves(p) ==
    /\ part = p /\ UNCHANGED part
    /\ p # "identity" => UNCHANGED identityVars
    /\ p # "answers" => UNCHANGED answerVars
    /\ p # "gateway" => UNCHANGED gatewayVars
    /\ p # "capture" => UNCHANGED captureVars
    /\ p # "corpus" => UNCHANGED corpusVars
    /\ p # "stream" => UNCHANGED streamVars
    /\ p # "text" => UNCHANGED textVars

NodeNext ==
    \/ Moves("identity") /\ IdentityNext
    \/ /\ Moves("answers") /\ AnswersNext
       \* The objects are alike, and so are their workspaces: begin with the first.
       /\ fragments' # <<>> => fragments'[1].cko = "d1"
       \* So are packages: two that are assembled, which may be before any question,
       \* are so in one order.
       /\ asking' = asking /\ packages' # packages /\ Len(packages') = 2 => InOrder(packages')
    \/ Moves("gateway") /\ GatewayNext
    \/ Moves("capture") /\ CaptureNext
    \/ Moves("corpus") /\ CorpusNext
    \/ Moves("stream") /\ StreamNext
    \/ Moves("text") /\ TextNext

nodeVars == <<part, identityVars, answerVars, gatewayVars, captureVars, corpusVars, streamVars, textVars>>

Node == NodeInit /\ [][NodeNext]_nodeVars

-----------------------------------------------------------------------------
(* Values of the constants.                                                *)

TextsOfOneSubject ==
    {[subject |-> "a", said |-> s[1], denied |-> s[2]] : s \in {<<"x", FALSE>>, <<"y", FALSE>>, <<"x", TRUE>>}}
TwoWorkspaces == "d1" :> "w1" @@ "d2" :> "w2"

SomeShapes ==
    {<<"fact">>, <<"unsafe">>, <<"bracket">>, <<"role">>, <<"fact", "unsafe">>, <<"unsafe", "fact">>}

Costs == "builtin" :> 0 @@ "ollama" :> 0 @@ "enterprise" :> 0 @@ "cheap" :> 1 @@ "dear" :> 2

Environment(offline, network, disclosed) ==
    [offline |-> offline, network |-> network, disclosed |-> disclosed]
SomePolicies ==
    {Environment(TRUE, TRUE, {"restricted"}), Environment(FALSE, FALSE, {}),
     Environment(FALSE, TRUE, {}), Environment(FALSE, TRUE, {"confidential"})}
SomePackages ==
    {[found |-> "plain", held |-> "plain"], [found |-> "confidential", held |-> "restricted"],
     [found |-> "restricted", held |-> "restricted"]}

Concepts == [corpus |-> "knowledge", tab |-> "concepts", subtab |-> ""]
Health == [corpus |-> "life", tab |-> "health", subtab |-> ""]
Medications == [corpus |-> "life", tab |-> "health", subtab |-> "Medications"]
SomeCoordinates == {Concepts, Health, Medications}
SealedCoordinates == {Medications}
SomeContents ==
    {{[at |-> Concepts, field |-> "topic"], [at |-> Health, field |-> "topic"], [at |-> Health, field |-> "tag"]},
     {[at |-> Health, field |-> "tag"], [at |-> Concepts, field |-> "authority"]}}

SubjectsOfEvents == "k1" :> "a" @@ "k2" :> "a" @@ "x1" :> "b"
FiltersOfSubscriptions == "plain" :> {"k1", "k2", "x1"} @@ "agent" :> {"k1", "x1"}
AnalysisOfAChange == {<<"k1", "k2">>}

-----------------------------------------------------------------------------
(* The rows of every part are of their types and refer to rows that are    *)
(* there, and no two transactions hold the same one.                       *)
NodeTypeOK == IdentityTypeOK /\ AnswersTypeOK /\ CaptureTypeOK /\ CorpusTypeOK /\ StreamTypeOK
=============================================================================
