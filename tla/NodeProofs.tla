----------------------------- MODULE NodeProofs -----------------------------
(***************************************************************************)
(* Proofs about two parts of a Local Node, each on its own: they share no  *)
(* state.  Gateway, for any providers, costs, budget and number of         *)
(* questions asked at the same time; Identity, for any number of people,   *)
(* of requests served at once, of challenges, sessions and passkeys.       *)
(***************************************************************************)
EXTENDS Gateway, Identity, DataLemmas

-----------------------------------------------------------------------------
(* Gateway: the inductive invariant.                                       *)

Question == [at : {"idle", "nothing", "asking", "sent", "recording", "answered"}, id : Nat,
             mode : {"retrieval", "generation"}, package : Packages \cup {NothingAsked}, chain : Seq(Providers),
             next : Nat \ {0}, locked : SUBSET Providers, bad : SUBSET Providers]

\* The provider a question is at is one of its chain.
InChain(q) ==
    /\ q.at = "nothing" => q.chain # <<>>
    /\ q.at \in {"sent", "recording", "answered"} => q.next <= Len(q.chain)
    /\ q.at # "idle" => q.chain # <<>>

\* Whatever the policy in force allows for what was found was decided for the
\* whole chain at once.
ChainIsAllowed(q) ==
    q.at # "idle" => \A i \in 1..Len(q.chain) : q.chain[i] \in Cloud => Allowed(policy, q.package.found)

CallsAreTyped == begun \in Nat /\ call \in [Callers -> Question] /\ \A c \in Callers : InChain(call[c])

GatewayInv == CallsAreTyped /\ (\A c \in Callers : ChainIsAllowed(call[c])) /\ DisclosureIsAllowed

-----------------------------------------------------------------------------
(* Lemmas about the operators of the model                                 *)

(* planRoute returns providers only that the policy allows what was found, *)
(* the selected one and each of its fallbacks.                              *)
LEMMA ChainsAreEligible ==
    ASSUME NEW mode, NEW level, NEW s \in Chains(mode, level)
    PROVE  /\ s \in Seq(Providers) /\ s # <<>>
           /\ \A i \in 1..Len(s) : s[i] \in Providers /\ Eligible(s[i], mode, level)
<1> DEFINE good == {p \in Providers : Eligible(p, mode, level)}
           n == Cardinality(good)
<1>1. n \in Nat
  <2>1. IsFiniteSet(Providers)
    BY GatewayAssumption DEF GatewayAssumption, Providers
  <2>2. good \in SUBSET Providers
    OBVIOUS
  <2>3. IsFiniteSet(good)
    BY <2>1, <2>2, FS_Subset
  <2> QED
    BY <2>3, FS_CardinalityType
<1>2. s \in [1..n -> good] /\ s # <<>>
  BY DEF Chains, SetToSeqs
<1>3. s \in Seq(good) /\ s \in Seq(Providers)
  <2> HIDE DEF n, good
  <2>1. s = [i \in 1..n |-> s[i]] /\ \A i \in 1..n : s[i] \in good
    BY <1>2
  <2>2. s \in Seq(good)
    BY <1>1, <2>1
  <2>3. good \subseteq Providers
    BY DEF good
  <2> QED
    BY <2>2, <2>3
<1>4. \A i \in 1..Len(s) : s[i] \in good
  BY <1>3
<1> QED
  BY <1>2, <1>3, <1>4

LEMMA NoCallType == NoCall \in Question /\ InChain(NoCall)
  BY DEF NoCall, Question, InChain

(* Replacing the question of one caller, under the same policy. *)
LEMMA OneCaller ==
    ASSUME GatewayInv, NEW c \in Callers, NEW q \in Question, InChain(q), ChainIsAllowed(q),
           call' = [call EXCEPT ![c] = q], begun' \in Nat, UNCHANGED policy
    PROVE  CallsAreTyped' /\ \A d \in Callers : ChainIsAllowed(call[d])'
<1>1. call' \in [Callers -> Question] /\ \A d \in Callers : call'[d] = IF d = c THEN q ELSE call[d]
  BY DEF GatewayInv, CallsAreTyped
<1>2. \A d \in Callers : InChain(call'[d])
  BY <1>1 DEF GatewayInv, CallsAreTyped
<1>3. ASSUME NEW d \in Callers PROVE ChainIsAllowed(call[d])'
  BY <1>1 DEF GatewayInv, ChainIsAllowed, Allowed
<1> QED
  BY <1>1, <1>2, <1>3 DEF CallsAreTyped

(* Ending a question. *)
LEMMA CallerEnds ==
    ASSUME GatewayInv, NEW c \in Callers, call' = [call EXCEPT ![c] = NoCall],
           UNCHANGED <<policy, sent, begun>>
    PROVE  GatewayInv'
<1>1. ChainIsAllowed(NoCall)
  BY DEF ChainIsAllowed, NoCall
<1>2. begun' \in Nat
  BY DEF GatewayInv, CallsAreTyped
<1> QED
  BY <1>1, <1>2, NoCallType, OneCaller DEF GatewayInv, DisclosureIsAllowed

-----------------------------------------------------------------------------
(* The invariant, action by action                                         *)

LEMMA GatewayInitInv == GatewayInit => GatewayInv
<1> SUFFICES ASSUME GatewayInit PROVE GatewayInv
  OBVIOUS
<1>1. \A c \in Callers : call[c] = NoCall
  BY DEF GatewayInit
<1>2. CallsAreTyped
  BY <1>1, NoCallType DEF GatewayInit, CallsAreTyped
<1> QED
  BY <1>1, <1>2 DEF GatewayInit, GatewayInv, ChainIsAllowed, NoCall, DisclosureIsAllowed

LEMMA PrepareInv ==
    ASSUME GatewayInv, NEW c \in Callers, NEW mode \in {"retrieval", "generation"},
           NEW package \in Packages, Prepare(c, mode, package)
    PROVE  GatewayInv'
<1>1. PICK s \in Chains(mode, package.found) :
          call' = [call EXCEPT ![c] = [NoCall EXCEPT
                !.id = begun + 1, !.mode = mode, !.package = package, !.chain = s,
                !.at = IF mode = "retrieval" \/ Head(s) = Builtin THEN "nothing" ELSE "asking"]]
  BY DEF Prepare
<1> DEFINE q == [NoCall EXCEPT
                !.id = begun + 1, !.mode = mode, !.package = package, !.chain = s,
                !.at = IF mode = "retrieval" \/ Head(s) = Builtin THEN "nothing" ELSE "asking"]
<1>2. begun \in Nat /\ begun' \in Nat /\ UNCHANGED <<policy, sent>>
  BY DEF Prepare, GatewayInv, CallsAreTyped
<1>3. s \in Seq(Providers) /\ s # <<>> /\ \A i \in 1..Len(s) : s[i] \in Cloud => Allowed(policy, package.found)
  BY ChainsAreEligible DEF Eligible
<1>4. /\ q \in Question /\ q.at \in {"nothing", "asking"} /\ q.chain = s /\ q.package = package
  <2> DEFINE at == IF mode = "retrieval" \/ Head(s) = Builtin THEN "nothing" ELSE "asking"
  <2>1. at \in {"nothing", "asking"} /\ begun + 1 \in Nat
    BY <1>2
  <2>2. PICK m : m = [NoCall EXCEPT !.id = begun + 1, !.mode = mode, !.package = package]
    OBVIOUS
  <2>3. m \in Question /\ m.package = package
    BY <2>1, <2>2, NoCallType DEF Question
  <2>4. q = [m EXCEPT !.chain = s, !.at = at]
    BY <2>2
  <2> HIDE DEF q, at
  <2> QED
    BY <1>3, <2>1, <2>3, <2>4 DEF Question
<1>5. InChain(q) /\ ChainIsAllowed(q)
  BY <1>3, <1>4 DEF InChain, ChainIsAllowed
<1> HIDE DEF q
<1>6. call' = [call EXCEPT ![c] = q]
  BY <1>1 DEF q
<1> QED
  BY <1>2, <1>4, <1>5, <1>6, OneCaller DEF GatewayInv, DisclosureIsAllowed

(* What leaves goes to the provider the question is at. *)
LEMMA SendInv ==
    ASSUME GatewayInv, NEW c \in Callers, Send(c)
    PROVE  GatewayInv'
<1> DEFINE q == call[c]
           r == [q EXCEPT !.at = "sent"]
<1>1. q \in Question /\ q.at = "asking" /\ q.next <= Len(q.chain) /\ ChainIsAllowed(q)
  BY DEF GatewayInv, CallsAreTyped, Send
<1>2. r \in Question /\ r.at = "sent" /\ r.chain = q.chain /\ r.next = q.next /\ r.package = q.package
  BY <1>1 DEF Question
<1>3. q.next \in 1..Len(q.chain) /\ q.chain # <<>>
  BY <1>1 DEF Question
<1>4. InChain(r) /\ ChainIsAllowed(r)
  BY <1>1, <1>2, <1>3 DEF InChain, ChainIsAllowed
<1>5. call' = [call EXCEPT ![c] = r] /\ UNCHANGED <<policy, begun>>
  BY DEF Send
<1>6. DisclosureIsAllowed'
  <2>1. q.chain[q.next] \in Cloud => Allowed(policy, q.package.found)
    BY <1>1, <1>3 DEF ChainIsAllowed
  <2>2. q.chain[q.next] \in Local \cup Cloud
    BY <1>1, <1>3 DEF Question, Providers
  <2>3. ASSUME NEW x \in sent' PROVE Allowed(x.policy, x.package.found)
    <3>1. CASE x \in sent
      BY <3>1 DEF GatewayInv, DisclosureIsAllowed
    <3>2. CASE x \notin sent
      <4>1. q.chain[q.next] \notin Local
        BY <3>2 DEF Send, Current
      <4>2. x = [id |-> q.id, provider |-> Current(q), policy |-> policy, package |-> q.package]
        BY <3>2 DEF Send, Current
      <4>3. x.policy = policy /\ x.package = q.package
        BY <4>2
      <4> QED
        BY <2>1, <2>2, <4>1, <4>3
    <3> QED
      BY <3>1, <3>2
  <2> QED
    BY <2>3 DEF DisclosureIsAllowed
<1>7. begun' \in Nat
  BY <1>5 DEF GatewayInv, CallsAreTyped
<1> HIDE DEF r
<1> QED
  BY <1>2, <1>4, <1>5, <1>6, <1>7, OneCaller DEF GatewayInv

(* The steps in which a question goes on. *)
LEMMA GoOnInv ==
    ASSUME GatewayInv, NEW c \in Callers,
           Pass(c) \/ Record(c) \/ \E ok \in BOOLEAN : Respond(c, ok)
    PROVE  GatewayInv'
<1> DEFINE q == call[c]
<1>1. q \in Question /\ InChain(q) /\ ChainIsAllowed(q) /\ q.at # "idle"
  BY DEF GatewayInv, CallsAreTyped, Pass, Record, Respond
<1>2. UNCHANGED <<policy, sent, begun>> /\ begun \in Nat
  BY DEF Pass, Record, Respond, GatewayInv, CallsAreTyped
<1>3. PICK r \in Question : /\ call' = [call EXCEPT ![c] = r]
                            /\ r.chain = q.chain /\ r.package = q.package /\ InChain(r)
  <2>1. q.chain # <<>>
    BY <1>1 DEF InChain
  <2>2. CASE Pass(c)
    <3> DEFINE r == [q EXCEPT !.next = @ + 1]
    <3>1. r \in Question /\ r.at = "asking" /\ r.chain = q.chain /\ r.package = q.package
      BY <1>1, <2>2 DEF Question, Pass
    <3>2. call' = [call EXCEPT ![c] = r]
      BY <2>2 DEF Pass
    <3> QED
      BY <2>1, <3>1, <3>2 DEF InChain
  <2>3. CASE \E ok \in BOOLEAN : Respond(c, ok)
    <3>1. PICK ok \in BOOLEAN : Respond(c, ok)
      BY <2>3
    <3> DEFINE r == [q EXCEPT !.at = "recording",
                              !.bad = IF ok THEN @ \ {Current(q)} ELSE @ \cup {Current(q)}]
    <3>2. q.at = "sent" /\ q.next <= Len(q.chain)
      BY <1>1, <3>1 DEF Respond, InChain
    <3>3. Current(q) \in Providers
      BY <1>1, <3>2 DEF Question, Current
    <3>4. r \in Question /\ r.at = "recording" /\ r.chain = q.chain /\ r.package = q.package /\ r.next = q.next
      BY <1>1, <3>3 DEF Question
    <3>5. call' = [call EXCEPT ![c] = r]
      BY <3>1 DEF Respond
    <3> QED
      BY <2>1, <3>2, <3>4, <3>5 DEF InChain
  <2>4. CASE Record(c)
    <3> DEFINE bad == Current(q) \in q.bad
               r == [q EXCEPT !.locked = @ \cup {Current(q)},
                              !.at = IF bad THEN "asking" ELSE "answered",
                              !.next = IF bad THEN @ + 1 ELSE @]
    <3>1. q.at = "recording" /\ q.next <= Len(q.chain)
      BY <1>1, <2>4 DEF Record, InChain
    <3>2. Current(q) \in Providers
      BY <1>1, <3>1 DEF Question, Current
    <3>3. r \in Question /\ r.chain = q.chain /\ r.package = q.package
      <4>1. q.next + 1 \in Nat \ {0} /\ q.locked \cup {Current(q)} \in SUBSET Providers
        BY <1>1, <3>2 DEF Question
      <4>2. CASE bad
        BY <1>1, <4>1, <4>2 DEF Question
      <4>3. CASE ~bad
        BY <1>1, <4>1, <4>3 DEF Question
      <4> QED
        BY <4>2, <4>3
    <3>4. (r.at = "asking") \/ (r.at = "answered" /\ r.next = q.next)
      BY <1>1 DEF Question
    <3>5. call' = [call EXCEPT ![c] = r]
      BY <2>4 DEF Record
    <3> QED
      BY <2>1, <3>1, <3>3, <3>4, <3>5 DEF InChain
  <2> QED
    BY <2>2, <2>3, <2>4
<1>4. ChainIsAllowed(r)
  BY <1>1, <1>3 DEF ChainIsAllowed
<1> QED
  BY <1>2, <1>3, <1>4, OneCaller DEF GatewayInv, DisclosureIsAllowed

(* A change of policy ends every question planned under the one before. *)
LEMMA RedeployInv ==
    ASSUME GatewayInv, NEW p \in Policies, Redeploy(p)
    PROVE  GatewayInv'
<1>1. call' = [c \in Callers |-> NoCall] /\ UNCHANGED <<sent, begun>>
  BY DEF Redeploy
<1>2. CallsAreTyped'
  BY <1>1, NoCallType DEF GatewayInv, CallsAreTyped
<1>3. \A c \in Callers : ChainIsAllowed(call[c])'
  BY <1>1 DEF ChainIsAllowed, NoCall
<1> QED
  BY <1>1, <1>2, <1>3 DEF GatewayInv, DisclosureIsAllowed

LEMMA GatewayStutter ==
    ASSUME GatewayInv, UNCHANGED <<policy, sent, begun, call>>
    PROVE  GatewayInv'
  BY DEF GatewayInv, CallsAreTyped, ChainIsAllowed, Allowed, DisclosureIsAllowed

LEMMA GatewayStepInv == GatewayInv /\ [GatewayNext]_gatewayVars => GatewayInv'
<1> SUFFICES ASSUME GatewayInv, [GatewayNext]_gatewayVars PROVE GatewayInv'
  OBVIOUS
<1>1. ASSUME NEW c \in Callers, GatewayStep(c) PROVE GatewayInv'
  <2>1. CASE AnswerFromVault(c) \/ Charge(c) \/ GiveUp(c) \/ EndDeadlock(c)
    <3>1. call' = [call EXCEPT ![c] = NoCall] /\ UNCHANGED <<policy, sent, begun>>
      BY <2>1 DEF AnswerFromVault, Charge, GiveUp, EndDeadlock, Complete
    <3> QED
      BY <3>1, CallerEnds
  <2>2. CASE Send(c)
    BY <2>2, SendInv
  <2>3. CASE Pass(c) \/ Record(c) \/ \E ok \in BOOLEAN : Respond(c, ok)
    BY <2>3, GoOnInv
  <2> QED
    BY <1>1, <2>1, <2>2, <2>3 DEF GatewayStep
<1>2. ASSUME NEW c \in Callers, NEW mode \in {"retrieval", "generation"}, NEW package \in Packages,
             Prepare(c, mode, package)
      PROVE  GatewayInv'
  BY <1>2, PrepareInv
<1>3. ASSUME NEW p \in Policies, Redeploy(p) PROVE GatewayInv'
  BY <1>3, RedeployInv
<1>4. ASSUME NEW p \in Providers, HealthExpires(p) PROVE GatewayInv'
  BY <1>4, GatewayStutter DEF HealthExpires
<1>5. CASE UNCHANGED gatewayVars
  BY <1>5, GatewayStutter DEF gatewayVars
<1> QED
  BY <1>1, <1>2, <1>3, <1>4, <1>5 DEF GatewayNext

-----------------------------------------------------------------------------
(* Evidence leaves the device only as the policy in force allows for what  *)
(* the classifier found in the question and the first 100,000 characters:  *)
(* to the selected provider, to every fallback, and across a change of     *)
(* policy.  Nothing is said of what it did not look at.                    *)
THEOREM NothingLeavesUnallowed == GatewaySpec => []DisclosureIsAllowed
<1>1. GatewayInv => DisclosureIsAllowed
  BY DEF GatewayInv
<1> QED
  BY <1>1, GatewayInitInv, GatewayStepInv, PTL DEF GatewaySpec

-----------------------------------------------------------------------------
(* The ledger.                                                             *)

Charged == {x \in receipts : x.status = "succeeded" /\ Cost[x.provider] > 0}

(* A receipt and its entry are written together: an answer is charged what *)
(* the provider that gave it costs, anything else nothing.                 *)
LEMMA CompleteLedger ==
    ASSUME LedgerMatchesReceipts, NEW c \in Callers, NEW provider \in Providers,
           NEW status, NEW amount,
           amount = IF status = "succeeded" THEN Cost[provider] ELSE 0,
           Complete(c, provider, status, amount)
    PROVE  LedgerMatchesReceipts'
<1> DEFINE r == [id |-> call[c].id, provider |-> provider, status |-> status,
                 external |-> Head(call[c].chain) \in Cloud]
           entry == [id |-> call[c].id, amount |-> amount]
           Entries(R) == {[id |-> e.id, amount |-> Cost[e.provider]] : e \in R}
<1>1. /\ receipts' = receipts \cup {r}
      /\ ledger' = IF amount = 0 THEN ledger ELSE ledger \cup {entry}
  BY DEF Complete
<1>2. ledger = Entries(Charged)
  BY DEF LedgerMatchesReceipts, Charged
<1>3. r.status = status /\ r.provider = provider /\ r.id = call[c].id
  OBVIOUS
<1>4. Cost[provider] \in Nat
  BY GatewayAssumption DEF GatewayAssumption, Providers
<1> HIDE DEF r
<1>5. CASE amount = 0
  <2>1. ~(r.status = "succeeded" /\ Cost[r.provider] > 0)
    BY <1>3, <1>4, <1>5
  <2>2. Charged' = Charged
    BY <1>1, <2>1 DEF Charged
  <2> QED
    BY <1>1, <1>2, <1>5, <2>2 DEF LedgerMatchesReceipts, Charged
<1>6. CASE amount # 0
  <2>1. r.status = "succeeded" /\ Cost[r.provider] > 0 /\ amount = Cost[r.provider]
    BY <1>3, <1>4, <1>6
  <2>2. Charged' = Charged \cup {r}
    BY <1>1, <2>1 DEF Charged
  <2>3. Entries(Charged \cup {r}) = Entries(Charged) \cup {[id |-> r.id, amount |-> Cost[r.provider]]}
    OBVIOUS
  <2>4. entry = [id |-> r.id, amount |-> Cost[r.provider]]
    BY <1>3, <2>1
  <2>5. ledger' = Entries(Charged')
    BY <1>1, <1>2, <1>6, <2>2, <2>3, <2>4
  <2> QED
    BY <2>5 DEF LedgerMatchesReceipts, Charged
<1> QED
  BY <1>5, <1>6

LEMMA LedgerStep == GatewayInv /\ LedgerMatchesReceipts /\ [GatewayNext]_gatewayVars => LedgerMatchesReceipts'
<1> SUFFICES ASSUME GatewayInv, LedgerMatchesReceipts, [GatewayNext]_gatewayVars
             PROVE  LedgerMatchesReceipts'
  OBVIOUS
<1>1. CASE UNCHANGED <<receipts, ledger>>
  BY <1>1 DEF LedgerMatchesReceipts
<1>2. Builtin \in Providers /\ Cost[Builtin] = 0
  BY GatewayAssumption DEF GatewayAssumption, Providers
<1>3. ASSUME NEW c \in Callers, AnswerFromVault(c) \/ Charge(c) \/ GiveUp(c)
      PROVE  LedgerMatchesReceipts'
  <2>1. call[c] \in Question /\ InChain(call[c])
    BY DEF GatewayInv, CallsAreTyped
  <2>2. CASE AnswerFromVault(c)
    BY <1>2, <2>2, CompleteLedger DEF AnswerFromVault
  <2>3. CASE Charge(c)
    <3>1. Current(call[c]) \in Providers
      BY <2>1, <2>3 DEF Charge, Current, Question, InChain
    <3> QED
      BY <2>3, <3>1, CompleteLedger DEF Charge
  <2>4. CASE GiveUp(c)
    <3>1. Head(call[c].chain) \in Providers
      BY <2>1, <2>4 DEF GiveUp, Question, InChain
    <3> QED
      BY <1>2, <2>4, <3>1, CompleteLedger DEF GiveUp
  <2> QED
    BY <1>3, <2>2, <2>3, <2>4
<1>4. ASSUME NEW c \in Callers, GatewayStep(c) PROVE LedgerMatchesReceipts'
  BY <1>1, <1>3, <1>4 DEF GatewayStep, Pass, Send, Record, Respond, EndDeadlock
<1> QED
  BY <1>1, <1>4 DEF GatewayNext, Prepare, Redeploy, HealthExpires, gatewayVars

(* The ledger charges every answer what the provider that gave it costs,   *)
(* whatever failed before it, and charges nothing else.                    *)
THEOREM LedgerIsTrue == GatewaySpec => []LedgerMatchesReceipts
<1>1. GatewayInit => LedgerMatchesReceipts
  BY DEF GatewayInit, LedgerMatchesReceipts
<1> QED
  BY <1>1, GatewayInitInv, GatewayStepInv, LedgerStep, PTL DEF GatewaySpec

-----------------------------------------------------------------------------
(* Gateway: what a ledger adds up to                                       *)

SpentOf(L) == MapThenSumSet(LAMBDA e : e.amount, L)

Amounts(L) == [e \in L |-> e.amount]

LEMMA LedgerSums ==
    ASSUME NEW L, IsFiniteSet(L), \A e \in L : e.amount \in Nat
    PROVE  \E g : SumsUp(g, Amounts(L), L) /\ SpentOf(L) = g[L]
<1> DEFINE w == Amounts(L)
           pick(s) == CHOOSE x \in s : TRUE
           Takes(h) == h = [s \in SUBSET L |->
                              IF s = {} THEN 0 ELSE pick(s).amount + h[s \ {pick(s)}]]
           iter == CHOOSE h : Takes(h)
<1>1. SpentOf(L) = iter[L]
  BY DEF SpentOf, MapThenSumSet, MapThenFoldSet
<1>2. \A x \in L : w[x] \in Nat /\ w[x] = x.amount
  BY DEF Amounts
<1>3. PICK g : SumsUp(g, w, L)
  <2> HIDE DEF w
  <2> QED
    BY <1>2, SumsExist
<1>4. \A s \in SUBSET L : s # {} => pick(s) \in s /\ pick(s).amount = w[pick(s)]
  <2>1. \A s \in SUBSET L : s # {} => pick(s) \in s
    OBVIOUS
  <2> HIDE DEF w, pick
  <2> QED
    BY <2>1, <1>2
<1>5. Takes(g)
  <2> HIDE DEF w, pick
  <2>1. /\ g \in [SUBSET L -> Nat] /\ g[{}] = 0
        /\ \A s \in SUBSET L : \A x \in s : g[s] = w[x] + g[s \ {x}]
    BY <1>3 DEF SumsUp
  <2>2. \A s \in SUBSET L : g[s] = IF s = {} THEN 0 ELSE pick(s).amount + g[s \ {pick(s)}]
    BY <2>1, <1>4
  <2> QED
    BY <2>1, <2>2
<1>6. Takes(iter)
  BY <1>5, Zenon
<1>7. iter[L] = g[L]
  <2> HIDE DEF w, pick, iter
  <2>1. \A s \in SUBSET L : iter[s] = IF s = {} THEN 0 ELSE pick(s).amount + iter[s \ {pick(s)}]
    BY <1>6
  <2>2. iter[{}] = 0
    BY <2>1
  <2>3. \A s \in SUBSET L : s # {} => \E x \in s : iter[s] = w[x] + iter[s \ {x}]
    BY <2>1, <1>4
  <2>4. OneAtATime(iter, w, L)
    BY <2>2, <2>3 DEF OneAtATime
  <2> QED
    BY <1>3, <2>4, SumIsUnique
<1> QED
  BY <1>1, <1>3, <1>7

(* An entry adds at most its amount to what is spent. *)
LEMMA SpentOfOneMore ==
    ASSUME NEW L, IsFiniteSet(L), \A e \in L : e.amount \in Nat, NEW e, e.amount \in Nat
    PROVE  SpentOf(L) \in Nat /\ SpentOf(L \cup {e}) \in Nat
           /\ SpentOf(L \cup {e}) <= SpentOf(L) + e.amount
<1>1. PICK g : SumsUp(g, Amounts(L), L) /\ SpentOf(L) = g[L]
  BY LedgerSums
<1>2. SpentOf(L) \in Nat
  BY <1>1 DEF SumsUp
<1>3. CASE e \in L
  <2>1. L \cup {e} = L
    BY <1>3
  <2>2. SpentOf(L \cup {e}) = SpentOf(L)
    BY <2>1, Zenon
  <2>3. \A a, b \in Nat : a <= a + b
    OBVIOUS
  <2>4. e.amount \in Nat
    OBVIOUS
  <2> QED
    BY <1>2, <2>2, <2>3, <2>4, Zenon
<1>4. CASE e \notin L
  <2> DEFINE M == L \cup {e}
  <2>1. IsFiniteSet(M) /\ \A x \in M : x.amount \in Nat
    BY FS_AddElement
  <2>2. PICK h : SumsUp(h, Amounts(M), M) /\ SpentOf(M) = h[M]
    <3> HIDE DEF M
    <3> QED
      BY <2>1, LedgerSums
  <2>3. h[M] = e.amount + h[L]
    <3>1. M \in SUBSET M /\ e \in M /\ M \ {e} = L /\ Amounts(M)[e] = e.amount
      BY <1>4 DEF Amounts
    <3> HIDE DEF M
    <3> QED
      BY <2>2, <3>1 DEF SumsUp
  <2>4. h[L] = g[L]
    <3>1. h[{}] = 0
      BY <2>2 DEF SumsUp
    <3>2. \A s \in SUBSET L : \A x \in s : h[s] = Amounts(L)[x] + h[s \ {x}]
      <4>1. \A s \in SUBSET L : s \in SUBSET M /\ \A x \in s : Amounts(L)[x] = Amounts(M)[x]
        BY DEF Amounts
      <4> HIDE DEF M
      <4> QED
        BY <4>1, <2>2 DEF SumsUp
    <3>3. \A s \in SUBSET L : s # {} => \E x \in s : h[s] = Amounts(L)[x] + h[s \ {x}]
      BY <3>2
    <3>4. OneAtATime(h, Amounts(L), L)
      BY <3>1, <3>3 DEF OneAtATime
    <3> QED
      BY <1>1, <3>4, SumIsUnique
  <2> QED
    BY <1>1, <1>2, <2>2, <2>3, <2>4
<1> QED
  BY <1>3, <1>4

-----------------------------------------------------------------------------
(* Gateway: what is spent, and what may yet be.                            *)

\* Questions whose transaction is open.
OpenCalls == {c \in Callers : call[c].at # "idle"}

\* What n open questions may still spend, one of them set aside.
Others(n) == (n - 1) * MaxRequest

Ceiling == Budget + Others(Cardinality(Callers))

\* Whatever this question and all the others are charged, the ceiling holds.
Fits(c) ==
    \A i \in 1..Len(call[c].chain) :
        Spent + Cost[call[c].chain[i]] + Others(Cardinality(OpenCalls)) <= Ceiling

\* The question that planned last fits with what all the others may spend.
BudgetInv ==
    /\ IsFiniteSet(ledger) /\ \A e \in ledger : e.amount \in Nat
    /\ \A c \in Callers : \A i \in 1..Len(call[c].chain) : Cost[call[c].chain[i]] <= MaxRequest
    /\ OpenCalls # {} => \E c \in OpenCalls : Fits(c)
    /\ Spent <= Ceiling

LEMMA OthersGrow ==
    ASSUME NEW n \in Nat, n # 0
    PROVE  Others(n) \in Nat /\ Others(1) = 0 /\ Others(n + 1) = Others(n) + MaxRequest
<1>1. MaxRequest \in Nat
  BY GatewayAssumption DEF GatewayAssumption
<1>2. n - 1 \in Nat
  OBVIOUS
<1>3. \A k, m \in Nat : k * m \in Nat /\ 0 * m = 0 /\ (k + 1) * m = k * m + m
  OBVIOUS
<1>4. (n - 1) + 1 = (n + 1) - 1 /\ 1 - 1 = 0
  OBVIOUS
<1> QED
  BY <1>1, <1>2, <1>3, <1>4 DEF Others

LEMMA OthersAreMore ==
    ASSUME NEW n \in Nat, n # 0, NEW m \in Nat, n <= m
    PROVE  Others(n) <= Others(m)
<1>1. MaxRequest \in Nat
  BY GatewayAssumption DEF GatewayAssumption
<1>2. \A k, j, b \in Nat : k * b \in Nat /\ j * b \in Nat /\ (k + j) * b = k * b + j * b
  OBVIOUS
<1>3. n - 1 \in Nat /\ m - n \in Nat /\ (n - 1) + (m - n) = m - 1
  OBVIOUS
<1>4. (m - 1) * MaxRequest = (n - 1) * MaxRequest + (m - n) * MaxRequest
      /\ (m - n) * MaxRequest \in Nat /\ (n - 1) * MaxRequest \in Nat
  BY <1>1, <1>2, <1>3
<1> QED
  BY <1>4 DEF Others

LEMMA CallersAreSome ==
    /\ Cardinality(Callers) \in Nat /\ Cardinality(Callers) # 0 /\ Ceiling \in Nat
    /\ \A T \in SUBSET Callers : IsFiniteSet(T) /\ Cardinality(T) \in Nat
                                 /\ Cardinality(T) <= Cardinality(Callers)
                                 /\ (Cardinality(T) = 0 <=> T = {})
<1>1. IsFiniteSet(Callers) /\ Callers # {} /\ Budget \in Nat
  BY GatewayAssumption DEF GatewayAssumption
<1>2. Cardinality(Callers) \in Nat /\ Cardinality(Callers) # 0
  BY <1>1, FS_CardinalityType, FS_EmptySet
<1>3. \A T \in SUBSET Callers : IsFiniteSet(T) /\ Cardinality(T) <= Cardinality(Callers)
  BY <1>1, FS_Subset
<1>4. \A T \in SUBSET Callers : Cardinality(T) \in Nat /\ (Cardinality(T) = 0 <=> T = {})
  BY <1>3, FS_CardinalityType, FS_EmptySet
<1> QED
  BY <1>1, <1>2, <1>3, <1>4, OthersGrow DEF Ceiling

(* A caller leaves or joins the open questions. *)
LEMMA OneOpenLess ==
    ASSUME NEW c \in OpenCalls, call' = [call EXCEPT ![c] = NoCall], call \in [Callers -> Question]
    PROVE  /\ OpenCalls' = OpenCalls \ {c}
           /\ Cardinality(OpenCalls) \in Nat /\ Cardinality(OpenCalls) # 0
           /\ Cardinality(OpenCalls') = Cardinality(OpenCalls) - 1
<1>1. OpenCalls' = OpenCalls \ {c}
  BY DEF OpenCalls, NoCall
<1>2. IsFiniteSet(OpenCalls) /\ Cardinality(OpenCalls) \in Nat /\ Cardinality(OpenCalls) # 0
  BY CallersAreSome DEF OpenCalls
<1> QED
  BY <1>1, <1>2, FS_RemoveElement

LEMMA OneOpenMore ==
    ASSUME NEW c \in Callers, c \notin OpenCalls, NEW q, q.at # "idle",
           call' = [call EXCEPT ![c] = q], call \in [Callers -> Question]
    PROVE  OpenCalls' = OpenCalls \cup {c} /\ Cardinality(OpenCalls') \in Nat
           /\ Cardinality(OpenCalls') # 0 /\ Cardinality(OpenCalls') <= Cardinality(Callers)
<1>1. OpenCalls' = OpenCalls \cup {c}
  BY DEF OpenCalls
<1>2. OpenCalls' \in SUBSET Callers /\ OpenCalls' # {}
  BY <1>1 DEF OpenCalls
<1> QED
  BY <1>1, <1>2, CallersAreSome

LEMMA SpentOfLedger == Spent = SpentOf(ledger) /\ Spent' = SpentOf(ledger')
<1>1. Spent = SpentOf(ledger)
  BY DEF Spent, SpentOf
<1>2. Spent' = SpentOf(ledger')
  BY DEF Spent, SpentOf, MapThenSumSet, MapThenFoldSet
<1> QED
  BY <1>1, <1>2

LEMMA SpentIsNatural ==
    ASSUME IsFiniteSet(ledger), \A e \in ledger : e.amount \in Nat
    PROVE  Spent \in Nat
<1>1. SpentOf(ledger) \in Nat
  <2>1. [amount |-> 0].amount \in Nat
    OBVIOUS
  <2> QED
    BY <2>1, SpentOfOneMore
<1> QED
  BY <1>1 DEF Spent, SpentOf
(* Arithmetic of the two steps below. *)
LEMMA ChargedMeansLess ==
    \A s, t, a, b, o, m : /\ s \in Nat /\ t \in Nat /\ a \in Nat /\ b \in Nat /\ o \in Nat /\ m \in Nat
                          /\ t <= s + a /\ a <= b /\ s + b + o <= m
                          => t <= m /\ t + o <= m
  OBVIOUS

LEMMA ChargedOtherMeansLess ==
    \A s, t, a, b, x, o, m : /\ s \in Nat /\ t \in Nat /\ a \in Nat /\ b \in Nat /\ o \in Nat
                             /\ m \in Nat /\ x \in Nat
                             /\ t <= s + a /\ a <= x /\ s + b + (o + x) <= m
                             => t <= m /\ t + b + o <= m
  OBVIOUS

(* A question ends; its answer is charged at most what one of the providers *)
(* of its chain costs.                                                      *)
LEMMA ChargeWithinCeiling ==
    ASSUME GatewayInv, BudgetInv, NEW c \in OpenCalls, call' = [call EXCEPT ![c] = NoCall],
           NEW amount \in Nat, NEW i \in 1..Len(call[c].chain),
           amount <= Cost[call[c].chain[i]], NEW id,
           ledger' = ledger \/ ledger' = ledger \cup {[id |-> id, amount |-> amount]}
    PROVE  BudgetInv'
<1> DEFINE e == [id |-> id, amount |-> amount]
           n == Cardinality(OpenCalls)
           cost == Cost[call[c].chain[i]]
<1>1. call \in [Callers -> Question] /\ IsFiniteSet(ledger) /\ \A x \in ledger : x.amount \in Nat
  BY DEF GatewayInv, CallsAreTyped, BudgetInv
<1>2. e.amount = amount /\ e.amount \in Nat
  OBVIOUS
<1>3. IsFiniteSet(ledger') /\ \A x \in ledger' : x.amount \in Nat
  <2> HIDE DEF e
  <2>1. IsFiniteSet(ledger \cup {e})
    BY <1>1, FS_AddElement
  <2>2. ledger' = ledger \/ ledger' = ledger \cup {e}
    BY DEF e
  <2> QED
    BY <1>1, <1>2, <2>1, <2>2
<1>4. Spent \in Nat /\ Spent' \in Nat /\ Spent' <= Spent + amount
  <2>1. Spent \in Nat
    BY <1>1, SpentIsNatural
  <2>2. CASE ledger' = ledger
    <3>1. Spent' = Spent
      BY <2>2, SpentOfLedger
    <3> QED
      BY <2>1, <3>1
  <2>3. CASE ledger' = ledger \cup {e}
    <3> HIDE DEF e
    <3>1. SpentOf(ledger \cup {e}) \in Nat /\ SpentOf(ledger \cup {e}) <= SpentOf(ledger) + e.amount
      BY <1>1, <1>2, SpentOfOneMore
    <3>2. Spent = SpentOf(ledger) /\ Spent' = SpentOf(ledger \cup {e})
      BY <2>3, SpentOfLedger
    <3> QED
      BY <1>2, <2>1, <3>1, <3>2
  <2> QED
    BY <2>2, <2>3
<1>5. /\ OpenCalls' = OpenCalls \ {c} /\ n \in Nat /\ n # 0 /\ Cardinality(OpenCalls') = n - 1
  BY <1>1, OneOpenLess
<1>6. cost \in Nat /\ cost <= MaxRequest
  <2>1. c \in Callers
    BY DEF OpenCalls
  <2>2. call[c].chain[i] \in Providers
    BY <1>1, <2>1 DEF Question
  <2> QED
    BY <2>1, <2>2, GatewayAssumption DEF GatewayAssumption, Providers, BudgetInv
<1>7. Ceiling \in Nat /\ MaxRequest \in Nat
  BY CallersAreSome, GatewayAssumption DEF GatewayAssumption
<1>8. \A d \in Callers : \A j \in 1..Len(call'[d].chain) : Cost[call'[d].chain[j]] <= MaxRequest
  <2>1. \A d \in Callers : call'[d] = IF d = c THEN NoCall ELSE call[d]
    BY <1>1
  <2>2. Len(NoCall.chain) = 0
    BY DEF NoCall
  <2> QED
    BY <2>1, <2>2 DEF BudgetInv
<1>9. Others(n) \in Nat /\ (n # 1 => Others(n) = Others(n - 1) + MaxRequest /\ Others(n - 1) \in Nat)
  <2>1. Others(n) \in Nat
    BY <1>5, OthersGrow
  <2>2. n # 1 => n - 1 \in Nat /\ n - 1 # 0 /\ (n - 1) + 1 = n
    BY <1>5
  <2> QED
    BY <2>1, <2>2, OthersGrow
<1>10. PICK d \in OpenCalls : Fits(d)
  BY DEF BudgetInv
<1>11. \A b \in OpenCalls : \A j \in 1..Len(call[b].chain) :
          Cost[call[b].chain[j]] \in Nat /\ Cost[call[b].chain[j]] <= MaxRequest
  <2>1. ASSUME NEW b \in OpenCalls, NEW j \in 1..Len(call[b].chain)
        PROVE  Cost[call[b].chain[j]] \in Nat /\ Cost[call[b].chain[j]] <= MaxRequest
    <3>1. b \in Callers /\ call[b].chain[j] \in Providers
      BY <1>1 DEF OpenCalls, Question
    <3> QED
      BY <3>1, GatewayAssumption DEF GatewayAssumption, Providers, BudgetInv
  <2> QED
    BY <2>1
<1>12. n # 1 \/ d = c
  <2>1. CASE d # c
    <3>1. d \in OpenCalls \ {c} /\ OpenCalls \ {c} \in SUBSET Callers
      BY <2>1 DEF OpenCalls
    <3>2. Cardinality(OpenCalls \ {c}) # 0
      BY <3>1, CallersAreSome
    <3> QED
      BY <3>2, <1>5
  <2> QED
    BY <2>1
<1> HIDE DEF n, cost
<1>13. IF d = c THEN Spent + cost + Others(n) <= Ceiling
       ELSE \A j \in 1..Len(call[d].chain) : Spent + Cost[call[d].chain[j]] + Others(n) <= Ceiling
  BY <1>10 DEF Fits, n, cost
<1>17. amount \in Nat /\ amount <= MaxRequest
  BY <1>6, <1>7 DEF cost
<1>14. Spent' <= Ceiling /\ (n # 1 /\ d = c => Spent' + (Others(n - 1) + MaxRequest) <= Ceiling)
  <2>1. CASE d = c
    <3>1. Spent + cost + Others(n) <= Ceiling /\ amount <= cost
      BY <2>1, <1>13 DEF cost
    <3>2. Spent' <= Ceiling /\ Spent' + Others(n) <= Ceiling
      BY <3>1, <1>4, <1>6, <1>7, <1>9, ChargedMeansLess, Zenon
    <3> QED
      BY <3>2, <1>9
  <2>2. CASE d # c
    <3>1. PICK j : j \in 1..Len(call[d].chain)
      <4>1. d \in Callers /\ call[d].at # "idle"
        BY DEF OpenCalls
      <4>2. call[d].chain \in Seq(Providers) /\ call[d].chain # <<>>
        BY <4>1, <1>1 DEF GatewayInv, CallsAreTyped, InChain, Question
      <4>3. 1 \in 1..Len(call[d].chain)
        BY <4>2
      <4> QED
        BY <4>3
    <3>2. Spent + Cost[call[d].chain[j]] + Others(n) <= Ceiling /\ Cost[call[d].chain[j]] \in Nat
      BY <2>2, <3>1, <1>11, <1>13
    <3>3. Others(n) = Others(n - 1) + MaxRequest /\ Others(n - 1) \in Nat
      BY <2>2, <1>9, <1>12
    <3>4. Spent' <= Ceiling
      BY <1>17, <3>2, <3>3, <1>4, <1>7, ChargedOtherMeansLess, Zenon
    <3> QED
      BY <3>4, <2>2
  <2> QED
    BY <2>1, <2>2
<1>15. OpenCalls' # {} => \E b \in OpenCalls' : Fits(b)'
  <2>1. SUFFICES ASSUME NEW x \in OpenCalls' PROVE \E b \in OpenCalls' : Fits(b)'
    OBVIOUS
  <2>2. n # 1
    <3>1. OpenCalls \ {c} \in SUBSET Callers
      BY DEF OpenCalls
    <3>2. Cardinality(OpenCalls \ {c}) # 0
      BY <3>1, <1>5, CallersAreSome
    <3> QED
      BY <3>2, <1>5
  <2>3. CASE d = c
    <3>1. x \in OpenCalls /\ x # c /\ x \in Callers
      BY <1>5 DEF OpenCalls
    <3>2. call'[x] = call[x]
      BY <3>1, <1>1
    <3>3. ASSUME NEW j \in 1..Len(call'[x].chain)
          PROVE  Spent' + Cost[call'[x].chain[j]] + Others(n - 1) <= Ceiling
      <4>1. Cost[call[x].chain[j]] \in Nat /\ Cost[call[x].chain[j]] <= MaxRequest
        BY <3>1, <3>2, <3>3, <1>11
      <4>2. Spent' + (Others(n - 1) + MaxRequest) <= Ceiling /\ Others(n - 1) \in Nat
        BY <2>2, <2>3, <1>9, <1>14
      <4>3. \A t, b, o, y, m : t \in Nat /\ b \in Nat /\ o \in Nat /\ y \in Nat /\ m \in Nat
                                 /\ b <= y /\ t + (o + y) <= m => t + b + o <= m
        OBVIOUS
      <4>4. Spent' + Cost[call[x].chain[j]] + Others(n - 1) <= Ceiling
        BY <4>1, <4>2, <4>3, <1>4, <1>7, Zenon
      <4> QED
        BY <4>4, <3>2
    <3>4. Fits(x)'
      BY <3>3, <1>5 DEF Fits, Ceiling, Others, n
    <3> QED
      BY <3>4
  <2>4. CASE d # c
    <3>1. d \in OpenCalls' /\ d \in Callers
      BY <2>4, <1>5 DEF OpenCalls
    <3>2. call'[d] = call[d]
      BY <2>4, <3>1, <1>1
    <3>3. ASSUME NEW j \in 1..Len(call'[d].chain)
          PROVE  Spent' + Cost[call'[d].chain[j]] + Others(n - 1) <= Ceiling
      <4>1. Spent + Cost[call[d].chain[j]] + Others(n) <= Ceiling /\ Cost[call[d].chain[j]] \in Nat
        BY <2>4, <3>2, <3>3, <1>11, <1>13
      <4>2. Others(n) = Others(n - 1) + MaxRequest /\ Others(n - 1) \in Nat
        BY <2>2, <1>9
      <4>3. Spent' + Cost[call[d].chain[j]] + Others(n - 1) <= Ceiling
        BY <1>17, <4>1, <4>2, <1>4, <1>7, ChargedOtherMeansLess, Zenon
      <4> QED
        BY <4>3, <3>2
    <3>4. Fits(d)'
      BY <3>3, <1>5 DEF Fits, Ceiling, Others, n
    <3> QED
      BY <3>1, <3>4
  <2> QED
    BY <2>3, <2>4
<1>16. Ceiling' = Ceiling
  BY DEF Ceiling, Others
<1> QED
  BY <1>3, <1>8, <1>14, <1>15, <1>16 DEF BudgetInv

(* A question is planned: it fits with everything the others may cost. *)
LEMMA PlanWithinCeiling ==
    ASSUME GatewayInv, BudgetInv, NEW c \in Callers, NEW mode \in {"retrieval", "generation"},
           NEW package \in Packages, Prepare(c, mode, package)
    PROVE  BudgetInv'
<1>1. PICK s \in Chains(mode, package.found) :
          call' = [call EXCEPT ![c] = [NoCall EXCEPT
                !.id = begun + 1, !.mode = mode, !.package = package, !.chain = s,
                !.at = IF mode = "retrieval" \/ Head(s) = Builtin THEN "nothing" ELSE "asking"]]
  BY DEF Prepare
<1> DEFINE q == [NoCall EXCEPT
                !.id = begun + 1, !.mode = mode, !.package = package, !.chain = s,
                !.at = IF mode = "retrieval" \/ Head(s) = Builtin THEN "nothing" ELSE "asking"]
<1>2. q.at # "idle" /\ q.chain = s
  BY DEF NoCall
<1> HIDE DEF q
<1>3. call' = [call EXCEPT ![c] = q] /\ c \notin OpenCalls /\ ledger' = ledger
  BY <1>1 DEF q, Prepare, OpenCalls
<1>4. call \in [Callers -> Question]
  BY DEF GatewayInv, CallsAreTyped
<1>5. \A d \in Callers : call'[d] = IF d = c THEN q ELSE call[d]
  BY <1>3, <1>4
<1>6. \A i \in 1..Len(s) : s[i] \in Providers /\ Cost[s[i]] <= MaxRequest /\ Spent + Cost[s[i]] <= Budget
  BY ChainsAreEligible DEF Eligible
<1>7. /\ OpenCalls' = OpenCalls \cup {c} /\ Cardinality(OpenCalls') \in Nat
      /\ Cardinality(OpenCalls') # 0 /\ Cardinality(OpenCalls') <= Cardinality(Callers)
  BY <1>2, <1>3, <1>4, OneOpenMore
<1>8. /\ Others(Cardinality(OpenCalls')) <= Others(Cardinality(Callers))
      /\ Others(Cardinality(OpenCalls')) \in Nat /\ Others(Cardinality(Callers)) \in Nat
  BY <1>7, CallersAreSome, OthersAreMore, OthersGrow
<1>9. Spent' = Spent /\ Spent \in Nat
  <2>1. Spent \in Nat
    BY SpentIsNatural DEF BudgetInv
  <2> QED
    BY <2>1, <1>3, SpentOfLedger
<1>10. ASSUME NEW i \in 1..Len(s)
       PROVE  Spent' + Cost[s[i]] + Others(Cardinality(OpenCalls')) <= Ceiling
  <2>1. Cost[s[i]] \in Nat /\ Budget \in Nat
    BY <1>6, GatewayAssumption DEF GatewayAssumption, Providers
  <2>2. Spent + Cost[s[i]] <= Budget
    BY <1>6
  <2> QED
    BY <2>1, <2>2, <1>8, <1>9 DEF Ceiling
<1>11. Fits(c)'
  BY <1>2, <1>5, <1>10 DEF Fits, Ceiling, Others
<1>12. \A d \in Callers : \A i \in 1..Len(call'[d].chain) : Cost[call'[d].chain[i]] <= MaxRequest
  BY <1>2, <1>5, <1>6 DEF BudgetInv
<1> QED
  BY <1>3, <1>7, <1>9, <1>11, <1>12 DEF BudgetInv, Ceiling, Others
(* Neither the ledger nor who is asking what changes. *)
LEMMA BudgetStutter ==
    ASSUME BudgetInv, ledger' = ledger,
           \A c \in Callers : /\ call'[c].chain = call[c].chain
                              /\ (call'[c].at = "idle" <=> call[c].at = "idle")
    PROVE  BudgetInv'
<1>1. Spent' = Spent
  BY SpentOfLedger
<1>2. OpenCalls' = OpenCalls /\ Ceiling' = Ceiling
  BY DEF OpenCalls, Ceiling, Others
<1>3. \A c \in OpenCalls : Fits(c) => Fits(c)'
  BY <1>1, <1>2 DEF Fits, OpenCalls, Others
<1> QED
  BY <1>1, <1>2, <1>3 DEF BudgetInv

LEMMA BudgetStep == GatewayInv /\ BudgetInv /\ [GatewayNext]_gatewayVars => BudgetInv'
<1> SUFFICES ASSUME GatewayInv, BudgetInv, [GatewayNext]_gatewayVars PROVE BudgetInv'
  OBVIOUS
<1>0. call \in [Callers -> Question] /\ \A c \in Callers : InChain(call[c])
  BY DEF GatewayInv, CallsAreTyped
<1>1. ASSUME NEW c \in Callers, AnswerFromVault(c) \/ Charge(c) \/ GiveUp(c) \/ EndDeadlock(c)
      PROVE  BudgetInv'
  <2>1. c \in OpenCalls /\ call' = [call EXCEPT ![c] = NoCall]
    BY <1>1 DEF AnswerFromVault, Charge, GiveUp, EndDeadlock, Complete, OpenCalls, WaitsForHealth
  <2>2. call[c].chain \in Seq(Providers) /\ call[c].chain # <<>> /\ call[c].next \in Nat \ {0}
    BY <1>0, <2>1 DEF InChain, OpenCalls, Question
  <2>3. CASE Charge(c)
    <3>1. call[c].next \in 1..Len(call[c].chain)
      BY <1>0, <2>2, <2>3 DEF Charge, InChain
    <3> DEFINE amount == Cost[call[c].chain[call[c].next]]
    <3>2. amount \in Nat /\ amount <= amount
      <4>1. call[c].chain[call[c].next] \in Providers
        BY <2>2, <3>1
      <4> QED
        BY <4>1, GatewayAssumption DEF GatewayAssumption, Providers
    <3>3. ledger' = ledger \/ ledger' = ledger \cup {[id |-> call[c].id, amount |-> amount]}
      BY <2>3 DEF Charge, Complete, Current
    <3> QED
      BY <2>1, <3>1, <3>2, <3>3, ChargeWithinCeiling
  <2>4. CASE ~Charge(c)
    <3>1. ledger' = ledger
      BY <1>1, <2>4 DEF AnswerFromVault, GiveUp, EndDeadlock, Complete
    <3>2. 1 \in 1..Len(call[c].chain) /\ 0 \in Nat /\ 0 <= Cost[call[c].chain[1]]
      <4>1. 1 \in 1..Len(call[c].chain) /\ call[c].chain[1] \in Providers
        BY <2>2
      <4> QED
        BY <4>1, GatewayAssumption DEF GatewayAssumption, Providers
    <3> QED
      BY <2>1, <3>1, <3>2, ChargeWithinCeiling
  <2> QED
    BY <2>3, <2>4
<1>2. ASSUME NEW c \in Callers, Pass(c) \/ Send(c) \/ Record(c) \/ \E ok \in BOOLEAN : Respond(c, ok)
      PROVE  BudgetInv'
  <2>1. ledger' = ledger
    BY <1>2 DEF Pass, Send, Record, Respond
  <2>2. PICK r : call' = [call EXCEPT ![c] = r] /\ r.chain = call[c].chain /\ r.at # "idle"
    <3> DEFINE q == call[c]
    <3>0. q \in Question
      BY <1>0
    <3>1. CASE Pass(c)
      <4> DEFINE r == [q EXCEPT !.next = @ + 1]
      <4>1. call' = [call EXCEPT ![c] = r] /\ q.at = "asking"
        BY <3>1 DEF Pass
      <4>2. r.chain = q.chain /\ r.at = q.at
        BY <3>0 DEF Question
      <4> QED
        BY <4>1, <4>2
    <3>2. CASE Send(c)
      <4> DEFINE r == [q EXCEPT !.at = "sent"]
      <4>1. call' = [call EXCEPT ![c] = r]
        BY <3>2 DEF Send
      <4>2. r.chain = q.chain /\ r.at = "sent"
        BY <3>0 DEF Question
      <4> QED
        BY <4>1, <4>2
    <3>3. CASE Record(c)
      <4> DEFINE r == [q EXCEPT !.locked = @ \cup {Current(q)},
                                !.at = IF Current(q) \in q.bad THEN "asking" ELSE "answered",
                                !.next = IF Current(q) \in q.bad THEN @ + 1 ELSE @]
      <4>1. call' = [call EXCEPT ![c] = r]
        BY <3>3 DEF Record
      <4>2. r.chain = q.chain /\ r.at \in {"asking", "answered"}
        BY <3>0 DEF Question
      <4> QED
        BY <4>1, <4>2
    <3>4. CASE \E ok \in BOOLEAN : Respond(c, ok)
      <4>0. PICK ok \in BOOLEAN : Respond(c, ok)
        BY <3>4
      <4> DEFINE r == [q EXCEPT !.at = "recording",
                                !.bad = IF ok THEN @ \ {Current(q)} ELSE @ \cup {Current(q)}]
      <4>1. call' = [call EXCEPT ![c] = r]
        BY <4>0 DEF Respond
      <4>2. r.chain = q.chain /\ r.at = "recording"
        BY <3>0 DEF Question
      <4> QED
        BY <4>1, <4>2
    <3> QED
      BY <1>2, <3>1, <3>2, <3>3, <3>4
  <2>3. call[c].at # "idle"
    BY <1>2 DEF Pass, Send, Record, Respond
  <2>4. \A d \in Callers : call'[d] = IF d = c THEN r ELSE call[d]
    BY <1>0, <2>2
  <2> QED
    BY <2>1, <2>2, <2>3, <2>4, BudgetStutter
<1>3. ASSUME NEW p \in Policies, Redeploy(p) PROVE BudgetInv'
  <2>1. ledger' = ledger /\ \A c \in Callers : call'[c] = NoCall
    BY <1>3 DEF Redeploy
  <2>2. OpenCalls' = {}
    BY <2>1 DEF OpenCalls, NoCall
  <2>3. Spent' = Spent /\ Ceiling' = Ceiling
    BY <2>1, SpentOfLedger DEF Ceiling, Others
  <2>4. \A c \in Callers : Len(call'[c].chain) = 0
    BY <2>1 DEF NoCall
  <2> QED
    BY <2>1, <2>2, <2>3, <2>4 DEF BudgetInv
<1>4. CASE UNCHANGED <<ledger, call>>
  BY <1>4, BudgetStutter
<1>5. ASSUME NEW c \in Callers, GatewayStep(c) PROVE BudgetInv'
  BY <1>1, <1>2, <1>5 DEF GatewayStep
<1> QED
  BY <1>3, <1>4, <1>5, PlanWithinCeiling DEF GatewayNext, HealthExpires, gatewayVars

LEMMA BudgetInit == GatewayInit => BudgetInv
<1> SUFFICES ASSUME GatewayInit PROVE BudgetInv
  OBVIOUS
<1>1. ledger = {} /\ \A c \in Callers : call[c] = NoCall
  BY DEF GatewayInit
<1>2. Spent = 0
  <2>1. PICK g : SumsUp(g, Amounts({}), {}) /\ SpentOf({}) = g[{}]
    BY LedgerSums, FS_EmptySet
  <2> QED
    BY <1>1, <2>1, SpentOfLedger DEF SumsUp
<1>3. OpenCalls = {} /\ \A c \in Callers : Len(call[c].chain) = 0
  BY <1>1 DEF OpenCalls, NoCall
<1> QED
  BY <1>1, <1>2, <1>3, CallersAreSome, FS_EmptySet DEF BudgetInv

(* The month's spending exceeds the ceiling by less than what the other    *)
(* questions asked at the same time may cost, for any number of questions, *)
(* providers and prices; and the ledger is what the answers cost.          *)
THEOREM AccountIsKept == GatewaySpec => []SpendingIsAccounted
<1>1. BudgetInv => BudgetHolds
  BY DEF BudgetInv, BudgetHolds, Ceiling, Others
<1>2. GatewaySpec => []BudgetInv
  BY GatewayInitInv, GatewayStepInv, BudgetInit, BudgetStep, PTL DEF GatewaySpec
<1>3. BudgetHolds /\ LedgerMatchesReceipts => SpendingIsAccounted
  BY DEF SpendingIsAccounted
<1> QED
  BY <1>1, <1>2, <1>3, LedgerIsTrue, PTL

-----------------------------------------------------------------------------
(* Identity: the inductive invariant, as named parts.                      *)

Challenge == [kind : Kinds, principal : Nat, consumed : BOOLEAN, expired : BOOLEAN]
Passkey == [principal : Nat, holder : People, counter : Nat, signed : Nat, by : Nat]
Session == [principal : Nat, live : BOOLEAN, by : Nat, who : People]
RequestType ==
    [at : {"idle", "options", "calling", "consumed", "new", "inserted", "signing"}, kind : Kinds,
     ch : Nat, who : People \cup {"nobody"}, principal : Nat, key : Nat, signed : Nat]

Typed ==
    /\ challenges \in Seq(Challenge) /\ principals \in Seq(People)
    /\ passkeys \in Seq(Passkey) /\ sessions \in Seq(Session)
    /\ request \in [Requests -> RequestType]

\* p is the principal of person u.
Is(p, u) == p \in 1 .. Len(principals) /\ principals[p] = u

\* A session and a credential is its person's, and some challenge paid for it.
RowsAreTheirs ==
    /\ \A s \in 1 .. Len(sessions) :
         Is(sessions[s].principal, sessions[s].who) /\ sessions[s].by \in 1 .. Len(challenges)
    /\ \A k \in 1 .. Len(passkeys) :
         Is(passkeys[k].principal, passkeys[k].holder) /\ passkeys[k].by \in 1 .. Len(challenges)

\* The transactions that hold the row of their challenge.
Holding(q) == q.at \in {"consumed", "new", "inserted", "signing"}

\* What a request has found out so far about the person behind it.
RequestOK(q) ==
    /\ q.at \in {"calling", "consumed", "new", "inserted", "signing"} =>
         q.ch \in 1 .. Len(challenges) /\ q.who \in People /\ q.key \in 0 .. Len(passkeys)
    /\ q.at \in {"calling", "consumed"} /\ q.kind = "register" => Is(q.principal, q.who)
    /\ q.at = "consumed" /\ q.kind = "register" => challenges[q.ch].principal = q.principal
    /\ q.at \in {"calling", "consumed"} /\ q.kind = "authenticate" =>
         q.key \in 1 .. Len(passkeys) /\ passkeys[q.key].holder = q.who
    /\ q.at = "signing" => Is(q.principal, q.who)
    /\ Holding(q) => ~challenges[q.ch].consumed
    /\ q.at = "inserted" => \A p \in 1 .. Len(principals) : principals[p] # q.who

\* No two of them hold one challenge or insert one subject.
Exclusive(q, p) ==
    /\ Holding(q) /\ Holding(p) => q.ch # p.ch
    /\ q.at = "inserted" /\ p.at = "inserted" => q.who # p.who

RequestsOK ==
    /\ \A r \in Requests : RequestOK(request[r])
    /\ \A r, o \in Requests : r # o => Exclusive(request[r], request[o])

\* ChallengePaysOnce, row by row.
PaysOnce ==
    /\ \A s, t \in 1 .. Len(sessions) : sessions[s].by = sessions[t].by => s = t
    /\ \A k, l \in 1 .. Len(passkeys) : passkeys[k].by = passkeys[l].by => k = l
    /\ \A s \in 1 .. Len(sessions), k \in 1 .. Len(passkeys) : sessions[s].by # passkeys[k].by
    /\ \A c \in 1 .. Len(challenges) :
         challenges[c].consumed <=> \/ \E s \in 1 .. Len(sessions) : sessions[s].by = c
                                    \/ \E k \in 1 .. Len(passkeys) : passkeys[k].by = c

OnePrincipal ==
    \A p, q \in 1 .. Len(principals) : principals[p] = principals[q] => p = q

SignInv == Typed /\ RowsAreTheirs /\ RequestsOK /\ PaysOnce /\ OnePrincipal

-----------------------------------------------------------------------------
(* The invariant implies what the run checks.                              *)
LEMMA SignInvIsSound == SignInv => SignInsAreSound
<1> SUFFICES ASSUME SignInv PROVE SignInsAreSound
  OBVIOUS
<1>1. /\ DOMAIN sessions = 1 .. Len(sessions) /\ DOMAIN passkeys = 1 .. Len(passkeys)
      /\ DOMAIN challenges = 1 .. Len(challenges) /\ DOMAIN principals = 1 .. Len(principals)
  BY DEF SignInv, Typed
<1>2. ChallengePaysOnce
  <2> SUFFICES ASSUME NEW c \in 1 .. Len(challenges)
               PROVE  /\ \A x, y \in Uses(c) : x = y
                      /\ challenges[c].consumed <=> Uses(c) # {}
    BY <1>1 DEF ChallengePaysOnce
  <2>1. ASSUME NEW x \in Uses(c), NEW y \in Uses(c) PROVE x = y
    BY <1>1 DEF Uses, SignInv, PaysOnce
  <2>2. Uses(c) # {} <=> \/ \E s \in 1 .. Len(sessions) : sessions[s].by = c
                         \/ \E k \in 1 .. Len(passkeys) : passkeys[k].by = c
    BY <1>1 DEF Uses
  <2>3. challenges[c].consumed <=> Uses(c) # {}
    BY <2>2 DEF SignInv, PaysOnce
  <2> QED
    BY <2>1, <2>3
<1>3. SignedInAsOneself
  BY <1>1 DEF SignedInAsOneself, SignInv, RowsAreTheirs, Is
<1>4. OnePrincipalPerSubject
  BY <1>1 DEF OnePrincipalPerSubject, SignInv, OnePrincipal
<1> QED
  BY <1>2, <1>3, <1>4 DEF SignInsAreSound

LEMMA SignInit == IdentityInit => SignInv
<1> SUFFICES ASSUME IdentityInit PROVE SignInv
  OBVIOUS
<1>1. \A r \in Requests : request[r] = NoRequest
  BY DEF IdentityInit
<1>2. NoRequest \in RequestType /\ NoRequest.at = "idle"
  BY DEF NoRequest, RequestType, Kinds
<1>3. Typed
  BY <1>1, <1>2 DEF IdentityInit, Typed
<1>4. RequestsOK
  BY <1>1, <1>2 DEF RequestsOK, RequestOK, Exclusive, Holding
<1>5. RowsAreTheirs /\ PaysOnce /\ OnePrincipal
  BY DEF IdentityInit, RowsAreTheirs, PaysOnce, OnePrincipal
<1> QED
  BY <1>3, <1>4, <1>5 DEF SignInv

-----------------------------------------------------------------------------
(* Sequences: what an update and an Append leave.                          *)
LEMMA UpdateOfSeq ==
    ASSUME NEW S, NEW s \in Seq(S), NEW i \in 1 .. Len(s), NEW e \in S
    PROVE  /\ [s EXCEPT ![i] = e] \in Seq(S)
           /\ Len([s EXCEPT ![i] = e]) = Len(s)
           /\ \A j \in 1 .. Len(s) : [s EXCEPT ![i] = e][j] = IF j = i THEN e ELSE s[j]
  OBVIOUS

LEMMA AppendToSeq ==
    ASSUME NEW S, NEW s \in Seq(S), NEW e \in S
    PROVE  /\ Append(s, e) \in Seq(S) /\ Len(Append(s, e)) = Len(s) + 1 /\ Len(s) \in Nat
           /\ \A j \in 1 .. Len(s) : Append(s, e)[j] = s[j]
           /\ Append(s, e)[Len(s) + 1] = e
  OBVIOUS

-----------------------------------------------------------------------------
(* Steps that write no row the invariant looks at: challenges may be added *)
(* and expire, authenticators may count.                                   *)
Alike ==
    /\ UNCHANGED <<principals, sessions>>
    /\ challenges' \in Seq(Challenge) /\ passkeys' \in Seq(Passkey)
    /\ Len(challenges) <= Len(challenges') /\ Len(passkeys') = Len(passkeys)
    /\ \A c \in 1 .. Len(challenges) : /\ challenges'[c].principal = challenges[c].principal
                                       /\ challenges'[c].consumed = challenges[c].consumed
    /\ \A c \in 1 .. Len(challenges') : c \notin 1 .. Len(challenges) => ~challenges'[c].consumed
    /\ \A k \in 1 .. Len(passkeys) : /\ passkeys'[k].principal = passkeys[k].principal
                                     /\ passkeys'[k].holder = passkeys[k].holder
                                     /\ passkeys'[k].by = passkeys[k].by

LEMMA AlikeRows ==
    ASSUME SignInv, Alike
    PROVE  /\ RowsAreTheirs' /\ PaysOnce' /\ OnePrincipal'
           /\ \A q \in RequestType : RequestOK(q) => RequestOK(q)'
<1>0. Len(challenges) \in Nat /\ Len(challenges') \in Nat /\ Len(passkeys) \in Nat
  BY DEF SignInv, Typed, Alike
<1>1. RowsAreTheirs'
  <2>1. ASSUME NEW s \in 1 .. Len(sessions)
        PROVE  Is(sessions[s].principal, sessions[s].who)' /\ sessions'[s].by \in 1 .. Len(challenges')
    BY <1>0 DEF SignInv, Alike, RowsAreTheirs, Is
  <2>2. ASSUME NEW k \in 1 .. Len(passkeys)
        PROVE  Is(passkeys[k].principal, passkeys[k].holder)' /\ passkeys'[k].by \in 1 .. Len(challenges')
    <3>1. Is(passkeys[k].principal, passkeys[k].holder) /\ passkeys[k].by \in 1 .. Len(challenges)
      BY DEF SignInv, RowsAreTheirs
    <3> QED
      BY <1>0, <3>1 DEF Alike, Is
  <2> QED
    BY <2>1, <2>2 DEF RowsAreTheirs, Alike
<1>2. PaysOnce'
  <2>1. /\ \A s, t \in 1 .. Len(sessions) : sessions[s].by = sessions[t].by => s = t
        /\ \A s \in 1 .. Len(sessions), k \in 1 .. Len(passkeys) : sessions[s].by # passkeys[k].by
        /\ \A k, l \in 1 .. Len(passkeys) : passkeys[k].by = passkeys[l].by => k = l
    BY DEF SignInv, PaysOnce
  <2>2. ASSUME NEW c \in 1 .. Len(challenges')
        PROVE  challenges'[c].consumed <=> \/ \E s \in 1 .. Len(sessions) : sessions[s].by = c
                                           \/ \E k \in 1 .. Len(passkeys) : passkeys[k].by = c
    <3>1. CASE c \in 1 .. Len(challenges)
      BY <3>1 DEF SignInv, PaysOnce, Alike
    <3>2. CASE c \notin 1 .. Len(challenges)
      BY <3>2 DEF SignInv, RowsAreTheirs, Alike
    <3> QED
      BY <3>1, <3>2
  <2>3. \A k, l \in 1 .. Len(passkeys') : passkeys'[k].by = passkeys'[l].by => k = l
    BY <2>1 DEF Alike
  <2>4. \A s \in 1 .. Len(sessions'), k \in 1 .. Len(passkeys') : sessions'[s].by # passkeys'[k].by
    BY <2>1 DEF Alike
  <2>5. \A s, t \in 1 .. Len(sessions') : sessions'[s].by = sessions'[t].by => s = t
    BY <2>1 DEF Alike
  <2>6. \A c \in 1 .. Len(challenges') :
          challenges'[c].consumed <=> \/ \E s \in 1 .. Len(sessions') : sessions'[s].by = c
                                     \/ \E k \in 1 .. Len(passkeys') : passkeys'[k].by = c
    BY <2>2 DEF Alike
  <2> QED
    BY <2>3, <2>4, <2>5, <2>6 DEF PaysOnce
<1>3. OnePrincipal'
  BY DEF SignInv, Alike, OnePrincipal
<1>4. ASSUME NEW q \in RequestType, RequestOK(q) PROVE RequestOK(q)'
  BY <1>0, <1>4 DEF RequestOK, Alike, Is, Holding
<1> QED
  BY <1>1, <1>2, <1>3, <1>4

(* ... and no request. *)
LEMMA NoRequestMoves ==
    ASSUME SignInv, Alike, UNCHANGED request
    PROVE  SignInv'
<1>1. Typed'
  BY DEF SignInv, Typed, Alike
<1>2. ASSUME NEW o \in Requests PROVE RequestOK(request[o])'
  <2>1. request[o] \in RequestType /\ RequestOK(request[o])
    BY DEF SignInv, Typed, RequestsOK
  <2>2. RequestOK(request'[o])
    BY <2>1
  <2> QED
    BY <2>1, AlikeRows DEF RequestOK, Is, Holding
<1>3. RequestsOK'
  BY <1>2 DEF SignInv, RequestsOK, Exclusive, Holding
<1> QED
  BY <1>1, <1>3, AlikeRows DEF SignInv

(* ... and one request. *)
LEMMA OneRequest ==
    ASSUME SignInv, Alike, NEW r \in Requests, NEW q \in RequestType,
           request' = [request EXCEPT ![r] = q],
           RequestOK(q),
           \A o \in Requests : o # r => Exclusive(request[o], q)
    PROVE  SignInv'
<1>1. /\ request' \in [Requests -> RequestType]
      /\ \A o \in Requests : request'[o] = IF o = r THEN q ELSE request[o]
  BY DEF SignInv, Typed
<1>2. Typed'
  BY <1>1 DEF SignInv, Typed, Alike
<1>3. ASSUME NEW o \in Requests PROVE RequestOK(request[o])'
  <2>1. PICK p \in RequestType : p = IF o = r THEN q ELSE request[o]
    BY DEF SignInv, Typed
  <2>2. RequestOK(p)
    BY <2>1 DEF SignInv, RequestsOK
  <2>3. RequestOK(p)'
    BY <2>2, AlikeRows
  <2>4. request'[o] = p
    BY <1>1, <2>1
  <2> QED
    BY <2>3, <2>4 DEF RequestOK, Is, Holding
<1>4. ASSUME NEW x \in Requests, NEW y \in Requests, x # y
      PROVE  Exclusive(request[x], request[y])'
  <2>1. Exclusive(request[x], request[y])
    BY <1>4 DEF SignInv, RequestsOK
  <2>2. /\ request'[x] = IF x = r THEN q ELSE request[x]
        /\ request'[y] = IF y = r THEN q ELSE request[y]
    BY <1>1
  <2> QED
    BY <1>4, <2>1, <2>2 DEF Exclusive, Holding
<1>5. RequestsOK'
  BY <1>3, <1>4 DEF RequestsOK
<1> QED
  BY <1>2, <1>5, AlikeRows DEF SignInv

LEMMA UnchangedIsAlike ==
    ASSUME SignInv, UNCHANGED <<challenges, principals, passkeys, sessions>>
    PROVE  Alike
  BY DEF Alike, SignInv, Typed

(* A challenge is issued. *)
LEMMA IssueIsAlike ==
    ASSUME SignInv, NEW kind \in Kinds, NEW p \in Nat, Issue(kind, p),
           UNCHANGED <<principals, passkeys, sessions>>
    PROVE  Alike
<1>1. PICK e \in Challenge : e.consumed = FALSE /\ challenges' = Append(challenges, e)
  BY DEF Issue, Challenge
<1>2. challenges \in Seq(Challenge) /\ passkeys \in Seq(Passkey)
  BY DEF SignInv, Typed
<1> QED
  BY <1>1, <1>2, AppendToSeq DEF Alike

(* A request ends, answered or refused. *)
LEMMA NoRequestIsOK ==
    /\ NoRequest \in RequestType /\ NoRequest.at = "idle" /\ RequestOK(NoRequest)
    /\ NoRequest.kind = "oidc" /\ NoRequest.key = 0
    /\ \A o \in Requests : Exclusive(request[o], NoRequest)
<1>1. /\ NoRequest \in RequestType /\ NoRequest.at = "idle"
      /\ NoRequest.kind = "oidc" /\ NoRequest.key = 0
  BY DEF NoRequest, RequestType, Kinds
<1> QED
  BY <1>1 DEF RequestOK, Exclusive, Holding

LEMMA RequestEnds ==
    ASSUME SignInv, NEW r \in Requests, RequestGoes(r, NoRequest), Alike
    PROVE  SignInv'
  BY NoRequestIsOK, OneRequest DEF RequestGoes

LEMMA TheRequest ==
    ASSUME SignInv, NEW r \in Requests
    PROVE  /\ request[r] \in RequestType /\ RequestOK(request[r])
           /\ \A o \in Requests : o # r => Exclusive(request[o], request[r])
           /\ \A c \in 1 .. Len(challenges) : challenges[c] \in Challenge
           /\ \A k \in 1 .. Len(passkeys) : passkeys[k] \in Passkey
           /\ \A s \in 1 .. Len(sessions) : sessions[s] \in Session
           /\ Len(challenges) \in Nat /\ Len(passkeys) \in Nat
           /\ Len(sessions) \in Nat /\ Len(principals) \in Nat
  BY DEF SignInv, Typed, RequestsOK

-----------------------------------------------------------------------------
(* Requests that arrive.                                                   *)
LEMMA StartStep ==
    ASSUME SignInv, StartOidc \/ \E p \in DOMAIN principals : AuthenticationOptions(p)
    PROVE  SignInv'
<1>1. CASE StartOidc
  BY <1>1, IssueIsAlike, NoRequestMoves DEF StartOidc, Kinds
<1>2. ASSUME NEW p \in DOMAIN principals, AuthenticationOptions(p) PROVE SignInv'
  <2>1. p \in Nat
    BY DEF SignInv, Typed
  <2> QED
    BY <1>2, <2>1, IssueIsAlike, NoRequestMoves DEF AuthenticationOptions, Kinds
<1> QED
  BY <1>1, <1>2

LEMMA ResolveStep ==
    ASSUME SignInv, NEW r \in Requests, NEW s \in DOMAIN sessions, NEW at, NEW c,
           ResolveSession(r, s, at, c),
           (at = "options" /\ c = 0) \/ (at = "calling" /\ c \in DOMAIN challenges)
    PROVE  SignInv'
<1>1. /\ s \in 1 .. Len(sessions) /\ DOMAIN challenges = 1 .. Len(challenges)
      /\ sessions[s] \in Session /\ Is(sessions[s].principal, sessions[s].who)
      /\ principals[sessions[s].principal] \in People /\ Len(passkeys) \in Nat
  BY DEF SignInv, Typed, RowsAreTheirs, Is
<1>2. PICK p \in RequestType :
        /\ request' = [request EXCEPT ![r] = p]
        /\ p.at = at /\ p.kind = "register" /\ p.ch = c /\ p.key = 0
        /\ p.who = principals[sessions[s].principal] /\ p.principal = sessions[s].principal
  <2> DEFINE p == [NoRequest EXCEPT !.at = at, !.kind = "register", !.ch = c,
                                    !.who = principals[sessions[s].principal],
                                    !.principal = sessions[s].principal]
  <2>1. /\ sessions[s].principal \in Nat /\ c \in Nat /\ at \in {"options", "calling"}
        /\ principals[sessions[s].principal] \in People
    BY <1>1 DEF Session
  <2>3. /\ p \in RequestType
        /\ p.at = at /\ p.kind = "register" /\ p.ch = c /\ p.key = 0
        /\ p.who = principals[sessions[s].principal] /\ p.principal = sessions[s].principal
    BY <2>1, NoRequestIsOK DEF RequestType, Kinds
  <2>4. request' = [request EXCEPT ![r] = p]
    BY DEF ResolveSession, RequestGoes
  <2> QED
    BY <2>3, <2>4
<1>3. RequestOK(p) /\ \A o \in Requests : Exclusive(request[o], p)
  BY <1>1, <1>2 DEF RequestOK, Holding, Exclusive, Is
<1>4. Alike
  BY UnchangedIsAlike DEF ResolveSession
<1> QED
  BY <1>2, <1>3, <1>4, OneRequest

LEMMA CallbackStep ==
    ASSUME SignInv, NEW r \in Requests, NEW c \in DOMAIN challenges, NEW u \in People,
           Callback(r, c, u)
    PROVE  SignInv'
<1>1. c \in 1 .. Len(challenges) /\ c \in Nat /\ Len(passkeys) \in Nat
  BY DEF SignInv, Typed
<1>2. PICK p \in RequestType :
        /\ request' = [request EXCEPT ![r] = p]
        /\ p.at = "calling" /\ p.kind = "oidc" /\ p.ch = c /\ p.key = 0 /\ p.who = u
  <2> DEFINE p == [NoRequest EXCEPT !.at = "calling", !.ch = c, !.who = u]
  <2>1. /\ p \in RequestType
        /\ p.at = "calling" /\ p.kind = "oidc" /\ p.ch = c /\ p.key = 0 /\ p.who = u
    BY <1>1, NoRequestIsOK DEF RequestType
  <2>2. request' = [request EXCEPT ![r] = p]
    BY DEF Callback, RequestGoes
  <2> QED
    BY <2>1, <2>2
<1>3. RequestOK(p) /\ \A o \in Requests : Exclusive(request[o], p)
  BY <1>1, <1>2 DEF RequestOK, Holding, Exclusive
<1>4. Alike
  BY UnchangedIsAlike DEF Callback
<1> QED
  BY <1>2, <1>3, <1>4, OneRequest

LEMMA AssertStep ==
    ASSUME SignInv, NEW r \in Requests, NEW c \in DOMAIN challenges, NEW k \in DOMAIN passkeys,
           AssertPasskey(r, c, k)
    PROVE  SignInv'
<1>1. /\ c \in 1 .. Len(challenges) /\ k \in 1 .. Len(passkeys) /\ Len(passkeys) \in Nat
      /\ passkeys[k] \in Passkey /\ passkeys \in Seq(Passkey)
  BY DEF SignInv, Typed
<1>2. PICK p \in RequestType :
        /\ request' = [request EXCEPT ![r] = p]
        /\ p.at = "calling" /\ p.kind = "authenticate" /\ p.ch = c /\ p.key = k
        /\ p.who = passkeys[k].holder
  <2> DEFINE p == [NoRequest EXCEPT !.at = "calling", !.kind = "authenticate", !.ch = c, !.key = k,
                                    !.who = passkeys[k].holder, !.signed = passkeys[k].signed + 1]
  <2>1. /\ passkeys[k].holder \in People /\ passkeys[k].signed + 1 \in Nat
        /\ c \in Nat /\ k \in Nat
    BY <1>1 DEF Passkey
  <2>3. /\ p \in RequestType
        /\ p.at = "calling" /\ p.kind = "authenticate" /\ p.ch = c /\ p.key = k
        /\ p.who = passkeys[k].holder
    BY <1>1, <2>1, NoRequestIsOK DEF RequestType, Kinds
  <2>4. request' = [request EXCEPT ![r] = p]
    BY DEF AssertPasskey, RequestGoes
  <2> QED
    BY <2>3, <2>4
<1>3. RequestOK(p) /\ \A o \in Requests : Exclusive(request[o], p)
  <2>1. p.who \in People
    BY <1>1, <1>2 DEF Passkey
  <2> QED
    BY <1>1, <1>2, <2>1 DEF RequestOK, Holding, Exclusive
<1>4. PICK e \in Passkey :
        /\ passkeys' = [passkeys EXCEPT ![k] = e]
        /\ e.principal = passkeys[k].principal /\ e.holder = passkeys[k].holder /\ e.by = passkeys[k].by
  <2> DEFINE e == [passkeys[k] EXCEPT !.signed = @ + 1]
  <2>0. passkeys[k].signed + 1 \in Nat
    BY <1>1 DEF Passkey
  <2>1. /\ e \in Passkey
        /\ e.principal = passkeys[k].principal /\ e.holder = passkeys[k].holder /\ e.by = passkeys[k].by
    BY <1>1, <2>0 DEF Passkey
  <2>2. passkeys' = [passkeys EXCEPT ![k] = e]
    BY DEF AssertPasskey
  <2> QED
    BY <2>1, <2>2
<1>5. Alike
  <2>1. challenges' = challenges /\ UNCHANGED <<principals, sessions>> /\ challenges \in Seq(Challenge)
    BY DEF AssertPasskey, SignInv, Typed
  <2>2. /\ passkeys' \in Seq(Passkey) /\ Len(passkeys') = Len(passkeys)
        /\ \A j \in 1 .. Len(passkeys) : passkeys'[j] = IF j = k THEN e ELSE passkeys[j]
    BY <1>1, <1>4, UpdateOfSeq
  <2> QED
    BY <1>4, <2>1, <2>2 DEF Alike
<1> QED
  BY <1>2, <1>3, <1>5, OneRequest

-----------------------------------------------------------------------------
(* Requests that are served, up to COMMIT.                                 *)
LEMMA OptionsStep ==
    ASSUME SignInv, NEW r \in Requests, RegistrationOptions(r)
    PROVE  SignInv'
<1>1. request[r].principal \in Nat
  BY TheRequest DEF RequestType
<1>2. Alike
  BY <1>1, IssueIsAlike DEF RegistrationOptions, Kinds
<1> QED
  BY <1>2, RequestEnds DEF RegistrationOptions

LEMMA ConsumeStep ==
    ASSUME SignInv, NEW r \in Requests, ConsumeChallenge(r)
    PROVE  SignInv'
<1> DEFINE q == request[r]
<1>1. Alike /\ q.at = "calling"
  BY UnchangedIsAlike DEF ConsumeChallenge
<1>2. CASE ~ Consumable(challenges[q.ch], q)
  BY <1>1, <1>2, RequestEnds DEF ConsumeChallenge
<1>3. CASE Consumable(challenges[q.ch], q)
  <2>1. PICK p \in RequestType :
          /\ request' = [request EXCEPT ![r] = p]
          /\ p.at = "consumed" /\ p.kind = q.kind /\ p.ch = q.ch /\ p.key = q.key
          /\ p.who = q.who /\ p.principal = q.principal
    <3> DEFINE p == [q EXCEPT !.at = "consumed"]
    <3>1. /\ p \in RequestType
          /\ p.at = "consumed" /\ p.kind = q.kind /\ p.ch = q.ch /\ p.key = q.key
          /\ p.who = q.who /\ p.principal = q.principal
      BY TheRequest DEF RequestType
    <3>2. request' = [request EXCEPT ![r] = p]
      BY <1>3 DEF ConsumeChallenge, RequestGoes
    <3> QED
      BY <3>1, <3>2
  <2>2. RequestOK(p)
    <3>1. RequestOK(q)
      BY TheRequest
    <3> QED
      BY <1>1, <1>3, <2>1, <3>1 DEF RequestOK, Consumable, Holding
  <2>3. \A o \in Requests : o # r => Exclusive(request[o], p)
    BY <2>1 DEF ConsumeChallenge, InTransaction, Exclusive, Holding
  <2> QED
    BY <1>1, <2>1, <2>2, <2>3, OneRequest
<1> QED
  BY <1>2, <1>3

LEMMA RefuseStep ==
    ASSUME SignInv, NEW r \in Requests, Refuse(r)
    PROVE  SignInv'
  BY RequestEnds, UnchangedIsAlike DEF Refuse

LEMMA FindStep ==
    ASSUME SignInv, NEW r \in Requests, FindPrincipal(r)
    PROVE  SignInv'
<1> DEFINE q == request[r]
           n == PrincipalOf(q.who)
<1>1. Alike /\ q.at = "consumed" /\ q.kind = "oidc"
  BY UnchangedIsAlike DEF FindPrincipal
<1>2. n \in Nat /\ (n # 0 => Is(n, q.who))
  BY TheRequest DEF PrincipalOf, Is, SignInv, Typed
<1>3. PICK p \in RequestType :
        /\ request' = [request EXCEPT ![r] = p]
        /\ p.at = (IF n = 0 THEN "new" ELSE "signing") /\ p.principal = n
        /\ p.kind = q.kind /\ p.ch = q.ch /\ p.key = q.key /\ p.who = q.who
  <2> DEFINE p == [q EXCEPT !.principal = n, !.at = IF n = 0 THEN "new" ELSE "signing"]
  <2> HIDE DEF n
  <2>1. /\ p \in RequestType
        /\ p.at = (IF n = 0 THEN "new" ELSE "signing") /\ p.principal = n
        /\ p.kind = q.kind /\ p.ch = q.ch /\ p.key = q.key /\ p.who = q.who
    BY <1>2, TheRequest DEF RequestType
  <2>2. request' = [request EXCEPT ![r] = p]
    BY DEF FindPrincipal, RequestGoes, n
  <2> QED
    BY <2>1, <2>2
<1> HIDE DEF n
<1>4. RequestOK(p)
  <2>1. RequestOK(q)
    BY TheRequest
  <2> QED
    BY <1>1, <1>2, <1>3, <2>1 DEF RequestOK, Holding
<1>5. \A o \in Requests : o # r => Exclusive(request[o], p)
  <2>1. \A o \in Requests : o # r => Exclusive(request[o], q)
    BY TheRequest
  <2> QED
    BY <1>1, <1>3, <2>1 DEF Exclusive, Holding
<1> QED
  BY <1>1, <1>3, <1>4, <1>5, OneRequest

LEMMA InsertStep ==
    ASSUME SignInv, NEW r \in Requests, InsertPrincipal(r)
    PROVE  SignInv'
<1> DEFINE q == request[r]
<1>1. Alike /\ q.at = "new"
  BY UnchangedIsAlike DEF InsertPrincipal
<1>2. CASE PrincipalOf(q.who) # 0
  BY <1>1, <1>2, RequestEnds DEF InsertPrincipal
<1>3. CASE PrincipalOf(q.who) = 0
  <2>1. PICK p \in RequestType :
          /\ request' = [request EXCEPT ![r] = p]
          /\ p.at = "inserted" /\ p.ch = q.ch /\ p.key = q.key /\ p.who = q.who
    <3> DEFINE p == [q EXCEPT !.at = "inserted"]
    <3>1. /\ p \in RequestType
          /\ p.at = "inserted" /\ p.ch = q.ch /\ p.key = q.key /\ p.who = q.who
      BY TheRequest DEF RequestType
    <3>2. request' = [request EXCEPT ![r] = p]
      BY <1>3 DEF InsertPrincipal, RequestGoes
    <3> QED
      BY <3>1, <3>2
  <2>2. RequestOK(p)
    <3>1. RequestOK(q)
      BY TheRequest
    <3>2. \A n \in 1 .. Len(principals) : principals[n] # q.who
      BY <1>3 DEF PrincipalOf, SignInv, Typed
    <3> QED
      BY <1>1, <2>1, <3>1, <3>2 DEF RequestOK, Holding
  <2>3. \A o \in Requests : o # r => Exclusive(request[o], p)
    <3>1. \A o \in Requests : o # r => Exclusive(request[o], q)
      BY TheRequest
    <3> QED
      BY <1>1, <2>1, <3>1 DEF InsertPrincipal, Exclusive, Holding
  <2> QED
    BY <1>1, <2>1, <2>2, <2>3, OneRequest
<1> QED
  BY <1>2, <1>3

LEMMA ReadPasskeyStep ==
    ASSUME SignInv, NEW r \in Requests, ReadPasskey(r)
    PROVE  SignInv'
<1> DEFINE q == request[r]
<1>1. Alike /\ q.at = "consumed" /\ q.kind = "authenticate"
  BY UnchangedIsAlike DEF ReadPasskey
<1>2. CASE ~ Verified(q)
  BY <1>1, <1>2, RequestEnds DEF ReadPasskey
<1>3. CASE Verified(q)
  <2>1. RequestOK(q) /\ q \in RequestType /\ \A o \in Requests : o # r => Exclusive(request[o], q)
    BY TheRequest
  <2>2. /\ q.ch \in 1 .. Len(challenges) /\ q.key \in 1 .. Len(passkeys)
        /\ passkeys[q.key].holder = q.who
    BY <1>1, <2>1 DEF RequestOK
  <2>3. challenges[q.ch].principal \in Nat
    BY <2>2, TheRequest DEF Challenge
  <2>4. Is(challenges[q.ch].principal, q.who)
    BY <1>3, <2>2 DEF Verified, SignInv, RowsAreTheirs
  <2>5. PICK p \in RequestType :
          /\ request' = [request EXCEPT ![r] = p]
          /\ p.at = "signing" /\ p.principal = challenges[q.ch].principal
          /\ p.kind = q.kind /\ p.ch = q.ch /\ p.key = q.key /\ p.who = q.who
    <3> DEFINE p == [q EXCEPT !.at = "signing", !.principal = challenges[q.ch].principal]
    <3>1. /\ p \in RequestType
          /\ p.at = "signing" /\ p.principal = challenges[q.ch].principal
          /\ p.kind = q.kind /\ p.ch = q.ch /\ p.key = q.key /\ p.who = q.who
      BY <2>1, <2>3 DEF RequestType
    <3>2. request' = [request EXCEPT ![r] = p]
      BY <1>3 DEF ReadPasskey, RequestGoes
    <3> QED
      BY <3>1, <3>2
  <2>6. RequestOK(p)
    BY <1>1, <2>1, <2>4, <2>5 DEF RequestOK, Holding
  <2>7. \A o \in Requests : o # r => Exclusive(request[o], p)
    BY <1>1, <2>1, <2>5 DEF Exclusive, Holding
  <2> QED
    BY <1>1, <2>5, <2>6, <2>7, OneRequest
<1> QED
  BY <1>2, <1>3

-----------------------------------------------------------------------------
(* Time, and the end of a session.                                         *)
LEMMA ExpiryStep ==
    ASSUME SignInv, NEW c \in DOMAIN challenges, ChallengeExpires(c)
    PROVE  SignInv'
<1>1. /\ challenges \in Seq(Challenge) /\ passkeys \in Seq(Passkey) /\ c \in 1 .. Len(challenges)
      /\ challenges[c] \in Challenge
  BY DEF SignInv, Typed
<1>2. PICK e \in Challenge :
        /\ challenges' = [challenges EXCEPT ![c] = e]
        /\ e.principal = challenges[c].principal /\ e.consumed = challenges[c].consumed
  <2> DEFINE e == [challenges[c] EXCEPT !.expired = TRUE]
  <2>1. /\ e \in Challenge
        /\ e.principal = challenges[c].principal /\ e.consumed = challenges[c].consumed
    BY <1>1 DEF Challenge
  <2>2. challenges' = [challenges EXCEPT ![c] = e]
    BY DEF ChallengeExpires
  <2> QED
    BY <2>1, <2>2
<1>3. /\ challenges' \in Seq(Challenge) /\ Len(challenges') = Len(challenges)
      /\ \A j \in 1 .. Len(challenges) : challenges'[j] = IF j = c THEN e ELSE challenges[j]
  BY <1>1, <1>2, UpdateOfSeq
<1>4. Alike
  BY <1>1, <1>2, <1>3 DEF Alike, ChallengeExpires
<1> QED
  BY <1>4, NoRequestMoves DEF ChallengeExpires

LEMMA EndStep ==
    ASSUME SignInv, NEW s \in DOMAIN sessions, EndSession(s)
    PROVE  SignInv'
<1>1. sessions \in Seq(Session) /\ s \in 1 .. Len(sessions) /\ sessions[s] \in Session
  BY DEF SignInv, Typed
<1>2. PICK e \in Session :
        /\ sessions' = [sessions EXCEPT ![s] = e]
        /\ e.principal = sessions[s].principal /\ e.by = sessions[s].by /\ e.who = sessions[s].who
  <2> DEFINE e == [sessions[s] EXCEPT !.live = FALSE]
  <2>1. /\ e \in Session
        /\ e.principal = sessions[s].principal /\ e.by = sessions[s].by /\ e.who = sessions[s].who
    BY <1>1 DEF Session
  <2>2. sessions' = [sessions EXCEPT ![s] = e]
    BY DEF EndSession
  <2> QED
    BY <2>1, <2>2
<1>3. /\ sessions' \in Seq(Session) /\ Len(sessions') = Len(sessions)
      /\ \A j \in 1 .. Len(sessions) : sessions'[j] = IF j = s THEN e ELSE sessions[j]
  BY <1>1, <1>2, UpdateOfSeq
<1>4. /\ UNCHANGED <<challenges, principals, passkeys, request>>
      /\ \A j \in 1 .. Len(sessions) : /\ sessions'[j].principal = sessions[j].principal
                                       /\ sessions'[j].by = sessions[j].by
                                       /\ sessions'[j].who = sessions[j].who
  BY <1>2, <1>3 DEF EndSession
<1>5. Typed' /\ OnePrincipal' /\ RowsAreTheirs'
  BY <1>3, <1>4 DEF SignInv, Typed, OnePrincipal, RowsAreTheirs, Is
<1>6. RequestsOK'
  BY <1>4 DEF SignInv, RequestsOK, RequestOK, Exclusive, Holding, Is
<1>7. PaysOnce'
  <2>1. /\ \A i, j \in 1 .. Len(sessions') : sessions'[i].by = sessions'[j].by => i = j
        /\ \A i \in 1 .. Len(sessions'), k \in 1 .. Len(passkeys) : sessions'[i].by # passkeys[k].by
    BY <1>3, <1>4 DEF SignInv, PaysOnce
  <2>2. \A c \in 1 .. Len(challenges) :
          (\E i \in 1 .. Len(sessions') : sessions'[i].by = c)
            <=> \E i \in 1 .. Len(sessions) : sessions[i].by = c
    BY <1>3, <1>4
  <2> QED
    BY <1>4, <2>1, <2>2 DEF SignInv, PaysOnce
<1> QED
  BY <1>5, <1>6, <1>7 DEF SignInv

-----------------------------------------------------------------------------
(* COMMIT: the challenge is consumed, rows are added, the request ends.    *)
Consumed(c) ==
    /\ challenges' \in Seq(Challenge) /\ Len(challenges') = Len(challenges)
    /\ \A j \in 1 .. Len(challenges) :
         /\ challenges'[j].principal = challenges[j].principal
         /\ challenges'[j].consumed = IF j = c THEN TRUE ELSE challenges[j].consumed

LEMMA ConsumedEntry ==
    ASSUME SignInv, NEW c \in 1 .. Len(challenges), NEW e \in Challenge,
           challenges' = [challenges EXCEPT ![c] = e],
           e.principal = challenges[c].principal, e.consumed = TRUE
    PROVE  Consumed(c)
<1>1. challenges \in Seq(Challenge)
  BY DEF SignInv, Typed
<1>2. /\ challenges' \in Seq(Challenge) /\ Len(challenges') = Len(challenges)
      /\ \A j \in 1 .. Len(challenges) : challenges'[j] = IF j = c THEN e ELSE challenges[j]
  BY <1>1, UpdateOfSeq
<1>3. ASSUME NEW j \in 1 .. Len(challenges)
      PROVE  /\ challenges'[j].principal = challenges[j].principal
             /\ challenges'[j].consumed = IF j = c THEN TRUE ELSE challenges[j].consumed
  <2>1. CASE j = c
    <3>1. challenges'[j] = e
      BY <1>2, <2>1
    <3> QED
      BY <2>1, <3>1
  <2>2. CASE j # c
    <3>1. challenges'[j] = challenges[j]
      BY <1>2, <2>2
    <3> QED
      BY <2>2, <3>1
  <2> QED
    BY <2>1, <2>2
<1> QED
  BY <1>2, <1>3 DEF Consumed

LEMMA ConsumedChallenge ==
    ASSUME SignInv, NEW c \in 1 .. Len(challenges),
           challenges' = [challenges EXCEPT ![c].consumed = TRUE]
    PROVE  Consumed(c)
<1>1. challenges \in Seq(Challenge) /\ challenges[c] \in Challenge
  BY DEF SignInv, Typed
<1>2. PICK e \in Challenge :
        /\ challenges' = [challenges EXCEPT ![c] = e]
        /\ e.principal = challenges[c].principal /\ e.consumed = TRUE
  <2> DEFINE e == [challenges[c] EXCEPT !.consumed = TRUE]
  <2>1. e \in Challenge /\ e.principal = challenges[c].principal /\ e.consumed = TRUE
    BY <1>1 DEF Challenge
  <2>2. challenges' = [challenges EXCEPT ![c] = e]
    OBVIOUS
  <2> QED
    BY <2>1, <2>2
<1> QED
  BY <1>2, ConsumedEntry

\* Principals and passkeys are kept, and what is added is the request's own.
Kept(q) ==
    /\ principals' \in Seq(People) /\ passkeys' \in Seq(Passkey)
    /\ Len(principals) <= Len(principals') /\ Len(passkeys) <= Len(passkeys')
    /\ \A p \in 1 .. Len(principals) : principals'[p] = principals[p]
    /\ \A p \in 1 .. Len(principals') :
         p \notin 1 .. Len(principals) => q.at = "inserted" /\ principals'[p] = q.who
    /\ \A k \in 1 .. Len(passkeys) : /\ passkeys'[k].principal = passkeys[k].principal
                                     /\ passkeys'[k].holder = passkeys[k].holder
                                     /\ passkeys'[k].by = passkeys[k].by

LEMMA CommitRequests ==
    ASSUME SignInv, NEW r \in Requests, Holding(request[r]),
           Consumed(request[r].ch), Kept(request[r]), RequestGoes(r, NoRequest)
    PROVE  request' \in [Requests -> RequestType] /\ RequestsOK'
<1> DEFINE q == request[r]
<1>1. /\ request' \in [Requests -> RequestType]
      /\ \A o \in Requests : request'[o] = IF o = r THEN NoRequest ELSE request[o]
  BY NoRequestIsOK DEF SignInv, Typed, RequestGoes
<1>2. ASSUME NEW o \in Requests PROVE RequestOK(request[o])'
  <2>1. CASE o = r
    BY <1>1, <2>1, NoRequestIsOK DEF RequestOK, Holding
  <2>2. CASE o # r
    <3>1. RequestOK(request[o]) /\ Exclusive(request[o], q) /\ request[o] \in RequestType
      BY <2>2, TheRequest
    <3>2. request'[o] = request[o]
      BY <1>1, <2>2
    <3>3. Len(passkeys) \in Nat /\ Len(passkeys') \in Nat /\ Len(principals) \in Nat /\ Len(principals') \in Nat
      BY DEF SignInv, Typed, Kept
    <3>4. \A p, u : Is(p, u) => Is(p, u)'
      BY <3>3 DEF Is, Kept
    <3>5. /\ Holding(request[o]) => ~challenges'[request[o].ch].consumed
          /\ request[o].at = "inserted" => \A p \in 1 .. Len(principals') : principals'[p] # request[o].who
      BY <3>1, <3>3 DEF RequestOK, Exclusive, Holding, Consumed, Kept
    <3>6. /\ request[o].at \in {"calling", "consumed", "new", "inserted", "signing"} =>
               /\ request[o].ch \in 1 .. Len(challenges') /\ request[o].who \in People
               /\ request[o].key \in 0 .. Len(passkeys')
          /\ request[o].at = "consumed" /\ request[o].kind = "register" =>
               challenges'[request[o].ch].principal = request[o].principal
          /\ request[o].at \in {"calling", "consumed"} /\ request[o].kind = "authenticate" =>
               request[o].key \in 1 .. Len(passkeys') /\ passkeys'[request[o].key].holder = request[o].who
      <4>1. /\ request[o].at \in {"calling", "consumed", "new", "inserted", "signing"} =>
                 /\ request[o].ch \in 1 .. Len(challenges) /\ request[o].who \in People
                 /\ request[o].key \in 0 .. Len(passkeys)
            /\ request[o].at = "consumed" /\ request[o].kind = "register" =>
                 challenges[request[o].ch].principal = request[o].principal
            /\ request[o].at \in {"calling", "consumed"} /\ request[o].kind = "authenticate" =>
                 request[o].key \in 1 .. Len(passkeys) /\ passkeys[request[o].key].holder = request[o].who
        BY <3>1 DEF RequestOK
      <4>2. /\ Len(passkeys) <= Len(passkeys') /\ Len(challenges') = Len(challenges)
            /\ \A j \in 1 .. Len(challenges) : challenges'[j].principal = challenges[j].principal
            /\ \A k \in 1 .. Len(passkeys) : passkeys'[k].holder = passkeys[k].holder
        BY DEF Consumed, Kept
      <4> QED
        BY <3>3, <4>1, <4>2
    <3>7. request[o].principal \in Nat
      BY <3>1 DEF RequestType
    <3>8. /\ request[o].at \in {"calling", "consumed"} /\ request[o].kind = "register" =>
               Is(request[o].principal, request[o].who)'
          /\ request[o].at = "signing" => Is(request[o].principal, request[o].who)'
      BY <3>1, <3>2, <3>4, <3>7 DEF RequestOK, Is
    <3> QED
      BY <3>2, <3>5, <3>6, <3>8 DEF RequestOK, Holding
  <2> QED
    BY <2>1, <2>2
<1>3. ASSUME NEW x \in Requests, NEW y \in Requests, x # y PROVE Exclusive(request[x], request[y])'
  <2>1. Exclusive(request[x], request[y])
    BY <1>3 DEF SignInv, RequestsOK
  <2> QED
    BY <1>1, <1>3, <2>1, NoRequestIsOK DEF Exclusive, Holding
<1> QED
  BY <1>1, <1>2, <1>3 DEF RequestsOK

LEMMA SignInStep ==
    ASSUME SignInv, NEW r \in Requests, SignIn(r)
    PROVE  SignInv'
<1> DEFINE q == request[r]
           n == IF q.at = "inserted" THEN Len(principals) + 1 ELSE q.principal
<1>1. q \in RequestType /\ RequestOK(q) /\ q.at \in {"signing", "inserted"}
  BY TheRequest DEF SignIn
<1>2. /\ q.ch \in 1 .. Len(challenges) /\ q.who \in People /\ q.key \in 0 .. Len(passkeys)
      /\ ~challenges[q.ch].consumed /\ Holding(q)
  BY <1>1 DEF RequestOK, Holding
<1>3. Consumed(q.ch)
  BY <1>2, ConsumedChallenge DEF SignIn
<1>4. /\ principals' \in Seq(People) /\ Len(principals) <= Len(principals')
      /\ \A p \in 1 .. Len(principals) : principals'[p] = principals[p]
      /\ \A p \in 1 .. Len(principals') :
           p \notin 1 .. Len(principals) => q.at = "inserted" /\ principals'[p] = q.who
      /\ n \in 1 .. Len(principals') /\ principals'[n] = q.who /\ n \in Nat
  <2>1. principals \in Seq(People)
    BY DEF SignInv, Typed
  <2>2. CASE q.at = "inserted"
    <3>1. principals' = Append(principals, q.who) /\ n = Len(principals) + 1
      BY <2>2 DEF SignIn
    <3> QED
      BY <1>2, <2>1, <2>2, <3>1, AppendToSeq
  <2>3. CASE q.at = "signing"
    <3>1. principals' = principals /\ n = q.principal /\ Is(q.principal, q.who)
      BY <1>1, <2>3 DEF SignIn, RequestOK
    <3> QED
      BY <1>1, <2>1, <2>3, <3>1 DEF Is, RequestType
  <2> QED
    BY <1>1, <2>2, <2>3
<1>5. /\ passkeys' \in Seq(Passkey) /\ Len(passkeys') = Len(passkeys)
      /\ \A k \in 1 .. Len(passkeys) : /\ passkeys'[k].principal = passkeys[k].principal
                                       /\ passkeys'[k].holder = passkeys[k].holder
                                       /\ passkeys'[k].by = passkeys[k].by
  <2>1. passkeys \in Seq(Passkey)
    BY DEF SignInv, Typed
  <2>2. CASE q.key = 0
    BY <2>1, <2>2 DEF SignIn
  <2>3. CASE q.key # 0
    <3>1. q.key \in 1 .. Len(passkeys) /\ passkeys[q.key] \in Passkey
      BY <1>2, <2>1, <2>3
    <3>2. PICK e \in Passkey :
            /\ passkeys' = [passkeys EXCEPT ![q.key] = e]
            /\ e.principal = passkeys[q.key].principal /\ e.holder = passkeys[q.key].holder
            /\ e.by = passkeys[q.key].by
      <4> DEFINE e == [passkeys[q.key] EXCEPT !.counter = q.signed]
      <4>1. /\ e \in Passkey
            /\ e.principal = passkeys[q.key].principal /\ e.holder = passkeys[q.key].holder
            /\ e.by = passkeys[q.key].by
        BY <1>1, <3>1 DEF Passkey, RequestType
      <4>2. passkeys' = [passkeys EXCEPT ![q.key] = e]
        BY <2>3 DEF SignIn
      <4> QED
        BY <4>1, <4>2
    <3>3. /\ passkeys' \in Seq(Passkey) /\ Len(passkeys') = Len(passkeys)
          /\ \A k \in 1 .. Len(passkeys) : passkeys'[k] = IF k = q.key THEN e ELSE passkeys[k]
      BY <2>1, <3>1, <3>2, UpdateOfSeq
    <3> QED
      BY <3>2, <3>3
  <2> QED
    BY <2>2, <2>3
<1> HIDE DEF n
<1>6. PICK e \in Session :
        sessions' = Append(sessions, e) /\ e.principal = n /\ e.by = q.ch /\ e.who = q.who
  <2> DEFINE e == [principal |-> n, live |-> TRUE, by |-> q.ch, who |-> q.who]
  <2>1. e \in Session /\ e.principal = n /\ e.by = q.ch /\ e.who = q.who
    BY <1>1, <1>2, <1>4 DEF Session, RequestType
  <2>2. sessions' = Append(sessions, e)
    BY DEF SignIn, n
  <2> QED
    BY <2>1, <2>2
<1>7. /\ sessions' \in Seq(Session) /\ Len(sessions') = Len(sessions) + 1 /\ Len(sessions) \in Nat
      /\ \A s \in 1 .. Len(sessions) : sessions'[s] = sessions[s]
      /\ sessions'[Len(sessions) + 1] = e
  BY <1>6, AppendToSeq DEF SignInv, Typed
<1>8. Kept(q)
  BY <1>4, <1>5, TheRequest DEF Kept
<1>9. request' \in [Requests -> RequestType] /\ RequestsOK'
  BY <1>2, <1>3, <1>8, CommitRequests DEF SignIn
<1>10. Typed'
  BY <1>3, <1>4, <1>5, <1>7, <1>9 DEF Typed, Consumed
<1>11. RowsAreTheirs'
  <2>0. Len(principals) \in Nat /\ Len(principals') \in Nat
    BY <1>4 DEF SignInv, Typed
  <2>1. \A p, u : Is(p, u) => Is(p, u)'
    BY <1>4, <2>0 DEF Is
  <2>2. ASSUME NEW s \in 1 .. Len(sessions')
        PROVE  Is(sessions[s].principal, sessions[s].who)' /\ sessions'[s].by \in 1 .. Len(challenges')
    <3>1. CASE s = Len(sessions) + 1
      <4>1. sessions'[s].principal = n /\ sessions'[s].who = q.who /\ sessions'[s].by = q.ch
        BY <1>6, <1>7, <3>1
      <4>2. q.ch \in 1 .. Len(challenges')
        BY <1>2, <1>3 DEF Consumed
      <4> QED
        BY <1>4, <4>1, <4>2 DEF Is
    <3>2. CASE s # Len(sessions) + 1
      <4>1. /\ s \in 1 .. Len(sessions) /\ sessions'[s] = sessions[s]
            /\ Is(sessions[s].principal, sessions[s].who) /\ sessions[s].by \in 1 .. Len(challenges)
        BY <1>7, <3>2 DEF SignInv, RowsAreTheirs
      <4> QED
        BY <1>3, <2>1, <4>1 DEF Consumed, Is
    <3> QED
      BY <3>1, <3>2
  <2>3. ASSUME NEW k \in 1 .. Len(passkeys')
        PROVE  Is(passkeys[k].principal, passkeys[k].holder)' /\ passkeys'[k].by \in 1 .. Len(challenges')
    <3>1. Is(passkeys[k].principal, passkeys[k].holder) /\ passkeys[k].by \in 1 .. Len(challenges)
      BY <1>5 DEF SignInv, RowsAreTheirs
    <3> QED
      BY <1>3, <1>5, <2>1, <3>1 DEF Consumed, Is
  <2> QED
    BY <2>2, <2>3 DEF RowsAreTheirs
<1>12. PaysOnce'
  <2>1. /\ \A s \in 1 .. Len(sessions) : sessions[s].by # q.ch
        /\ \A k \in 1 .. Len(passkeys) : passkeys[k].by # q.ch
    BY <1>2 DEF SignInv, PaysOnce
  <2>2. \A s, t \in 1 .. Len(sessions') : sessions'[s].by = sessions'[t].by => s = t
    BY <1>6, <1>7, <2>1 DEF SignInv, PaysOnce
  <2>3. \A k, l \in 1 .. Len(passkeys') : passkeys'[k].by = passkeys'[l].by => k = l
    BY <1>5 DEF SignInv, PaysOnce
  <2>4. \A s \in 1 .. Len(sessions'), k \in 1 .. Len(passkeys') : sessions'[s].by # passkeys'[k].by
    BY <1>5, <1>6, <1>7, <2>1 DEF SignInv, PaysOnce
  <2>5. ASSUME NEW c \in 1 .. Len(challenges')
        PROVE  challenges'[c].consumed <=> \/ \E s \in 1 .. Len(sessions') : sessions'[s].by = c
                                           \/ \E k \in 1 .. Len(passkeys') : passkeys'[k].by = c
    <3>1. CASE c = q.ch
      <4>1. challenges'[c].consumed = TRUE
        BY <1>2, <1>3, <3>1 DEF Consumed
      <4>2. Len(sessions) + 1 \in 1 .. Len(sessions') /\ sessions'[Len(sessions) + 1].by = c
        BY <1>6, <1>7, <3>1
      <4> QED
        BY <4>1, <4>2
    <3>2. CASE c # q.ch
      <4>1. (\E s \in 1 .. Len(sessions') : sessions'[s].by = c)
               <=> \E s \in 1 .. Len(sessions) : sessions[s].by = c
        BY <1>6, <1>7, <3>2
      <4>2. (\E k \in 1 .. Len(passkeys') : passkeys'[k].by = c)
               <=> \E k \in 1 .. Len(passkeys) : passkeys[k].by = c
        BY <1>5
      <4>3. c \in 1 .. Len(challenges) /\ challenges'[c].consumed = challenges[c].consumed
        BY <1>3, <3>2 DEF Consumed
      <4> QED
        BY <4>1, <4>2, <4>3 DEF SignInv, PaysOnce
    <3> QED
      BY <3>1, <3>2
  <2> QED
    BY <2>2, <2>3, <2>4, <2>5 DEF PaysOnce
<1>13. OnePrincipal'
  <2>1. q.at = "inserted" => \A p \in 1 .. Len(principals) : principals[p] # q.who
    BY <1>1 DEF RequestOK
  <2>2. q.at # "inserted" => principals' = principals
    BY DEF SignIn
  <2>3. q.at = "inserted" => Len(principals') = Len(principals) + 1 /\ Len(principals) \in Nat
    BY <1>2, AppendToSeq DEF SignIn, SignInv, Typed
  <2>4. CASE q.at = "inserted"
    BY <1>4, <2>1, <2>3, <2>4 DEF SignInv, OnePrincipal
  <2>5. CASE q.at # "inserted"
    BY <2>2, <2>5 DEF SignInv, OnePrincipal
  <2> QED
    BY <2>4, <2>5
<1> QED
  BY <1>9, <1>10, <1>11, <1>12, <1>13 DEF SignInv

LEMMA RegisterStep ==
    ASSUME SignInv, NEW r \in Requests, Register(r)
    PROVE  SignInv'
<1> DEFINE q == request[r]
<1>1. q \in RequestType /\ RequestOK(q) /\ q.at = "consumed" /\ q.kind = "register"
  BY TheRequest DEF Register
<1>2. /\ q.ch \in 1 .. Len(challenges) /\ q.who \in People
      /\ ~challenges[q.ch].consumed /\ Holding(q) /\ Is(challenges[q.ch].principal, q.who)
  BY <1>1 DEF RequestOK, Holding
<1>3. Consumed(q.ch)
  BY <1>2, ConsumedChallenge DEF Register
<1>4. UNCHANGED <<principals, sessions>>
  BY DEF Register
<1>5. PICK e \in Passkey :
        /\ passkeys' = Append(passkeys, e)
        /\ e.principal = challenges[q.ch].principal /\ e.by = q.ch /\ e.holder = q.who
  <2> DEFINE e == [principal |-> challenges[q.ch].principal, holder |-> q.who,
                   counter |-> 0, signed |-> 0, by |-> q.ch]
  <2>1. challenges[q.ch].principal \in Nat /\ q.ch \in Nat
    BY <1>1, <1>2, TheRequest DEF Challenge, RequestType
  <2>2. e \in Passkey /\ e.principal = challenges[q.ch].principal /\ e.by = q.ch /\ e.holder = q.who
    BY <1>2, <2>1 DEF Passkey
  <2>3. passkeys' = Append(passkeys, e)
    BY DEF Register
  <2> QED
    BY <2>2, <2>3
<1>6. /\ passkeys' \in Seq(Passkey) /\ Len(passkeys') = Len(passkeys) + 1 /\ Len(passkeys) \in Nat
      /\ \A k \in 1 .. Len(passkeys) : passkeys'[k] = passkeys[k]
      /\ passkeys'[Len(passkeys) + 1] = e
  BY <1>5, AppendToSeq DEF SignInv, Typed
<1>7. Kept(q)
  <2>1. principals' = principals /\ principals \in Seq(People) /\ Len(principals) \in Nat
    BY <1>4 DEF SignInv, Typed
  <2>2. Len(principals) <= Len(principals') /\ Len(passkeys) <= Len(passkeys')
    BY <1>6, <2>1
  <2> HIDE DEF q
  <2> QED
    BY <1>6, <2>1, <2>2 DEF Kept
<1>8. request' \in [Requests -> RequestType] /\ RequestsOK'
  BY <1>2, <1>3, <1>7, CommitRequests DEF Register
<1>9. Typed' /\ OnePrincipal'
  BY <1>3, <1>4, <1>6, <1>8 DEF SignInv, Typed, OnePrincipal, Consumed
<1>10. RowsAreTheirs'
  <2>1. \A s \in 1 .. Len(sessions') : /\ Is(sessions[s].principal, sessions[s].who)'
                                       /\ sessions'[s].by \in 1 .. Len(challenges')
    BY <1>3, <1>4 DEF SignInv, RowsAreTheirs, Consumed, Is
  <2>2. ASSUME NEW k \in 1 .. Len(passkeys')
        PROVE  Is(passkeys[k].principal, passkeys[k].holder)' /\ passkeys'[k].by \in 1 .. Len(challenges')
    <3>1. CASE k = Len(passkeys) + 1
      BY <1>2, <1>3, <1>4, <1>5, <1>6, <3>1 DEF Consumed, Is
    <3>2. CASE k # Len(passkeys) + 1
      <4>1. /\ passkeys'[k] = passkeys[k]
            /\ Is(passkeys[k].principal, passkeys[k].holder) /\ passkeys[k].by \in 1 .. Len(challenges)
        BY <1>6, <3>2 DEF SignInv, RowsAreTheirs
      <4> QED
        BY <1>3, <1>4, <4>1 DEF Consumed, Is
    <3> QED
      BY <3>1, <3>2
  <2> QED
    BY <2>1, <2>2 DEF RowsAreTheirs
<1>11. PaysOnce'
  <2>1. /\ \A s \in 1 .. Len(sessions) : sessions[s].by # q.ch
        /\ \A k \in 1 .. Len(passkeys) : passkeys[k].by # q.ch
    BY <1>2 DEF SignInv, PaysOnce
  <2>2. \A s, t \in 1 .. Len(sessions') : sessions'[s].by = sessions'[t].by => s = t
    BY <1>4 DEF SignInv, PaysOnce
  <2>3. \A k, l \in 1 .. Len(passkeys') : passkeys'[k].by = passkeys'[l].by => k = l
    BY <1>5, <1>6, <2>1 DEF SignInv, PaysOnce
  <2>4. \A s \in 1 .. Len(sessions'), k \in 1 .. Len(passkeys') : sessions'[s].by # passkeys'[k].by
    BY <1>4, <1>5, <1>6, <2>1 DEF SignInv, PaysOnce
  <2>5. ASSUME NEW c \in 1 .. Len(challenges')
        PROVE  challenges'[c].consumed <=> \/ \E s \in 1 .. Len(sessions') : sessions'[s].by = c
                                           \/ \E k \in 1 .. Len(passkeys') : passkeys'[k].by = c
    <3>1. CASE c = q.ch
      <4>1. challenges'[c].consumed = TRUE
        BY <1>2, <1>3, <3>1 DEF Consumed
      <4>2. Len(passkeys) + 1 \in 1 .. Len(passkeys') /\ passkeys'[Len(passkeys) + 1].by = c
        BY <1>5, <1>6, <3>1
      <4> QED
        BY <4>1, <4>2
    <3>2. CASE c # q.ch
      <4>1. (\E k \in 1 .. Len(passkeys') : passkeys'[k].by = c)
               <=> \E k \in 1 .. Len(passkeys) : passkeys[k].by = c
        BY <1>5, <1>6, <3>2
      <4>2. c \in 1 .. Len(challenges) /\ challenges'[c].consumed = challenges[c].consumed
        BY <1>3, <3>2 DEF Consumed
      <4> QED
        BY <1>4, <4>1, <4>2 DEF SignInv, PaysOnce
    <3> QED
      BY <3>1, <3>2
  <2> QED
    BY <2>2, <2>3, <2>4, <2>5 DEF PaysOnce
<1> QED
  BY <1>8, <1>9, <1>10, <1>11 DEF SignInv

-----------------------------------------------------------------------------
(* Every step keeps the invariant. *)
LEMMA SignStep == SignInv /\ [IdentityNext]_identityVars => SignInv'
<1> SUFFICES ASSUME SignInv, [IdentityNext]_identityVars PROVE SignInv'
  OBVIOUS
<1>1. CASE UNCHANGED identityVars
  BY <1>1, UnchangedIsAlike, NoRequestMoves DEF identityVars
<1>2. CASE StartOidc \/ \E p \in DOMAIN principals : AuthenticationOptions(p)
  BY <1>2, StartStep
<1>3. ASSUME NEW r \in Requests, Serve(r) \/ Refuse(r) PROVE SignInv'
  BY <1>3, OptionsStep, ConsumeStep, FindStep, InsertStep, ReadPasskeyStep, SignInStep,
     RegisterStep, RefuseStep DEF Serve
<1>4. ASSUME NEW r \in Requests, NEW s \in DOMAIN sessions,
             \/ ResolveSession(r, s, "options", 0)
             \/ \E c \in DOMAIN challenges : ResolveSession(r, s, "calling", c)
      PROVE  SignInv'
  BY <1>4, ResolveStep
<1>5. ASSUME NEW r \in Requests, NEW c \in DOMAIN challenges,
             \/ \E u \in People : Callback(r, c, u)
             \/ \E k \in DOMAIN passkeys : AssertPasskey(r, c, k)
      PROVE  SignInv'
  BY <1>5, CallbackStep, AssertStep
<1>6. CASE \E c \in DOMAIN challenges : ChallengeExpires(c)
  BY <1>6, ExpiryStep
<1>7. CASE \E s \in DOMAIN sessions : EndSession(s)
  BY <1>7, EndStep
<1> QED
  BY <1>1, <1>2, <1>3, <1>4, <1>5, <1>6, <1>7 DEF IdentityNext

(* However many people sign in, register passkeys and answer challenges at *)
(* once, twice, late or under another's session: a challenge pays for one  *)
(* session or credential, which is its person's, and a subject has one     *)
(* principal (consumeChallenge and the sign-in routes of identity.ts).     *)
THEOREM SignInsStaySound == IdentitySpec => []SignInsAreSound
<1>1. IdentityInit => SignInv
  BY SignInit
<1>2. SignInv /\ [IdentityNext]_identityVars => SignInv'
  BY SignStep
<1>3. SignInv => SignInsAreSound
  BY SignInvIsSound
<1> QED
  BY <1>1, <1>2, <1>3, PTL DEF IdentitySpec
=============================================================================
