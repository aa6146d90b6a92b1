------------------------------ MODULE Gateway ------------------------------
(***************************************************************************)
(* The intelligence gateway: which model answers, what it may be shown and *)
(* what it costs (packages/intelligence-gateway, apps/api/src/             *)
(* intelligence-gateway.ts, runConfiguredAdapter of semantic-reasoning.ts, *)
(* model-adapters.ts).                                                     *)
(*                                                                         *)
(* A question runs in one PostgreSQL transaction, which stays open while   *)
(* it calls the providers of its chain one after the other: what it writes *)
(* (receipt, ledger, provider health) shows at COMMIT, and a provider's    *)
(* health row is locked from the first write to the end.                   *)
(*                                                                         *)
(* Abstracted: cost is one number a provider, tokens and capabilities are  *)
(* left out, the ranking by score is any (latencies change it), one        *)
(* principal and month; texts are AnswerText.  The patterns by which a text*)
(* is classified are abstracted: `found` is what they find in the question *)
(* and the first 100,000 characters of its evidence, `held` what they would*)
(* find in all of it, which is what a provider is sent.                    *)
(***************************************************************************)
EXTENDS Naturals, Sequences, FiniteSets, SequencesExt, FiniteSetsExt

CONSTANTS Callers,       \* questions the API may be serving at once
          Local, Cloud,  \* providers on the device, and elsewhere
          Builtin,       \* local:deterministic
          Cost,          \* the estimated cost of a question at each provider
          Strong,        \* providers above the quality floor of a generation
          Policies,      \* environments a process may have
          Packages,      \* [found, held]: what a question's evidence is classified as, and is
          Budget, MaxRequest,   \* the monthly ceiling, and that of a question
          MaxCalls       \* bound: questions

GatewayAssumption ==
    /\ Builtin \in Local \ Strong /\ Local \cap Cloud = {} /\ IsFiniteSet(Local \cup Cloud)
    /\ IsFiniteSet(Callers) /\ Callers # {}
    /\ Budget \in Nat /\ MaxRequest \in Nat
    /\ Cost \in [Local \cup Cloud -> Nat] /\ \A p \in Local : Cost[p] = 0

ASSUME GatewayAssumption

Levels == {"plain", "confidential", "restricted"}

\* The highest classification wins, and there is no more in a part than in the whole.
PackagesAssumption ==
    /\ Policies \subseteq [offline : BOOLEAN, network : BOOLEAN, disclosed : SUBSET Levels]
    /\ Policies # {}
    /\ Packages \subseteq [found : Levels, held : Levels]
    /\ \A e \in Packages : \/ e.found = e.held \/ e.found = "plain" \/ e.held = "restricted"

ASSUME PackagesAssumption

Providers == Local \cup Cloud

VARIABLES policy,     \* the environment of the process
          health,     \* intelligence_provider_health of the last five minutes
          receipts,   \* intelligence_disclosure_receipts
          ledger,     \* intelligence_budget_ledger: receipt and amount
          sent,       \* what left the device, to whom and under which policy
          begun,      \* how many questions began
          call        \* the transaction of each caller

gatewayVars == <<policy, health, receipts, ledger, sent, begun, call>>

\* What a policy lets leave the device: CERVEL_OFFLINE_ONLY, CERVEL_ALLOW_MODEL_NETWORK,
\* CERVEL_ALLOW_CONFIDENTIAL_EXTERNAL and CERVEL_ALLOW_RESTRICTED_EXTERNAL.
Allowed(env, level) ==
    ~env.offline /\ env.network /\ (level = "plain" \/ level \in env.disclosed)

NothingAsked == [found |-> "plain", held |-> "plain"]

NoCall == [at |-> "idle", id |-> 0, mode |-> "generation", package |-> NothingAsked, chain |-> <<>>,
           next |-> 1, locked |-> {}, bad |-> {}]

GatewayInit ==
    /\ policy \in Policies
    /\ health = [p \in Providers |-> TRUE]
    /\ receipts = {} /\ ledger = {} /\ sent = {} /\ begun = 0
    /\ call = [c \in Callers |-> NoCall]

Spent == MapThenSumSet(LAMBDA e : e.amount, ledger)

-----------------------------------------------------------------------------
(* planRoute                                                               *)

\* The floor of a generation, .68 at least, is lowered to .55 when offline.
GoodEnough(p, mode) == (mode = "generation" /\ ~policy.offline) => p \in Strong

\* Mutant: spending up to the budget, whatever this question costs.
EligibleUntilSpent(p, mode, level) ==
    /\ health[p] /\ Cost[p] <= MaxRequest /\ Spent <= Budget
    /\ GoodEnough(p, mode)
    /\ p \in Cloud => Allowed(policy, level)

Eligible(p, mode, level) ==
    /\ health[p] /\ Cost[p] <= MaxRequest /\ Spent + Cost[p] <= Budget
    /\ GoodEnough(p, mode)
    /\ p \in Cloud => Allowed(policy, level)

\* Mutant: the fallbacks are all that are healthy.
ChainsOfHealthy(mode, level) ==
    LET good == {p \in Providers : Eligible(p, mode, level)} IN
    {s \in SetToSeqs({p \in Providers : health[p]}) :
        /\ Head(s) \in good
        /\ (mode = "retrieval" /\ good \cap Local # {}) => Head(s) \in Local}

\* The selected provider and its fallbacks; a retrieval prefers a local one.
Chains(mode, level) ==
    LET good == {p \in Providers : Eligible(p, mode, level)} IN
    {s \in SetToSeqs(good) :
        /\ s # <<>>
        /\ (mode = "retrieval" /\ good \cap Local # {}) => Head(s) \in Local}

\* prepareGateway: the plan is made of what is committed now, and of what the
\* classifier found.  Without a candidate, as when no provider is good enough and
\* the network is not allowed, the request fails (INTELLIGENCE_ROUTE_UNAVAILABLE).
Prepare(c, mode, package) ==
    /\ call[c].at = "idle" /\ begun < MaxCalls /\ begun' = begun + 1
    /\ \E s \in Chains(mode, package.found) :
         call' = [call EXCEPT ![c] = [NoCall EXCEPT
                !.id = begun + 1, !.mode = mode, !.package = package, !.chain = s,
                !.at = IF mode = "retrieval" \/ Head(s) = Builtin THEN "nothing" ELSE "asking"]]
    /\ UNCHANGED <<policy, health, receipts, ledger, sent>>

-----------------------------------------------------------------------------
(* runConfiguredAdapter                                                    *)

\* COMMIT: the receipt, the ledger entry if the answer costs, and the health rows.
\* external_disclosure stays what the plan said of the selected provider.
Complete(c, provider, status, amount) ==
    LET q == call[c] IN
    /\ receipts' = receipts \cup {[id |-> q.id, provider |-> provider, status |-> status,
                                external |-> Head(q.chain) \in Cloud]}
    /\ ledger' = IF amount = 0 THEN ledger ELSE ledger \cup {[id |-> q.id, amount |-> amount]}
    /\ health' = [p \in Providers |-> IF p \in q.locked THEN p \notin q.bad ELSE health[p]]
    /\ call' = [call EXCEPT ![c] = NoCall] /\ UNCHANGED <<policy, sent, begun>>

\* Retrieval without generation: nobody is asked.
AnswerFromVault(c) == call[c].at = "nothing" /\ Complete(c, Builtin, "retrieval_only", 0)

Current(q) == q.chain[q.next]

\* adapterFor: the built-in one has no adapter and is passed over.
Pass(c) ==
    LET q == call[c] IN
    /\ q.at = "asking" /\ q.next <= Len(q.chain) /\ Current(q) = Builtin
    /\ call' = [call EXCEPT ![c].next = @ + 1]
    /\ UNCHANGED <<policy, health, receipts, ledger, sent, begun>>

\* fetch: the evidence is on its way.
Send(c) ==
    LET q == call[c] IN
    /\ q.at = "asking" /\ q.next <= Len(q.chain) /\ Current(q) # Builtin
    /\ sent' = IF Current(q) \in Local THEN sent
               ELSE sent \cup {[id |-> q.id, provider |-> Current(q),
                                policy |-> policy, package |-> q.package]}
    /\ call' = [call EXCEPT ![c].at = "sent"]
    /\ UNCHANGED <<policy, health, receipts, ledger, begun>>

\* It answers, or it fails or is out of time.
Respond(c, ok) ==
    LET q == call[c] IN
    /\ q.at = "sent"
    /\ call' = [call EXCEPT ![c].at = "recording",
                            ![c].bad = IF ok THEN @ \ {Current(q)} ELSE @ \cup {Current(q)}]
    /\ UNCHANGED <<policy, health, receipts, ledger, sent, begun>>

WaitsForHealth(c, o) ==
    /\ c # o /\ call[c].at = "recording" /\ Current(call[c]) \in call[o].locked

\* recordProviderHealth: the upsert waits for whoever wrote the row.
Record(c) ==
    LET q == call[c] IN
    /\ q.at = "recording" /\ ~ \E o \in Callers : WaitsForHealth(c, o)
    /\ call' = [call EXCEPT ![c] = [q EXCEPT !.locked = @ \cup {Current(q)},
                    !.at = IF Current(q) \in q.bad THEN "asking" ELSE "answered",
                    !.next = IF Current(q) \in q.bad THEN @ + 1 ELSE @]]
    /\ UNCHANGED <<policy, health, receipts, ledger, sent, begun>>

Charge(c) ==
    LET q == call[c] IN
    q.at = "answered" /\ Complete(c, Current(q), "succeeded", Cost[Current(q)])

\* The chain is exhausted: the deterministic answer stands.
GiveUp(c) ==
    LET q == call[c] IN
    /\ q.at = "asking" /\ q.next > Len(q.chain)
    /\ IF \E i \in DOMAIN q.chain : q.chain[i] = Builtin
       THEN Complete(c, Builtin, "succeeded", 0) ELSE Complete(c, Head(q.chain), "failed", 0)

\* The two that wait for each other's rows: PostgreSQL ends one.
EndDeadlock(c) ==
    /\ \E S \in SUBSET Callers : c \in S /\ \A x \in S : \E o \in S : WaitsForHealth(x, o)
    /\ call' = [call EXCEPT ![c] = NoCall]
    /\ UNCHANGED <<policy, health, receipts, ledger, sent, begun>>

-----------------------------------------------------------------------------
(* The process ends, whatever it was doing, and starts with another        *)
(* environment; five minutes go by.                                        *)
Redeploy(p) ==
    /\ p # policy /\ policy' = p /\ call' = [c \in Callers |-> NoCall]
    /\ UNCHANGED <<health, receipts, ledger, sent, begun>>

HealthExpires(p) ==
    /\ ~health[p] /\ health' = [health EXCEPT ![p] = TRUE]
    /\ UNCHANGED <<policy, receipts, ledger, sent, begun, call>>

GatewayStep(c) == \/ AnswerFromVault(c) \/ Pass(c) \/ Send(c) \/ Record(c) \/ Charge(c) \/ GiveUp(c)
                  \/ EndDeadlock(c) \/ \E ok \in BOOLEAN : Respond(c, ok)

GatewayNext ==
    \/ \E c \in Callers : \/ GatewayStep(c)
                          \/ \E mode \in {"retrieval", "generation"}, package \in Packages :
                                Prepare(c, mode, package)
    \/ \E p \in Policies : Redeploy(p)
    \/ \E p \in Providers : HealthExpires(p)

GatewaySpec == GatewayInit /\ [][GatewayNext]_gatewayVars

-----------------------------------------------------------------------------
(* Evidence leaves the device only as the policy in force allows for what  *)
(* the classifier found in the question and the first 100,000 characters,  *)
(* at the first choice and at every fallback, also when the policy changes *)
(* (planRoute, runConfiguredAdapter).                                      *)
DisclosureIsAllowed == \A s \in sent : Allowed(s.policy, s.package.found)

(* Evidence leaves the device only as the policy allows for what is in it. *)
(* docs/INTELLIGENCE_GATEWAY.md says so: confidential packages leave only  *)
(* with CERVEL_ALLOW_CONFIDENTIAL_EXTERNAL.  What stands after the first   *)
(* 100,000 characters is sent and was never classified.                    *)
NothingConfidentialLeaves == \A s \in sent : Allowed(s.policy, s.package.held)

(* The month's spending exceeds the ceiling by no more than what the other *)
(* questions asked at the same time may cost: each plan reads the ledger   *)
(* before the others have committed.                                       *)
BudgetHolds == Spent <= Budget + (Cardinality(Callers) - 1) * MaxRequest

(* The ledger is what the providers that answered cost, question by        *)
(* question: no fallback is charged as the provider it replaced, and none  *)
(* that failed is charged.                                                 *)
LedgerMatchesReceipts ==
    ledger = {[id |-> e.id, amount |-> Cost[e.provider]] :
                 e \in {x \in receipts : x.status = "succeeded" /\ Cost[x.provider] > 0}}

(* The month's account is right: bounded, and made of what was answered.   *)
SpendingIsAccounted == BudgetHolds /\ LedgerMatchesReceipts
=============================================================================
