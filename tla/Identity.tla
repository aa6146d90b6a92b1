------------------------------ MODULE Identity ------------------------------
(***************************************************************************)
(* Sign-in at the API: OIDC, passkeys and workspace sessions               *)
(* (apps/api/src/identity.ts, identity-routes.ts, workspace.ts).           *)
(*                                                                         *)
(* Every handler runs in one PostgreSQL transaction (withTransaction), at  *)
(* READ COMMITTED: it reads what is committed, its own writes show at      *)
(* COMMIT, and an UPDATE or a unique INSERT waits for the transaction that *)
(* holds the row.  A request is cut where it awaits the provider or the    *)
(* passkey library and where it may wait for a row.  A handler guarded by  *)
(* a session resolves it in a transaction of its own, before.              *)
(*                                                                         *)
(* Abstracted: tokens, keys, signatures and profiles; one node and one     *)
(* workspace, those trustedAuthScope accepts; the duplicates of passkey    *)
(* account rows.  A person stands for the subject the provider names and   *)
(* for the holder of an authenticator.                                     *)
(***************************************************************************)
EXTENDS Naturals, Sequences, FiniteSets

CONSTANTS Requests,       \* requests the API may be serving at once
          People,         \* subjects at the provider
          MaxChallenges, MaxSessions, MaxPasskeys, MaxSigns   \* bounds

VARIABLES challenges,   \* auth_challenges, in the order they were made
          principals,   \* principals: the external subject of each
          passkeys,     \* passkey_credentials, and their authenticators' counters
          sessions,     \* workspace_sessions
          request       \* what each request is doing

identityVars == <<challenges, principals, passkeys, sessions, request>>

Kinds == {"oidc", "register", "authenticate"}

\* `who` is the person behind the request, `signed` the counter in its assertion.
NoRequest == [at |-> "idle", kind |-> "oidc", ch |-> 0, who |-> "nobody",
              principal |-> 0, key |-> 0, signed |-> 0]

IdentityInit ==
    /\ challenges = <<>> /\ principals = <<>> /\ passkeys = <<>> /\ sessions = <<>>
    /\ request = [r \in Requests |-> NoRequest]

RequestGoes(r, q) == request' = [request EXCEPT ![r] = q]

InTransaction(r) == request[r].at \in {"consumed", "new", "inserted", "signing"}

\* Room for one more row once every request under way has written its own: the
\* bounds hold requests back when they arrive, never in the middle.
Room(rows, max) == Len(rows) + Cardinality({r \in Requests : request[r].at # "idle"}) < max

\* SELECT id FROM principals WHERE external_subject=..., 0 for no row.
PrincipalOf(u) ==
    IF \E p \in DOMAIN principals : principals[p] = u
    THEN CHOOSE p \in DOMAIN principals : principals[p] = u ELSE 0

Issue(kind, p) ==
    challenges' = Append(challenges, [kind |-> kind, principal |-> p,
                                      consumed |-> FALSE, expired |-> FALSE])

(***************************************************************************)
(* Requests that issue a challenge.                                        *)
(***************************************************************************)
StartOidc ==
    /\ Room(challenges, MaxChallenges) /\ Issue("oidc", 0)
    /\ UNCHANGED <<principals, passkeys, sessions, request>>

\* The routes under a session resolve it first; the rest is another transaction.
ResolveSession(r, s, at, c) ==
    /\ request[r].at = "idle" /\ sessions[s].live
    /\ IF at = "options" THEN Room(challenges, MaxChallenges) ELSE Room(passkeys, MaxPasskeys)
    /\ RequestGoes(r, [NoRequest EXCEPT !.at = at, !.kind = "register", !.ch = c,
                                 !.who = principals[sessions[s].principal],
                                 !.principal = sessions[s].principal])
    /\ UNCHANGED <<challenges, principals, passkeys, sessions>>

RegistrationOptions(r) ==
    /\ request[r].at = "options"
    /\ Issue("register", request[r].principal) /\ RequestGoes(r, NoRequest)
    /\ UNCHANGED <<principals, passkeys, sessions>>

AuthenticationOptions(p) ==
    /\ \E k \in DOMAIN passkeys : passkeys[k].principal = p
    /\ Room(challenges, MaxChallenges) /\ Issue("authenticate", p)
    /\ UNCHANGED <<principals, passkeys, sessions, request>>

(***************************************************************************)
(* Requests that answer one.  An answer may come twice, late, or under     *)
(* another session than the challenge was issued to.                       *)
(***************************************************************************)
Callback(r, c, u) ==
    /\ request[r].at = "idle" /\ Room(sessions, MaxSessions)
    /\ RequestGoes(r, [NoRequest EXCEPT !.at = "calling", !.ch = c, !.who = u])
    /\ UNCHANGED <<challenges, principals, passkeys, sessions>>

\* The authenticator signs, counting up; the browser posts the assertion.
AssertPasskey(r, c, k) ==
    /\ request[r].at = "idle" /\ Room(sessions, MaxSessions) /\ passkeys[k].signed < MaxSigns
    /\ passkeys' = [passkeys EXCEPT ![k].signed = @ + 1]
    /\ RequestGoes(r, [NoRequest EXCEPT !.at = "calling", !.kind = "authenticate", !.ch = c, !.key = k,
                                 !.who = passkeys[k].holder, !.signed = passkeys[k].signed + 1])
    /\ UNCHANGED <<challenges, principals, sessions>>

\* Mutant: the challenge of whoever asked.
AnyPrincipalsChallenge(c, q) == c.kind = q.kind /\ ~c.consumed /\ ~c.expired

\* What consumeChallenge's WHERE clause asks.
Consumable(c, q) ==
    /\ c.kind = q.kind /\ ~c.consumed /\ ~c.expired
    /\ q.kind = "register" => c.principal = q.principal

\* UPDATE ... RETURNING: waits for the row, then looks at what was committed.
ConsumeChallenge(r) ==
    LET q == request[r] IN
    /\ q.at = "calling"
    /\ \A o \in Requests : ~ (InTransaction(o) /\ request[o].ch = q.ch)
    /\ RequestGoes(r, IF Consumable(challenges[q.ch], q) THEN [q EXCEPT !.at = "consumed"] ELSE NoRequest)
    /\ UNCHANGED <<challenges, principals, passkeys, sessions>>

\* The provider, the library or the database fails: ROLLBACK, the row as before.
Refuse(r) ==
    /\ InTransaction(r) /\ RequestGoes(r, NoRequest)
    /\ UNCHANGED <<challenges, principals, passkeys, sessions>>

\* After the token exchange: the subject's principal, if it has one.
FindPrincipal(r) ==
    LET p == PrincipalOf(request[r].who) IN
    /\ request[r].at = "consumed" /\ request[r].kind = "oidc"
    /\ RequestGoes(r, [request[r] EXCEPT !.principal = p, !.at = IF p = 0 THEN "new" ELSE "signing"])
    /\ UNCHANGED <<challenges, principals, passkeys, sessions>>

\* UNIQUE(node_id, external_subject): a second first sign-in waits for the
\* first, and fails once that one is committed.
InsertPrincipal(r) ==
    LET q == request[r] IN
    /\ q.at = "new"
    /\ \A o \in Requests : ~ (request[o].at = "inserted" /\ request[o].who = q.who)
    /\ RequestGoes(r, IF PrincipalOf(q.who) = 0 THEN [q EXCEPT !.at = "inserted"] ELSE NoRequest)
    /\ UNCHANGED <<challenges, principals, passkeys, sessions>>

\* The challenge's principal must own the credential, and the library wants a
\* counter above the stored one.
Verified(q) ==
    /\ passkeys[q.key].principal = challenges[q.ch].principal
    /\ q.signed > passkeys[q.key].counter

ReadPasskey(r) ==
    LET q == request[r] IN
    /\ q.at = "consumed" /\ q.kind = "authenticate"
    /\ RequestGoes(r, IF Verified(q)
               THEN [q EXCEPT !.at = "signing", !.principal = challenges[q.ch].principal]
               ELSE NoRequest)
    /\ UNCHANGED <<challenges, principals, passkeys, sessions>>

\* createWorkspaceSession, and COMMIT: everything the transaction wrote shows.
SignIn(r) ==
    LET q == request[r]
        p == IF q.at = "inserted" THEN Len(principals) + 1 ELSE q.principal IN
    /\ q.at \in {"signing", "inserted"}
    /\ challenges' = [challenges EXCEPT ![q.ch].consumed = TRUE]
    /\ principals' = IF q.at = "inserted" THEN Append(principals, q.who) ELSE principals
    /\ passkeys' = IF q.key = 0 THEN passkeys ELSE [passkeys EXCEPT ![q.key].counter = q.signed]
    /\ sessions' = Append(sessions, [principal |-> p, live |-> TRUE, by |-> q.ch, who |-> q.who])
    /\ RequestGoes(r, NoRequest)

Register(r) ==
    LET q == request[r] IN
    /\ q.at = "consumed" /\ q.kind = "register"
    /\ challenges' = [challenges EXCEPT ![q.ch].consumed = TRUE]
    /\ passkeys' = Append(passkeys, [principal |-> challenges[q.ch].principal, holder |-> q.who,
                                     counter |-> 0, signed |-> 0, by |-> q.ch])
    /\ RequestGoes(r, NoRequest) /\ UNCHANGED <<principals, sessions>>

(***************************************************************************)
(* Time, and DELETE /v1/session.                                           *)
(***************************************************************************)
ChallengeExpires(c) ==
    /\ ~challenges[c].expired /\ challenges' = [challenges EXCEPT ![c].expired = TRUE]
    /\ UNCHANGED <<principals, passkeys, sessions, request>>

EndSession(s) ==
    /\ sessions[s].live /\ sessions' = [sessions EXCEPT ![s].live = FALSE]
    /\ UNCHANGED <<challenges, principals, passkeys, request>>

Serve(r) == \/ ConsumeChallenge(r) \/ FindPrincipal(r) \/ InsertPrincipal(r) \/ ReadPasskey(r)
            \/ SignIn(r) \/ Register(r) \/ RegistrationOptions(r)

IdentityNext ==
    \/ StartOidc
    \/ \E p \in DOMAIN principals : AuthenticationOptions(p)
    \/ \E r \in Requests :
         \/ Serve(r) \/ Refuse(r)
         \/ \E s \in DOMAIN sessions : \/ ResolveSession(r, s, "options", 0)
                                       \/ \E c \in DOMAIN challenges : ResolveSession(r, s, "calling", c)
         \/ \E c \in DOMAIN challenges : \/ \E u \in People : Callback(r, c, u)
                                         \/ \E k \in DOMAIN passkeys : AssertPasskey(r, c, k)
    \/ \E c \in DOMAIN challenges : ChallengeExpires(c)
    \/ \E s \in DOMAIN sessions : EndSession(s)

IdentitySpec == IdentityInit /\ [][IdentityNext]_identityVars

-----------------------------------------------------------------------------
IdentityTypeOK ==
    /\ challenges \in Seq([kind : Kinds, principal : Nat, consumed : BOOLEAN, expired : BOOLEAN])
    /\ principals \in Seq(People)
    /\ passkeys \in Seq([principal : Nat, holder : People, counter : Nat, signed : Nat, by : Nat])
    /\ sessions \in Seq([principal : Nat, live : BOOLEAN, by : Nat, who : People])
    /\ \A r \in Requests : request[r].ch \in 0 .. Len(challenges)

\* What came of challenge c: the sessions and the credentials it paid for.
Uses(c) == {<<"session", s>> : s \in {i \in DOMAIN sessions : sessions[i].by = c}}
           \cup {<<"passkey", k>> : k \in {i \in DOMAIN passkeys : passkeys[i].by = c}}

(* A challenge pays for at most one session or credential, however many    *)
(* requests answer it at the same time, and it is consumed exactly when it *)
(* has paid: one that failed half way can be answered again, and none is   *)
(* lost (consumeChallenge inside withTransaction).                         *)
ChallengePaysOnce ==
    \A c \in DOMAIN challenges :
        /\ \A x, y \in Uses(c) : x = y
        /\ challenges[c].consumed <=> Uses(c) # {}

(* A session, and a credential, belongs to the principal of the person who *)
(* proved to be it, also when two people use the same browser one after    *)
(* the other between the options and their answer.                         *)
SignedInAsOneself ==
    /\ \A s \in DOMAIN sessions : principals[sessions[s].principal] = sessions[s].who
    /\ \A k \in DOMAIN passkeys : principals[passkeys[k].principal] = passkeys[k].holder

(* Concurrent first sign-ins of one subject make one principal, and so do  *)
(* all its later ones.                                                     *)
OnePrincipalPerSubject ==
    \A p, q \in DOMAIN principals : principals[p] = principals[q] => p = q

(* However challenges are answered, twice, late, by two people in turn or  *)
(* in overlapping transactions, sign-in keeps its promises.                *)
SignInsAreSound == ChallengePaysOnce /\ SignedInAsOneself /\ OnePrincipalPerSubject
=============================================================================
