---------------------------- MODULE CaptureQueue ----------------------------
(***************************************************************************)
(* The offline queues of the browser extension and the phone, and what the *)
(* Local Node does with their deliveries (capture-extension/src/           *)
(* background.js, mobile-capture/src/queue.ts, mobile-routes.ts,           *)
(* capture-routes.ts).                                                     *)
(*                                                                         *)
(* The queue is one value in the device's storage.  An operation loads it, *)
(* awaits, and saves what it has made of it: of two that overlap the last  *)
(* to save wins.  The device may be killed in between.  A delivery is one  *)
(* request, which may be lost, or served after the device has given it up. *)
(*                                                                         *)
(* Abstracted: when a record is due (its status, its attempts, the clock), *)
(* encryption, pairing, what the node makes of a capture (Capture).  A     *)
(* capture is its number; they are queued in that order.                   *)
(***************************************************************************)
EXTENDS Naturals, Sequences, FiniteSets

CONSTANTS QueueOperations,   \* operations on the queue that may be under way at once
          Captures,     \* numbers of captures
          TextOf,       \* what each has captured: its fingerprint
          MaxQueue,     \* the limit of the queue, 500 and 1000 in the code
          MaxSends      \* bound: requests to the node

ASSUME CapturesAssumption == Captures \subseteq Nat /\ MaxQueue \in Nat

VARIABLES queue,      \* the captures in the storage
          doing,      \* the operations under way
          requests,   \* requests to the node [capture, at]
          arrived,    \* mobile_captures, browser_captures: the captures stored
          began,      \* captures an enqueue has begun with
          past        \* history: captures saved, removed by the limit; any overlap?

queueVars == <<queue, doing, requests, arrived, began, past>>

\* `loaded` is what is still to be dealt with, `kept` what a drain will save.
NoOperation == [at |-> "idle", loaded |-> {}, kept |-> {}, item |-> 0, sent |-> 0]

QueueInit ==
    /\ queue = {} /\ began = {} /\ requests = <<>> /\ arrived = <<>>
    /\ doing = [a \in QueueOperations |-> NoOperation]
    /\ past = [accepted |-> {}, pushedOut |-> {}, overlapped |-> FALSE]

\* Of some captures the oldest, and what the limit leaves of them.
Oldest(cs) == {c \in cs : \A d \in cs : c <= d}
Trimmed(cs) == IF Cardinality(cs) > MaxQueue THEN cs \ Oldest(cs) ELSE cs

\* Every operation begins by loading the queue.
LoadQueue(a, at, c) ==
    /\ doing[a].at = "idle"
    /\ doing' = [doing EXCEPT ![a] = [NoOperation EXCEPT !.at = at, !.loaded = queue, !.item = c]]
    /\ past' = [past EXCEPT !.overlapped = @ \/ \E b \in QueueOperations \ {a} : doing[b].at # "idle"]
    /\ UNCHANGED <<queue, requests, arrived>>

\* ... and ends by saving over it.
Save(a, cs) ==
    /\ queue' = cs /\ doing' = [doing EXCEPT ![a] = NoOperation]
    /\ UNCHANGED <<requests, arrived, began>>

Goes(a, o) ==
    /\ doing' = [doing EXCEPT ![a] = o]
    /\ UNCHANGED <<queue, arrived, began, past>>

-----------------------------------------------------------------------------
(* enqueue, and the retry of the extension's popup, which marks all due.   *)

Enqueue(a, c) ==
    /\ \A d \in Captures : d < c <=> d \in began
    /\ LoadQueue(a, "enqueue", c) /\ began' = began \cup {c}

SaveEnqueued(a) ==
    LET all == doing[a].loaded \cup {doing[a].item} IN
    /\ doing[a].at = "enqueue" /\ Save(a, Trimmed(all))
    /\ past' = [past EXCEPT !.accepted = @ \cup {doing[a].item},
                            !.pushedOut = @ \cup (all \ Trimmed(all))]

RetryAll(a) == LoadQueue(a, "retry", 0) /\ UNCHANGED began
SaveRetry(a) == doing[a].at = "retry" /\ Save(a, doing[a].loaded) /\ UNCHANGED past

-----------------------------------------------------------------------------
(* drain, flush: the records in their order, then one save of the rest.    *)

Drain(a) == LoadQueue(a, "drain", 0) /\ UNCHANGED began

Skip(a, c) ==
    /\ doing[a].at = "drain" /\ c \in Oldest(doing[a].loaded)
    /\ Goes(a, [doing[a] EXCEPT !.loaded = @ \ {c}, !.kept = @ \cup {c}]) /\ UNCHANGED requests

Deliver(a, c) ==
    /\ doing[a].at = "drain" /\ c \in Oldest(doing[a].loaded) /\ Len(requests) < MaxSends
    /\ requests' = Append(requests, [capture |-> c, at |-> "sent"])
    /\ Goes(a, [doing[a] EXCEPT !.at = "waiting", !.item = c, !.sent = Len(requests) + 1])

Delivered(a) ==
    LET o == doing[a] IN
    /\ o.at = "waiting" /\ requests[o.sent].at = "stored"
    /\ Goes(a, [o EXCEPT !.at = "drain", !.loaded = @ \ {o.item}]) /\ UNCHANGED requests

\* Mutant: what could not be delivered is not kept.
Forget(a) ==
    LET o == doing[a] IN
    /\ o.at = "waiting"
    /\ Goes(a, [o EXCEPT !.at = "drain", !.loaded = @ \ {o.item}]) /\ UNCHANGED requests

\* An error, a refusal, a lost answer, AbortSignal.timeout: tried again later.
KeepForLater(a) ==
    LET o == doing[a] IN
    /\ o.at = "waiting"
    /\ Goes(a, [o EXCEPT !.at = "drain", !.loaded = @ \ {o.item}, !.kept = @ \cup {o.item}])
    /\ UNCHANGED requests

SaveDrained(a) ==
    /\ doing[a].at = "drain" /\ doing[a].loaded = {}
    /\ Save(a, doing[a].kept) /\ UNCHANGED past

\* The worker, the background task or the app is ended by the system.
Kill ==
    /\ doing' = [a \in QueueOperations |-> NoOperation]
    /\ UNCHANGED <<queue, requests, arrived, began, past>>

-----------------------------------------------------------------------------
(* POST /v1/mobile/captures, POST /v1/local/captures.                      *)

Known(c) == \E n \in DOMAIN arrived : TextOf[arrived[n]] = TextOf[c]

AnswerWith(n, at) ==
    /\ requests' = [requests EXCEPT ![n].at = at]
    /\ UNCHANGED <<queue, doing, began, past>>

\* Mutant: without pg_advisory_xact_lock.
TakeUnlocked(n) ==
    LET c == requests[n].capture IN
    /\ requests[n].at = "sent"
    /\ AnswerWith(n, IF Known(c) THEN "stored" ELSE "writing") /\ UNCHANGED arrived

\* pg_advisory_xact_lock(fingerprint), then the SELECT for a duplicate.
Take(n) ==
    LET c == requests[n].capture IN
    /\ requests[n].at = "sent"
    /\ \A m \in DOMAIN requests : requests[m].at = "writing" => TextOf[requests[m].capture] # TextOf[c]
    /\ AnswerWith(n, IF Known(c) THEN "stored" ELSE "writing") /\ UNCHANGED arrived

\* INSERT, COMMIT.  UNIQUE(node_id,workspace_id,fingerprint) refuses a second.
StoreCapture(n) ==
    LET c == requests[n].capture IN
    /\ requests[n].at = "writing"
    /\ arrived' = IF Known(c) THEN arrived ELSE Append(arrived, c)
    /\ AnswerWith(n, IF Known(c) THEN "conflict" ELSE "stored")

\* Lost on the way, a device that was revoked, content it does not take, an error.
TurnAway(n) == requests[n].at \in {"sent", "writing"} /\ AnswerWith(n, "refused") /\ UNCHANGED arrived

Operate(a) ==
    \/ \E c \in Captures : Enqueue(a, c) \/ Skip(a, c) \/ Deliver(a, c)
    \/ SaveEnqueued(a) \/ RetryAll(a) \/ SaveRetry(a) \/ Drain(a)
    \/ Delivered(a) \/ KeepForLater(a) \/ SaveDrained(a)

QueueNext ==
    \/ \E a \in QueueOperations : Operate(a)
    \/ Kill
    \/ \E n \in DOMAIN requests : Take(n) \/ StoreCapture(n) \/ TurnAway(n)

QueueSpec == QueueInit /\ [][QueueNext]_queueVars

-----------------------------------------------------------------------------
QueueTypeOK ==
    /\ queue \subseteq Captures /\ began \subseteq Captures
    /\ past.accepted \subseteq began /\ past.pushedOut \subseteq began
    /\ arrived \in Seq(Captures)
    /\ \A a \in QueueOperations :
           doing[a].sent \in 0 .. Len(requests) /\ doing[a].loaded \cup doing[a].kept \subseteq Captures

(* However often a capture is delivered, by a retry after a lost answer, by*)
(* two drains, or at the same time as the request given up, the node has it*)
(* once, and no delivery fails on a row another one wrote meanwhile        *)
(* (pg_advisory_xact_lock and the duplicate check).                        *)
StoredOnce ==
    /\ \A m, n \in DOMAIN arrived : TextOf[arrived[m]] = TextOf[arrived[n]] => m = n
    /\ \A n \in DOMAIN requests : requests[n].at # "conflict"

\* "Offline records remain encrypted until either delivery succeeds ..."
\* (docs/MOBILE_CAPTURE.md:19), the limit apart.
NothingIsLost == \A c \in past.accepted \ past.pushedOut : c \in queue \/ Known(c)

(* A capture that was queued stays in the queue until the node has it,     *)
(* whatever is lost on the way and whenever the device is killed, unless   *)
(* the limit removes it, as long as no two operations on the queue have    *)
(* ever overlapped.  When they may, it does not hold.                      *)
QueuedUntilStored == past.overlapped \/ NothingIsLost

(* Captures of an offline device arrive, and arrive once.                  *)
CapturesArrive == StoredOnce /\ QueuedUntilStored
=============================================================================
