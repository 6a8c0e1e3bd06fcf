------------------------------ MODULE EventBus ------------------------------
(***************************************************************************)
(* backend/event_bus.py: the transactional outbox (record_event, commit,   *)
(* publish_to_redis), the reconciler that republishes what never reached   *)
(* the stream, and the consumer-group loop (consume, _handle_one) with its *)
(* processed_events claim, XAUTOCLAIM of stuck messages and XACK.          *)
(*                                                                         *)
(* An event is its event_log id.  Payloads, envelopes and timestamps are   *)
(* left out: the bus reads an event's id and its type, and Wanted stands   *)
(* for the type filter.  A handler's domain writes are the counter         *)
(* effects; the events it records in the same transaction are Follow.      *)
(***************************************************************************)
EXTENDS Naturals, Sequences, FiniteSets

CONSTANTS Event,      \* event_log ids (BIGSERIAL, so ordered)
          Request,    \* the sets of events that API transactions record
          Group,      \* consumer groups of the stream
          Wanted,     \* group -> the events of its allowed_event_types
          Follow,     \* group -> event -> the events its handler records
          Consumer,   \* threads running consume()
          GroupOf,    \* consumer -> its group
          Api,        \* request threads of the APIs
          Reconciler, \* the workers' _reconciler_loop threads
          ReadCount,  \* XREADGROUP's count (10 in the code)
          Limit,      \* reconcile_unpublished's limit (100 or 200 in the code)
          MaxFaults,  \* bound on crashes, failed calls and failed handlers
          MaxRestarts \* bound on restarts of the whole stack

Publisher == Api \cup Reconciler

(* No event is recorded by two transactions: ids come from one sequence.   *)
ASSUME BusAssumption ==
    /\ Event \subseteq Nat
    /\ Request \subseteq SUBSET Event
    /\ Wanted \in [Group -> SUBSET Event]
    /\ Follow \in [Group -> [Event -> SUBSET Event]]
    /\ GroupOf \in [Consumer -> Group]
    /\ Api \cap Reconciler = {}
    /\ ReadCount \in Nat \ {0}
    /\ Limit \in Nat \ {0}
    /\ MaxFaults \in Nat
    /\ MaxRestarts \in Nat

ASSUME OneRecorder ==
    /\ \A R, S \in Request : R # S => R \cap S = {}
    /\ \A R \in Request, g \in Group, e \in Event : R \cap Follow[g][e] = {}
    /\ \A g, h \in Group, e, f \in Event :
          <<g, e>> # <<h, f>> => Follow[g][e] \cap Follow[h][f] = {}

VARIABLES
  log,       \* event -> "absent", "open" (transaction not committed), "committed"
  published, \* the rows with redis_published = TRUE
  stream,    \* the entries of events:supply-chain, each the event it carries
  todo,      \* publisher -> the events it still has to publish
  step,      \* publisher -> "idle", "open", "xadd" or "mark"
  delivered, \* group -> its last-delivered entry
  pending,   \* group -> its pending entries list
  batch,     \* consumer -> the entries a Redis call returned, not yet handled
  work,      \* consumer -> "ready", "handling" or "acking" the batch's first
  processed, \* group -> its committed processed_events rows
  effects,   \* group -> event -> how often a handler run committed
  faults,    \* failures so far
  restarts   \* restarts of the whole stack so far

outboxVars == <<log, published>>
publisherVars == <<todo, step>>
redisVars == <<stream, delivered, pending>>
consumerVars == <<batch, work>>
domainVars == <<processed, effects>>
faultVars == <<faults, restarts>>
vars == <<outboxVars, publisherVars, redisVars, consumerVars, domainVars,
          faultVars>>

Committed == {e \in Event : log[e] = "committed"}
Unpublished == Committed \ published

(* The entry a batch's loop is at: both Redis calls return ids in order.   *)
IsFirst(i, S) == i \in S /\ \A j \in S : i <= j

-----------------------------------------------------------------------------
Init ==
    /\ log = [e \in Event |-> "absent"]
    /\ published = {}
    /\ stream = <<>>
    /\ todo = [p \in Publisher |-> {}]
    /\ step = [p \in Publisher |-> "idle"]
    /\ delivered = [g \in Group |-> 0]
    /\ pending = [g \in Group |-> {}]
    /\ batch = [c \in Consumer |-> {}]
    /\ work = [c \in Consumer |-> "ready"]
    /\ processed = [g \in Group |-> {}]
    /\ effects = [g \in Group |-> [e \in Event |-> 0]]
    /\ faults = 0
    /\ restarts = 0

-----------------------------------------------------------------------------
(* The write path.                                                         *)

(* Mutant of Record: the request publishes before it commits.              *)
RecordAndPublish(p, R) ==
    /\ step[p] = "idle"
    /\ \A e \in R : log[e] = "absent"
    /\ log' = [e \in Event |-> IF e \in R THEN "open" ELSE log[e]]
    /\ todo' = [todo EXCEPT ![p] = R]
    /\ step' = [step EXCEPT ![p] = "xadd"]
    /\ UNCHANGED <<published, redisVars, consumerVars, domainVars, faultVars>>

(* record_event inside an API request's transaction.                       *)
Record(p, R) ==
    /\ step[p] = "idle"
    /\ \A e \in R : log[e] = "absent"
    /\ log' = [e \in Event |-> IF e \in R THEN "open" ELSE log[e]]
    /\ todo' = [todo EXCEPT ![p] = R]
    /\ step' = [step EXCEPT ![p] = "open"]
    /\ UNCHANGED <<published, redisVars, consumerVars, domainVars, faultVars>>

(* The request commits, and turns to publishing what it recorded.          *)
CommitRequest(p) ==
    /\ step[p] = "open"
    /\ log' = [e \in Event |-> IF e \in todo[p] THEN "committed" ELSE log[e]]
    /\ step' = [step EXCEPT ![p] = "xadd"]
    /\ UNCHANGED <<published, todo, redisVars, consumerVars, domainVars,
                   faultVars>>

(* The request fails before its commit: get_conn rolls everything back.    *)
AbortRequest(p) ==
    /\ step[p] = "open"
    /\ faults < MaxFaults
    /\ log' = [e \in Event |-> IF e \in todo[p] THEN "absent" ELSE log[e]]
    /\ todo' = [todo EXCEPT ![p] = {}]
    /\ step' = [step EXCEPT ![p] = "idle"]
    /\ faults' = faults + 1
    /\ UNCHANGED <<published, redisVars, consumerVars, domainVars, restarts>>

(* A reconciler selects the oldest committed rows not marked published.    *)
SelectUnpublished(p) ==
    /\ step[p] = "idle"
    /\ Unpublished # {}
    /\ todo' = [todo EXCEPT ![p] =
          {e \in Unpublished : Cardinality({f \in Unpublished : f <= e}) <= Limit}]
    /\ step' = [step EXCEPT ![p] = "xadd"]
    /\ UNCHANGED <<outboxVars, redisVars, consumerVars, domainVars, faultVars>>

(* What a publisher does once it is done with event e of its list.         *)
NextToPublish(p, e) ==
    /\ todo' = [todo EXCEPT ![p] = @ \ {e}]
    /\ step' = [step EXCEPT ![p] = IF todo[p] = {e} THEN "idle" ELSE "xadd"]

(* XADD succeeds: the entry is in the stream, the row not yet marked.      *)
Xadd(p, e) ==
    /\ step[p] = "xadd"
    /\ IsFirst(e, todo[p])
    /\ stream' = Append(stream, e)
    /\ step' = [step EXCEPT ![p] = "mark"]
    /\ UNCHANGED <<outboxVars, todo, delivered, pending, consumerVars,
                   domainVars, faultVars>>

(* Mutant of XaddFails: the row is marked whatever the outcome of XADD.    *)
XaddFailsButMarks(p, e) ==
    /\ step[p] = "xadd"
    /\ IsFirst(e, todo[p])
    /\ faults < MaxFaults
    /\ stream' \in {stream, Append(stream, e)}
    /\ published' = published \cup {e}
    /\ NextToPublish(p, e)
    /\ faults' = faults + 1
    /\ UNCHANGED <<log, delivered, pending, consumerVars, domainVars, restarts>>

(* XADD raises a RedisError, which publish_to_redis swallows: the row      *)
(* stays unpublished.  A timeout can lose the reply of a call that Redis   *)
(* did carry out, so the entry may be in the stream all the same.          *)
XaddFails(p, e) ==
    /\ step[p] = "xadd"
    /\ IsFirst(e, todo[p])
    /\ faults < MaxFaults
    /\ stream' \in {stream, Append(stream, e)}
    /\ NextToPublish(p, e)
    /\ faults' = faults + 1
    /\ UNCHANGED <<outboxVars, delivered, pending, consumerVars, domainVars,
                   restarts>>

(* UPDATE event_log SET redis_published = TRUE, and its commit.            *)
MarkPublished(p, e) ==
    /\ step[p] = "mark"
    /\ IsFirst(e, todo[p])
    /\ published' = published \cup {e}
    /\ NextToPublish(p, e)
    /\ UNCHANGED <<log, redisVars, consumerVars, domainVars, faultVars>>

(* The thread dies, or PostgreSQL refuses the UPDATE and the exception     *)
(* ends the request or the reconciler's pass.                              *)
PublisherStops(p) ==
    /\ step[p] \in {"xadd", "mark"}
    /\ faults < MaxFaults
    /\ todo' = [todo EXCEPT ![p] = {}]
    /\ step' = [step EXCEPT ![p] = "idle"]
    /\ faults' = faults + 1
    /\ UNCHANGED <<outboxVars, redisVars, consumerVars, domainVars, restarts>>

-----------------------------------------------------------------------------
(* The read path.                                                          *)

InFlight(c) == batch[c] # {}

(* Mutant of ReadNew: the group moves on by ReadCount entries, however     *)
(* many there were.                                                        *)
ReadNewOvershoots(c) ==
    LET g == GroupOf[c]
        fresh == {i \in 1 .. Len(stream) :
                     delivered[g] < i /\ i <= delivered[g] + ReadCount}
    IN  /\ ~InFlight(c)
        /\ fresh # {}
        /\ batch' = [batch EXCEPT ![c] = fresh]
        /\ pending' = [pending EXCEPT ![g] = @ \cup fresh]
        /\ delivered' = [delivered EXCEPT ![g] = @ + ReadCount]
        /\ UNCHANGED <<outboxVars, publisherVars, stream, work, domainVars,
                       faultVars>>

(* XREADGROUP ">": the next entries of the stream, at most ReadCount.      *)
ReadNew(c) ==
    LET g == GroupOf[c]
        fresh == {i \in 1 .. Len(stream) :
                     delivered[g] < i /\ i <= delivered[g] + ReadCount}
    IN  /\ ~InFlight(c)
        /\ fresh # {}
        /\ batch' = [batch EXCEPT ![c] = fresh]
        /\ pending' = [pending EXCEPT ![g] = @ \cup fresh]
        /\ delivered' = [delivered EXCEPT ![g] =
              CHOOSE i \in fresh : \A j \in fresh : j <= i]
        /\ UNCHANGED <<outboxVars, publisherVars, stream, work, domainVars,
                       faultVars>>

(* XAUTOCLAIM: pending entries S have been idle for longer than            *)
(* STUCK_MESSAGE_IDLE_MS, whoever they were delivered to.                  *)
Reclaim(c, S) ==
    /\ ~InFlight(c)
    /\ S # {}
    /\ S \subseteq pending[GroupOf[c]]
    /\ batch' = [batch EXCEPT ![c] = S]
    /\ UNCHANGED <<outboxVars, publisherVars, redisVars, work, domainVars,
                   faultVars>>

(* XACK the entry and go on with the rest of the batch.                    *)
Acknowledge(c, i) ==
    /\ pending' = [pending EXCEPT ![GroupOf[c]] = @ \ {i}]
    /\ batch' = [batch EXCEPT ![c] = @ \ {i}]
    /\ work' = [work EXCEPT ![c] = "ready"]

(* The event's type is not one this group allows: acked, nothing else.     *)
SkipUnwanted(c, i) ==
    /\ work[c] = "ready"
    /\ IsFirst(i, batch[c])
    /\ stream[i] \notin Wanted[GroupOf[c]]
    /\ Acknowledge(c, i)
    /\ UNCHANGED <<outboxVars, publisherVars, stream, delivered, domainVars,
                   faultVars>>

(* The event a consumer holds an uncommitted processed_events row for.     *)
Claims(c, e) ==
    work[c] = "handling" /\ \E i \in batch[c] : IsFirst(i, batch[c]) /\ stream[i] = e

(* Mutant of Claim: the marker is looked up first and written with the     *)
(* handler's commit, so two consumers can both find it missing.            *)
ClaimByLookup(c, i) ==
    LET g == GroupOf[c]
    IN  /\ work[c] = "ready"
        /\ IsFirst(i, batch[c])
        /\ stream[i] \in Wanted[g]
        /\ stream[i] \notin processed[g]
        /\ work' = [work EXCEPT ![c] = "handling"]
        /\ UNCHANGED <<outboxVars, publisherVars, redisVars, batch, domainVars,
                       faultVars>>

(* The INSERT of the claim returns a row.  While another transaction of    *)
(* the group holds the same key uncommitted, the INSERT waits for it.      *)
Claim(c, i) ==
    LET g == GroupOf[c]
    IN  /\ work[c] = "ready"
        /\ IsFirst(i, batch[c])
        /\ stream[i] \in Wanted[g]
        /\ stream[i] \notin processed[g]
        /\ \A d \in Consumer : GroupOf[d] = g => ~Claims(d, stream[i])
        /\ work' = [work EXCEPT ![c] = "handling"]
        /\ UNCHANGED <<outboxVars, publisherVars, redisVars, batch, domainVars,
                       faultVars>>

(* Mutant of SkipDuplicate: a duplicate is skipped without an XACK.        *)
SkipDuplicateUnacked(c, i) ==
    /\ work[c] = "ready"
    /\ IsFirst(i, batch[c])
    /\ stream[i] \in Wanted[GroupOf[c]] \cap processed[GroupOf[c]]
    /\ batch' = [batch EXCEPT ![c] = @ \ {i}]
    /\ UNCHANGED <<outboxVars, publisherVars, redisVars, work, domainVars,
                   faultVars>>

(* ON CONFLICT DO NOTHING returned no row: handled before, so acked.       *)
SkipDuplicate(c, i) ==
    /\ work[c] = "ready"
    /\ IsFirst(i, batch[c])
    /\ stream[i] \in Wanted[GroupOf[c]] \cap processed[GroupOf[c]]
    /\ Acknowledge(c, i)
    /\ UNCHANGED <<outboxVars, publisherVars, stream, delivered, domainVars,
                   faultVars>>

(* The claim, the handler's domain writes and the events it recorded       *)
(* commit in one transaction.  The row is written even when a row is there *)
(* already, so that a claim that let two runs through would show.          *)
CommitHandler(c, i) ==
    LET g == GroupOf[c]
        e == stream[i]
    IN  /\ work[c] = "handling"
        /\ IsFirst(i, batch[c])
        /\ processed' = [processed EXCEPT ![g] = @ \cup {e}]
        /\ effects' = [effects EXCEPT ![g][e] = @ + 1]
        /\ log' = [f \in Event |-> IF f \in Follow[g][e] THEN "committed"
                                                         ELSE log[f]]
        /\ work' = [work EXCEPT ![c] = "acking"]
        /\ UNCHANGED <<published, publisherVars, redisVars, batch, faultVars>>

(* Mutant of HandlerFails: what the handler recorded before it raised is   *)
(* committed with the next transaction instead of rolled back.             *)
HandlerFailsHalfway(c, i) ==
    /\ work[c] = "handling"
    /\ IsFirst(i, batch[c])
    /\ faults < MaxFaults
    /\ log' = [f \in Event |-> IF f \in Follow[GroupOf[c]][stream[i]]
                               THEN "committed" ELSE log[f]]
    /\ batch' = [batch EXCEPT ![c] = @ \ {i}]
    /\ work' = [work EXCEPT ![c] = "ready"]
    /\ faults' = faults + 1
    /\ UNCHANGED <<published, publisherVars, redisVars, domainVars, restarts>>

(* The handler raises: rollback of the claim and of the handler's writes,  *)
(* and no XACK, so the entry stays pending.                                *)
HandlerFails(c, i) ==
    /\ work[c] = "handling"
    /\ IsFirst(i, batch[c])
    /\ faults < MaxFaults
    /\ batch' = [batch EXCEPT ![c] = @ \ {i}]
    /\ work' = [work EXCEPT ![c] = "ready"]
    /\ faults' = faults + 1
    /\ UNCHANGED <<outboxVars, publisherVars, redisVars, domainVars, restarts>>

(* XACK after the commit.                                                  *)
Ack(c, i) ==
    /\ work[c] = "acking"
    /\ IsFirst(i, batch[c])
    /\ Acknowledge(c, i)
    /\ UNCHANGED <<outboxVars, publisherVars, stream, delivered, domainVars,
                   faultVars>>

(* The worker dies wherever it is (a Redis call outside the handler's try  *)
(* raises, PostgreSQL goes away, the process is killed) and is started     *)
(* again: its batch is forgotten and an open transaction rolls back.       *)
ConsumerCrashes(c) ==
    /\ InFlight(c)
    /\ faults < MaxFaults
    /\ batch' = [batch EXCEPT ![c] = {}]
    /\ work' = [work EXCEPT ![c] = "ready"]
    /\ faults' = faults + 1
    /\ UNCHANGED <<outboxVars, publisherVars, redisVars, domainVars, restarts>>

(* docker compose down, then up: PostgreSQL has a named volume, Redis has  *)
(* none, so the stream and its groups start empty.                         *)
RestartStack ==
    /\ restarts < MaxRestarts
    /\ restarts' = restarts + 1
    /\ log' = [e \in Event |-> IF log[e] = "open" THEN "absent" ELSE log[e]]
    /\ todo' = [p \in Publisher |-> {}]
    /\ step' = [p \in Publisher |-> "idle"]
    /\ stream' = <<>>
    /\ delivered' = [g \in Group |-> 0]
    /\ pending' = [g \in Group |-> {}]
    /\ batch' = [c \in Consumer |-> {}]
    /\ work' = [c \in Consumer |-> "ready"]
    /\ UNCHANGED <<published, domainVars, faults>>

-----------------------------------------------------------------------------
Publish(p, e) == Xadd(p, e) \/ XaddFails(p, e) \/ MarkPublished(p, e)

HandleOne(c, i) ==
    \/ SkipUnwanted(c, i)
    \/ Claim(c, i)
    \/ SkipDuplicate(c, i)
    \/ CommitHandler(c, i)
    \/ HandlerFails(c, i)
    \/ Ack(c, i)

Next ==
    \/ \E p \in Api, R \in Request : Record(p, R)
    \/ \E p \in Api : CommitRequest(p)
    \/ \E p \in Api : AbortRequest(p)
    \/ \E p \in Reconciler : SelectUnpublished(p)
    \/ \E p \in Publisher, e \in Event : Publish(p, e)
    \/ \E p \in Publisher : PublisherStops(p)
    \/ \E c \in Consumer : ReadNew(c)
    \/ \E c \in Consumer, S \in SUBSET (1 .. Len(stream)) : Reclaim(c, S)
    \/ \E c \in Consumer, i \in 1 .. Len(stream) : HandleOne(c, i)
    \/ \E c \in Consumer : ConsumerCrashes(c)
    \/ RestartStack

Spec == Init /\ [][Next]_vars

(* Threads keep running: a request that recorded events goes on to commit  *)
(* and publish them, reconcilers wake up every second, a consumer's loop   *)
(* goes on through its batch and then calls Redis again.  Time passes, so  *)
(* an entry nobody is working on becomes idle long enough for XAUTOCLAIM.  *)
(* Nothing is assumed of the failures, except that there are finitely many.*)
Orphans(g) ==
    pending[g] \ UNION {batch[c] : c \in {d \in Consumer : GroupOf[d] = g}}

ReclaimStuck(c) == Orphans(GroupOf[c]) # {} /\ Reclaim(c, Orphans(GroupOf[c]))

Fairness ==
    /\ \A p \in Api : WF_vars(CommitRequest(p))
    /\ \A p \in Reconciler : WF_vars(SelectUnpublished(p))
    /\ \A p \in Publisher : WF_vars(\E e \in Event : Publish(p, e))
    /\ \A c \in Consumer :
          /\ WF_vars(ReadNew(c))
          /\ WF_vars(ReclaimStuck(c))
          /\ WF_vars(\E i \in batch[c] : HandleOne(c, i))

FairSpec == Spec /\ Fairness

-----------------------------------------------------------------------------
(* The type invariant: a group has read a prefix of the stream, and what   *)
(* is pending or being handled lies in that prefix.                        *)
TypeOK ==
    /\ log \in [Event -> {"absent", "open", "committed"}]
    /\ published \subseteq Event
    /\ stream \in Seq(Event)
    /\ todo \in [Publisher -> SUBSET Event]
    /\ step \in [Publisher -> {"idle", "open", "xadd", "mark"}]
    /\ delivered \in [Group -> 0 .. Len(stream)]
    /\ pending \in [Group -> SUBSET Nat]
    /\ \A g \in Group : pending[g] \subseteq 1 .. delivered[g]
    /\ batch \in [Consumer -> SUBSET Nat]
    /\ \A c \in Consumer : batch[c] \subseteq 1 .. delivered[GroupOf[c]]
    /\ work \in [Consumer -> {"ready", "handling", "acking"}]
    /\ processed \in [Group -> SUBSET Event]
    /\ effects \in [Group -> [Event -> Nat]]
    /\ faults \in Nat
    /\ restarts \in Nat

(* "Idempotency state lives in PostgreSQL": however often an event is in   *)
(* the stream, whoever reclaims it and wherever a worker dies, a group's   *)
(* handler takes effect at most once for it, and there is a processed      *)
(* marker exactly when it did (event_bus.py:22-31).                        *)
MarkerMeansOneEffect ==
    \A g \in Group, e \in Event :
        effects[g][e] = IF e \in processed[g] THEN 1 ELSE 0

(* Publishing happens only after commit: no entry of the stream carries an *)
(* event of a transaction that is open or rolled back (event_bus.py:8-18). *)
OnlyCommittedInStream ==
    \A i \in 1 .. Len(stream) : stream[i] \in Committed

(* A handler that fails partway leaves nothing behind: the events it       *)
(* records exist exactly when the run that recorded them took effect       *)
(* (event_bus.py:193-197, 234-238).                                        *)
FollowUpsCommitWithEffect ==
    \A g \in Group, e \in Event : \A f \in Follow[g][e] :
        f \in Committed <=> effects[g][e] > 0

(* "Guarantees zero lost events" (README.md:111): a committed event that   *)
(* a group has still to handle is either unpublished, for the reconciler   *)
(* to find, or carried by an entry the group has not read or not acked.    *)
NoLostEvent ==
    \A g \in Group : \A e \in (Committed \cap Wanted[g]) \ processed[g] :
        \/ e \in Unpublished
        \/ \E i \in 1 .. Len(stream) :
              /\ stream[i] = e
              /\ delivered[g] < i \/ i \in pending[g]

(* The same as long as Redis keeps its stream.                             *)
NoLostEventWhileRedisLives == restarts = 0 => NoLostEvent

(* Every committed event is handled by every group that wants it, through  *)
(* failed publications, failed handlers and crashes (event_bus.py:182-197).*)
EveryEventHandled ==
    \A g \in Group, e \in Event :
        (e \in Committed \cap Wanted[g]) ~> (e \in processed[g])

(* Every entry handed out is acked in the end, duplicates and events of    *)
(* other types included: the pending list does not grow for ever           *)
(* (event_bus.py:208-210, 225-228).                                        *)
PendingDrains == \A g \in Group : []<>(pending[g] = {})

-----------------------------------------------------------------------------
(* The bus implements the delivery its users are modelled with: a commit   *)
(* of a request is a Commit, a commit of a handler is a Handle, and every  *)
(* other step, of Redis or of a publisher, is invisible to the domain.     *)
Delivery == INSTANCE EventDelivery WITH committed <- Committed

ImplementsDelivery == Delivery!DeliverySafety
=============================================================================
