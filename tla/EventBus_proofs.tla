--------------------------- MODULE EventBus_proofs ---------------------------
(***************************************************************************)
(* Proofs about EventBus, for every set of events, requests, groups,       *)
(* consumers and publishers and every bound on faults and restarts.        *)
(***************************************************************************)
EXTENDS EventBus, TLAPS

(* What publishers know.  An open request holds events of its own, nobody  *)
(* else's; what is to be published is committed; what is to be marked, and *)
(* what is marked unless Redis was restarted, is in the stream.            *)
InStream(e) == \E i \in 1 .. Len(stream) : stream[i] = e

OpenRequests ==
    /\ \A p \in Publisher : step[p] = "open" =>
          todo[p] \in Request /\ \A e \in todo[p] : log[e] = "open"
    /\ \A p, q \in Publisher : p # q /\ step[p] = "open" /\ step[q] = "open" =>
          todo[p] \cap todo[q] = {}

CommittedBeforePublished ==
    \A p \in Publisher : step[p] \in {"xadd", "mark"} => todo[p] \subseteq Committed

MarkedIsInStream ==
    /\ \A p \in Publisher : \A e \in Event :
          step[p] = "mark" /\ IsFirst(e, todo[p]) => InStream(e)
    /\ restarts = 0 => \A e \in published : InStream(e)

(* What consumers know.  The claim of an event excludes the other members  *)
(* of the group, and whoever is to ack an entry has seen its marker.       *)
Handling(c, i) == work[c] = "handling" /\ IsFirst(i, batch[c])

ClaimsAreExclusive ==
    /\ \A c \in Consumer : work[c] # "ready" => batch[c] # {}
    /\ \A c \in Consumer : \A i \in batch[c] : Handling(c, i) =>
          stream[i] \in Wanted[GroupOf[c]] \ processed[GroupOf[c]]
    /\ \A c, d \in Consumer : \A i \in batch[c], j \in batch[d] :
          c # d /\ GroupOf[c] = GroupOf[d] /\ Handling(c, i) /\ Handling(d, j) =>
             stream[i] # stream[j]

(* An entry that was handed out and acked needs no further handling.       *)
AckedIsDone ==
    /\ \A c \in Consumer : \A i \in batch[c] :
          work[c] = "acking" /\ IsFirst(i, batch[c]) =>
             stream[i] \in processed[GroupOf[c]]
    /\ \A g \in Group : \A i \in (1 .. delivered[g]) \ pending[g] :
          stream[i] \in Wanted[g] => stream[i] \in processed[g]

IInv ==
    /\ TypeOK
    /\ OpenRequests
    /\ CommittedBeforePublished
    /\ OnlyCommittedInStream
    /\ MarkedIsInStream
    /\ ClaimsAreExclusive
    /\ AckedIsDone
    /\ MarkerMeansOneEffect
    /\ FollowUpsCommitWithEffect

-----------------------------------------------------------------------------
(* The smallest entry of a batch is one entry.                             *)
LEMMA FirstIsUnique ==
    ASSUME NEW S, S \subseteq Nat, NEW i, NEW j, IsFirst(i, S), IsFirst(j, S)
    PROVE  i = j
  BY DEF IsFirst

(* XREADGROUP's last entry is one of those it returned, and the highest.   *)
LEMMA LastIsRead ==
    ASSUME TypeOK, NEW c \in Consumer, ReadNew(c)
    PROVE  LET g == GroupOf[c]
               fresh == {i \in 1 .. Len(stream) :
                            delivered[g] < i /\ i <= delivered[g] + ReadCount}
               last == CHOOSE i \in fresh : \A j \in fresh : j <= i
           IN  last \in fresh /\ \A j \in fresh : j <= last
<1> DEFINE g == GroupOf[c]
           fresh == {i \in 1 .. Len(stream) :
                        delivered[g] < i /\ i <= delivered[g] + ReadCount}
           bound == delivered[g] + ReadCount
           m == IF Len(stream) <= bound THEN Len(stream) ELSE bound
<1>1. /\ g \in Group /\ Len(stream) \in Nat /\ ReadCount \in Nat \ {0}
      /\ delivered[g] \in 0 .. Len(stream)
  BY BusAssumption DEF TypeOK
<1>2. fresh # {}
  BY DEF ReadNew
<1>3. m \in fresh /\ \A j \in fresh : j <= m
  BY <1>1, <1>2
<1>4. \E i \in fresh : \A j \in fresh : j <= i
  BY <1>3
<1> HIDE DEF fresh
<1>5. (CHOOSE i \in fresh : \A j \in fresh : j <= i) \in fresh
         /\ \A j \in fresh : j <= CHOOSE i \in fresh : \A k \in fresh : k <= i
  BY <1>4
<1> QED
  BY <1>5 DEF fresh

-----------------------------------------------------------------------------
(* Type correctness.                                                       *)
LEMMA TypeInit == Init => TypeOK
  BY BusAssumption DEF Init, TypeOK, Publisher

LEMMA TypeStep == TypeOK /\ [Next]_vars => TypeOK'
<1> SUFFICES ASSUME TypeOK, [Next]_vars PROVE TypeOK'
  OBVIOUS
<1> USE DEF outboxVars, publisherVars, redisVars, consumerVars, domainVars,
            faultVars
<1>1. CASE UNCHANGED vars
  BY <1>1 DEF TypeOK, vars
<1>2. ASSUME NEW p \in Api, NEW R \in Request, Record(p, R) PROVE TypeOK'
  BY <1>2, BusAssumption DEF TypeOK, Record, Publisher
<1>3. ASSUME NEW p \in Api, CommitRequest(p) PROVE TypeOK'
  BY <1>3 DEF TypeOK, CommitRequest, Publisher
<1>4. ASSUME NEW p \in Api, AbortRequest(p) PROVE TypeOK'
  <2>1. p \in Publisher
    BY DEF Publisher
  <2>2. /\ log' \in [Event -> {"absent", "open", "committed"}]
        /\ todo' \in [Publisher -> SUBSET Event]
        /\ step' \in [Publisher -> {"idle", "open", "xadd", "mark"}]
    BY <1>4, <2>1 DEF TypeOK, AbortRequest
  <2>3. faults' \in Nat
    BY <1>4 DEF TypeOK, AbortRequest
  <2> QED
    BY <1>4, <2>2, <2>3 DEF TypeOK, AbortRequest
<1>5. ASSUME NEW p \in Reconciler, SelectUnpublished(p) PROVE TypeOK'
  BY <1>5 DEF TypeOK, SelectUnpublished, Unpublished, Committed, Publisher
<1>6. ASSUME NEW p \in Publisher, NEW e \in Event, Publish(p, e) PROVE TypeOK'
  <2>1. /\ todo' \in [Publisher -> SUBSET Event]
        /\ step' \in [Publisher -> {"idle", "open", "xadd", "mark"}]
        /\ published' \subseteq Event
    <3>1. CASE Xadd(p, e)
      BY <3>1 DEF TypeOK, Xadd
    <3>2. CASE XaddFails(p, e)
      BY <3>2 DEF TypeOK, XaddFails, NextToPublish
    <3>3. CASE MarkPublished(p, e)
      BY <3>3 DEF TypeOK, MarkPublished, NextToPublish
    <3> QED
      BY <1>6, <3>1, <3>2, <3>3 DEF Publish
  <2>2. stream' \in {stream, Append(stream, e)}
    BY <1>6 DEF Publish, Xadd, XaddFails, MarkPublished
  <2>3. stream' \in Seq(Event) /\ Len(stream') \in Nat /\ Len(stream') >= Len(stream)
    <3>1. stream \in Seq(Event) /\ Len(stream) \in Nat
      BY DEF TypeOK
    <3>2. Append(stream, e) \in Seq(Event) /\ Len(Append(stream, e)) = Len(stream) + 1
      BY <3>1
    <3> QED
      BY <2>2, <3>1, <3>2
  <2>4. faults' \in Nat
    BY <1>6 DEF TypeOK, Publish, Xadd, XaddFails, MarkPublished
  <2>5. UNCHANGED <<log, delivered, pending, consumerVars, domainVars, restarts>>
    BY <1>6 DEF Publish, Xadd, XaddFails, MarkPublished
  <2> QED
    BY <2>1, <2>3, <2>4, <2>5 DEF TypeOK
<1>7. ASSUME NEW p \in Publisher, PublisherStops(p) PROVE TypeOK'
  BY <1>7 DEF TypeOK, PublisherStops
<1>8. ASSUME NEW c \in Consumer, ReadNew(c) PROVE TypeOK'
  <2> DEFINE g == GroupOf[c]
             fresh == {i \in 1 .. Len(stream) :
                         delivered[g] < i /\ i <= delivered[g] + ReadCount}
             last == CHOOSE i \in fresh : \A j \in fresh : j <= i
  <2>1. /\ g \in Group /\ Len(stream) \in Nat /\ ReadCount \in Nat \ {0}
        /\ delivered[g] \in 0 .. Len(stream)
    BY BusAssumption DEF TypeOK
  <2>2. /\ batch' = [batch EXCEPT ![c] = fresh]
        /\ pending' = [pending EXCEPT ![g] = @ \cup fresh]
        /\ delivered' = [delivered EXCEPT ![g] = last]
        /\ UNCHANGED <<outboxVars, publisherVars, stream, work, domainVars, faultVars>>
    BY <1>8 DEF ReadNew
  <2>3. last \in delivered[g] + 1 .. Len(stream) /\ fresh \subseteq 1 .. last
    <3>1. last \in fresh /\ \A j \in fresh : j <= last
      BY <1>8, LastIsRead
    <3> HIDE DEF last
    <3> QED
      BY <2>1, <3>1
  <2> HIDE DEF fresh, last
  <2>4. /\ delivered' \in [Group -> 0 .. Len(stream)]
        /\ pending' \in [Group -> SUBSET Nat]
        /\ batch' \in [Consumer -> SUBSET Nat]
    <3>1. last \in 0 .. Len(stream) /\ fresh \in SUBSET Nat
      BY <2>1, <2>3
    <3>2. delivered' \in [Group -> 0 .. Len(stream)]
      BY <2>2, <3>1 DEF TypeOK
    <3>3. pending' \in [Group -> SUBSET Nat]
      BY <2>2, <3>1 DEF TypeOK
    <3>4. batch' \in [Consumer -> SUBSET Nat]
      BY <2>2, <3>1 DEF TypeOK
    <3> QED
      BY <3>2, <3>3, <3>4
  <2>5. ASSUME NEW h \in Group PROVE 1 .. delivered[h] \subseteq 1 .. delivered'[h]
    <3>1. delivered[h] \in Nat /\ delivered'[h] \in Nat /\ delivered[h] <= delivered'[h]
      BY <2>1, <2>2, <2>3 DEF TypeOK
    <3> QED
      BY <3>1
  <2>6. ASSUME NEW h \in Group PROVE pending'[h] \subseteq 1 .. delivered'[h]
    <3>1. CASE h = g
      BY <2>1, <2>2, <2>3, <2>5, <3>1 DEF TypeOK
    <3>2. CASE h # g
      BY <2>1, <2>2, <2>3, <2>5, <3>2 DEF TypeOK
    <3> QED
      BY <3>1, <3>2
  <2>7. ASSUME NEW d \in Consumer PROVE batch'[d] \subseteq 1 .. delivered'[GroupOf[d]]
    <3>1. GroupOf[d] \in Group /\ batch[d] \subseteq 1 .. delivered'[GroupOf[d]]
      BY <2>5, BusAssumption DEF TypeOK
    <3>2. CASE d = c
      BY <2>1, <2>2, <2>3, <3>2 DEF TypeOK
    <3>3. CASE d # c
      BY <2>2, <3>1, <3>3 DEF TypeOK
    <3> QED
      BY <3>2, <3>3
  <2> QED
    BY <2>2, <2>4, <2>6, <2>7 DEF TypeOK
<1>9. ASSUME NEW c \in Consumer, ConsumerCrashes(c) PROVE TypeOK'
  BY <1>9 DEF TypeOK, ConsumerCrashes
<1>10. ASSUME NEW c \in Consumer, NEW S \in SUBSET (1 .. Len(stream)), Reclaim(c, S)
       PROVE  TypeOK'
  <2>1. S \subseteq 1 .. delivered[GroupOf[c]] /\ S \in SUBSET Nat
    BY <1>10, BusAssumption, ZenonT(40) DEF TypeOK, Reclaim
  <2>2. batch' = [batch EXCEPT ![c] = S]
    BY <1>10 DEF Reclaim
  <2>3. /\ batch' \in [Consumer -> SUBSET Nat]
        /\ \A d \in Consumer : batch'[d] \subseteq 1 .. delivered[GroupOf[d]]
    BY <2>1, <2>2 DEF TypeOK
  <2> QED
    BY <1>10, <2>3 DEF TypeOK, Reclaim
<1>11. ASSUME NEW c \in Consumer, NEW i \in 1 .. Len(stream), HandleOne(c, i)
       PROVE  TypeOK'
  <2>1. GroupOf[c] \in Group /\ stream[i] \in Event
    BY BusAssumption DEF TypeOK
  <2>2. /\ \/ batch' = batch
           \/ batch' = [batch EXCEPT ![c] = @ \ {i}]
        /\ \/ pending' = pending
           \/ pending' = [pending EXCEPT ![GroupOf[c]] = @ \ {i}]
        /\ \E w \in {"ready", "handling", "acking"} : work' = [work EXCEPT ![c] = w]
        /\ faults' = faults \/ faults' = faults + 1
        /\ UNCHANGED <<published, publisherVars, stream, delivered, restarts>>
    BY <1>11 DEF HandleOne, SkipUnwanted, SkipDuplicate, Ack, Acknowledge, Claim,
                 CommitHandler, HandlerFails
  <2>3. /\ batch' \in [Consumer -> SUBSET Nat]
        /\ \A d \in Consumer : batch'[d] \subseteq 1 .. delivered[GroupOf[d]]
    <3>1. CASE batch' = batch
      BY <3>1 DEF TypeOK
    <3>2. CASE batch' = [batch EXCEPT ![c] = @ \ {i}]
      BY <3>2 DEF TypeOK
    <3> QED
      BY <2>2, <3>1, <3>2
  <2>4. /\ pending' \in [Group -> SUBSET Nat]
        /\ \A h \in Group : pending'[h] \subseteq 1 .. delivered[h]
    <3>1. CASE pending' = pending
      BY <3>1 DEF TypeOK
    <3>2. CASE pending' = [pending EXCEPT ![GroupOf[c]] = @ \ {i}]
      BY <3>2 DEF TypeOK
    <3> QED
      BY <2>2, <3>1, <3>2
  <2>5. work' \in [Consumer -> {"ready", "handling", "acking"}] /\ faults' \in Nat
    BY <2>2 DEF TypeOK
  <2>6. /\ log' \in [Event -> {"absent", "open", "committed"}]
        /\ processed' \in [Group -> SUBSET Event]
        /\ effects' \in [Group -> [Event -> Nat]]
    <3>1. CASE CommitHandler(c, i)
      BY <2>1, <3>1 DEF TypeOK, CommitHandler
    <3>2. CASE ~CommitHandler(c, i)
      BY <1>11, <3>2 DEF TypeOK, HandleOne, SkipUnwanted, SkipDuplicate, Ack, Claim,
                         HandlerFails
    <3> QED
      BY <3>1, <3>2
  <2> QED
    BY <2>2, <2>3, <2>4, <2>5, <2>6 DEF TypeOK
<1>12. ASSUME RestartStack PROVE TypeOK'
  <2>1. /\ log' \in [Event -> {"absent", "open", "committed"}]
        /\ stream' \in Seq(Event) /\ Len(stream') = 0
    BY <1>12 DEF TypeOK, RestartStack
  <2>2. \A c \in Consumer : GroupOf[c] \in Group
    BY BusAssumption
  <2> QED
    BY <1>12, <2>1, <2>2 DEF TypeOK, RestartStack
<1> QED
  BY <1>1, <1>2, <1>3, <1>4, <1>5, <1>6, <1>7, <1>8, <1>9, <1>10, <1>11, <1>12
     DEF Next

(* The groups' read positions and pending lists stay within the stream,    *)
(* whatever is read, reclaimed, acked or lost with Redis.                  *)
THEOREM TypeCorrect == Spec => []TypeOK
  BY TypeInit, TypeStep, PTL DEF Spec

-----------------------------------------------------------------------------
(* The publishers.                                                         *)
LEMMA OpenRequestsStep ==
    ASSUME TypeOK, OpenRequests, Next PROVE OpenRequests'
<1> USE DEF OpenRequests
<1>1. ASSUME NEW p \in Api, NEW R \in Request, Record(p, R) PROVE OpenRequests'
  <2>1. p \in Publisher /\ R \subseteq Event
    BY BusAssumption DEF Publisher
  <2>2. /\ step' = [step EXCEPT ![p] = "open"] /\ todo' = [todo EXCEPT ![p] = R]
        /\ \A e \in R : log[e] = "absent" /\ log'[e] = "open"
        /\ \A e \in Event \ R : log'[e] = log[e]
    BY <1>1, <2>1 DEF Record
  <2> QED
    BY <2>1, <2>2 DEF TypeOK
<1>2. ASSUME NEW p \in Api, CommitRequest(p) \/ AbortRequest(p) PROVE OpenRequests'
  <2>1. p \in Publisher
    BY DEF Publisher
  <2>2. /\ step[p] = "open" /\ \A q \in Publisher \ {p} : step'[q] = step[q]
        /\ step'[p] # "open" /\ \A q \in Publisher \ {p} : todo'[q] = todo[q]
        /\ \A e \in Event \ todo[p] : log'[e] = log[e]
    BY <1>2, <2>1 DEF TypeOK, CommitRequest, AbortRequest
  <2>3. ASSUME NEW q \in Publisher, step'[q] = "open"
        PROVE  /\ step[q] = "open" /\ todo'[q] = todo[q] /\ todo[q] \cap todo[p] = {}
               /\ \A e \in todo[q] : e \in Event
    BY <2>1, <2>2, <2>3 DEF TypeOK
  <2> QED
    BY <2>2, <2>3
<1>3. ASSUME NEW p \in Publisher,
             \A q \in Publisher \ {p} : step'[q] = step[q] /\ todo'[q] = todo[q],
             step'[p] # "open", log' = log
      PROVE  OpenRequests'
  BY <1>3 DEF TypeOK
<1>4. ASSUME NEW p \in Reconciler, SelectUnpublished(p) PROVE OpenRequests'
  BY <1>3, <1>4 DEF TypeOK, SelectUnpublished, Publisher, outboxVars
<1>5. ASSUME NEW p \in Publisher, NEW e \in Event, Publish(p, e) PROVE OpenRequests'
  <2>1. /\ \A q \in Publisher \ {p} : step'[q] = step[q] /\ todo'[q] = todo[q]
        /\ step'[p] # "open" /\ log' = log
    <3>1. CASE Xadd(p, e)
      BY <3>1 DEF TypeOK, Xadd, outboxVars
    <3>2. CASE XaddFails(p, e)
      BY <3>2 DEF TypeOK, XaddFails, NextToPublish, outboxVars
    <3>3. CASE MarkPublished(p, e)
      BY <3>3 DEF TypeOK, MarkPublished, NextToPublish
    <3> QED
      BY <1>5, <3>1, <3>2, <3>3 DEF Publish
  <2> QED
    BY <1>3, <2>1
<1>6. ASSUME NEW p \in Publisher, PublisherStops(p) PROVE OpenRequests'
  BY <1>3, <1>6 DEF TypeOK, PublisherStops, outboxVars
<1>7. ASSUME UNCHANGED <<log, publisherVars>> PROVE OpenRequests'
  BY <1>7 DEF publisherVars
<1>8. ASSUME NEW c \in Consumer, NEW i \in 1 .. Len(stream), CommitHandler(c, i)
      PROVE  OpenRequests'
  <2>1. GroupOf[c] \in Group /\ stream[i] \in Event
    BY BusAssumption DEF TypeOK
  <2>2. \A p \in Publisher : \A e \in todo[p] :
            step[p] = "open" => e \in Event /\ log'[e] = log[e]
    BY <1>8, <2>1, OneRecorder DEF CommitHandler, TypeOK
  <2> QED
    BY <1>8, <2>2 DEF CommitHandler, publisherVars, TypeOK
<1>9. ASSUME NEW c \in Consumer, NEW i \in 1 .. Len(stream), HandleOne(c, i)
      PROVE  OpenRequests'
  BY <1>7, <1>8, <1>9 DEF HandleOne, SkipUnwanted, Claim, SkipDuplicate,
     HandlerFails, Ack, outboxVars
<1>10. ASSUME NEW c \in Consumer, ReadNew(c) \/ ConsumerCrashes(c) PROVE OpenRequests'
  BY <1>7, <1>10 DEF ReadNew, ConsumerCrashes, outboxVars
<1>11. ASSUME NEW c \in Consumer, NEW S \in SUBSET (1 .. Len(stream)), Reclaim(c, S)
       PROVE  OpenRequests'
  BY <1>7, <1>11 DEF Reclaim, outboxVars
<1>12. ASSUME RestartStack PROVE OpenRequests'
  BY <1>12 DEF RestartStack
<1> QED
  BY <1>1, <1>2, <1>4, <1>5, <1>6, <1>9, <1>10, <1>11, <1>12 DEF Next

(* A committed event stays committed.                                      *)
LEMMA CommittedGrows ==
    ASSUME TypeOK, OpenRequests, Next PROVE Committed \subseteq Committed'
<1> SUFFICES ASSUME NEW f \in Event, log[f] = "committed" PROVE log'[f] = "committed"
  BY DEF Committed
<1>1. ASSUME NEW p \in Api, NEW R \in Request, Record(p, R) PROVE log'[f] = "committed"
  BY <1>1 DEF Record
<1>2. ASSUME NEW p \in Api, CommitRequest(p) \/ AbortRequest(p)
      PROVE  log'[f] = "committed"
  BY <1>2 DEF CommitRequest, AbortRequest, OpenRequests, Publisher
<1>3. ASSUME NEW p \in Publisher, \/ SelectUnpublished(p) \/ PublisherStops(p)
                                  \/ \E e \in Event : Publish(p, e)
      PROVE  log'[f] = "committed"
  BY <1>3 DEF SelectUnpublished, PublisherStops, Publish, Xadd, XaddFails,
              MarkPublished, outboxVars
<1>4. ASSUME NEW c \in Consumer, NEW i \in 1 .. Len(stream), HandleOne(c, i)
      PROVE  log'[f] = "committed"
  BY <1>4 DEF HandleOne, SkipUnwanted, Claim, SkipDuplicate, CommitHandler,
              HandlerFails, Ack, outboxVars
<1>5. ASSUME NEW c \in Consumer, \/ ReadNew(c) \/ ConsumerCrashes(c)
                                 \/ \E S \in SUBSET (1 .. Len(stream)) : Reclaim(c, S)
      PROVE  log'[f] = "committed"
  BY <1>5 DEF ReadNew, ConsumerCrashes, Reclaim, outboxVars
<1>6. ASSUME RestartStack PROVE log'[f] = "committed"
  BY <1>6 DEF RestartStack
<1> QED
  BY <1>1, <1>2, <1>3, <1>4, <1>5, <1>6 DEF Next, Publisher

(* The stream only grows, except when Redis restarts.                      *)
LEMMA StreamGrows ==
    ASSUME TypeOK, Next, ~RestartStack
    PROVE  /\ Len(stream) <= Len(stream')
           /\ \A i \in 1 .. Len(stream) : stream'[i] = stream[i]
           /\ stream \in Seq(Event) /\ Len(stream) \in Nat /\ Len(stream') \in Nat
<1>1. stream \in Seq(Event) /\ Len(stream) \in Nat
  BY DEF TypeOK
<1>2. ASSUME NEW e \in Event
      PROVE  /\ Len(Append(stream, e)) = Len(stream) + 1
             /\ \A i \in 1 .. Len(stream) : Append(stream, e)[i] = stream[i]
  BY <1>1
<1>3. stream' = stream \/ \E e \in Event : stream' = Append(stream, e)
  BY ZenonT(40) DEF Next, Record, CommitRequest, AbortRequest, SelectUnpublished,
     PublisherStops, Publish, Xadd, XaddFails, MarkPublished, ReadNew, Reclaim,
     ConsumerCrashes, HandleOne, SkipUnwanted, Claim, SkipDuplicate, CommitHandler,
     HandlerFails, Ack, redisVars
<1> QED
  BY <1>1, <1>2, <1>3

(* What a publisher has still to publish is committed.                     *)
LEMMA CommittedBeforePublishedStep ==
    ASSUME TypeOK, OpenRequests, CommittedBeforePublished, Next
    PROVE  CommittedBeforePublished'
<1>1. Committed \subseteq Committed'
  BY CommittedGrows
<1>2. ASSUME NEW p \in Publisher,
             \A q \in Publisher \ {p} : step'[q] = step[q] /\ todo'[q] = todo[q],
             step'[p] \in {"xadd", "mark"} => todo'[p] \subseteq Committed'
      PROVE  CommittedBeforePublished'
  BY <1>1, <1>2 DEF CommittedBeforePublished
<1>3. ASSUME NEW p \in Api, NEW R \in Request, Record(p, R)
      PROVE  CommittedBeforePublished'
  BY <1>2, <1>3 DEF Record, TypeOK, Publisher
<1>4. ASSUME NEW p \in Api, CommitRequest(p) PROVE CommittedBeforePublished'
  <2>1. todo[p] \subseteq Committed'
    BY <1>4 DEF CommitRequest, TypeOK, Publisher, Committed
  <2> QED
    BY <1>2, <1>4, <2>1 DEF CommitRequest, TypeOK, Publisher
<1>5. ASSUME NEW p \in Api, AbortRequest(p) PROVE CommittedBeforePublished'
  BY <1>2, <1>5 DEF AbortRequest, TypeOK, Publisher
<1>6. ASSUME NEW p \in Reconciler, SelectUnpublished(p) PROVE CommittedBeforePublished'
  <2>1. todo'[p] \subseteq Committed
    BY <1>6 DEF SelectUnpublished, TypeOK, Publisher, Unpublished
  <2> QED
    BY <1>1, <1>2, <1>6, <2>1 DEF SelectUnpublished, TypeOK, Publisher
<1>7. ASSUME NEW p \in Publisher, NEW e \in Event, Publish(p, e)
      PROVE  CommittedBeforePublished'
  <2>1. step[p] \in {"xadd", "mark"} /\ todo'[p] \subseteq todo[p]
        /\ \A q \in Publisher \ {p} : step'[q] = step[q] /\ todo'[q] = todo[q]
    <3>1. CASE Xadd(p, e)
      BY <3>1 DEF TypeOK, Xadd
    <3>2. CASE XaddFails(p, e)
      BY <3>2 DEF TypeOK, XaddFails, NextToPublish
    <3>3. CASE MarkPublished(p, e)
      BY <3>3 DEF TypeOK, MarkPublished, NextToPublish
    <3> QED
      BY <1>7, <3>1, <3>2, <3>3 DEF Publish
  <2> QED
    BY <1>1, <1>2, <2>1 DEF CommittedBeforePublished
<1>8. ASSUME NEW p \in Publisher, PublisherStops(p) PROVE CommittedBeforePublished'
  BY <1>2, <1>8 DEF PublisherStops, TypeOK
<1>9. ASSUME UNCHANGED publisherVars PROVE CommittedBeforePublished'
  BY <1>1, <1>9 DEF publisherVars, CommittedBeforePublished
<1>10. ASSUME NEW c \in Consumer, NEW i \in 1 .. Len(stream), HandleOne(c, i)
       PROVE  CommittedBeforePublished'
  BY <1>9, <1>10 DEF HandleOne, SkipUnwanted, Claim, SkipDuplicate, CommitHandler,
                     HandlerFails, Ack
<1>11. ASSUME NEW c \in Consumer,
              \/ ReadNew(c) \/ ConsumerCrashes(c)
              \/ \E S \in SUBSET (1 .. Len(stream)) : Reclaim(c, S)
       PROVE  CommittedBeforePublished'
  BY <1>9, <1>11 DEF ReadNew, ConsumerCrashes, Reclaim
<1>12. ASSUME RestartStack PROVE CommittedBeforePublished'
  BY <1>12 DEF RestartStack, CommittedBeforePublished
<1> QED
  BY <1>3, <1>4, <1>5, <1>6, <1>7, <1>8, <1>10, <1>11, <1>12 DEF Next

(* Only committed events are in the stream: XADD adds one that is, and     *)
(* nothing is ever uncommitted.                                            *)
LEMMA OnlyCommittedInStreamStep ==
    ASSUME TypeOK, OpenRequests, CommittedBeforePublished, OnlyCommittedInStream, Next
    PROVE  OnlyCommittedInStream'
<1>1. Committed \subseteq Committed'
  BY CommittedGrows
<1>2. CASE stream' = stream
  BY <1>1, <1>2 DEF OnlyCommittedInStream
<1>3. ASSUME NEW e \in Committed, stream' = Append(stream, e)
      PROVE  OnlyCommittedInStream'
  <2>1. stream \in Seq(Event) /\ Len(stream) \in Nat
    BY DEF TypeOK
  <2>2. /\ Len(stream') = Len(stream) + 1
        /\ \A i \in 1 .. Len(stream) + 1 :
              stream'[i] = IF i <= Len(stream) THEN stream[i] ELSE e
    BY <1>3, <2>1
  <2> QED
    BY <1>1, <2>1, <2>2 DEF OnlyCommittedInStream
<1>4. ASSUME NEW p \in Publisher, NEW e \in Event, Xadd(p, e) \/ XaddFails(p, e)
      PROVE  OnlyCommittedInStream'
  <2>1. e \in Committed
    BY <1>4 DEF Xadd, XaddFails, IsFirst, CommittedBeforePublished
  <2> QED
    BY <1>2, <1>3, <1>4, <2>1 DEF Xadd, XaddFails
<1>5. ASSUME RestartStack PROVE OnlyCommittedInStream'
  BY <1>5 DEF RestartStack, OnlyCommittedInStream
<1> QED
  BY <1>2, <1>4, <1>5 DEF Next, Record, CommitRequest, AbortRequest,
     SelectUnpublished, PublisherStops, Publish, MarkPublished, ReadNew, Reclaim,
     ConsumerCrashes, HandleOne, SkipUnwanted, Claim, SkipDuplicate, CommitHandler,
     HandlerFails, Ack, redisVars

(* A row is marked published only after its XADD.                          *)
LEMMA MarkedIsInStreamStep ==
    ASSUME TypeOK, MarkedIsInStream, Next PROVE MarkedIsInStream'
<1>1. CASE RestartStack
  BY <1>1 DEF RestartStack, MarkedIsInStream, TypeOK
<1>2. CASE ~RestartStack
  <2>1. \A e : InStream(e) => InStream(e)'
    BY <1>2, StreamGrows DEF InStream
  <2>2. ASSUME UNCHANGED <<published, publisherVars>> PROVE MarkedIsInStream'
    <3>1. restarts' = 0 => restarts = 0
      BY <1>2 DEF TypeOK, Next, Record, CommitRequest, AbortRequest, SelectUnpublished,
         PublisherStops, Publish, Xadd, XaddFails, MarkPublished, ReadNew, Reclaim,
         ConsumerCrashes, HandleOne, SkipUnwanted, Claim, SkipDuplicate, CommitHandler,
         HandlerFails, Ack, faultVars
    <3> QED
      BY <2>1, <2>2, <3>1 DEF MarkedIsInStream, publisherVars
  <2>3. ASSUME NEW p \in Publisher,
               \A q \in Publisher \ {p} : step'[q] = step[q] /\ todo'[q] = todo[q],
               step'[p] # "mark", published' = published, restarts' = restarts
        PROVE  MarkedIsInStream'
    BY <2>1, <2>3 DEF MarkedIsInStream
  <2>4. ASSUME NEW p \in Api, NEW R \in Request, Record(p, R) PROVE MarkedIsInStream'
    BY <2>3, <2>4 DEF Record, TypeOK, Publisher, faultVars
  <2>5. ASSUME NEW p \in Api, CommitRequest(p) \/ AbortRequest(p)
        PROVE  MarkedIsInStream'
    <3>1. CASE CommitRequest(p)
      BY <2>3, <3>1 DEF CommitRequest, TypeOK, Publisher, faultVars
    <3>2. CASE AbortRequest(p)
      BY <2>3, <3>2 DEF AbortRequest, TypeOK, Publisher
    <3> QED
      BY <2>5, <3>1, <3>2
  <2>6. ASSUME NEW p \in Reconciler, SelectUnpublished(p) PROVE MarkedIsInStream'
    BY <2>3, <2>6 DEF SelectUnpublished, TypeOK, Publisher, outboxVars, faultVars
  <2>7. ASSUME NEW p \in Publisher, PublisherStops(p) PROVE MarkedIsInStream'
    BY <2>3, <2>7 DEF PublisherStops, TypeOK, outboxVars
  <2>8. ASSUME NEW p \in Publisher, NEW e \in Event, Xadd(p, e)
        PROVE  MarkedIsInStream'
    <3>1. /\ IsFirst(e, todo[p]) /\ todo' = todo /\ todo[p] \subseteq Nat
          /\ step' = [step EXCEPT ![p] = "mark"]
          /\ UNCHANGED <<published, restarts>>
      BY <2>8, BusAssumption DEF Xadd, TypeOK, outboxVars, faultVars
    <3>2. InStream(e)'
      <4>1. stream' = Append(stream, e) /\ stream \in Seq(Event) /\ Len(stream) \in Nat
        BY <2>8 DEF Xadd, TypeOK
      <4>2. Len(stream) + 1 \in 1 .. Len(stream') /\ stream'[Len(stream) + 1] = e
        BY <4>1
      <4> QED
        BY <4>2 DEF InStream
    <3>3. ASSUME NEW f \in Event, IsFirst(f, todo[p]) PROVE f = e
      BY <3>1, <3>3, FirstIsUnique
    <3> QED
      BY <2>1, <3>1, <3>2, <3>3 DEF MarkedIsInStream, TypeOK
  <2>9. ASSUME NEW p \in Publisher, NEW e \in Event, XaddFails(p, e)
        PROVE  MarkedIsInStream'
    BY <2>3, <2>9 DEF XaddFails, NextToPublish, TypeOK, outboxVars
  <2>10. ASSUME NEW p \in Publisher, NEW e \in Event, MarkPublished(p, e)
         PROVE  MarkedIsInStream'
    <3>1. /\ InStream(e) /\ published' = published \cup {e} /\ step'[p] # "mark"
          /\ restarts' = restarts
          /\ \A q \in Publisher \ {p} : step'[q] = step[q] /\ todo'[q] = todo[q]
      BY <2>10 DEF MarkPublished, NextToPublish, TypeOK, MarkedIsInStream, faultVars
    <3> QED
      BY <2>1, <3>1 DEF MarkedIsInStream
  <2>11. ASSUME NEW c \in Consumer, NEW i \in 1 .. Len(stream), HandleOne(c, i)
         PROVE  MarkedIsInStream'
    BY <2>2, <2>11 DEF HandleOne, SkipUnwanted, Claim, SkipDuplicate, CommitHandler,
                       HandlerFails, Ack, outboxVars
  <2>12. ASSUME NEW c \in Consumer,
                \/ ReadNew(c) \/ ConsumerCrashes(c)
                \/ \E S \in SUBSET (1 .. Len(stream)) : Reclaim(c, S)
         PROVE  MarkedIsInStream'
    BY <2>2, <2>12 DEF ReadNew, ConsumerCrashes, Reclaim, outboxVars
  <2> QED
    BY <1>2, <2>4, <2>5, <2>6, <2>7, <2>8, <2>9, <2>10, <2>11, <2>12
       DEF Next, Publish
<1> QED
  BY <1>1, <1>2

-----------------------------------------------------------------------------
(* The consumers.                                                          *)

(* Steps of publishers leave what consumers rely on alone.                 *)
LEMMA PublishersLeaveConsumersAlone ==
    ASSUME Next,
           ~ \E c \in Consumer : ReadNew(c) \/ ConsumerCrashes(c),
           ~ \E c \in Consumer, S \in SUBSET (1 .. Len(stream)) : Reclaim(c, S),
           ~ \E c \in Consumer, i \in 1 .. Len(stream) : HandleOne(c, i),
           ~RestartStack
    PROVE  UNCHANGED <<delivered, pending, consumerVars, domainVars>>
  BY DEF Next, Record, CommitRequest, AbortRequest, SelectUnpublished, Publish,
     Xadd, XaddFails, MarkPublished, PublisherStops, redisVars

(* What is in a batch is in the stream.                                    *)
LEMMA BatchInStream ==
    ASSUME TypeOK, NEW c \in Consumer, NEW i \in batch[c]
    PROVE  i \in 1 .. Len(stream) /\ stream[i] \in Event /\ GroupOf[c] \in Group
<1>1. GroupOf[c] \in Group
  BY BusAssumption
<1>2. Len(stream) \in Nat /\ delivered[GroupOf[c]] \in 0 .. Len(stream)
         /\ i \in 1 .. delivered[GroupOf[c]] /\ stream \in Seq(Event)
  BY <1>1 DEF TypeOK
<1> QED
  BY <1>1, <1>2

(* No two members of a group ever handle the same event.                   *)
LEMMA ClaimsAreExclusiveStep ==
    ASSUME TypeOK, ClaimsAreExclusive, Next PROVE ClaimsAreExclusive'
<1>1. CASE RestartStack
  BY <1>1 DEF RestartStack, ClaimsAreExclusive
<1>2. CASE ~RestartStack
  <2>1. \A c \in Consumer : \A i \in batch[c] : stream'[i] = stream[i]
    BY <1>2, StreamGrows, BatchInStream
  <2>2. ASSUME UNCHANGED <<consumerVars, domainVars>> PROVE ClaimsAreExclusive'
    BY <2>1, <2>2 DEF ClaimsAreExclusive, consumerVars, domainVars, Handling
  <2>3. ASSUME NEW c \in Consumer, UNCHANGED domainVars,
               work'[c] = "ready",
               \A d \in Consumer \ {c} : work'[d] = work[d] /\ batch'[d] = batch[d]
        PROVE  ClaimsAreExclusive'
    BY <2>1, <2>3 DEF ClaimsAreExclusive, domainVars, Handling
  <2>4. ASSUME NEW c \in Consumer,
               \/ ReadNew(c) \/ ConsumerCrashes(c)
               \/ \E S \in SUBSET (1 .. Len(stream)) : Reclaim(c, S)
        PROVE  ClaimsAreExclusive'
    <3>1. CASE ConsumerCrashes(c)
      BY <2>3, <3>1 DEF ConsumerCrashes, TypeOK
    <3>2. CASE ReadNew(c) \/ \E S \in SUBSET (1 .. Len(stream)) : Reclaim(c, S)
      <4>1. work' = work /\ work[c] = "ready" /\ UNCHANGED domainVars
               /\ \A d \in Consumer \ {c} : batch'[d] = batch[d]
        BY <3>2 DEF ReadNew, Reclaim, InFlight, ClaimsAreExclusive, TypeOK
      <4> QED
        BY <2>3, <4>1
    <3> QED
      BY <2>4, <3>1, <3>2
  <2>5. ASSUME NEW c \in Consumer, NEW i \in 1 .. Len(stream), HandleOne(c, i)
        PROVE  ClaimsAreExclusive'
    <3>1. CASE SkipUnwanted(c, i) \/ SkipDuplicate(c, i) \/ Ack(c, i)
      BY <2>3, <3>1 DEF SkipUnwanted, SkipDuplicate, Ack, Acknowledge, TypeOK
    <3>2. CASE HandlerFails(c, i)
      BY <2>3, <3>2 DEF HandlerFails, TypeOK
    <3>3. CASE Claim(c, i)
      <4>1. /\ IsFirst(i, batch[c]) /\ i \in batch[c] /\ stream' = stream
            /\ stream[i] \in Wanted[GroupOf[c]] \ processed[GroupOf[c]]
            /\ \A d \in Consumer : GroupOf[d] = GroupOf[c] => ~Claims(d, stream[i])
            /\ work' = [work EXCEPT ![c] = "handling"]
            /\ UNCHANGED <<batch, processed>>
        BY <3>3 DEF Claim, IsFirst, redisVars, domainVars
      <4>2. \A j \in batch[c] : IsFirst(j, batch[c]) => j = i
        BY <4>1, FirstIsUnique DEF TypeOK
      <4>3. \A d \in Consumer : \A j \in batch[d] :
               GroupOf[d] = GroupOf[c] /\ Handling(d, j) => stream[j] # stream[i]
        BY <4>1 DEF Claims, Handling
      <4>4. \A d \in Consumer \ {c} : work'[d] = work[d]
        BY <4>1 DEF TypeOK
      <4> QED
        BY <4>1, <4>2, <4>3, <4>4 DEF ClaimsAreExclusive, Handling, TypeOK
    <3>4. CASE CommitHandler(c, i)
      <4>1. /\ i \in batch[c] /\ Handling(c, i) /\ UNCHANGED <<stream, batch>>
            /\ processed' = [processed EXCEPT ![GroupOf[c]] = @ \cup {stream[i]}]
            /\ work' = [work EXCEPT ![c] = "acking"]
        BY <3>4 DEF CommitHandler, IsFirst, Handling, redisVars
      <4>2. work'[c] = "acking" /\ \A d \in Consumer \ {c} : work'[d] = work[d]
        BY <4>1 DEF TypeOK
      <4>3. ASSUME NEW d \in Consumer, NEW j \in batch[d], Handling(d, j)'
            PROVE  d # c /\ Handling(d, j)
                   /\ stream[j] \in Wanted[GroupOf[d]] \ processed'[GroupOf[d]]
        <5>1. d # c /\ Handling(d, j)
          BY <4>1, <4>2, <4>3 DEF Handling
        <5>2. stream[j] \in Wanted[GroupOf[d]] \ processed[GroupOf[d]]
          BY <5>1 DEF ClaimsAreExclusive
        <5>3. GroupOf[d] = GroupOf[c] => stream[j] # stream[i]
          BY <4>1, <5>1 DEF ClaimsAreExclusive
        <5>4. GroupOf[d] \in Group /\ GroupOf[c] \in Group
          BY BusAssumption
        <5> QED
          BY <4>1, <5>1, <5>2, <5>3, <5>4 DEF TypeOK
      <4> QED
        BY <4>1, <4>2, <4>3 DEF ClaimsAreExclusive
    <3> QED
      BY <2>5, <3>1, <3>2, <3>3, <3>4 DEF HandleOne
  <2> QED
    BY <1>2, <2>2, <2>4, <2>5, PublishersLeaveConsumersAlone
<1> QED
  BY <1>1, <1>2

(* An entry leaves the pending list only when its event needs no handling. *)
LEMMA AckedIsDoneStep ==
    ASSUME TypeOK, ClaimsAreExclusive, AckedIsDone, Next PROVE AckedIsDone'
<1>1. CASE RestartStack
  BY <1>1 DEF RestartStack, AckedIsDone
<1>2. CASE ~RestartStack
  <2>1. /\ \A c \in Consumer : \A i \in batch[c] : stream'[i] = stream[i]
        /\ \A g \in Group : \A i \in 1 .. delivered[g] : stream'[i] = stream[i]
    BY <1>2, StreamGrows, BatchInStream DEF TypeOK
  <2>2. ASSUME UNCHANGED <<delivered, pending, consumerVars, domainVars>>
        PROVE  AckedIsDone'
    BY <2>1, <2>2 DEF AckedIsDone, consumerVars, domainVars
  <2>3. ASSUME NEW c \in Consumer, UNCHANGED <<delivered, pending, processed>>,
               work'[c] # "acking",
               \A d \in Consumer \ {c} : work'[d] = work[d] /\ batch'[d] = batch[d]
        PROVE  AckedIsDone'
    BY <2>1, <2>3 DEF AckedIsDone
  <2>4. ASSUME NEW c \in Consumer, ConsumerCrashes(c) PROVE AckedIsDone'
    BY <2>3, <2>4 DEF ConsumerCrashes, TypeOK, redisVars, domainVars
  <2>5. ASSUME NEW c \in Consumer, NEW S \in SUBSET (1 .. Len(stream)), Reclaim(c, S)
        PROVE  AckedIsDone'
    BY <2>3, <2>5 DEF Reclaim, InFlight, ClaimsAreExclusive, TypeOK, redisVars, domainVars
  <2>6. ASSUME NEW c \in Consumer, ReadNew(c) PROVE AckedIsDone'
    <3> DEFINE g == GroupOf[c]
               fresh == {i \in 1 .. Len(stream) :
                           delivered[g] < i /\ i <= delivered[g] + ReadCount}
               last == CHOOSE i \in fresh : \A j \in fresh : j <= i
    <3>1. /\ g \in Group /\ Len(stream) \in Nat /\ delivered[g] \in 0 .. Len(stream)
          /\ ReadCount \in Nat
      BY BusAssumption DEF TypeOK
    <3>2. /\ fresh # {} /\ stream' = stream /\ processed' = processed
          /\ work' = work /\ work[c] = "ready"
          /\ batch' = [batch EXCEPT ![c] = fresh]
          /\ pending' = [pending EXCEPT ![g] = @ \cup fresh]
          /\ delivered' = [delivered EXCEPT ![g] = last]
      BY <2>6 DEF ReadNew, InFlight, ClaimsAreExclusive, TypeOK, domainVars
    <3>3. last \in fresh
      BY <2>6, LastIsRead
    <3> HIDE DEF last
    <3>4. \A h \in Group :
              (1 .. delivered'[h]) \ pending'[h] \subseteq (1 .. delivered[h]) \ pending[h]
      <4>1. ASSUME NEW i \in 1 .. last PROVE i \in 1 .. delivered[g] \/ i \in fresh
        BY <3>1, <3>3
      <4>2. delivered'[g] = last /\ pending'[g] = pending[g] \cup fresh
        BY <3>1, <3>2 DEF TypeOK
      <4>3. \A h \in Group \ {g} : delivered'[h] = delivered[h] /\ pending'[h] = pending[h]
        BY <3>2 DEF TypeOK
      <4> QED
        BY <4>1, <4>2, <4>3
    <3>5. \A d \in Consumer : work'[d] = "acking" => batch'[d] = batch[d]
      BY <3>2 DEF TypeOK
    <3> QED
      BY <3>2, <3>4, <3>5 DEF AckedIsDone
  <2>7. ASSUME NEW c \in Consumer, NEW i \in 1 .. Len(stream), HandleOne(c, i)
        PROVE  AckedIsDone'
    <3>1. CASE Claim(c, i)
      BY <2>3, <3>1 DEF Claim, TypeOK, redisVars, domainVars
    <3>2. CASE HandlerFails(c, i)
      BY <2>3, <3>2 DEF HandlerFails, TypeOK, redisVars, domainVars
    <3>3. CASE SkipUnwanted(c, i) \/ SkipDuplicate(c, i) \/ Ack(c, i)
      <4>1. GroupOf[c] \in Group
        BY BusAssumption
      <4>2. /\ stream[i] \in Wanted[GroupOf[c]] => stream[i] \in processed[GroupOf[c]]
            /\ UNCHANGED <<stream, delivered, processed>> /\ work'[c] = "ready"
            /\ \A d \in Consumer \ {c} : work'[d] = work[d] /\ batch'[d] = batch[d]
            /\ pending' = [pending EXCEPT ![GroupOf[c]] = @ \ {i}]
        BY <3>3 DEF SkipUnwanted, SkipDuplicate, Ack, Acknowledge, TypeOK, AckedIsDone,
                    IsFirst, domainVars
      <4>3. \A g \in Group : \A k \in pending[g] \ pending'[g] : g = GroupOf[c] /\ k = i
        BY <4>2 DEF TypeOK
      <4> QED
        BY <4>2, <4>3 DEF AckedIsDone
    <3>4. CASE CommitHandler(c, i)
      <4>1. GroupOf[c] \in Group
        BY BusAssumption
      <4>2. /\ IsFirst(i, batch[c]) /\ UNCHANGED <<stream, delivered, pending, batch>>
            /\ processed' = [processed EXCEPT ![GroupOf[c]] = @ \cup {stream[i]}]
            /\ \A d \in Consumer \ {c} : work'[d] = work[d]
        BY <3>4 DEF CommitHandler, redisVars, TypeOK
      <4>3. \A g \in Group : processed[g] \subseteq processed'[g]
        BY <4>2 DEF TypeOK
      <4>4. stream[i] \in processed'[GroupOf[c]]
        BY <4>1, <4>2 DEF TypeOK
      <4>5. \A k \in batch[c] : IsFirst(k, batch[c]) => k = i
        BY <4>2, FirstIsUnique DEF TypeOK
      <4>6. \A d \in Consumer : GroupOf[d] \in Group
        BY BusAssumption
      <4> QED
        BY <4>2, <4>3, <4>4, <4>5, <4>6 DEF AckedIsDone
    <3> QED
      BY <2>7, <3>1, <3>2, <3>3, <3>4 DEF HandleOne
  <2> QED
    BY <1>2, <2>2, <2>4, <2>5, <2>6, <2>7, PublishersLeaveConsumersAlone
<1> QED
  BY <1>1, <1>2

(* The handler's effect and its marker come and stay together.             *)
LEMMA MarkerMeansOneEffectStep ==
    ASSUME TypeOK, ClaimsAreExclusive, MarkerMeansOneEffect, Next
    PROVE  MarkerMeansOneEffect'
<1>1. ASSUME UNCHANGED domainVars PROVE MarkerMeansOneEffect'
  BY <1>1 DEF domainVars, MarkerMeansOneEffect
<1>2. ASSUME NEW c \in Consumer, NEW i \in 1 .. Len(stream), CommitHandler(c, i)
      PROVE  MarkerMeansOneEffect'
  <2>1. GroupOf[c] \in Group /\ stream[i] \in Event
    BY BusAssumption DEF TypeOK
  <2>2. /\ stream[i] \notin processed[GroupOf[c]]
        /\ processed' = [processed EXCEPT ![GroupOf[c]] = @ \cup {stream[i]}]
        /\ effects' = [effects EXCEPT ![GroupOf[c]][stream[i]] = @ + 1]
    BY <1>2 DEF CommitHandler, ClaimsAreExclusive, Handling, IsFirst
  <2> QED
    BY <2>1, <2>2 DEF MarkerMeansOneEffect, TypeOK
<1>3. CASE \E c \in Consumer, i \in 1 .. Len(stream) : HandleOne(c, i)
  BY <1>1, <1>2, <1>3 DEF HandleOne, SkipUnwanted, Claim, SkipDuplicate,
                          HandlerFails, Ack
<1>4. CASE \E c \in Consumer : ReadNew(c) \/ ConsumerCrashes(c)
  BY <1>1, <1>4 DEF ReadNew, ConsumerCrashes
<1>5. CASE \E c \in Consumer, S \in SUBSET (1 .. Len(stream)) : Reclaim(c, S)
  BY <1>1, <1>5 DEF Reclaim
<1>6. CASE RestartStack
  BY <1>1, <1>6 DEF RestartStack
<1> QED
  BY <1>1, <1>3, <1>4, <1>5, <1>6, PublishersLeaveConsumersAlone DEF domainVars

(* The events a handler records appear with its effect, by its commit and  *)
(* by nothing else.                                                        *)
LEMMA FollowUpsStep ==
    ASSUME TypeOK, OpenRequests, FollowUpsCommitWithEffect, Next
    PROVE  FollowUpsCommitWithEffect'
<1>1. \A g \in Group, e \in Event : Follow[g][e] \subseteq Event
  BY BusAssumption
<1>2. ASSUME effects' = effects,
             \A g \in Group, e \in Event : \A f \in Follow[g][e] :
                log'[f] = "committed" <=> log[f] = "committed"
      PROVE  FollowUpsCommitWithEffect'
  BY <1>1, <1>2 DEF FollowUpsCommitWithEffect, Committed
<1>3. ASSUME UNCHANGED <<log, domainVars>> PROVE FollowUpsCommitWithEffect'
  BY <1>2, <1>3 DEF domainVars
<1>4. ASSUME NEW p \in Api, NEW R \in Request, Record(p, R)
      PROVE  FollowUpsCommitWithEffect'
  BY <1>1, <1>2, <1>4, OneRecorder DEF Record, domainVars
<1>5. ASSUME NEW p \in Api, CommitRequest(p) \/ AbortRequest(p)
      PROVE  FollowUpsCommitWithEffect'
  <2>1. todo[p] \in Request /\ effects' = effects
    BY <1>5 DEF CommitRequest, AbortRequest, OpenRequests, Publisher, domainVars
  <2>2. \A e \in Event \ todo[p] : log'[e] = log[e]
    BY <1>5 DEF CommitRequest, AbortRequest
  <2> QED
    BY <1>1, <1>2, <2>1, <2>2, OneRecorder
<1>6. ASSUME NEW c \in Consumer, NEW i \in 1 .. Len(stream), CommitHandler(c, i)
      PROVE  FollowUpsCommitWithEffect'
  <2> DEFINE h == GroupOf[c]
             d == stream[i]
  <2>1. h \in Group /\ d \in Event
    BY BusAssumption DEF TypeOK
  <2>2. /\ \A f \in Follow[h][d] : log'[f] = "committed"
        /\ \A f \in Event \ Follow[h][d] : log'[f] = log[f]
        /\ effects'[h][d] = effects[h][d] + 1
        /\ \A g \in Group, e \in Event :
              <<g, e>> # <<h, d>> => effects'[g][e] = effects[g][e]
    BY <1>1, <1>6, <2>1 DEF CommitHandler, TypeOK
  <2>3. effects[h][d] \in Nat
    BY <2>1 DEF TypeOK
  <2> HIDE DEF h, d
  <2>4. ASSUME NEW g \in Group, NEW e \in Event, NEW f \in Follow[g][e]
        PROVE  f \in Committed' <=> effects'[g][e] > 0
    <3>1. f \in Event
      BY <1>1
    <3>2. CASE <<g, e>> = <<h, d>>
      BY <2>2, <2>3, <3>1, <3>2 DEF Committed
    <3>3. CASE <<g, e>> # <<h, d>>
      <4>1. f \notin Follow[h][d]
        BY <2>1, <3>3, OneRecorder
      <4>2. effects'[g][e] = effects[g][e] /\ log'[f] = log[f]
        BY <2>2, <3>1, <3>3, <4>1
      <4> QED
        BY <3>1, <4>2 DEF FollowUpsCommitWithEffect, Committed
    <3> QED
      BY <3>2, <3>3
  <2> QED
    BY <2>4 DEF FollowUpsCommitWithEffect
<1>7. CASE \E c \in Consumer, i \in 1 .. Len(stream) : HandleOne(c, i)
  BY <1>3, <1>6, <1>7 DEF HandleOne, SkipUnwanted, Claim, SkipDuplicate,
                          HandlerFails, Ack, outboxVars
<1>8. CASE \E c \in Consumer : ReadNew(c) \/ ConsumerCrashes(c)
  BY <1>3, <1>8 DEF ReadNew, ConsumerCrashes, outboxVars
<1>9. CASE \E c \in Consumer, S \in SUBSET (1 .. Len(stream)) : Reclaim(c, S)
  BY <1>3, <1>9 DEF Reclaim, outboxVars
<1>10. CASE \E p \in Publisher : \/ SelectUnpublished(p) \/ PublisherStops(p)
                                 \/ \E e \in Event : Publish(p, e)
  BY <1>3, <1>10 DEF SelectUnpublished, PublisherStops, Publish, Xadd, XaddFails,
                     MarkPublished, outboxVars
<1>11. CASE RestartStack
  BY <1>1, <1>2, <1>11 DEF RestartStack, domainVars
<1> QED
  BY <1>4, <1>5, <1>7, <1>8, <1>9, <1>10, <1>11 DEF Next, Publisher

-----------------------------------------------------------------------------
(* The inductive invariant and what follows from it.                       *)
LEMMA InvInit == Init => IInv
<1> SUFFICES ASSUME Init PROVE IInv
  OBVIOUS
<1>1. TypeOK
  BY TypeInit
<1>2. OpenRequests /\ CommittedBeforePublished /\ OnlyCommittedInStream
         /\ MarkedIsInStream
  BY DEF Init, OpenRequests, CommittedBeforePublished, OnlyCommittedInStream,
         MarkedIsInStream
<1>3. ClaimsAreExclusive /\ AckedIsDone /\ MarkerMeansOneEffect
  BY BusAssumption DEF Init, ClaimsAreExclusive, AckedIsDone, MarkerMeansOneEffect, Handling
<1>4. FollowUpsCommitWithEffect
  BY BusAssumption DEF Init, FollowUpsCommitWithEffect, Committed
<1> QED
  BY <1>1, <1>2, <1>3, <1>4 DEF IInv

LEMMA InvStep == IInv /\ [Next]_vars => IInv'
<1> SUFFICES ASSUME IInv, [Next]_vars PROVE IInv'
  OBVIOUS
<1>1. CASE UNCHANGED vars
  BY <1>1 DEF IInv, vars, outboxVars, publisherVars, redisVars, consumerVars,
     domainVars, faultVars, TypeOK, OpenRequests, CommittedBeforePublished,
     OnlyCommittedInStream, MarkedIsInStream, ClaimsAreExclusive, AckedIsDone,
     MarkerMeansOneEffect, FollowUpsCommitWithEffect, Committed, InStream, Handling
<1>2. CASE Next
  BY <1>2, TypeStep, OpenRequestsStep, CommittedBeforePublishedStep,
     OnlyCommittedInStreamStep, MarkedIsInStreamStep, ClaimsAreExclusiveStep,
     AckedIsDoneStep, MarkerMeansOneEffectStep, FollowUpsStep DEF IInv
<1> QED
  BY <1>1, <1>2

(* The inductive invariant, from which the properties below follow.        *)
THEOREM Inductive == Spec => []IInv
  BY InvInit, InvStep, PTL DEF Spec

(* A group's handler takes effect at most once for an event, and exactly   *)
(* when its marker is there: "idempotency state lives in PostgreSQL".      *)
THEOREM EffectOnce == Spec => []MarkerMeansOneEffect
<1>1. IInv => MarkerMeansOneEffect
  BY DEF IInv
<1> QED
  BY <1>1, Inductive, PTL

(* No entry of the stream carries an event whose transaction did not       *)
(* commit: publishing happens after the commit, never inside it.           *)
THEOREM PublishedAfterCommit == Spec => []OnlyCommittedInStream
<1>1. IInv => OnlyCommittedInStream
  BY DEF IInv
<1> QED
  BY <1>1, Inductive, PTL

(* A handler that fails partway leaves none of its events behind.          *)
THEOREM FollowUpsAreAtomic == Spec => []FollowUpsCommitWithEffect
<1>1. IInv => FollowUpsCommitWithEffect
  BY DEF IInv
<1> QED
  BY <1>1, Inductive, PTL

(* No event is lost between PostgreSQL, the stream and the groups as long  *)
(* as Redis keeps its data.                                                *)
THEOREM NothingLost == Spec => []NoLostEventWhileRedisLives
<1>1. IInv => NoLostEventWhileRedisLives
  <2> SUFFICES ASSUME IInv, restarts = 0, NEW g \in Group,
                      NEW e \in (Committed \cap Wanted[g]) \ processed[g],
                      e \in published
               PROVE  \E i \in 1 .. Len(stream) :
                         stream[i] = e /\ (delivered[g] < i \/ i \in pending[g])
    BY DEF NoLostEventWhileRedisLives, NoLostEvent, Unpublished
  <2>1. PICK i \in 1 .. Len(stream) : stream[i] = e
    BY DEF IInv, MarkedIsInStream, InStream
  <2>2. i \in 1 .. delivered[g] => i \in pending[g]
    BY <2>1 DEF IInv, AckedIsDone
  <2>3. Len(stream) \in Nat /\ delivered[g] \in Nat
    BY DEF IInv, TypeOK
  <2> QED
    BY <2>1, <2>2, <2>3
<1> QED
  BY <1>1, Inductive, PTL

-----------------------------------------------------------------------------
(* The bus implements the delivery the models of the services assume.      *)
LEMMA DeliveryStep == IInv /\ [Next]_vars => [Delivery!DeliveryNext]_(Delivery!deliveryVars)
<1> SUFFICES ASSUME IInv, [Next]_vars, ~UNCHANGED <<Committed, effects>>
             PROVE  Delivery!DeliveryNext
  BY DEF Delivery!deliveryVars
<1>1. ASSUME NEW p \in Api, CommitRequest(p) PROVE Delivery!DeliveryNext
  <2>1. p \in Publisher /\ step[p] = "open" /\ todo[p] \in Request
        /\ todo[p] \cap Committed = {} /\ todo[p] \subseteq Event
    BY <1>1 DEF CommitRequest, Publisher, IInv, OpenRequests, Committed, TypeOK
  <2>2. Committed' = Committed \cup todo[p] /\ effects' = effects
    BY <1>1, <2>1 DEF CommitRequest, Committed, domainVars
  <2>3. Delivery!Commit(todo[p])
    BY <2>1, <2>2 DEF Delivery!Commit
  <2> QED
    BY <2>1, <2>3 DEF Delivery!DeliveryNext
<1>2. ASSUME NEW c \in Consumer, NEW i \in 1 .. Len(stream), CommitHandler(c, i)
      PROVE  Delivery!DeliveryNext
  <2> DEFINE g == GroupOf[c]
             e == stream[i]
  <2>1. g \in Group /\ e \in Event /\ Follow[g][e] \subseteq Event
    <3>1. g \in Group
      BY BusAssumption
    <3>2. e \in Event
      <4>1. TypeOK
        BY DEF IInv
      <4> QED
        BY <4>1 DEF TypeOK
    <3>3. \A h \in Group, f \in Event : Follow[h][f] \subseteq Event
      BY BusAssumption
    <3> QED
      BY <3>1, <3>2, <3>3
  <2>2. e \in Wanted[g] \ processed[g]
    BY <1>2 DEF CommitHandler, IInv, ClaimsAreExclusive, Handling, IsFirst
  <2>3. e \in Committed /\ effects[g][e] = 0
    BY <2>1, <2>2 DEF IInv, OnlyCommittedInStream, MarkerMeansOneEffect
  <2>4. effects' = [effects EXCEPT ![g][e] = 1]
    BY <1>2, <2>1, <2>3 DEF CommitHandler, IInv, TypeOK
  <2>5. Committed' = Committed \cup Follow[g][e]
    BY <1>2, <2>1 DEF CommitHandler, Committed
  <2>6. Delivery!Handle(g, e)
    BY <2>2, <2>3, <2>4, <2>5 DEF Delivery!Handle
  <2> QED
    BY <2>1, <2>6 DEF Delivery!DeliveryNext
<1>3. ASSUME effects' = effects,
             \A f \in Event : log'[f] = "committed" <=> log[f] = "committed"
      PROVE  FALSE
  BY <1>3 DEF Committed
<1>4. ASSUME UNCHANGED <<log, domainVars>> PROVE FALSE
  BY <1>3, <1>4 DEF domainVars
<1>5. ASSUME NEW p \in Api, NEW R \in Request, Record(p, R) PROVE FALSE
  BY <1>3, <1>5 DEF Record, domainVars
<1>6. ASSUME NEW p \in Api, AbortRequest(p) PROVE FALSE
  BY <1>3, <1>6 DEF AbortRequest, domainVars, IInv, OpenRequests, Publisher
<1>7. CASE RestartStack
  BY <1>3, <1>7 DEF RestartStack, domainVars
<1>8. CASE \E c \in Consumer, i \in 1 .. Len(stream) : HandleOne(c, i)
  BY <1>2, <1>4, <1>8 DEF HandleOne, SkipUnwanted, Claim, SkipDuplicate,
                          HandlerFails, Ack, outboxVars
<1>9. CASE \E c \in Consumer : ReadNew(c) \/ ConsumerCrashes(c)
  BY <1>4, <1>9 DEF ReadNew, ConsumerCrashes, outboxVars
<1>10. CASE \E c \in Consumer, S \in SUBSET (1 .. Len(stream)) : Reclaim(c, S)
  BY <1>4, <1>10 DEF Reclaim, outboxVars
<1>11. CASE \E p \in Publisher : \/ SelectUnpublished(p) \/ PublisherStops(p)
                                 \/ \E e \in Event : Publish(p, e)
  BY <1>4, <1>11 DEF SelectUnpublished, PublisherStops, Publish, Xadd, XaddFails,
                     MarkPublished, outboxVars
<1>12. CASE UNCHANGED vars
  BY <1>4, <1>12 DEF vars, outboxVars
<1> QED
  BY <1>1, <1>5, <1>6, <1>7, <1>8, <1>9, <1>10, <1>11, <1>12 DEF Next, Publisher

(* Whatever Redis, publishers and workers do, each step is a commit of a   *)
(* request, one handling of a committed event, or nothing to the domain.   *)
THEOREM Implementation == Spec => ImplementsDelivery
<1>1. Init => Delivery!DeliveryInit
  BY DEF Init, Committed, Delivery!DeliveryInit
<1> QED
  BY <1>1, DeliveryStep, Inductive, PTL DEF Spec, ImplementsDelivery,
     Delivery!DeliverySafety
=============================================================================
