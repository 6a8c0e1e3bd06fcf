---------------------------- MODULE LiveHub_proofs ----------------------------
(***************************************************************************)
(* Proofs about LiveHub, for every set of pages, any size of the inbox and *)
(* any number of events and faults: types, and that a page misses an event *)
(* only because the inbox was full.                                        *)
(***************************************************************************)
EXTENDS LiveHub, SequenceTheorems, FiniteSetTheorems, TLAPS

Number == 1 .. Len(events) \* the events there are

(* Every variable has its type; what is queued or being sent has happened. *)
TypeInv ==
    /\ events \in Seq([trailer : Trailer, kind : Kind])
    /\ todo \subseteq Number
    /\ inbox \in Seq(Number)
    /\ dropped \subseteq Number
    /\ pump \in [event : {0} \cup Number, rail : {"none", "dashboard", "track"},
                 to : SUBSET Page, gone : SUBSET Page]
    /\ clients \subseteq Page /\ ghosts \subseteq Page
    /\ since \in [Page -> Nat]
    /\ got \in [Page -> SUBSET ({0} \cup Number)]
    /\ answers \in [Tracker -> SUBSET Int]
    /\ shown \in [Tracker -> Int]
    /\ faults \in 0 .. MaxFaults

-----------------------------------------------------------------------------
LEMMA TypeInit == Init => TypeInv
  BY LiveHubAssumption DEF Init, TypeInv, Idle, Number

(* The events so far stay what they are.                                   *)
LEMMA Commits ==
    ASSUME TypeInv, NEW t \in Trailer, NEW k \in Kind, Happens(t, k)
    PROVE  /\ Len(events) \in Nat /\ Len(events') = Len(events) + 1
           /\ events' \in Seq([trailer : Trailer, kind : Kind])
           /\ \A e \in Number : events'[e] = events[e]
           /\ Number' = Number \cup {Len(events) + 1}
  BY DEF TypeInv, Happens, Number

(* The handler's put, whether there was room or not.                       *)
LEMMA PutFacts ==
    ASSUME TypeInv, NEW e \in todo, Put(e)
    PROVE  /\ inbox' \in Seq(Number) /\ dropped' \subseteq Number
           /\ \A i \in DOMAIN inbox : i \in DOMAIN inbox' /\ inbox'[i] = inbox[i]
           /\ dropped \subseteq dropped'
           /\ e \in dropped' \/ \E i \in DOMAIN inbox' : inbox'[i] = e
<1>1. e \in Number /\ inbox \in Seq(Number) /\ Len(inbox) \in Nat
  BY DEF TypeInv
<1>2. CASE Len(inbox) < InboxSize
  <2>1. inbox' = Append(inbox, e) /\ dropped' = dropped
    BY <1>2 DEF Put
  <2>2. inbox'[Len(inbox) + 1] = e /\ Len(inbox) + 1 \in DOMAIN inbox'
    BY <1>1, <2>1
  <2> QED
    BY <1>1, <2>1, <2>2 DEF TypeInv
<1>3. CASE ~(Len(inbox) < InboxSize)
  BY <1>1, <1>3 DEF Put, TypeInv
<1> QED
  BY <1>2, <1>3

(* What a read will show is a number.                                      *)
LEMMA TruthIsNatural == ASSUME TypeInv, NEW p \in Tracker PROVE Truth(p) \in Nat
<1>1. IsFiniteSet(1 .. Len(events)) /\ Happened = 1 .. Len(events)
  BY FS_Interval DEF TypeInv, Happened
<1>2. IsFiniteSet({e \in Happened : events[e].trailer = TrailerOf[p]})
  BY <1>1, FS_Subset
<1> QED
  BY <1>2, FS_CardinalityType DEF Truth

LEMMA TypeReads ==
    ASSUME TypeInv, NEW p \in Tracker, Reads(p)
    PROVE  answers' \in [Tracker -> SUBSET Int]
<1>1. Truth(p) \in Int
  BY TruthIsNatural
<1> QED
  BY <1>1 DEF TypeInv, Reads

LEMMA TypeNext == TypeInv /\ [Next]_vars => TypeInv'
<1> SUFFICES ASSUME TypeInv, [Next]_vars PROVE TypeInv'
  OBVIOUS
<1>1. ASSUME NEW t \in Trailer, NEW k \in Kind, Happens(t, k) PROVE TypeInv'
  <2>1. UNCHANGED <<hub, sockets, pages, faults>> /\ todo' = todo \cup {Len(events) + 1}
    BY <1>1 DEF Happens
  <2>2. Number \subseteq Number' /\ Len(events) + 1 \in Number'
    BY <1>1, Commits
  <2>3. inbox' \in Seq(Number')
    BY <2>1, <2>2 DEF TypeInv, hub
  <2>4. /\ todo' \subseteq Number' /\ dropped' \subseteq Number'
        /\ got' \in [Page -> SUBSET ({0} \cup Number')]
        /\ pump' \in [event : {0} \cup Number', rail : {"none", "dashboard", "track"},
                      to : SUBSET Page, gone : SUBSET Page]
    BY <2>1, <2>2 DEF TypeInv, hub, sockets
  <2> QED
    BY <1>1, <2>1, <2>3, <2>4, Commits DEF TypeInv, sockets, pages
<1>2. ASSUME UNCHANGED events,
             /\ inbox' \in Seq(Number) /\ todo' \subseteq Number /\ dropped' \subseteq Number
             /\ pump' \in [event : {0} \cup Number, rail : {"none", "dashboard", "track"},
                           to : SUBSET Page, gone : SUBSET Page]
             /\ clients' \subseteq Page /\ ghosts' \subseteq Page
             /\ since' \in [Page -> Nat] /\ got' \in [Page -> SUBSET ({0} \cup Number)]
             /\ answers' \in [Tracker -> SUBSET Int] /\ shown' \in [Tracker -> Int]
             /\ faults' \in 0 .. MaxFaults
      PROVE  TypeInv'
  BY <1>2 DEF TypeInv, Number
<1>3. Fault => faults' \in 0 .. MaxFaults
  BY LiveHubAssumption DEF TypeInv, Fault
<1>4. ASSUME NEW e \in todo, Handle(e) \/ HandleFails(e) PROVE TypeInv'
  <2>1. Put(e) /\ todo' \subseteq todo /\ UNCHANGED <<events, pump, sockets, pages>>
    BY <1>4 DEF Handle, HandleFails, bus
  <2>2. faults' \in 0 .. MaxFaults
    BY <1>3, <1>4 DEF Handle, HandleFails, TypeInv
  <2> QED
    BY <1>2, <2>1, <2>2, PutFacts DEF TypeInv, sockets, pages
<1>5. ASSUME NEW rail \in {"dashboard", "track"}, NEW e \in Number, Broadcast(rail, e)
      PROVE  pump' \in [event : {0} \cup Number, rail : {"none", "dashboard", "track"},
                        to : SUBSET Page, gone : SUBSET Page]
  BY <1>5 DEF Broadcast, TypeInv
<1>6. CASE Take
  <2>1. Head(inbox) \in Number /\ Tail(inbox) \in Seq(Number)
    BY <1>6 DEF Take, TypeInv
  <2> QED
    BY <1>2, <1>5, <1>6, <2>1 DEF Take, TypeInv, bus, sockets, pages
<1>7. CASE TurnToTrackers
  <2>1. /\ pump' = [event |-> pump.event, rail |-> "track",
                    to |-> clients \cap Audience("track", pump.event),
                    gone |-> ghosts \cap Audience("track", pump.event)]
        /\ UNCHANGED <<events, todo, inbox, dropped, sockets, pages, faults>>
    BY <1>7 DEF TurnToTrackers, Broadcast, bus
  <2> QED
    BY <1>2, <2>1 DEF TypeInv, sockets, pages
<1>8. CASE Finish
  BY <1>2, <1>8 DEF Finish, TypeInv, bus, sockets, pages, Idle
<1>9. CASE Crash
  <2>1. /\ inbox' = <<>> /\ pump' = Idle /\ clients' = {} /\ ghosts' = {}
        /\ since' = [p \in Page |-> 0] /\ got' = [p \in Page |-> {}]
        /\ answers' = [p \in Tracker |-> {}]
        /\ UNCHANGED <<events, todo, dropped, shown>>
    BY <1>9 DEF Crash, bus
  <2> QED
    BY <1>2, <1>3, <1>9, <2>1 DEF TypeInv, Idle, Crash
<1>10. ASSUME NEW p \in Page, Send(p) PROVE TypeInv'
  <2>1. /\ pump' = [pump EXCEPT !.to = @ \ {p}]
        /\ got' = [got EXCEPT ![p] = @ \cup {pump.event}]
        /\ UNCHANGED <<events, todo, inbox, dropped, clients, ghosts, since, shown, faults>>
    BY <1>10 DEF Send, bus
  <2>2. answers' \in [Tracker -> SUBSET Int]
    BY <1>10, TypeReads DEF Send, TypeInv
  <2> QED
    BY <1>2, <2>1, <2>2 DEF TypeInv
<1>11. ASSUME NEW p \in Page, SendFails(p) PROVE TypeInv'
  BY <1>2, <1>11 DEF SendFails, TypeInv, bus, pages
<1>12. ASSUME NEW p \in Page, Connect(p) PROVE TypeInv'
  <2>1. Len(events) \in Nat
    BY DEF TypeInv
  <2> QED
    BY <1>2, <1>12, <2>1 DEF Connect, TypeInv, bus, hub, pages
<1>13. ASSUME NEW p \in Page, Lose(p) PROVE TypeInv'
  <2>1. pump' \in [event : {0} \cup Number, rail : {"none", "dashboard", "track"},
                   to : SUBSET Page, gone : SUBSET Page]
    BY <1>13 DEF Lose, TypeInv
  <2> QED
    BY <1>2, <1>3, <1>13, <2>1 DEF Lose, TypeInv, bus, pages
<1>14. ASSUME NEW p \in Page, Discard(p) PROVE TypeInv'
  BY <1>2, <1>14 DEF Discard, TypeInv, bus, hub, pages
<1>15. ASSUME NEW p \in Tracker, Poll(p) PROVE TypeInv'
  BY <1>2, <1>15, TypeReads DEF Poll, TypeInv, bus, hub, sockets
<1>16. ASSUME NEW p \in Tracker, NEW v \in answers[p], Answer(p, v) \/ ReadFails(p, v)
       PROVE  TypeInv'
  <2>1. v \in Int
    BY DEF TypeInv
  <2>2. answers' \in [Tracker -> SUBSET Int] /\ shown' \in [Tracker -> Int]
    BY <1>16, <2>1 DEF TypeInv, Answer, ReadFails
  <2> QED
    BY <1>2, <1>3, <1>16, <2>2 DEF TypeInv, Answer, ReadFails, bus, hub, sockets
<1>17. CASE UNCHANGED vars
  BY <1>2, <1>17 DEF vars, bus, hub, sockets, pages, TypeInv
<1> QED
  BY <1>1, <1>4, <1>6, <1>7, <1>8, <1>9, <1>10, <1>11, <1>12, <1>13, <1>14, <1>15,
     <1>16, <1>17 DEF Next

-----------------------------------------------------------------------------
(* An event that was on its way to a page, or has reached it, or was shed. *)
Accounted(p, e) == e \in got[p] \cup dropped \/ OnItsWay(p, e)

(* What is in the inbox stays accounted for when it only grows.            *)
LEMMA StillOnItsWay ==
    ASSUME NEW p \in Page, NEW e, Accounted(p, e),
           got[p] \subseteq got'[p], dropped \subseteq dropped',
           e \in todo => e \in todo' \cup dropped' \/ \E i \in DOMAIN inbox' : inbox'[i] = e,
           \A i \in DOMAIN inbox : i \in DOMAIN inbox' /\ inbox'[i] = inbox[i],
           UNCHANGED pump
    PROVE  Accounted(p, e)'
  BY DEF Accounted, OnItsWay

(* Who an event is for does not change.                                    *)
LEMMA SameAudience ==
    ASSUME NEW p, NEW e, UNCHANGED events
    PROVE  For(p, e)' = For(p, e)
  BY DEF For, Audience

LEMMA GapInit == Init => NoSilentGap
  BY DEF Init, NoSilentGap

LEMMA GapNext == TypeInv /\ NoSilentGap /\ [Next]_vars => NoSilentGap'
<1> SUFFICES ASSUME TypeInv, NoSilentGap, [Next]_vars,
                    NEW p \in clients', NEW e \in since'[p] + 1 .. Len(events'), For(p, e)'
             PROVE  Accounted(p, e)'
  BY DEF NoSilentGap, Accounted
<1>1. TypeInv' /\ Len(events) \in Nat /\ p \in Page
  BY TypeNext DEF TypeInv
<1>2. since'[p] \in Nat /\ e \in Number' /\ e # 0
  BY <1>1 DEF TypeInv, Number
(* Unless its socket is new or the event is, the page was owed it before.  *)
<1>3. ASSUME p \in clients, since'[p] = since[p], UNCHANGED events
      PROVE  Accounted(p, e)
  BY <1>1, <1>3, SameAudience DEF NoSilentGap, Accounted
<1>4. ASSUME NEW t \in Trailer, NEW k \in Kind, Happens(t, k) PROVE Accounted(p, e)'
  <2>1. UNCHANGED <<hub, sockets>> /\ todo' = todo \cup {Len(events) + 1}
    BY <1>4 DEF Happens
  <2>2. CASE e = Len(events) + 1
    BY <2>1, <2>2 DEF Accounted, OnItsWay
  <2>3. CASE e # Len(events) + 1
    <3>1. e \in since[p] + 1 .. Len(events) /\ p \in clients /\ events'[e] = events[e]
      BY <1>1, <1>2, <1>4, <2>1, <2>3, Commits DEF sockets, Number
    <3>2. For(p, e)
      BY <3>1 DEF For, Audience
    <3>3. Accounted(p, e)
      BY <3>1, <3>2 DEF NoSilentGap, Accounted
    <3> QED
      BY <2>1, <3>3 DEF Accounted, OnItsWay, hub, sockets
  <2> QED
    BY <2>2, <2>3
<1>5. ASSUME NEW f \in todo, Handle(f) \/ HandleFails(f) PROVE Accounted(p, e)'
  <2>1. Put(f) /\ todo' \in {todo, todo \ {f}} /\ UNCHANGED <<events, pump, sockets>>
    BY <1>5 DEF Handle, HandleFails, bus
  <2>2. Accounted(p, e)
    BY <1>3, <2>1 DEF sockets
  <2> QED
    BY <1>1, <2>1, <2>2, PutFacts, StillOnItsWay DEF sockets
<1>6. CASE Take
  <2>1. UNCHANGED <<bus, dropped, sockets>> /\ pump = Idle /\ inbox # <<>>
    BY <1>6 DEF Take
  <2>2. Accounted(p, e) /\ p \in clients
    BY <1>3, <2>1 DEF bus, sockets
  <2>3. /\ inbox' = Tail(inbox)
        /\ pump'.event = Head(inbox) /\ pump'.rail = "dashboard"
        /\ pump'.to = clients \cap Screen
    BY <1>6 DEF Take, Broadcast, Audience
  <2>4. ASSUME NEW i \in DOMAIN inbox, inbox[i] = e PROVE Accounted(p, e)'
    <3>1. CASE i = 1
      BY <1>1, <2>2, <2>3, <2>4, <3>1 DEF Accounted, OnItsWay, Page, TypeInv
    <3>2. CASE i # 1
      <4>1. i - 1 \in DOMAIN Tail(inbox) /\ Tail(inbox)[i - 1] = e
        BY <2>1, <2>4, <3>2 DEF TypeInv
      <4> QED
        BY <2>3, <4>1 DEF Accounted, OnItsWay
    <3> QED
      BY <3>1, <3>2
  <2>5. pump.event # e
    BY <1>2, <2>1 DEF Idle
  <2> QED
    BY <2>1, <2>2, <2>4, <2>5 DEF Accounted, OnItsWay, bus, sockets
<1>7. CASE TurnToTrackers
  <2>1. /\ UNCHANGED <<bus, inbox, dropped, sockets>>
        /\ pump.to = {}
        /\ pump'.event = pump.event /\ pump'.to = clients \cap Audience("track", pump.event)
    BY <1>7 DEF TurnToTrackers, Broadcast, SentToAll
  <2>2. Accounted(p, e) /\ p \in clients
    BY <1>3, <2>1 DEF bus, sockets
  <2>3. ASSUME pump.event = e, p \in Tracker PROVE p \in pump'.to
    <3>1. p \notin Screen /\ For(p, e)
      BY <2>1, <2>3, LiveHubAssumption, SameAudience DEF bus
    <3> QED
      BY <2>1, <2>2, <2>3, <3>1 DEF For
  <2> QED
    BY <2>1, <2>2, <2>3 DEF Accounted, OnItsWay, bus, sockets
<1>8. CASE Finish
  <2>1. /\ UNCHANGED <<bus, inbox, dropped, sockets>>
        /\ pump.to = {} /\ pump.rail = "track"
    BY <1>8 DEF Finish, SentToAll
  <2>2. Accounted(p, e)
    BY <1>3, <2>1 DEF bus, sockets
  <2> QED
    BY <2>1, <2>2 DEF Accounted, OnItsWay, bus, sockets
<1>9. CASE Crash
  BY <1>9 DEF Crash
<1>10. ASSUME NEW q \in Page, Send(q) PROVE Accounted(p, e)'
  <2>1. /\ UNCHANGED <<bus, inbox, dropped, clients, since>>
        /\ pump' = [pump EXCEPT !.to = @ \ {q}]
        /\ got' = [got EXCEPT ![q] = @ \cup {pump.event}]
    BY <1>10 DEF Send
  <2>2. Accounted(p, e)
    BY <1>3, <2>1 DEF bus
  <2>3. /\ pump'.event = pump.event /\ pump'.rail = pump.rail
        /\ pump'.to = pump.to \ {q}
        /\ got[p] \subseteq got'[p] /\ (p = q => pump.event \in got'[p])
    BY <1>1, <2>1 DEF TypeInv
  <2> QED
    BY <2>1, <2>2, <2>3 DEF Accounted, OnItsWay, bus
<1>11. ASSUME NEW q \in Page, SendFails(q) PROVE Accounted(p, e)'
  <2>1. /\ UNCHANGED <<bus, inbox, dropped, clients, since, got>>
        /\ pump' = [pump EXCEPT !.gone = @ \ {q}]
    BY <1>11 DEF SendFails
  <2>2. Accounted(p, e)
    BY <1>3, <2>1 DEF bus
  <2>3. pump'.event = pump.event /\ pump'.rail = pump.rail /\ pump'.to = pump.to
    BY <2>1 DEF TypeInv
  <2> QED
    BY <2>1, <2>2, <2>3 DEF Accounted, OnItsWay, bus
<1>12. ASSUME NEW q \in Page, Connect(q) PROVE Accounted(p, e)'
  <2>1. /\ UNCHANGED <<bus, hub, got>> /\ clients' = clients \cup {q}
        /\ since' = [since EXCEPT ![q] = Len(events)]
    BY <1>12 DEF Connect
  <2>2. p # q
    BY <1>1, <2>1 DEF TypeInv, bus
  <2>3. p \in clients /\ since'[p] = since[p]
    BY <2>1, <2>2 DEF TypeInv
  <2>4. Accounted(p, e)
    BY <1>3, <2>1, <2>3 DEF bus
  <2> QED
    BY <2>1, <2>4 DEF Accounted, OnItsWay, bus, hub
<1>13. ASSUME NEW q \in Page, Lose(q) PROVE Accounted(p, e)'
  <2>1. /\ UNCHANGED <<bus, inbox, dropped>> /\ clients' = clients \ {q}
        /\ since' = [since EXCEPT ![q] = 0] /\ got' = [got EXCEPT ![q] = {}]
    BY <1>13 DEF Lose
  <2>2. p # q /\ p \in clients
    BY <2>1
  <2>3. since'[p] = since[p] /\ got'[p] = got[p]
    BY <1>1, <2>1, <2>2 DEF TypeInv
  <2>4. /\ pump'.event = pump.event /\ pump'.rail = pump.rail
        /\ p \in pump.to => p \in pump'.to
    BY <1>13, <2>2 DEF Lose, TypeInv
  <2>5. Accounted(p, e)
    BY <1>3, <2>1, <2>2, <2>3 DEF bus
  <2> QED
    BY <2>1, <2>3, <2>4, <2>5 DEF Accounted, OnItsWay, bus
<1>14. ASSUME UNCHANGED <<bus, hub, clients, since, got>> PROVE Accounted(p, e)'
  BY <1>3, <1>14 DEF Accounted, OnItsWay, bus, hub
<1>15. ASSUME NEW q \in Page, Discard(q) PROVE Accounted(p, e)'
  BY <1>14, <1>15 DEF Discard
<1>16. ASSUME NEW q \in Tracker,
              Poll(q) \/ \E v \in answers[q] : Answer(q, v) \/ ReadFails(q, v)
       PROVE  Accounted(p, e)'
  BY <1>14, <1>16 DEF Poll, Answer, ReadFails, sockets
<1>17. CASE UNCHANGED vars
  BY <1>14, <1>17 DEF vars, sockets
<1> QED
  BY <1>4, <1>5, <1>6, <1>7, <1>8, <1>9, <1>10, <1>11, <1>12, <1>13, <1>15, <1>16,
     <1>17 DEF Next

(* A page misses an event only because the inbox was full: through         *)
(* redeliveries, sockets that come and go during a broadcast, and restarts *)
(* (dashboard_gateway/main.py:1174-1182, 1284-1314).                       *)
THEOREM NothingMissedSilently == Spec => []NoSilentGap
<1>1. Init => TypeInv /\ NoSilentGap
  BY TypeInit, GapInit
<1>2. TypeInv /\ NoSilentGap /\ [Next]_vars => TypeInv' /\ NoSilentGap'
  BY TypeNext, GapNext
<1> QED
  BY <1>1, <1>2, PTL DEF Spec
=============================================================================
