------------------------------ MODULE LiveHub ------------------------------
(***************************************************************************)
(* The gateway's live push (backend/services/dashboard_gateway/main.py:    *)
(* _consumer_thread, the bounded inbox, _pump, Hub and TrackHub, the two   *)
(* socket endpoints) and the pages it serves (frontend/app/src/hooks and   *)
(* screens/Track.tsx): screens on the dashboard's rail and public tracker  *)
(* pages on the other.                                                     *)
(*                                                                         *)
(* An event is its number; what a tracker page shows is how many of its    *)
(* trailer's events its last read came after, since the socket only says   *)
(* when to read again.  What a screen reads is left out.  The event bus is *)
(* used as EventBus describes it: an event's handler runs until a run      *)
(* commits, and in any order.                                              *)
(***************************************************************************)
EXTENDS Integers, Sequences, FiniteSets

CONSTANTS Trailer,
          Screen,    \* dashboard pages
          Tracker,   \* public tracker pages
          TrailerOf, \* tracker page -> the trailer its reference resolves to
          InboxSize, \* the queue's maxsize, 1000 in the code
          MaxEvents, \* bound on the events that happen
          MaxFaults  \* bound on lost sockets, failed calls and crashes

Page == Screen \cup Tracker

ASSUME LiveHubAssumption ==
    /\ Screen \cap Tracker = {}
    /\ TrailerOf \in [Tracker -> Trailer]
    /\ InboxSize \in Nat \ {0} /\ MaxEvents \in Nat /\ MaxFaults \in Nat

VARIABLES
  events,  \* the committed events, each [trailer, kind]
  todo,    \* the events this group's handler has not committed yet
  inbox,   \* hub.inbox
  dropped, \* the events refused by a full inbox
  pump,    \* [event, rail, to, gone]: the broadcast, and who is still to be sent
  clients, \* pages whose socket is in hub.clients or track_hub.clients
  ghosts,  \* pages with a dead socket there
  since,   \* page -> the events there were when its socket was accepted
  got,     \* page -> the events its socket has brought
  answers, \* tracker page -> its reads on their way, each what it will show
  shown,   \* tracker page -> what it shows, -1 before the first answer
  faults

bus == <<events, todo>>
hub == <<inbox, dropped, pump>>
sockets == <<clients, ghosts, since, got>>
pages == <<answers, shown>>
vars == <<bus, hub, sockets, pages, faults>>

(* OUTBOUND_DELIVERED changes what a tracker shows, but its type is not in *)
(* TRACK_EVENT_TYPES: it is a silent event.                                *)
Kind == {"TICK", "SILENT"}
Happened == DOMAIN events
Idle == [event |-> 0, rail |-> "none", to |-> {}, gone |-> {}]

(* What GET /track/{ref} returns.                                          *)
Truth(p) == Cardinality({e \in Happened : events[e].trailer = TrailerOf[p]})

(* The pages an event is for, on each rail: everyone; the pages of its     *)
(* trailer, if it is of a type that the tracker listens to.                *)
Audience(rail, e) ==
    IF rail = "dashboard" THEN Screen
    ELSE {p \in Tracker : events[e].kind = "TICK" /\ events[e].trailer = TrailerOf[p]}

Init ==
    /\ events = <<>> /\ todo = {}
    /\ inbox = <<>> /\ dropped = {} /\ pump = Idle
    /\ clients = {} /\ ghosts = {}
    /\ since = [p \in Page |-> 0] /\ got = [p \in Page |-> {}]
    /\ answers = [p \in Tracker |-> {0}] /\ shown = [p \in Tracker |-> -1]
    /\ faults = 0

Fault == faults < MaxFaults /\ faults' = faults + 1

-----------------------------------------------------------------------------
(* The system behind the gateway commits a change and its event.           *)
Happens(t, k) ==
    /\ Len(events) < MaxEvents
    /\ events' = Append(events, [trailer |-> t, kind |-> k])
    /\ todo' = todo \cup {Len(events) + 1}
    /\ UNCHANGED <<hub, sockets, pages, faults>>

(* The consumer thread's handler: put_nowait, or a warning if it is full.  *)
Put(e) ==
    IF Len(inbox) < InboxSize
    THEN inbox' = Append(inbox, e) /\ UNCHANGED dropped
    ELSE dropped' = dropped \cup {e} /\ UNCHANGED inbox

Handle(e) ==
    /\ e \in todo
    /\ Put(e)
    /\ todo' = todo \ {e}
    /\ UNCHANGED <<events, pump, sockets, pages, faults>>

(* The claim does not commit: what was put stays put, and comes again.     *)
HandleFails(e) ==
    /\ e \in todo
    /\ Put(e)
    /\ Fault
    /\ UNCHANGED <<bus, pump, sockets, pages>>

-----------------------------------------------------------------------------
(* The pump sends the oldest message, on one rail and then on the other,   *)
(* to the sockets there are when it turns to the rail; meanwhile others    *)
(* come and go.                                                            *)
Broadcast(rail, e) ==
    pump' = [event |-> e, rail |-> rail, to |-> clients \cap Audience(rail, e),
             gone |-> ghosts \cap Audience(rail, e)]

Take ==
    /\ pump = Idle /\ inbox # <<>>
    /\ inbox' = Tail(inbox)
    /\ Broadcast("dashboard", Head(inbox))
    /\ UNCHANGED <<bus, dropped, sockets, pages, faults>>

SentToAll == pump # Idle /\ pump.to = {} /\ pump.gone = {}

TurnToTrackers ==
    /\ SentToAll /\ pump.rail = "dashboard"
    /\ Broadcast("track", pump.event)
    /\ UNCHANGED <<bus, inbox, dropped, sockets, pages, faults>>

Finish ==
    /\ SentToAll /\ pump.rail = "track"
    /\ pump' = Idle
    /\ UNCHANGED <<bus, inbox, dropped, sockets, pages, faults>>

(* A message arrives, and a tracker page reads again.                      *)
Reads(p) == answers' = [answers EXCEPT ![p] = @ \cup {Truth(p)}]

Send(p) ==
    /\ p \in pump.to
    /\ pump' = [pump EXCEPT !.to = @ \ {p}]
    /\ got' = [got EXCEPT ![p] = @ \cup {pump.event}]
    /\ IF p \in Tracker THEN Reads(p) ELSE UNCHANGED answers
    /\ UNCHANGED <<bus, inbox, dropped, clients, ghosts, since, shown, faults>>

(* Mutant of SendFails: the exception ends the broadcast.                  *)
SendFailsAndStops(p) ==
    /\ p \in pump.gone
    /\ pump' = [pump EXCEPT !.to = {}, !.gone = {}]
    /\ ghosts' = ghosts \ {p}
    /\ UNCHANGED <<bus, inbox, dropped, clients, since, got, pages, faults>>

(* send_json raises on a dead socket, which is then disconnected.          *)
SendFails(p) ==
    /\ p \in pump.gone
    /\ pump' = [pump EXCEPT !.gone = @ \ {p}]
    /\ ghosts' = ghosts \ {p}
    /\ UNCHANGED <<bus, inbox, dropped, clients, since, got, pages, faults>>

-----------------------------------------------------------------------------
(* Sockets: accepted, lost on the way, and discarded by receive_text.      *)
Connect(p) ==
    /\ p \notin clients
    /\ clients' = clients \cup {p}
    /\ since' = [since EXCEPT ![p] = Len(events)]
    /\ UNCHANGED <<bus, hub, ghosts, got, pages, faults>>

Lose(p) ==
    /\ p \in clients
    /\ clients' = clients \ {p} /\ ghosts' = ghosts \cup {p}
    /\ pump' = IF p \in pump.to
               THEN [pump EXCEPT !.to = @ \ {p}, !.gone = @ \cup {p}] ELSE pump
    /\ since' = [since EXCEPT ![p] = 0] /\ got' = [got EXCEPT ![p] = {}]
    /\ Fault
    /\ UNCHANGED <<bus, inbox, dropped, pages>>

Discard(p) ==
    /\ p \in ghosts
    /\ ghosts' = ghosts \ {p}
    /\ UNCHANGED <<bus, hub, clients, since, got, pages, faults>>

(* The gateway dies and comes back: the queue and all sockets are gone,    *)
(* and so are the reads it has not answered.                               *)
Crash ==
    /\ Fault
    /\ inbox' = <<>> /\ pump' = Idle
    /\ clients' = {} /\ ghosts' = {}
    /\ since' = [p \in Page |-> 0] /\ got' = [p \in Page |-> {}]
    /\ answers' = [p \in Tracker |-> {}]
    /\ UNCHANGED <<bus, dropped, shown>>

-----------------------------------------------------------------------------
(* Reads over REST: answers come back in any order, or not at all.         *)
Answer(p, v) ==
    /\ v \in answers[p]
    /\ shown' = [shown EXCEPT ![p] = v]
    /\ answers' = [answers EXCEPT ![p] = @ \ {v}]
    /\ UNCHANGED <<bus, hub, sockets, faults>>

ReadFails(p, v) ==
    /\ v \in answers[p]
    /\ answers' = [answers EXCEPT ![p] = @ \ {v}]
    /\ Fault
    /\ UNCHANGED <<bus, hub, sockets, shown>>

(* Mutant of Poll: no poll while the socket is up.                         *)
PollOffline(p) ==
    /\ IF p \in clients THEN UNCHANGED answers ELSE Reads(p)
    /\ UNCHANGED <<bus, hub, sockets, shown, faults>>

(* The tracker page's timer, slower while the socket is up.                *)
Poll(p) ==
    /\ Reads(p)
    /\ UNCHANGED <<bus, hub, sockets, shown, faults>>

Next ==
    \/ \E t \in Trailer, k \in Kind : Happens(t, k)
    \/ \E e \in todo : Handle(e) \/ HandleFails(e)
    \/ Take \/ TurnToTrackers \/ Finish \/ Crash
    \/ \E p \in Page : Send(p) \/ SendFails(p) \/ Connect(p) \/ Lose(p) \/ Discard(p)
    \/ \E p \in Tracker :
         Poll(p) \/ \E v \in answers[p] : Answer(p, v) \/ ReadFails(p, v)

Spec == Init /\ [][Next]_vars

(* The page's timer and the network keep going; sockets need not.          *)
FairSpec ==
    /\ Spec
    /\ \A p \in Tracker : WF_vars(Poll(p))
    /\ \A p \in Tracker, v \in 0 .. MaxEvents : WF_vars(Answer(p, v))

-----------------------------------------------------------------------------
(* A page misses an event only because the inbox was full: what happened   *)
(* since its socket was accepted, and is for its rail, has reached it or   *)
(* is on its way - through redeliveries, sockets that come and go during   *)
(* a broadcast, dead sockets in front of it, and restarts                  *)
(* (dashboard_gateway/main.py:1174-1182, 1284-1288, 1305-1314).            *)
OnItsWay(p, e) ==
    \/ e \in todo
    \/ \E i \in DOMAIN inbox : inbox[i] = e
    \/ pump.event = e /\ (p \in pump.to \/ (p \in Tracker /\ pump.rail = "dashboard"))
For(p, e) == p \in Audience(IF p \in Screen THEN "dashboard" ELSE "track", e)

NoSilentGap ==
    \A p \in clients : \A e \in since[p] + 1 .. Len(events) :
        For(p, e) => e \in got[p] \cup dropped \/ OnItsWay(p, e)

(* A tracker page ends up showing the truth, whatever was shed, missed,    *)
(* not worth a tick, or answered late (Track.tsx:410-424, "still recovers  *)
(* on its own if a delta is ever dropped").                                *)
TrackerCatchesUp == \A p \in Tracker : <>[](shown[p] = Truth(p))
=============================================================================
