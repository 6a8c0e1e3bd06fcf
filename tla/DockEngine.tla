----------------------------- MODULE DockEngine -----------------------------
(***************************************************************************)
(* shared/dock_engine.py: which door each trailer gets, and when.  Pure    *)
(* functions; the dock worker calls plan_docks with the doors, their       *)
(* immovable windows (bookings) and the trailers to plan.                  *)
(*                                                                         *)
(* Times are integers of some unit finer than a minute, Minute of which    *)
(* make one; the engine plans in whole minutes from an origin.  CP-SAT is  *)
(* a library: what the code asks of it is a Solution.                      *)
(***************************************************************************)
EXTENDS Integers, SequencesExt

CONSTANTS Minute, \* units of time in a minute
          Slack   \* minutes added to the horizon; 60 in the code

ASSUME DockEngineAssumption == Minute \in Nat \ {0} /\ Slack \in Nat

WaitWeight == [critical |-> 8, high |-> 4, normal |-> 2, low |-> 1]
WFlex == 6
WPosition == 1
WUtil == 1
WChurn == 90
Unknown == "unknown" \* no load type
NoDoor == 0          \* no door promised yet

(* Doors are [id, types, active, position, service, bookings], trailers    *)
(* [id, type, priority, ready, current], a booking is [start, end].        *)

-----------------------------------------------------------------------------
(* Hard constraints 1 and 2.                                               *)
Feasible(t, doors) ==
    {d \in doors : d.active /\ (t.type = Unknown \/ t.type \in d.types)}
Plannable(trailers, doors) == {t \in trailers : Feasible(t, doors) # {}}

-----------------------------------------------------------------------------
(* Minutes from the origin.                                                *)

(* Mutant of Ceil: to the nearest minute.                                  *)
Nearest(time, origin) == (2 * (time - origin) + Minute) \div (2 * Minute)

Floor(time, origin) == (time - origin) \div Minute
Ceil(time, origin) == -((origin - time) \div Minute)
At(minutes, origin) == origin + Minute * minutes

(* Windows are swept in the order of their starts, then of their ends; a   *)
(* step of the sweep has the window it passes and the result so far.       *)
OrBefore(a, b) == a[1] < b[1] \/ (a[1] = b[1] /\ a[2] <= b[2])
Latest(windows) == CHOOSE w \in windows : \A v \in windows : OrBefore(v, w)
Sweep(step(_, _), start, windows) ==
    MapThenFoldSet(step, start, LAMBDA w : w, Latest, windows)

(* A door's windows in minutes, rounded outward; over or empty ones fall   *)
(* out.                                                                    *)
Windows(d, origin) ==
    {w \in {<<Max({0, Floor(b.start, origin)}), Ceil(b.end, origin)>> : b \in d.bookings} :
        w[2] > 0 /\ w[2] > w[1]}

(* Mutant of Joined: the windows as they are.                              *)
Listed(w, merged) == Append(merged, w)

(* Mutant of Joined: a window inside another one cuts it short.            *)
CutShort(w, merged) ==
    IF merged # <<>> /\ w[1] <= Last(merged)[2]
    THEN Append(Front(merged), <<Last(merged)[1], w[2]>>)
    ELSE Append(merged, w)

(* A window that touches the last interval so far extends it.              *)
Joined(w, merged) ==
    IF merged # <<>> /\ w[1] <= Last(merged)[2]
    THEN Append(Front(merged), <<Last(merged)[1], Max({Last(merged)[2], w[2]})>>)
    ELSE Append(merged, w)
BusyIntervals(d, origin) == Sweep(Joined, <<>>, Windows(d, origin))

Committed(d, origin, horizon) ==
    SumFunction([w \in ToSet(BusyIntervals(d, origin)) |->
                    Max({0, Min({horizon, w[2]}) - w[1]})])

-----------------------------------------------------------------------------
(* The cost of a door, and of a minute's wait.                             *)
DockCost(t, d, committed) ==
    WFlex * Max({0, Cardinality(d.types) - 1}) + WPosition * d.position
      + WUtil * (committed \div 15)
      + IF t.current \notin {NoDoor, d.id} THEN WChurn ELSE 0
Weight(t) == WaitWeight[t.priority]

(* Mutant of Passed: every gap is taken for long enough.                   *)
PassedAnyGap(w, at, duration) ==
    IF at.found \/ w[2] <= at.start THEN at
    ELSE IF w[1] > at.start THEN [at EXCEPT !.found = TRUE]
    ELSE [at EXCEPT !.start = Max({@, w[2]})]

(* Past a window, unless duration fits before it.                          *)
Passed(w, at, duration) ==
    IF at.found \/ w[2] <= at.start THEN at
    ELSE IF w[1] - at.start >= duration THEN [at EXCEPT !.found = TRUE]
    ELSE [at EXCEPT !.start = Max({@, w[2]})]

(* The first start from ready on at which duration fits between the        *)
(* windows already placed on a door.                                       *)
EarliestSlot(intervals, ready, duration) ==
    Sweep(LAMBDA w, at : Passed(w, at, duration),
          [start |-> ready, found |-> FALSE], intervals).start

-----------------------------------------------------------------------------
(* What plan_docks derives from its arguments before it plans.             *)
Origin(now, trailers, doors) ==
    LET bookings == UNION {d.bookings : d \in doors}
        earliest == Min({now} \cup {t.ready : t \in Plannable(trailers, doors)}
                              \cup {b.start : b \in bookings})
    IN  Minute * (earliest \div Minute)

LatestStart(trailers, doors, origin) ==
    LET plannable == Plannable(trailers, doors)
        bookings == UNION {d.bookings : d \in doors}
        longest == [t \in plannable |-> Max({d.service : d \in Feasible(t, doors)})]
    IN  Max({0} \cup {Ceil(t.ready, origin) : t \in plannable}
                \cup {Ceil(b.end, origin) : b \in bookings})
          + SumFunction(longest) + Slack

(* The problem in minutes: ready times, busy intervals, costs.             *)
Problem(now, trailers, doors) ==
    LET origin == Origin(now, trailers, doors)
        horizon == LatestStart(trailers, doors, origin)
    IN  [origin |-> origin, horizon |-> horizon,
         trailers |-> Plannable(trailers, doors), doors |-> doors,
         ready |-> [t \in Plannable(trailers, doors) |-> Max({0, Ceil(t.ready, origin)})],
         busy |-> [d \in doors |-> ToSet(BusyIntervals(d, origin))],
         committed |-> [d \in doors |-> Committed(d, origin, horizon)]]

(* Greedy first-fit.  A plan gives a trailer its [door, start].            *)
PlacedAt(d, plan) == {<<plan[t].start, plan[t].start + d.service>> :
                        t \in {u \in DOMAIN plan : plan[u].door = d}}
Cost(p, t, d, start) ==
    Weight(t) * (start - p.ready[t]) + DockCost(t, d, p.committed[d])

Heavier(p, t, u) ==
    \/ Weight(t) > Weight(u)
    \/ Weight(t) = Weight(u) /\ p.ready[t] < p.ready[u]
    \/ Weight(t) = Weight(u) /\ p.ready[t] = p.ready[u] /\ t.id < u.id

(* Keys are compared like tuples in Python.                                *)
Lesser(k, l) == \E i \in 1 .. 3 : k[i] < l[i] /\ \A j \in 1 .. i - 1 : k[j] = l[j]

StartAt(p, t, d, plan) ==
    EarliestSlot(p.busy[d] \cup PlacedAt(d, plan), p.ready[t], d.service)
Key(p, t, d, plan) == <<Cost(p, t, d, StartAt(p, t, d, plan)), d.position, d.id>>

GreedyChoice(p, t, plan) ==
    LET best == CHOOSE d \in Feasible(t, p.doors) : \A e \in Feasible(t, p.doors) \ {d} :
                    Lesser(Key(p, t, d, plan), Key(p, t, e, plan))
    IN  [door |-> best, start |-> StartAt(p, t, best, plan)]

(* Heaviest first, so the lightest is placed after all the others.         *)
Lightest(p, trailers) ==
    CHOOSE t \in trailers : \A u \in trailers \ {t} : Heavier(p, u, t)
Placed(p, t, plan) ==
    [u \in DOMAIN plan \cup {t} |-> IF u = t THEN GreedyChoice(p, t, plan) ELSE plan[u]]
Greedy(p) ==
    MapThenFoldSet(LAMBDA t, plan : Placed(p, t, plan), <<>>, LAMBDA t : t,
                   LAMBDA trailers : Lightest(p, trailers), p.trailers)

TotalCost(p, plan) ==
    SumFunction([t \in DOMAIN plan |-> Cost(p, t, plan[t].door, plan[t].start)])

-----------------------------------------------------------------------------
(* The model given to CP-SAT: bounds of the starts, one door each, and no  *)
(* overlap of intervals per door, the fixed ones among themselves too.     *)
Apart(v, w) == v[2] <= w[1] \/ w[2] <= v[1]
FixedApart(p) ==
    \A d \in p.doors : \A v, w \in p.busy[d] : v = w \/ Apart(v, w)

Window(plan, t) == <<plan[t].start, plan[t].start + plan[t].door.service>>
IsSolution(p, plan) ==
    /\ DOMAIN plan = p.trailers
    /\ FixedApart(p)
    /\ \A t \in p.trailers :
         /\ plan[t].door \in Feasible(t, p.doors)
         /\ plan[t].start \in p.ready[t] .. p.horizon
         /\ \A w \in p.busy[plan[t].door] : Apart(Window(plan, t), w)
         /\ \A u \in p.trailers \ {t} :
              plan[u].door = plan[t].door => Apart(Window(plan, t), Window(plan, u))

(* The solver's plan is taken unless it has none or a dearer one.          *)
Solved(p, greedy) ==
    LET bound == TotalCost(p, greedy)
        Affordable(t, d) == {start \in p.ready[t] .. p.horizon : Cost(p, t, d, start) <= bound}
        Slots == UNION {UNION {[door : {d}, start : Affordable(t, d)] :
                                 d \in Feasible(t, p.doors)} : t \in p.trailers}
    IN  {plan \in [p.trailers -> Slots] :
            IsSolution(p, plan) /\ TotalCost(p, plan) <= bound}

(* When t could start at another door, given where the plan has the rest.  *)
Alternative(p, plan, t, d) == StartAt(p, t, d, plan)
=============================================================================
