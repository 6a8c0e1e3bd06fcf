----------------------------- MODULE Decisions -----------------------------
(***************************************************************************)
(* The decisions the program takes by calculation, each put to it for      *)
(* every problem of a bounded set: an invoice (PolicyCheck), a yard to     *)
(* plan (DockEngine), suppliers to choose from (SupplierScoring).  A       *)
(* behaviour is one problem and its answer.                                *)
(***************************************************************************)
EXTENDS PolicyCheck, DockEngine, SupplierScoring

CONSTANTS Yards,  \* [now, trailers, doors]
          Tables, \* sets of supplier rows
          Base    \* base_price of the material

ASSUME DecisionsAssumption ==
    /\ \A rows \in Tables : rows # {} /\ rows \subseteq SupplierRow /\ IsFiniteSet(rows)
    /\ Base \in Nat \ {0}
    /\ \A yard \in Yards :
         /\ yard.now \in Int /\ IsFiniteSet(yard.trailers) /\ IsFiniteSet(yard.doors)
         /\ \A t \in yard.trailers :
              t.id \in Int /\ t.priority \in DOMAIN WaitWeight /\ t.ready \in Int
         /\ \A d \in yard.doors :
              /\ d.id \in Int /\ d.position \in Int /\ d.service \in Nat
              /\ IsFiniteSet(d.types) /\ IsFiniteSet(d.bookings)
              /\ \A b \in d.bookings : b.start \in Int /\ b.end \in Int
         /\ \A t, u \in yard.trailers : t.id = u.id => t = u
         /\ \A d, e \in yard.doors : d.id = e.id => d = e

VARIABLES topic,   \* what is decided
          problem, \* the yard, or the table
          minutes, \* none, or one: the yard as the engine has it
          greedy,  \* none, or one: the first-fit plan
          answer   \* none, or one: the plan, or the supplier

decisionVars == <<policyVars, topic, problem, minutes, greedy, answer>>

Nothing == {}

DecisionsInit ==
    /\ minutes = Nothing /\ greedy = Nothing /\ answer = Nothing
    /\ \/ topic = "match" /\ problem = Nothing /\ Init
       \/ /\ \/ topic = "dock" /\ problem \in Yards
             \/ topic = "supplier" /\ problem \in Tables
          /\ verdict = "none" /\ question = CHOOSE q \in Question : TRUE

DecideMatch ==
    /\ topic = "match" /\ Decide
    /\ UNCHANGED <<topic, problem, minutes, greedy, answer>>

(* plan_docks in its three stages.                                         *)
Reduce ==
    /\ topic = "dock" /\ minutes = Nothing
    /\ minutes' = {Problem(problem.now, problem.trailers, problem.doors)}
    /\ UNCHANGED <<policyVars, topic, problem, greedy, answer>>

FirstFit ==
    /\ greedy = Nothing
    /\ \E p \in minutes : greedy' = {Greedy(p)}
    /\ UNCHANGED <<policyVars, topic, problem, minutes, answer>>

(* With no solver, or with any answer of CP-SAT that is used.              *)
Solve ==
    /\ answer = Nothing
    /\ \E p \in minutes, first \in greedy :
         \E plan \in {first} \cup Solved(p, first) : answer' = {plan}
    /\ UNCHANGED <<policyVars, topic, problem, minutes, greedy>>

DecideSupplier ==
    /\ topic = "supplier" /\ answer = Nothing
    /\ answer' = {Recommended(problem, Base)}
    /\ UNCHANGED <<policyVars, topic, problem, minutes, greedy>>

DecisionsNext == DecideMatch \/ Reduce \/ FirstFit \/ Solve \/ DecideSupplier

DecisionsSpec == DecisionsInit /\ [][DecisionsNext]_decisionVars

-----------------------------------------------------------------------------
TrueWindow(p, plan, t) ==
    [start |-> At(Window(plan, t)[1], p.origin), end |-> At(Window(plan, t)[2], p.origin)]
Disjoint(v, w) == v.end <= w.start \/ w.end <= v.start

(* The windows written to dock_assignments do not overlap, to the second,  *)
(* with each other nor with any true booking of the door, and no trailer   *)
(* is expected at a door before it is there: rounding outward makes        *)
(* "the stored windows provably non-overlapping" (dock_engine.py:292-303). *)
WindowsAreFree ==
    \A p \in minutes : \A plan \in answer : \A t \in DOMAIN plan :
        LET window == TrueWindow(p, plan, t)
        IN  /\ window.start >= t.ready
            /\ \A b \in plan[t].door.bookings : b.start < b.end => Disjoint(window, b)
            /\ \A u \in DOMAIN plan \ {t} :
                 plan[u].door = plan[t].door => Disjoint(window, TrueWindow(p, plan, u))

(* The engine keeps clear of what is taken and of nothing else: each       *)
(* window of a door lies in one busy interval, inside the horizon, and     *)
(* each minute of a busy interval in a window (dock_engine.py:315-339,     *)
(* 551-554).                                                               *)
BlocksWhatIsTaken ==
    \A p \in minutes : \A d \in p.doors :
        /\ \A w \in Windows(d, p.origin) : \E v \in p.busy[d] :
              v[1] \in 0 .. w[1] /\ v[2] \in w[2] .. p.horizon
        /\ \A v \in p.busy[d] : \A m \in v[1] .. v[2] - 1 :
              \E w \in Windows(d, p.origin) : w[1] <= m /\ m < w[2]

(* The engine is total: whatever overlapping bookings it is given, its own *)
(* first-fit plan solves the model that CP-SAT is given, so an infeasible  *)
(* model "would be an engine bug, not a yard condition"                    *)
(* (dock_engine.py:318-327, 544-554).                                      *)
EngineIsTotal ==
    \A p \in minutes : \A first \in greedy :
        IsSolution(p, first)

(* What the plan says of the other doors is so: the trailer could start    *)
(* there then, given where everybody else is, and no minute earlier, so    *)
(* first-fit fills gaps and skips none (dock_engine.py:353-367, 589-628).  *)
SlotsAreEarliest ==
    \A p \in minutes : \A plan \in answer : \A t \in DOMAIN plan :
        \A d \in Feasible(t, p.doors) \ {plan[t].door} :
            LET Free(start) == \A w \in p.busy[d] \cup PlacedAt(d, plan) :
                                 Apart(<<start, start + d.service>>, w)
                slot == Alternative(p, plan, t, d)
            IN  /\ slot >= p.ready[t] /\ Free(slot)
                /\ \A earlier \in p.ready[t] .. slot - 1 : ~Free(earlier)

(* The recommended supplier cannot be faulted: nobody else is as good in   *)
(* every respect and cheaper, where no lead time on file, or one of no     *)
(* days, counts as the longest (procurement_scoring.py:57-116).            *)
WinnerIsUndominated ==
    topic = "supplier" =>
        \A w \in answer : \A s \in problem \ {w} :
            LET asGood == /\ s.quality >= w.quality /\ LeadDays(s) <= LeadDays(w)
                          /\ s.reliability >= w.reliability /\ s.risk <= w.risk
            IN  ~(asGood /\ Quote(s, Base) < Quote(w, Base))
=============================================================================
