------------------------------ MODULE Margins ------------------------------
(***************************************************************************)
(* Contribution-margin plans (services/cm_planning: plan.py, structure.py, *)
(* settings.py) around a quotation and its sales orders.  A plan copies    *)
(* the lines of its source into a baseline scenario; what-if scenarios     *)
(* patch the lines of the baseline; the baseline of the latest plan gates  *)
(* the submission of the quotation or the order.                           *)
(*                                                                         *)
(* One quotation of one line, orders of one line of the same item.  A line *)
(* is [key, qty, rate]; an estimate tells revenue, variable cost and, in   *)
(* hundredths, the fixed cost (CostDrivers has the arithmetic).  The fixed *)
(* layers are one driver, [method, basis, percent].  Pricing rules,        *)
(* freight, commission and the customer of a scenario are left out, and    *)
(* every request here is served alone.                                     *)
(***************************************************************************)
EXTENDS Integers, SequencesExt

CONSTANTS
  Rates,      \* selling rates, high enough for a discounted one to be whole
  Percents,   \* percentages of the fixed layer
  Drivers,    \* drivers a user may enter for it
  Overrides,  \* overrides of a scenario: a rate, 0 for none, and a cost factor
  Default,    \* settings of a company that saved none
  UnitCost,   \* variable cost of a unit
  Cuts,       \* header discounts of the quotation, in percent
  Sales,     \* sales orders
  NoSale,
  MaxPlans, MaxScenarios,
  MaxChanges    \* bound on the changes of plans, settings and structure

ASSUME MarginsAssumption ==
  /\ Rates \subseteq Nat \ {0} /\ Percents \subseteq 0 .. 100
  /\ Drivers \subseteq [method : {"percentage"}, basis : {"revenue", "quantity"}, percent : 0 .. 100]
                \cup {[method |-> "fixed_amount", basis |-> "none", percent |-> 0]}
  /\ Overrides \subseteq [rate : Rates \cup {0}, factor : Nat]
  /\ Default \in [allocation : Percents, least : 0 .. 100, policy : {"warn", "block"}, saved : {FALSE}]
  /\ UnitCost \in Nat /\ Cuts \subseteq 0 .. 99 /\ NoSale \notin Sales
  /\ MaxPlans \in Nat /\ MaxScenarios \in Nat \ {0} /\ MaxChanges \in Nat

VARIABLES
  quotation,  \* docstatus, status, line, header discount
  sales,      \* docstatus and line of each sales order
  plans,      \* the plans, in the order of their creation
  settings,   \* allocation, least margin and policy for new plans, and, for
              \* checking only, whether they were saved after the structure
  structure,  \* the driver of the company's cost structure, or none yet
  edits       \* how much was edited (a bound)

mvars == <<quotation, sales, plans, settings, structure, edits>>

Open == {"Draft", "Submitted"}
NoStructure == [method |-> "none", basis |-> "none", percent |-> 0]
ByRevenue(percent) == [method |-> "percentage", basis |-> "revenue", percent |-> percent]
NoOverride == [rate |-> 0, factor |-> 1]

Line(key, qty, rate) == [key |-> key, qty |-> qty, rate |-> rate]
NetRate(q) == (q.line.rate * (100 - q.cut)) \div 100
LineOfQuotation(q) == Line("quotation", q.line.qty, NetRate(q))
LineOfOrder(o) == Line("order", sales[o].line.qty, sales[o].line.rate)

FixedCost(driver, line) ==
  CASE driver.method = "percentage" /\ driver.basis = "revenue" -> driver.percent * line.qty * line.rate
    [] driver.method = "percentage" -> driver.percent * line.qty
    [] OTHER -> 0
CostsOf(line, factor, driver) ==
  [revenue |-> line.qty * line.rate, variable |-> line.qty * UnitCost * factor,
   fixed |-> FixedCost(driver, line)]

MInit ==
  /\ \E rate \in Rates, cut \in Cuts :
       quotation = [docstatus |-> "Draft", status |-> "Draft", line |-> [qty |-> 1, rate |-> rate], cut |-> cut]
  /\ sales = [o \in Sales |-> [docstatus |-> "Absent", line |-> [qty |-> 0, rate |-> 0]]]
  /\ plans = <<>>
  /\ settings = Default
  /\ structure = NoStructure
  /\ edits = 0

Edited == edits < MaxChanges /\ edits' = edits + 1

----------------------------------------------------------------------------
(* Settings and the cost structure of the company *)

\* mutant: a leaf keeps the percentage it has
Unsynced(driver, percent) == driver
\* a percentage of the settings reaches the leaf that charges by percentage
Synced(driver, percent) ==
  IF driver.method = "percentage" THEN [driver EXCEPT !.percent = percent] ELSE driver

\* the settings are committed; what is then written to the structure is not
SaveSettings ==
  /\ Edited
  /\ \E p \in Percents, policy \in {"warn", "block"} :
       settings' = [settings EXCEPT !.allocation = p, !.policy = policy, !.saved = TRUE]
  /\ UNCHANGED <<quotation, sales, plans, structure>>

ReplaceStructure ==
  /\ Edited
  /\ structure' \in Drivers
  /\ settings' = [settings EXCEPT !.saved = FALSE]
  /\ UNCHANGED <<quotation, sales, plans>>

\* a template writes the structure first: the commit of the settings is its too
ApplyTemplate ==
  /\ Edited
  /\ \E p \in Percents :
       /\ structure' = ByRevenue(p)
       /\ settings' = [settings EXCEPT !.allocation = p, !.saved = TRUE]
  /\ UNCHANGED <<quotation, sales, plans>>

----------------------------------------------------------------------------
(* Seeding *)

\* the driver a plan without one of its own starts from
DriverFor(allocation) ==
  IF structure # NoStructure THEN Synced(structure, allocation) ELSE ByRevenue(allocation)

Scenario(base, ov, line, factor, driver) ==
  [base |-> base, ov |-> ov, line |-> line, factor |-> factor, costs |-> CostsOf(line, factor, driver)]
NewPlan(order, line) ==
  LET driver == DriverFor(settings.allocation)
  IN [docstatus |-> "Draft", order |-> order, allocation |-> settings.allocation, driver |-> driver,
      least |-> settings.least, policy |-> settings.policy,
      scenarios |-> <<Scenario(TRUE, NoOverride, line, 1, driver)>>]
\* seeding again keeps the overrides of the baseline and does not apply them
Reseeded(p, line) ==
  [p EXCEPT !.scenarios = [i \in DOMAIN @ |->
     IF @[i].base THEN Scenario(TRUE, @[i].ov, line, 1, p.driver) ELSE @[i]]]

Seed(drafts, order, line) ==
  /\ IF drafts = {} THEN Len(plans) < MaxPlans /\ plans' = Append(plans, NewPlan(order, line))
     ELSE \E i \in drafts : plans' = [plans EXCEPT ![i] = Reseeded(@, line)]
  /\ UNCHANGED <<quotation, sales, settings, structure, edits>>

Drafts == {i \in DOMAIN plans : plans[i].docstatus = "Draft"}
\* a plan of an order carries the quotation of the order, and is found here too
SeedFromQuotation == Seed(Drafts, NoSale, LineOfQuotation(quotation))
SeedFromOrder(o) ==
  /\ sales[o].docstatus # "Absent"
  /\ Seed({i \in Drafts : plans[i].order = o}, o, LineOfOrder(o))

----------------------------------------------------------------------------
(* Scenarios *)

Patched(line, ov) == IF ov.rate = 0 THEN line ELSE [line EXCEPT !.rate = ov.rate]
BaselineOf(p) == LET i == CHOOSE i \in DOMAIN p.scenarios : p.scenarios[i].base IN p.scenarios[i]
Reestimate(p, s, line) == Scenario(s.base, s.ov, Patched(line, s.ov), s.ov.factor, p.driver)

Editing(i) == i \in Drafts /\ Edited
Change(i, p) == plans' = [plans EXCEPT ![i] = p] /\ UNCHANGED <<quotation, sales, settings, structure>>

CreateScenario(i) ==
  /\ Editing(i)
  /\ Len(plans[i].scenarios) < MaxScenarios
  /\ \E ov \in Overrides :
       Change(i, [plans[i] EXCEPT !.scenarios = Append(@,
         Reestimate(plans[i], [base |-> FALSE, ov |-> ov], BaselineOf(plans[i]).line))])
UpdateScenario(i, k) ==
  /\ Editing(i)
  /\ \E ov \in Overrides :
       Change(i, [plans[i] EXCEPT !.scenarios[k] =
         Reestimate(plans[i], [base |-> @.base, ov |-> ov], BaselineOf(plans[i]).line)])
DeleteScenario(i, k) ==
  /\ Editing(i)
  /\ ~plans[i].scenarios[k].base
  /\ Change(i, [plans[i] EXCEPT !.scenarios = RemoveAt(@, k)])

\* mutant: a recomputation stops at the baseline
RecomputedBaseline(p) ==
  [p EXCEPT !.scenarios = [k \in DOMAIN @ |-> IF @[k].base THEN Reestimate(p, @[k], BaselineOf(p).line) ELSE @[k]]]
\* every scenario, from the lines the baseline had before
RecomputedAll(p) ==
  [p EXCEPT !.scenarios = [k \in DOMAIN @ |-> Reestimate(p, @[k], BaselineOf(p).line)]]

\* mutant: new drivers leave the percentages of the plan as they were
DriverOnly(p, driver) == [p EXCEPT !.driver = driver]
WithDriver(p, driver) ==
  [p EXCEPT !.driver = driver, !.allocation = IF driver.basis = "revenue" THEN driver.percent ELSE 0]
WithAllocation(p, percent) == [p EXCEPT !.allocation = percent, !.driver = Synced(@, percent)]

UpdatePlan(i) ==
  /\ Editing(i)
  /\ \E p \in {plans[i]} \cup {WithDriver(plans[i], d) : d \in Drivers}
              \cup {WithAllocation(plans[i], a) : a \in Percents}
              \cup {[plans[i] EXCEPT !.least = 0]},
        recompute \in BOOLEAN :
       Change(i, IF recompute THEN RecomputedAll(p) ELSE p)

\* the discount of the header stays and is taken from the applied rate again
ApplyToQuotation(i, k) ==
  LET line == plans[i].scenarios[k].line
  IN /\ quotation.docstatus = "Draft"
     /\ Edited
     /\ quotation' = [quotation EXCEPT !.line = [qty |-> line.qty, rate |-> line.rate]]
     /\ UNCHANGED <<sales, plans, settings, structure>>

SubmitMarginPlan(i) == Editing(i) /\ Change(i, [plans[i] EXCEPT !.docstatus = "Submitted"])
CancelMarginPlan(i) ==
  /\ plans[i].docstatus = "Submitted"
  /\ plans' = [plans EXCEPT ![i].docstatus = "Cancelled"]
  /\ UNCHANGED <<quotation, sales, settings, structure, edits>>

----------------------------------------------------------------------------
(* The gate, the quotation and the orders *)

KeepsLeast(costs, least) ==
  costs.revenue = 0 \/ (costs.revenue - costs.variable) * 100 >= least * costs.revenue

\* mutant: the oldest plan decides
OldestOf(found) == {i \in found : \A j \in found : i <= j}
LatestOf(found) == {i \in found : \A j \in found : j <= i}
PlansFor(order) ==
  {i \in DOMAIN plans : plans[i].docstatus \in Open /\ (order = NoSale \/ plans[i].order = order)}
\* no plan, no gate
Passes(order) ==
  \A i \in LatestOf(PlansFor(order)) :
    plans[i].policy = "warn" \/ KeepsLeast(BaselineOf(plans[i]).costs, plans[i].least)

SubmitQuotation ==
  /\ quotation.docstatus = "Draft"
  /\ Passes(NoSale)
  /\ quotation' = [quotation EXCEPT !.docstatus = "Submitted", !.status = "Open"]
  /\ UNCHANGED <<sales, plans, settings, structure, edits>>
CancelQuotation ==
  /\ quotation.docstatus = "Submitted"
  /\ quotation' = [quotation EXCEPT !.docstatus = "Cancelled", !.status = "Cancelled"]
  /\ UNCHANGED <<sales, plans, settings, structure, edits>>

CreateSale(o) ==
  /\ sales[o].docstatus = "Absent"
  /\ quotation.docstatus = "Submitted"
  /\ \E rate \in Rates : sales' = [sales EXCEPT ![o] = [docstatus |-> "Draft", line |-> [qty |-> 1, rate |-> rate]]]
  /\ UNCHANGED <<quotation, plans, settings, structure, edits>>
SubmitSale(o) ==
  /\ sales[o].docstatus = "Draft"
  /\ Passes(o)
  /\ sales' = [sales EXCEPT ![o].docstatus = "Submitted"]
  /\ quotation' = [quotation EXCEPT !.status = IF quotation.docstatus = "Submitted" THEN "Ordered" ELSE @]
  /\ UNCHANGED <<plans, settings, structure, edits>>

\* mutant: the first order cancelled opens the quotation again
ReopenedAlways(o) == quotation.status = "Ordered"
Reopened(o) ==
  quotation.status = "Ordered" /\ ~\E other \in Sales \ {o} : sales[other].docstatus = "Submitted"
CancelSale(o) ==
  /\ sales[o].docstatus = "Submitted"
  /\ sales' = [sales EXCEPT ![o].docstatus = "Cancelled"]
  /\ quotation' = [quotation EXCEPT !.status = IF Reopened(o) THEN "Open" ELSE @]
  /\ UNCHANGED <<plans, settings, structure, edits>>

MNext ==
  \/ SaveSettings \/ ReplaceStructure \/ ApplyTemplate
  \/ SeedFromQuotation \/ SubmitQuotation \/ CancelQuotation
  \/ \E o \in Sales : SeedFromOrder(o) \/ CreateSale(o) \/ SubmitSale(o) \/ CancelSale(o)
  \/ \E i \in DOMAIN plans :
       \/ CreateScenario(i) \/ UpdatePlan(i) \/ SubmitMarginPlan(i) \/ CancelMarginPlan(i)
       \/ \E k \in DOMAIN plans[i].scenarios :
            UpdateScenario(i, k) \/ DeleteScenario(i, k) \/ ApplyToQuotation(i, k)

MSpec == MInit /\ [][MNext]_mvars

----------------------------------------------------------------------------
(* Properties *)

\* A plan keeps its percentages twice, in the allocations and in the drivers;
\* where the driver charges by revenue the two agree, whichever was edited
\* (update_plan, allocations_from_drivers, sync_allocations_into_drivers).
AllocationsTellDrivers ==
  \A i \in DOMAIN plans :
    plans[i].driver.basis = "revenue" => plans[i].driver.percent = plans[i].allocation

\* A submitted quotation is "Ordered" exactly while one of its orders is
\* submitted (submit_sales_order, cancel_sales_order).
OrderedTellsOrders ==
  quotation.docstatus = "Submitted" =>
    (quotation.status = "Ordered" <=> \E o \in Sales : sales[o].docstatus = "Submitted")

\* A plan has one baseline, its first scenario, and an order one draft plan.
PlansAreWhole ==
  /\ \A i \in DOMAIN plans : {k \in DOMAIN plans[i].scenarios : plans[i].scenarios[k].base} = {1}
  /\ \A i, j \in Drafts : plans[i].order = plans[j].order /\ plans[i].order # NoSale => i = j

MarginsHold == AllocationsTellDrivers /\ OrderedTellsOrders /\ PlansAreWhole

\* New drivers reach every scenario in the same step or none: a plan never
\* compares scenarios some of which were estimated with the old ones; and
\* then each scenario is the baseline patched by its own overrides, as long as
\* the baseline has none.
Reestimated(p, new) ==
  \A k \in DOMAIN new.scenarios :
    LET s == new.scenarios[k] IN
    /\ s.costs = CostsOf(s.line, s.factor, new.driver)
    /\ BaselineOf(p).ov = NoOverride => s.line = Patched(BaselineOf(new).line, s.ov)
PlansRecomputed ==
  [][\A i \in DOMAIN plans :
       /\ plans'[i].driver # plans[i].driver
       /\ \E k \in DOMAIN plans[i].scenarios : plans'[i].scenarios[k] # plans[i].scenarios[k]
       => Reestimated(plans[i], plans'[i])]_mvars

\* Under a blocking policy nothing is submitted below the least margin: if the
\* baseline of the latest plan still has the lines of the document and no
\* overrides, the margin of the document itself was high enough.  A document
\* worth nothing has no margin, and the gate lets it pass.
EnoughFor(order, line) ==
  \A i \in PlansFor(order) :
    (\A j \in PlansFor(order) : j <= i) /\ plans[i].policy = "block" /\ BaselineOf(plans[i]).ov = NoOverride /\ BaselineOf(plans[i]).line = line
      => line.rate = 0 \/ (line.rate - UnitCost) * 100 >= plans[i].least * line.rate
NothingSubmittedBelow ==
  [][/\ quotation.docstatus = "Draft" /\ quotation'.docstatus = "Submitted"
          => EnoughFor(NoSale, Line("quotation", quotation.line.qty, NetRate(quotation)))
     /\ \A o \in Sales :
          sales[o].docstatus = "Draft" /\ sales'[o].docstatus = "Submitted" => EnoughFor(o, LineOfOrder(o))]_mvars

\* What the comment at settings.py:110 says: the fixed leaves of the cost
\* structure are kept in sync with the allocations of the settings.
SettingsReachStructure ==
  settings.saved => structure # NoStructure
                    /\ (structure.method = "percentage" => structure.percent = settings.allocation)
=============================================================================
