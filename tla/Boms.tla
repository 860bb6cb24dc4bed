-------------------------------- MODULE Boms --------------------------------
(***************************************************************************)
(* Bills of materials (services/bom.py): drafts, submission, cancellation, *)
(* deactivation, the default of an item, and the cost a bill stores.       *)
(*                                                                         *)
(* Which bill an item is made by is looked up again at every use           *)
(* (find_item_bom): the one the item points at if that is submitted and    *)
(* active, otherwise the default, otherwise the newest.  Circles are       *)
(* looked for when rows are written and when a bill is submitted; but      *)
(* other handlers change the answer of the lookup, too.                    *)
(*                                                                         *)
(* A bill makes one unit of one unit of each component; quantities, scrap  *)
(* and routings do not matter to which bill is used.                       *)
(***************************************************************************)
EXTENDS Integers, FiniteSetsExt, SequencesExt

CONSTANTS
  Goods,       \* the items, numbered
  Bought,      \* those no bill makes
  Recipes,     \* sets of components a user may enter
  Operating,   \* operating cost of every bill
  Values,      \* valuations an item may have
  MaxBoms, MaxMoves, MaxCost   \* bounds: bills, moves, costs

ASSUME BomAssumption ==
  /\ Goods \subseteq Nat /\ IsFiniteSet(Goods) /\ Bought \subseteq Goods
  /\ Recipes \subseteq (SUBSET Goods) \ {{}}
  /\ Operating \in Nat /\ Values \subseteq Nat /\ Values # {} /\ {MaxBoms, MaxMoves, MaxCost} \subseteq Nat

NoBom == 0

VARIABLES
  boms,        \* the bills, oldest first
  defaultBom,  \* Item.default_bom_id
  value,       \* valuation rate of each item
  moves,       \* drafts edited and costs refreshed
  unchecked    \* history: items whose bill in use was not submitted into use

bomvars == <<boms, defaultBom, value, moves, unchecked>>

BomInit ==
  /\ boms = <<>>
  /\ defaultBom = [i \in Goods |-> NoBom]
  /\ value = [i \in Goods |-> Min(Values)]
  /\ moves = 0
  /\ unchecked = {}

----------------------------------------------------------------------------
(* Looking up *)

Usable(bs, i) ==
  {b \in DOMAIN bs : bs[b].item = i /\ bs[b].docstatus = "Submitted" /\ bs[b].active}

\* find_item_bom, not counting the bill "but"
Used(bs, ds, i, but) ==
  LET usable == Usable(bs, i) \ {but}
      default == {b \in usable : bs[b].default}
  IN IF ds[i] \in usable THEN ds[i]
     ELSE IF usable = {} THEN NoBom
     ELSE Max(IF default # {} THEN default ELSE usable)

\* what an item is made of
Parts(bs, ds, i, but) == LET b == Used(bs, ds, i, but) IN IF b = NoBom THEN {} ELSE bs[b].components

\* the items a walk from the components comes to
Reached(bs, ds, components, but) ==
  LET walk[n \in Nat] ==
        IF n = 0 THEN components ELSE walk[n - 1] \cup UNION {Parts(bs, ds, i, but) : i \in walk[n - 1]}
  IN walk[Cardinality(Goods)]

\* mutant: a bill may lead back to what it makes through another bill
NotItself(bs, ds, i, components, but) == i \notin components
\* assert_no_bom_cycle
NoCycle(bs, ds, i, components, but) == i \notin Reached(bs, ds, components, but)

\* resolve_component_rate, from the costs the bills store
RateOf(bs, costs, i) ==
  LET b == Used(bs, defaultBom, i, NoBom)
  IN IF b # NoBom /\ costs[b] > 0 THEN costs[b] ELSE value[i]
CostOf(bs, costs, components) == Operating + SumFunctionOnSet([i \in components |-> RateOf(bs, costs, i)], components)
Stored(bs) == [b \in DOMAIN bs |-> bs[b].cost]
NewCost(components) == CostOf(boms, Stored(boms), components)

----------------------------------------------------------------------------
(* Writing *)

\* mutant: the other bills keep their flag
OthersKept(bs, b) == bs
\* _clear_other_defaults
OthersCleared(bs, b) ==
  [k \in DOMAIN bs |-> IF k # b /\ bs[k].item = bs[b].item THEN [bs[k] EXCEPT !.default = FALSE] ELSE bs[k]]

\* mutant: the item goes on pointing at a bill that is no longer its default
PointerSet(bs, ds, b) ==
  IF bs[b].default /\ bs[b].docstatus = "Submitted" /\ bs[b].active THEN [ds EXCEPT ![bs[b].item] = b] ELSE ds
\* _sync_item_default_bom
Repointed(bs, ds, b) ==
  IF bs[b].default /\ bs[b].docstatus = "Submitted" /\ bs[b].active
  THEN [ds EXCEPT ![bs[b].item] = b]
  ELSE [i \in Goods |-> IF ds[i] = b THEN NoBom ELSE ds[i]]

\* a default, draft or not, takes the flag and the pointer of its item
Claimed(bs, b) == IF bs[b].default THEN OthersCleared(bs, b) ELSE bs
Pointed(bs, b) == IF bs[b].default THEN [defaultBom EXCEPT ![bs[b].item] = b] ELSE defaultBom

\* commit; the bill "checked" has just been looked through for circles
Become(bs, ds, checked) ==
  /\ boms' = bs /\ defaultBom' = ds
  /\ unchecked' = {i \in Goods :
       LET before == Used(boms, defaultBom, i, NoBom)
           now == Used(bs, ds, i, NoBom)
       IN now # NoBom /\ IF now = before THEN i \in unchecked ELSE now # checked}
  /\ UNCHANGED value

CreateBom(i, components, default) ==
  /\ Len(boms) < MaxBoms /\ UNCHANGED moves
  /\ NoCycle(boms, defaultBom, i, components, NoBom)
  /\ LET bs == Append(boms, [item |-> i, components |-> components, docstatus |-> "Draft", active |-> TRUE,
                             default |-> default, cost |-> NewCost(components)])
     IN Become(Claimed(bs, Len(bs)), Pointed(bs, Len(bs)), NoBom)

\* {} for rows the request does not replace: nothing is looked through then
UpdateBom(b, components, default) ==
  /\ boms[b].docstatus = "Draft"
  /\ moves < MaxMoves /\ moves' = moves + 1
  /\ components # {} => NoCycle(boms, defaultBom, boms[b].item, components, b)
  /\ LET edited == [boms EXCEPT ![b].default = default]
         bs == IF components = {} THEN edited
               ELSE [edited EXCEPT ![b].components = components, ![b].cost = NewCost(components)]
     IN Become(Claimed(bs, b), Pointed(bs, b), NoBom)

SubmitBom(b) ==
  /\ boms[b].docstatus = "Draft" /\ UNCHANGED moves
  /\ NoCycle(boms, defaultBom, boms[b].item, boms[b].components, b)
  /\ LET bs == Claimed([boms EXCEPT ![b].docstatus = "Submitted", ![b].active = TRUE], b)
     IN Become(bs, Repointed(bs, Pointed(bs, b), b), b)

\* refused while a submitted work order uses the bill
CancelBom(b) ==
  /\ boms[b].docstatus = "Submitted" /\ UNCHANGED moves
  /\ LET bs == [boms EXCEPT ![b].docstatus = "Cancelled", ![b].active = FALSE, ![b].default = FALSE]
     IN Become(bs, Repointed(bs, defaultBom, b), NoBom)

SetActive(b, active) ==
  /\ boms[b].docstatus = "Submitted" /\ boms[b].active # active /\ UNCHANGED moves
  /\ LET bs == [boms EXCEPT ![b].active = active, ![b].default = @ /\ active]
     IN Become(bs, Repointed(bs, defaultBom, b), NoBom)

----------------------------------------------------------------------------
(* Costs *)

Recosted(costs, b) == [costs EXCEPT ![b] = CostOf(boms, costs, boms[b].components)]
InUse(i) == Used(boms, defaultBom, i, NoBom)
OneByOne(components) == SetToSortSeq(components, <)

\* mutant: the bills of the components keep their costs
NotNested(b) == Stored(boms)
\* _refresh_nested_costs: depth first, a bill once on each path
RefreshNested(b) ==
  LET refreshed[visited \in SUBSET DOMAIN boms, p \in DOMAIN boms, costs \in [DOMAIN boms -> Nat]] ==
        FoldLeft(LAMBDA acc, i :
                   IF InUse(i) = NoBom \/ InUse(i) \in visited THEN acc
                   ELSE Recosted(refreshed[visited \cup {InUse(i)}, InUse(i), acc], InUse(i)),
                 costs, OneByOne(boms[p].components))
  IN refreshed[{b}, b, Stored(boms)]

UpdateBomCost(b) ==
  /\ boms[b].docstatus # "Cancelled"
  /\ moves < MaxMoves /\ moves' = moves + 1
  /\ LET costs == Recosted(RefreshNested(b), b) IN
     /\ \A k \in DOMAIN boms : costs[k] \in 0 .. MaxCost
     /\ boms' = [k \in DOMAIN boms |-> [boms[k] EXCEPT !.cost = costs[k]]]
  /\ UNCHANGED <<defaultBom, value, unchecked>>

\* stock is bought at another price (prices that only rise, to bound them); that
\* of an item a bill makes is not asked for as long as the bill is there
Revalue(i) ==
  /\ \E v \in Values : v > value[i] /\ value' = [value EXCEPT ![i] = v]
  /\ UNCHANGED <<boms, defaultBom, moves, unchecked>>

BomNext ==
  \/ \E i \in Goods \ Bought, c \in Recipes, d \in BOOLEAN : CreateBom(i, c, d)
  \/ \E b \in DOMAIN boms :
       \/ \E c \in Recipes \cup {{}}, d \in BOOLEAN : UpdateBom(b, c, d)
       \/ SubmitBom(b) \/ CancelBom(b) \/ UpdateBomCost(b)
       \/ \E a \in BOOLEAN : SetActive(b, a)
  \/ \E i \in Bought : Revalue(i)

BomSpec == BomInit /\ [][BomNext]_bomvars

----------------------------------------------------------------------------
(* Properties *)

BomTypeOK ==
  /\ \A b \in DOMAIN boms :
       boms[b] \in [item : Goods, components : Recipes, docstatus : {"Draft", "Submitted", "Cancelled"},
                    active : BOOLEAN, default : BOOLEAN, cost : Nat]
  /\ defaultBom \in [Goods -> 0 .. Len(boms)]
  /\ value \in [Goods -> Values] /\ moves \in 0 .. MaxMoves /\ unchecked \subseteq Goods

\* "At most one default BOM per production item" (bom.py), and the item points
\* at a submitted bill exactly if that is its default and active.
DefaultsAgree ==
  \A b \in DOMAIN boms :
    /\ boms[b].default => \A k \in DOMAIN boms : boms[k].item = boms[b].item /\ boms[k].default => k = b
    /\ boms[b].docstatus = "Submitted" =>
         (defaultBom[boms[b].item] = b <=> boms[b].default /\ boms[b].active)

Circular(i) ==
  LET b == Used(boms, defaultBom, i, NoBom)
  IN b # NoBom /\ i \in Reached(boms, defaultBom, boms[b].components, NoBom)

\* No item is made of itself, unless the bill of one of the items of the circle
\* came into use without being submitted: reactivated, or next in line when
\* another was cancelled, deactivated or lost its flag to a draft.
CircleOnlyByReturn ==
  \A i \in Goods : Circular(i) =>
    \E j \in unchecked :
      /\ Circular(j)
      /\ j \in Reached(boms, defaultBom, {i}, NoBom) /\ i \in Reached(boms, defaultBom, {j}, NoBom)

BomsAgree == BomTypeOK /\ DefaultsAgree /\ CircleOnlyByReturn

\* what a bill costs, from the valuations of what no bill makes
Rollup(bs) ==
  LET cost[n \in 0 .. Cardinality(Goods), i \in Goods] ==
        LET b == Used(bs, defaultBom, i, NoBom)
        IN IF b = NoBom \/ n = 0 THEN value[i]
           ELSE Operating + SumFunctionOnSet([c \in Goods |-> cost[n - 1, c]], bs[b].components)
  IN cost

\* A refresh that changes the cost of a submitted bill leaves it at the rolled
\* up cost of everything below it, if nothing below goes in a circle.
RefreshReachesLeaves ==
  [][\A b \in DOMAIN boms :
       /\ boms[b].docstatus = "Submitted" /\ boms'[b].cost # boms[b].cost
       /\ \A i \in Reached(boms, defaultBom, boms[b].components, NoBom) : ~Circular(i)
       => boms'[b].cost = Operating + SumFunctionOnSet([c \in Goods |-> Rollup(boms)[Cardinality(Goods), c]], boms[b].components)]_bomvars

\* Nothing is made of itself ("cycle-guarded", bom_explosion.py).  Not so: of
\* two bills that lead to each other, one is deactivated while the other is
\* submitted, and then activated again.
NothingMadeOfItself == \A i \in Goods : ~Circular(i)
=============================================================================
