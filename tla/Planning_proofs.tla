-------------------------- MODULE Planning_proofs --------------------------
(***************************************************************************)
(* A work order and the stock entries that drive it agree when requests    *)
(* are served one at a time, for any bill of materials, any quantities and *)
(* any number of entries, whatever drafts are refused or left behind and   *)
(* wherever the server dies.                                               *)
(*                                                                         *)
(* The job card, the material request, the production plan and the         *)
(* subcontracting job count what hangs on them, and nothing is made of     *)
(* itself by bills that were looked through when they came into use.       *)
(***************************************************************************)
EXTENDS WorkOrder, Planning, SumLemmas, SequenceTheorems, TLAPS

-----------------------------------------------------------------------------
(* Sums over the entries the order was told about, as functions of the      *)
(* entries and of those in flight.                                          *)

EntryRow ==
  [purpose : Purposes \cup {NoPurpose},
   docstatus : {"Absent", "Draft", "Submitted", "Cancelled"},
   qty : Nat, rows : [Items -> Nat]]

Qtys(en) == [e \in Entries |-> en[e].qty]
RowsFor(en, c) == [e \in Entries |-> en[e].rows[c]]

ToldOf(en, fl, purpose) ==
  {e \in Entries : en[e].docstatus = "Submitted" /\ en[e].purpose = purpose} \ fl
Consuming(en, fl) == ToldOf(en, fl, "Manufacture") \cup ToldOf(en, fl, "Consumption")
Plain(en, e) == \A i \in Items \ Components : ~(en[e].rows[i] > 0)

\* the counters of o are what the entries say; with substitutes, at least that
Agreement(o, en, fl) ==
  /\ o.produced = SumFunctionOnSet(Qtys(en), ToldOf(en, fl, "Manufacture"))
  /\ o.transferred = SumFunctionOnSet(Qtys(en), ToldOf(en, fl, "Transfer"))
  /\ \A c \in Components :
       /\ o.staged[c] = PerUnit[c] * SumFunctionOnSet(Qtys(en), ToldOf(en, fl, "Transfer"))
       /\ o.consumed[c] >= SumFunctionOnSet(RowsFor(en, c), Consuming(en, fl))
       /\ (\A e \in Entries : Plain(en, e))
            => o.consumed[c] = SumFunctionOnSet(RowsFor(en, c), Consuming(en, fl))

LEMMA Finite ==
  ASSUME NEW en, NEW fl, NEW p
  PROVE  /\ ToldOf(en, fl, p) \in SUBSET Entries /\ IsFiniteSet(ToldOf(en, fl, p))
         /\ Consuming(en, fl) \in SUBSET Entries /\ IsFiniteSet(Consuming(en, fl))
<1>1. /\ ToldOf(en, fl, p) \in SUBSET Entries
      /\ Consuming(en, fl) \in SUBSET Entries
  BY DEF ToldOf, Consuming
<1> QED BY <1>1, FS_Subset, WorkOrderAssumption

LEMMA SumTypes ==
  ASSUME NEW en \in [Entries -> EntryRow], NEW S \in SUBSET Entries, NEW c \in Components
  PROVE  /\ SumFunctionOnSet(Qtys(en), S) \in Nat
         /\ SumFunctionOnSet(RowsFor(en, c), S) \in Nat
<1>1. \A e \in Entries : Qtys(en)[e] \in Nat /\ RowsFor(en, c)[e] \in Nat
  BY DEF Qtys, RowsFor, EntryRow, Items
<1>2. IsFiniteSet(Entries)
  BY WorkOrderAssumption
<1>3. /\ SumFunctionOnSet(Qtys(en), S) \in Nat
  BY <1>1, <1>2, SumOfPart
<1>4. /\ SumFunctionOnSet(RowsFor(en, c), S) \in Nat
  BY <1>1, <1>2, SumOfPart
<1> QED BY <1>3, <1>4

\* the sum with one more element
LEMMA SumWithOne ==
  ASSUME NEW S \in SUBSET Entries, NEW x \in Entries, x \notin S,
         NEW f, \A e \in Entries : f[e] \in Nat
  PROVE  SumFunctionOnSet(f, S \cup {x}) = f[x] + SumFunctionOnSet(f, S)
<1>1. IsFiniteSet(S)
  BY FS_Subset, WorkOrderAssumption
<1>2. \A y \in S \cup {x} : f[y] \in Int
  OBVIOUS
<1> QED BY <1>1, SumWith

\* what a posted entry x adds
LEMMA OneMore ==
  ASSUME NEW en \in [Entries -> EntryRow], NEW x \in Entries, en[x].docstatus = "Submitted",
         NEW f, \A e \in Entries : f[e] \in Nat
  PROVE  /\ \A p \in Purposes : SumFunctionOnSet(f, ToldOf(en, {}, p))
              = SumFunctionOnSet(f, ToldOf(en, {x}, p)) + (IF en[x].purpose = p THEN f[x] ELSE 0)
         /\ SumFunctionOnSet(f, Consuming(en, {}))
              = SumFunctionOnSet(f, Consuming(en, {x}))
                + (IF en[x].purpose \in {"Manufacture", "Consumption"} THEN f[x] ELSE 0)
<1>1. ASSUME NEW S \in SUBSET Entries PROVE SumFunctionOnSet(f, S) \in Nat
  BY SumOfPart, WorkOrderAssumption
<1>2. ASSUME NEW p \in Purposes
      PROVE SumFunctionOnSet(f, ToldOf(en, {}, p))
              = SumFunctionOnSet(f, ToldOf(en, {x}, p)) + (IF en[x].purpose = p THEN f[x] ELSE 0)
  <2> DEFINE S == ToldOf(en, {x}, p)
             T == ToldOf(en, {}, p)
  <2>1. S \in SUBSET Entries /\ x \notin S
    BY DEF ToldOf
  <2>2. CASE en[x].purpose = p
    <3>1. T = S \cup {x}
      BY <2>2 DEF ToldOf
    <3> HIDE DEF S, T
    <3>2. SumFunctionOnSet(f, S \cup {x}) = f[x] + SumFunctionOnSet(f, S)
      BY <2>1, SumWithOne
    <3>3. SumFunctionOnSet(f, S) \in Nat /\ f[x] \in Nat
      BY <2>1, <1>1
    <3>4. SumFunctionOnSet(f, T) = SumFunctionOnSet(f, S) + f[x]
      BY <3>1, <3>2, <3>3
    <3> QED BY <3>4, <2>2 DEF S, T
  <2>3. CASE en[x].purpose # p
    <3>1. T = S
      BY <2>3 DEF ToldOf
    <3> HIDE DEF S, T
    <3>2. SumFunctionOnSet(f, S) \in Nat
      BY <2>1, <1>1
    <3> QED BY <3>1, <3>2, <2>3 DEF S, T
  <2> QED BY <2>2, <2>3
<1>3. SumFunctionOnSet(f, Consuming(en, {}))
        = SumFunctionOnSet(f, Consuming(en, {x}))
          + (IF en[x].purpose \in {"Manufacture", "Consumption"} THEN f[x] ELSE 0)
  <2> DEFINE S == Consuming(en, {x})
             T == Consuming(en, {})
  <2>1. S \in SUBSET Entries /\ x \notin S
    BY DEF ToldOf, Consuming
  <2>2. CASE en[x].purpose \in {"Manufacture", "Consumption"}
    <3>1. T = S \cup {x}
      BY <2>2 DEF ToldOf, Consuming
    <3> HIDE DEF S, T
    <3>2. SumFunctionOnSet(f, S \cup {x}) = f[x] + SumFunctionOnSet(f, S)
      BY <2>1, SumWithOne
    <3>3. SumFunctionOnSet(f, S) \in Nat /\ f[x] \in Nat
      BY <2>1, <1>1
    <3>4. SumFunctionOnSet(f, T) = SumFunctionOnSet(f, S) + f[x]
      BY <3>1, <3>2, <3>3
    <3> QED BY <3>4, <2>2 DEF S, T
  <2>3. CASE en[x].purpose \notin {"Manufacture", "Consumption"}
    <3>1. T = S
      BY <2>3 DEF ToldOf, Consuming
    <3> HIDE DEF S, T
    <3>2. SumFunctionOnSet(f, S) \in Nat
      BY <2>1, <1>1
    <3> QED BY <3>1, <3>2, <2>3 DEF S, T
  <2> QED BY <2>2, <2>3
<1> QED BY <1>2, <1>3

\* only the counters, and the rows of the entries told, matter
LEMMA AgreementSame ==
  ASSUME NEW o, NEW n, NEW en, NEW em, NEW fl, NEW fm, Agreement(o, en, fl),
         n.produced = o.produced, n.transferred = o.transferred,
         \A c \in Components : n.staged[c] = o.staged[c] /\ n.consumed[c] = o.consumed[c],
         \A p : ToldOf(em, fm, p) = ToldOf(en, fl, p),
         \A p : \A e \in Entries : e \in ToldOf(en, fl, p) =>
           em[e].qty = en[e].qty /\ \A c \in Components : em[e].rows[c] = en[e].rows[c],
         (\A e \in Entries : Plain(em, e)) => (\A e \in Entries : Plain(en, e))
  PROVE  Agreement(n, em, fm)
<1>1. ASSUME NEW p
      PROVE  SumFunctionOnSet(Qtys(em), ToldOf(em, fm, p)) = SumFunctionOnSet(Qtys(en), ToldOf(en, fl, p))
  <2>1. ToldOf(en, fl, p) \subseteq Entries /\ IsFiniteSet(ToldOf(en, fl, p))
    BY Finite
  <2>2. \A e \in Entries : Qtys(em)[e] = em[e].qty /\ Qtys(en)[e] = en[e].qty
    BY DEF Qtys
  <2>3. \A e \in Entries : e \in ToldOf(en, fl, p) => em[e].qty = en[e].qty
    OBVIOUS
  <2>4. \A e \in ToldOf(en, fl, p) : Qtys(em)[e] = Qtys(en)[e]
    BY ONLY <2>1, <2>2, <2>3
  <2>5. ToldOf(em, fm, p) = ToldOf(en, fl, p)
    OBVIOUS
  <2> QED BY <2>1, <2>4, <2>5, SumOfSame
<1>2. ASSUME NEW c \in Components
      PROVE  SumFunctionOnSet(RowsFor(em, c), Consuming(em, fm))
               = SumFunctionOnSet(RowsFor(en, c), Consuming(en, fl))
  <2>1. \A e \in Consuming(en, fl) : RowsFor(em, c)[e] = RowsFor(en, c)[e]
    <3>1. \A e \in Consuming(en, fl) : e \in Entries /\ em[e].rows[c] = en[e].rows[c]
      <4> SUFFICES ASSUME NEW e \in Consuming(en, fl)
                   PROVE  e \in Entries /\ em[e].rows[c] = en[e].rows[c]
        OBVIOUS
      <4>1. PICK p : e \in ToldOf(en, fl, p)
        BY DEF Consuming
      <4>2. e \in Entries
        BY <4>1, Finite
      <4> QED BY <4>1, <4>2
    <3>2. \A e \in Entries : RowsFor(em, c)[e] = em[e].rows[c] /\ RowsFor(en, c)[e] = en[e].rows[c]
      BY DEF RowsFor
    <3> QED BY ONLY <3>1, <3>2
  <2>2. Consuming(em, fm) = Consuming(en, fl)
    BY DEF Consuming
  <2>3. IsFiniteSet(Consuming(en, fl))
    BY Finite
  <2> QED BY <2>1, <2>2, <2>3, SumOfSame
<1> QED BY <1>1, <1>2 DEF Agreement

-----------------------------------------------------------------------------
(* What counting an entry does to the order.                                *)

\* n is o with units of purpose and the rows added
Counts1(n, o, purpose, units, rows) ==
  /\ n \in OrderRow /\ n.docstatus = o.docstatus
  /\ n.produced = (IF purpose = "Manufacture" THEN NotBelow0(o.produced + units) ELSE o.produced)
  /\ n.transferred = (IF purpose = "Transfer" THEN NotBelow0(o.transferred + units)
                      ELSE o.transferred)
  /\ \A c \in Components :
       /\ n.consumed[c] = (IF purpose = "Transfer" THEN o.consumed[c]
                           ELSE NotBelow0(o.consumed[c] + rows[c]))
       /\ n.staged[c] = (IF purpose = "Transfer" THEN NotBelow0(o.staged[c] + rows[c])
                         ELSE o.staged[c])

LEMMA CountedFields ==
  ASSUME NEW o \in OrderRow, NEW p, NEW u \in Int, NEW rows, \A c \in Components : rows[c] \in Int
  PROVE  Counts1(Counted(o, p, u, rows), o, p, u, rows) /\ Counted(o, p, u, rows).status = o.status
<1>0. /\ o.produced \in Nat /\ o.transferred \in Nat
      /\ \A c \in Components : o.consumed[c] \in Nat /\ o.staged[c] \in Nat
  BY DEF OrderRow, Counts
<1>1. CASE p = "Transfer"
  <2> DEFINE t == NotBelow0(o.transferred + u)
             s == [c \in Components |-> NotBelow0(o.staged[c] + rows[c])]
  <2>1. Counted(o, p, u, rows) = [o EXCEPT !.transferred = t, !.staged = s]
    BY <1>1 DEF Counted, OrderRow
  <2>2. t \in Nat
    BY <1>0 DEF NotBelow0
  <2>3. s \in Counts
    BY <1>0 DEF NotBelow0, Counts
  <2>4. \A c \in Components : s[c] = NotBelow0(o.staged[c] + rows[c])
    OBVIOUS
  <2>5. t = NotBelow0(o.transferred + u)
    OBVIOUS
  <2> HIDE DEF t, s
  <2> QED BY <1>1, <2>1, <2>2, <2>3, <2>4, <2>5 DEF Counts1, OrderRow
<1>2. CASE p # "Transfer"
  <2> DEFINE t == IF p = "Manufacture" THEN NotBelow0(o.produced + u) ELSE o.produced
             s == [c \in Components |-> NotBelow0(o.consumed[c] + rows[c])]
  <2>1. Counted(o, p, u, rows) = [o EXCEPT !.produced = t, !.consumed = s]
    BY <1>2 DEF Counted, OrderRow
  <2>2. t \in Nat
    BY <1>0 DEF NotBelow0
  <2>3. s \in Counts
    BY <1>0 DEF NotBelow0, Counts
  <2>4. \A c \in Components : s[c] = NotBelow0(o.consumed[c] + rows[c])
    OBVIOUS
  <2>5. t = IF p = "Manufacture" THEN NotBelow0(o.produced + u) ELSE o.produced
    OBVIOUS
  <2> HIDE DEF t, s
  <2> QED BY <1>2, <2>1, <2>2, <2>3, <2>4, <2>5 DEF Counts1, OrderRow
<1> QED BY <1>1, <1>2

LEMMA RecomputedStatus ==
  ASSUME NEW o
  PROVE  Recomputed(o) \in {"Completed", "In Process", "Not Started"}
BY DEF Recomputed

\* the status does not enter into itself
LEMMA RecomputedFrom ==
  ASSUME NEW o, NEW n, n.produced = o.produced, n.transferred = o.transferred,
         \A c \in Components : n.consumed[c] = o.consumed[c]
  PROVE  Recomputed(n) = Recomputed(o) /\ Started(n) = Started(o)
BY DEF Recomputed, Started

LEMMA WithStatus ==
  ASSUME NEW n, NEW o, NEW p, NEW u, NEW rows, Counts1(n, o, p, u, rows),
         NEW m \in OrderRow, m.docstatus = n.docstatus,
         m.produced = n.produced, m.transferred = n.transferred,
         m.consumed = n.consumed, m.staged = n.staged
  PROVE  Counts1(m, o, p, u, rows) /\ Recomputed(m) = Recomputed(n)
<1>1. Counts1(m, o, p, u, rows)
  BY DEF Counts1
<1>2. Recomputed(m) = Recomputed(n)
  BY RecomputedFrom
<1> QED BY <1>1, <1>2

LEMMA RowsOfFacts ==
  ASSUME NEW counted \in Counts, NEW swap \in SUBSET DOMAIN Substitutes
  PROVE  /\ RowsOf(counted, swap) \in [Items -> Nat]
         /\ \A c \in Components : RowsOf(counted, swap)[c] <= counted[c]
         /\ (\A i \in Items \ Components : ~(RowsOf(counted, swap)[i] > 0))
              => \A c \in Components : RowsOf(counted, swap)[c] = counted[c]
         /\ swap = {} => \A c \in Components : RowsOf(counted, swap)[c] = counted[c]
<1> DEFINE Kept(i) == {c \in swap : Substitutes[c] = i}
           r == RowsOf(counted, swap)
<1>1. /\ \A c \in Components : counted[c] \in Nat
      /\ IsFiniteSet(Components) /\ swap \subseteq Components
  BY WorkOrderAssumption DEF Counts
<1>2. \A i : Kept(i) \in SUBSET Components
  BY <1>1
<1>3. \A i : SumFunctionOnSet(counted, Kept(i)) \in Nat
  <2> SUFFICES ASSUME NEW i PROVE SumFunctionOnSet(counted, Kept(i)) \in Nat
    OBVIOUS
  <2>1. PICK T \in SUBSET Components : T = Kept(i)
    BY <1>2
  <2> HIDE DEF Kept
  <2>2. SumFunctionOnSet(counted, T) \in Nat
    BY <1>1, SumOfPart
  <2> QED BY <2>1, <2>2
<1>4. /\ \A c \in Components : r[c] = IF c \in swap THEN 0 ELSE counted[c]
      /\ \A i \in Items \ Components : r[i] = SumFunctionOnSet(counted, Kept(i))
      /\ r \in [Items -> Nat]
  <2>1. Components \subseteq Items
    BY DEF Items
  <2> QED BY <1>1, <1>3, <2>1 DEF RowsOf
<1>5. ASSUME \A i \in Items \ Components : ~(r[i] > 0), NEW c \in Components, c \in swap
      PROVE  counted[c] = 0
  <2>1. Substitutes[c] \in Items \ Components
    BY <1>5, WorkOrderAssumption DEF Items
  <2>2. r[Substitutes[c]] = 0
    BY <1>4, <1>5, <2>1
  <2>3. PICK T \in SUBSET Components : T = Kept(Substitutes[c])
    BY <1>2
  <2>4. c \in T /\ SumFunctionOnSet(counted, T) = 0
    BY <1>4, <1>5, <2>1, <2>3
  <2>5. IsFiniteSet(T)
    BY <1>1, FS_Subset
  <2>6. \A x \in T : counted[x] \in Nat
    BY <1>1
  <2> QED BY <2>4, <2>5, <2>6, SumIsZero
<1> HIDE DEF r, Kept
<1>6. \A c \in Components : r[c] <= counted[c]
  BY <1>1, <1>4
<1>7. (\A i \in Items \ Components : ~(r[i] > 0)) => \A c \in Components : r[c] = counted[c]
  BY <1>4, <1>5
<1>8. swap = {} => \A c \in Components : r[c] = counted[c]
  BY <1>4
<1> QED BY <1>4, <1>6, <1>7 DEF r

\* a request that loaded the current order writes the order it computed
LEMMA ColumnsOfCurrent ==
  ASSUME wo \in OrderRow, NEW n \in OrderRow, n.docstatus = wo.docstatus
  PROVE  Columns(wo, n) = n
<1>1. [c \in Components |-> IF n.consumed[c] = wo.consumed[c] THEN wo.consumed[c]
                           ELSE n.consumed[c]] = n.consumed
  BY DEF OrderRow, Counts
<1>2. [c \in Components |-> IF n.staged[c] = wo.staged[c] THEN wo.staged[c]
                           ELSE n.staged[c]] = n.staged
  BY DEF OrderRow, Counts
<1> DEFINE m == Columns(wo, n)
<1>3. /\ m.docstatus = n.docstatus /\ m.status = n.status /\ m.produced = n.produced
      /\ m.transferred = n.transferred /\ m.consumed = n.consumed /\ m.staged = n.staged
  BY <1>1, <1>2 DEF Columns
<1>4. m = [docstatus |-> m.docstatus, status |-> m.status, produced |-> m.produced,
           transferred |-> m.transferred, consumed |-> m.consumed, staged |-> m.staged]
  BY DEF Columns
<1> HIDE DEF m
<1>5. m = n
  BY <1>3, <1>4 DEF OrderRow
<1> QED BY <1>5 DEF m

-----------------------------------------------------------------------------
(* The inductive invariant.                                                 *)

EntryWritten(en, e) ==
  IF en[e].docstatus = "Absent" THEN \A i \in Items : en[e].rows[i] = 0
  ELSE
    /\ en[e].purpose \in Purposes /\ en[e].qty > 0
    /\ en[e].purpose = "Transfer" => \A c \in Components : en[e].rows[c] = PerUnit[c] * en[e].qty
    /\ en[e].purpose = "Consumption" => \E c \in Components : en[e].rows[c] > 0

\* the order o and the entries en, whoever is at work
Sound(o, en) ==
  /\ o \in OrderRow /\ en \in [Entries -> EntryRow]
  /\ \A c \in Components : o.consumed[c] <= Required(c)
  /\ o.produced <= Allowed
  /\ \A e \in Entries : EntryWritten(en, e)
  /\ o.docstatus = "Draft" =>
       /\ \A e \in Entries : en[e].docstatus = "Absent"
       /\ o.produced = 0 /\ o.transferred = 0 /\ \A c \in Components : o.consumed[c] = 0
  /\ o.docstatus = "Submitted" /\ o.status # "Stopped" => o.status = Recomputed(o)

\* a request t drives an entry of the order it loaded, which is the current one
Busy(t, o, en) ==
  /\ t \in Drive /\ t.loaded = o /\ o.docstatus = "Submitted"
  /\ en[t.entry].docstatus # "Absent"
  /\ t.posted => en[t.entry].docstatus = "Submitted"
  /\ en[t.entry].purpose = "Manufacture" => en[t.entry].qty <= Allowed - o.produced
  /\ \A c \in Components :
       /\ t.counted[c] = IF en[t.entry].purpose = "Transfer" THEN PerUnit[c] * en[t.entry].qty
                         ELSE Fewer(PerUnit[c] * en[t.entry].qty,
                                    NotBelow0(Required(c) - o.consumed[c]))
       /\ en[t.entry].rows[c] <= t.counted[c]
       /\ Plain(en, t.entry) => en[t.entry].rows[c] = t.counted[c]

IInv ==
  /\ Sound(wo, entry)
  /\ turn \in [Crew -> Drive \cup {Resting}]
  /\ \A v \in Crew : turn[v] # Resting => Busy(turn[v], wo, entry)
  /\ orphans = {} => /\ Agreement(wo, entry, InFlight)
                     /\ wo.docstatus = "Cancelled" => NoStock

LEMMA InFlightIs ==
  ASSUME NEW w, Crew = {w}
  PROVE  /\ turn[w] = Resting \/ ~turn[w].posted => InFlight = {}
         /\ turn[w] # Resting /\ turn[w].posted => InFlight = {turn[w].entry}
BY DEF InFlight

LEMMA InFlightNext ==
  ASSUME NEW w, Crew = {w}
  PROVE  /\ turn'[w] = Resting \/ ~turn'[w].posted => InFlight' = {}
         /\ turn'[w] # Resting /\ turn'[w].posted => InFlight' = {turn'[w].entry}
BY DEF InFlight

LEMMA IInvInit == OInit => IInv
<1> SUFFICES ASSUME OInit PROVE IInv
  OBVIOUS
<1>1. Zero \in Counts /\ \A c \in Components : Zero[c] = 0
  BY DEF Zero, Counts
<1>2. \A c \in Components : PerUnit[c] \in Nat /\ Qty \in Nat /\ Allowed \in Nat /\ Required(c) \in Nat
  BY WorkOrderAssumption DEF Required
<1>3. wo \in OrderRow /\ entry \in [Entries -> EntryRow]
  BY <1>1 DEF OInit, OrderRow, EntryRow
<1>4. \A e \in Entries : entry[e].docstatus = "Absent" /\ \A i \in Items : entry[e].rows[i] = 0
  BY DEF OInit
<1>5. /\ wo.docstatus = "Draft" /\ wo.produced = 0 /\ wo.transferred = 0
      /\ \A c \in Components : wo.consumed[c] = 0 /\ wo.staged[c] = 0
  BY <1>1 DEF OInit
<1>6. Sound(wo, entry)
  BY <1>2, <1>3, <1>4, <1>5, WorkOrderAssumption DEF Sound, EntryWritten
<1>7. Agreement(wo, entry, InFlight)
  <2>1. \A p : ToldOf(entry, InFlight, p) = {}
    BY <1>4 DEF ToldOf
  <2>2. Consuming(entry, InFlight) = {}
    BY <2>1 DEF Consuming
  <2>3. \A f : SumFunctionOnSet(f, {}) = 0
    BY SumOfEmpty
  <2>4. \A p : SumFunctionOnSet(Qtys(entry), ToldOf(entry, InFlight, p)) = 0
    BY <2>1, <2>3
  <2>5. \A c : SumFunctionOnSet(RowsFor(entry, c), Consuming(entry, InFlight)) = 0
    BY <2>2, <2>3
  <2>6. \A c \in Components : PerUnit[c] * 0 = 0
    BY <1>2
  <2> QED BY <1>5, <2>4, <2>5, <2>6 DEF Agreement
<1> QED BY <1>6, <1>7 DEF OInit, IInv

-----------------------------------------------------------------------------
(* Every step of one worker keeps it.                                       *)

\* requests that only change the stage and the status of the order
LEMMA OrderStep ==
  ASSUME NEW w, Crew = {w}, IInv, turn[w] = Resting, UNCHANGED <<entry, turn, orphans>>,
         wo' \in OrderRow, wo'.docstatus # "Draft",
         wo'.produced = wo.produced, wo'.transferred = wo.transferred,
         wo'.consumed = wo.consumed, wo'.staged = wo.staged,
         wo'.docstatus = "Submitted" /\ wo'.status # "Stopped" => wo'.status = Recomputed(wo),
         wo'.docstatus = "Cancelled" /\ orphans = {} => NoStock
  PROVE  IInv'
<1>1. Sound(wo', entry')
  <2>1. Recomputed(wo') = Recomputed(wo)
    BY RecomputedFrom
  <2> QED BY <2>1 DEF IInv, Sound
<1>2. ASSUME orphans = {} PROVE Agreement(wo', entry', InFlight')
  <2>1. InFlight' = InFlight
    BY InFlightIs, InFlightNext
  <2> QED BY <1>2, <2>1 DEF IInv, Agreement
<1>3. NoStock => NoStock'
  BY DEF NoStock
<1> QED BY <1>1, <1>2, <1>3 DEF IInv

LEMMA SubmitOrderStep ==
  ASSUME NEW w, Crew = {w}, IInv, SubmitWorkOrder(w)
  PROVE  IInv'
<1>1. /\ wo \in OrderRow /\ wo.produced = 0 /\ wo.transferred = 0
      /\ \A c \in Components : wo.consumed[c] = 0
  BY DEF SubmitWorkOrder, IInv, Sound
<1>2. Recomputed(wo) = "Not Started"
  BY <1>1, WorkOrderAssumption DEF Recomputed, Started
<1>3. /\ wo' \in OrderRow /\ wo'.docstatus = "Submitted" /\ wo'.status = "Not Started"
      /\ wo'.produced = wo.produced /\ wo'.transferred = wo.transferred
      /\ wo'.consumed = wo.consumed /\ wo'.staged = wo.staged
  BY <1>1 DEF SubmitWorkOrder, OrderRow
<1> QED BY <1>2, <1>3, OrderStep DEF SubmitWorkOrder

\* nothing is posted for an order that has not started
LEMMA UnstartedHasNoStock ==
  ASSUME NEW w, Crew = {w}, IInv, turn[w] = Resting, orphans = {}, ~Started(wo)
  PROVE  NoStock
<1> SUFFICES ASSUME NEW x \in Entries, entry[x].docstatus = "Submitted" PROVE FALSE
  BY DEF NoStock
<1>1. /\ entry \in [Entries -> EntryRow] /\ EntryWritten(entry, x) /\ InFlight = {}
      /\ Agreement(wo, entry, {}) /\ wo \in OrderRow
  BY InFlightIs DEF IInv, Sound
<1>2. /\ wo.produced = 0 /\ wo.transferred = 0
      /\ \A c \in Components : wo.consumed[c] = 0
  <2>1. /\ wo.produced \in Nat /\ wo.transferred \in Nat
        /\ \A c \in Components : wo.consumed[c] \in Nat
    BY <1>1 DEF OrderRow, Counts
  <2> QED BY <2>1 DEF Started
<1>3. entry[x].purpose \in Purposes /\ entry[x].qty > 0
  BY <1>1 DEF EntryWritten
<1>4. ASSUME NEW p \in Purposes, entry[x].purpose = p,
             SumFunctionOnSet(Qtys(entry), ToldOf(entry, {}, p)) = 0
      PROVE  FALSE
  <2>1. PICK T \in SUBSET Entries : T = ToldOf(entry, {}, p) /\ IsFiniteSet(T)
    BY Finite
  <2>2. x \in T
    BY <1>4, <2>1 DEF ToldOf
  <2>3. \A e \in T : Qtys(entry)[e] \in Nat
    BY <1>1 DEF Qtys, EntryRow
  <2>4. Qtys(entry)[x] = 0
    BY <1>4, <2>1, <2>2, <2>3, SumIsZero
  <2> QED BY <2>4, <1>3 DEF Qtys
<1>5. ASSUME entry[x].purpose = "Consumption" PROVE FALSE
  <2>1. PICK c \in Components : entry[x].rows[c] > 0
    BY <1>1, <1>5 DEF EntryWritten
  <2>2. PICK T \in SUBSET Entries : T = Consuming(entry, {}) /\ IsFiniteSet(T)
    BY Finite
  <2>3. x \in T
    BY <1>5, <2>2 DEF Consuming, ToldOf
  <2>4. \A e \in T : RowsFor(entry, c)[e] \in Nat
    BY <1>1 DEF RowsFor, EntryRow, Items
  <2>5. SumFunctionOnSet(RowsFor(entry, c), T) \in Nat
    BY <1>1, SumTypes
  <2>6. SumFunctionOnSet(RowsFor(entry, c), T) = 0
    BY <1>1, <1>2, <2>2, <2>5 DEF Agreement
  <2>7. RowsFor(entry, c)[x] = 0
    BY <2>2, <2>3, <2>4, <2>6, SumIsZero
  <2> QED BY <2>1, <2>7 DEF RowsFor
<1> QED BY <1>1, <1>2, <1>3, <1>4, <1>5 DEF Agreement, Purposes

LEMMA CancelOrderStep ==
  ASSUME NEW w, Crew = {w}, IInv, CancelWorkOrder(w)
  PROVE  IInv'
<1>1. wo \in OrderRow
  BY DEF IInv, Sound
<1>2. /\ wo' \in OrderRow /\ wo'.docstatus = "Cancelled"
      /\ wo'.produced = wo.produced /\ wo'.transferred = wo.transferred
      /\ wo'.consumed = wo.consumed /\ wo'.staged = wo.staged
  BY <1>1 DEF CancelWorkOrder, OrderRow
<1> QED BY <1>2, OrderStep, UnstartedHasNoStock DEF CancelWorkOrder

LEMMA StopStep ==
  ASSUME NEW w, Crew = {w}, IInv, StopOrder(w) \/ ResumeOrder(w)
  PROVE  IInv'
<1>1. wo \in OrderRow /\ wo.docstatus = "Submitted"
  BY DEF IInv, Sound, StopOrder, ResumeOrder
<1>2. PICK s \in {"Stopped", Recomputed(wo)} : wo' = [wo EXCEPT !.status = s]
  BY DEF StopOrder, ResumeOrder
<1>3. s \in {"Not Started", "In Process", "Completed", "Stopped"}
  BY RecomputedStatus
<1>4. /\ wo' \in OrderRow /\ wo'.docstatus = "Submitted" /\ wo'.status = s
      /\ wo'.produced = wo.produced /\ wo'.transferred = wo.transferred
      /\ wo'.consumed = wo.consumed /\ wo'.staged = wo.staged
  BY <1>1, <1>2, <1>3 DEF OrderRow
<1> QED BY <1>4, OrderStep DEF StopOrder, ResumeOrder

\* A request commits the draft of an entry.
LEMMA DraftStep ==
  ASSUME NEW w, Crew = {w}, IInv, turn[w] = Resting, wo.docstatus = "Submitted",
         NEW x \in Entries, NEW p \in Purposes, NEW q \in 1 .. Allowed,
         NEW rows \in [Items -> Nat], NEW counted \in Counts,
         Draft(w, x, p, q, rows, counted),
         p = "Manufacture" => q <= Allowed - wo.produced,
         p = "Transfer" => \A c \in Components : rows[c] = PerUnit[c] * q,
         p = "Consumption" => \E c \in Components : rows[c] > 0,
         \A c \in Components :
           /\ counted[c] = IF p = "Transfer" THEN PerUnit[c] * q
                           ELSE Fewer(PerUnit[c] * q, NotBelow0(Required(c) - wo.consumed[c]))
           /\ rows[c] <= counted[c],
         (\A i \in Items \ Components : ~(rows[i] > 0))
           => \A c \in Components : rows[c] = counted[c]
  PROVE  IInv'
<1> DEFINE r == [purpose |-> p, docstatus |-> "Draft", qty |-> q, rows |-> rows]
           t == [entry |-> x, loaded |-> wo, counted |-> counted, posted |-> FALSE]
<1>1. /\ entry' = [entry EXCEPT ![x] = r] /\ turn' = [turn EXCEPT ![w] = t]
      /\ wo' = wo /\ orphans' = orphans /\ entry[x].docstatus = "Absent"
  BY DEF Draft
<1>2. /\ wo \in OrderRow /\ entry \in [Entries -> EntryRow] /\ Sound(wo, entry)
      /\ turn \in [Crew -> Drive \cup {Resting}]
  BY DEF IInv, Sound
<1>3. q \in Nat /\ q > 0
  BY WorkOrderAssumption
<1>4. /\ r \in EntryRow /\ r.purpose = p /\ r.docstatus = "Draft" /\ r.qty = q /\ r.rows = rows
  BY DEF EntryRow
<1>5. /\ t \in Drive /\ t.entry = x /\ t.loaded = wo /\ t.counted = counted /\ ~t.posted
  BY <1>2 DEF Drive
<1> HIDE DEF r, t
<1>6. /\ entry' \in [Entries -> EntryRow] /\ entry'[x] = r
      /\ \A e \in Entries : e # x => entry'[e] = entry[e]
      /\ turn' \in [Crew -> Drive \cup {Resting}] /\ turn'[w] = t
  BY <1>1, <1>2, <1>4, <1>5
<1>7. Sound(wo', entry')
  <2>1. ASSUME NEW e \in Entries PROVE EntryWritten(entry', e)
    <3>1. CASE e = x
      BY <3>1, <1>4, <1>6 DEF EntryWritten
    <3>2. CASE e # x
      <4>1. EntryWritten(entry, e)
        BY <1>2 DEF Sound
      <4> QED BY <3>2, <4>1, <1>6 DEF EntryWritten
    <3> QED BY <3>1, <3>2
  <2> QED BY <2>1, <1>1, <1>2, <1>6 DEF Sound
<1>8. Busy(turn'[w], wo', entry')
  BY <1>1, <1>4, <1>5, <1>6 DEF Busy, Plain
<1>9. ASSUME orphans = {} PROVE Agreement(wo', entry', InFlight')
  <2>1. InFlight' = {} /\ InFlight = {}
    BY <1>5, <1>6, InFlightIs, InFlightNext
  <2>2. \A y : ToldOf(entry', {}, y) = ToldOf(entry, {}, y)
    BY <1>1, <1>4 DEF ToldOf
  <2>3. \A y : \A e \in Entries : e \in ToldOf(entry, {}, y) => e # x
    BY <1>1 DEF ToldOf
  <2>4. (\A e \in Entries : Plain(entry', e)) => (\A e \in Entries : Plain(entry, e))
    <3> SUFFICES ASSUME \A e \in Entries : Plain(entry', e), NEW e \in Entries
                 PROVE  Plain(entry, e)
      OBVIOUS
    <3>1. CASE e = x
      <4>1. EntryWritten(entry, x)
        BY <1>2 DEF Sound
      <4>2. \A i \in Items \ Components : entry[x].rows[i] = 0
        BY <4>1, <1>1 DEF EntryWritten
      <4> QED BY <3>1, <4>2 DEF Plain
    <3>2. CASE e # x
      BY <3>2, <1>6 DEF Plain
    <3> QED BY <3>1, <3>2
  <2>5. Agreement(wo, entry, {})
    BY <1>9, <2>1 DEF IInv
  <2>6. Agreement(wo, entry', {})
    BY <1>6, <2>2, <2>3, <2>4, <2>5, AgreementSame
  <2> QED BY <2>1, <2>6, <1>1
<1>10. NoStock => NoStock'
  BY <1>4, <1>6 DEF NoStock
<1> QED BY <1>1, <1>6, <1>7, <1>8, <1>9 DEF IInv

LEMMA NeedFacts ==
  ASSUME wo \in OrderRow, NEW q \in 1 .. Allowed
  PROVE  /\ Need(q) \in Counts
         /\ \A c \in Components :
              Need(q)[c] = Fewer(PerUnit[c] * q, NotBelow0(Required(c) - wo.consumed[c]))
<1>1. \A c \in Components : /\ wo.consumed[c] \in Nat /\ Required(c) \in Nat
                            /\ PerUnit[c] * q \in Nat
  <2>1. \A c \in Components : wo.consumed[c] \in Nat
    BY DEF OrderRow, Counts
  <2>2. \A c \in Components : PerUnit[c] \in Nat
    BY WorkOrderAssumption
  <2>3. q \in Nat /\ Qty \in Nat
    BY WorkOrderAssumption
  <2> QED BY <2>1, <2>2, <2>3 DEF Required
<1>2. \A c \in Components : Fewer(PerUnit[c] * q, NotBelow0(Required(c) - wo.consumed[c])) \in Nat
  BY <1>1 DEF Fewer, NotBelow0
<1> QED BY <1>2 DEF Need, Counts

LEMMA FinishStep ==
  ASSUME NEW w, Crew = {w}, IInv, NEW x \in Entries, NEW q \in 1 .. Allowed,
         NEW swap \in SUBSET DOMAIN Substitutes, BeginFinish(w, x, q, swap)
  PROVE  IInv'
<1>1. PICK counted : counted = Need(q)
  OBVIOUS
<1>2. PICK rows : rows = RowsOf(counted, swap)
  OBVIOUS
<1>3. wo \in OrderRow
  BY DEF IInv, Sound
<1>4. /\ counted \in Counts
      /\ \A c \in Components :
           counted[c] = Fewer(PerUnit[c] * q, NotBelow0(Required(c) - wo.consumed[c]))
  BY <1>1, <1>3, NeedFacts
<1>5. /\ rows \in [Items -> Nat] /\ \A c \in Components : rows[c] <= counted[c]
      /\ (\A i \in Items \ Components : ~(rows[i] > 0))
           => \A c \in Components : rows[c] = counted[c]
  BY <1>2, <1>4, RowsOfFacts
<1>6. /\ turn[w] = Resting /\ wo.docstatus = "Submitted" /\ q <= Allowed - wo.produced
      /\ Draft(w, x, "Manufacture", q, rows, counted)
  BY <1>1, <1>2 DEF BeginFinish
<1>7. "Manufacture" \in Purposes
  BY DEF Purposes
<1> QED BY <1>4, <1>5, <1>6, <1>7, DraftStep

LEMMA ConsumeStep ==
  ASSUME NEW w, Crew = {w}, IInv, NEW x \in Entries, NEW q \in 1 .. Allowed, BeginConsume(w, x, q)
  PROVE  IInv'
<1>1. PICK counted : counted = Need(q)
  OBVIOUS
<1>2. PICK rows : rows = RowsOf(counted, {})
  OBVIOUS
<1>3. wo \in OrderRow
  BY DEF IInv, Sound
<1>4. /\ counted \in Counts
      /\ \A c \in Components :
           counted[c] = Fewer(PerUnit[c] * q, NotBelow0(Required(c) - wo.consumed[c]))
  BY <1>1, <1>3, NeedFacts
<1>5. /\ rows \in [Items -> Nat] /\ \A c \in Components : rows[c] = counted[c]
  BY <1>2, <1>4, RowsOfFacts
<1>6. /\ turn[w] = Resting /\ wo.docstatus = "Submitted" /\ counted # Zero
      /\ Draft(w, x, "Consumption", q, rows, counted)
  BY <1>1, <1>2 DEF BeginConsume
<1>7. \E c \in Components : rows[c] > 0
  <2>1. PICK c \in Components : counted[c] # 0
    BY <1>4, <1>6 DEF Zero, Counts
  <2> QED BY <2>1, <1>4, <1>5 DEF Counts
<1>8. /\ "Consumption" \in Purposes /\ "Consumption" # "Manufacture" /\ "Consumption" # "Transfer"
      /\ \A c \in Components : rows[c] <= counted[c]
  BY <1>4, <1>5 DEF Purposes, Counts
<1> QED BY <1>4, <1>5, <1>6, <1>7, <1>8, DraftStep

LEMMA TransferStep ==
  ASSUME NEW w, Crew = {w}, IInv, NEW x \in Entries, NEW q \in 1 .. Allowed, BeginTransfer(w, x, q)
  PROVE  IInv'
<1>1. PICK counted : counted = [c \in Components |-> PerUnit[c] * q]
  OBVIOUS
<1>2. PICK rows : rows = RowsOf(counted, {})
  OBVIOUS
<1>4. /\ counted \in Counts /\ \A c \in Components : counted[c] = PerUnit[c] * q
  BY <1>1, WorkOrderAssumption DEF Counts
<1>5. /\ rows \in [Items -> Nat] /\ \A c \in Components : rows[c] = counted[c]
  BY <1>2, <1>4, RowsOfFacts
<1>6. /\ turn[w] = Resting /\ wo.docstatus = "Submitted"
      /\ Draft(w, x, "Transfer", q, rows, counted)
  BY <1>1, <1>2 DEF BeginTransfer
<1>8. /\ "Transfer" \in Purposes /\ "Transfer" # "Manufacture" /\ "Consumption" # "Transfer"
      /\ \A c \in Components : rows[c] <= counted[c] /\ rows[c] = PerUnit[c] * q
  BY <1>4, <1>5 DEF Purposes, Counts
<1> QED BY <1>4, <1>5, <1>6, <1>8, DraftStep

\* Submitting the entry of a request: it is in flight until the order is told.
LEMMA PostStep ==
  ASSUME NEW w, Crew = {w}, IInv, PostEntry(w)
  PROVE  IInv'
<1>0. PICK t, x : t = turn[w] /\ x = t.entry
  OBVIOUS
<1>1. /\ turn \in [Crew -> Drive \cup {Resting}] /\ t = turn[w] /\ t # Resting /\ Busy(t, wo, entry)
      /\ Sound(wo, entry) /\ entry \in [Entries -> EntryRow]
  BY <1>0 DEF IInv, Sound, PostEntry
<1>2. t \in Drive /\ x \in Entries /\ ~t.posted /\ entry[x].docstatus = "Draft"
  BY <1>0, <1>1 DEF PostEntry, Drive
<1>3. /\ wo' = wo /\ orphans' = orphans
      /\ entry' = [entry EXCEPT ![x] = [entry[x] EXCEPT !.docstatus = "Submitted"]]
      /\ turn' = [turn EXCEPT ![w] = [t EXCEPT !.posted = TRUE]]
  BY <1>0 DEF PostEntry
<1> DEFINE r == [entry[x] EXCEPT !.docstatus = "Submitted"]
           k == [t EXCEPT !.posted = TRUE]
<1>4. /\ r \in EntryRow /\ r.docstatus = "Submitted"
      /\ r.purpose = entry[x].purpose /\ r.qty = entry[x].qty /\ r.rows = entry[x].rows
  BY <1>1, <1>2 DEF EntryRow
<1>5. /\ k \in Drive /\ k.entry = x /\ k.loaded = t.loaded /\ k.counted = t.counted /\ k.posted
  BY <1>0, <1>2 DEF Drive
<1> HIDE DEF r, k
<1>6. /\ entry' \in [Entries -> EntryRow] /\ entry'[x] = r
      /\ \A e \in Entries : e # x => entry'[e] = entry[e]
      /\ turn' \in [Crew -> Drive \cup {Resting}] /\ turn'[w] = k
  BY <1>1, <1>2, <1>3, <1>4, <1>5 DEF r, k
<1>7. k # Resting
  BY <1>5, RestingAssumption
<1>8. Sound(wo', entry')
  <2>1. ASSUME NEW e \in Entries PROVE EntryWritten(entry', e)
    <3>1. EntryWritten(entry, e)
      BY <1>1 DEF Sound
    <3>2. CASE e = x
      BY <3>1, <1>2, <1>4, <1>6 DEF EntryWritten
    <3>3. CASE e # x
      BY <3>1, <3>3, <1>6 DEF EntryWritten
    <3> QED BY <3>2, <3>3
  <2>2. wo.docstatus # "Draft"
    BY <1>1 DEF Busy
  <2> QED BY <2>1, <2>2, <1>1, <1>3, <1>6 DEF Sound
<1>9. Busy(turn'[w], wo', entry')
  <2>1. Busy(t, wo, entry)
    BY <1>1
  <2>2. \A i \in Components : entry'[x].rows[i] = entry[x].rows[i]
    BY <1>4, <1>6
  <2>3. Plain(entry', x) = Plain(entry, x)
    BY <1>4, <1>6 DEF Plain
  <2>4. /\ entry'[x].purpose = entry[x].purpose /\ entry'[x].qty = entry[x].qty
        /\ entry'[x].docstatus = "Submitted"
    BY <1>4, <1>6
  <2>5. Busy(k, wo, entry')
    BY <2>1, <2>2, <2>3, <2>4, <1>0, <1>5 DEF Busy
  <2> QED BY <2>5, <1>3, <1>6
<1>10. ASSUME orphans = {} PROVE Agreement(wo', entry', InFlight')
  <2>1. InFlight' = {x} /\ InFlight = {}
    BY <1>1, <1>2, <1>5, <1>6, <1>7, InFlightIs, InFlightNext
  <2>2. \A y : ToldOf(entry', {x}, y) = ToldOf(entry, {}, y)
    BY <1>2, <1>6 DEF ToldOf
  <2>3. \A y : \A e \in Entries : e \in ToldOf(entry, {}, y) => e # x
    BY <1>2 DEF ToldOf
  <2>4. (\A e \in Entries : Plain(entry', e)) => (\A e \in Entries : Plain(entry, e))
    BY <1>4, <1>6 DEF Plain
  <2>5. Agreement(wo, entry, {})
    BY <1>10, <2>1 DEF IInv
  <2>6. Agreement(wo, entry', {x})
    <3>1. PICK fl, fm : fl = {} /\ fm = {x}
      OBVIOUS
    <3>2. Agreement(wo, entry', fm)
      <4>1. \A y : ToldOf(entry', fm, y) = ToldOf(entry, fl, y)
        BY <3>1, <2>2
      <4>2. \A y : \A e \in Entries : e \in ToldOf(entry, fl, y) =>
              entry'[e].qty = entry[e].qty
                /\ \A c \in Components : entry'[e].rows[c] = entry[e].rows[c]
        BY <3>1, <2>3, <1>6
      <4>3. Agreement(wo, entry, fl)
        BY <3>1, <2>5
      <4> QED BY <4>1, <4>2, <4>3, <2>4, AgreementSame
    <3> QED BY <3>1, <3>2
  <2> QED BY <2>1, <2>6, <1>3
<1>11. wo'.docstatus # "Cancelled"
  BY <1>1, <1>3 DEF Busy
<1> QED BY <1>3, <1>6, <1>8, <1>9, <1>10, <1>11 DEF IInv

\* A refused submit leaves the draft behind.
LEMMA RefuseStep ==
  ASSUME NEW w, Crew = {w}, IInv, RefuseEntry(w)
  PROVE  IInv'
<1>1. /\ turn' \in [Crew -> Drive \cup {Resting}] /\ turn'[w] = Resting
      /\ UNCHANGED <<wo, entry, orphans>>
  BY DEF IInv, RefuseEntry
<1>2. InFlight' = {} /\ InFlight = {}
  BY InFlightIs, InFlightNext DEF RefuseEntry
<1>3. NoStock' = NoStock
  BY <1>1 DEF NoStock
<1> QED BY <1>1, <1>2, <1>3 DEF IInv

LEMMA DieStep ==
  ASSUME NEW w, Crew = {w}, IInv, DieBetween(w)
  PROVE  IInv'
<1>1. /\ turn' \in [Crew -> Drive \cup {Resting}] /\ turn'[w] = Resting
      /\ UNCHANGED <<wo, entry>> /\ orphans' # {}
  BY DEF IInv, DieBetween
<1> QED BY <1>1 DEF IInv

\* A draft submitted by hand is an orphan.
LEMMA ByHandStep ==
  ASSUME NEW w, Crew = {w}, IInv, NEW x \in Entries, SubmitByHand(w, x)
  PROVE  IInv'
<1>1. /\ turn' = turn /\ wo' = wo /\ orphans' # {} /\ turn[w] = Resting
      /\ entry' = [entry EXCEPT ![x].docstatus = "Submitted"] /\ entry[x].docstatus = "Draft"
  BY DEF SubmitByHand
<1>2. Sound(wo, entry) /\ entry \in [Entries -> EntryRow]
  BY DEF IInv, Sound
<1> DEFINE r == [entry[x] EXCEPT !.docstatus = "Submitted"]
<1>4. /\ r \in EntryRow /\ r.docstatus = "Submitted"
      /\ r.purpose = entry[x].purpose /\ r.qty = entry[x].qty /\ r.rows = entry[x].rows
  BY <1>2 DEF EntryRow
<1>5. entry' = [entry EXCEPT ![x] = r]
  BY <1>1
<1> HIDE DEF r
<1>6. /\ entry' \in [Entries -> EntryRow] /\ entry'[x] = r
      /\ \A e \in Entries : e # x => entry'[e] = entry[e]
  BY <1>2, <1>4, <1>5
<1>8. Sound(wo', entry')
  <2>1. ASSUME NEW e \in Entries PROVE EntryWritten(entry', e)
    <3>1. EntryWritten(entry, e)
      BY <1>2 DEF Sound
    <3>2. CASE e = x
      BY <3>1, <1>1 DEF EntryWritten
    <3>3. CASE e # x
      BY <3>1, <3>3, <1>6 DEF EntryWritten
    <3> QED BY <3>2, <3>3
  <2>2. wo.docstatus # "Draft"
    BY <1>1, <1>2 DEF Sound
  <2> QED BY <2>1, <1>1, <1>2, <1>6 DEF Sound
<1> QED BY <1>1, <1>8 DEF IInv

\* What telling the order of the posted entry x writes.
LEMMA AdvanceWrites ==
  ASSUME NEW w, Crew = {w}, IInv, Advance(w)
  PROVE  \E t, x, p, q, m :
         /\ t = turn[w] /\ x = t.entry /\ p = entry[x].purpose /\ q = entry[x].qty
         /\ t # Resting /\ t.posted /\ x \in Entries /\ Busy(t, wo, entry)
         /\ Sound(wo, entry) /\ EntryWritten(entry, x)
         /\ entry \in [Entries -> EntryRow] /\ wo \in OrderRow
         /\ entry[x].docstatus = "Submitted" /\ wo.docstatus = "Submitted"
         /\ q \in Nat /\ q > 0 /\ p \in Purposes
         /\ wo.produced \in Nat /\ wo.transferred \in Nat
         /\ \A c \in Components :
              /\ wo.consumed[c] \in Nat /\ wo.staged[c] \in Nat /\ t.counted[c] \in Nat
              /\ PerUnit[c] \in Nat /\ Required(c) \in Nat
         /\ m = wo' /\ entry' = entry /\ orphans' = orphans
         /\ turn' \in [Crew -> Drive \cup {Resting}] /\ turn'[w] = Resting
         /\ m \in OrderRow /\ m.docstatus = "Submitted"
         /\ m.produced = IF p = "Manufacture" THEN wo.produced + q ELSE wo.produced
         /\ m.transferred = IF p = "Transfer" THEN wo.transferred + q ELSE wo.transferred
         /\ \A c \in Components :
              /\ m.consumed[c] = IF p = "Transfer" THEN wo.consumed[c]
                                 ELSE wo.consumed[c] + t.counted[c]
              /\ m.staged[c] = IF p = "Transfer" THEN wo.staged[c] + t.counted[c]
                               ELSE wo.staged[c]
         /\ m.status # "Stopped" => m.status = Recomputed(m)
<1>0. PICK t, x, p, q :
        t = turn[w] /\ x = t.entry /\ p = entry[x].purpose /\ q = entry[x].qty
  OBVIOUS
<1> DEFINE n == Counted(wo, p, q, t.counted)
<1>1. /\ turn \in [Crew -> Drive \cup {Resting}] /\ t = turn[w] /\ t # Resting /\ t.posted
      /\ Busy(t, wo, entry) /\ Sound(wo, entry)
      /\ entry \in [Entries -> EntryRow] /\ wo \in OrderRow
  BY <1>0 DEF IInv, Sound, Advance
<1>2. /\ t \in Drive /\ x \in Entries /\ t.loaded = wo /\ t.counted \in Counts
      /\ entry[x].docstatus = "Submitted" /\ wo.docstatus = "Submitted"
      /\ EntryWritten(entry, x)
  BY <1>0, <1>1 DEF Busy, Drive, Sound
<1>3. /\ q \in Nat /\ q > 0 /\ p \in Purposes /\ \A c \in Components : t.counted[c] \in Nat
  BY <1>0, <1>1, <1>2 DEF EntryRow, EntryWritten, Counts
<1>4. PICK s :
        /\ s \in {"Draft", "Not Started", "In Process", "Completed", "Stopped", "Cancelled"}
        /\ Added(wo, p, q, t.counted) = [n EXCEPT !.status = s]
        /\ p # "Transfer" => s = Recomputed(n)
        /\ p = "Transfer" => s = IF n.status = "Not Started" THEN "In Process" ELSE n.status
  <2>1. n \in OrderRow
    BY <1>1, <1>3, CountedFields DEF Counts1
  <2>2. n.status \in {"Draft", "Not Started", "In Process", "Completed", "Stopped", "Cancelled"}
    BY <2>1 DEF OrderRow
  <2> HIDE DEF n
  <2>3. Added(wo, p, q, t.counted) =
          [n EXCEPT !.status = IF p # "Transfer" THEN Recomputed(n)
                               ELSE IF @ = "Not Started" THEN "In Process" ELSE @]
    BY DEF Added, n
  <2>4. Recomputed(n) \in {"Completed", "In Process", "Not Started"}
    BY RecomputedStatus
  <2> QED BY <2>1, <2>2, <2>3, <2>4
<1>5. Counts1(n, wo, p, q, t.counted) /\ n.status = wo.status
  BY <1>1, <1>3, CountedFields
<1> DEFINE m == [n EXCEPT !.status = s]
<1>6. Counts1(m, wo, p, q, t.counted) /\ m.status = s /\ Recomputed(m) = Recomputed(n)
  <2>1. s \in {"Draft", "Not Started", "In Process", "Completed", "Stopped", "Cancelled"}
    BY <1>4
  <2> HIDE DEF n
  <2>a. /\ m \in OrderRow /\ m.status = s /\ m.docstatus = n.docstatus
        /\ m.produced = n.produced /\ m.transferred = n.transferred
        /\ m.consumed = n.consumed /\ m.staged = n.staged
    <3>1. n \in OrderRow
      BY <1>5 DEF Counts1
    <3> QED BY <2>1, <3>1 DEF OrderRow
  <2> HIDE DEF m
  <2> QED BY <1>5, <2>a, WithStatus
<1>7. wo' = m /\ entry' = entry /\ orphans' = orphans /\ turn' = [turn EXCEPT ![w] = Resting]
  <2>1. wo' = Columns(wo, Added(wo, p, q, t.counted))
    BY <1>0, <1>2 DEF Advance
  <2>2. m \in OrderRow /\ m.docstatus = wo.docstatus
    BY <1>6 DEF Counts1
  <2> HIDE DEF m, n
  <2>3. Columns(wo, m) = m
    BY <2>2, <1>1, ColumnsOfCurrent
  <2>4. wo' = m
    BY <2>1, <2>3, <1>4 DEF m
  <2> QED BY <2>4 DEF Advance
<1> HIDE DEF m, n
<1>8. /\ wo.produced \in Nat /\ wo.transferred \in Nat /\ Qty \in Nat \ {0}
      /\ \A c \in Components : /\ wo.consumed[c] \in Nat /\ wo.staged[c] \in Nat
                              /\ PerUnit[c] \in Nat /\ Required(c) \in Nat
  <2>1. /\ wo.produced \in Nat /\ wo.transferred \in Nat
        /\ \A c \in Components : wo.consumed[c] \in Nat /\ wo.staged[c] \in Nat
    BY <1>1 DEF OrderRow, Counts
  <2>2. Qty \in Nat \ {0} /\ \A c \in Components : PerUnit[c] \in Nat
    BY WorkOrderAssumption
  <2> QED BY <2>1, <2>2 DEF Required
<1>9. /\ m \in OrderRow /\ m.docstatus = "Submitted"
      /\ m.produced = IF p = "Manufacture" THEN wo.produced + q ELSE wo.produced
      /\ m.transferred = IF p = "Transfer" THEN wo.transferred + q ELSE wo.transferred
      /\ \A c \in Components :
           /\ m.consumed[c] = IF p = "Transfer" THEN wo.consumed[c]
                              ELSE wo.consumed[c] + t.counted[c]
           /\ m.staged[c] = IF p = "Transfer" THEN wo.staged[c] + t.counted[c]
                            ELSE wo.staged[c]
  BY <1>2, <1>3, <1>6, <1>8 DEF Counts1, NotBelow0
<1>10. ASSUME wo.status # "Stopped" \/ p # "Transfer" PROVE s = Recomputed(m)
  <2>1. CASE p # "Transfer"
    BY <2>1, <1>4, <1>6
  <2>2. CASE p = "Transfer"
    <3>1. wo.status = Recomputed(wo)
      BY <2>2, <1>1, <1>2, <1>10 DEF Sound
    <3>2. Started(m)
      BY <2>2, <1>3, <1>8, <1>9 DEF Started
    <3>3. m.produced = wo.produced
      BY <2>2, <1>9
    <3> QED BY <3>1, <3>2, <3>3, <2>2, <1>4, <1>5 DEF Recomputed
  <2> QED BY <2>1, <2>2
<1>11. m.status # "Stopped" => m.status = Recomputed(m)
  BY <1>4, <1>5, <1>6, <1>10
<1>12. turn' \in [Crew -> Drive \cup {Resting}] /\ turn'[w] = Resting
  BY <1>1, <1>7
<1>13. wo' = m
  BY <1>7
<1> QED BY <1>0, <1>1, <1>2, <1>3, <1>7, <1>8, <1>9, <1>11

\* The order is told about the posted entry.
LEMMA AdvanceStep ==
  ASSUME NEW w, Crew = {w}, IInv, Advance(w)
  PROVE  IInv'
<1>0. PICK t, x, p, q, m :
        /\ t = turn[w] /\ x = t.entry /\ p = entry[x].purpose /\ q = entry[x].qty
        /\ t # Resting /\ t.posted /\ x \in Entries /\ Busy(t, wo, entry)
        /\ Sound(wo, entry) /\ EntryWritten(entry, x)
        /\ entry \in [Entries -> EntryRow] /\ wo \in OrderRow
        /\ entry[x].docstatus = "Submitted" /\ wo.docstatus = "Submitted"
        /\ q \in Nat /\ q > 0 /\ p \in Purposes
        /\ wo.produced \in Nat /\ wo.transferred \in Nat
        /\ \A c \in Components :
             /\ wo.consumed[c] \in Nat /\ wo.staged[c] \in Nat /\ t.counted[c] \in Nat
             /\ PerUnit[c] \in Nat /\ Required(c) \in Nat
        /\ m = wo' /\ entry' = entry /\ orphans' = orphans
        /\ turn' \in [Crew -> Drive \cup {Resting}] /\ turn'[w] = Resting
        /\ m \in OrderRow /\ m.docstatus = "Submitted"
        /\ m.produced = IF p = "Manufacture" THEN wo.produced + q ELSE wo.produced
        /\ m.transferred = IF p = "Transfer" THEN wo.transferred + q ELSE wo.transferred
        /\ \A c \in Components :
             /\ m.consumed[c] = IF p = "Transfer" THEN wo.consumed[c]
                                ELSE wo.consumed[c] + t.counted[c]
             /\ m.staged[c] = IF p = "Transfer" THEN wo.staged[c] + t.counted[c]
                              ELSE wo.staged[c]
        /\ m.status # "Stopped" => m.status = Recomputed(m)
  BY AdvanceWrites
<1>1. Sound(wo', entry')
  <2>1. wo'.docstatus = "Submitted" /\ wo'.status # "Stopped" => wo'.status = Recomputed(wo')
    BY <1>0
  <2>2. \A c \in Components : m.consumed[c] <= Required(c)
    <3> SUFFICES ASSUME NEW c \in Components PROVE m.consumed[c] <= Required(c)
      OBVIOUS
    <3>1. wo.consumed[c] <= Required(c)
      BY <1>0 DEF Sound
    <3>2. p # "Transfer" => t.counted[c] <= Required(c) - wo.consumed[c]
      <4>1. p # "Transfer" => t.counted[c] = Fewer(PerUnit[c] * q, NotBelow0(Required(c) - wo.consumed[c]))
        BY <1>0 DEF Busy
      <4>2. PerUnit[c] * q \in Nat
        BY <1>0
      <4> QED BY <4>1, <3>1, <1>0 DEF Fewer, NotBelow0
    <3> QED BY <3>1, <3>2, <1>0
  <2>3. m.produced <= Allowed
    <3>1. p = "Manufacture" => q <= Allowed - wo.produced
      BY <1>0 DEF Busy
    <3>2. wo.produced <= Allowed
      BY <1>0 DEF Sound
    <3> QED BY <3>1, <3>2, <1>0, WorkOrderAssumption
  <2>4. /\ entry' \in [Entries -> EntryRow] /\ \A e \in Entries : EntryWritten(entry, e)
    BY <1>0 DEF Sound
  <2>5. wo' \in OrderRow /\ wo'.docstatus # "Draft"
    BY <1>0
  <2> QED BY <2>2, <2>3, <1>0 DEF Sound
<1>2. ASSUME orphans = {} PROVE Agreement(wo', entry', InFlight')
  <2>1. InFlight' = {} /\ InFlight = {x}
    BY <1>0, InFlightIs, InFlightNext
  <2>2. Agreement(wo, entry, {x})
    BY <1>2, <2>1 DEF IInv
  <2>3. \A e \in Entries : Qtys(entry)[e] \in Nat
    BY <1>0 DEF Qtys, EntryRow
  <2>4. \A y \in Purposes : SumFunctionOnSet(Qtys(entry), ToldOf(entry, {}, y))
          = SumFunctionOnSet(Qtys(entry), ToldOf(entry, {x}, y)) + (IF p = y THEN q ELSE 0)
    <3>1. Qtys(entry)[x] = q
      BY <1>0 DEF Qtys
    <3>2. PICK f : f = Qtys(entry)
      OBVIOUS
    <3>3. \A y \in Purposes : SumFunctionOnSet(f, ToldOf(entry, {}, y))
            = SumFunctionOnSet(f, ToldOf(entry, {x}, y)) + (IF entry[x].purpose = y THEN f[x] ELSE 0)
      <4>1. \A e \in Entries : f[e] \in Nat
        BY <3>2, <2>3
      <4>2. x \in Entries /\ entry \in [Entries -> EntryRow] /\ entry[x].docstatus = "Submitted"
        BY <1>0
      <4> QED BY ONLY <4>1, <4>2, OneMore
    <3> QED BY <3>1, <3>2, <3>3, <1>0
  <2>5. ASSUME NEW c \in Components
        PROVE  /\ SumFunctionOnSet(RowsFor(entry, c), Consuming(entry, {}))
                    = SumFunctionOnSet(RowsFor(entry, c), Consuming(entry, {x}))
                      + (IF p # "Transfer" THEN entry[x].rows[c] ELSE 0)
               /\ SumFunctionOnSet(RowsFor(entry, c), Consuming(entry, {x})) \in Nat
               /\ entry[x].rows[c] \in Nat
               /\ entry[x].rows[c] <= t.counted[c]
               /\ Plain(entry, x) => entry[x].rows[c] = t.counted[c]
               /\ p = "Transfer" => t.counted[c] = PerUnit[c] * q
    <3>1. RowsFor(entry, c)[x] = entry[x].rows[c]
      BY <1>0 DEF RowsFor
    <3>2. \A e \in Entries : RowsFor(entry, c)[e] \in Nat
      BY <1>0 DEF RowsFor, EntryRow, Items
    <3>3. SumFunctionOnSet(RowsFor(entry, c), Consuming(entry, {}))
            = SumFunctionOnSet(RowsFor(entry, c), Consuming(entry, {x}))
              + (IF p \in {"Manufacture", "Consumption"} THEN entry[x].rows[c] ELSE 0)
      BY <3>1, <3>2, <1>0, OneMore
    <3>4. SumFunctionOnSet(RowsFor(entry, c), Consuming(entry, {x})) \in Nat
      BY <1>0, Finite, SumTypes
    <3>5. p \in {"Manufacture", "Consumption"} <=> p # "Transfer"
      BY <1>0 DEF Purposes
    <3>6. /\ entry[x].rows[c] <= t.counted[c]
          /\ Plain(entry, x) => entry[x].rows[c] = t.counted[c]
          /\ p = "Transfer" => t.counted[c] = PerUnit[c] * q
      BY <1>0 DEF Busy
    <3> QED BY <3>1, <3>2, <3>3, <3>4, <3>5, <3>6, <1>0
  <2>6. /\ m.produced = SumFunctionOnSet(Qtys(entry), ToldOf(entry, {}, "Manufacture"))
        /\ m.transferred = SumFunctionOnSet(Qtys(entry), ToldOf(entry, {}, "Transfer"))
    <3>1. /\ wo.produced = SumFunctionOnSet(Qtys(entry), ToldOf(entry, {x}, "Manufacture"))
          /\ wo.transferred = SumFunctionOnSet(Qtys(entry), ToldOf(entry, {x}, "Transfer"))
      BY <2>2 DEF Agreement
    <3>2. /\ m.produced = wo.produced + (IF p = "Manufacture" THEN q ELSE 0)
          /\ m.transferred = wo.transferred + (IF p = "Transfer" THEN q ELSE 0)
      BY <1>0
    <3>3. "Manufacture" \in Purposes /\ "Transfer" \in Purposes
      BY DEF Purposes
    <3> QED BY ONLY <3>1, <3>2, <3>3, <2>4
  <2>7. ASSUME NEW c \in Components
        PROVE  m.staged[c] = PerUnit[c] * SumFunctionOnSet(Qtys(entry), ToldOf(entry, {}, "Transfer"))
    <3>1. PICK a : a = SumFunctionOnSet(Qtys(entry), ToldOf(entry, {x}, "Transfer"))
      OBVIOUS
    <3>2. a \in Nat
      BY <3>1, <1>0, Finite, SumTypes
    <3>3. wo.staged[c] = PerUnit[c] * a
      BY <3>1, <2>2 DEF Agreement
    <3>4. SumFunctionOnSet(Qtys(entry), ToldOf(entry, {}, "Transfer")) = a + (IF p = "Transfer" THEN q ELSE 0)
      BY <3>1, <2>4 DEF Purposes
    <3>5. PerUnit[c] * (a + q) = PerUnit[c] * a + PerUnit[c] * q
      BY <3>2, <1>0
    <3>6. a + 0 = a
      BY <3>2
    <3>7. CASE p = "Transfer"
      <4>1. m.staged[c] = wo.staged[c] + PerUnit[c] * q
        BY <3>7, <2>5, <1>0
      <4> QED BY <3>3, <3>4, <3>5, <3>7, <4>1
    <3>8. CASE p # "Transfer"
      <4>1. m.staged[c] = wo.staged[c]
        BY <3>8, <2>5, <1>0
      <4> QED BY <3>3, <3>4, <3>6, <3>8, <4>1
    <3> QED BY <3>7, <3>8
  <2>8. ASSUME NEW c \in Components
        PROVE  /\ m.consumed[c] >= SumFunctionOnSet(RowsFor(entry, c), Consuming(entry, {}))
               /\ (\A e \in Entries : Plain(entry, e))
                    => m.consumed[c] = SumFunctionOnSet(RowsFor(entry, c), Consuming(entry, {}))
    <3>1. PICK a : a = SumFunctionOnSet(RowsFor(entry, c), Consuming(entry, {x}))
      OBVIOUS
    <3>2. /\ wo.consumed[c] >= a
          /\ (\A e \in Entries : Plain(entry, e)) => wo.consumed[c] = a
      BY <3>1, <2>2 DEF Agreement
    <3>3. a \in Nat
      BY <3>1, <2>5
    <3>4. (\A e \in Entries : Plain(entry, e)) => Plain(entry, x)
      BY <1>0
    <3>5. SumFunctionOnSet(RowsFor(entry, c), Consuming(entry, {}))
            = a + (IF p # "Transfer" THEN entry[x].rows[c] ELSE 0)
      BY <3>1, <2>5
    <3>6. CASE p = "Transfer"
      <4>1. m.consumed[c] = wo.consumed[c]
        BY <3>6, <1>0
      <4>2. SumFunctionOnSet(RowsFor(entry, c), Consuming(entry, {})) = a
        BY <3>3, <3>5, <3>6
      <4> QED BY <3>2, <4>1, <4>2
    <3>7. CASE p # "Transfer"
      <4>1. PICK i : i = entry[x].rows[c]
        OBVIOUS
      <4>2. PICK j : j = t.counted[c]
        OBVIOUS
      <4>3. /\ i \in Nat /\ j \in Nat /\ i <= j
            /\ (\A e \in Entries : Plain(entry, e)) => i = j
        BY <4>1, <4>2, <2>5, <3>4, <1>0
      <4>4. PICK k : k = wo.consumed[c]
        OBVIOUS
      <4>5. k \in Nat /\ k >= a /\ ((\A e \in Entries : Plain(entry, e)) => k = a)
        BY <4>4, <3>2, <1>0 DEF OrderRow, Counts
      <4>6. m.consumed[c] = k + j
        BY <3>7, <4>2, <4>4, <1>0
      <4>7. SumFunctionOnSet(RowsFor(entry, c), Consuming(entry, {})) = a + i
        BY <3>5, <3>7, <4>1
      <4> QED BY ONLY <3>3, <4>3, <4>5, <4>6, <4>7
    <3> QED BY <3>6, <3>7
  <2>9. Agreement(m, entry, {})
    BY <2>6, <2>7, <2>8 DEF Agreement
  <2> QED BY <2>1, <2>9, <1>0
<1>3. wo'.docstatus # "Cancelled" /\ turn' \in [Crew -> Drive \cup {Resting}] /\ turn'[w] = Resting
  BY <1>0
<1> QED BY <1>0, <1>1, <1>2 DEF IInv

LEMMA DivExact ==
  ASSUME NEW a \in Nat \ {0}, NEW b \in Nat
  PROVE  (a * b) \div a = b
<1>1. PICK n : n = a * b
  OBVIOUS
<1>2. n \in Int /\ n - a * b >= 0 /\ n - a * b < a
  BY <1>1
<1>3. n \div a = b
  BY <1>2, SMTT(30)
<1> QED OBVIOUS

\* the units a cancelled entry takes back are those it was written for
LEMMA UnitsTakenBack ==
  ASSUME NEW x \in Entries, entry \in [Entries -> EntryRow], EntryWritten(entry, x),
         entry[x].docstatus # "Absent"
  PROVE  UnitsOf(entry[x]) = entry[x].qty
<1>1. CASE entry[x].purpose = "Transfer"
  <2>1. entry[x].rows[Sample] = PerUnit[Sample] * entry[x].qty
    BY <1>1, WorkOrderAssumption DEF EntryWritten
  <2>2. PerUnit[Sample] \in Nat \ {0} /\ entry[x].qty \in Nat
    BY WorkOrderAssumption DEF EntryRow
  <2> QED BY <2>1, <2>2 DEF UnitsOf
<1>2. CASE entry[x].purpose # "Transfer"
  BY <1>2 DEF UnitsOf
<1> QED BY <1>1, <1>2

\* Cancelling an entry takes it out of the counters.
LEMMA CancelStep ==
  ASSUME NEW w, Crew = {w}, IInv, NEW x \in Entries, CancelEntry(w, x)
  PROVE  IInv'
<1>0. PICK p, q, u, rows :
        /\ p = entry[x].purpose /\ q = entry[x].qty /\ u = -entry[x].qty
        /\ rows = [c \in Components |-> -entry[x].rows[c]]
  OBVIOUS
<1> DEFINE n == Counted(wo, p, u, rows)
<1>1. /\ turn[w] = Resting /\ Sound(wo, entry)
      /\ entry \in [Entries -> EntryRow] /\ wo \in OrderRow
      /\ entry[x].docstatus = "Submitted" /\ EntryWritten(entry, x)
  BY DEF IInv, Sound, CancelEntry
<1>2. /\ q \in Nat /\ u = -q /\ u \in Int /\ q > 0 /\ p \in Purposes
      /\ \A c \in Components : entry[x].rows[c] \in Nat /\ rows[c] = -entry[x].rows[c] /\ rows[c] \in Int
  <2>1. /\ entry[x].qty \in Nat /\ entry[x].qty > 0 /\ entry[x].purpose \in Purposes
    BY <1>1 DEF EntryRow, EntryWritten
  <2>2. \A c \in Components : entry[x].rows[c] \in Nat
    BY <1>1 DEF EntryRow, Items
  <2> QED BY <2>1, <2>2, <1>0
<1>3. UnitsOf(entry[x]) = q
  BY <1>0, <1>1, UnitsTakenBack
<1>4. Counts1(n, wo, p, u, rows) /\ n.status = wo.status
  BY <1>1, <1>2, CountedFields
<1>5. PICK s :
        /\ s \in {"Draft", "Not Started", "In Process", "Completed", "Stopped", "Cancelled"}
        /\ Reverted(wo, entry[x]) = [n EXCEPT !.status = s]
        /\ s = IF n.status = "Stopped" THEN "Stopped" ELSE Recomputed(n)
  <2>1. n \in OrderRow
    BY <1>4 DEF Counts1
  <2>2. n = Counted(wo, entry[x].purpose, -UnitsOf(entry[x]),
                    [c \in Components |-> -entry[x].rows[c]])
    BY <1>0, <1>3
  <2> HIDE DEF n
  <2>3. Reverted(wo, entry[x]) =
          [n EXCEPT !.status = IF @ = "Stopped" THEN @ ELSE Recomputed(n)]
    BY <2>2 DEF Reverted
  <2>4. Recomputed(n) \in {"Completed", "In Process", "Not Started"}
    BY RecomputedStatus
  <2> QED BY <2>1, <2>3, <2>4
<1> HIDE DEF n
<1> DEFINE m == [n EXCEPT !.status = s]
<1>6. Counts1(m, wo, p, u, rows) /\ m.status = s /\ Recomputed(m) = Recomputed(n)
  <2>1. s \in {"Draft", "Not Started", "In Process", "Completed", "Stopped", "Cancelled"}
    BY <1>5
  <2>2. Counts1(n, wo, p, u, rows)
    BY <1>4
  <2>a. /\ m \in OrderRow /\ m.status = s /\ m.docstatus = n.docstatus
        /\ m.produced = n.produced /\ m.transferred = n.transferred
        /\ m.consumed = n.consumed /\ m.staged = n.staged
    <3>1. n \in OrderRow
      BY <2>2 DEF Counts1
    <3> QED BY <2>1, <3>1 DEF OrderRow
  <2> HIDE DEF m
  <2> QED BY <2>2, <2>a, WithStatus
<1> DEFINE r == [entry[x] EXCEPT !.docstatus = "Cancelled"]
<1>7. /\ wo' = m /\ orphans' = orphans /\ turn' = turn
      /\ entry' = [entry EXCEPT ![x] = r]
  BY <1>1, <1>5 DEF CancelEntry
<1>8. /\ r \in EntryRow /\ r.docstatus = "Cancelled"
      /\ r.purpose = entry[x].purpose /\ r.qty = entry[x].qty /\ r.rows = entry[x].rows
  BY <1>1 DEF EntryRow
<1> HIDE DEF m, r
<1>9. /\ entry' \in [Entries -> EntryRow] /\ entry'[x] = r
      /\ \A e \in Entries : e # x => entry'[e] = entry[e]
  BY <1>1, <1>7, <1>8
<1>10. /\ wo.produced \in Nat /\ wo.transferred \in Nat
       /\ \A c \in Components : /\ wo.consumed[c] \in Nat /\ wo.staged[c] \in Nat
                               /\ PerUnit[c] \in Nat
  <2>1. /\ wo.produced \in Nat /\ wo.transferred \in Nat
        /\ \A c \in Components : wo.consumed[c] \in Nat /\ wo.staged[c] \in Nat
    BY <1>1 DEF OrderRow, Counts
  <2>2. \A c \in Components : PerUnit[c] \in Nat
    BY WorkOrderAssumption
  <2> QED BY <2>1, <2>2
<1>11. /\ m \in OrderRow /\ m.docstatus = wo.docstatus
       /\ m.produced = IF p = "Manufacture" THEN NotBelow0(wo.produced - q) ELSE wo.produced
       /\ m.transferred = IF p = "Transfer" THEN NotBelow0(wo.transferred - q) ELSE wo.transferred
       /\ \A c \in Components :
            /\ m.consumed[c] = IF p = "Transfer" THEN wo.consumed[c]
                               ELSE NotBelow0(wo.consumed[c] - entry[x].rows[c])
            /\ m.staged[c] = IF p = "Transfer" THEN NotBelow0(wo.staged[c] - entry[x].rows[c])
                             ELSE wo.staged[c]
  BY <1>2, <1>6 DEF Counts1
<1>12. Sound(wo', entry')
  <2>1. \A e \in Entries : EntryWritten(entry', e)
    <3> SUFFICES ASSUME NEW e \in Entries PROVE EntryWritten(entry', e)
      OBVIOUS
    <3>1. EntryWritten(entry, e)
      BY <1>1 DEF Sound
    <3>2. CASE e = x
      BY <3>2, <1>1, <1>8, <1>9 DEF EntryWritten
    <3>3. CASE e # x
      BY <3>1, <3>3, <1>9 DEF EntryWritten
    <3> QED BY <3>2, <3>3
  <2>2. wo.docstatus # "Draft"
    BY <1>1 DEF Sound
  <2>3. \A c \in Components : m.consumed[c] <= wo.consumed[c]
    BY <1>2, <1>10, <1>11 DEF NotBelow0
  <2>4. \A c \in Components : m.consumed[c] <= Required(c)
    <3> SUFFICES ASSUME NEW c \in Components PROVE m.consumed[c] <= Required(c)
      OBVIOUS
    <3>1. wo.consumed[c] <= Required(c) /\ Required(c) \in Int
      <4>1. PerUnit[c] * Qty \in Int
        BY WorkOrderAssumption
      <4> QED BY <4>1, <1>1 DEF Sound, Required
    <3>2. m.consumed[c] \in Nat
      BY <1>11 DEF OrderRow, Counts
    <3> QED BY <3>1, <3>2, <2>3, <1>10
  <2>5. m.produced <= Allowed
    <3>1. wo.produced <= Allowed
      BY <1>1 DEF Sound
    <3> QED BY <3>1, <1>2, <1>10, <1>11, WorkOrderAssumption DEF NotBelow0
  <2>6. m.status # "Stopped" => m.status = Recomputed(m)
    BY <1>5, <1>6
  <2> QED BY <2>1, <2>2, <2>4, <2>5, <2>6, <1>7, <1>9, <1>11 DEF Sound
<1>13. ASSUME orphans = {} PROVE Agreement(wo', entry', InFlight')
  <2>1. InFlight' = {} /\ InFlight = {}
    BY <1>1, <1>7, InFlightIs, InFlightNext
  <2>2. Agreement(wo, entry, {})
    BY <1>13, <2>1 DEF IInv
  <2>3. \A e \in Entries : Qtys(entry)[e] \in Nat
    BY <1>1 DEF Qtys, EntryRow
  <2>4. \A y \in Purposes :
          /\ SumFunctionOnSet(Qtys(entry), ToldOf(entry, {}, y))
               = SumFunctionOnSet(Qtys(entry), ToldOf(entry, {x}, y)) + (IF p = y THEN q ELSE 0)
          /\ SumFunctionOnSet(Qtys(entry), ToldOf(entry, {x}, y)) \in Nat
    <3>1. Qtys(entry)[x] = q
      BY <1>0 DEF Qtys
    <3>2. PICK f : f = Qtys(entry)
      OBVIOUS
    <3>3. \A y \in Purposes : SumFunctionOnSet(f, ToldOf(entry, {}, y))
            = SumFunctionOnSet(f, ToldOf(entry, {x}, y)) + (IF entry[x].purpose = y THEN f[x] ELSE 0)
      <4>1. \A e \in Entries : f[e] \in Nat
        BY <3>2, <2>3
      <4> QED BY <4>1, <1>1, OneMore
    <3>4. \A y : SumFunctionOnSet(Qtys(entry), ToldOf(entry, {x}, y)) \in Nat
      BY <1>1, Finite, SumTypes, WorkOrderAssumption
    <3> QED BY <3>1, <3>2, <3>3, <3>4, <1>0
  <2>5. ASSUME NEW c \in Components
        PROVE  /\ SumFunctionOnSet(RowsFor(entry, c), Consuming(entry, {}))
                    = SumFunctionOnSet(RowsFor(entry, c), Consuming(entry, {x}))
                      + (IF p # "Transfer" THEN entry[x].rows[c] ELSE 0)
               /\ SumFunctionOnSet(RowsFor(entry, c), Consuming(entry, {x})) \in Nat
               /\ p = "Transfer" => entry[x].rows[c] = PerUnit[c] * q
    <3>1. RowsFor(entry, c)[x] = entry[x].rows[c]
      BY DEF RowsFor
    <3>2. \A e \in Entries : RowsFor(entry, c)[e] \in Nat
      BY <1>1 DEF RowsFor, EntryRow, Items
    <3>3. SumFunctionOnSet(RowsFor(entry, c), Consuming(entry, {}))
            = SumFunctionOnSet(RowsFor(entry, c), Consuming(entry, {x}))
              + (IF p \in {"Manufacture", "Consumption"} THEN entry[x].rows[c] ELSE 0)
      BY <3>1, <3>2, <1>0, <1>1, OneMore
    <3>4. SumFunctionOnSet(RowsFor(entry, c), Consuming(entry, {x})) \in Nat
      BY <1>1, Finite, SumTypes
    <3>5. p \in {"Manufacture", "Consumption"} <=> p # "Transfer"
      BY <1>2 DEF Purposes
    <3>6. p = "Transfer" => entry[x].rows[c] = PerUnit[c] * q
      BY <1>0, <1>1 DEF EntryWritten
    <3> QED BY <3>3, <3>4, <3>5, <3>6
  <2>6. /\ m.produced = SumFunctionOnSet(Qtys(entry), ToldOf(entry, {x}, "Manufacture"))
        /\ m.transferred = SumFunctionOnSet(Qtys(entry), ToldOf(entry, {x}, "Transfer"))
    BY <2>2, <2>4, <1>2, <1>11 DEF Agreement, Purposes, NotBelow0
  <2>7. ASSUME NEW c \in Components
        PROVE  m.staged[c] = PerUnit[c] * SumFunctionOnSet(Qtys(entry), ToldOf(entry, {x}, "Transfer"))
    <3>1. PICK a : a = SumFunctionOnSet(Qtys(entry), ToldOf(entry, {x}, "Transfer"))
      OBVIOUS
    <3>2. /\ a \in Nat
          /\ SumFunctionOnSet(Qtys(entry), ToldOf(entry, {}, "Transfer")) = a + (IF p = "Transfer" THEN q ELSE 0)
      BY <3>1, <2>4 DEF Purposes
    <3>3. wo.staged[c] = PerUnit[c] * (a + (IF p = "Transfer" THEN q ELSE 0))
      BY <3>2, <2>2 DEF Agreement
    <3>4. /\ PerUnit[c] * (a + q) = PerUnit[c] * a + PerUnit[c] * q
          /\ PerUnit[c] * a \in Nat /\ PerUnit[c] * q \in Nat
      BY <3>2, <1>2, <1>10
    <3>5. a + 0 = a
      BY <3>2
    <3>6. CASE p = "Transfer"
      <4>1. wo.staged[c] = PerUnit[c] * a + entry[x].rows[c]
        BY <3>3, <3>4, <3>6, <2>5
      <4>2. m.staged[c] = NotBelow0(wo.staged[c] - entry[x].rows[c])
        BY <3>6, <1>11
      <4>3. m.staged[c] = PerUnit[c] * a
        <5>1. PICK b \in Nat : b = PerUnit[c] * a
          BY <3>4
        <5> QED BY <5>1, <4>1, <4>2, <1>2 DEF NotBelow0
      <4> QED BY <4>3, <3>1
    <3>7. CASE p # "Transfer"
      BY <3>1, <3>3, <3>5, <3>7, <1>11
    <3> QED BY <3>6, <3>7
  <2>8. ASSUME NEW c \in Components
        PROVE  /\ m.consumed[c] >= SumFunctionOnSet(RowsFor(entry, c), Consuming(entry, {x}))
               /\ (\A e \in Entries : Plain(entry, e))
                    => m.consumed[c] = SumFunctionOnSet(RowsFor(entry, c), Consuming(entry, {x}))
    <3>1. PICK a : a = SumFunctionOnSet(RowsFor(entry, c), Consuming(entry, {x}))
      OBVIOUS
    <3>2. /\ a \in Nat
          /\ SumFunctionOnSet(RowsFor(entry, c), Consuming(entry, {}))
               = a + (IF p # "Transfer" THEN entry[x].rows[c] ELSE 0)
      BY <3>1, <2>5
    <3>3. /\ wo.consumed[c] >= a + (IF p # "Transfer" THEN entry[x].rows[c] ELSE 0)
          /\ (\A e \in Entries : Plain(entry, e))
               => wo.consumed[c] = a + (IF p # "Transfer" THEN entry[x].rows[c] ELSE 0)
      BY <3>2, <2>2 DEF Agreement
    <3>4. PICK all : all = \A e \in Entries : Plain(entry, e)
      OBVIOUS
    <3> QED BY <3>1, <3>2, <3>3, <1>2, <1>10, <1>11 DEF NotBelow0
  <2>9. Agreement(m, entry, {x})
    BY <2>6, <2>7, <2>8 DEF Agreement
  <2>10. PICK fl, fm : fl = {x} /\ fm = {}
    OBVIOUS
  <2>11. \A y : ToldOf(entry', fm, y) = ToldOf(entry, fl, y)
    BY <2>10, <1>8, <1>9 DEF ToldOf
  <2>12. \A y : \A e \in Entries : e \in ToldOf(entry, fl, y) =>
           entry'[e].qty = entry[e].qty
             /\ \A c \in Components : entry'[e].rows[c] = entry[e].rows[c]
    BY <1>8, <1>9
  <2>13. (\A e \in Entries : Plain(entry', e)) => (\A e \in Entries : Plain(entry, e))
    BY <1>8, <1>9 DEF Plain
  <2>14. Agreement(m, entry, fl)
    BY <2>9, <2>10
  <2>15. Agreement(m, entry', fm)
    BY <2>11, <2>12, <2>13, <2>14, AgreementSame
  <2> QED BY <2>1, <2>10, <2>15, <1>7
<1>14. wo'.docstatus = "Cancelled" /\ orphans = {} => NoStock'
  <2>1. ~NoStock
    BY <1>1 DEF NoStock
  <2> QED BY <2>1, <1>7, <1>11 DEF IInv
<1> QED BY <1>1, <1>7, <1>12, <1>13, <1>14 DEF IInv

LEMMA IInvStep ==
  ASSUME NEW w, Crew = {w}, IInv, [ONext]_ovars
  PROVE  IInv'
<1>1. CASE UNCHANGED ovars
  <2>1. InFlight' = InFlight /\ NoStock' = NoStock
    BY <1>1 DEF ovars, InFlight, NoStock
  <2> QED BY <1>1, <2>1 DEF ovars, IInv
<1>2. CASE SubmitWorkOrder(w) \/ CancelWorkOrder(w) \/ StopOrder(w) \/ ResumeOrder(w)
  BY <1>2, SubmitOrderStep, CancelOrderStep, StopStep
<1>3. ASSUME NEW x \in Entries, NEW q \in 1 .. Allowed,
             \/ \E swap \in SUBSET DOMAIN Substitutes : BeginFinish(w, x, q, swap)
             \/ BeginConsume(w, x, q) \/ BeginTransfer(w, x, q)
      PROVE  IInv'
  BY <1>3, FinishStep, ConsumeStep, TransferStep
<1>4. CASE PostEntry(w) \/ RefuseEntry(w) \/ DieBetween(w) \/ Advance(w)
  BY <1>4, PostStep, RefuseStep, DieStep, AdvanceStep
<1>5. ASSUME NEW x \in Entries, SubmitByHand(w, x) \/ CancelEntry(w, x)
      PROVE  IInv'
  BY <1>5, ByHandStep, CancelStep
<1> QED BY <1>1, <1>2, <1>3, <1>4, <1>5 DEF ONext

-----------------------------------------------------------------------------
(* What the invariant says.                                                 *)

LEMMA IInvStatus == IInv => StatusTellsProgress
BY DEF IInv, Sound, StatusTellsProgress

LEMMA IInvTypes ==
  ASSUME NEW w, Crew = {w}, IInv
  PROVE  OTypeOK
BY DEF IInv, Sound, OTypeOK, EntryRow

\* the properties' sums are the sums above
LEMMA SumsAre ==
  /\ \A p : Units(LiveEntries(p) \ InFlight)
              = SumFunctionOnSet(Qtys(entry), ToldOf(entry, InFlight, p))
  /\ \A c : UsedOf(c) = SumFunctionOnSet(RowsFor(entry, c), Consuming(entry, InFlight))
  /\ Units(LiveEntries("Manufacture"))
       = SumFunctionOnSet(Qtys(entry), ToldOf(entry, {}, "Manufacture"))
<1>1. \A p : LiveEntries(p) \ InFlight = ToldOf(entry, InFlight, p)
  BY DEF LiveEntries, ToldOf
<1>2. (LiveEntries("Manufacture") \cup LiveEntries("Consumption")) \ InFlight
        = Consuming(entry, InFlight)
  BY DEF LiveEntries, ToldOf, Consuming
<1>3. LiveEntries("Manufacture") = ToldOf(entry, {}, "Manufacture")
  BY DEF LiveEntries, ToldOf
<1>4. \A p : Units(LiveEntries(p) \ InFlight)
               = SumFunctionOnSet(Qtys(entry), ToldOf(entry, InFlight, p))
  BY <1>1 DEF Units, Qtys
<1>5. \A c : UsedOf(c) = SumFunctionOnSet(RowsFor(entry, c), Consuming(entry, InFlight))
  BY <1>2 DEF UsedOf, RowsFor
<1>6. Units(LiveEntries("Manufacture"))
        = SumFunctionOnSet(Qtys(entry), ToldOf(entry, {}, "Manufacture"))
  BY <1>3 DEF Units, Qtys
<1> QED BY <1>4, <1>5, <1>6

LEMMA IInvCounters ==
  ASSUME NEW w, Crew = {w}, IInv
  PROVE  CountersTellEntries /\ ConsumedIsPosted /\ CancelledIsEmpty
<1>1. orphans = {} => Agreement(wo, entry, InFlight)
  BY DEF IInv
<1>2. (\A e \in Entries : ~Swapped(e)) => (\A e \in Entries : Plain(entry, e))
  BY DEF Swapped, Plain
<1>3. CountersTellEntries
  BY <1>1, SumsAre DEF CountersTellEntries, Agreement
<1>4. ConsumedIsPosted
  BY <1>1, <1>2, SumsAre DEF ConsumedIsPosted, Agreement
<1>5. CancelledIsEmpty
  BY DEF IInv, CancelledIsEmpty
<1> QED BY <1>3, <1>4, <1>5

\* an entry in flight still fits into what may be produced
LEMMA IInvOverproduced ==
  ASSUME NEW w, Crew = {w}, IInv
  PROVE  NeverOverproduced
<1> SUFFICES ASSUME orphans = {} PROVE Units(LiveEntries("Manufacture")) <= Allowed
  BY DEF NeverOverproduced
<1>1. /\ entry \in [Entries -> EntryRow] /\ wo.produced <= Allowed /\ wo.produced \in Nat
      /\ Agreement(wo, entry, InFlight) /\ Allowed \in Nat
  BY WorkOrderAssumption DEF IInv, Sound, OrderRow
<1>2. PICK f : f = Qtys(entry) /\ \A e \in Entries : f[e] \in Nat
  <2>1. \A e \in Entries : Qtys(entry)[e] \in Nat
    BY <1>1 DEF Qtys, EntryRow
  <2> QED BY <2>1
<1>3. CASE InFlight = {}
  BY <1>1, <1>3, SumsAre DEF Agreement
<1>4. CASE InFlight # {}
  <2>1. PICK t, x : t = turn[w] /\ x = t.entry
    OBVIOUS
  <2>2. t # Resting /\ t.posted /\ InFlight = {x} /\ Busy(t, wo, entry)
    BY <1>4, <2>1, InFlightIs DEF IInv
  <2>3. x \in Entries /\ entry[x].docstatus = "Submitted"
    BY <2>1, <2>2 DEF Busy, Drive
  <2>4. \A p \in Purposes : SumFunctionOnSet(f, ToldOf(entry, {}, p))
          = SumFunctionOnSet(f, ToldOf(entry, {x}, p)) + (IF entry[x].purpose = p THEN f[x] ELSE 0)
    BY <2>3, <1>1, <1>2, OneMore
  <2>5. SumFunctionOnSet(f, ToldOf(entry, {}, "Manufacture"))
          = wo.produced + (IF entry[x].purpose = "Manufacture" THEN entry[x].qty ELSE 0)
    BY <2>2, <2>3, <2>4, <1>1, <1>2 DEF Agreement, Purposes, Qtys
  <2>6. entry[x].purpose = "Manufacture" => entry[x].qty <= Allowed - wo.produced
    BY <2>1, <2>2 DEF Busy
  <2>7. entry[x].qty \in Nat
    BY <2>3, <1>1 DEF EntryRow
  <2>8. SumFunctionOnSet(f, ToldOf(entry, {}, "Manufacture")) <= Allowed
    BY <2>5, <2>6, <2>7, <1>1
  <2> QED BY <2>8, <1>2, SumsAre
<1> QED BY <1>3, <1>4

\* Served one at a time, a submitted order that is not stopped reads Completed, In
\* Process or Not Started exactly as its counters say.
THEOREM StatusIsProgress ==
  ASSUME NEW w, Crew = {w}
  PROVE  OSpec => []StatusTellsProgress
<1>1. IInv /\ [ONext]_ovars => IInv'
  BY IInvStep
<1> QED BY <1>1, IInvInit, IInvStatus, PTL DEF OSpec

\* Served one at a time, the counters of an order are what its submitted stock entries
\* say unless one was posted behind its back: produced, transferred and staged
\* material exactly, consumed material exactly without substitutes; finished goods stay
\* within the allowance and a cancelled order has nothing posted.
THEOREM OrderIsItsEntries ==
  ASSUME NEW w, Crew = {w}
  PROVE  OSpec => []OrderFollowsEntries
<1>1. IInv /\ [ONext]_ovars => IInv'
  BY IInvStep
<1>2. IInv => OrderFollowsEntries
  BY IInvTypes, IInvCounters, IInvOverproduced DEF OrderFollowsEntries
<1> QED BY <1>1, <1>2, IInvInit, PTL DEF OSpec

-----------------------------------------------------------------------------
(* Finished units are backed by material.                                   *)

BackedStep ==
  Backed /\ ~Backed' =>
    \E e \in Entries : entry[e].docstatus = "Submitted" /\ entry'[e].docstatus = "Cancelled"

\* finishing q units takes the material they need, or all that is still required
LEMMA BackedByNeed ==
  ASSUME NEW n \in Nat \ {0}, NEW a \in Nat, NEW b \in Nat, NEW q \in Nat, NEW k \in Nat,
         a >= n * Fewer(b, Qty), a <= n * Qty,
         k = Fewer(n * q, NotBelow0(n * Qty - a))
  PROVE  a + k >= n * Fewer(b + q, Qty)
<1>1. Qty \in Nat
  BY WorkOrderAssumption
<1>2. PICK u, v : u = n * Qty /\ v = n * q
  OBVIOUS
<1>3. u \in Nat /\ v \in Nat
  BY <1>2
<1>4. PICK y, z : y = Fewer(b, Qty) /\ z = Fewer(b + q, Qty)
  OBVIOUS
<1>5. y \in Nat /\ z \in Nat /\ z <= Qty /\ z <= y + q
  BY <1>1, <1>4 DEF Fewer
<1>6. n * z <= n * Qty
  BY <1>1, <1>5
<1>7. n * z <= n * y + n * q
  <2>1. n * (y + q) = n * y + n * q
    BY <1>5
  <2>2. n * z <= n * (y + q)
    <3>1. PICK d : d = y + q
      OBVIOUS
    <3>2. d \in Nat /\ z <= d
      BY <3>1, <1>5
    <3>3. n * z <= n * d
      BY <3>2, <1>5
    <3> QED BY <3>1, <3>3
  <2> QED BY <2>1, <2>2
<1>8. n * y \in Nat /\ n * z \in Nat
  BY <1>5
<1>9. PICK g, h : g = n * y /\ h = n * z
  OBVIOUS
<1>10. /\ h <= u /\ h <= g + v /\ a >= g /\ a <= u /\ k = Fewer(v, NotBelow0(u - a))
       /\ g \in Nat /\ h \in Nat
  BY <1>2, <1>4, <1>6, <1>7, <1>8, <1>9
<1>11. a + k >= h
  BY <1>3, <1>10 DEF Fewer, NotBelow0
<1> QED BY <1>4, <1>9, <1>11

LEMMA BackedSame ==
  ASSUME wo'.produced = wo.produced, \A c \in Components : wo'.consumed[c] = wo.consumed[c], Backed
  PROVE  Backed'
BY DEF Backed

LEMMA BackedHolds ==
  ASSUME NEW w, Crew = {w}, IInv, [ONext]_ovars
  PROVE  BackedStep
<1>1. wo \in OrderRow
  BY DEF IInv, Sound
<1>2. CASE wo' = wo
  BY <1>2, BackedSame DEF BackedStep
<1>3. CASE SubmitWorkOrder(w) \/ CancelWorkOrder(w) \/ StopOrder(w) \/ ResumeOrder(w)
  <2>1. wo'.produced = wo.produced /\ wo'.consumed = wo.consumed
    BY <1>1, <1>3 DEF SubmitWorkOrder, CancelWorkOrder, StopOrder, ResumeOrder, OrderRow
  <2> QED BY <2>1, BackedSame DEF BackedStep
<1>4. CASE Advance(w)
  <2>1. PICK t, x, p, q :
          /\ t = turn[w] /\ x = t.entry /\ p = entry[x].purpose /\ q = entry[x].qty
          /\ Busy(t, wo, entry) /\ Sound(wo, entry) /\ q \in Nat /\ q > 0 /\ p \in Purposes
          /\ wo.produced \in Nat
          /\ \A c \in Components : wo.consumed[c] \in Nat /\ t.counted[c] \in Nat
          /\ wo'.produced = IF p = "Manufacture" THEN wo.produced + q ELSE wo.produced
          /\ \A c \in Components :
               wo'.consumed[c] = IF p = "Transfer" THEN wo.consumed[c]
                                 ELSE wo.consumed[c] + t.counted[c]
    BY <1>4, AdvanceWrites
  <2> SUFFICES ASSUME Backed, NEW c \in Components
               PROVE  wo'.consumed[c] >= PerUnit[c] * Fewer(wo'.produced, Qty)
    BY DEF BackedStep, Backed
  <2>2. PICK n, a, b, k :
          n = PerUnit[c] /\ a = wo.consumed[c] /\ b = wo.produced /\ k = t.counted[c]
    OBVIOUS
  <2>3. /\ n \in Nat \ {0} /\ a \in Nat /\ b \in Nat /\ k \in Nat
        /\ a >= n * Fewer(b, Qty) /\ a <= n * Qty
    BY <2>1, <2>2, WorkOrderAssumption DEF Backed, Sound, Required
  <2>4. CASE p = "Manufacture"
    <3>1. k = Fewer(n * q, NotBelow0(n * Qty - a))
      BY <2>1, <2>2, <2>4 DEF Busy, Required
    <3>2. a + k >= n * Fewer(b + q, Qty)
      BY <3>1, <2>1, <2>3, BackedByNeed
    <3> QED BY <3>2, <2>1, <2>2, <2>4
  <2>5. CASE p # "Manufacture"
    <3>1. wo'.produced = b /\ wo'.consumed[c] \in {a, a + k}
      BY <2>1, <2>2, <2>5
    <3>2. PICK h : h = n * Fewer(b, Qty)
      OBVIOUS
    <3>3. h \in Nat
      BY <3>2, <2>3 DEF Fewer
    <3>4. a >= h /\ a + k >= h
      BY <3>2, <2>3
    <3> QED BY <3>1, <3>2, <3>4, <2>2
  <2> QED BY <2>4, <2>5
<1>5. ASSUME NEW x \in Entries, CancelEntry(w, x) PROVE BackedStep
  <2>1. entry \in [Entries -> EntryRow]
    BY DEF IInv, Sound
  <2>2. entry[x].docstatus = "Submitted" /\ entry'[x].docstatus = "Cancelled"
    BY <1>5, <2>1 DEF CancelEntry
  <2> QED BY <2>2 DEF BackedStep
<1>6. CASE \/ UNCHANGED ovars \/ PostEntry(w) \/ RefuseEntry(w) \/ DieBetween(w)
           \/ \E x \in Entries :
                \/ SubmitByHand(w, x)
                \/ \E q \in 1 .. Allowed :
                     \/ \E swap \in SUBSET DOMAIN Substitutes : BeginFinish(w, x, q, swap)
                     \/ BeginConsume(w, x, q) \/ BeginTransfer(w, x, q)
  BY <1>2, <1>6 DEF ovars, PostEntry, RefuseEntry, DieBetween, SubmitByHand, BeginFinish,
       BeginConsume, BeginTransfer, Draft
<1> QED BY <1>3, <1>4, <1>5, <1>6 DEF ONext

\* Served one at a time, finished units up to the ordered quantity are backed by
\* consumed material, and only cancelling an entry can take that away.
THEOREM FinishedIsBacked ==
  ASSUME NEW w, Crew = {w}
  PROVE  OSpec => BackedUntilCancelled
<1>1. IInv /\ [ONext]_ovars => IInv'
  BY IInvStep
<1>2. IInv /\ [ONext]_ovars => [BackedStep]_ovars
  BY BackedHolds
<1>3. OSpec => []IInv
  BY <1>1, IInvInit, PTL DEF OSpec
<1> QED BY <1>2, <1>3, PTL DEF OSpec, BackedUntilCancelled, BackedStep

-----------------------------------------------------------------------------
(* The job card.  Unless requests overlapped, the request in hand has read   *)
(* what is there, and what it checked when it began still holds.             *)

LogRow == [running : BOOLEAN, qty : Nat]
CardRow == [docstatus : {"Draft", "Submitted", "Cancelled"},
            status : {"Open", "Work In Progress", "Completed", "Cancelled"}, total : 0 .. ForQty]

\* what a request holds, whatever happened since it read
HandHolds(h) ==
  /\ hand[h].card \in CardRow
  /\ hand[h].does.kind \in {"start", "complete", "cancel"}
  /\ hand[h].does.qty \in Nat
  /\ hand[h].does.kind = "complete" => hand[h].does.qty <= ForQty - hand[h].card.total
\* what it may do, if it was alone
HandMay(h) ==
  /\ hand[h].card = card /\ hand[h].logs = logs
  /\ hand[h].does.kind = "start" => Unfinished(card) /\ Running(logs) = {}
  /\ hand[h].does.kind = "complete" => Unfinished(card)
  /\ hand[h].does.kind = "cancel" => card.docstatus # "Cancelled" /\ card.total = 0 /\ Running(logs) = {}

Pieces(ls) == SumFunctionOnSet([i \in DOMAIN ls |-> ls[i].qty], DOMAIN ls)
OneTimer(ls) ==
  /\ \A i, j \in DOMAIN ls : ls[i].running /\ ls[j].running => i = j
  /\ \A i \in DOMAIN ls : ls[i].running => ls[i].qty = 0
\* card c, its logs and its operation follow one another
Agrees(c, ls, op) ==
  /\ Pieces(ls) = c.total /\ OneTimer(ls)
  /\ op.completed = c.total
  /\ op.status = "Completed" <=> c.status = "Completed"
  /\ c.docstatus = "Cancelled" => op.status = "Pending" /\ Running(ls) = {}

CardInv ==
  /\ card \in CardRow
  /\ operation \in [status : {"Pending", "Work In Progress", "Completed"}, completed : 0 .. ForQty]
  /\ logs \in Seq(LogRow)
  /\ hand = [h \in Hands |-> hand[h]]
  /\ overlapped \in BOOLEAN
  /\ \A h \in Hands : hand[h] # Free => HandHolds(h)
  /\ ~overlapped =>
       /\ \A h \in Hands : hand[h] # Free => HandMay(h)
       /\ \A g, h \in Hands : hand[g] # Free /\ hand[h] # Free => g = h
       /\ Agrees(card, logs, operation)

LEMMA CardConstants == ForQty \in Nat /\ ForQty # 0 /\ \A q \in Reports : q \in Nat
BY CardAssumption

LEMMA CardTotal ==
  ASSUME NEW c \in CardRow
  PROVE  c.total \in Int /\ c.total >= 0 /\ c.total <= ForQty
<1>1. c.total \in 0 .. ForQty
  BY DEF CardRow
<1> QED BY <1>1, CardConstants

\* a log is appended
LEMMA PiecesOfMore ==
  ASSUME NEW ls \in Seq(LogRow), NEW l \in LogRow
  PROVE  /\ Append(ls, l) \in Seq(LogRow)
         /\ Pieces(Append(ls, l)) = Pieces(ls) + l.qty
         /\ DOMAIN Append(ls, l) = DOMAIN ls \cup {Len(ls) + 1} /\ Len(ls) + 1 \notin DOMAIN ls
         /\ Append(ls, l)[Len(ls) + 1] = l /\ \A i \in DOMAIN ls : Append(ls, l)[i] = ls[i]
<1>1. PICK K, n : K = Append(ls, l) /\ n = Len(ls)
  OBVIOUS
<1>2. K \in Seq(LogRow) /\ Len(K) = n + 1 /\ n \in Nat /\ DOMAIN ls = 1 .. n /\ DOMAIN K = 1 .. (n + 1)
      /\ K[n + 1] = l /\ \A i \in DOMAIN ls : K[i] = ls[i]
  BY <1>1
<1>3. DOMAIN K = DOMAIN ls \cup {n + 1} /\ n + 1 \notin DOMAIN ls
  BY <1>2
<1>4. IsFiniteSet(DOMAIN ls)
  BY <1>2, FS_Interval
<1>5. PICK f, g : f = [i \in DOMAIN K |-> K[i].qty] /\ g = [i \in DOMAIN ls |-> ls[i].qty]
  OBVIOUS
<1>6. \A i \in DOMAIN K : K[i] \in LogRow
  BY <1>2
<1>7. \A i \in DOMAIN ls \cup {n + 1} : f[i] \in Int
  BY <1>3, <1>5, <1>6 DEF LogRow
<1>8. SumFunctionOnSet(f, DOMAIN ls \cup {n + 1}) = f[n + 1] + SumFunctionOnSet(f, DOMAIN ls)
  BY <1>3, <1>4, <1>7, SumWith
<1>9. SumFunctionOnSet(f, DOMAIN ls) = SumFunctionOnSet(g, DOMAIN ls)
  <2>1. \A i \in DOMAIN ls : f[i] = g[i]
    BY <1>2, <1>3, <1>5
  <2> QED BY <1>4, <2>1, SumOfSame
<1>10. f[n + 1] = l.qty /\ l.qty \in Int
  BY <1>2, <1>3, <1>5 DEF LogRow
<1>11. SumFunctionOnSet(g, DOMAIN ls) \in Int
  <2>1. \A i \in DOMAIN ls : ls[i] \in LogRow
    OBVIOUS
  <2>2. \A i \in DOMAIN ls : g[i] \in Int
    BY <1>5, <2>1 DEF LogRow
  <2> QED BY <1>4, <2>2, SumIsInt
<1>12. Pieces(K) = SumFunctionOnSet(f, DOMAIN ls \cup {n + 1}) /\ Pieces(ls) = SumFunctionOnSet(g, DOMAIN ls)
  BY <1>3, <1>5 DEF Pieces
<1>13. Pieces(K) = Pieces(ls) + l.qty
  BY <1>8, <1>9, <1>10, <1>11, <1>12
<1> QED BY <1>1, <1>2, <1>3, <1>13

\* the running timer is stopped
LEMMA PiecesOfStopped ==
  ASSUME NEW ls \in Seq(LogRow), NEW k \in DOMAIN ls, ls[k].qty = 0, NEW l \in LogRow
  PROVE  /\ [ls EXCEPT ![k] = l] \in Seq(LogRow)
         /\ Pieces([ls EXCEPT ![k] = l]) = Pieces(ls) + l.qty
<1>1. PICK K, n : K = [ls EXCEPT ![k] = l] /\ n = Len(ls)
  OBVIOUS
<1>2. K \in Seq(LogRow) /\ DOMAIN K = DOMAIN ls /\ DOMAIN ls = 1 .. n /\ n \in Nat
      /\ \A i \in DOMAIN ls : K[i] = IF i = k THEN l ELSE ls[i]
  BY <1>1
<1>3. IsFiniteSet(DOMAIN ls)
  BY <1>2, FS_Interval
<1>4. PICK f, g : f = [i \in DOMAIN ls |-> ls[i].qty] /\ g = [i \in DOMAIN ls |-> K[i].qty]
  OBVIOUS
<1>5. \A i \in DOMAIN ls : ls[i] \in LogRow
  OBVIOUS
<1>6. \A i \in DOMAIN ls : f[i] \in Int
  BY <1>4, <1>5 DEF LogRow
<1>7. g[k] = l.qty /\ l.qty \in Int /\ f[k] = 0
  BY <1>2, <1>4 DEF LogRow
<1>8. \A i \in DOMAIN ls \ {k} : g[i] = f[i]
  BY <1>2, <1>4
<1>9. SumFunctionOnSet(g, DOMAIN ls) = SumFunctionOnSet(f, DOMAIN ls) + g[k] - f[k]
  <2>1. g[k] \in Int
    BY <1>7
  <2> QED BY <1>3, <1>6, <1>8, <2>1, SumOfChange
<1>10. SumFunctionOnSet(f, DOMAIN ls) \in Int
  BY <1>3, <1>6, SumIsInt
<1>11. Pieces(K) = SumFunctionOnSet(g, DOMAIN ls) /\ Pieces(ls) = SumFunctionOnSet(f, DOMAIN ls)
  BY <1>2, <1>4 DEF Pieces
<1> QED BY <1>1, <1>2, <1>7, <1>9, <1>10, <1>11

\* what a report does to the logs
LEMMA ReportedLogs ==
  ASSUME NEW ls \in Seq(LogRow), OneTimer(ls), NEW qty \in Nat
  PROVE  /\ LogsAfter(ls, ls, qty) \in Seq(LogRow)
         /\ Pieces(LogsAfter(ls, ls, qty)) = Pieces(ls) + qty
         /\ OneTimer(LogsAfter(ls, ls, qty))
<1>0. [running |-> FALSE, qty |-> qty] \in LogRow
  BY DEF LogRow
<1>1. PICK l : l = [running |-> FALSE, qty |-> qty] /\ l \in LogRow
  BY <1>0
<1>2. CASE Running(ls) # {}
  <2>1. PICK k : k = Min(Running(ls))
    OBVIOUS
  <2>2. PICK r \in DOMAIN ls : ls[r].running
    BY <1>2 DEF Running
  <2>3. Running(ls) = {r}
    BY <2>2 DEF Running, OneTimer
  <2>4. k \in Running(ls)
    <3>1. DOMAIN ls = 1 .. Len(ls) /\ Len(ls) \in Nat
      OBVIOUS
    <3>2. r \in Nat
      BY <2>2, <3>1
    <3>3. \E x \in Running(ls) : \A y \in Running(ls) : x <= y
      BY <2>3, <3>2
    <3> QED BY <2>1, <3>3 DEF Min
  <2>5. k \in DOMAIN ls /\ ls[k].qty = 0 /\ \A i \in DOMAIN ls : ls[i].running => i = k
    BY <2>2, <2>3, <2>4 DEF OneTimer, Running
  <2>6. LogsAfter(ls, ls, qty) = [ls EXCEPT ![k] = l]
    BY <1>1, <1>2, <2>1 DEF LogsAfter
  <2>7. OneTimer([ls EXCEPT ![k] = l])
    BY <1>1, <2>5 DEF OneTimer
  <2>8. [ls EXCEPT ![k] = l] \in Seq(LogRow) /\ Pieces([ls EXCEPT ![k] = l]) = Pieces(ls) + l.qty
    BY <1>1, <2>5, PiecesOfStopped
  <2> QED BY <1>1, <2>6, <2>7, <2>8
<1>3. CASE Running(ls) = {} /\ qty > 0
  <2>1. LogsAfter(ls, ls, qty) = Append(ls, l)
    BY <1>1, <1>3 DEF LogsAfter
  <2>2. PICK K, n : K = Append(ls, l) /\ n = Len(ls) + 1
    OBVIOUS
  <2>3. K \in Seq(LogRow) /\ Pieces(K) = Pieces(ls) + l.qty /\ DOMAIN K = DOMAIN ls \cup {n} /\ K[n] = l
        /\ \A i \in DOMAIN ls : K[i] = ls[i]
    BY <1>1, <2>2, PiecesOfMore
  <2>4. \A i \in DOMAIN K : ~K[i].running
    BY <1>1, <1>3, <2>3 DEF Running
  <2>5. OneTimer(K)
    BY <2>4 DEF OneTimer
  <2> QED BY <1>1, <2>1, <2>2, <2>3, <2>5
<1>4. CASE Running(ls) = {} /\ ~(qty > 0)
  <2>1. LogsAfter(ls, ls, qty) = ls /\ qty = 0
    BY <1>4 DEF LogsAfter
  <2>2. Pieces(ls) \in Int
    <3>1. PICK f, n : f = [i \in DOMAIN ls |-> ls[i].qty] /\ n = Len(ls)
      OBVIOUS
    <3>2. DOMAIN ls = 1 .. n /\ n \in Nat /\ \A i \in DOMAIN ls : ls[i] \in LogRow
      BY <3>1
    <3>4. \A i \in DOMAIN ls : f[i] \in Int
      BY <3>1, <3>2 DEF LogRow
    <3>3. IsFiniteSet(DOMAIN ls)
      BY <3>2, FS_Interval
    <3> QED BY <3>1, <3>3, <3>4, SumIsInt DEF Pieces
  <2> QED BY <2>1, <2>2
<1> QED BY <1>2, <1>3, <1>4

\* ... also to logs written since it read them
LEMMA ReportTyped ==
  ASSUME NEW ls \in Seq(LogRow), NEW read, NEW qty \in Nat
  PROVE  LogsAfter(ls, read, qty) \in Seq(LogRow)
<1>0. [running |-> FALSE, qty |-> qty] \in LogRow
  BY DEF LogRow
<1>1. PICK l : l = [running |-> FALSE, qty |-> qty] /\ l \in LogRow
  BY <1>0
<1>2. \A k : [ls EXCEPT ![k] = l] \in Seq(LogRow)
  <2> TAKE k
  <2>1. CASE k \in DOMAIN ls
    BY <1>1, <2>1
  <2>2. CASE k \notin DOMAIN ls
    <3>1. [ls EXCEPT ![k] = l] = ls
      BY <2>2
    <3> QED BY <3>1
  <2> QED BY <2>1, <2>2
<1>3. Append(ls, l) \in Seq(LogRow)
  BY <1>1
<1> QED BY <1>1, <1>2, <1>3 DEF LogsAfter

LEMMA CardStart == JInit => CardInv
<1> SUFFICES ASSUME JInit PROVE CardInv
  OBVIOUS
<1>1. card \in CardRow /\ card.total = 0 /\ card.status = "Open" /\ card.docstatus = "Draft"
  BY CardConstants DEF JInit, CardRow
<1>2. /\ operation \in [status : {"Pending", "Work In Progress", "Completed"}, completed : 0 .. ForQty]
      /\ operation.completed = 0 /\ operation.status = "Pending"
  BY CardConstants DEF JInit
<1>3. logs \in Seq(LogRow) /\ DOMAIN logs = {}
  BY DEF JInit
<1>4. Pieces(logs) = 0
  BY <1>3, SumOfEmpty DEF Pieces
<1>5. OneTimer(logs)
  BY <1>3 DEF OneTimer
<1>6. Agrees(card, logs, operation)
  BY <1>1, <1>2, <1>4, <1>5 DEF Agrees
<1>7. hand = [h \in Hands |-> hand[h]] /\ (\A h \in Hands : hand[h] = Free) /\ overlapped = FALSE
  BY DEF JInit
<1> QED BY <1>1, <1>2, <1>3, <1>6, <1>7 DEF CardInv

\* a request reads what it will work on
LEMMA ReadKeeps ==
  ASSUME CardInv, NEW h \in Hands, NEW does, Read(h, does),
         does.kind \in {"start", "complete", "cancel"}, does.qty \in Nat,
         does.kind = "complete" => does.qty <= ForQty - card.total /\ Unfinished(card),
         does.kind = "start" => Unfinished(card) /\ Running(logs) = {},
         does.kind = "cancel" => card.docstatus # "Cancelled" /\ card.total = 0 /\ Running(logs) = {}
  PROVE  CardInv'
<1>1. PICK new : new = [does |-> does, card |-> card, logs |-> logs]
  OBVIOUS
<1>2. /\ hand[h] = Free /\ hand' = [hand EXCEPT ![h] = new]
      /\ overlapped' = (overlapped \/ \E g \in Hands : hand[g] # Free)
      /\ card' = card /\ logs' = logs /\ operation' = operation
  BY <1>1 DEF Read
<1>3. hand' = [g \in Hands |-> hand'[g]] /\ \A g \in Hands : hand'[g] = IF g = h THEN new ELSE hand[g]
  BY <1>2 DEF CardInv
<1>4. new.card = card /\ new.logs = logs /\ new.does = does /\ card \in CardRow
  BY <1>1 DEF CardInv
<1>5. ASSUME NEW g \in Hands, hand'[g] # Free PROVE HandHolds(g)'
  <2>1. CASE g = h
    BY <1>3, <1>4, <2>1 DEF HandHolds
  <2>2. CASE g # h
    BY <1>3, <1>5, <2>2 DEF HandHolds, CardInv
  <2> QED BY <2>1, <2>2
<1>6. ASSUME ~overlapped' PROVE \A g \in Hands \ {h} : hand'[g] = Free
  BY <1>2, <1>3, <1>6
<1>7. ASSUME ~overlapped', NEW g \in Hands, hand'[g] # Free PROVE HandMay(g)'
  <2>1. g = h
    BY <1>6, <1>7
  <2>2. hand'[h] = new
    BY <1>3
  <2> QED BY <1>2, <1>4, <2>1, <2>2 DEF HandMay
<1>8. ASSUME ~overlapped' PROVE Agrees(card', logs', operation')
  BY <1>2, <1>8 DEF CardInv
<1>9. overlapped' \in BOOLEAN
  BY <1>2 DEF CardInv
<1> QED BY <1>2, <1>3, <1>5, <1>6, <1>7, <1>8, <1>9 DEF CardInv

\* a request is done: nobody else is there unless two overlapped
LEMMA HandDone ==
  ASSUME CardInv, NEW h \in Hands, hand[h] # Free, hand' = [hand EXCEPT ![h] = Free],
         UNCHANGED overlapped, card' \in CardRow, logs' \in Seq(LogRow),
         operation' \in [status : {"Pending", "Work In Progress", "Completed"}, completed : 0 .. ForQty],
         ~overlapped => Agrees(card', logs', operation')
  PROVE  CardInv'
<1>1. hand' = [g \in Hands |-> hand'[g]] /\ \A g \in Hands : hand'[g] = IF g = h THEN Free ELSE hand[g]
  BY DEF CardInv
<1>2. ASSUME NEW g \in Hands, hand'[g] # Free PROVE HandHolds(g)'
  BY <1>1, <1>2 DEF HandHolds, CardInv
<1>3. ASSUME ~overlapped' PROVE \A g \in Hands : hand'[g] = Free
  BY <1>1, <1>3 DEF CardInv
<1> QED BY <1>1, <1>2, <1>3 DEF CardInv

\* the columns are written or kept
LEMMA WrittenTyped ==
  ASSUME card \in CardRow, NEW old \in CardRow, NEW new \in CardRow
  PROVE  Written(old, new) \in CardRow /\ (old = card => Written(old, new) = new)
<1>1. Written(old, new) \in CardRow
  BY DEF Written, CardRow
<1>2. ASSUME old = card PROVE Written(old, new) = new
  <2>1. Written(old, new) = [docstatus |-> new.docstatus, status |-> new.status, total |-> new.total]
    BY <1>2 DEF Written
  <2> QED BY <2>1 DEF CardRow
<1> QED BY <1>1, <1>2

LEMMA StartKeeps == ASSUME CardInv, NEW h \in Hands, Start(h) PROVE CardInv'
<1>1. PICK old, new : old = hand[h].card /\ new = [old EXCEPT !.status = "Work In Progress", !.docstatus = Submitted(old)]
  OBVIOUS
<1>2. /\ hand[h] # Free /\ hand[h].does.kind = "start" /\ card' = Written(old, new)
      /\ logs' = Append(logs, [running |-> TRUE, qty |-> 0])
      /\ operation' = [operation EXCEPT !.status = "Work In Progress"]
      /\ hand' = [hand EXCEPT ![h] = Free] /\ UNCHANGED overlapped
  BY <1>1 DEF Start
<1>3. old \in CardRow
  BY <1>1, <1>2 DEF CardInv, HandHolds
<1>4. new \in CardRow /\ new.total = old.total /\ new.status = "Work In Progress"
      /\ (old.docstatus # "Cancelled" => new.docstatus # "Cancelled")
  BY <1>1, <1>3 DEF CardRow, Submitted
<1>5. card' \in CardRow /\ (old = card => card' = new)
  BY <1>2, <1>3, <1>4, WrittenTyped DEF CardInv
<1>0. [running |-> TRUE, qty |-> 0] \in LogRow
  BY DEF LogRow
<1>6. PICK l : l = [running |-> TRUE, qty |-> 0] /\ l \in LogRow
  BY <1>0
<1>7. PICK n : n = Len(logs) + 1
  OBVIOUS
<1>8. /\ logs' \in Seq(LogRow) /\ Pieces(logs') = Pieces(logs) + 0
      /\ DOMAIN logs' = DOMAIN logs \cup {n} /\ logs'[n] = l /\ \A i \in DOMAIN logs : logs'[i] = logs[i]
  <2>1. logs \in Seq(LogRow) /\ logs' = Append(logs, l) /\ l.qty = 0
    BY <1>2, <1>6 DEF CardInv
  <2> QED BY <1>6, <1>7, <2>1, PiecesOfMore
<1>9. /\ operation' \in [status : {"Pending", "Work In Progress", "Completed"}, completed : 0 .. ForQty]
      /\ operation'.completed = operation.completed /\ operation'.status = "Work In Progress"
  BY <1>2 DEF CardInv
<1>10. ASSUME ~overlapped PROVE Agrees(card', logs', operation')
  <2>1. HandMay(h) /\ Agrees(card, logs, operation)
    BY <1>2, <1>10 DEF CardInv
  <2>2. old = card /\ Unfinished(card) /\ Running(logs) = {}
    BY <1>1, <1>2, <2>1 DEF HandMay
  <2>3. card' = new /\ new.docstatus # "Cancelled"
    BY <1>4, <1>5, <2>2 DEF Unfinished
  <2>4. OneTimer(logs')
    BY <1>6, <1>8, <2>2 DEF OneTimer, Running
  <2>5. Pieces(logs') = card'.total /\ operation'.completed = card'.total
    <3>1. card \in CardRow
      BY DEF CardInv
    <3>2. card.total \in Int
      BY <3>1, CardTotal
    <3>3. Pieces(logs) = card.total /\ operation.completed = card.total
      BY <2>1 DEF Agrees
    <3>4. card'.total = card.total
      BY <1>4, <2>2, <2>3
    <3>5. Pieces(logs') = card.total + 0
      BY <1>8, <3>3
    <3>6. card.total + 0 = card.total
      BY <3>2
    <3> QED BY <1>9, <3>3, <3>4, <3>5, <3>6
  <2> QED BY <1>4, <1>9, <2>3, <2>4, <2>5 DEF Agrees
<1> QED BY <1>2, <1>5, <1>8, <1>9, <1>10, HandDone

LEMMA CompleteKeeps == ASSUME CardInv, NEW h \in Hands, Complete(h) PROVE CardInv'
<1>1. PICK old, total, qty : old = hand[h].card /\ total = old.total + qty /\ qty = hand[h].does.qty
  OBVIOUS
<1>2. PICK new : new = [docstatus |-> Submitted(old), status |-> StatusAfter(total), total |-> total]
  OBVIOUS
<1>3. /\ hand[h] # Free /\ hand[h].does.kind = "complete" /\ card' = Written(old, new)
      /\ logs' = LogsAfter(logs, hand[h].logs, qty)
      /\ operation' = OperationAfter(total)
      /\ hand' = [hand EXCEPT ![h] = Free] /\ UNCHANGED overlapped
  BY <1>1, <1>2 DEF Complete
<1>4. old \in CardRow /\ qty \in Nat /\ qty <= ForQty - old.total
  BY <1>1, <1>3 DEF CardInv, HandHolds
<1>5. total \in 0 .. ForQty
  <2>1. old.total \in 0 .. ForQty
    BY <1>4 DEF CardRow
  <2> QED BY <1>1, <1>4, <2>1, CardConstants
<1>6. new \in CardRow /\ new.total = total /\ (new.status = "Completed" <=> total >= ForQty)
      /\ (old.docstatus # "Cancelled" => new.docstatus # "Cancelled")
  <2>1. Submitted(old) \in {"Draft", "Submitted", "Cancelled"}
        /\ (old.docstatus # "Cancelled" => Submitted(old) # "Cancelled")
    BY <1>4 DEF CardRow, Submitted
  <2>2. /\ StatusAfter(total) \in {"Open", "Work In Progress", "Completed", "Cancelled"}
        /\ StatusAfter(total) = "Completed" <=> total >= ForQty
    BY <1>5, CardConstants DEF StatusAfter
  <2> QED BY <1>2, <1>5, <2>1, <2>2 DEF CardRow
<1>7. card' \in CardRow /\ (old = card => card' = new)
  BY <1>3, <1>4, <1>6, WrittenTyped DEF CardInv
<1>8. /\ operation' \in [status : {"Pending", "Work In Progress", "Completed"}, completed : 0 .. ForQty]
      /\ operation'.completed = total /\ (operation'.status = "Completed" <=> total >= ForQty)
  BY <1>3, <1>5, CardConstants DEF OperationAfter
<1>9. logs' \in Seq(LogRow)
  BY <1>3, <1>4, ReportTyped DEF CardInv
<1>10. ASSUME ~overlapped PROVE Agrees(card', logs', operation')
  <2>1. HandMay(h) /\ Agrees(card, logs, operation)
    BY <1>3, <1>10 DEF CardInv
  <2>2. old = card /\ Unfinished(card) /\ hand[h].logs = logs
    BY <1>1, <1>3, <2>1 DEF HandMay
  <2>3. card' = new /\ new.docstatus # "Cancelled"
    BY <1>6, <1>7, <2>2 DEF Unfinished
  <2>4. OneTimer(logs') /\ Pieces(logs') = Pieces(logs) + qty
    BY <1>3, <1>4, <2>1, <2>2, ReportedLogs DEF CardInv, Agrees
  <2>5. Pieces(logs) = old.total
    BY <2>1, <2>2 DEF Agrees
  <2>6. Pieces(logs') = card'.total /\ operation'.completed = card'.total
    BY <1>1, <1>6, <1>8, <2>3, <2>4, <2>5
  <2> QED BY <1>6, <1>8, <2>3, <2>4, <2>6 DEF Agrees
<1> QED BY <1>3, <1>7, <1>8, <1>9, <1>10, HandDone

LEMMA CancelCardKeeps == ASSUME CardInv, NEW h \in Hands, CancelCard(h) PROVE CardInv'
<1>1. PICK old, new : old = hand[h].card /\ new = [old EXCEPT !.docstatus = "Cancelled", !.status = "Cancelled"]
  OBVIOUS
<1>2. /\ hand[h] # Free /\ hand[h].does.kind = "cancel" /\ card' = Written(old, new) /\ logs' = logs
      /\ operation' = [status |-> "Pending", completed |-> 0]
      /\ hand' = [hand EXCEPT ![h] = Free] /\ UNCHANGED overlapped
  BY <1>1 DEF CancelCard
<1>3. old \in CardRow
  BY <1>1, <1>2 DEF CardInv, HandHolds
<1>4. new \in CardRow /\ new.total = old.total /\ new.status = "Cancelled" /\ new.docstatus = "Cancelled"
  BY <1>1, <1>3 DEF CardRow
<1>5. card' \in CardRow /\ (old = card => card' = new)
  BY <1>2, <1>3, <1>4, WrittenTyped DEF CardInv
<1>6. operation' \in [status : {"Pending", "Work In Progress", "Completed"}, completed : 0 .. ForQty]
  BY <1>2, CardConstants
<1>7. ASSUME ~overlapped PROVE Agrees(card', logs', operation')
  <2>1. HandMay(h) /\ Agrees(card, logs, operation)
    BY <1>2, <1>7 DEF CardInv
  <2>2. old = card /\ card.total = 0 /\ Running(logs) = {}
    BY <1>1, <1>2, <2>1 DEF HandMay
  <2> QED BY <1>2, <1>4, <1>5, <2>1, <2>2 DEF Agrees
<1>8. logs' \in Seq(LogRow)
  BY <1>2 DEF CardInv
<1> QED BY <1>2, <1>5, <1>6, <1>7, <1>8, HandDone

LEMMA CardStep == CardInv /\ [JNext]_jvars => CardInv'
<1> SUFFICES ASSUME CardInv, [JNext]_jvars PROVE CardInv'
  OBVIOUS
<1>1. CASE UNCHANGED jvars
  BY <1>1 DEF jvars, CardInv, HandHolds, HandMay, Agrees, OneTimer, Unfinished, Running
<1>2. ASSUME NEW h \in Hands, BeginStart(h) PROVE CardInv'
  BY <1>2, ReadKeeps DEF BeginStart, MayStart
<1>3. ASSUME NEW h \in Hands, NEW qty \in Reports, BeginComplete(h, qty) PROVE CardInv'
  BY <1>3, ReadKeeps, CardConstants DEF BeginComplete, Fitting
<1>4. ASSUME NEW h \in Hands, BeginCancelCard(h) PROVE CardInv'
  <2>1. card.total = 0
    <3>1. card \in CardRow
      BY DEF CardInv
    <3>2. card.total \in 0 .. ForQty
      BY <3>1 DEF CardRow
    <3>3. card.total <= 0
      BY <1>4 DEF BeginCancelCard, MayCancel
    <3> QED BY <3>2, <3>3, CardConstants
  <2> QED BY <1>4, <2>1, ReadKeeps DEF BeginCancelCard, MayCancel
<1> QED BY <1>1, <1>2, <1>3, <1>4, StartKeeps, CompleteKeeps, CancelCardKeeps DEF JNext

LEMMA CardSafe == CardInv => CardFollowsLogs
<1> SUFFICES ASSUME CardInv PROVE CardFollowsLogs
  OBVIOUS
<1>1. JTypeOK
  BY DEF CardInv, JTypeOK, CardRow
<1>2. LogsTellCard
  <2> SUFFICES ASSUME ~overlapped
               PROVE  /\ SumFunctionOnSet([i \in DOMAIN logs |-> logs[i].qty], DOMAIN logs) = card.total
                      /\ Cardinality(Running(logs)) <= 1
    BY DEF LogsTellCard
  <2>1. Pieces(logs) = card.total /\ OneTimer(logs)
    BY DEF CardInv, Agrees
  <2>2. Cardinality(Running(logs)) <= 1
    <3>1. CASE Running(logs) = {}
      BY <3>1, FS_EmptySet
    <3>2. CASE Running(logs) # {}
      <4>1. PICK r : Running(logs) = {r}
        BY <2>1, <3>2 DEF OneTimer, Running
      <4> QED BY <4>1, FS_Singleton
    <3> QED BY <3>1, <3>2
  <2> QED BY <2>1, <2>2 DEF Pieces
<1>3. OperationFollows
  BY DEF CardInv, Agrees, OperationFollows
<1> QED BY <1>1, <1>2, <1>3 DEF CardFollowsLogs

\* Unless two requests overlapped, the total of a job card is the sum of its time
\* logs, one timer runs at most, and the operation of the work order says what
\* the card says; the total never exceeds the quantity, whoever overlapped.
THEOREM CardFollows == JSpec => []CardFollowsLogs
BY CardStart, CardStep, CardSafe, PTL DEF JSpec

-----------------------------------------------------------------------------
(* The material request.  A buyer who holds the lock of a bin is the only    *)
(* one there, so what he read of it, and of a row all whose orders go into   *)
(* it, is still so.  Unless two deals met, all he read is.                   *)

RequestStatuses == {"Draft", "Pending", "Partially Ordered", "Ordered", "Cancelled"}
RequestRow == [docstatus : {"Draft", "Submitted", "Cancelled"}, status : RequestStatuses, ordered : [ReqRows -> Nat]]
PoRow == [docstatus : {"Absent", "Draft", "Submitted", "Cancelled"},
          row : ReqRows \cup {0}, qty : Nat, bin : Bins \cup {NoBin}]
DealRow == [po : POs, sign : {1, -1}, read : [ReqRows -> Nat], docstatus : {"Draft", "Submitted", "Cancelled"},
            status : RequestStatuses, expected : Nat]

Open == {c \in Buyers : deal[c] # NoDeal}
Made(p) == {o \in POs : p[o].docstatus # "Absent"}
InForce(p) == {o \in POs : p[o].docstatus = "Submitted"}
ForRow(p, r) == {o \in POs : p[o].docstatus = "Submitted" /\ p[o].row = r}
ForBin(p, b) == {o \in POs : p[o].docstatus = "Submitted" /\ p[o].bin = b}
QtyIn(p, S) == SumFunctionOnSet([o \in POs |-> p[o].qty], S)
\* all orders of a row go into one bin
Together(p, r) == \E b \in Bins : \A o \in POs : (p[o] # Absent /\ p[o].row = r) => p[o].bin = b

\* what a deal holds is still so,
DealHolds(d) ==
  /\ d \in DealRow /\ Wanting(d.po, d.sign)
  /\ po[d.po].bin \in Bins => d.expected = onOrder[po[d.po].bin]
  /\ Together(po, po[d.po].row) => d.read[po[d.po].row] = request.ordered[po[d.po].row]
\* and all of it if no other deal came between.
DealAlone(d) == d.read = request.ordered /\ d.docstatus = request.docstatus /\ d.status = request.status

RequestTypes ==
  /\ request \in RequestRow /\ po \in [POs -> PoRow] /\ onOrder \in [Bins -> Nat]
  /\ deal = [c \in Buyers |-> deal[c]] /\ met \in BOOLEAN
  /\ IsFiniteSet(Made(po))
  /\ \A o \in POs : IF po[o].docstatus = "Absent" THEN po[o] = Absent
                    ELSE po[o].row \in ReqRows /\ request.docstatus # "Draft"
DealsApart ==
  \A c, d \in Open : deal[c].po = deal[d].po \/ (po[deal[c].po].bin = po[deal[d].po].bin /\ po[deal[c].po].bin \in Bins)
                       => c = d
CountedAs ==
  /\ \A r \in ReqRows : Together(po, r) => request.ordered[r] = QtyIn(po, ForRow(po, r))
  /\ \A b \in Bins : onOrder[b] = QtyIn(po, ForBin(po, b))
\* a row has at most one draft, and that fits
DraftsFit(r) ==
  /\ request.ordered[r] <= Wanted[r]
  /\ \A o \in POs : po[o].docstatus = "Draft" /\ po[o].row = r => request.ordered[r] + po[o].qty <= Wanted[r]
  /\ \A o, q \in POs : po[o].docstatus = "Draft" /\ po[o].row = r /\ po[q].docstatus = "Draft" /\ po[q].row = r => o = q
OneAfterOther ==
  /\ \A c, d \in Open : c = d
  /\ \A c \in Open : DealAlone(deal[c])
  /\ StatusTellsOrdered
  /\ \A r \in ReqRows \ shared : DraftsFit(r)

RequestInv ==
  /\ RequestTypes /\ DealsApart /\ CountedAs
  /\ \A c \in Open : DealHolds(deal[c])
  /\ ~met => OneAfterOther

LEMMA RequestConstants ==
  /\ NoBin \notin Bins /\ \A r \in ReqRows : Wanted[r] \in Nat
  /\ \A q \in Amounts : q \in Nat
BY RequestAssumption

LEMMA StatusKnown == \A x : RequestStatus(x) \in {"Pending", "Partially Ordered", "Ordered"}
BY DEF RequestStatus

LEMMA OrderMade ==
  ASSUME RequestInv, NEW o \in POs, po[o].docstatus # "Absent"
  PROVE  po[o] # Absent /\ po[o].row \in ReqRows /\ po[o].qty \in Nat /\ po[o].bin \in Bins \cup {NoBin}
         /\ request.docstatus # "Draft"
<1>1. po[o].row \in ReqRows /\ request.docstatus # "Draft" /\ po[o] \in PoRow
  BY DEF RequestInv, RequestTypes
<1> QED BY <1>1 DEF PoRow, Absent

LEMMA RequestStart == RInit => RequestInv
<1> SUFFICES ASSUME RInit PROVE RequestInv
  OBVIOUS
<1>1. /\ request \in RequestRow /\ \A r \in ReqRows : request.ordered[r] = 0
      /\ request.docstatus = "Draft"
  BY DEF RInit, RequestRow, RequestStatuses
<1>2. /\ po \in [POs -> PoRow] /\ \A o \in POs : po[o] = Absent /\ po[o].docstatus = "Absent"
      /\ onOrder \in [Bins -> Nat] /\ \A b \in Bins : onOrder[b] = 0
  BY DEF RInit, PoRow, Absent
<1>3. Made(po) = {} /\ Open = {}
  BY <1>2 DEF RInit, Made, Open
<1>4. RequestTypes
  BY <1>1, <1>2, <1>3, FS_EmptySet DEF RequestTypes, RInit
<1>5. \A r : ForRow(po, r) = {} /\ ForBin(po, r) = {}
  BY <1>2 DEF ForRow, ForBin
<1>6. QtyIn(po, {}) = 0
  BY SumOfEmpty DEF QtyIn
<1>7. CountedAs
  BY <1>1, <1>2, <1>5, <1>6 DEF CountedAs
<1>8. \A r \in ReqRows : DraftsFit(r)
  BY <1>1, <1>2, RequestConstants DEF DraftsFit
<1>9. OneAfterOther
  BY <1>1, <1>3, <1>8 DEF OneAfterOther, StatusTellsOrdered
<1> QED BY <1>3, <1>4, <1>7, <1>9 DEF RequestInv, DealsApart

\* the request is submitted or cancelled
LEMMA RequestTurns ==
  ASSUME RequestInv, request' \in RequestRow, request'.ordered = request.ordered, request'.docstatus # "Draft",
         UNCHANGED <<po, onOrder, deal, shared>>, met' \in BOOLEAN,
         ~met' => ~met /\ Open = {} /\ StatusTellsOrdered'
  PROVE  RequestInv'
<1>1. RequestTypes'
  BY DEF RequestInv, RequestTypes, Made
<1>2. DealsApart' /\ Open' = Open
  BY DEF RequestInv, DealsApart, Open
<1>3. CountedAs'
  BY DEF RequestInv, CountedAs, Together, QtyIn, ForRow, ForBin
<1>4. ASSUME NEW c \in Open PROVE DealHolds(deal[c])'
  <2>1. DealHolds(deal[c])
    BY DEF RequestInv
  <2> QED BY <2>1 DEF DealHolds, Wanting, Together
<1>5. ASSUME ~met' PROVE OneAfterOther'
  <2>1. OneAfterOther
    BY <1>5 DEF RequestInv
  <2>2. \A r \in ReqRows \ shared' : DraftsFit(r)'
    BY <2>1 DEF OneAfterOther, DraftsFit
  <2> QED BY <1>2, <1>5, <2>2 DEF OneAfterOther
<1> QED BY <1>1, <1>2, <1>3, <1>4, <1>5 DEF RequestInv

LEMMA SubmitRequestKeeps == ASSUME RequestInv, SubmitRequest PROVE RequestInv'
<1>1. Open = {}
  <2> SUFFICES ASSUME NEW c \in Open PROVE FALSE
    OBVIOUS
  <2>1. deal[c].po \in POs /\ Wanting(deal[c].po, deal[c].sign)
    BY DEF RequestInv, DealHolds, DealRow
  <2>2. po[deal[c].po].docstatus # "Absent"
    BY <2>1 DEF Wanting
  <2> QED BY <2>1, <2>2, OrderMade DEF SubmitRequest
<1>2. request \in RequestRow /\ met \in BOOLEAN
  BY DEF RequestInv, RequestTypes
<1>3. /\ request' \in RequestRow /\ request'.ordered = request.ordered /\ request'.docstatus = "Submitted"
      /\ request'.status = RequestStatus(request.ordered)
  BY <1>2, StatusKnown DEF SubmitRequest, RequestRow, RequestStatuses
<1>4. StatusTellsOrdered'
  BY <1>3 DEF StatusTellsOrdered, RequestStatus, TheLess
<1> QED BY <1>1, <1>2, <1>3, <1>4, RequestTurns DEF SubmitRequest

LEMMA CancelRequestKeeps == ASSUME RequestInv, CancelRequest PROVE RequestInv'
<1>1. request \in RequestRow /\ met \in BOOLEAN
  BY DEF RequestInv, RequestTypes
<1>2. request' \in RequestRow /\ request'.ordered = request.ordered /\ request'.docstatus = "Cancelled"
  BY <1>1 DEF CancelRequest, RequestRow, RequestStatuses
<1>3. met' \in BOOLEAN /\ (~met' => ~met /\ Open = {})
  BY <1>1 DEF CancelRequest, Open
<1>4. StatusTellsOrdered'
  BY <1>2 DEF StatusTellsOrdered
<1> QED BY <1>2, <1>3, <1>4, RequestTurns DEF CancelRequest

LEMMA DraftOrderKeeps ==
  ASSUME RequestInv, NEW o \in POs, NEW r \in ReqRows, NEW qty \in Amounts, NEW bin \in Bins \cup {NoBin},
         DraftOrder(o, r, qty, bin)
  PROVE  RequestInv'
<1>1. PICK new : new = [docstatus |-> "Draft", row |-> r, qty |-> qty, bin |-> bin]
  OBVIOUS
<1>2. /\ po[o] = Absent /\ request.docstatus = "Submitted" /\ request.ordered[r] + qty <= Wanted[r]
      /\ po' = [po EXCEPT ![o] = new]
      /\ shared' = IF \E q \in POs : po[q].docstatus = "Draft" /\ po[q].row = r THEN shared \cup {r} ELSE shared
      /\ UNCHANGED <<request, onOrder, deal, met>>
  BY <1>1 DEF DraftOrder, Fits, Ordered
<1>3. new \in PoRow /\ new.docstatus = "Draft" /\ new.row = r /\ new.qty = qty /\ new.bin = bin
  BY <1>1, RequestConstants DEF PoRow
<1>4. po' \in [POs -> PoRow] /\ \A q \in POs : po'[q] = IF q = o THEN new ELSE po[q]
  BY <1>2, <1>3 DEF RequestInv, RequestTypes
<1>5. po[o].docstatus = "Absent"
  BY <1>2 DEF Absent
<1>6. Made(po') = Made(po) \cup {o}
  BY <1>3, <1>4 DEF Made
<1>7. RequestTypes'
  <2>1. IsFiniteSet(Made(po'))
    BY <1>6, FS_AddElement DEF RequestInv, RequestTypes
  <2>2. \A q \in POs : IF po'[q].docstatus = "Absent" THEN po'[q] = Absent
                       ELSE po'[q].row \in ReqRows /\ request'.docstatus # "Draft"
    BY <1>2, <1>3, <1>4 DEF RequestInv, RequestTypes
  <2> QED BY <1>2, <1>4, <2>1, <2>2 DEF RequestInv, RequestTypes
<1>8. Open' = Open /\ \A c \in Open : deal[c].po \in POs /\ deal[c].po # o /\ deal'[c] = deal[c]
  <2>1. ASSUME NEW c \in Open PROVE deal[c].po \in POs /\ po[deal[c].po].docstatus # "Absent"
    BY DEF RequestInv, DealHolds, DealRow, Wanting
  <2> QED BY <1>2, <1>5, <2>1 DEF Open
<1>9. DealsApart'
  BY <1>4, <1>8 DEF RequestInv, DealsApart
<1>10. ASSUME NEW x PROVE ForRow(po', x) = ForRow(po, x) /\ ForBin(po', x) = ForBin(po, x)
                          /\ (Together(po', x) => Together(po, x))
  <2>1. ForRow(po', x) = ForRow(po, x) /\ ForBin(po', x) = ForBin(po, x)
    BY <1>3, <1>4, <1>5 DEF ForRow, ForBin
  <2>2. Together(po', x) => Together(po, x)
    BY <1>2, <1>4 DEF Together
  <2> QED BY <2>1, <2>2
<1>11. ASSUME NEW S, S \subseteq InForce(po) PROVE QtyIn(po', S) = QtyIn(po, S)
  <2>1. IsFiniteSet(S)
    <3>1. S \subseteq Made(po)
      BY <1>11 DEF InForce, Made
    <3> QED BY <3>1, FS_Subset DEF RequestInv, RequestTypes
  <2>2. PICK f, g : f = [q \in POs |-> po'[q].qty] /\ g = [q \in POs |-> po[q].qty]
    OBVIOUS
  <2>3. \A q \in S : f[q] = g[q]
    BY <1>4, <1>5, <1>11, <2>2 DEF InForce
  <2>4. SumFunctionOnSet(f, S) = SumFunctionOnSet(g, S)
    BY <2>1, <2>3, SumOfSame
  <2> QED BY <2>2, <2>4 DEF QtyIn
<1>12. CountedAs'
  <2>1. \A x : ForRow(po, x) \subseteq InForce(po) /\ ForBin(po, x) \subseteq InForce(po)
    BY DEF ForRow, ForBin, InForce
  <2>2. CountedAs
    BY DEF RequestInv
  <2> QED BY <1>2, <1>10, <1>11, <2>1, <2>2 DEF CountedAs
<1>13. ASSUME NEW c \in Open PROVE DealHolds(deal[c])'
  <2>1. DealHolds(deal[c]) /\ po'[deal[c].po] = po[deal[c].po]
    BY <1>4, <1>8 DEF RequestInv
  <2> QED BY <1>2, <1>10, <2>1 DEF DealHolds, Wanting
<1>14. ASSUME ~met' PROVE OneAfterOther'
  <2>1. OneAfterOther
    BY <1>2, <1>14 DEF RequestInv
  <2>2. ASSUME NEW x \in ReqRows \ shared' PROVE DraftsFit(x)'
    <3>1. x \in ReqRows \ shared /\ DraftsFit(x)
      BY <1>2, <2>1 DEF OneAfterOther
    <3>2. x = r => \A q \in POs : ~(po[q].docstatus = "Draft" /\ po[q].row = r)
      BY <1>2
    <3> QED BY <1>2, <1>3, <1>4, <3>1, <3>2 DEF DraftsFit
  <2>3. StatusTellsOrdered'
    BY <1>2, <2>1 DEF OneAfterOther, StatusTellsOrdered, RequestStatus, TheLess
  <2>4. \A c \in Open : DealAlone(deal[c])'
    BY <1>2, <2>1 DEF OneAfterOther, DealAlone
  <2> QED BY <1>8, <2>1, <2>2, <2>3, <2>4 DEF OneAfterOther
<1> QED BY <1>7, <1>8, <1>9, <1>12, <1>13, <1>14 DEF RequestInv

LEMMA BeginDealKeeps ==
  ASSUME RequestInv, NEW c \in Buyers, NEW o \in POs, NEW sign \in {1, -1}, BeginDeal(c, o, sign)
  PROVE  RequestInv'
<1>1. PICK new : new = [po |-> o, sign |-> sign, read |-> request.ordered, docstatus |-> request.docstatus,
                        status |-> request.status,
                        expected |-> IF po[o].bin = NoBin THEN 0 ELSE onOrder[po[o].bin]]
  OBVIOUS
<1>2. /\ deal[c] = NoDeal /\ Wanting(o, sign) /\ (\A d \in Open : deal[d].po # o)
      /\ BinFree(po[o].bin) /\ deal' = [deal EXCEPT ![c] = new]
      /\ met' = (met \/ Open # {})
      /\ UNCHANGED <<request, po, onOrder, shared>>
  BY <1>1 DEF BeginDeal, Open
<1>3. po[o].bin \in Bins \cup {NoBin} /\ request \in RequestRow /\ onOrder \in [Bins -> Nat]
  <2>1. po[o].docstatus # "Absent"
    BY <1>2 DEF Wanting
  <2> QED BY <2>1, OrderMade DEF RequestInv, RequestTypes
<1>4. new \in DealRow /\ new.po = o /\ new.read = request.ordered
      /\ (po[o].bin \in Bins => new.expected = onOrder[po[o].bin])
  BY <1>1, <1>3, RequestConstants DEF DealRow, RequestRow
<1>5. deal' = [d \in Buyers |-> deal'[d]] /\ \A d \in Buyers : deal'[d] = IF d = c THEN new ELSE deal[d]
  BY <1>2 DEF RequestInv, RequestTypes
<1>6. RequestTypes'
  BY <1>2, <1>5 DEF RequestInv, RequestTypes, Made
<1>7. Open' \subseteq Open \cup {c} /\ c \notin Open
  BY <1>2, <1>5 DEF Open
<1>8. \A d \in Open : deal'[d] = deal[d] /\ deal[d].po # o
                      /\ ~(po[o].bin \in Bins /\ po[deal[d].po].bin = po[o].bin)
  BY <1>2, <1>5, <1>7, RequestConstants DEF BinFree, Open
<1>9. DealsApart'
  <2>1. \A d, e \in Open' : d = e \/ d \in Open \/ e \in Open
    BY <1>7
  <2>2. DealsApart
    BY DEF RequestInv
  <2>3. ASSUME NEW d \in Open', NEW e \in Open', d # e
        PROVE  ~(deal'[d].po = deal'[e].po
                 \/ (po[deal'[d].po].bin = po[deal'[e].po].bin /\ po[deal'[d].po].bin \in Bins))
    <3>1. CASE d \in Open /\ e \in Open
      BY <1>8, <2>2, <2>3, <3>1 DEF DealsApart
    <3>2. CASE d = c
      BY <1>4, <1>5, <1>7, <1>8, <2>3, <3>2
    <3>3. CASE e = c
      BY <1>4, <1>5, <1>7, <1>8, <2>3, <3>3
    <3> QED BY <1>7, <3>1, <3>2, <3>3
  <2> QED BY <1>2, <2>3 DEF DealsApart
<1>10. CountedAs'
  BY <1>2 DEF RequestInv, CountedAs, Together, QtyIn, ForRow, ForBin
<1>11. ASSUME NEW d \in Open' PROVE DealHolds(deal[d])'
  <2>1. CASE d = c
    BY <1>1, <1>2, <1>4, <1>5, <2>1 DEF DealHolds, Wanting
  <2>2. CASE d # c
    <3>1. d \in Open /\ deal'[d] = deal[d]
      BY <1>7, <1>8, <2>2
    <3>2. DealHolds(deal[d])
      BY <3>1 DEF RequestInv
    <3> QED BY <1>2, <3>1, <3>2 DEF DealHolds, Wanting, Together
  <2> QED BY <2>1, <2>2
<1>12. ASSUME ~met' PROVE OneAfterOther'
  <2>1. OneAfterOther /\ Open = {}
    BY <1>2, <1>12 DEF RequestInv, RequestTypes
  <2>2. \A d \in Open' : d = c
    BY <1>7, <2>1
  <2>3. DealAlone(new)'
    BY <1>1, <1>2 DEF DealAlone
  <2>4. StatusTellsOrdered' /\ \A r \in ReqRows \ shared' : DraftsFit(r)'
    BY <1>2, <1>12, <2>1 DEF OneAfterOther, StatusTellsOrdered, RequestStatus, TheLess, DraftsFit
  <2> QED BY <1>5, <2>2, <2>3, <2>4 DEF OneAfterOther
<1> QED BY <1>6, <1>9, <1>10, <1>11, <1>12 DEF RequestInv

LEMMA RefuseDealKeeps == ASSUME RequestInv, NEW c \in Buyers, RefuseDeal(c) PROVE RequestInv'
<1>1. /\ deal' = [deal EXCEPT ![c] = NoDeal] /\ UNCHANGED <<request, po, onOrder, met, shared>>
  BY DEF RefuseDeal
<1>2. deal' = [d \in Buyers |-> deal'[d]] /\ \A d \in Buyers : deal'[d] = IF d = c THEN NoDeal ELSE deal[d]
  BY <1>1 DEF RequestInv, RequestTypes
<1>3. Open' \subseteq Open /\ \A d \in Open' : deal'[d] = deal[d]
  BY <1>2 DEF Open
<1>4. RequestTypes'
  BY <1>1, <1>2 DEF RequestInv, RequestTypes, Made
<1>5. DealsApart'
  BY <1>1, <1>3 DEF RequestInv, DealsApart
<1>6. CountedAs'
  BY <1>1 DEF RequestInv, CountedAs, Together, QtyIn, ForRow, ForBin
<1>7. ASSUME NEW d \in Open' PROVE DealHolds(deal[d])'
  <2>1. deal'[d] = deal[d] /\ DealHolds(deal[d])
    BY <1>3 DEF RequestInv
  <2> QED BY <1>1, <2>1 DEF DealHolds, Wanting, Together
<1>8. ASSUME ~met' PROVE OneAfterOther'
  <2>1. OneAfterOther
    BY <1>1, <1>8 DEF RequestInv
  <2>2. StatusTellsOrdered' /\ \A r \in ReqRows \ shared' : DraftsFit(r)'
    BY <1>1, <2>1 DEF OneAfterOther, StatusTellsOrdered, RequestStatus, TheLess, DraftsFit
  <2>3. \A d \in Open' : DealAlone(deal[d])'
    BY <1>1, <1>3, <2>1 DEF OneAfterOther, DealAlone
  <2> QED BY <1>3, <2>1, <2>2, <2>3 DEF OneAfterOther
<1> QED BY <1>4, <1>5, <1>6, <1>7, <1>8 DEF RequestInv

\* an order comes into force or out of it
LEMMA QtyMoves ==
  ASSUME RequestInv, NEW o \in POs, NEW sign \in {1, -1}, Wanting(o, sign), NEW A, A \subseteq InForce(po),
         sign = -1 => o \in A
  PROVE  /\ QtyIn(po, IF sign = 1 THEN A \cup {o} ELSE A \ {o}) = SumOf(QtyIn(po, A), Signed(o, sign))
         /\ QtyIn(po, A) \in Nat
<1>1. PICK f : f = [q \in POs |-> po[q].qty]
  OBVIOUS
<1>2. IsFiniteSet(A) /\ A \subseteq POs
  <2>1. A \subseteq Made(po) /\ Made(po) \subseteq POs
    BY DEF InForce, Made
  <2> QED BY <2>1, FS_Subset DEF RequestInv, RequestTypes
<1>3. \A q \in POs : f[q] \in Nat
  BY <1>1 DEF RequestInv, RequestTypes, PoRow
<1>4. SumFunctionOnSet(f, A) \in Nat
  BY <1>2, <1>3, SumOfPart
<1>5. f[o] \in Nat /\ Signed(o, sign) = sign * f[o]
  BY <1>1, <1>3 DEF Signed
<1>6. CASE sign = 1
  <2>1. o \notin A
    BY <1>6 DEF Wanting, InForce
  <2>2. SumFunctionOnSet(f, A \cup {o}) = f[o] + SumFunctionOnSet(f, A)
    <3>1. \A y \in A \cup {o} : f[y] \in Int
      BY <1>2, <1>3
    <3> QED BY <1>2, <2>1, <3>1, SumWith
  <2> QED BY <1>1, <1>4, <1>5, <1>6, <2>2 DEF QtyIn, SumOf, AtLeastZero
<1>7. CASE sign = -1
  <2>1. SumFunctionOnSet(f, A) = f[o] + SumFunctionOnSet(f, A \ {o})
    <3>1. \A y \in A : f[y] \in Int
      BY <1>2, <1>3
    <3> QED BY <1>2, <1>7, <3>1, SumWithout
  <2>2. SumFunctionOnSet(f, A \ {o}) \in Nat
    <3>1. A \ {o} \in SUBSET A /\ \A y \in A : f[y] \in Nat
      BY <1>2, <1>3
    <3> QED BY <1>2, <3>1, SumOfPart
  <2>3. Signed(o, sign) = -f[o]
    BY <1>5, <1>7
  <2>4. SumFunctionOnSet(f, A \ {o}) = SumOf(SumFunctionOnSet(f, A), Signed(o, sign))
    BY <1>4, <1>5, <2>1, <2>2, <2>3 DEF SumOf, AtLeastZero
  <2> QED BY <1>1, <1>4, <1>7, <2>4 DEF QtyIn
<1> QED BY <1>6, <1>7

LEMMA EndDealKeeps == ASSUME RequestInv, NEW c \in Buyers, EndDeal(c) PROVE RequestInv'
<1>1. PICK d, o, x, new, status :
        /\ d = deal[c] /\ o = d.po /\ x = po[o]
        /\ new = [d.read EXCEPT ![x.row] = SumOf(@, Signed(o, d.sign))]
        /\ status = StatusOf(new, d.docstatus, d.status)
  OBVIOUS
<1>2. PICK doc : doc = IF d.sign = 1 THEN "Submitted" ELSE "Cancelled"
  OBVIOUS
<1>3. /\ c \in Open
      /\ request' = [request EXCEPT !.ordered[x.row] = new[x.row], !.status = IF status # d.status THEN status ELSE @]
      /\ po' = [po EXCEPT ![o].docstatus = doc]
      /\ onOrder' = IF x.bin = NoBin THEN onOrder
                    ELSE [onOrder EXCEPT ![x.bin] = SumOf(d.expected, Signed(o, d.sign))]
      /\ deal' = [deal EXCEPT ![c] = NoDeal] /\ UNCHANGED <<met, shared>>
  BY <1>1, <1>2 DEF EndDeal, Open
<1>4. /\ d \in DealRow /\ o \in POs /\ d.sign \in {1, -1} /\ Wanting(o, d.sign) /\ DealHolds(d)
      /\ d.read \in [ReqRows -> Nat] /\ d.expected \in Nat
  <2>1. DealHolds(deal[c])
    BY <1>3 DEF RequestInv
  <2> QED BY <1>1, <2>1 DEF DealHolds, DealRow
<1>5. /\ x \in PoRow /\ x.docstatus # "Absent" /\ x # Absent /\ x.row \in ReqRows /\ x.qty \in Nat
      /\ x.bin \in Bins \cup {NoBin} /\ request.docstatus # "Draft"
      /\ x.docstatus = IF d.sign = 1 THEN "Draft" ELSE "Submitted"
  <2>1. x.docstatus # "Absent" /\ x.docstatus = IF d.sign = 1 THEN "Draft" ELSE "Submitted"
    BY <1>1, <1>4 DEF Wanting
  <2> QED BY <1>1, <1>4, <2>1, OrderMade DEF RequestInv, RequestTypes
<1>27. Signed(o, d.sign) \in Int /\ Signed(o, d.sign) = IF d.sign = 1 THEN x.qty ELSE -x.qty
  <2>1. Signed(o, d.sign) = d.sign * x.qty
    BY <1>1 DEF Signed
  <2>2. CASE d.sign = 1
    BY <1>5, <2>1, <2>2
  <2>3. CASE d.sign = -1
    BY <1>5, <2>1, <2>3
  <2> QED BY <1>4, <2>2, <2>3
<1>6. PICK n : n = SumOf(d.read[x.row], Signed(o, d.sign))
  OBVIOUS
<1>7. n \in Nat /\ new = [d.read EXCEPT ![x.row] = n] /\ new[x.row] = n /\ new \in [ReqRows -> Nat]
  <2>1. d.read[x.row] \in Nat /\ Signed(o, d.sign) \in Int
    BY <1>4, <1>5, <1>27
  <2>2. n \in Nat
    BY <1>6, <2>1 DEF SumOf, AtLeastZero
  <2> QED BY <1>1, <1>4, <1>5, <1>6, <2>2
<1>8. PICK told : told = IF status # d.status THEN status ELSE request.status
  OBVIOUS
<1>9. /\ request' \in RequestRow /\ request'.docstatus = request.docstatus /\ request'.status = told
      /\ request'.ordered = [request.ordered EXCEPT ![x.row] = n]
      /\ request.ordered \in [ReqRows -> Nat]
  <2>1. request \in RequestRow
    BY DEF RequestInv, RequestTypes
  <2>2. told \in RequestStatuses
    <3>1. status \in RequestStatuses
      BY <1>1, <1>4, StatusKnown DEF StatusOf, DealRow, RequestStatuses
    <3> QED BY <1>8, <2>1, <3>1 DEF RequestRow
  <2>3. request' = [request EXCEPT !.ordered[x.row] = n, !.status = told]
    BY <1>3, <1>7, <1>8
  <2>4. request.ordered \in [ReqRows -> Nat]
    BY <2>1 DEF RequestRow
  <2>5. request' = [request EXCEPT !.ordered = [request.ordered EXCEPT ![x.row] = n], !.status = told]
    BY <2>1, <2>3 DEF RequestRow
  <2>6. [request.ordered EXCEPT ![x.row] = n] \in [ReqRows -> Nat]
    BY <1>7, <2>4
  <2> QED BY <2>1, <2>2, <2>4, <2>5, <2>6 DEF RequestRow
<1>10. \A r \in ReqRows : request'.ordered[r] = IF r = x.row THEN n ELSE request.ordered[r]
  BY <1>9
<1>11. /\ po' \in [POs -> PoRow]
       /\ \A q \in POs : /\ po'[q].row = po[q].row /\ po'[q].qty = po[q].qty /\ po'[q].bin = po[q].bin
                         /\ po'[q].docstatus = IF q = o THEN doc ELSE po[q].docstatus
                         /\ q # o => po'[q] = po[q]
  <2>1. PICK new2 : new2 = [x EXCEPT !.docstatus = doc]
    OBVIOUS
  <2>2. new2 \in PoRow /\ new2.row = x.row /\ new2.qty = x.qty /\ new2.bin = x.bin /\ new2.docstatus = doc
    BY <1>2, <1>5, <2>1 DEF PoRow
  <2>3. po' = [po EXCEPT ![o] = new2] /\ po \in [POs -> PoRow]
    BY <1>1, <1>3, <1>4, <2>1 DEF RequestInv, RequestTypes
  <2>4. po' \in [POs -> PoRow] /\ \A q \in POs : po'[q] = IF q = o THEN new2 ELSE po[q]
    BY <1>4, <2>2, <2>3
  <2> QED BY <1>1, <2>2, <2>4
<1>12. po'[o] # Absent /\ Made(po') = Made(po) /\ (\A r : Together(po', r) = Together(po, r))
  <2>1. po'[o] # Absent
    BY <1>2, <1>4, <1>11 DEF Absent
  <2>2. Made(po') = Made(po)
    <3>1. \A q \in POs : (po'[q].docstatus # "Absent" <=> po[q].docstatus # "Absent")
      BY <1>1, <1>2, <1>5, <1>11
    <3> QED BY <3>1 DEF Made
  <2>3. \A q \in POs : (po'[q] # Absent <=> po[q] # Absent)
    BY <1>1, <1>5, <1>11, <2>1
  <2>4. \A r : Together(po', r) = Together(po, r)
    BY <1>11, <2>3 DEF Together
  <2> QED BY <2>1, <2>2, <2>4
<1>13. onOrder' \in [Bins -> Nat]
       /\ \A b \in Bins : onOrder'[b] = IF b = x.bin THEN SumOf(onOrder[b], Signed(o, d.sign)) ELSE onOrder[b]
  <2>1. onOrder \in [Bins -> Nat] /\ Signed(o, d.sign) \in Int
    BY <1>27 DEF RequestInv, RequestTypes
  <2>2. x.bin \in Bins => d.expected = onOrder[x.bin]
    BY <1>1, <1>4 DEF DealHolds
  <2>3. SumOf(d.expected, Signed(o, d.sign)) \in Nat
    BY <1>4, <2>1 DEF SumOf, AtLeastZero
  <2> QED BY <1>3, <1>5, <2>1, <2>2, <2>3, RequestConstants
<1>14. deal' = [e \in Buyers |-> deal'[e]] /\ \A e \in Buyers : deal'[e] = IF e = c THEN NoDeal ELSE deal[e]
  BY <1>3 DEF RequestInv, RequestTypes
<1>15. Open' \subseteq Open \ {c} /\ \A e \in Open' : deal'[e] = deal[e]
  BY <1>14 DEF Open
<1>16. \A e \in Open' : /\ deal[e].po \in POs /\ deal[e].po # o
                        /\ ~(x.bin \in Bins /\ po[deal[e].po].bin = x.bin)
  <2>1. DealsApart /\ \A e \in Open' : e \in Open /\ e # c /\ DealHolds(deal[e])
    BY <1>15 DEF RequestInv
  <2> QED BY <1>1, <1>3, <2>1 DEF DealsApart, DealHolds, DealRow
<1>17. RequestTypes'
  <2>1. \A q \in POs : IF po'[q].docstatus = "Absent" THEN po'[q] = Absent
                       ELSE po'[q].row \in ReqRows /\ request'.docstatus # "Draft"
    <3> SUFFICES ASSUME NEW q \in POs
                 PROVE  IF po'[q].docstatus = "Absent" THEN po'[q] = Absent
                        ELSE po'[q].row \in ReqRows /\ request'.docstatus # "Draft"
      OBVIOUS
    <3>1. CASE q = o
      BY <1>1, <1>2, <1>5, <1>9, <1>11, <3>1
    <3>2. CASE q # o
      BY <1>9, <1>11, <3>2 DEF RequestInv, RequestTypes
    <3> QED BY <3>1, <3>2
  <2> QED BY <1>3, <1>9, <1>11, <1>12, <1>13, <1>14, <2>1 DEF RequestInv, RequestTypes
<1>18. DealsApart'
  <2>1. DealsApart
    BY DEF RequestInv
  <2>2. \A e \in Open' : e \in Open /\ deal'[e] = deal[e] /\ deal[e].po \in POs /\ po'[deal[e].po] = po[deal[e].po]
    BY <1>11, <1>15, <1>16
  <2> QED BY <2>1, <2>2 DEF DealsApart
<1>19. ASSUME NEW A, A \subseteq InForce(po), NEW B, B = IF d.sign = 1 THEN A \cup {o} ELSE A \ {o},
              d.sign = -1 => o \in A
       PROVE  QtyIn(po', B) = SumOf(QtyIn(po, A), Signed(o, d.sign))
  <2>1. QtyIn(po', B) = QtyIn(po, B)
    <3>1. [q \in POs |-> po'[q].qty] = [q \in POs |-> po[q].qty]
      BY <1>11
    <3> QED BY <3>1 DEF QtyIn
  <2> QED BY <1>4, <1>19, <2>1, QtyMoves
<1>20. ASSUME NEW A, A \subseteq InForce(po), o \notin A PROVE QtyIn(po', A) = QtyIn(po, A)
  <2>1. [q \in POs |-> po'[q].qty] = [q \in POs |-> po[q].qty]
    BY <1>11
  <2> QED BY <2>1 DEF QtyIn
<1>21. \A r : ForRow(po, r) \subseteq InForce(po) /\ ForBin(po, r) \subseteq InForce(po)
  BY DEF ForRow, ForBin, InForce
<1>22. /\ ForRow(po', x.row) = IF d.sign = 1 THEN ForRow(po, x.row) \cup {o} ELSE ForRow(po, x.row) \ {o}
       /\ ForBin(po', x.bin) = IF d.sign = 1 THEN ForBin(po, x.bin) \cup {o} ELSE ForBin(po, x.bin) \ {o}
       /\ d.sign = -1 => o \in ForRow(po, x.row) /\ o \in ForBin(po, x.bin)
  <2>1. /\ (doc = "Submitted" <=> d.sign = 1) /\ (po[o].docstatus = "Submitted" <=> d.sign # 1)
        /\ po[o].row = x.row /\ po[o].bin = x.bin
    BY <1>1, <1>2, <1>4, <1>5
  <2>2. ForRow(po', x.row) = IF d.sign = 1 THEN ForRow(po, x.row) \cup {o} ELSE ForRow(po, x.row) \ {o}
    BY <1>4, <1>11, <2>1 DEF ForRow
  <2>3. ForBin(po', x.bin) = IF d.sign = 1 THEN ForBin(po, x.bin) \cup {o} ELSE ForBin(po, x.bin) \ {o}
    BY <1>4, <1>11, <2>1 DEF ForBin
  <2>4. d.sign = -1 => o \in ForRow(po, x.row) /\ o \in ForBin(po, x.bin)
    BY <1>4, <2>1 DEF ForRow, ForBin
  <2> QED BY <2>2, <2>3, <2>4
<1>23. \A r : /\ r # x.row => ForRow(po', r) = ForRow(po, r) /\ o \notin ForRow(po, r)
              /\ r # x.bin => ForBin(po', r) = ForBin(po, r) /\ o \notin ForBin(po, r)
  <2> TAKE r
  <2>1. ASSUME r # x.row PROVE ForRow(po', r) = ForRow(po, r) /\ o \notin ForRow(po, r)
    <3>1. po[o].row # r /\ \A q \in POs : po'[q].row = r => po'[q].docstatus = po[q].docstatus
      BY <1>1, <1>11, <2>1
    <3> QED BY <1>11, <3>1 DEF ForRow
  <2>2. ASSUME r # x.bin PROVE ForBin(po', r) = ForBin(po, r) /\ o \notin ForBin(po, r)
    <3>1. po[o].bin # r /\ \A q \in POs : po'[q].bin = r => po'[q].docstatus = po[q].docstatus
      BY <1>1, <1>11, <2>2
    <3> QED BY <1>11, <3>1 DEF ForBin
  <2> QED BY <2>1, <2>2
<1>24. CountedAs'
  <2>0. CountedAs
    BY DEF RequestInv
  <2>1. ASSUME NEW r \in ReqRows, Together(po', r)
        PROVE  request'.ordered[r] = QtyIn(po', ForRow(po', r))
    <3>1. Together(po, r) /\ request.ordered[r] = QtyIn(po, ForRow(po, r))
      BY <1>12, <2>0, <2>1 DEF CountedAs
    <3>2. CASE r = x.row
      <4>1. d.read[r] = request.ordered[r]
        BY <1>1, <1>4, <3>1, <3>2 DEF DealHolds
      <4>2. QtyIn(po', ForRow(po', r)) = SumOf(QtyIn(po, ForRow(po, r)), Signed(o, d.sign))
        BY <1>19, <1>21, <1>22, <3>2
      <4> QED BY <1>6, <1>10, <3>1, <3>2, <4>1, <4>2
    <3>3. CASE r # x.row
      BY <1>10, <1>20, <1>21, <1>23, <3>1, <3>3
    <3> QED BY <3>2, <3>3
  <2>2. ASSUME NEW b \in Bins PROVE onOrder'[b] = QtyIn(po', ForBin(po', b))
    <3>1. onOrder[b] = QtyIn(po, ForBin(po, b))
      BY <2>0 DEF CountedAs
    <3>2. CASE b = x.bin
      <4>1. QtyIn(po', ForBin(po', b)) = SumOf(QtyIn(po, ForBin(po, b)), Signed(o, d.sign))
        BY <1>19, <1>21, <1>22, <3>2
      <4> QED BY <1>13, <3>1, <3>2, <4>1
    <3>3. CASE b # x.bin
      BY <1>13, <1>20, <1>21, <1>23, <3>1, <3>3
    <3> QED BY <3>2, <3>3
  <2> QED BY <2>1, <2>2 DEF CountedAs
<1>25. ASSUME NEW e \in Open' PROVE DealHolds(deal[e])'
  <2>1. PICK p : p = deal[e].po
    OBVIOUS
  <2>2. e \in Open /\ deal'[e] = deal[e] /\ p \in POs /\ po'[p] = po[p] /\ DealHolds(deal[e])
    BY <1>11, <1>15, <1>16, <2>1 DEF RequestInv
  <2>3. po[p].docstatus # "Absent"
    BY <2>1, <2>2 DEF DealHolds, Wanting
  <2>4. po[p] # Absent /\ po[p].row \in ReqRows
    BY <2>2, <2>3, OrderMade
  <2>5. po[p].bin \in Bins => onOrder'[po[p].bin] = onOrder[po[p].bin]
    BY <1>13, <1>15, <1>16, <2>1
  <2>6. Together(po, po[p].row) => request'.ordered[po[p].row] = request.ordered[po[p].row]
    <3> SUFFICES ASSUME Together(po, po[p].row), po[p].row = x.row PROVE FALSE
      BY <1>10, <2>4
    <3>1. PICK b \in Bins : \A q \in POs : (po[q] # Absent /\ po[q].row = x.row) => po[q].bin = b
      BY DEF Together
    <3>2. x.bin = b /\ po[p].bin = b
      BY <1>1, <1>4, <1>5, <2>2, <2>4, <3>1
    <3> QED BY <1>16, <2>1, <3>2
  <2> QED BY <1>12, <2>1, <2>2, <2>5, <2>6 DEF DealHolds, Wanting
<1>26. ASSUME ~met' PROVE OneAfterOther'
  <2>1. OneAfterOther
    BY <1>3, <1>26 DEF RequestInv
  <2>2. Open' = {}
    BY <1>3, <1>15, <2>1 DEF OneAfterOther
  <2>3. DealAlone(d)
    BY <1>1, <1>3, <2>1 DEF OneAfterOther
  <2>4. n = SumOf(request.ordered[x.row], Signed(o, d.sign)) /\ request'.ordered = new
    BY <1>6, <1>7, <1>9, <2>3 DEF DealAlone
  <2>5. StatusTellsOrdered'
    <3> SUFFICES ASSUME request'.docstatus = "Submitted" PROVE request'.status = RequestStatus(request'.ordered)
      BY DEF StatusTellsOrdered, RequestStatus, TheLess
    <3>1. status = RequestStatus(new)
      BY <1>1, <1>9, <2>3 DEF DealAlone, StatusOf
    <3>2. told = status
      BY <1>8, <2>3 DEF DealAlone
    <3> QED BY <1>9, <2>4, <3>1, <3>2
  <2>6. ASSUME NEW r \in ReqRows \ shared' PROVE DraftsFit(r)'
    <3>1. DraftsFit(r)
      BY <1>3, <2>1 DEF OneAfterOther
    <3>2. \A q \in POs : po'[q].docstatus = "Draft" => q # o /\ po[q].docstatus = "Draft" /\ po'[q] = po[q]
      BY <1>2, <1>11
    <3>3. CASE r # x.row
      <4>1. request'.ordered[r] = request.ordered[r]
        BY <1>10, <3>3
      <4> QED BY <1>3, <3>1, <3>2, <4>1 DEF DraftsFit
    <3>4. CASE r = x.row /\ d.sign = 1
      <4>1. x.docstatus = "Draft" /\ request.ordered[r] + x.qty <= Wanted[r]
        BY <1>1, <1>4, <1>5, <3>1, <3>4 DEF DraftsFit
      <4>2. Signed(o, d.sign) = x.qty
        BY <1>27, <3>4
      <4>3. request.ordered[r] \in Nat
        BY <1>9
      <4>4. request'.ordered[r] <= Wanted[r]
        BY <1>5, <1>10, <2>4, <3>4, <4>1, <4>2, <4>3 DEF SumOf, AtLeastZero
      <4>5. \A q \in POs : ~(po'[q].docstatus = "Draft" /\ po'[q].row = r)
        BY <1>1, <1>4, <3>1, <3>2, <3>4, <4>1 DEF DraftsFit
      <4> QED BY <4>4, <4>5 DEF DraftsFit
    <3>5. CASE r = x.row /\ d.sign = -1
      <4>1. Signed(o, d.sign) = -x.qty
        BY <1>27, <3>5
      <4>2. request.ordered[r] \in Nat /\ Wanted[r] \in Nat
        BY <1>9, RequestConstants
      <4>3. request'.ordered[r] <= request.ordered[r] /\ request'.ordered[r] \in Nat
        BY <1>5, <1>10, <2>4, <3>5, <4>1, <4>2 DEF SumOf, AtLeastZero
      <4>4. \A q \in POs : po[q].qty \in Nat
        BY DEF RequestInv, RequestTypes, PoRow
      <4>5. request'.ordered[r] <= Wanted[r]
        BY <3>1, <4>2, <4>3 DEF DraftsFit
      <4>6. ASSUME NEW q \in POs, po'[q].docstatus = "Draft", po'[q].row = r
            PROVE  request'.ordered[r] + po'[q].qty <= Wanted[r]
        <5>1. po'[q] = po[q] /\ request.ordered[r] + po[q].qty <= Wanted[r]
          BY <3>1, <3>2, <4>6 DEF DraftsFit
        <5> QED BY <4>2, <4>3, <4>4, <5>1
      <4>7. \A p, q \in POs : po'[p].docstatus = "Draft" /\ po'[p].row = r /\ po'[q].docstatus = "Draft"
                              /\ po'[q].row = r => p = q
        BY <3>1, <3>2 DEF DraftsFit
      <4> QED BY <4>5, <4>6, <4>7 DEF DraftsFit
    <3> QED BY <1>4, <3>3, <3>4, <3>5
  <2> QED BY <2>2, <2>5, <2>6 DEF OneAfterOther
<1> QED BY <1>17, <1>18, <1>24, <1>25, <1>26 DEF RequestInv

LEMMA RequestStep == RequestInv /\ [RNext]_rvars => RequestInv'
<1> SUFFICES ASSUME RequestInv, [RNext]_rvars PROVE RequestInv'
  OBVIOUS
<1>1. CASE UNCHANGED rvars
  <2>1. UNCHANGED <<request, po, onOrder, deal, met, shared>>
    BY <1>1 DEF rvars
  <2>2. RequestTypes' /\ DealsApart' /\ CountedAs' /\ Open' = Open
    BY <2>1 DEF RequestInv, RequestTypes, DealsApart, CountedAs, Open, Made, Together, QtyIn, ForRow, ForBin
  <2>3. \A c \in Open' : DealHolds(deal[c])'
    BY <2>1, <2>2 DEF RequestInv, DealHolds, Wanting, Together
  <2>4. ~met' => OneAfterOther'
    BY <2>1, <2>2 DEF RequestInv, OneAfterOther, DealAlone, StatusTellsOrdered, RequestStatus, TheLess, DraftsFit
  <2> QED BY <2>2, <2>3, <2>4 DEF RequestInv
<1>2. CASE SubmitRequest
  BY <1>2, SubmitRequestKeeps
<1>3. CASE CancelRequest
  BY <1>3, CancelRequestKeeps
<1>4. ASSUME NEW o \in POs, NEW r \in ReqRows, NEW qty \in Amounts, NEW bin \in Bins \cup {NoBin},
             DraftOrder(o, r, qty, bin)
      PROVE  RequestInv'
  BY <1>4, DraftOrderKeeps
<1>5. ASSUME NEW c \in Buyers, NEW o \in POs, NEW sign \in {1, -1}, BeginDeal(c, o, sign) PROVE RequestInv'
  BY <1>5, BeginDealKeeps
<1> QED BY <1>1, <1>2, <1>3, <1>4, <1>5, EndDealKeeps, RefuseDealKeeps DEF RNext

LEMMA RequestSafe == RequestInv => RequestFollowsOrders /\ NeverOverordered
<1> SUFFICES ASSUME RequestInv PROVE RequestFollowsOrders /\ NeverOverordered
  OBVIOUS
<1>1. RTypeOK
  BY OrderMade DEF RequestInv, RequestTypes, RequestRow, RequestStatuses, RTypeOK
<1>2. OrderedIsStanding
  BY DEF RequestInv, CountedAs, Together, QtyIn, ForRow, OrderedIsStanding, OneBin, Ordered, QtyOf, Standing
<1>3. ExpectedIsStanding
  BY DEF RequestInv, CountedAs, QtyIn, ForBin, ExpectedIsStanding, QtyOf
<1>4. StatusTellsOrdered
  BY DEF RequestInv, OneAfterOther, StatusTellsOrdered
<1>5. NeverOverordered
  BY DEF RequestInv, OneAfterOther, DraftsFit, NeverOverordered, Ordered
<1> QED BY <1>1, <1>2, <1>3, <1>4, <1>5 DEF RequestFollowsOrders

\* The ordered quantities of a request and the expected quantities of the bins
\* are those of the purchase orders in force, for any number of buyers, and what
\* is ordered beyond the request took two drafts or two purchases at once.
THEOREM RequestFollows == RSpec => [](RequestFollowsOrders /\ NeverOverordered)
BY RequestStart, RequestStep, RequestSafe, PTL DEF RSpec

-----------------------------------------------------------------------------
(* The production plan.  A row either has no order and counts nothing, or    *)
(* has one and counts all it plans, in the plan and in every copy of it.     *)

Workers == {p \in Planners : task[p] # NoTask}
Unlinked(row) == row.order = 0 /\ row.ordered = 0
\* the row tells the work order it names
RowTells(row, made) ==
  row.order # 0 => /\ row.planned > 0 /\ row.ordered = row.planned
                   /\ row.order \in DOMAIN made /\ made[row.order] = row.ordered
RowSound(row, made) == (row.order = 0 => row.ordered = 0) /\ RowTells(row, made)
\* a planner's copy knows no link the plan has not
CopySound(copy) ==
  \A r \in PlanRows :
    /\ copy.rows[r].planned = plan.rows[r].planned
    /\ IF copy.rows[r].order = 0 THEN copy.rows[r].ordered = 0
       ELSE copy.rows[r].ordered = copy.rows[r].planned /\ plan.rows[r].order # 0
TaskSound(t) ==
  /\ t \in TaskType /\ plan.docstatus # "Draft" /\ CopySound(t.copy)
  /\ \A r \in t.todo : plan.rows[r].planned > 0 /\ t.copy.rows[r].order = 0
  /\ t.made # 0 =>
       /\ t.doing = "orders" /\ t.row \in PlanRows /\ t.row \notin t.todo
       /\ t.copy.rows[t.row].order = 0 /\ plan.rows[t.row].planned > 0
       /\ t.made \in DOMAIN orders[t.row] /\ orders[t.row][t.made] = plan.rows[t.row].planned
PlanSound ==
  /\ plan \in PlanType
  /\ orders \in [PlanRows -> Seq(Nat)] /\ requests \in 0 .. MaxOrders
  /\ task = [p \in Planners |-> task[p]] /\ interrupted \in BOOLEAN
  /\ \A r \in PlanRows : RowSound(plan.rows[r], orders[r])
  /\ plan.docstatus = "Draft" =>
       /\ requests = 0 /\ Workers = {} /\ plan.status = "Draft"
       /\ \A r \in PlanRows : orders[r] = <<>> /\ plan.rows[r].order = 0
  /\ plan.status = "Completed" => \A r \in PlanRows : plan.rows[r].planned > 0 => plan.rows[r].order # 0
  /\ plan.proposal.edition \in {0, plan.edition}
  /\ \A p \in Workers : TaskSound(task[p])

\* Unless a creation died or met another request: the one planner at work has
\* the plan as it is, and an order without its link is in his hands.
Making(r) == \E p \in Workers : task[p].made # 0 /\ task[p].row = r
PlanAlone ==
  /\ \A p, q \in Workers : p = q
  /\ \A p \in Workers : \A r \in PlanRows : task[p].copy.rows[r].order = plan.rows[r].order
  /\ \A r \in PlanRows : /\ Len(orders[r]) <= 1
                         /\ Len(orders[r]) = 1 => orders[r][1] = plan.rows[r].planned
                         /\ orders[r] # <<>> /\ plan.rows[r].order = 0 => Making(r)
  /\ requests # 0 /\ ~plan.requestsMade => \E p \in Workers : task[p].doing = "request"
  /\ plan.docstatus = "Cancelled" =>
       Workers = {} /\ requests = 0 /\ \A r \in PlanRows : orders[r] = <<>>

PlanInv == PlanSound /\ (~interrupted => PlanAlone)

LEMMA PlanConstants ==
  /\ \A q \in Quantities : q \in Nat /\ q # 0
  /\ MaxOrders \in Nat /\ MaxEdits \in Nat
  /\ NoTask \notin TaskType
BY PlanAssumption, TaskAssumption

LEMMA RowFacts ==
  ASSUME NEW row \in RowType
  PROVE  /\ row.planned \in Nat /\ row.ordered \in Nat /\ row.order \in Nat
         /\ row.planned \in Quantities \cup {0} /\ row.order \in 0 .. MaxOrders
<1>1. row.planned \in Quantities \cup {0} /\ row.ordered \in Nat /\ row.order \in 0 .. MaxOrders
  BY DEF RowType
<1> QED BY <1>1, PlanConstants

LEMMA PlanStart == PInit => PlanInv
<1> SUFFICES ASSUME PInit PROVE PlanInv
  OBVIOUS
<1>1. NoRow \in RowType /\ NoRow.order = 0 /\ NoRow.ordered = 0 /\ NoRow.planned = 0
  BY PlanConstants DEF NoRow, RowType
<1>2. /\ plan \in PlanType /\ plan.docstatus = "Draft" /\ plan.status = "Draft"
      /\ plan.rows = [r \in PlanRows |-> NoRow] /\ plan.proposal.edition = 0
  BY <1>1, PlanConstants DEF PInit, PlanType, NoProposal
<1>3. \A r \in PlanRows : plan.rows[r] = NoRow /\ orders[r] = <<>>
  BY <1>2 DEF PInit
<1>4. Workers = {} /\ requests = 0 /\ interrupted = FALSE /\ task = [p \in Planners |-> task[p]]
  BY DEF PInit, Workers
<1>5. orders \in [PlanRows -> Seq(Nat)] /\ requests \in 0 .. MaxOrders
  BY PlanConstants DEF PInit
<1>6. PlanSound
  BY <1>1, <1>2, <1>3, <1>4, <1>5 DEF PlanSound, RowSound, RowTells
<1>7. PlanAlone
  BY <1>2, <1>3, <1>4 DEF PlanAlone
<1> QED BY <1>6, <1>7 DEF PlanInv

\* a draft is edited, exploded or submitted
LEMMA DraftTurns ==
  ASSUME PlanInv, plan.docstatus = "Draft", plan' \in PlanType, UNCHANGED <<orders, requests, task, interrupted>>,
         \A r \in PlanRows : Unlinked(plan'.rows[r]),
         plan'.docstatus \in {"Draft", "Submitted"}, plan'.status # "Completed",
         plan'.docstatus = "Draft" => plan'.status = "Draft",
         plan'.proposal.edition \in {0, plan'.edition}
  PROVE  PlanInv'
<1>1. requests = 0 /\ Workers = {} /\ \A r \in PlanRows : orders[r] = <<>>
  BY DEF PlanInv, PlanSound
<1>2. Workers' = {}
  BY <1>1 DEF Workers
<1>3. \A r \in PlanRows : RowSound(plan'.rows[r], orders'[r])
  BY DEF RowSound, RowTells, Unlinked
<1>4. PlanSound'
  BY <1>1, <1>2, <1>3 DEF PlanInv, PlanSound, Unlinked
<1>5. PlanAlone'
  BY <1>1, <1>2 DEF PlanAlone
<1> QED BY <1>4, <1>5 DEF PlanInv

LEMMA EditRowsKeeps ==
  ASSUME PlanInv, NEW p \in Planners, NEW qty \in [PlanRows -> Quantities \cup {0}], EditRows(p, qty)
  PROVE  PlanInv'
<1>1. PICK rows : rows = [r \in PlanRows |-> IF qty[r] = 0 THEN NoRow ELSE RowOf(qty[r])]
  OBVIOUS
<1>2. rows \in [PlanRows -> RowType] /\ \A r \in PlanRows : Unlinked(rows[r])
  <2>1. ASSUME NEW r \in PlanRows PROVE rows[r] \in RowType /\ Unlinked(rows[r])
    BY <1>1, PlanConstants DEF NoRow, RowOf, RowType, Unlinked
  <2> QED BY <1>1, <2>1
<1>3. plan \in PlanType /\ plan.docstatus = "Draft" /\ plan.status = "Draft" /\ plan.edition < MaxEdits
  BY DEF EditRows, Editable, PlanInv, PlanSound
<1>4. plan.edition + 1 \in 0 .. MaxEdits
  <2>1. plan.edition \in 0 .. MaxEdits
    BY <1>3 DEF PlanType
  <2> QED BY <1>3, <2>1, PlanConstants
<1>5. plan' = [plan EXCEPT !.rows = rows, !.edition = plan.edition + 1, !.proposal = NoProposal]
  BY <1>1 DEF EditRows, WithRows
<1>6. NoProposal \in [edition : 0 .. MaxEdits, requested : BOOLEAN] /\ NoProposal.edition = 0
  BY PlanConstants DEF NoProposal
<1>7. /\ plan' \in PlanType /\ plan'.rows = rows /\ plan'.docstatus = "Draft" /\ plan'.status = "Draft"
      /\ plan'.proposal.edition = 0
  BY <1>2, <1>3, <1>4, <1>5, <1>6 DEF PlanType
<1> QED BY <1>2, <1>3, <1>7, DraftTurns DEF EditRows

LEMMA GetRawMaterialsKeeps == ASSUME PlanInv, NEW p \in Planners, GetRawMaterials(p) PROVE PlanInv'
<1>1. plan \in PlanType /\ plan.docstatus = "Draft" /\ plan.status = "Draft"
  BY DEF GetRawMaterials, PlanInv, PlanSound
<1>2. PICK new : new = [edition |-> plan.edition, requested |-> FALSE]
  OBVIOUS
<1>3. new \in [edition : 0 .. MaxEdits, requested : BOOLEAN] /\ new.edition = plan.edition
  BY <1>1, <1>2 DEF PlanType
<1>4. plan' = [plan EXCEPT !.proposal = new]
  BY <1>2 DEF GetRawMaterials
<1>5. /\ plan' \in PlanType /\ plan'.rows = plan.rows /\ plan'.docstatus = "Draft" /\ plan'.status = "Draft"
      /\ plan'.proposal.edition = plan'.edition
  BY <1>1, <1>3, <1>4 DEF PlanType
<1>6. \A r \in PlanRows : Unlinked(plan'.rows[r])
  BY <1>1, <1>5 DEF PlanInv, PlanSound, RowSound, Unlinked
<1> QED BY <1>1, <1>5, <1>6, DraftTurns DEF GetRawMaterials

LEMMA SubmitPlanKeeps == ASSUME PlanInv, NEW p \in Planners, SubmitPlan(p) PROVE PlanInv'
<1>1. plan \in PlanType /\ plan.docstatus = "Draft" /\ plan.proposal.edition \in {0, plan.edition}
  BY DEF SubmitPlan, PlanInv, PlanSound
<1>2. plan' = [plan EXCEPT !.docstatus = "Submitted", !.status = "Submitted"]
  BY DEF SubmitPlan
<1>3. /\ plan' \in PlanType /\ plan'.rows = plan.rows /\ plan'.docstatus = "Submitted"
      /\ plan'.status = "Submitted" /\ plan'.proposal = plan.proposal /\ plan'.edition = plan.edition
  BY <1>1, <1>2 DEF PlanType
<1>4. \A r \in PlanRows : Unlinked(plan'.rows[r])
  BY <1>1, <1>3 DEF PlanInv, PlanSound, RowSound, Unlinked
<1> QED BY <1>1, <1>3, <1>4, DraftTurns DEF SubmitPlan

LEMMA CancelPlanKeeps == ASSUME PlanInv, NEW p \in Planners, CancelPlan(p) PROVE PlanInv'
<1>1. /\ ~Working(p) /\ plan.docstatus = "Submitted" /\ Barren(plan)
      /\ plan' = [plan EXCEPT !.docstatus = "Cancelled", !.status = "Cancelled"]
      /\ interrupted' = (interrupted \/ \E q \in Planners \ {p} : Working(q))
      /\ UNCHANGED <<orders, requests, task>> /\ plan \in PlanType
  BY DEF CancelPlan, Meets, PlanInv, PlanSound
<1>2. /\ plan' \in PlanType /\ plan'.rows = plan.rows /\ plan'.docstatus = "Cancelled" /\ plan'.status = "Cancelled"
      /\ plan'.proposal = plan.proposal /\ plan'.edition = plan.edition /\ plan'.requestsMade = plan.requestsMade
  BY <1>1 DEF PlanType
<1>3. Workers' = Workers
  BY <1>1 DEF Workers
<1>4. ASSUME NEW q \in Workers PROVE TaskSound(task[q])'
  <2>1. TaskSound(task[q])
    BY DEF PlanInv, PlanSound
  <2> QED BY <1>1, <1>2, <2>1 DEF TaskSound, CopySound
<1>5. PlanSound'
  BY <1>1, <1>2, <1>3, <1>4 DEF PlanInv, PlanSound
<1>6. ASSUME ~interrupted' PROVE PlanAlone'
  <2>1. Workers = {} /\ PlanAlone
    BY <1>1, <1>6 DEF Workers, Working, PlanInv
  <2>2. \A r \in PlanRows : orders[r] = <<>>
    BY <1>1, <2>1 DEF PlanAlone, Making, Barren
  <2>3. requests = 0
    BY <1>1, <2>1 DEF PlanAlone, Barren
  <2> QED BY <1>1, <1>2, <1>3, <2>1, <2>2, <2>3 DEF PlanAlone
<1> QED BY <1>5, <1>6 DEF PlanInv

\* a planner takes up work with the plan as it is
LEMMA TakesUp ==
  ASSUME PlanInv, NEW p \in Planners, ~Working(p), plan.docstatus = "Submitted", NEW new \in TaskType,
         new.copy = plan, new.todo \subseteq NeedsOrder(plan), new.made = 0, task' = [task EXCEPT ![p] = new],
         Meets(p), UNCHANGED <<plan, orders>>, requests' \in 0 .. MaxOrders,
         requests' # requests => new.doing = "request"
  PROVE  PlanInv'
<1>1. task' = [q \in Planners |-> task'[q]] /\ \A q \in Planners : task'[q] = IF q = p THEN new ELSE task[q]
  BY DEF PlanInv, PlanSound
<1>2. Workers' = Workers \cup {p} /\ p \notin Workers
  BY <1>1, PlanConstants DEF Workers, Working
<1>3. interrupted' \in BOOLEAN /\ (~interrupted' => ~interrupted /\ Workers = {})
  BY <1>2 DEF Meets, Workers, Working, PlanInv, PlanSound
<1>4. TaskSound(new)'
  <2>1. \A r \in PlanRows : RowSound(plan.rows[r], orders[r])
    BY DEF PlanInv, PlanSound
  <2>2. CopySound(new.copy)'
    BY <2>1 DEF CopySound, RowSound, RowTells
  <2>3. \A r \in new.todo : plan.rows[r].planned > 0 /\ plan.rows[r].order = 0
    BY DEF NeedsOrder, Planned
  <2> QED BY <2>2, <2>3 DEF TaskSound
<1>5. ASSUME NEW q \in Workers PROVE TaskSound(task[q])'
  <2>1. TaskSound(task[q]) /\ task'[q] = task[q]
    BY <1>1, <1>2 DEF PlanInv, PlanSound, Workers
  <2> QED BY <2>1 DEF TaskSound, CopySound
<1>6. PlanSound'
  BY <1>1, <1>2, <1>3, <1>4, <1>5 DEF PlanInv, PlanSound
<1>7. ASSUME ~interrupted' PROVE PlanAlone'
  <2>1. PlanAlone /\ Workers' = {p} /\ task'[p] = new
    BY <1>1, <1>2, <1>3, <1>7 DEF PlanInv
  <2>2. \A r \in PlanRows : orders[r] # <<>> => plan.rows[r].order # 0
    BY <1>3, <1>7, <2>1 DEF PlanAlone, Making
  <2>3. requests' # 0 /\ ~plan.requestsMade => new.doing = "request"
    BY <1>3, <1>7, <2>1 DEF PlanAlone
  <2> QED BY <2>1, <2>2, <2>3 DEF PlanAlone
<1> QED BY <1>6, <1>7 DEF PlanInv

LEMMA BeginsKeep ==
  ASSUME PlanInv, NEW p \in Planners, BeginOrders(p) \/ BeginRequest(p)
  PROVE  PlanInv'
<1>1. plan \in PlanType /\ requests \in 0 .. MaxOrders
  BY DEF PlanInv, PlanSound
<1>2. NeedsOrder(plan) \subseteq PlanRows /\ 0 \in 0 .. MaxOrders
  BY PlanConstants DEF NeedsOrder, Planned
<1>3. CASE BeginOrders(p)
  <2>1. PICK new : new = [doing |-> "orders", todo |-> NeedsOrder(plan), copy |-> plan, made |-> 0, row |-> 0]
    OBVIOUS
  <2>2. new \in TaskType /\ new.copy = plan /\ new.todo = NeedsOrder(plan) /\ new.made = 0
    BY <1>1, <1>2, <2>1 DEF TaskType
  <2> QED BY <1>1, <1>3, <2>1, <2>2, TakesUp DEF BeginOrders
<1>4. CASE BeginRequest(p)
  <2>1. PICK new : new = [doing |-> "request", todo |-> {}, copy |-> plan, made |-> 0, row |-> 0]
    OBVIOUS
  <2>2. new \in TaskType /\ new.copy = plan /\ new.todo \subseteq NeedsOrder(plan) /\ new.made = 0
        /\ new.doing = "request"
    BY <1>1, <1>2, <2>1 DEF TaskType
  <2>3. requests' \in 0 .. MaxOrders
    BY <1>1, <1>4, PlanConstants DEF BeginRequest
  <2> QED BY <1>4, <2>1, <2>2, <2>3, TakesUp DEF BeginRequest
<1> QED BY <1>3, <1>4

\* the planner at work works on
LEMMA TaskOf ==
  ASSUME PlanInv, NEW p \in Planners, Working(p)
  PROVE  /\ p \in Workers /\ TaskSound(task[p]) /\ task[p] \in TaskType /\ task[p].copy \in PlanType
         /\ task[p].copy.rows \in [PlanRows -> RowType] /\ plan \in PlanType /\ plan.rows \in [PlanRows -> RowType]
         /\ plan.docstatus # "Draft"
<1>1. p \in Workers /\ TaskSound(task[p]) /\ plan \in PlanType
  BY DEF Working, Workers, PlanInv, PlanSound
<1>2. task[p] \in TaskType /\ plan.docstatus # "Draft"
  BY <1>1 DEF TaskSound
<1>3. task[p].copy \in PlanType
  BY <1>2 DEF TaskType
<1> QED BY <1>1, <1>2, <1>3 DEF PlanType

LEMMA CreateOrderKeeps == ASSUME PlanInv, NEW p \in Planners, NEW r \in PlanRows, CreateOrder(p, r) PROVE PlanInv'
<1>1. PICK t, n, k, x, new :
        /\ t = task[p] /\ x = t.copy.rows[r] /\ n = LeftToOrder(x) /\ k = Len(orders[r]) + 1
        /\ new = [t EXCEPT !.made = k, !.row = r, !.todo = @ \ {r}]
  OBVIOUS
<1>2. /\ Working(p) /\ t.doing = "orders" /\ t.made = 0 /\ r \in t.todo /\ Len(orders[r]) < MaxOrders
      /\ orders' = [orders EXCEPT ![r] = Append(orders[r], n)]
      /\ task' = [task EXCEPT ![p] = new]
      /\ UNCHANGED <<plan, requests, interrupted>>
  BY <1>1 DEF CreateOrder, PlanInv, PlanSound
<1>3. /\ TaskSound(t) /\ t \in TaskType /\ p \in Workers /\ x \in RowType /\ plan.rows[r] \in RowType
      /\ plan.docstatus # "Draft"
  BY <1>1, <1>2, TaskOf
<1>4. x.order = 0 /\ x.ordered = 0 /\ x.planned = plan.rows[r].planned /\ plan.rows[r].planned > 0
  BY <1>1, <1>2, <1>3 DEF TaskSound, CopySound
<1>5. n = plan.rows[r].planned /\ n \in Nat
  BY <1>1, <1>3, <1>4, RowFacts DEF LeftToOrder
<1>6. /\ orders[r] \in Seq(Nat) /\ k \in Nat /\ k # 0 /\ k \in 0 .. MaxOrders /\ k \notin DOMAIN orders[r]
      /\ Append(orders[r], n) \in Seq(Nat) /\ Len(Append(orders[r], n)) = k
      /\ DOMAIN Append(orders[r], n) = DOMAIN orders[r] \cup {k}
      /\ Append(orders[r], n)[k] = n /\ \A j \in DOMAIN orders[r] : Append(orders[r], n)[j] = orders[r][j]
  <2>1. PICK os : os = orders[r] /\ os \in Seq(Nat)
    BY DEF PlanInv, PlanSound
  <2>2. PICK l : l = Len(os) /\ l \in Nat /\ k = l + 1 /\ DOMAIN os = 1 .. l
    BY <1>1, <2>1
  <2>3. Append(os, n) \in Seq(Nat) /\ Len(Append(os, n)) = l + 1 /\ DOMAIN Append(os, n) = 1 .. (l + 1)
        /\ Append(os, n)[l + 1] = n /\ \A j \in DOMAIN os : Append(os, n)[j] = os[j]
    BY <1>5, <2>1, <2>2
  <2>4. k \in 0 .. MaxOrders /\ k \notin DOMAIN os /\ 1 .. (l + 1) = DOMAIN os \cup {k}
    BY <1>2, <2>1, <2>2, PlanConstants
  <2> QED BY <2>1, <2>2, <2>3, <2>4
<1>7. /\ orders' \in [PlanRows -> Seq(Nat)]
      /\ \A q \in PlanRows : orders'[q] = IF q = r THEN Append(orders[r], n) ELSE orders[q]
      /\ \A q \in PlanRows : \A j \in DOMAIN orders[q] : j \in DOMAIN orders'[q] /\ orders'[q][j] = orders[q][j]
  <2>1. orders \in [PlanRows -> Seq(Nat)]
    BY DEF PlanInv, PlanSound
  <2>2. orders' \in [PlanRows -> Seq(Nat)]
        /\ \A q \in PlanRows : orders'[q] = IF q = r THEN Append(orders[r], n) ELSE orders[q]
    BY <1>2, <1>6, <2>1
  <2> QED BY <1>6, <2>2
<1>8. /\ new \in TaskType /\ new.made = k /\ new.row = r /\ new.todo = t.todo \ {r} /\ new.copy = t.copy
      /\ new.doing = "orders"
  BY <1>1, <1>2, <1>3, <1>6 DEF TaskType
<1>9. task' = [q \in Planners |-> task'[q]] /\ \A q \in Planners : task'[q] = IF q = p THEN new ELSE task[q]
  BY <1>2 DEF PlanInv, PlanSound
<1>10. Workers' = Workers
  BY <1>3, <1>8, <1>9, PlanConstants DEF Workers
<1>11. TaskSound(new)'
  <2>1. CopySound(new.copy)'
    <3>1. CopySound(t.copy)
      BY <1>3 DEF TaskSound
    <3> QED BY <1>2, <1>8, <3>1 DEF CopySound
  <2>2. \A q \in new.todo : plan'.rows[q].planned > 0 /\ new.copy.rows[q].order = 0
    BY <1>2, <1>3, <1>8 DEF TaskSound
  <2>3. k \in DOMAIN orders'[r] /\ orders'[r][k] = plan'.rows[r].planned
    BY <1>2, <1>5, <1>6, <1>7
  <2>4. x.order = 0 /\ new.copy.rows[r].order = 0 /\ plan'.rows[r].planned > 0 /\ r \notin new.todo /\ r \in PlanRows
    BY <1>1, <1>2, <1>4, <1>8
  <2> QED BY <1>2, <1>3, <1>6, <1>8, <2>1, <2>2, <2>3, <2>4 DEF TaskSound
<1>12. ASSUME NEW q \in Workers, q # p PROVE TaskSound(task[q])'
  <2>1. TaskSound(task[q]) /\ task'[q] = task[q]
    BY <1>9, <1>12 DEF PlanInv, PlanSound, Workers
  <2>2. CopySound(task[q].copy)'
    BY <1>2, <2>1 DEF TaskSound, CopySound
  <2>3. TaskSound(task[q]) /\ task'[q] = task[q] /\ plan' = plan
    BY <1>2, <2>1
  <2>4. task[q].made # 0 => /\ task[q].made \in DOMAIN orders'[task[q].row]
                           /\ orders'[task[q].row][task[q].made] = plan.rows[task[q].row].planned
    BY <1>7, <2>1 DEF TaskSound
  <2> QED BY <2>2, <2>3, <2>4 DEF TaskSound
<1>13. \A q \in PlanRows : RowSound(plan'.rows[q], orders'[q])
  <2>1. \A q \in PlanRows : RowSound(plan.rows[q], orders[q])
    BY DEF PlanInv, PlanSound
  <2> QED BY <1>2, <1>7, <2>1 DEF RowSound, RowTells
<1>14. \A q \in Workers' : TaskSound(task[q])'
  BY <1>9, <1>10, <1>11, <1>12 DEF Workers
<1>15. PlanSound'
  BY <1>2, <1>3, <1>7, <1>9, <1>13, <1>14 DEF PlanInv, PlanSound
<1>16. ASSUME ~interrupted' PROVE PlanAlone'
  <2>1. PlanAlone
    BY <1>2, <1>16 DEF PlanInv
  <2>2. plan.docstatus # "Cancelled" /\ \A q \in Workers : q = p
    BY <1>3, <2>1 DEF PlanAlone
  <2>3. orders[r] = <<>>
    <3>1. plan.rows[r].order = 0
      BY <1>1, <1>3, <1>4, <2>1 DEF PlanAlone
    <3>2. ~Making(r)
      BY <1>1, <1>2, <2>2 DEF Making
    <3> QED BY <2>1, <3>1, <3>2 DEF PlanAlone
  <2>4. k = 1
    BY <1>1, <2>3
  <2>5. Making(r)'
    BY <1>3, <1>6, <1>8, <1>9, <1>10 DEF Making, Workers
  <2>6. ASSUME NEW q \in PlanRows
        PROVE  /\ Len(orders'[q]) <= 1
               /\ Len(orders'[q]) = 1 => orders'[q][1] = plan.rows[q].planned
               /\ orders'[q] # <<>> /\ plan.rows[q].order = 0 => Making(q)'
    <3>1. CASE q = r
      BY <1>5, <1>6, <1>7, <2>4, <2>5, <3>1
    <3>2. CASE q # r
      <4>1. ~Making(q)
        BY <1>1, <1>2, <2>2 DEF Making
      <4> QED BY <1>7, <2>1, <3>2, <4>1 DEF PlanAlone
    <3> QED BY <3>1, <3>2
  <2>7. \A q \in PlanRows : new.copy.rows[q].order = plan.rows[q].order
    BY <1>1, <1>3, <1>8, <2>1 DEF PlanAlone
  <2>8. requests # 0 => plan.requestsMade
    BY <1>1, <1>2, <2>1, <2>2 DEF PlanAlone
  <2>9. task'[p] = new
    BY <1>9
  <2> QED BY <1>2, <1>10, <2>2, <2>6, <2>7, <2>8, <2>9 DEF PlanAlone
<1> QED BY <1>15, <1>16 DEF PlanInv

LEMMA LinkOrderKeeps == ASSUME PlanInv, NEW p \in Planners, LinkOrder(p) PROVE PlanInv'
<1>1. PICK t, r, x, new, row, nt :
        /\ t = task[p] /\ r = t.row /\ x = t.copy.rows[r] /\ new = Linked(x, t.made)
        /\ row = [plan.rows[r] EXCEPT !.order = new.order, !.ordered = new.ordered]
        /\ nt = [t EXCEPT !.copy.rows[r] = new, !.made = 0, !.row = 0]
  OBVIOUS
<1>2. /\ Working(p) /\ t.doing = "orders" /\ t.made # 0
      /\ plan' = [plan EXCEPT !.rows[r].order = new.order, !.rows[r].ordered = new.ordered]
      /\ task' = [task EXCEPT ![p].copy.rows[r] = new, ![p].made = 0, ![p].row = 0]
      /\ UNCHANGED <<orders, requests, interrupted>>
  BY <1>1 DEF LinkOrder
<1>3. /\ TaskSound(t) /\ t \in TaskType /\ p \in Workers /\ plan \in PlanType /\ plan.rows \in [PlanRows -> RowType]
      /\ t.copy \in PlanType /\ t.copy.rows \in [PlanRows -> RowType] /\ plan.docstatus # "Draft"
  BY <1>1, <1>2, TaskOf
<1>4. /\ r \in PlanRows /\ r \notin t.todo /\ x.order = 0 /\ x.ordered = 0 /\ x.planned = plan.rows[r].planned
      /\ x.planned > 0 /\ t.made \in DOMAIN orders[r] /\ orders[r][t.made] = x.planned
      /\ x \in RowType /\ plan.rows[r] \in RowType /\ t.made \in 0 .. MaxOrders
  <2>1. r \in PlanRows /\ r \notin t.todo /\ x.order = 0 /\ plan.rows[r].planned > 0
        /\ t.made \in DOMAIN orders[r] /\ orders[r][t.made] = plan.rows[r].planned
    BY <1>1, <1>2, <1>3 DEF TaskSound
  <2>2. x.ordered = 0 /\ x.planned = plan.rows[r].planned
    BY <1>1, <1>3, <2>1 DEF TaskSound, CopySound
  <2> QED BY <1>1, <1>3, <2>1, <2>2 DEF TaskType
<1>5. new \in RowType /\ new.order = t.made /\ new.ordered = x.planned /\ new.planned = x.planned
  <2>1. LeftToOrder(x) = x.planned /\ x.ordered + x.planned = x.planned /\ x.planned \in Nat
    BY <1>4, RowFacts DEF LeftToOrder
  <2>2. new = [x EXCEPT !.order = t.made, !.ordered = x.planned]
    BY <1>1, <1>4, <2>1 DEF Linked
  <2> QED BY <1>4, <2>1, <2>2 DEF RowType
<1>6. row \in RowType /\ row.order = t.made /\ row.ordered = x.planned /\ row.planned = x.planned
  <2>1. row = [plan.rows[r] EXCEPT !.order = t.made, !.ordered = x.planned]
    BY <1>1, <1>5
  <2>2. x.planned \in Nat /\ plan.rows[r].planned = x.planned
    BY <1>4, RowFacts
  <2> QED BY <1>4, <2>1, <2>2 DEF RowType
<1>7. plan' = [plan EXCEPT !.rows = [plan.rows EXCEPT ![r] = row]]
  <2>1. plan' = [plan EXCEPT !.rows = [plan.rows EXCEPT ![r] = [plan.rows[r] EXCEPT !.order = new.order, !.ordered = new.ordered]]]
    BY <1>2, <1>3, <1>4 DEF PlanType, RowType
  <2> QED BY <1>1, <2>1
<1>8. /\ plan' \in PlanType /\ plan'.docstatus = plan.docstatus /\ plan'.status = plan.status
      /\ plan'.proposal = plan.proposal /\ plan'.edition = plan.edition /\ plan'.requestsMade = plan.requestsMade
      /\ \A q \in PlanRows : plan'.rows[q] = IF q = r THEN row ELSE plan.rows[q]
  <2>1. [plan.rows EXCEPT ![r] = row] \in [PlanRows -> RowType]
    BY <1>3, <1>4, <1>6
  <2>2. plan' \in PlanType /\ plan'.docstatus = plan.docstatus /\ plan'.status = plan.status
        /\ plan'.proposal = plan.proposal /\ plan'.edition = plan.edition /\ plan'.requestsMade = plan.requestsMade
        /\ plan'.rows = [plan.rows EXCEPT ![r] = row]
    BY <1>3, <1>7, <2>1 DEF PlanType
  <2> QED BY <1>3, <1>4, <2>2
<1>9. task' = [task EXCEPT ![p] = nt]
  BY <1>1, <1>2 DEF PlanInv, PlanSound
<1>10. /\ nt \in TaskType /\ nt.made = 0 /\ nt.todo = t.todo /\ nt.doing = t.doing
       /\ \A q \in PlanRows : nt.copy.rows[q] = IF q = r THEN new ELSE t.copy.rows[q]
  <2>1. PICK rows, copy : rows = [t.copy.rows EXCEPT ![r] = new] /\ copy = [t.copy EXCEPT !.rows = rows]
    OBVIOUS
  <2>2. rows \in [PlanRows -> RowType] /\ \A q \in PlanRows : rows[q] = IF q = r THEN new ELSE t.copy.rows[q]
    BY <1>3, <1>4, <1>5, <2>1
  <2>3. copy \in PlanType /\ copy.rows = rows
    BY <1>3, <2>1, <2>2 DEF PlanType
  <2>4. nt = [t EXCEPT !.copy = copy, !.made = 0, !.row = 0]
    BY <1>1, <1>3, <2>1 DEF TaskType, PlanType
  <2>5. 0 \in 0 .. MaxOrders /\ 0 \in PlanRows \cup {0}
    BY PlanConstants
  <2>6. nt \in TaskType /\ nt.made = 0 /\ nt.todo = t.todo /\ nt.doing = t.doing /\ nt.copy = copy
    BY <1>3, <2>3, <2>4, <2>5 DEF TaskType
  <2> QED BY <2>2, <2>3, <2>6
<1>11. task' = [q \in Planners |-> task'[q]] /\ \A q \in Planners : task'[q] = IF q = p THEN nt ELSE task[q]
  BY <1>9 DEF PlanInv, PlanSound
<1>12. Workers' = Workers
  BY <1>3, <1>10, <1>11, PlanConstants DEF Workers
<1>13. \A q \in PlanRows : plan'.rows[q].planned = plan.rows[q].planned
                           /\ (plan.rows[q].order # 0 => plan'.rows[q].order # 0)
  BY <1>2, <1>4, <1>6, <1>8
<1>14. TaskSound(nt)'
  <2>1. CopySound(nt.copy)'
    <3>1. CopySound(t.copy)
      BY <1>3 DEF TaskSound
    <3>2. ASSUME NEW q \in PlanRows
          PROVE  /\ nt.copy.rows[q].planned = plan'.rows[q].planned
                 /\ IF nt.copy.rows[q].order = 0 THEN nt.copy.rows[q].ordered = 0
                    ELSE nt.copy.rows[q].ordered = nt.copy.rows[q].planned /\ plan'.rows[q].order # 0
      <4>1. CASE q = r
        <5>1. nt.copy.rows[q] = new /\ plan'.rows[q] = row
          BY <1>8, <1>10, <4>1
        <5>2. new.planned = row.planned /\ new.ordered = new.planned /\ new.order # 0 /\ row.order # 0
          BY <1>2, <1>5, <1>6
        <5> QED BY <5>1, <5>2
      <4>2. CASE q # r
        BY <1>8, <1>10, <3>1, <4>2 DEF CopySound
      <4> QED BY <4>1, <4>2
    <3> QED BY <3>2 DEF CopySound
  <2>2. \A q \in nt.todo : plan'.rows[q].planned > 0 /\ nt.copy.rows[q].order = 0
    <3>1. \A q \in t.todo : q \in PlanRows /\ q # r /\ plan.rows[q].planned > 0 /\ t.copy.rows[q].order = 0
      BY <1>3, <1>4 DEF TaskSound, TaskType
    <3> QED BY <1>8, <1>10, <3>1
  <2> QED BY <1>3, <1>8, <1>10, <2>1, <2>2 DEF TaskSound
<1>15. ASSUME NEW q \in Workers, q # p PROVE TaskSound(task[q])'
  <2>1. TaskSound(task[q]) /\ task'[q] = task[q]
    BY <1>11, <1>15 DEF PlanInv, PlanSound, Workers
  <2>2. CopySound(task[q].copy)'
    BY <1>13, <2>1 DEF TaskSound, CopySound
  <2>3. \A s \in task[q].todo : s \in PlanRows
    BY <2>1 DEF TaskSound, TaskType
  <2>4. \A s \in task[q].todo : plan'.rows[s].planned > 0
    BY <1>13, <2>1, <2>3 DEF TaskSound
  <2> QED BY <1>2, <1>8, <1>13, <2>1, <2>2, <2>3, <2>4 DEF TaskSound
<1>16. ASSUME NEW q \in PlanRows PROVE RowSound(plan'.rows[q], orders'[q])
  <2>1. RowSound(plan.rows[q], orders[q])
    BY DEF PlanInv, PlanSound
  <2>2. CASE q = r
    <3>1. plan'.rows[q] = row /\ orders'[q] = orders[r]
      BY <1>2, <1>8, <2>2
    <3> QED BY <1>2, <1>4, <1>6, <3>1 DEF RowSound, RowTells
  <2>3. CASE q # r
    BY <1>2, <1>8, <2>1, <2>3
  <2> QED BY <2>2, <2>3
<1>17. \A q \in Workers' : TaskSound(task[q])'
  BY <1>11, <1>12, <1>14, <1>15 DEF Workers
<1>18. PlanSound'
  BY <1>2, <1>3, <1>8, <1>11, <1>13, <1>16, <1>17 DEF PlanInv, PlanSound
<1>19. ASSUME ~interrupted' PROVE PlanAlone'
  <2>1. PlanAlone
    BY <1>2, <1>19 DEF PlanInv
  <2>2. plan.docstatus # "Cancelled" /\ \A q \in Workers : q = p
    BY <1>3, <2>1 DEF PlanAlone
  <2>3. ASSUME NEW q \in PlanRows PROVE nt.copy.rows[q].order = plan'.rows[q].order
    <3>1. CASE q = r
      BY <1>5, <1>6, <1>8, <1>10, <3>1
    <3>2. CASE q # r
      <4>1. t.copy.rows[q].order = plan.rows[q].order
        BY <1>1, <1>3, <2>1 DEF PlanAlone
      <4> QED BY <1>8, <1>10, <3>2, <4>1
    <3> QED BY <3>1, <3>2
  <2>4. ASSUME NEW q \in PlanRows, orders[q] # <<>>, plan'.rows[q].order = 0 PROVE FALSE
    <3>1. q # r
      BY <1>2, <1>6, <1>8, <2>4
    <3>2. Making(q)
      BY <1>8, <2>1, <2>4, <3>1 DEF PlanAlone
    <3> QED BY <1>1, <2>2, <3>1, <3>2 DEF Making
  <2>5. requests # 0 => plan.requestsMade
    BY <1>1, <1>2, <2>1, <2>2 DEF PlanAlone
  <2>6. task'[p] = nt
    BY <1>11
  <2>7. \A q \in PlanRows : Len(orders[q]) <= 1 /\ (Len(orders[q]) = 1 => orders[q][1] = plan'.rows[q].planned)
    BY <1>13, <2>1 DEF PlanAlone
  <2> QED BY <1>2, <1>8, <1>12, <2>2, <2>3, <2>4, <2>5, <2>6, <2>7 DEF PlanAlone
<1> QED BY <1>18, <1>19 DEF PlanInv

\* a planner is done or stopped
LEMMA LeavesOff ==
  ASSUME PlanInv, NEW p \in Planners, Working(p), task' = [task EXCEPT ![p] = NoTask], UNCHANGED <<orders, requests>>,
         plan' \in PlanType, plan'.rows = plan.rows, plan'.docstatus = plan.docstatus,
         plan'.edition = plan.edition, plan'.proposal.edition = plan.proposal.edition,
         plan'.status = "Completed" => \A r \in PlanRows : plan.rows[r].planned > 0 => plan.rows[r].order # 0,
         plan.requestsMade => plan'.requestsMade,
         interrupted' \in BOOLEAN,
         ~interrupted' => ~interrupted /\ task[p].made = 0 /\ (task[p].doing = "request" => plan'.requestsMade)
  PROVE  PlanInv'
<1>1. p \in Workers /\ plan.docstatus # "Draft"
  BY TaskOf
<1>2. task' = [q \in Planners |-> task'[q]] /\ \A q \in Planners : task'[q] = IF q = p THEN NoTask ELSE task[q]
  BY DEF PlanInv, PlanSound
<1>3. Workers' = Workers \ {p} /\ \A q \in Workers' : task'[q] = task[q]
  BY <1>2 DEF Workers
<1>4. ASSUME NEW q \in Workers' PROVE TaskSound(task[q])'
  <2>1. TaskSound(task[q]) /\ task'[q] = task[q]
    BY <1>3 DEF PlanInv, PlanSound
  <2>2. CopySound(task[q].copy)'
    BY <2>1 DEF TaskSound, CopySound
  <2> QED BY <2>1, <2>2 DEF TaskSound
<1>5. PlanSound'
  BY <1>1, <1>2, <1>4 DEF PlanInv, PlanSound
<1>6. ASSUME ~interrupted' PROVE PlanAlone'
  <2>1. PlanAlone /\ task[p].made = 0
    BY <1>6 DEF PlanInv
  <2>2. Workers' = {} /\ \A q \in Workers : q = p
    BY <1>1, <1>3, <2>1 DEF PlanAlone
  <2>3. \A r \in PlanRows : ~Making(r)
    BY <2>1, <2>2 DEF Making
  <2>4. requests # 0 => plan'.requestsMade
    BY <1>6, <2>1, <2>2 DEF PlanAlone
  <2> QED BY <1>1, <2>1, <2>2, <2>3, <2>4 DEF PlanAlone
<1> QED BY <1>5, <1>6 DEF PlanInv

LEMMA EndOrdersKeeps == ASSUME PlanInv, NEW p \in Planners, EndOrders(p) PROVE PlanInv'
<1>1. PICK status : status = IF AllOrdered(task[p].copy) THEN "Completed" ELSE plan.status
  OBVIOUS
<1>2. /\ Working(p) /\ task[p].doing = "orders" /\ task[p].made = 0
      /\ plan' = [plan EXCEPT !.ordersMade = TRUE, !.status = status]
      /\ task' = [task EXCEPT ![p] = NoTask] /\ UNCHANGED <<orders, requests, interrupted>>
  BY <1>1 DEF EndOrders
<1>3. TaskSound(task[p]) /\ task[p].copy.rows \in [PlanRows -> RowType] /\ plan \in PlanType
  BY <1>2, TaskOf
<1>4. status \in {"Draft", "Submitted", "Completed", "Cancelled"}
  BY <1>1, <1>3 DEF PlanType
<1>5. /\ plan' \in PlanType /\ plan'.rows = plan.rows /\ plan'.docstatus = plan.docstatus
      /\ plan'.edition = plan.edition /\ plan'.proposal = plan.proposal /\ plan'.status = status
      /\ plan'.requestsMade = plan.requestsMade
  BY <1>2, <1>3, <1>4 DEF PlanType
<1>6. ASSUME status = "Completed", NEW r \in PlanRows, plan.rows[r].planned > 0 PROVE plan.rows[r].order # 0
  <2>1. CASE AllOrdered(task[p].copy)
    <3>1. PICK x : x = task[p].copy.rows[r] /\ x \in RowType
      BY <1>3
    <3>2. x.planned = plan.rows[r].planned /\ (x.order = 0 => x.ordered = 0) /\ (x.order # 0 => plan.rows[r].order # 0)
      BY <1>3, <3>1 DEF TaskSound, CopySound
    <3>3. LeftToOrder(x) = 0
      BY <1>6, <2>1, <3>1, <3>2 DEF AllOrdered, Planned
    <3>4. x.order # 0
      BY <1>6, <3>1, <3>2, <3>3, RowFacts DEF LeftToOrder
    <3> QED BY <3>2, <3>4
  <2>2. CASE ~AllOrdered(task[p].copy)
    BY <1>1, <1>6, <2>2 DEF PlanInv, PlanSound
  <2> QED BY <2>1, <2>2
<1>7. interrupted \in BOOLEAN
  BY DEF PlanInv, PlanSound
<1> QED BY <1>2, <1>5, <1>6, <1>7, LeavesOff

LEMMA LinkRequestKeeps == ASSUME PlanInv, NEW p \in Planners, LinkRequest(p) PROVE PlanInv'
<1>1. /\ Working(p) /\ task[p].doing = "request"
      /\ plan' = [plan EXCEPT !.proposal.requested = TRUE, !.requestsMade = TRUE]
      /\ task' = [task EXCEPT ![p] = NoTask] /\ UNCHANGED <<orders, requests, interrupted>>
  BY DEF LinkRequest
<1>2. TaskSound(task[p]) /\ plan \in PlanType /\ plan.proposal \in [edition : 0 .. MaxEdits, requested : BOOLEAN]
  BY <1>1, TaskOf DEF PlanType
<1>3. PICK new : new = [plan.proposal EXCEPT !.requested = TRUE]
  OBVIOUS
<1>4. new \in [edition : 0 .. MaxEdits, requested : BOOLEAN] /\ new.edition = plan.proposal.edition
  BY <1>2, <1>3
<1>5. plan' = [plan EXCEPT !.proposal = new, !.requestsMade = TRUE]
  BY <1>1, <1>2, <1>3 DEF PlanType
<1>6. /\ plan' \in PlanType /\ plan'.rows = plan.rows /\ plan'.docstatus = plan.docstatus
      /\ plan'.edition = plan.edition /\ plan'.proposal = new /\ plan'.status = plan.status
      /\ plan'.requestsMade = TRUE
  BY <1>2, <1>4, <1>5 DEF PlanType
<1>7. task[p].made = 0
  BY <1>1, <1>2 DEF TaskSound
<1>8. interrupted \in BOOLEAN
      /\ (plan.status = "Completed" => \A r \in PlanRows : plan.rows[r].planned > 0 => plan.rows[r].order # 0)
  BY DEF PlanInv, PlanSound
<1> QED BY <1>1, <1>4, <1>6, <1>7, <1>8, LeavesOff

LEMMA HaltKeeps == ASSUME PlanInv, NEW p \in Planners, Halt(p) PROVE PlanInv'
<1>1. interrupted' \in BOOLEAN /\ plan \in PlanType
      /\ (plan.status = "Completed" => \A r \in PlanRows : plan.rows[r].planned > 0 => plan.rows[r].order # 0)
  BY DEF PlanInv, PlanSound, Halt
<1> QED BY <1>1, LeavesOff DEF Halt

LEMMA PlanStep == PlanInv /\ [PNext]_pvars => PlanInv'
<1> SUFFICES ASSUME PlanInv, [PNext]_pvars PROVE PlanInv'
  OBVIOUS
<1>1. CASE UNCHANGED pvars
  <2>1. UNCHANGED <<plan, orders, requests, task, interrupted>>
    BY <1>1 DEF pvars
  <2>2. Workers' = Workers
    BY <2>1 DEF Workers
  <2>3. ASSUME NEW p \in Workers PROVE TaskSound(task[p])'
    <3>1. TaskSound(task[p])
      BY DEF PlanInv, PlanSound
    <3>2. CopySound(task[p].copy)'
      BY <2>1, <3>1 DEF TaskSound, CopySound
    <3> QED BY <2>1, <3>1, <3>2 DEF TaskSound
  <2>4. PlanSound'
    BY <2>1, <2>2, <2>3 DEF PlanInv, PlanSound
  <2>5. ~interrupted' => PlanAlone'
    BY <2>1, <2>2 DEF PlanInv, PlanAlone, Making
  <2> QED BY <2>4, <2>5 DEF PlanInv
<1>2. CASE PNext
  BY <1>2, EditRowsKeeps, GetRawMaterialsKeeps, SubmitPlanKeeps, CancelPlanKeeps, BeginsKeep, CreateOrderKeeps,
     LinkOrderKeeps, EndOrdersKeeps, LinkRequestKeeps, HaltKeeps DEF PNext
<1> QED BY <1>1, <1>2

LEMMA PlanSafe == PlanInv => PlanFollowsOrders
<1> SUFFICES ASSUME PlanInv PROVE PlanFollowsOrders
  OBVIOUS
<1>1. /\ plan \in PlanType /\ plan.rows \in [PlanRows -> RowType] /\ requests \in 0 .. MaxOrders
      /\ \A r \in PlanRows : RowSound(plan.rows[r], orders[r]) /\ orders[r] \in Seq(Nat)
  BY DEF PlanInv, PlanSound, PlanType
<1>2. \A r \in PlanRows : plan.rows[r].ordered <= plan.rows[r].planned
  <2> TAKE r \in PlanRows
  <2>1. PICK x : x = plan.rows[r] /\ x \in RowType /\ RowSound(x, orders[r])
    BY <1>1
  <2>2. x.ordered \in Nat /\ x.planned \in Nat /\ (x.ordered = 0 \/ x.ordered = x.planned)
    BY <2>1, RowFacts DEF RowSound, RowTells
  <2> QED BY <2>1, <2>2
<1>3. PTypeOK
  BY <1>1, <1>2 DEF PTypeOK, PlanType
<1>4. OrderedOnce
  BY <1>1 DEF PlanInv, PlanAlone, OrderedOnce, RowSound, RowTells
<1>5. LinksTellOrders
  BY <1>1 DEF PlanInv, PlanSound, LinksTellOrders, RowSound, RowTells, Planned
<1>6. CancelledPlanIsBarren
  BY DEF PlanInv, PlanAlone, CancelledPlanIsBarren
<1>7. ProposalIsCurrent
  BY DEF PlanInv, PlanSound, ProposalIsCurrent
<1> QED BY <1>3, <1>4, <1>5, <1>6, <1>7 DEF PlanFollowsOrders

\* A row of a plan names an order only if that exists and makes what the row
\* plans, for any number of planners; unless a creation died or met another
\* request, no row got a second order and a cancelled plan has none.
THEOREM PlanFollows == PSpec => []PlanFollowsOrders
BY PlanStart, PlanStep, PlanSafe, PTL DEF PSpec

-----------------------------------------------------------------------------
(* The subcontracting job.  While a request is served its slip fits what is  *)
(* left of the job.  Rounded rows are at most half a step above their share, *)
(* whatever they were cut to: together they take no more than their units    *)
(* and half a step each, which bounds what is left for the next one.         *)

Carried == {e \in Slips : slip[e].docstatus # "Absent"}
SlipRow == [kind : {"none", "Send", "Receipt"}, docstatus : {"Absent", "Draft", "Submitted", "Cancelled"},
            units : Nat, rows : [JobRows -> Nat]]
JobType == [docstatus : {"Draft", "Submitted", "Cancelled"},
            status : {"Draft", "Open", "Materials Sent", "Partially Received", "Completed", "Cancelled"},
            sent : 0 .. JobQty + Eps, received : 0 .. JobQty + Eps,
            sentRows : [JobRows -> Nat], usedRows : [JobRows -> Nat]]
Spent == {e \in Drafted("Send") : slip[e].docstatus = "Cancelled"}

\* what was checked when the slip s was drafted still holds
FitsSlips(s) ==
  IF s.kind = "Send" THEN s.units <= JobQty - job.sent + Eps
  ELSE /\ s.units <= JobQty - job.received + Eps
       /\ \A r \in JobRows : s.rows[r] <= NotNegative(job.sentRows[r] - job.usedRows[r])

\* a slip has at most half a step more of a material than its share
AtMostShare(units, rows) ==
  \A r \in JobRows : 2 * (JobQty * rows[r]) - 2 * (RequiredQty[r] * units) <= JobQty

\* whatever was posted behind the job's back
JobSound ==
  /\ job \in JobType /\ slip \in [Slips -> SlipRow] /\ IsFiniteSet(Carried)
  /\ \A e \in Slips : e \in Carried <=> slip[e].kind # "none"
  /\ \A e \in Carried : slip[e].units > 0 /\ AtMostShare(slip[e].units, slip[e].rows)
  /\ errand # NoErrand =>
       /\ errand \in Errands /\ job.docstatus = "Submitted"
       /\ slip[errand.slip].docstatus = IF errand.posted THEN "Submitted" ELSE "Draft"
       /\ FitsSlips(slip[errand.slip])
  /\ job.docstatus = "Draft" => Carried = {} /\ job.sent = 0 /\ job.received = 0
  /\ job.docstatus = "Submitted" /\ JobQty > Eps => job.status = JobStatus(job)

HasMaterial(r) ==
  /\ \A e \in Drafted("Send") : 2 * Short(slip[e], r) <= Leeway("Send", r)
  /\ \A e \in Drafted("Receipt") : 2 * Short(slip[e], r) <= Leeway("Receipt", r) + Lacking(r)

\* when everything was told to it
JobKnows ==
  /\ Distance(job.sent, UnitsIn("Send")) <= Slack /\ job.received = UnitsIn("Receipt")
  /\ \A r \in JobRows : job.sentRows[r] = RowsIn("Send", r) /\ job.usedRows[r] = RowsIn("Receipt", r)
  /\ (\A i \in DOMAIN Spare : Spare[i] = 0) => \A r \in JobRows : job.usedRows[r] <= job.sentRows[r]
  /\ \A r \in JobRows : HasMaterial(r)
  /\ job.docstatus = "Cancelled" => Posted("Receipt") = {} /\ UnitsIn("Send") <= Slack

JobInv == JobSound /\ (InOrder => JobKnows)

LEMMA JobConstants ==
  /\ JobRows \subseteq Nat \ {0} /\ IsFiniteSet(JobRows) /\ 1 \in JobRows
  /\ \A r \in JobRows : RequiredQty[r] \in Nat /\ RequiredQty[r] > 0
  /\ JobQty \in Nat /\ JobQty > 0 /\ Slips \subseteq Nat /\ Lots \subseteq Nat \ {0} /\ Eps = 1
  /\ NoErrand \notin Errands
  /\ RowZero \in [JobRows -> Nat]
BY JobAssumption, ErrandAssumption DEF RowZero, Eps

\* the nearest step is at most half a step away, and a whole number stays
LEMMA QuantizedFacts ==
  ASSUME NEW a \in Nat, NEW n \in Nat, n > 0
  PROVE  /\ Quantized(a, n) \in Nat
         /\ 2 * (n * Quantized(a, n)) - 2 * a <= n /\ 2 * a - 2 * (n * Quantized(a, n)) <= n
         /\ \A k \in Nat : a = n * k => Quantized(a, n) = k
<1>1. PICK q, s : q = a \div n /\ s = a % n
  OBVIOUS
<1>2. q \in Nat /\ s \in Nat /\ s < n /\ a = n * q + s
  BY <1>1
<1>3. n * q \in Nat /\ n * (q + 1) = n * q + n
  BY <1>2
<1>4. Quantized(a, n) = IF 2 * s < n \/ (2 * s = n /\ q % 2 = 0) THEN q ELSE q + 1
  BY <1>1 DEF Quantized
<1>5. /\ Quantized(a, n) \in Nat
      /\ 2 * (n * Quantized(a, n)) - 2 * a <= n /\ 2 * a - 2 * (n * Quantized(a, n)) <= n
  <2>1. CASE 2 * s < n \/ (2 * s = n /\ q % 2 = 0)
    <3>1. Quantized(a, n) = q /\ 2 * s <= n
      BY <1>2, <1>4, <2>1
    <3>2. PICK p : p = n * q /\ p \in Nat
      BY <1>3
    <3> QED BY <1>2, <3>1, <3>2
  <2>2. CASE ~(2 * s < n \/ (2 * s = n /\ q % 2 = 0))
    <3>1. Quantized(a, n) = q + 1 /\ 2 * s >= n
      BY <1>2, <1>4, <2>2
    <3>2. PICK p : p = n * q /\ p \in Nat /\ n * (q + 1) = p + n
      BY <1>3
    <3> QED BY <1>2, <3>1, <3>2
  <2> QED BY <2>1, <2>2
<1>6. ASSUME NEW k \in Nat, a = n * k PROVE Quantized(a, n) = k
  <2>1. (n * k) \div n = k /\ (n * k) % n = 0
    <3>1. (n * k) \div n = k
      OBVIOUS
    <3>2. (n * k) % n = 0
      OBVIOUS
    <3> QED BY <3>1, <3>2
  <2>2. q = k /\ s = 0
    BY <1>1, <1>6, <2>1
  <2> QED BY <1>4, <2>2
<1> QED BY <1>5, <1>6

\* at most the share of a material, and if it is not cut, at least
LEMMA ShareFacts ==
  ASSUME NEW r \in JobRows, NEW units \in Nat
  PROVE  /\ MaterialFor(r, units) \in Nat /\ RequiredQty[r] * units \in Nat
         /\ 2 * (JobQty * MaterialFor(r, units)) - 2 * (RequiredQty[r] * units) <= JobQty
         /\ 2 * (RequiredQty[r] * units) - 2 * (JobQty * MaterialFor(r, units)) <= JobQty
<1>1. RequiredQty[r] * units \in Nat /\ JobQty \in Nat /\ JobQty > 0
  BY JobConstants
<1> QED BY <1>1, QuantizedFacts DEF MaterialFor

\* what is cut stays at most the share
LEMMA CutFacts ==
  ASSUME NEW r \in JobRows, NEW units \in Nat, NEW left \in Int,
         NEW q, q = LowerOf(MaterialFor(r, units), NotNegative(left))
  PROVE  /\ q \in Nat /\ q <= NotNegative(left)
         /\ 2 * (JobQty * q) - 2 * (RequiredQty[r] * units) <= JobQty
         /\ \/ 2 * (RequiredQty[r] * units) - 2 * (JobQty * q) <= JobQty
            \/ left <= q
<1>1. PICK m : m = MaterialFor(r, units) /\ m \in Nat
  BY ShareFacts
<1>2. q \in Nat /\ q <= m /\ (q = m \/ left <= q) /\ q <= NotNegative(left)
  BY <1>1 DEF LowerOf, NotNegative
<1>3. JobQty * q <= JobQty * m /\ JobQty * q \in Nat /\ JobQty * m \in Nat
  <2>1. PICK k \in Nat : m = q + k
    <3>1. m - q \in Nat /\ m = q + (m - q)
      BY <1>1, <1>2
    <3> QED BY <3>1
  <2>2. JobQty * (q + k) = JobQty * q + JobQty * k /\ JobQty * k \in Nat /\ JobQty * q \in Nat
    BY <1>2, JobConstants
  <2> QED BY <2>1, <2>2
<1>4. PICK p : p = RequiredQty[r] * units /\ p \in Nat
  BY ShareFacts
<1>5. 2 * (JobQty * m) - 2 * p <= JobQty /\ 2 * p - 2 * (JobQty * m) <= JobQty /\ JobQty \in Nat
  BY <1>1, <1>4, ShareFacts, JobConstants
<1>6. 2 * (JobQty * q) - 2 * p <= JobQty
  BY <1>3, <1>4, <1>5
<1>7. q = m => 2 * p - 2 * (JobQty * q) <= JobQty
  BY <1>5
<1> QED BY <1>2, <1>4, <1>6, <1>7

\* what is less stays less per piece
LEMMA Shrinks ==
  ASSUME NEW a \in Nat, a > 0, NEW x \in Int, NEW y \in Int, a * x <= a * y
  PROVE  x <= y
<1> SUFFICES ASSUME y < x PROVE FALSE
  OBVIOUS
<1>1. PICK k \in Nat : x = y + k + 1
  <2>1. x - y - 1 \in Nat /\ x = y + (x - y - 1) + 1
    OBVIOUS
  <2> QED BY <2>1
<1>2. a * (y + k + 1) = a * y + a * k + a /\ a * k \in Nat /\ a * y \in Int
  OBVIOUS
<1> QED BY <1>1, <1>2

LEMMA ToldFacts ==
  ASSUME NEW rows \in [JobRows -> Nat], NEW r \in JobRows
  PROVE  /\ Told(rows, r) \in Nat
         /\ SameItem(r) = {r} => Told(rows, r) = rows[r]
<1>1. PICK moved : moved = {q \in SameItem(r) : rows[q] > 0}
  OBVIOUS
<1>2. moved \in SUBSET JobRows /\ IsFiniteSet(moved) /\ moved \in SUBSET Nat
  BY <1>1, JobConstants, FS_Subset DEF SameItem
<1>3. Told(rows, r) = IF moved = {} THEN 0 ELSE rows[Max(moved)]
  BY <1>1 DEF Told
<1>4. moved # {} => Max(moved) \in moved
  BY <1>2, LargestNumber DEF Max
<1>5. Told(rows, r) \in Nat
  <2>1. \A q \in moved : rows[q] \in Nat
    BY <1>2
  <2> QED BY <1>3, <1>4, <2>1
<1>6. ASSUME SameItem(r) = {r} PROVE Told(rows, r) = rows[r]
  <2>1. CASE moved = {}
    BY <1>1, <1>3, <1>6, <2>1
  <2>2. CASE moved # {}
    BY <1>1, <1>3, <1>4, <1>6, <2>2
  <2> QED BY <2>1, <2>2
<1> QED BY <1>5, <1>6

LEMMA OfItemFacts ==
  ASSUME NEW rows \in [JobRows -> Nat]
  PROVE  /\ \A i : OfItem(rows, i) \in Nat
         /\ \A r \in JobRows : SameItem(r) = {r} => OfItem(rows, ItemOf[r]) = rows[r]
<1>1. ASSUME NEW i PROVE OfItem(rows, i) \in Nat
  <2>1. {r \in JobRows : ItemOf[r] = i} \in SUBSET JobRows /\ IsFiniteSet(JobRows)
    BY JobConstants
  <2> QED BY <2>1, SumOfPart DEF OfItem
<1>2. ASSUME NEW r \in JobRows, SameItem(r) = {r} PROVE OfItem(rows, ItemOf[r]) = rows[r]
  <2>1. {q \in JobRows : ItemOf[q] = ItemOf[r]} = {r}
    BY <1>2 DEF SameItem
  <2>2. SumFunctionOnSet(rows, {r}) = rows[r]
    <3>1. IsFiniteSet({r}) /\ r \in {r} /\ rows[r] \in Int /\ \A y \in {r} \ {r} : rows[y] = 0
      BY FS_Singleton
    <3> QED BY <3>1, SumOfOne
  <2> QED BY <2>1, <2>2 DEF OfItem
<1> QED BY <1>1, <1>2

LEMMA StatusFacts ==
  ASSUME NEW j
  PROVE  JobStatus(j) \in {"Open", "Materials Sent", "Partially Received", "Completed"}
BY DEF JobStatus

LEMMA JobFacts ==
  ASSUME JobSound
  PROVE  /\ job \in JobType /\ job.sent \in Nat /\ job.sent <= JobQty + 1 /\ job.received \in Nat /\ job.received <= JobQty + 1
         /\ job.sentRows \in [JobRows -> Nat] /\ job.usedRows \in [JobRows -> Nat]
         /\ job.docstatus \in {"Draft", "Submitted", "Cancelled"}
         /\ \A e \in Carried : /\ e \in Slips /\ slip[e] \in SlipRow /\ slip[e].kind \in {"Send", "Receipt"}
                            /\ slip[e].units \in Nat /\ slip[e].units > 0 /\ slip[e].rows \in [JobRows -> Nat]
                            /\ AtMostShare(slip[e].units, slip[e].rows)
<1>1. /\ job \in JobType /\ job.sent \in 0 .. JobQty + 1 /\ job.received \in 0 .. JobQty + 1
      /\ job.sentRows \in [JobRows -> Nat] /\ job.usedRows \in [JobRows -> Nat]
      /\ job.docstatus \in {"Draft", "Submitted", "Cancelled"}
  BY JobConstants DEF JobSound, JobType
<1>2. ASSUME NEW e \in Carried
      PROVE /\ e \in Slips /\ slip[e] \in SlipRow /\ slip[e].kind \in {"Send", "Receipt"}
            /\ slip[e].units \in Nat /\ slip[e].units > 0 /\ slip[e].rows \in [JobRows -> Nat]
            /\ AtMostShare(slip[e].units, slip[e].rows)
  BY DEF JobSound, Carried, SlipRow
<1> QED BY <1>1, <1>2, JobConstants

\* what is drafted, posted, known or cancelled is carried
LEMMA EntryFacts ==
  ASSUME JobSound, NEW kind \in {"Send", "Receipt"}
  PROVE  /\ Drafted(kind) \in SUBSET Carried /\ IsFiniteSet(Drafted(kind)) /\ Cardinality(Drafted(kind)) \in Nat
         /\ Known(kind) \in SUBSET Drafted(kind) /\ IsFiniteSet(Known(kind))
         /\ Posted(kind) \in SUBSET Drafted(kind) /\ IsFiniteSet(Posted(kind))
         /\ Spent \in SUBSET Carried /\ IsFiniteSet(Spent) /\ Carried \in SUBSET Slips
<1>1. /\ Drafted(kind) \in SUBSET Carried /\ Known(kind) \in SUBSET Drafted(kind)
      /\ Posted(kind) \in SUBSET Drafted(kind) /\ Spent \in SUBSET Carried /\ Carried \in SUBSET Slips
  BY DEF JobSound, Drafted, Known, Posted, Spent, Carried
<1>2. IsFiniteSet(Carried)
  BY DEF JobSound
<1>3. IsFiniteSet(Drafted(kind)) /\ IsFiniteSet(Known(kind)) /\ IsFiniteSet(Posted(kind)) /\ IsFiniteSet(Spent)
  BY <1>1, <1>2, FS_Subset
<1>4. Cardinality(Drafted(kind)) \in Nat
  BY <1>3, FS_CardinalityType
<1> QED BY <1>1, <1>3, <1>4

LEMMA MeasureFacts ==
  ASSUME JobSound, NEW e \in Carried
  PROVE  /\ UnitsFor(slip[e].rows) \in Nat /\ Off(slip[e]) \in Nat
         /\ \A r \in JobRows : Short(slip[e], r) \in Nat
<1>1. slip[e].units \in Nat /\ slip[e].rows \in [JobRows -> Nat]
  BY JobFacts
<1>2. UnitsFor(slip[e].rows) \in Nat
  <2>1. PICK a : a = OfItem(slip[e].rows, ItemOf[1]) * JobQty /\ a \in Nat
    BY <1>1, OfItemFacts, JobConstants
  <2> QED BY <2>1, QuantizedFacts, JobConstants DEF UnitsFor
<1>3. Off(slip[e]) \in Nat
  BY <1>1, <1>2 DEF Off, Distance
<1>4. ASSUME NEW r \in JobRows PROVE Short(slip[e], r) \in Nat
  <2>1. RequiredQty[r] * slip[e].units \in Int /\ JobQty * slip[e].rows[r] \in Int
    BY <1>1, JobConstants
  <2> QED BY <2>1 DEF Short, NotNegative
<1> QED BY <1>2, <1>3, <1>4

LEMMA SumFacts ==
  ASSUME JobSound
  PROVE  /\ Slack \in Nat
         /\ \A r \in JobRows : Lacking(r) \in Nat /\ Leeway("Send", r) \in Nat /\ Leeway("Receipt", r) \in Nat
         /\ \A kind \in {"Send", "Receipt"} :
              /\ UnitsIn(kind) \in Nat /\ \A x \in Known(kind) : slip[x].units <= UnitsIn(kind)
              /\ \A r \in JobRows : /\ RowsIn(kind, r) \in Nat
                                    /\ \A x \in Known(kind) : slip[x].rows[r] <= RowsIn(kind, r)
<1>1. Slack \in Nat
  <2>1. PICK f : f = [e \in Slips |-> Off(slip[e])]
    OBVIOUS
  <2>2. \A e \in Spent : f[e] \in Nat
    BY <2>1, EntryFacts, MeasureFacts
  <2>3. SumFunctionOnSet(f, Spent) \in Nat
    BY <2>2, EntryFacts, SumOfPart
  <2> QED BY <2>1, <2>3 DEF Slack, Spent
<1>2. ASSUME NEW r \in JobRows PROVE Lacking(r) \in Nat
  <2>1. PICK f : f = [e \in Slips |-> 2 * Short(slip[e], r)]
    OBVIOUS
  <2>2. \A e \in Drafted("Send") : f[e] \in Nat
    <3>1. \A e \in Drafted("Send") : e \in Slips /\ Short(slip[e], r) \in Nat
      BY EntryFacts, MeasureFacts
    <3> QED BY <2>1, <3>1
  <2>3. SumFunctionOnSet(f, Drafted("Send")) \in Nat
    BY <2>2, EntryFacts, SumOfPart
  <2> QED BY <2>1, <2>3 DEF Lacking
<1>3. ASSUME NEW r \in JobRows, NEW kind \in {"Send", "Receipt"} PROVE Leeway(kind, r) \in Nat
  <2>1. PICK c : c = Cardinality(Drafted(kind)) /\ c \in Nat
    BY EntryFacts
  <2>2. JobQty * c \in Nat /\ RequiredQty[r] * (1 + Slack) \in Nat
    BY <1>1, <2>1, JobConstants
  <2>3. 2 * RequiredQty[r] * (1 + Slack) \in Nat
    BY <1>1, JobConstants
  <2> QED BY <2>1, <2>2, <2>3, JobConstants DEF Leeway
<1>4. ASSUME NEW kind \in {"Send", "Receipt"}, NEW f, \A e \in Known(kind) : f[e] \in Nat
      PROVE  /\ SumFunctionOnSet(f, Known(kind)) \in Nat
             /\ \A x \in Known(kind) : f[x] <= SumFunctionOnSet(f, Known(kind))
  <2>1. IsFiniteSet(Known(kind))
    BY EntryFacts
  <2>2. ASSUME NEW x \in Known(kind) PROVE f[x] <= SumFunctionOnSet(f, Known(kind))
    <3>1. IsFiniteSet({x}) /\ {x} \in SUBSET Known(kind) /\ x \in {x} /\ (\A y \in {x} \ {x} : f[y] = 0) /\ f[x] \in Int
      BY <1>4, FS_Singleton
    <3>2. SumFunctionOnSet(f, {x}) = f[x]
      BY <3>1, SumOfOne
    <3>3. SumFunctionOnSet(f, {x}) <= SumFunctionOnSet(f, Known(kind))
      BY <1>4, <2>1, <3>1, SumOfPart
    <3> QED BY <3>2, <3>3
  <2> QED BY <1>4, <2>1, <2>2, SumOfPart
<1>5. ASSUME NEW kind \in {"Send", "Receipt"}
      PROVE  UnitsIn(kind) \in Nat /\ \A x \in Known(kind) : slip[x].units <= UnitsIn(kind)
  <2>1. PICK f : f = [e \in Slips |-> slip[e].units]
    OBVIOUS
  <2>2. \A e \in Known(kind) : e \in Slips /\ slip[e].units \in Nat
    BY EntryFacts, JobFacts
  <2>3. \A e \in Known(kind) : f[e] \in Nat /\ f[e] = slip[e].units
    BY <2>1, <2>2
  <2> QED BY <1>4, <2>1, <2>3 DEF UnitsIn
<1>6. ASSUME NEW kind \in {"Send", "Receipt"}, NEW r \in JobRows
      PROVE  RowsIn(kind, r) \in Nat /\ \A x \in Known(kind) : slip[x].rows[r] <= RowsIn(kind, r)
  <2>1. PICK f : f = [e \in Slips |-> slip[e].rows[r]]
    OBVIOUS
  <2>2. \A e \in Known(kind) : e \in Slips /\ slip[e].rows[r] \in Nat
    BY EntryFacts, JobFacts
  <2>3. \A e \in Known(kind) : f[e] \in Nat /\ f[e] = slip[e].rows[r]
    BY <2>1, <2>2
  <2> QED BY <1>4, <2>1, <2>3 DEF RowsIn
<1> QED BY <1>1, <1>2, <1>3, <1>5, <1>6

\* entries counted by the same function are counted alike
LEMMA CountsStay ==
  ASSUME JobSound, NEW kind \in {"Send", "Receipt"}, Known(kind)' = Known(kind),
         \A e \in Known(kind) : slip'[e].units = slip[e].units /\ slip'[e].rows = slip[e].rows
  PROVE  UnitsIn(kind)' = UnitsIn(kind) /\ \A r \in JobRows : RowsIn(kind, r)' = RowsIn(kind, r)
<1>1. PICK c : c = Known(kind) /\ IsFiniteSet(c) /\ c \in SUBSET Slips
  BY EntryFacts
<1>2. UnitsIn(kind)' = UnitsIn(kind)
  <2>1. PICK f, g : f = [e \in Slips |-> slip[e].units] /\ g = [e \in Slips |-> slip'[e].units]
    OBVIOUS
  <2>2. UnitsIn(kind) = SumFunctionOnSet(f, c) /\ UnitsIn(kind)' = SumFunctionOnSet(g, c)
    BY <1>1, <2>1 DEF UnitsIn
  <2>3. \A e \in c : f[e] = g[e]
    BY <1>1, <2>1
  <2> QED BY <1>1, <2>2, <2>3, SumOfSame
<1>3. ASSUME NEW r \in JobRows PROVE RowsIn(kind, r)' = RowsIn(kind, r)
  <2>1. PICK f, g : f = [e \in Slips |-> slip[e].rows[r]] /\ g = [e \in Slips |-> slip'[e].rows[r]]
    OBVIOUS
  <2>2. RowsIn(kind, r) = SumFunctionOnSet(f, c) /\ RowsIn(kind, r)' = SumFunctionOnSet(g, c)
    BY <1>1, <2>1 DEF RowsIn
  <2>3. \A e \in c : f[e] = g[e]
    BY <1>1, <2>1
  <2> QED BY <1>1, <2>2, <2>3, SumOfSame
<1> QED BY <1>2, <1>3

\* one entry more is counted, or one less
LEMMA SumOfMoreOrLess ==
  ASSUME NEW S, IsFiniteSet(S), NEW x, NEW g, \A e \in S \cup {x} : g[e] \in Int
  PROVE  /\ x \notin S => SumFunctionOnSet(g, S \cup {x}) = SumFunctionOnSet(g, S) + g[x]
         /\ x \in S => SumFunctionOnSet(g, S \ {x}) = SumFunctionOnSet(g, S) - g[x]
<1>1. g[x] \in Int /\ SumFunctionOnSet(g, S) \in Int
  BY SumIsInt
<1>2. ASSUME x \notin S PROVE SumFunctionOnSet(g, S \cup {x}) = SumFunctionOnSet(g, S) + g[x]
  <2>1. SumFunctionOnSet(g, S \cup {x}) = g[x] + SumFunctionOnSet(g, S)
    BY <1>2, SumWith
  <2> QED BY <1>1, <2>1
<1>3. ASSUME x \in S PROVE SumFunctionOnSet(g, S \ {x}) = SumFunctionOnSet(g, S) - g[x]
  <2>1. SumFunctionOnSet(g, S) = g[x] + SumFunctionOnSet(g, S \ {x})
    BY <1>3, SumWithout
  <2>2. IsFiniteSet(S \ {x}) /\ \A e \in S \ {x} : g[e] \in Int
    BY FS_RemoveElement
  <2>3. SumFunctionOnSet(g, S \ {x}) \in Int
    BY <2>2, SumIsInt
  <2> QED BY <1>1, <2>1, <2>3
<1> QED BY <1>2, <1>3

LEMMA CountsChange ==
  ASSUME JobSound, NEW kind \in {"Send", "Receipt"}, NEW x \in Carried,
         \A e \in Carried : slip'[e].units = slip[e].units /\ slip'[e].rows = slip[e].rows
  PROVE  /\ x \notin Known(kind) /\ Known(kind)' = Known(kind) \cup {x}
              => /\ UnitsIn(kind)' = UnitsIn(kind) + slip[x].units
                 /\ \A r \in JobRows : RowsIn(kind, r)' = RowsIn(kind, r) + slip[x].rows[r]
         /\ x \in Known(kind) /\ Known(kind)' = Known(kind) \ {x}
              => /\ UnitsIn(kind)' = UnitsIn(kind) - slip[x].units
                 /\ \A r \in JobRows : RowsIn(kind, r)' = RowsIn(kind, r) - slip[x].rows[r]
<1>1. PICK c, d : c = Known(kind) /\ d = Known(kind)' /\ IsFiniteSet(c) /\ c \in SUBSET Carried /\ Carried \in SUBSET Slips
  BY EntryFacts
<1>2. \A e \in c \cup {x} : e \in Slips /\ e \in Carried
  BY <1>1
<1>3. /\ x \notin c /\ d = c \cup {x} => UnitsIn(kind)' = UnitsIn(kind) + slip[x].units
      /\ x \in c /\ d = c \ {x} => UnitsIn(kind)' = UnitsIn(kind) - slip[x].units
  <2>1. PICK f, g : f = [e \in Slips |-> slip[e].units] /\ g = [e \in Slips |-> slip'[e].units]
    OBVIOUS
  <2>2. UnitsIn(kind) = SumFunctionOnSet(f, c) /\ UnitsIn(kind)' = SumFunctionOnSet(g, d)
    BY <1>1, <2>1 DEF UnitsIn
  <2>3. \A e \in Carried : slip[e].units \in Int
    BY JobFacts
  <2>4. /\ \A e \in c \cup {x} : g[e] \in Int
        /\ \A e \in c : f[e] = g[e]
        /\ g[x] = slip[x].units
    BY <1>2, <2>1, <2>3
  <2>5. SumFunctionOnSet(f, c) = SumFunctionOnSet(g, c)
    BY <1>1, <2>4, SumOfSame
  <2>6. /\ x \notin c => SumFunctionOnSet(g, c \cup {x}) = SumFunctionOnSet(g, c) + g[x]
        /\ x \in c => SumFunctionOnSet(g, c \ {x}) = SumFunctionOnSet(g, c) - g[x]
    <3>1. IsFiniteSet(c) /\ \A e \in c \cup {x} : g[e] \in Int
      BY <1>1, <2>4
    <3> QED BY ONLY <3>1, SumOfMoreOrLess
  <2> QED BY <2>2, <2>4, <2>5, <2>6
<1>4. ASSUME NEW r \in JobRows
      PROVE  /\ x \notin c /\ d = c \cup {x} => RowsIn(kind, r)' = RowsIn(kind, r) + slip[x].rows[r]
             /\ x \in c /\ d = c \ {x} => RowsIn(kind, r)' = RowsIn(kind, r) - slip[x].rows[r]
  <2>1. PICK f, g : f = [e \in Slips |-> slip[e].rows[r]] /\ g = [e \in Slips |-> slip'[e].rows[r]]
    OBVIOUS
  <2>2. RowsIn(kind, r) = SumFunctionOnSet(f, c) /\ RowsIn(kind, r)' = SumFunctionOnSet(g, d)
    BY <1>1, <2>1 DEF RowsIn
  <2>3. \A e \in Carried : slip[e].rows[r] \in Int
    BY JobFacts
  <2>4. /\ \A e \in c \cup {x} : g[e] \in Int
        /\ \A e \in c : f[e] = g[e]
        /\ g[x] = slip[x].rows[r]
    BY <1>2, <2>1, <2>3
  <2>5. SumFunctionOnSet(f, c) = SumFunctionOnSet(g, c)
    BY <1>1, <2>4, SumOfSame
  <2>6. /\ x \notin c => SumFunctionOnSet(g, c \cup {x}) = SumFunctionOnSet(g, c) + g[x]
        /\ x \in c => SumFunctionOnSet(g, c \ {x}) = SumFunctionOnSet(g, c) - g[x]
    <3>1. IsFiniteSet(c) /\ \A e \in c \cup {x} : g[e] \in Int
      BY <1>1, <2>4
    <3> QED BY ONLY <3>1, SumOfMoreOrLess
  <2> QED BY <2>2, <2>4, <2>5, <2>6
<1> QED BY <1>1, <1>3, <1>4

LEMMA SlipMoves ==
  ASSUME JobSound, NEW x \in Carried, NEW d \in {"Draft", "Submitted", "Cancelled"},
         slip' = [slip EXCEPT ![x].docstatus = d]
  PROVE  /\ slip' \in [Slips -> SlipRow] /\ Carried' = Carried
         /\ slip'[x].docstatus = d /\ \A e \in Slips \ {x} : slip'[e] = slip[e]
         /\ \A e \in Slips : /\ slip'[e].kind = slip[e].kind /\ slip'[e].units = slip[e].units
                             /\ slip'[e].rows = slip[e].rows
<1>1. slip \in [Slips -> SlipRow] /\ x \in Slips /\ slip[x] \in SlipRow
  BY DEF JobSound, Carried
<1>2. PICK s : s = [slip[x] EXCEPT !.docstatus = d]
  OBVIOUS
<1>3. s \in SlipRow /\ s.docstatus = d /\ s.kind = slip[x].kind /\ s.units = slip[x].units /\ s.rows = slip[x].rows
  BY <1>1, <1>2 DEF SlipRow
<1>4. slip' = [slip EXCEPT ![x] = s]
  BY <1>2
<1>5. slip' \in [Slips -> SlipRow] /\ slip'[x] = s /\ \A e \in Slips \ {x} : slip'[e] = slip[e]
  BY <1>1, <1>3, <1>4
<1>6. Carried' = Carried
  BY <1>1, <1>3, <1>5 DEF Carried
<1> QED BY <1>1, <1>3, <1>5, <1>6

LEMMA ScaledUp ==
  ASSUME NEW a \in Nat, NEW x \in Int, NEW y \in Int, x <= y
  PROVE  a * x <= a * y /\ a * x \in Int /\ a * y \in Int
<1>1. PICK k \in Nat : y = x + k
  <2>1. y - x \in Nat /\ y = x + (y - x)
    OBVIOUS
  <2> QED BY <2>1
<1>2. a * (x + k) = a * x + a * k /\ a * k \in Nat /\ a * x \in Int
  OBVIOUS
<1> QED BY <1>1, <1>2

\* what fits the rest of the units fits the rest of the material, but for the
\* rounding of what it left (a, for what was counted there) or lacks (b)
LEMMA RestSuffices ==
  ASSUME NEW n \in Nat, NEW p \in Nat, NEW whole \in Int, NEW gone \in Int, NEW units \in Int, NEW took \in Int,
         NEW given \in Int, NEW a \in Int, NEW b \in Int, NEW over \in Int, NEW u \in Int, NEW q \in Int,
         2 * (n * took) - 2 * (p * gone) <= a, 2 * (p * units) - 2 * (n * given) <= b,
         given - took <= q, u <= units - gone + over
  PROVE  2 * (p * u) - 2 * (n * q) <= a + b + 2 * (p * over)
<1>1. p * u <= p * (units - gone + over) /\ n * (given - took) <= n * q
  BY ScaledUp
<1>2. PICK x, y, z : x = p * units /\ y = p * gone /\ z = p * over /\ x \in Int /\ y \in Int /\ z \in Int
  OBVIOUS
<1>3. p * (units - gone + over) = x - y + z
  <2>1. p * (units - gone + over) = p * units - p * gone + p * over
    OBVIOUS
  <2> QED BY <1>2, <2>1
<1>4. PICK g, t : g = n * given /\ t = n * took /\ g \in Int /\ t \in Int
  OBVIOUS
<1>5. n * (given - took) = g - t
  <2>1. n * (given - took) = n * given - n * took
    OBVIOUS
  <2> QED BY <1>4, <2>1
<1>6. PICK v, w : v = p * u /\ w = n * q /\ v \in Int /\ w \in Int
  OBVIOUS
<1>7. v <= x - y + z /\ g - t <= w /\ 2 * t - 2 * y <= a /\ 2 * x - 2 * g <= b
  BY <1>1, <1>2, <1>3, <1>4, <1>5, <1>6
<1>8. 2 * v - 2 * w <= a + b + 2 * z
  BY <1>2, <1>4, <1>6, <1>7
<1> QED BY <1>2, <1>6, <1>8

\* what sums of material and of units differ by
LEMMA SumsDiffer ==
  ASSUME NEW S, IsFiniteSet(S), NEW a \in Nat, NEW b \in Nat, NEW f, NEW g, NEW h,
         \A e \in S : /\ f[e] \in Nat /\ g[e] \in Nat /\ h[e] \in Int
                      /\ 2 * (a * f[e]) - 2 * (b * g[e]) <= h[e]
  PROVE  2 * (a * SumFunctionOnSet(f, S)) - 2 * (b * SumFunctionOnSet(g, S)) <= SumFunctionOnSet(h, S)
<1>1. PICK F, G, H : /\ F = [e \in S |-> (2 * a) * f[e]] /\ G = [e \in S |-> (2 * b) * g[e]]
                     /\ H = [e \in S |-> G[e] + h[e]]
  OBVIOUS
<1>2. 2 * a \in Int /\ 2 * b \in Int
  OBVIOUS
<1>3. ASSUME NEW e \in S PROVE F[e] = (2 * a) * f[e] /\ G[e] = (2 * b) * g[e] /\ H[e] = G[e] + h[e]
                               /\ f[e] \in Int /\ g[e] \in Int /\ h[e] \in Int
                               /\ F[e] \in Int /\ G[e] \in Int /\ H[e] \in Int /\ F[e] <= H[e]
  <2>1. f[e] \in Nat /\ g[e] \in Nat /\ h[e] \in Int /\ 2 * (a * f[e]) - 2 * (b * g[e]) <= h[e]
    OBVIOUS
  <2>2. PICK x, y : x = f[e] /\ y = g[e] /\ x \in Nat /\ y \in Nat
    BY <2>1
  <2>3. (2 * a) * x = 2 * (a * x) /\ (2 * b) * y = 2 * (b * y) /\ a * x \in Int /\ b * y \in Int
    BY <2>2
  <2>4. F[e] = (2 * a) * x /\ G[e] = (2 * b) * y /\ H[e] = G[e] + h[e]
    BY <1>1, <2>2
  <2> QED BY <2>1, <2>2, <2>3, <2>4
<1>4. SumFunctionOnSet(F, S) = (2 * a) * SumFunctionOnSet(f, S)
  BY <1>2, <1>3, SumOfMultiple
<1>5. SumFunctionOnSet(G, S) = (2 * b) * SumFunctionOnSet(g, S)
  BY <1>2, <1>3, SumOfMultiple
<1>6. SumFunctionOnSet(H, S) = SumFunctionOnSet(G, S) + SumFunctionOnSet(h, S)
  BY <1>3, SumOfTwo
<1>7. SumFunctionOnSet(F, S) <= SumFunctionOnSet(H, S)
  BY <1>3, SumOfLess
<1>8. PICK x, y, z : /\ x = SumFunctionOnSet(f, S) /\ y = SumFunctionOnSet(g, S) /\ z = SumFunctionOnSet(h, S)
                     /\ x \in Int /\ y \in Int /\ z \in Int
  BY <1>3, SumIsInt
<1>9. (2 * a) * x <= (2 * b) * y + z
  BY <1>4, <1>5, <1>6, <1>7, <1>8
<1>10. (2 * a) * x = 2 * (a * x) /\ (2 * b) * y = 2 * (b * y) /\ a * x \in Int /\ b * y \in Int
  BY <1>8
<1> QED BY <1>8, <1>9, <1>10

\* all entries together took at most half a step each more than their units
LEMMA RoundedUp ==
  ASSUME JobSound, NEW kind \in {"Send", "Receipt"}, NEW r \in JobRows
  PROVE  2 * (JobQty * RowsIn(kind, r)) - 2 * (RequiredQty[r] * UnitsIn(kind)) <= JobQty * Cardinality(Drafted(kind))
<1>1. PICK c, f, g, h, n, p : /\ c = Known(kind) /\ f = [e \in Slips |-> slip[e].rows[r]]
                              /\ g = [e \in Slips |-> slip[e].units] /\ h = [e \in c |-> n]
                              /\ n = JobQty /\ p = RequiredQty[r]
  OBVIOUS
<1>2. n \in Nat /\ p \in Nat
  BY <1>1, JobConstants
<1>3. IsFiniteSet(c) /\ c \in SUBSET Drafted(kind) /\ c \in SUBSET Carried /\ IsFiniteSet(Drafted(kind))
  BY <1>1, EntryFacts
<1>4. ASSUME NEW e \in c
      PROVE  f[e] \in Nat /\ g[e] \in Nat /\ h[e] \in Int /\ 2 * (n * f[e]) - 2 * (p * g[e]) <= h[e]
  <2>1. /\ e \in Slips /\ slip[e].units \in Nat /\ slip[e].rows \in [JobRows -> Nat]
        /\ AtMostShare(slip[e].units, slip[e].rows)
    BY <1>3, JobFacts
  <2>2. f[e] = slip[e].rows[r] /\ g[e] = slip[e].units /\ h[e] = n
    BY <1>1, <2>1
  <2>3. 2 * (n * f[e]) - 2 * (p * g[e]) <= n
    BY <1>1, <2>1, <2>2 DEF AtMostShare
  <2> QED BY <1>2, <2>1, <2>2, <2>3
<1>5. 2 * (n * SumFunctionOnSet(f, c)) - 2 * (p * SumFunctionOnSet(g, c)) <= SumFunctionOnSet(h, c)
  BY <1>2, <1>3, <1>4, SumsDiffer
<1>6. SumFunctionOnSet(h, c) <= n * Cardinality(Drafted(kind))
  <2>1. SumFunctionOnSet(h, c) = Cardinality(c) * n
    <3>1. IsFiniteSet(c) /\ n \in Int
      BY <1>2, <1>3
    <3>2. SumFunctionOnSet([e \in c |-> n], c) = Cardinality(c) * n
      BY <3>1, SumOfConstant
    <3>3. h = [e \in c |-> n]
      BY <1>1
    <3> QED BY <3>2, <3>3
  <2>2. Cardinality(c) <= Cardinality(Drafted(kind)) /\ Cardinality(c) \in Nat /\ Cardinality(Drafted(kind)) \in Nat
    BY <1>3, FS_Subset, FS_CardinalityType
  <2>3. PICK x, y : x = Cardinality(c) /\ y = Cardinality(Drafted(kind)) /\ x \in Int /\ y \in Int /\ x <= y
    BY <2>2
  <2>4. n * x <= n * y /\ x * n = n * x
    BY <1>2, <2>3, ScaledUp
  <2> QED BY <2>1, <2>3, <2>4
<1>7. SumFunctionOnSet(h, c) \in Int
  BY <1>3, <1>4, SumIsInt
<1>8. RowsIn(kind, r) = SumFunctionOnSet(f, c) /\ UnitsIn(kind) = SumFunctionOnSet(g, c)
  BY <1>1 DEF RowsIn, UnitsIn
<1>9. PICK x, y, z : /\ x = n * RowsIn(kind, r) /\ y = p * UnitsIn(kind) /\ z = n * Cardinality(Drafted(kind))
                     /\ x \in Int /\ y \in Int /\ z \in Int
  BY <1>2, SumFacts, EntryFacts
<1> QED BY <1>1, <1>5, <1>6, <1>7, <1>8, <1>9

\* and the sends at most what they are short of it less
LEMMA RoundedDown ==
  ASSUME JobSound, NEW r \in JobRows
  PROVE  2 * (RequiredQty[r] * UnitsIn("Send")) - 2 * (JobQty * RowsIn("Send", r)) <= Lacking(r)
<1>1. PICK c, f, g, h, n, p : /\ c = Known("Send") /\ f = [e \in Slips |-> slip[e].rows[r]]
                              /\ g = [e \in Slips |-> slip[e].units] /\ h = [e \in Slips |-> 2 * Short(slip[e], r)]
                              /\ n = JobQty /\ p = RequiredQty[r]
  OBVIOUS
<1>2. n \in Nat /\ p \in Nat
  BY <1>1, JobConstants
<1>3. /\ IsFiniteSet(c) /\ c \in SUBSET Drafted("Send") /\ c \in SUBSET Carried
      /\ IsFiniteSet(Drafted("Send")) /\ Drafted("Send") \in SUBSET Carried
  BY <1>1, EntryFacts
<1>4. ASSUME NEW e \in c
      PROVE  g[e] \in Nat /\ f[e] \in Nat /\ h[e] \in Int /\ 2 * (p * g[e]) - 2 * (n * f[e]) <= h[e]
  <2>1. e \in Slips /\ slip[e].units \in Nat /\ slip[e].rows \in [JobRows -> Nat] /\ Short(slip[e], r) \in Nat
    BY <1>3, JobFacts, MeasureFacts
  <2>2. f[e] = slip[e].rows[r] /\ g[e] = slip[e].units /\ h[e] = 2 * Short(slip[e], r)
    BY <1>1, <2>1
  <2>3. Short(slip[e], r) = NotNegative(p * g[e] - n * f[e])
    BY <1>1, <2>2 DEF Short
  <2>4. PICK x, y : x = p * g[e] /\ y = n * f[e] /\ x \in Int /\ y \in Int
    <3>1. g[e] \in Nat /\ f[e] \in Nat
      BY <2>1, <2>2
    <3> QED BY <1>2, <3>1
  <2>5. x - y <= NotNegative(x - y) /\ NotNegative(x - y) \in Int
    BY <2>4 DEF NotNegative
  <2> QED BY <2>1, <2>2, <2>3, <2>4, <2>5
<1>5. 2 * (p * SumFunctionOnSet(g, c)) - 2 * (n * SumFunctionOnSet(f, c)) <= SumFunctionOnSet(h, c)
  BY <1>2, <1>3, <1>4, SumsDiffer
<1>6. SumFunctionOnSet(h, c) <= Lacking(r) /\ SumFunctionOnSet(h, c) \in Int
  <2>1. \A e \in Drafted("Send") : h[e] \in Nat
    <3>1. \A e \in Drafted("Send") : e \in Slips /\ Short(slip[e], r) \in Nat
      BY EntryFacts, MeasureFacts
    <3> QED BY <1>1, <3>1
  <2>2. SumFunctionOnSet(h, c) <= SumFunctionOnSet(h, Drafted("Send")) /\ SumFunctionOnSet(h, c) \in Nat
    BY <1>3, <2>1, SumOfPart
  <2>3. Lacking(r) = SumFunctionOnSet(h, Drafted("Send"))
    BY <1>1 DEF Lacking
  <2> QED BY <2>2, <2>3
<1>7. RowsIn("Send", r) = SumFunctionOnSet(f, c) /\ UnitsIn("Send") = SumFunctionOnSet(g, c)
  BY <1>1 DEF RowsIn, UnitsIn
<1>8. PICK x, y : x = n * RowsIn("Send", r) /\ y = p * UnitsIn("Send") /\ x \in Int /\ y \in Int
  BY <1>2, SumFacts
<1>9. Lacking(r) \in Int
  BY SumFacts
<1> QED BY <1>1, <1>5, <1>6, <1>7, <1>8, <1>9

\* what a step on the job alone leaves as it is
LEMMA NothingMoves ==
  ASSUME slip' = slip, errand' = errand, untold' = untold
  PROVE  /\ Carried' = Carried /\ InOrder' = InOrder /\ Slack' = Slack
         /\ \A kind \in {"Send", "Receipt"} :
              /\ Posted(kind)' = Posted(kind) /\ UnitsIn(kind)' = UnitsIn(kind)
              /\ \A r \in JobRows : RowsIn(kind, r)' = RowsIn(kind, r)
         /\ \A r \in JobRows : HasMaterial(r)' = HasMaterial(r)
<1>1. Carried' = Carried /\ InOrder' = InOrder /\ Slack' = Slack
  BY DEF Carried, InOrder, Slack, Drafted, Off, UnitsFor
<1>2. ASSUME NEW kind \in {"Send", "Receipt"}
      PROVE  /\ Posted(kind)' = Posted(kind) /\ UnitsIn(kind)' = UnitsIn(kind)
             /\ \A r \in JobRows : RowsIn(kind, r)' = RowsIn(kind, r)
  BY DEF Posted, UnitsIn, RowsIn, Known
<1>3. ASSUME NEW r \in JobRows PROVE HasMaterial(r)' = HasMaterial(r)
  BY <1>1 DEF HasMaterial, Drafted, Leeway, Lacking, Short
<1> QED BY <1>1, <1>2, <1>3

\* entries that are only posted or cancelled have the material they had, and
\* may lack more for every one that is cancelled
LEMMA MaterialStays ==
  ASSUME JobSound,
         \A e \in Slips : slip'[e].kind = slip[e].kind /\ slip'[e].units = slip[e].units /\ slip'[e].rows = slip[e].rows
  PROVE  /\ Spent' = Spent => Slack' = Slack
         /\ Slack' \in Nat /\ Slack <= Slack' => \A r \in JobRows : HasMaterial(r) => HasMaterial(r)'
<1>1. \A kind \in {"Send", "Receipt"} : Drafted(kind)' = Drafted(kind) /\ Drafted(kind) \in SUBSET Slips
  BY DEF Drafted
<1>2. \A e \in Slips : Off(slip'[e]) = Off(slip[e]) /\ \A r \in JobRows : Short(slip'[e], r) = Short(slip[e], r)
  BY DEF Off, UnitsFor, Short
<1>3. ASSUME Spent' = Spent PROVE Slack' = Slack
  <2>1. PICK f, g, c : /\ f = [e \in Slips |-> Off(slip[e])] /\ g = [e \in Slips |-> Off(slip'[e])]
                       /\ c = Spent /\ IsFiniteSet(c) /\ c \in SUBSET Slips
    BY EntryFacts
  <2>2. Slack = SumFunctionOnSet(f, c) /\ Slack' = SumFunctionOnSet(g, c)
    BY <1>3, <2>1 DEF Slack, Spent
  <2>3. \A e \in c : f[e] = g[e]
    BY <1>2, <2>1
  <2> QED BY <2>1, <2>2, <2>3, SumOfSame
<1>4. ASSUME NEW r \in JobRows PROVE Lacking(r)' = Lacking(r)
  <2>1. PICK f, g, c : /\ f = [e \in Slips |-> 2 * Short(slip[e], r)] /\ g = [e \in Slips |-> 2 * Short(slip'[e], r)]
                       /\ c = Drafted("Send") /\ IsFiniteSet(c) /\ c \in SUBSET Slips
    BY <1>1, EntryFacts
  <2>2. Lacking(r) = SumFunctionOnSet(f, c) /\ Lacking(r)' = SumFunctionOnSet(g, c)
    BY <1>1, <2>1 DEF Lacking
  <2>3. \A e \in c : f[e] = g[e]
    BY <1>2, <2>1
  <2> QED BY <2>1, <2>2, <2>3, SumOfSame
<1>5. ASSUME Slack' \in Nat, Slack <= Slack', NEW r \in JobRows, HasMaterial(r) PROVE HasMaterial(r)'
  <2>1. ASSUME NEW kind \in {"Send", "Receipt"}
        PROVE  Leeway(kind, r) <= Leeway(kind, r)' /\ Leeway(kind, r) \in Int /\ Leeway(kind, r)' \in Int
    <3>1. PICK c, a, x, y : /\ c = JobQty * Cardinality(Drafted(kind)) /\ a = 2 * RequiredQty[r]
                            /\ x = 1 + Slack /\ y = 1 + Slack'
                            /\ c \in Int /\ a \in Nat /\ x \in Int /\ y \in Int /\ x <= y
      BY <1>5, EntryFacts, SumFacts, JobConstants
    <3>2. Leeway(kind, r) = c + a * x /\ Leeway(kind, r)' = c + a * y
      BY <1>1, <3>1, JobConstants DEF Leeway
    <3>3. a * x <= a * y /\ a * x \in Int /\ a * y \in Int
      BY <3>1, ScaledUp
    <3> QED BY <3>1, <3>2, <3>3
  <2>2. Lacking(r)' = Lacking(r) /\ Lacking(r) \in Int
    BY <1>4, SumFacts
  <2>3. ASSUME NEW e \in Drafted("Send")' PROVE 2 * Short(slip[e], r)' <= Leeway("Send", r)'
    <3>1. e \in Drafted("Send") /\ e \in Slips /\ Short(slip[e], r)' = Short(slip[e], r) /\ Short(slip[e], r) \in Int
      BY <1>1, <1>2, EntryFacts, MeasureFacts
    <3>2. 2 * Short(slip[e], r) <= Leeway("Send", r)
      BY <1>5, <3>1 DEF HasMaterial
    <3> QED BY <2>1, <3>1, <3>2
  <2>4. ASSUME NEW e \in Drafted("Receipt")' PROVE 2 * Short(slip[e], r)' <= Leeway("Receipt", r)' + Lacking(r)'
    <3>1. e \in Drafted("Receipt") /\ e \in Slips /\ Short(slip[e], r)' = Short(slip[e], r) /\ Short(slip[e], r) \in Int
      BY <1>1, <1>2, EntryFacts, MeasureFacts
    <3>2. 2 * Short(slip[e], r) <= Leeway("Receipt", r) + Lacking(r)
      BY <1>5, <3>1 DEF HasMaterial
    <3> QED BY <2>1, <2>2, <3>1, <3>2
  <2> QED BY <2>3, <2>4 DEF HasMaterial
<1> QED BY <1>3, <1>5

LEMMA JobStart == SInit => JobInv
<1> SUFFICES ASSUME SInit PROVE JobInv
  OBVIOUS
<1>1. /\ Carried = {} /\ errand = NoErrand /\ untold = {} /\ \A e \in Slips : slip[e].kind = "none"
      /\ \A k \in {"Send", "Receipt"} : Posted(k) = {} /\ Drafted(k) = {} /\ Known(k) = {}
  BY DEF SInit, Carried, Posted, Known, Drafted, Slip
<1>2. /\ job.docstatus = "Draft" /\ job.sent = 0 /\ job.received = 0
      /\ job.sentRows = RowZero /\ job.usedRows = RowZero /\ job \in JobType
  BY JobConstants DEF SInit, JobType
<1>3. slip \in [Slips -> SlipRow]
  BY JobConstants DEF SInit, SlipRow, Slip
<1>4. JobSound
  BY <1>1, <1>2, <1>3, FS_EmptySet DEF JobSound
<1>5. \A k \in {"Send", "Receipt"} : UnitsIn(k) = 0 /\ \A r \in JobRows : RowsIn(k, r) = 0
  BY <1>1, SumOfEmpty DEF UnitsIn, RowsIn
<1>6. Slack = 0
  <2>1. {e \in Drafted("Send") : slip[e].docstatus = "Cancelled"} = {}
    BY <1>1
  <2> QED BY <2>1, SumOfEmpty DEF Slack
<1>7. \A r \in JobRows : RowZero[r] = 0
  BY DEF RowZero
<1>8. \A r \in JobRows : HasMaterial(r)
  BY <1>1 DEF HasMaterial
<1>9. JobKnows
  BY <1>1, <1>2, <1>5, <1>6, <1>7, <1>8 DEF JobKnows, Distance
<1> QED BY <1>4, <1>9 DEF JobInv

LEMMA SubmitJobKeeps == ASSUME JobInv, SubmitJob PROVE JobInv'
<1>1. /\ errand = NoErrand /\ job.docstatus = "Draft" /\ errand' = errand /\ slip' = slip /\ untold' = untold
      /\ job' = [job EXCEPT !.docstatus = "Submitted", !.status = "Open"]
  BY DEF SubmitJob
<1>2. JobSound /\ Carried = {} /\ job.sent = 0 /\ job.received = 0 /\ job \in JobType
  BY <1>1 DEF JobInv, JobSound
<1>3. /\ job' \in JobType /\ job'.docstatus = "Submitted" /\ job'.status = "Open"
      /\ job'.sent = job.sent /\ job'.received = job.received
      /\ job'.sentRows = job.sentRows /\ job'.usedRows = job.usedRows
  BY <1>1, <1>2 DEF JobType
<1>5. JobQty > Eps => JobStatus(job') = "Open"
  BY <1>2, <1>3, JobConstants DEF JobStatus
<1>6. JobSound'
  BY <1>1, <1>2, <1>3, <1>5, NothingMoves DEF JobSound
<1>7. ASSUME InOrder' PROVE JobKnows'
  BY <1>1, <1>3, <1>7, NothingMoves DEF JobInv, JobKnows
<1> QED BY <1>6, <1>7 DEF JobInv

LEMMA CancelJobKeeps == ASSUME JobInv, CancelJob PROVE JobInv'
<1>1. /\ errand = NoErrand /\ job.docstatus = "Submitted" /\ errand' = errand /\ slip' = slip /\ untold' = untold
      /\ job.sent <= 0 /\ job.received <= 0
      /\ job' = [job EXCEPT !.docstatus = "Cancelled", !.status = "Cancelled"]
  BY DEF CancelJob
<1>2. JobSound /\ job \in JobType /\ job.sent \in Nat /\ job.received \in Nat
  BY JobFacts DEF JobInv
<1>3. /\ job' \in JobType /\ job'.docstatus = "Cancelled"
      /\ job'.sent = job.sent /\ job'.received = job.received
      /\ job'.sentRows = job.sentRows /\ job'.usedRows = job.usedRows
  BY <1>1, <1>2 DEF JobType
<1>4. JobSound'
  BY <1>1, <1>2, <1>3, NothingMoves DEF JobSound
<1>5. ASSUME InOrder' PROVE JobKnows'
  <2>1. JobKnows /\ job.sent = 0 /\ job.received = 0
    <3>1. job.sent = 0 /\ job.received = 0
      BY <1>1, <1>2
    <3>2. InOrder' = InOrder
      BY <1>1, NothingMoves
    <3> QED BY <1>5, <3>1, <3>2 DEF JobInv
  <2>2. UnitsIn("Send") <= Slack
    <3>1. Distance(0, UnitsIn("Send")) <= Slack
      BY <2>1 DEF JobKnows
    <3>2. UnitsIn("Send") \in Nat
      BY <1>2, SumFacts
    <3> QED BY <3>1, <3>2 DEF Distance
  <2>3. Posted("Receipt") = {}
    <3>1. PICK f : f = [e \in Slips |-> slip[e].units]
      OBVIOUS
    <3>2. Known("Receipt") = Posted("Receipt")
      BY <1>1 DEF Known
    <3>3. IsFiniteSet(Posted("Receipt")) /\ Posted("Receipt") \in SUBSET Carried
      BY <1>2, EntryFacts
    <3>4. SumFunctionOnSet(f, Posted("Receipt")) = 0
      BY <2>1, <3>1, <3>2 DEF JobKnows, UnitsIn
    <3>5. \A e \in Posted("Receipt") : f[e] \in Nat /\ f[e] # 0
      <4>1. \A e \in Posted("Receipt") : slip[e].units \in Nat /\ slip[e].units > 0 /\ e \in Slips
        BY <1>2, <3>3, JobFacts
      <4> QED BY <3>1, <4>1
    <3> QED BY <3>3, <3>4, <3>5, SumIsZero
  <2> QED BY <1>1, <1>3, <2>1, <2>2, <2>3, NothingMoves DEF JobKnows
<1> QED BY <1>4, <1>5 DEF JobInv

\* the draft of either request
LEMMA DraftKeeps ==
  ASSUME JobInv, NEW e \in Slips, NEW kind \in {"Send", "Receipt"}, NEW units \in Nat, units > 0,
         NEW rows \in [JobRows -> Nat], AtMostShare(units, rows),
         errand = NoErrand, job.docstatus = "Submitted", DraftSlip(e, kind, units, rows),
         FitsSlips(Slip(kind, "Draft", units, rows)),
         InOrder => \A r \in JobRows :
           /\ kind = "Send" => 2 * Short(Slip(kind, "Draft", units, rows), r) <= Leeway("Send", r) + JobQty
           /\ kind = "Receipt"
                => 2 * Short(Slip(kind, "Draft", units, rows), r) <= Leeway("Receipt", r) + JobQty + Lacking(r)
  PROVE  JobInv'
<1>1. PICK s : s = Slip(kind, "Draft", units, rows)
  OBVIOUS
<1>2. s \in SlipRow /\ s.kind = kind /\ s.docstatus = "Draft" /\ s.units = units /\ s.rows = rows
  BY <1>1 DEF Slip, SlipRow
<1>3. /\ slip[e].docstatus = "Absent" /\ slip' = [slip EXCEPT ![e] = s]
      /\ errand' = [slip |-> e, posted |-> FALSE] /\ job' = job /\ untold' = untold
  BY <1>1 DEF DraftSlip
<1>4. JobSound /\ slip \in [Slips -> SlipRow] /\ IsFiniteSet(Carried)
  BY DEF JobInv, JobSound
<1>5. slip' \in [Slips -> SlipRow] /\ slip'[e] = s /\ \A x \in Slips \ {e} : slip'[x] = slip[x]
  BY <1>2, <1>3, <1>4
<1>6. Carried' = Carried \cup {e} /\ e \notin Carried /\ slip[e].kind = "none"
  BY <1>2, <1>3, <1>4, <1>5 DEF Carried, JobSound
<1>7. IsFiniteSet(Carried')
  BY <1>4, <1>6, FS_AddElement
<1>8. errand' \in Errands /\ errand' # NoErrand /\ errand'.slip = e /\ ~errand'.posted
  <2>1. errand' \in Errands /\ errand'.slip = e /\ ~errand'.posted
    BY <1>3 DEF Errands
  <2> QED BY <2>1, JobConstants
<1>9. /\ \A x \in Slips : x \in Carried' <=> slip'[x].kind # "none"
      /\ \A x \in Carried' : slip'[x].units > 0 /\ AtMostShare(slip'[x].units, slip'[x].rows)
  BY <1>2, <1>4, <1>5, <1>6 DEF JobSound, Carried
<1>10. FitsSlips(slip[errand.slip])'
  BY <1>1, <1>2, <1>3, <1>5, <1>8 DEF FitsSlips
<1>11. JobSound'
  BY <1>2, <1>3, <1>4, <1>5, <1>7, <1>8, <1>9, <1>10 DEF JobSound, AtMostShare
<1>12. ASSUME NEW k \in {"Send", "Receipt"}
       PROVE  /\ Posted(k)' = Posted(k) /\ Known(k)' = Known(k)
              /\ UnitsIn(k)' = UnitsIn(k) /\ \A r \in JobRows : RowsIn(k, r)' = RowsIn(k, r)
  <2>1. Posted(k)' = Posted(k) /\ e \notin Posted(k)
    BY <1>2, <1>3, <1>5 DEF Posted
  <2>2. Known(k)' = Known(k) /\ \A x \in Known(k) : slip'[x] = slip[x]
    BY <1>5, <1>8, <2>1 DEF Known, Posted
  <2> QED BY <1>4, <2>1, <2>2, CountsStay
<1>13. ASSUME NEW k \in {"Send", "Receipt"}
       PROVE  /\ Drafted(k)' = IF k = kind THEN Drafted(k) \cup {e} ELSE Drafted(k)
              /\ e \notin Drafted(k) /\ Drafted(k) \in SUBSET Slips /\ IsFiniteSet(Drafted(k))
  <2>1. IsFiniteSet(Drafted(k))
    BY <1>4, EntryFacts
  <2>2. \A x \in Slips : slip'[x].kind = k <=> (x = e /\ k = kind) \/ (x # e /\ slip[x].kind = k)
    BY <1>2, <1>5
  <2>3. slip[e].kind # k /\ e \in Slips
    BY <1>6
  <2> QED BY <2>1, <2>2, <2>3 DEF Drafted
<1>14. Slack' = Slack /\ Slack \in Nat
  <2>1. Spent' = Spent /\ \A x \in Spent : slip'[x] = slip[x] /\ x \in Slips
    BY <1>2, <1>3, <1>5 DEF Spent, Drafted
  <2>2. PICK f, g, c : /\ f = [x \in Slips |-> Off(slip[x])] /\ g = [x \in Slips |-> Off(slip'[x])]
                       /\ c = Spent /\ IsFiniteSet(c)
    <3>1. IsFiniteSet(Spent)
      BY <1>4, EntryFacts
    <3> QED BY <3>1
  <2>3. Slack = SumFunctionOnSet(f, c) /\ Slack' = SumFunctionOnSet(g, c)
    BY <2>1, <2>2 DEF Slack, Spent
  <2>4. \A x \in c : f[x] = g[x]
    BY <2>1, <2>2
  <2>5. Slack' = Slack
    <3>1. IsFiniteSet(c)
      BY <2>2
    <3>2. SumFunctionOnSet(f, c) = SumFunctionOnSet(g, c)
      BY <2>4, <3>1, SumOfSame
    <3> QED BY <2>3, <3>2
  <2> QED BY <1>4, <2>5, SumFacts
<1>15. ASSUME NEW k \in {"Send", "Receipt"}, NEW r \in JobRows
       PROVE  /\ Leeway(k, r)' = IF k = kind THEN Leeway(k, r) + JobQty ELSE Leeway(k, r)
              /\ Leeway(k, r) \in Nat /\ JobQty \in Nat
  <2>1. PICK c, d : c = Cardinality(Drafted(k)) /\ d = Cardinality(Drafted(k)') /\ c \in Nat
    BY <1>4, EntryFacts
  <2>2. d = IF k = kind THEN c + 1 ELSE c
    BY <1>13, <2>1, FS_AddElement
  <2>3. JobQty * (c + 1) = JobQty * c + JobQty /\ JobQty * c \in Int
    BY <2>1, JobConstants
  <2>4. PICK z : z = 2 * RequiredQty[r] * (1 + Slack) /\ z \in Int
    BY <1>14, JobConstants
  <2>5. Leeway(k, r) = JobQty * c + z /\ Leeway(k, r)' = JobQty * d + z
    BY <1>14, <2>1, <2>4, JobConstants DEF Leeway
  <2> QED BY <1>4, <2>2, <2>3, <2>4, <2>5, SumFacts, JobConstants
<1>16. ASSUME NEW r \in JobRows PROVE Lacking(r) <= Lacking(r)' /\ Lacking(r) \in Int /\ Lacking(r)' \in Int
  <2>1. PICK f, g, c, d : /\ f = [x \in Slips |-> 2 * Short(slip[x], r)] /\ g = [x \in Slips |-> 2 * Short(slip'[x], r)]
                          /\ c = Drafted("Send") /\ d = Drafted("Send")'
    OBVIOUS
  <2>2. Lacking(r) = SumFunctionOnSet(f, c) /\ Lacking(r)' = SumFunctionOnSet(g, d)
    BY <2>1 DEF Lacking
  <2>3. IsFiniteSet(c) /\ IsFiniteSet(d) /\ c \in SUBSET d /\ c \in SUBSET Slips /\ d \in SUBSET Slips /\ e \notin c
        /\ d \in SUBSET (c \cup {e})
    <3>1. IsFiniteSet(c \cup {e})
      BY <1>13, <2>1, FS_AddElement
    <3> QED BY <1>13, <2>1, <3>1
  <2>4. \A x \in c : f[x] = g[x]
    BY <1>5, <2>1, <2>3
  <2>5. \A x \in d : g[x] \in Nat
    <3>1. \A x \in c : g[x] \in Nat
      <4>1. \A x \in c : Short(slip[x], r) \in Nat /\ x \in Slips
        BY <1>4, <2>1, EntryFacts, MeasureFacts
      <4>2. \A x \in c : f[x] \in Nat
        BY <2>1, <4>1
      <4> QED BY <2>4, <4>2
    <3>2. Short(s, r) \in Nat
      <4>1. RequiredQty[r] * units \in Int /\ JobQty * rows[r] \in Int
        BY JobConstants
      <4> QED BY <1>2, <4>1 DEF Short, NotNegative
    <3>3. g[e] = 2 * Short(s, r)
      BY <1>5, <2>1
    <3> QED BY <2>3, <3>1, <3>2, <3>3
  <2>6. SumFunctionOnSet(f, c) = SumFunctionOnSet(g, c)
    BY <2>3, <2>4, SumOfSame
  <2>7. SumFunctionOnSet(g, c) <= SumFunctionOnSet(g, d) /\ SumFunctionOnSet(g, c) \in Nat
    BY <2>3, <2>5, SumOfPart
  <2>8. SumFunctionOnSet(g, d) \in Nat
    BY <2>3, <2>5, SumOfPart
  <2> QED BY <2>2, <2>6, <2>7, <2>8
<1>17. ASSUME InOrder' PROVE JobKnows'
  <2>1. InOrder /\ JobKnows
    BY <1>3, <1>17 DEF InOrder, JobInv
  <2>2. ASSUME NEW r \in JobRows PROVE HasMaterial(r)'
    <3>1. HasMaterial(r)
      BY <2>1 DEF JobKnows
    <3>2. ASSUME NEW x \in Drafted("Send")' PROVE 2 * Short(slip[x], r)' <= Leeway("Send", r)'
      <4>1. CASE x = e
        <5>1. Short(slip[x], r)' = Short(s, r) /\ kind = "Send"
          BY <1>5, <1>13, <4>1 DEF Short
        <5>2. 2 * Short(s, r) <= Leeway("Send", r) + JobQty
          BY <1>1, <2>1, <5>1
        <5>3. Leeway("Send", r)' = Leeway("Send", r) + JobQty
          BY <1>15, <5>1
        <5> QED BY <5>1, <5>2, <5>3
      <4>2. CASE x # e
        <5>1. x \in Drafted("Send") /\ x \in Slips /\ Short(slip[x], r)' = Short(slip[x], r)
          BY <1>5, <1>13, <4>2 DEF Short
        <5>2. 2 * Short(slip[x], r) <= Leeway("Send", r) /\ Short(slip[x], r) \in Nat
          BY <1>4, <3>1, <5>1, EntryFacts, MeasureFacts DEF HasMaterial
        <5>3. Leeway("Send", r) <= Leeway("Send", r)' /\ Leeway("Send", r)' \in Int /\ Leeway("Send", r) \in Int
          BY <1>15
        <5> QED BY <5>1, <5>2, <5>3
      <4> QED BY <4>1, <4>2
    <3>3. ASSUME NEW x \in Drafted("Receipt")' PROVE 2 * Short(slip[x], r)' <= Leeway("Receipt", r)' + Lacking(r)'
      <4>1. CASE x = e
        <5>1. Short(slip[x], r)' = Short(s, r) /\ kind = "Receipt" /\ Short(s, r) \in Int
          <6>1. RequiredQty[r] * units \in Int /\ JobQty * rows[r] \in Int
            BY JobConstants
          <6> QED BY <1>2, <1>5, <1>13, <4>1, <6>1 DEF Short, NotNegative
        <5>2. 2 * Short(s, r) <= Leeway("Receipt", r) + JobQty + Lacking(r)
          BY <1>1, <2>1, <5>1
        <5> QED BY <1>15, <1>16, <5>1, <5>2
      <4>2. CASE x # e
        <5>1. x \in Drafted("Receipt") /\ x \in Slips /\ Short(slip[x], r)' = Short(slip[x], r)
          BY <1>5, <1>13, <4>2 DEF Short
        <5>2. 2 * Short(slip[x], r) <= Leeway("Receipt", r) + Lacking(r) /\ Short(slip[x], r) \in Nat
          BY <1>4, <3>1, <5>1, EntryFacts, MeasureFacts DEF HasMaterial
        <5>3. Leeway("Receipt", r) <= Leeway("Receipt", r)' /\ Leeway("Receipt", r)' \in Int /\ Leeway("Receipt", r) \in Int
          BY <1>15
        <5> QED BY <1>16, <5>1, <5>2, <5>3
      <4> QED BY <4>1, <4>2
    <3> QED BY <3>2, <3>3 DEF HasMaterial
  <2> QED BY <1>3, <1>12, <1>14, <2>1, <2>2 DEF JobKnows
<1> QED BY <1>11, <1>17 DEF JobInv

LEMMA BeginSendKeeps == ASSUME JobInv, NEW e \in Slips, NEW units \in Lots, BeginSend(e, units) PROVE JobInv'
<1>1. PICK rows : rows = [r \in JobRows |-> LowerOf(MaterialFor(r, units), NotNegative(RequiredQty[r] - job.sentRows[r]))]
  OBVIOUS
<1>2. /\ errand = NoErrand /\ job.docstatus = "Submitted" /\ units <= JobQty - job.sent + Eps
      /\ DraftSlip(e, "Send", units, rows)
  BY <1>1 DEF BeginSend, Sendable
<1>3. /\ JobSound /\ units \in Nat /\ units > 0 /\ job.sent \in Nat /\ job.sentRows \in [JobRows -> Nat]
      /\ JobQty \in Nat /\ Eps = 1
  BY JobFacts, JobConstants DEF JobInv
<1>4. ASSUME NEW r \in JobRows
      PROVE  /\ rows[r] \in Nat
             /\ 2 * (JobQty * rows[r]) - 2 * (RequiredQty[r] * units) <= JobQty
             /\ \/ 2 * (RequiredQty[r] * units) - 2 * (JobQty * rows[r]) <= JobQty
                \/ RequiredQty[r] - job.sentRows[r] <= rows[r]
  <2>1. RequiredQty[r] - job.sentRows[r] \in Int
    BY <1>3, JobConstants
  <2>2. rows[r] = LowerOf(MaterialFor(r, units), NotNegative(RequiredQty[r] - job.sentRows[r]))
    BY <1>1
  <2> QED BY <1>3, <2>1, <2>2, CutFacts
<1>5. rows \in [JobRows -> Nat] /\ AtMostShare(units, rows)
  BY <1>1, <1>4 DEF AtMostShare
<1>6. PICK s : s = Slip("Send", "Draft", units, rows)
  OBVIOUS
<1>7. s.kind = "Send" /\ s.units = units /\ s.rows = rows
  BY <1>6 DEF Slip
<1>8. FitsSlips(s)
  BY <1>2, <1>7 DEF FitsSlips
<1>9. ASSUME InOrder, NEW r \in JobRows PROVE 2 * Short(s, r) <= Leeway("Send", r) + JobQty
  <2>1. PICK n, p, u, q, a, b, sl :
          /\ n = JobQty /\ p = RequiredQty[r] /\ u = units /\ q = rows[r]
          /\ a = JobQty * Cardinality(Drafted("Send")) /\ b = 2 * (RequiredQty[r] * (1 + Slack)) /\ sl = Slack
          /\ n \in Nat /\ p \in Nat /\ u \in Nat /\ q \in Nat /\ a \in Nat /\ b \in Nat /\ sl \in Nat
    <3>1. Cardinality(Drafted("Send")) \in Nat /\ Slack \in Nat
      BY <1>3, EntryFacts, SumFacts
    <3>2. JobQty * Cardinality(Drafted("Send")) \in Nat /\ RequiredQty[r] * (1 + Slack) \in Nat
      BY <3>1, JobConstants
    <3> QED BY <1>3, <1>4, <3>1, <3>2, JobConstants
  <2>2. Leeway("Send", r) = a + b
    <3>1. 2 * p * (1 + sl) = 2 * (p * (1 + sl))
      BY <2>1
    <3> QED BY <2>1, <3>1, <1>3 DEF Leeway
  <2>3. 2 * (p * u) - 2 * (n * q) <= a + b + n
    <3>1. CASE 2 * (p * u) - 2 * (n * q) <= n
      BY <2>1, <3>1
    <3>2. CASE RequiredQty[r] - job.sentRows[r] <= rows[r]
      <4>1. PICK taken, gone : /\ taken = RowsIn("Send", r) /\ gone = UnitsIn("Send") /\ taken \in Int /\ gone \in Int
                               /\ job.sentRows[r] = taken /\ Distance(job.sent, gone) <= sl
        BY <1>3, <1>9, <2>1, SumFacts DEF JobInv, JobKnows
      <4>2. 2 * (n * taken) - 2 * (p * gone) <= a
        BY <1>3, <2>1, <4>1, RoundedUp
      <4>3. gone <= job.sent + sl
        BY <1>3, <2>1, <4>1 DEF Distance
      <4>4. u <= n - gone + (1 + sl) /\ p - taken <= q
        BY <1>2, <1>3, <2>1, <3>2, <4>1, <4>3
      <4>5. 2 * (p * n) - 2 * (n * p) <= 0
        BY <2>1
      <4>6. PICK over : over = 1 + sl /\ over \in Int /\ u <= n - gone + over
        BY <2>1, <4>4
      <4>7. n \in Int /\ p \in Int /\ u \in Int /\ q \in Int /\ a \in Int /\ 0 \in Int
        BY <2>1
      <4>8. 2 * (p * u) - 2 * (n * q) <= a + 0 + 2 * (p * over)
        BY <2>1, <4>1, <4>2, <4>4, <4>5, <4>6, <4>7, RestSuffices
      <4> QED BY <2>1, <4>6, <4>8
    <3> QED BY <1>4, <2>1, <3>1, <3>2
  <2>4. Short(s, r) = NotNegative(p * u - n * q)
    BY <1>7, <2>1 DEF Short
  <2>5. p * u \in Int /\ n * q \in Int
    BY <2>1
  <2> QED BY <2>1, <2>2, <2>3, <2>4, <2>5 DEF NotNegative
<1> QED BY <1>2, <1>3, <1>5, <1>6, <1>8, <1>9, DraftKeeps

LEMMA BeginReceiveKeeps ==
  ASSUME JobInv, NEW e \in Slips, NEW units \in Lots, BeginReceive(e, units) PROVE JobInv'
<1>1. PICK rows : rows = [r \in JobRows |-> LowerOf(MaterialFor(r, units), NotNegative(job.sentRows[r] - job.usedRows[r]))]
  OBVIOUS
<1>2. /\ errand = NoErrand /\ job.docstatus = "Submitted" /\ units <= JobQty - job.received + Eps
      /\ units <= job.sent - job.received + Eps /\ DraftSlip(e, "Receipt", units, rows)
  BY <1>1 DEF BeginReceive, SentFor
<1>3. /\ JobSound /\ units \in Nat /\ units > 0 /\ job.sent \in Nat /\ job.received \in Nat
      /\ job.sentRows \in [JobRows -> Nat] /\ job.usedRows \in [JobRows -> Nat] /\ JobQty \in Nat /\ Eps = 1
  BY JobFacts, JobConstants DEF JobInv
<1>4. ASSUME NEW r \in JobRows
      PROVE  /\ rows[r] \in Nat /\ rows[r] <= NotNegative(job.sentRows[r] - job.usedRows[r])
             /\ 2 * (JobQty * rows[r]) - 2 * (RequiredQty[r] * units) <= JobQty
             /\ \/ 2 * (RequiredQty[r] * units) - 2 * (JobQty * rows[r]) <= JobQty
                \/ job.sentRows[r] - job.usedRows[r] <= rows[r]
  <2>1. job.sentRows[r] - job.usedRows[r] \in Int
    BY <1>3
  <2>2. rows[r] = LowerOf(MaterialFor(r, units), NotNegative(job.sentRows[r] - job.usedRows[r]))
    BY <1>1
  <2> QED BY <1>3, <2>1, <2>2, CutFacts
<1>5. rows \in [JobRows -> Nat] /\ AtMostShare(units, rows)
  BY <1>1, <1>4 DEF AtMostShare
<1>6. PICK s : s = Slip("Receipt", "Draft", units, rows)
  OBVIOUS
<1>7. s.kind = "Receipt" /\ s.units = units /\ s.rows = rows
  BY <1>6 DEF Slip
<1>8. FitsSlips(s)
  BY <1>2, <1>4, <1>7 DEF FitsSlips
<1>9. ASSUME InOrder, NEW r \in JobRows PROVE 2 * Short(s, r) <= Leeway("Receipt", r) + JobQty + Lacking(r)
  <2>1. PICK n, p, u, q, a, b, sl, lack :
          /\ n = JobQty /\ p = RequiredQty[r] /\ u = units /\ q = rows[r] /\ lack = Lacking(r)
          /\ a = JobQty * Cardinality(Drafted("Receipt")) /\ b = 2 * (RequiredQty[r] * (1 + Slack)) /\ sl = Slack
          /\ n \in Nat /\ p \in Nat /\ u \in Nat /\ q \in Nat /\ a \in Nat /\ b \in Nat /\ sl \in Nat /\ lack \in Nat
    <3>1. Cardinality(Drafted("Receipt")) \in Nat /\ Slack \in Nat /\ Lacking(r) \in Nat
      BY <1>3, EntryFacts, SumFacts
    <3>2. JobQty * Cardinality(Drafted("Receipt")) \in Nat /\ RequiredQty[r] * (1 + Slack) \in Nat
      BY <3>1, JobConstants
    <3> QED BY <1>3, <1>4, <3>1, <3>2, JobConstants
  <2>2. Leeway("Receipt", r) = a + b
    <3>1. 2 * p * (1 + sl) = 2 * (p * (1 + sl))
      BY <2>1
    <3> QED BY <2>1, <3>1, <1>3 DEF Leeway
  <2>3. 2 * (p * u) - 2 * (n * q) <= a + b + n + lack
    <3>1. CASE 2 * (p * u) - 2 * (n * q) <= n
      BY <2>1, <3>1
    <3>2. CASE job.sentRows[r] - job.usedRows[r] <= rows[r]
      <4>1. PICK taken, gone, given, out :
              /\ taken = RowsIn("Receipt", r) /\ gone = UnitsIn("Receipt")
              /\ given = RowsIn("Send", r) /\ out = UnitsIn("Send")
              /\ taken \in Int /\ gone \in Int /\ given \in Int /\ out \in Int
        BY <1>3, SumFacts
      <4>2. /\ job.usedRows[r] = taken /\ job.received = gone /\ job.sentRows[r] = given
            /\ Distance(job.sent, out) <= sl
        BY <1>9, <2>1, <4>1 DEF JobInv, JobKnows
      <4>3. 2 * (n * taken) - 2 * (p * gone) <= a
        BY <1>3, <2>1, <4>1, RoundedUp
      <4>4. 2 * (p * out) - 2 * (n * given) <= lack
        BY <1>3, <2>1, <4>1, RoundedDown
      <4>5. job.sent <= out + sl
        BY <1>3, <2>1, <4>1, <4>2 DEF Distance
      <4>6. u <= out - gone + (1 + sl) /\ given - taken <= q
        BY <1>2, <1>3, <2>1, <3>2, <4>1, <4>2, <4>5
      <4>7. PICK over : over = 1 + sl /\ over \in Int /\ u <= out - gone + over
        BY <2>1, <4>6
      <4>8. n \in Nat /\ p \in Nat /\ u \in Int /\ q \in Int /\ a \in Int /\ lack \in Int
        BY <2>1
      <4>9. 2 * (p * u) - 2 * (n * q) <= a + lack + 2 * (p * over)
        BY <4>1, <4>3, <4>4, <4>6, <4>7, <4>8, RestSuffices
      <4> QED BY <2>1, <4>7, <4>9
    <3> QED BY <1>4, <2>1, <3>1, <3>2
  <2>4. Short(s, r) = NotNegative(p * u - n * q)
    BY <1>7, <2>1 DEF Short
  <2>5. p * u \in Int /\ n * q \in Int
    BY <2>1
  <2> QED BY <2>1, <2>2, <2>3, <2>4, <2>5 DEF NotNegative
<1> QED BY <1>2, <1>3, <1>5, <1>6, <1>8, <1>9, DraftKeeps

LEMMA PostKeeps == ASSUME JobInv, PostSlip PROVE JobInv'
<1>1. PICK x : x = errand.slip
  OBVIOUS
<1>2. /\ errand # NoErrand /\ ~errand.posted /\ slip[x].docstatus = "Draft"
      /\ slip' = [slip EXCEPT ![x].docstatus = "Submitted"]
      /\ errand' = [errand EXCEPT !.posted = TRUE] /\ job' = job /\ untold' = untold
  BY <1>1 DEF PostSlip
<1>3. JobSound /\ errand \in Errands /\ x \in Carried /\ job.docstatus = "Submitted" /\ FitsSlips(slip[x])
  BY <1>1, <1>2 DEF JobInv, JobSound, Errands, Carried
<1>4. /\ slip' \in [Slips -> SlipRow] /\ Carried' = Carried
      /\ slip'[x].docstatus = "Submitted" /\ \A e \in Slips \ {x} : slip'[e] = slip[e]
      /\ \A e \in Slips : /\ slip'[e].kind = slip[e].kind /\ slip'[e].units = slip[e].units
                          /\ slip'[e].rows = slip[e].rows
  BY <1>2, <1>3, SlipMoves
<1>5. errand' \in Errands /\ errand'.slip = x /\ errand'.posted /\ errand' # NoErrand
  BY <1>1, <1>2, <1>3, JobConstants DEF Errands
<1>6. FitsSlips(slip[errand.slip])'
  BY <1>2, <1>3, <1>4, <1>5 DEF FitsSlips, Carried
<1>7. /\ \A e \in Slips : e \in Carried' <=> slip'[e].kind # "none"
      /\ \A e \in Carried' : slip'[e].units > 0 /\ AtMostShare(slip'[e].units, slip'[e].rows)
  BY <1>3, <1>4 DEF JobSound, Carried
<1>8. JobSound'
  BY <1>2, <1>3, <1>4, <1>5, <1>6, <1>7 DEF JobSound, AtMostShare
<1>9. ASSUME NEW k \in {"Send", "Receipt"}
      PROVE  UnitsIn(k)' = UnitsIn(k) /\ \A r \in JobRows : RowsIn(k, r)' = RowsIn(k, r)
  <2>1. Posted(k) \ {x} = Posted(k)' \ {x}
    BY <1>4 DEF Posted
  <2>2. Known(k)' = Known(k) /\ Known(k) \in SUBSET Slips
    BY <1>1, <1>2, <1>5, <2>1 DEF Known, Posted
  <2> QED BY <1>3, <1>4, <2>2, CountsStay
<1>10. Spent' = Spent
  BY <1>2, <1>3, <1>4 DEF Spent, Drafted, Carried
<1>11. ASSUME InOrder' PROVE JobKnows'
  <2>1. InOrder /\ JobKnows
    BY <1>2, <1>11 DEF InOrder, JobInv
  <2>2. Slack' = Slack /\ Slack \in Nat
    BY <1>3, <1>4, <1>10, MaterialStays, SumFacts
  <2>3. \A r \in JobRows : HasMaterial(r)'
    BY <1>3, <1>4, <2>1, <2>2, MaterialStays DEF JobKnows
  <2> QED BY <1>2, <1>3, <1>9, <2>1, <2>2, <2>3 DEF JobKnows
<1> QED BY <1>8, <1>11 DEF JobInv

LEMMA RefuseKeeps == ASSUME JobInv, RefuseSlip PROVE JobInv'
<1>1. errand # NoErrand /\ ~errand.posted /\ errand' = NoErrand /\ job' = job /\ slip' = slip /\ untold' = untold
  BY DEF RefuseSlip
<1>2. JobSound /\ errand.slip \in Slips /\ slip[errand.slip].docstatus = "Draft" /\ job.docstatus = "Submitted"
  BY <1>1 DEF JobInv, JobSound, Errands
<1>3. JobSound'
  BY <1>1, <1>2 DEF JobSound, Carried
<1>4. ASSUME NEW k \in {"Send", "Receipt"}
      PROVE  UnitsIn(k)' = UnitsIn(k) /\ \A r \in JobRows : RowsIn(k, r)' = RowsIn(k, r)
  <2>1. Posted(k)' = Posted(k) /\ errand.slip \notin Posted(k)
    BY <1>1, <1>2 DEF Posted
  <2>2. Known(k)' = Known(k) /\ Known(k) \in SUBSET Slips
    BY <1>1, <2>1 DEF Known, Posted
  <2> QED BY <1>1, <1>2, <2>2, CountsStay
<1>5. Spent' = Spent
  BY <1>1 DEF Spent, Drafted
<1>6. ASSUME InOrder' PROVE JobKnows'
  <2>1. InOrder /\ JobKnows
    BY <1>1, <1>6 DEF InOrder, JobInv
  <2>2. Slack' = Slack /\ Slack \in Nat
    BY <1>1, <1>2, <1>5, MaterialStays, SumFacts
  <2>3. \A r \in JobRows : HasMaterial(r)'
    BY <1>1, <1>2, <2>1, <2>2, MaterialStays DEF JobKnows
  <2> QED BY <1>1, <1>2, <1>4, <2>1, <2>2, <2>3 DEF JobKnows
<1> QED BY <1>3, <1>6 DEF JobInv

LEMMA DieKeeps == ASSUME JobInv, Die PROVE JobInv'
<1>1. /\ errand # NoErrand /\ errand' = NoErrand /\ job' = job /\ slip' = slip
      /\ untold' = untold \cup {errand.slip}
  BY DEF Die
<1>2. JobSound' /\ ~InOrder'
  BY <1>1 DEF JobInv, JobSound, Carried, InOrder
<1> QED BY <1>2 DEF JobInv

LEMMA SubmitSlipKeeps == ASSUME JobInv, NEW e \in Slips, SubmitSlip(e) PROVE JobInv'
<1>1. /\ errand = NoErrand /\ slip[e].docstatus = "Draft" /\ job' = job /\ errand' = errand
      /\ slip' = [slip EXCEPT ![e].docstatus = "Submitted"] /\ untold' = untold \cup {e}
  BY DEF SubmitSlip
<1>2. JobSound /\ e \in Carried
  BY <1>1 DEF JobInv, Carried
<1>3. /\ slip' \in [Slips -> SlipRow] /\ Carried' = Carried
      /\ \A x \in Slips : slip'[x].kind = slip[x].kind /\ slip'[x].units = slip[x].units /\ slip'[x].rows = slip[x].rows
  BY <1>1, <1>2, SlipMoves
<1>4. JobSound'
  <2>1. /\ \A x \in Slips : x \in Carried' <=> slip'[x].kind # "none"
        /\ \A x \in Carried' : slip'[x].units > 0 /\ AtMostShare(slip'[x].units, slip'[x].rows)
    BY <1>2, <1>3 DEF JobSound, Carried
  <2> QED BY <1>1, <1>2, <1>3, <2>1 DEF JobSound, AtMostShare
<1>5. ~InOrder'
  BY <1>1 DEF InOrder
<1> QED BY <1>4, <1>5 DEF JobInv

LEMMA TellKeeps == ASSUME JobInv, TellJob PROVE JobInv'
<1>1. PICK x, s : x = errand.slip /\ s = slip[x]
  OBVIOUS
<1>2. /\ errand # NoErrand /\ errand.posted /\ job' = CountedIn(s)
      /\ errand' = NoErrand /\ slip' = slip /\ untold' = untold
  BY <1>1 DEF TellJob
<1>3. JobSound /\ x \in Carried /\ s.docstatus = "Submitted" /\ job.docstatus = "Submitted" /\ FitsSlips(s)
  BY <1>1, <1>2 DEF JobInv, JobSound, Errands, Carried
<1>4. /\ s \in SlipRow /\ s.kind \in {"Send", "Receipt"} /\ s.units \in Nat /\ s.units > 0 /\ s.rows \in [JobRows -> Nat]
      /\ job \in JobType /\ job.sent \in Nat /\ job.received \in Nat
      /\ job.sentRows \in [JobRows -> Nat] /\ job.usedRows \in [JobRows -> Nat]
  BY <1>1, <1>3, JobFacts
<1>5. PICK sent, used :
        /\ sent = [r \in JobRows |-> job.sentRows[r] + Told(s.rows, r)]
        /\ used = [r \in JobRows |-> job.usedRows[r] + Told(s.rows, r)]
  OBVIOUS
<1>6. sent \in [JobRows -> Nat] /\ used \in [JobRows -> Nat]
  <2>1. \A r \in JobRows : Told(s.rows, r) \in Nat /\ job.sentRows[r] \in Nat /\ job.usedRows[r] \in Nat
    BY <1>4, ToldFacts
  <2> QED BY <1>5, <2>1
<1>7. PICK n : n = IF s.kind = "Send" THEN [job EXCEPT !.sent = job.sent + s.units, !.sentRows = sent]
                   ELSE [job EXCEPT !.received = job.received + s.units, !.usedRows = used]
  OBVIOUS
<1>8. job' = [n EXCEPT !.status = JobStatus(n)]
  BY <1>2, <1>5, <1>7 DEF CountedIn
<1>9. /\ s.kind = "Send" => job.sent + s.units \in 0 .. JobQty + Eps
      /\ s.kind = "Receipt" => job.received + s.units \in 0 .. JobQty + Eps
  BY <1>3, <1>4, JobConstants DEF FitsSlips
<1>10. /\ n \in JobType /\ n.docstatus = job.docstatus
       /\ s.kind = "Send" => /\ n.sent = job.sent + s.units /\ n.sentRows = sent
                             /\ n.received = job.received /\ n.usedRows = job.usedRows
       /\ s.kind = "Receipt" => /\ n.received = job.received + s.units /\ n.usedRows = used
                                /\ n.sent = job.sent /\ n.sentRows = job.sentRows
  <2>1. CASE s.kind = "Send"
    <3>1. n = [job EXCEPT !.sent = job.sent + s.units, !.sentRows = sent]
      BY <1>7, <2>1
    <3> QED BY <1>4, <1>6, <1>9, <2>1, <3>1 DEF JobType
  <2>2. CASE s.kind = "Receipt"
    <3>1. n = [job EXCEPT !.received = job.received + s.units, !.usedRows = used]
      BY <1>7, <2>2
    <3> QED BY <1>4, <1>6, <1>9, <2>2, <3>1 DEF JobType
  <2> QED BY <1>4, <2>1, <2>2
<1>11. /\ job' \in JobType /\ job'.docstatus = n.docstatus /\ job'.status = JobStatus(n)
       /\ job'.sent = n.sent /\ job'.received = n.received /\ job'.sentRows = n.sentRows /\ job'.usedRows = n.usedRows
  BY <1>8, <1>10, StatusFacts DEF JobType
<1>12. JobStatus(job') = JobStatus(n)
  BY <1>11 DEF JobStatus
<1>13. JobSound'
  BY <1>2, <1>3, <1>10, <1>11, <1>12 DEF JobSound, Carried
<1>14. ASSUME NEW k \in {"Send", "Receipt"}
       PROVE /\ UnitsIn(k)' = IF s.kind = k THEN UnitsIn(k) + s.units ELSE UnitsIn(k)
             /\ \A r \in JobRows : RowsIn(k, r)' = IF s.kind = k THEN RowsIn(k, r) + s.rows[r] ELSE RowsIn(k, r)
  <2>1. Posted(k)' = Posted(k) /\ (x \in Posted(k) <=> s.kind = k)
    BY <1>1, <1>2, <1>3 DEF Posted, Carried
  <2>2. \A e \in Carried : slip'[e].units = slip[e].units /\ slip'[e].rows = slip[e].rows
    BY <1>2
  <2>3. CASE s.kind = k
    <3>1. x \notin Known(k) /\ Known(k)' = Known(k) \cup {x}
      BY <1>1, <1>2, <2>1, <2>3 DEF Known
    <3> QED BY <1>1, <1>3, <2>2, <2>3, <3>1, CountsChange
  <2>4. CASE s.kind # k
    <3>1. Known(k)' = Known(k) /\ \A e \in Known(k) : slip'[e].units = slip[e].units /\ slip'[e].rows = slip[e].rows
      BY <1>1, <1>2, <2>1, <2>4 DEF Known
    <3> QED BY <1>3, <2>4, <3>1, CountsStay
  <2> QED BY <2>3, <2>4
<1>15. Spent' = Spent
  BY <1>2 DEF Spent, Drafted
<1>16. ASSUME InOrder' PROVE JobKnows'
  <2>1. InOrder /\ JobKnows
    BY <1>2, <1>16 DEF InOrder, JobInv
  <2>2. \A r \in JobRows : Told(s.rows, r) = s.rows[r]
    BY <1>4, <2>1, ToldFacts DEF InOrder
  <2>3. Slack' = Slack /\ Slack \in Nat
    BY <1>2, <1>3, <1>15, MaterialStays, SumFacts
  <2>4. \A r \in JobRows : HasMaterial(r)'
    BY <1>2, <1>3, <2>1, <2>3, MaterialStays DEF JobKnows
  <2>5. UnitsIn("Send") \in Nat /\ UnitsIn("Receipt") \in Nat
    BY <1>3, SumFacts
  <2>6. Distance(job.sent, UnitsIn("Send")) <= Slack /\ job.received = UnitsIn("Receipt")
    BY <2>1 DEF JobKnows
  <2>7. Distance(job'.sent, UnitsIn("Send")') <= Slack' /\ job'.received = UnitsIn("Receipt")'
    <3>1. CASE s.kind = "Send"
      <4>1. job'.sent = job.sent + s.units /\ UnitsIn("Send")' = UnitsIn("Send") + s.units
        BY <1>10, <1>11, <1>14, <3>1
      <4>2. job'.received = job.received /\ UnitsIn("Receipt")' = UnitsIn("Receipt")
        BY <1>10, <1>11, <1>14, <3>1
      <4>3. Distance(job'.sent, UnitsIn("Send")') = Distance(job.sent, UnitsIn("Send"))
        BY <1>4, <2>5, <4>1 DEF Distance
      <4> QED BY <2>3, <2>6, <4>2, <4>3
    <3>2. CASE s.kind = "Receipt"
      <4>1. job'.sent = job.sent /\ UnitsIn("Send")' = UnitsIn("Send")
        BY <1>10, <1>11, <1>14, <3>2
      <4>2. job'.received = job.received + s.units /\ UnitsIn("Receipt")' = UnitsIn("Receipt") + s.units
        BY <1>10, <1>11, <1>14, <3>2
      <4> QED BY <2>3, <2>6, <4>1, <4>2
    <3> QED BY <1>4, <3>1, <3>2
  <2>8. ASSUME NEW r \in JobRows
        PROVE  job'.sentRows[r] = RowsIn("Send", r)' /\ job'.usedRows[r] = RowsIn("Receipt", r)'
    <3>1. job.sentRows[r] = RowsIn("Send", r) /\ job.usedRows[r] = RowsIn("Receipt", r)
      BY <2>1 DEF JobKnows
    <3>2. CASE s.kind = "Send"
      BY <1>5, <1>10, <1>11, <1>14, <2>2, <3>1, <3>2
    <3>3. CASE s.kind = "Receipt"
      BY <1>5, <1>10, <1>11, <1>14, <2>2, <3>1, <3>3
    <3> QED BY <1>4, <3>2, <3>3
  <2>9. ASSUME \A i \in DOMAIN Spare : Spare[i] = 0, NEW r \in JobRows PROVE job'.usedRows[r] <= job'.sentRows[r]
    <3>1. job.usedRows[r] <= job.sentRows[r] /\ job.usedRows[r] \in Nat /\ job.sentRows[r] \in Nat /\ s.rows[r] \in Nat
      BY <1>4, <2>1, <2>9 DEF JobKnows
    <3>2. CASE s.kind = "Send"
      BY <1>5, <1>10, <1>11, <2>2, <3>1, <3>2
    <3>3. CASE s.kind = "Receipt"
      <4>1. s.rows[r] <= NotNegative(job.sentRows[r] - job.usedRows[r])
        BY <1>3, <3>3 DEF FitsSlips
      <4>2. s.rows[r] <= job.sentRows[r] - job.usedRows[r]
        BY <3>1, <4>1 DEF NotNegative
      <4>3. job'.usedRows[r] = job.usedRows[r] + s.rows[r] /\ job'.sentRows[r] = job.sentRows[r]
        BY <1>5, <1>10, <1>11, <2>2, <3>3
      <4> QED BY <3>1, <4>2, <4>3
    <3> QED BY <1>4, <3>2, <3>3
  <2>10. job'.docstatus # "Cancelled"
    BY <1>3, <1>10, <1>11
  <2> QED BY <2>4, <2>7, <2>8, <2>9, <2>10 DEF JobKnows
<1> QED BY <1>13, <1>16 DEF JobInv

\* what the vendor holds of the item of a row is what was moved in that row
LEMMA HeldIs ==
  ASSUME JobSound, errand = NoErrand, InOrder, NEW r \in JobRows
  PROVE  \A kind \in {"Send", "Receipt"} : Moved(kind, ItemOf[r]) = RowsIn(kind, r)
<1> SUFFICES ASSUME NEW kind \in {"Send", "Receipt"} PROVE Moved(kind, ItemOf[r]) = RowsIn(kind, r)
  OBVIOUS
<1>1. PICK f, g, c : /\ f = [e \in Slips |-> slip[e].rows[r]] /\ g = [e \in Slips |-> OfItem(slip[e].rows, ItemOf[r])]
                     /\ c = Posted(kind)
  OBVIOUS
<1>2. c \in SUBSET Carried /\ IsFiniteSet(c) /\ Known(kind) = c
  BY <1>1, EntryFacts DEF Known
<1>3. ASSUME NEW e \in c PROVE f[e] = g[e]
  <2>1. e \in Slips /\ slip[e].rows \in [JobRows -> Nat]
    BY <1>2, JobFacts
  <2>2. OfItem(slip[e].rows, ItemOf[r]) = slip[e].rows[r]
    BY <2>1, OfItemFacts DEF InOrder
  <2> QED BY <1>1, <2>1, <2>2
<1>4. SumFunctionOnSet(f, c) = SumFunctionOnSet(g, c)
  BY <1>2, <1>3, SumOfSame
<1> QED BY <1>1, <1>2, <1>4 DEF Moved, RowsIn

LEMMA SlackGrows ==
  ASSUME JobSound, NEW x \in Carried, x \notin Spent, Spent' = Spent \cup {x},
         \A e \in Slips : slip'[e].units = slip[e].units /\ slip'[e].rows = slip[e].rows
  PROVE  Slack' = Slack + Off(slip[x])
<1>1. PICK f, g, c, d : /\ f = [e \in Slips |-> Off(slip[e])] /\ g = [e \in Slips |-> Off(slip'[e])]
                        /\ c = Spent /\ d = Spent'
  OBVIOUS
<1>2. Slack = SumFunctionOnSet(f, c) /\ Slack' = SumFunctionOnSet(g, d)
  BY <1>1 DEF Slack, Spent
<1>3. IsFiniteSet(c) /\ c \in SUBSET Carried /\ Carried \in SUBSET Slips
  BY <1>1, EntryFacts
<1>4. \A e \in Slips : Off(slip'[e]) = Off(slip[e])
  BY DEF Off, UnitsFor
<1>5. \A e \in c \cup {x} : f[e] \in Int /\ g[e] = f[e]
  <2>1. \A e \in c \cup {x} : e \in Carried /\ e \in Slips
    BY <1>3
  <2>2. \A e \in c \cup {x} : Off(slip[e]) \in Nat
    BY <2>1, MeasureFacts
  <2> QED BY <1>1, <1>4, <2>1, <2>2
<1>6. /\ \A e \in c \cup {x} : g[e] \in Int
      /\ \A e \in c : f[e] = g[e]
      /\ g[x] = Off(slip[x]) /\ x \notin c
  BY <1>1, <1>3, <1>5
<1>7. SumFunctionOnSet(f, c) = SumFunctionOnSet(g, c)
  BY <1>3, <1>6, SumOfSame
<1>8. SumFunctionOnSet(g, c \cup {x}) = SumFunctionOnSet(g, c) + g[x]
  BY <1>3, <1>6, SumOfMoreOrLess
<1> QED BY <1>1, <1>2, <1>6, <1>7, <1>8

LEMMA CancelSlipKeeps == ASSUME JobInv, NEW x \in Slips, CancelSlip(x) PROVE JobInv'
<1>1. PICK s : s = slip[x]
  OBVIOUS
<1>2. /\ errand = NoErrand /\ s.docstatus = "Submitted" /\ (s.kind = "Send" => Covered(s.rows))
      /\ slip' = [slip EXCEPT ![x].docstatus = "Cancelled"]
      /\ job' = TakenBack(s) /\ errand' = errand /\ untold' = untold
  BY <1>1 DEF CancelSlip
<1>3. JobSound /\ x \in Carried
  BY <1>1, <1>2 DEF JobInv, Carried
<1>4. /\ s \in SlipRow /\ s.kind \in {"Send", "Receipt"} /\ s.units \in Nat /\ s.units > 0 /\ s.rows \in [JobRows -> Nat]
      /\ job \in JobType /\ job.sent \in Nat /\ job.sent <= JobQty + 1 /\ job.received \in Nat /\ job.received <= JobQty + 1
      /\ job.sentRows \in [JobRows -> Nat] /\ job.usedRows \in [JobRows -> Nat]
      /\ job.docstatus \in {"Draft", "Submitted", "Cancelled"}
  BY <1>1, <1>3, JobFacts
<1>5. PICK back, sentRows, usedRows, sent, received :
        /\ back = UnitsFor(s.rows)
        /\ sentRows = [r \in JobRows |-> NotNegative(job.sentRows[r] - OfItem(s.rows, ItemOf[r]))]
        /\ usedRows = [r \in JobRows |-> NotNegative(job.usedRows[r] - OfItem(s.rows, ItemOf[r]))]
        /\ sent = NotNegative(job.sent - back) /\ received = NotNegative(job.received - s.units)
  OBVIOUS
<1>6. sentRows \in [JobRows -> Nat] /\ usedRows \in [JobRows -> Nat]
  <2>1. ASSUME NEW r \in JobRows PROVE sentRows[r] \in Nat /\ usedRows[r] \in Nat
    <3>1. OfItem(s.rows, ItemOf[r]) \in Nat /\ job.sentRows[r] \in Nat /\ job.usedRows[r] \in Nat
      BY <1>4, OfItemFacts
    <3> QED BY <1>5, <3>1 DEF NotNegative
  <2> QED BY <1>5, <2>1
<1>7. back \in Nat /\ sent \in 0 .. JobQty + Eps /\ received \in 0 .. JobQty + Eps
  <2>1. back \in Nat
    BY <1>1, <1>3, <1>5, MeasureFacts
  <2> QED BY <1>4, <1>5, <2>1, JobConstants DEF NotNegative
<1>8. PICK n : n = IF s.kind = "Send" THEN [job EXCEPT !.sent = sent, !.sentRows = sentRows]
                   ELSE [job EXCEPT !.received = received, !.usedRows = usedRows]
  OBVIOUS
<1>9. job' = [n EXCEPT !.status = JobStatus(n)]
  BY <1>2, <1>5, <1>8 DEF TakenBack
<1>10. /\ n \in JobType /\ n.docstatus = job.docstatus
       /\ s.kind = "Send" => /\ n.sent = sent /\ n.sentRows = sentRows
                             /\ n.received = job.received /\ n.usedRows = job.usedRows
       /\ s.kind = "Receipt" => /\ n.received = received /\ n.usedRows = usedRows
                                /\ n.sent = job.sent /\ n.sentRows = job.sentRows
  <2>1. CASE s.kind = "Send"
    <3>1. n = [job EXCEPT !.sent = sent, !.sentRows = sentRows]
      BY <1>8, <2>1
    <3> QED BY <1>4, <1>6, <1>7, <2>1, <3>1 DEF JobType
  <2>2. CASE s.kind = "Receipt"
    <3>1. n = [job EXCEPT !.received = received, !.usedRows = usedRows]
      BY <1>8, <2>2
    <3> QED BY <1>4, <1>6, <1>7, <2>2, <3>1 DEF JobType
  <2> QED BY <1>4, <2>1, <2>2
<1>11. /\ job' \in JobType /\ job'.docstatus = n.docstatus /\ job'.status = JobStatus(n)
       /\ job'.sent = n.sent /\ job'.received = n.received /\ job'.sentRows = n.sentRows /\ job'.usedRows = n.usedRows
  BY <1>9, <1>10, StatusFacts DEF JobType
<1>12. JobStatus(job') = JobStatus(n)
  BY <1>11 DEF JobStatus
<1>13. /\ slip' \in [Slips -> SlipRow] /\ Carried' = Carried
       /\ slip'[x].docstatus = "Cancelled" /\ \A e \in Slips \ {x} : slip'[e] = slip[e]
       /\ \A e \in Slips : /\ slip'[e].kind = slip[e].kind /\ slip'[e].units = slip[e].units
                           /\ slip'[e].rows = slip[e].rows
  BY <1>2, <1>3, SlipMoves
<1>14. /\ \A e \in Slips : e \in Carried' <=> slip'[e].kind # "none"
       /\ \A e \in Carried' : slip'[e].units > 0 /\ AtMostShare(slip'[e].units, slip'[e].rows)
  BY <1>3, <1>13 DEF JobSound, Carried
<1>15. JobSound'
  BY <1>2, <1>3, <1>10, <1>11, <1>12, <1>13, <1>14 DEF JobSound, AtMostShare
<1>16. ASSUME NEW k \in {"Send", "Receipt"}
       PROVE /\ Posted(k)' = Posted(k) \ {x} /\ (x \in Known(k) <=> s.kind = k)
             /\ UnitsIn(k)' = IF s.kind = k THEN UnitsIn(k) - s.units ELSE UnitsIn(k)
             /\ \A r \in JobRows : RowsIn(k, r)' = IF s.kind = k THEN RowsIn(k, r) - s.rows[r] ELSE RowsIn(k, r)
  <2>1. Posted(k)' = Posted(k) \ {x} /\ (x \in Posted(k) <=> s.kind = k)
    BY <1>1, <1>2, <1>13 DEF Posted
  <2>2. Known(k) = Posted(k) /\ Known(k)' = Posted(k)'
    BY <1>2 DEF Known
  <2>3. /\ \A e \in Carried : slip'[e].units = slip[e].units /\ slip'[e].rows = slip[e].rows
        /\ \A e \in Known(k) : slip'[e].units = slip[e].units /\ slip'[e].rows = slip[e].rows
    BY <1>3, <1>13, EntryFacts
  <2>4. CASE s.kind = k
    BY <1>1, <1>3, <2>1, <2>2, <2>3, <2>4, CountsChange
  <2>5. CASE s.kind # k
    <3>1. Known(k)' = Known(k)
      BY <2>1, <2>2, <2>5
    <3> QED BY <1>3, <2>1, <2>2, <2>3, <2>5, <3>1, CountsStay
  <2> QED BY <2>4, <2>5
<1>17. Slack' = (IF s.kind = "Send" THEN Slack + Off(s) ELSE Slack) /\ Slack \in Nat /\ Off(s) \in Nat
  <2>1. Slack \in Nat /\ Off(s) \in Nat
    BY <1>1, <1>3, MeasureFacts, SumFacts
  <2>2. x \notin Spent /\ Spent' = IF s.kind = "Send" THEN Spent \cup {x} ELSE Spent
    BY <1>1, <1>2, <1>13 DEF Spent, Drafted
  <2>3. CASE s.kind = "Send"
    BY <1>1, <1>3, <1>13, <2>1, <2>2, <2>3, SlackGrows
  <2>4. CASE s.kind # "Send"
    BY <1>3, <1>13, <2>1, <2>2, <2>4, MaterialStays
  <2> QED BY <2>1, <2>3, <2>4
<1>18. ASSUME InOrder' PROVE JobKnows'
  <2>1. InOrder /\ JobKnows
    BY <1>2, <1>18 DEF InOrder, JobInv
  <2>2. \A r \in JobRows : OfItem(s.rows, ItemOf[r]) = s.rows[r]
    BY <1>4, <2>1, OfItemFacts DEF InOrder
  <2>3. Slack' \in Nat /\ Slack <= Slack'
    BY <1>17
  <2>4. \A r \in JobRows : HasMaterial(r)'
    BY <1>3, <1>13, <2>1, <2>3, MaterialStays DEF JobKnows
  <2>5. UnitsIn("Send") \in Nat /\ UnitsIn("Receipt") \in Nat /\ s.units <= UnitsIn(s.kind)
    BY <1>1, <1>3, <1>4, <1>16, SumFacts
  <2>6. Distance(job.sent, UnitsIn("Send")) <= Slack /\ job.received = UnitsIn("Receipt")
    BY <2>1 DEF JobKnows
  <2>7. Distance(job'.sent, UnitsIn("Send")') <= Slack' /\ job'.received = UnitsIn("Receipt")'
    <3>1. CASE s.kind = "Send"
      <4>1. PICK a, u, f, d, o : a = UnitsIn("Send") /\ u = s.units /\ f = back /\ d = Slack /\ o = Off(s)
        OBVIOUS
      <4>2. a \in Nat /\ u \in Nat /\ u <= a /\ f \in Nat /\ d \in Nat /\ o \in Nat
        BY <1>4, <1>7, <1>17, <2>5, <3>1, <4>1
      <4>3. job'.sent = NotNegative(job.sent - f) /\ UnitsIn("Send")' = a - u /\ Slack' = d + o
        BY <1>5, <1>10, <1>11, <1>16, <1>17, <3>1, <4>1
      <4>4. o = Distance(f, u) /\ Distance(job.sent, a) <= d
        BY <1>5, <2>6, <4>1 DEF Off
      <4>5. Distance(NotNegative(job.sent - f), a - u) <= d + o
        BY <1>4, <4>2, <4>4 DEF Distance, NotNegative
      <4>6. job'.received = job.received /\ UnitsIn("Receipt")' = UnitsIn("Receipt")
        BY <1>10, <1>11, <1>16, <3>1
      <4> QED BY <2>6, <4>3, <4>5, <4>6
    <3>2. CASE s.kind = "Receipt"
      <4>1. job'.sent = job.sent /\ UnitsIn("Send")' = UnitsIn("Send") /\ Slack' = Slack
        BY <1>10, <1>11, <1>16, <1>17, <3>2
      <4>2. job'.received = NotNegative(job.received - s.units) /\ UnitsIn("Receipt")' = UnitsIn("Receipt") - s.units
        BY <1>5, <1>10, <1>11, <1>16, <3>2
      <4>3. NotNegative(job.received - s.units) = UnitsIn("Receipt") - s.units
        BY <1>4, <2>5, <2>6, <3>2 DEF NotNegative
      <4> QED BY <2>6, <4>1, <4>2, <4>3
    <3> QED BY <1>4, <3>1, <3>2
  <2>8. ASSUME NEW r \in JobRows
        PROVE  /\ job'.sentRows[r] = RowsIn("Send", r)' /\ job'.usedRows[r] = RowsIn("Receipt", r)'
               /\ s.kind = "Send" => job'.sentRows[r] = job.sentRows[r] - s.rows[r] /\ job'.usedRows[r] = job.usedRows[r]
               /\ s.kind = "Receipt" => job'.usedRows[r] = job.usedRows[r] - s.rows[r] /\ job'.sentRows[r] = job.sentRows[r]
    <3>1. job.sentRows[r] = RowsIn("Send", r) /\ job.usedRows[r] = RowsIn("Receipt", r)
      BY <2>1 DEF JobKnows
    <3>2. s.rows[r] <= RowsIn(s.kind, r) /\ s.rows[r] \in Nat
      BY <1>1, <1>3, <1>4, <1>16, SumFacts
    <3>3. RowsIn("Send", r) \in Nat /\ RowsIn("Receipt", r) \in Nat
      BY <1>3, SumFacts
    <3>4. CASE s.kind = "Send"
      <4>1. job'.sentRows[r] = NotNegative(job.sentRows[r] - s.rows[r]) /\ job'.usedRows[r] = job.usedRows[r]
        BY <1>5, <1>10, <1>11, <2>2, <3>4
      <4>2. RowsIn("Send", r)' = RowsIn("Send", r) - s.rows[r] /\ RowsIn("Receipt", r)' = RowsIn("Receipt", r)
        BY <1>16, <3>4
      <4> QED BY <3>1, <3>2, <3>3, <3>4, <4>1, <4>2 DEF NotNegative
    <3>5. CASE s.kind = "Receipt"
      <4>1. job'.usedRows[r] = NotNegative(job.usedRows[r] - s.rows[r]) /\ job'.sentRows[r] = job.sentRows[r]
        BY <1>5, <1>10, <1>11, <2>2, <3>5
      <4>2. RowsIn("Receipt", r)' = RowsIn("Receipt", r) - s.rows[r] /\ RowsIn("Send", r)' = RowsIn("Send", r)
        BY <1>16, <3>5
      <4> QED BY <3>1, <3>2, <3>3, <3>5, <4>1, <4>2 DEF NotNegative
    <3> QED BY <1>4, <3>4, <3>5
  <2>9. ASSUME \A i \in DOMAIN Spare : Spare[i] = 0, NEW r \in JobRows PROVE job'.usedRows[r] <= job'.sentRows[r]
    <3>1. job.usedRows[r] <= job.sentRows[r] /\ job.usedRows[r] \in Nat /\ job.sentRows[r] \in Nat /\ s.rows[r] \in Nat
      BY <1>4, <2>1, <2>9 DEF JobKnows
    <3>2. CASE s.kind = "Receipt"
      BY <2>8, <3>1, <3>2
    <3>3. CASE s.kind = "Send"
      <4>1. Spare[ItemOf[r]] = 0
        BY <2>9, JobAssumption
      <4>2. Moved("Send", ItemOf[r]) = job.sentRows[r] /\ Moved("Receipt", ItemOf[r]) = job.usedRows[r]
        BY <1>2, <1>3, <2>1, HeldIs DEF JobKnows
      <4>3. s.rows[r] <= 0 + job.sentRows[r] - job.usedRows[r]
        BY <1>2, <2>2, <3>3, <4>1, <4>2 DEF Covered, Held
      <4> QED BY <2>8, <3>1, <3>3, <4>3
    <3> QED BY <1>4, <3>2, <3>3
  <2>10. ASSUME job'.docstatus = "Cancelled" PROVE Posted("Receipt")' = {} /\ UnitsIn("Send")' <= Slack'
    <3>1. Posted("Receipt") = {} /\ UnitsIn("Send") <= Slack
      BY <1>10, <1>11, <2>1, <2>10 DEF JobKnows
    <3>2. UnitsIn("Send")' <= UnitsIn("Send") /\ UnitsIn("Send")' \in Int
      BY <1>4, <1>16, <2>5
    <3> QED BY <1>16, <1>17, <2>3, <2>5, <3>1, <3>2
  <2> QED BY <2>4, <2>7, <2>8, <2>9, <2>10 DEF JobKnows
<1> QED BY <1>15, <1>18 DEF JobInv

LEMMA JobStep == JobInv /\ [SNext]_svars => JobInv'
<1> SUFFICES ASSUME JobInv, [SNext]_svars PROVE JobInv'
  OBVIOUS
<1>1. CASE UNCHANGED svars
  <2>1. job' = job /\ slip' = slip /\ errand' = errand /\ untold' = untold
    BY <1>1 DEF svars
  <2>2. JobSound'
    BY <2>1, NothingMoves DEF JobInv, JobSound, FitsSlips
  <2>3. ASSUME InOrder' PROVE JobKnows'
    <3>1. JobKnows
      BY <2>1, <2>3, NothingMoves DEF JobInv
    <3> QED BY <2>1, <3>1, NothingMoves DEF JobKnows
  <2> QED BY <2>2, <2>3 DEF JobInv
<1>2. CASE SubmitJob \/ CancelJob
  BY <1>2, SubmitJobKeeps, CancelJobKeeps
<1>3. CASE PostSlip \/ RefuseSlip \/ Die \/ TellJob
  BY <1>3, PostKeeps, RefuseKeeps, DieKeeps, TellKeeps
<1>4. ASSUME NEW e \in Slips, SubmitSlip(e) \/ CancelSlip(e) PROVE JobInv'
  BY <1>4, SubmitSlipKeeps, CancelSlipKeeps
<1>5. ASSUME NEW e \in Slips, NEW units \in Lots, BeginSend(e, units) \/ BeginReceive(e, units) PROVE JobInv'
  BY <1>5, BeginSendKeeps, BeginReceiveKeeps
<1> QED BY <1>1, <1>2, <1>3, <1>4, <1>5 DEF SNext

\* A rounded share comes back as units to half a step of either rounding.
LEMMA ComesBack ==
  ASSUME NEW n \in Nat, n > 0, NEW p \in Nat, p > 0, NEW u \in Nat, NEW q \in Nat, NEW d \in Int,
         2 * (n * q) - 2 * (p * u) <= n, 2 * (p * u) - 2 * (n * q) <= d
  PROVE  2 * p * Distance(Quantized(q * n, p), u) <= p + IF d > n THEN d ELSE n
<1>1. q * n \in Nat /\ q * n = n * q
  OBVIOUS
<1>2. PICK b : b = Quantized(q * n, p) /\ b \in Nat /\ 2 * (p * b) - 2 * (q * n) <= p /\ 2 * (q * n) - 2 * (p * b) <= p
  BY <1>1, QuantizedFacts
<1>3. PICK x, y, z : x = p * b /\ y = p * u /\ z = n * q /\ x \in Int /\ y \in Int /\ z \in Int
  BY <1>2
<1>4. 2 * x - 2 * z <= p /\ 2 * z - 2 * x <= p /\ 2 * z - 2 * y <= n /\ 2 * y - 2 * z <= d
  BY <1>1, <1>2, <1>3
<1>5. CASE b > u
  <2>1. p * (b - u) = x - y
    <3>1. p * (b - u) = p * b - p * u
      BY <1>2
    <3> QED BY <1>3, <3>1
  <2>2. 2 * p * (b - u) = 2 * (p * (b - u))
    BY <1>2
  <2> QED BY <1>2, <1>3, <1>4, <1>5, <2>1, <2>2 DEF Distance
<1>6. CASE ~(b > u)
  <2>1. p * (u - b) = y - x
    <3>1. p * (u - b) = p * u - p * b
      BY <1>2
    <3> QED BY <1>3, <3>1
  <2>2. 2 * p * (u - b) = 2 * (p * (u - b))
    BY <1>2
  <2> QED BY <1>2, <1>3, <1>4, <1>6, <2>1, <2>2 DEF Distance
<1> QED BY <1>5, <1>6

LEMMA JobSafe == JobInv => JobFollowsSlips
<1> SUFFICES ASSUME JobInv PROVE JobFollowsSlips
  OBVIOUS
<1>1. JobSound /\ JobQty \in Nat /\ JobQty > 0 /\ 1 \in JobRows /\ RequiredQty[1] \in Nat /\ RequiredQty[1] > 0
  BY JobConstants DEF JobInv
<1>2. STypeOK
  BY <1>1 DEF JobSound, JobType, STypeOK, Errands
<1>3. JobTellsSlips /\ CancelledJobIsEmpty
  BY DEF JobInv, JobKnows, JobTellsSlips, CancelledJobIsEmpty
<1>4. EntriesHaveMaterial
  BY DEF JobInv, JobKnows, HasMaterial, EntriesHaveMaterial
<1>5. JobStatusTells
  BY <1>1 DEF JobSound, JobStatusTells
<1>6. SendsComeBack
  <2> SUFFICES ASSUME InOrder, NEW e \in Drafted("Send")
               PROVE  LET short == 2 * Short(slip[e], 1) IN
                      2 * RequiredQty[1] * Off(slip[e]) <= RequiredQty[1] + IF short > JobQty THEN short ELSE JobQty
    BY DEF SendsComeBack
  <2>1. /\ e \in Carried /\ slip[e].units \in Nat /\ slip[e].rows \in [JobRows -> Nat]
        /\ AtMostShare(slip[e].units, slip[e].rows) /\ Short(slip[e], 1) \in Nat
    BY <1>1, EntryFacts, JobFacts, MeasureFacts
  <2>2. PICK n, p, u, q, d : /\ n = JobQty /\ p = RequiredQty[1] /\ u = slip[e].units /\ q = slip[e].rows[1]
                             /\ d = 2 * Short(slip[e], 1)
                             /\ n \in Nat /\ n > 0 /\ p \in Nat /\ p > 0 /\ u \in Nat /\ q \in Nat /\ d \in Int
    BY <1>1, <2>1
  <2>3. OfItem(slip[e].rows, ItemOf[1]) = q
    BY <1>1, <2>1, <2>2, OfItemFacts DEF InOrder
  <2>4. Off(slip[e]) = Distance(Quantized(q * n, p), u)
    BY <2>2, <2>3 DEF Off, UnitsFor
  <2>5. 2 * (n * q) - 2 * (p * u) <= n
    BY <1>1, <2>1, <2>2 DEF AtMostShare
  <2>6. 2 * (p * u) - 2 * (n * q) <= d
    <3>1. p * u \in Int /\ n * q \in Int /\ Short(slip[e], 1) = NotNegative(p * u - n * q)
      BY <2>2 DEF Short
    <3> QED BY <2>2, <3>1 DEF NotNegative
  <2>7. 2 * p * Distance(Quantized(q * n, p), u) <= p + IF d > n THEN d ELSE n
    BY <2>2, <2>5, <2>6, ComesBack
  <2> QED BY <2>2, <2>4, <2>7
<1>7. GoodsWereSupplied
  <2> SUFFICES ASSUME InOrder, \A i \in DOMAIN Spare : Spare[i] = 0
               PROVE  /\ \A r \in JobRows : job.usedRows[r] <= job.sentRows[r]
                      /\ InProportion => job.received <= job.sent
    BY DEF GoodsWereSupplied
  <2>1. JobKnows /\ \A r \in JobRows : job.usedRows[r] <= job.sentRows[r]
    BY DEF JobInv, JobKnows
  <2>2. ASSUME InProportion PROVE job.received <= job.sent
    <3>1. PICK n, p : n = JobQty /\ p = RequiredQty[1] /\ n \in Nat /\ n > 0 /\ p \in Nat /\ p > 0
      BY <1>1
    <3>2. \A e \in Slips : n * slip[e].rows[1] = p * slip[e].units
      BY <1>1, <2>2, <3>1 DEF InProportion
    <3>3. Slack = 0
      <4>1. PICK f : f = [e \in Slips |-> Off(slip[e])]
        OBVIOUS
      <4>2. ASSUME NEW e \in Spent PROVE f[e] = 0
        <5>1. e \in Slips /\ slip[e].units \in Nat /\ slip[e].rows \in [JobRows -> Nat]
          BY <1>1, EntryFacts, JobFacts
        <5>2. PICK q, u : q = slip[e].rows[1] /\ u = slip[e].units /\ q \in Nat /\ u \in Nat
          BY <1>1, <5>1
        <5>3. OfItem(slip[e].rows, ItemOf[1]) = q
          BY <1>1, <5>1, <5>2, OfItemFacts DEF InOrder
        <5>4. q * n = p * u /\ q * n \in Nat
          BY <3>1, <3>2, <5>1, <5>2
        <5>5. Quantized(q * n, p) = u
          BY <3>1, <5>2, <5>4, QuantizedFacts
        <5>6. Off(slip[e]) = Distance(u, u)
          BY <3>1, <5>2, <5>3, <5>5 DEF Off, UnitsFor
        <5> QED BY <4>1, <5>1, <5>2, <5>6 DEF Distance
      <4>3. SumFunctionOnSet(f, Spent) = 0
        <5>1. IsFiniteSet(Spent)
          BY <1>1, EntryFacts
        <5> QED BY <4>2, <5>1, SumOfZeros
      <4> QED BY <4>1, <4>3 DEF Slack, Spent
    <3>4. ASSUME NEW kind \in {"Send", "Receipt"} PROVE n * RowsIn(kind, 1) = p * UnitsIn(kind)
      <4>1. PICK f, g, h, k, c : /\ f = [e \in Slips |-> slip[e].rows[1]] /\ g = [e \in Slips |-> slip[e].units]
                                 /\ h = [e \in Slips |-> n * slip[e].rows[1]] /\ k = [e \in Slips |-> p * slip[e].units]
                                 /\ c = Known(kind)
        OBVIOUS
      <4>2. IsFiniteSet(c) /\ c \in SUBSET Carried /\ c \in SUBSET Slips
        BY <1>1, <4>1, EntryFacts
      <4>3. ASSUME NEW e \in c PROVE f[e] \in Int /\ g[e] \in Int /\ h[e] = n * f[e] /\ k[e] = p * g[e] /\ h[e] = k[e]
        <5>1. e \in Slips /\ slip[e].units \in Nat /\ slip[e].rows \in [JobRows -> Nat]
          BY <1>1, <4>2, JobFacts
        <5> QED BY <1>1, <3>2, <4>1, <5>1
      <4>4. SumFunctionOnSet(h, c) = n * SumFunctionOnSet(f, c)
        BY <3>1, <4>2, <4>3, SumOfMultiple
      <4>5. SumFunctionOnSet(k, c) = p * SumFunctionOnSet(g, c)
        BY <3>1, <4>2, <4>3, SumOfMultiple
      <4>6. SumFunctionOnSet(h, c) = SumFunctionOnSet(k, c)
        BY <4>2, <4>3, SumOfSame
      <4> QED BY <4>1, <4>4, <4>5, <4>6 DEF RowsIn, UnitsIn
    <3>5. PICK a, b, x, y : /\ a = UnitsIn("Receipt") /\ b = UnitsIn("Send") /\ a \in Nat /\ b \in Nat
                            /\ x = RowsIn("Receipt", 1) /\ y = RowsIn("Send", 1) /\ x \in Nat /\ y \in Nat
      BY <1>1, SumFacts
    <3>6. x <= y /\ job.received = a /\ job.sent = b
      <4>1. Distance(job.sent, b) <= 0 /\ job.sent \in Nat
        BY <1>1, <2>1, <3>3, <3>5, JobFacts DEF JobKnows
      <4>2. job.sent = b
        BY <3>5, <4>1 DEF Distance
      <4>3. x <= y /\ job.received = a
        BY <1>1, <2>1, <3>5 DEF JobKnows
      <4> QED BY <4>2, <4>3
    <3>7. n * x <= n * y
      BY <3>1, <3>5, <3>6, ScaledUp
    <3>8. p * a <= p * b
      BY <3>4, <3>5, <3>7
    <3> QED BY <3>1, <3>5, <3>6, <3>8, Shrinks
  <2> QED BY <2>1, <2>2
<1> QED BY <1>2, <1>3, <1>4, <1>5, <1>6, <1>7 DEF JobFollowsSlips

\* For any order of sends, receipts and cancellations, any quantities and their
\* rounding: while no request died in between and no item has two rows, a
\* subcontracting job counts material and received units as its entries moved
\* them, and the sent units to what the cancelled sends were off; every entry
\* has its material to the named roundings, no more is used than was sent, and
\* a cancelled job has no receipt left.
THEOREM JobFollows == SSpec => []JobFollowsSlips
<1>1. SInit => JobInv
  BY JobStart
<1>2. JobInv /\ [SNext]_svars => JobInv'
  BY JobStep
<1>3. JobInv => JobFollowsSlips
  BY JobSafe
<1> QED BY <1>1, <1>2, <1>3, PTL DEF SSpec

-----------------------------------------------------------------------------
(* Bills of materials.  Among items whose bills in use were all checked when *)
(* they came into use, there is no circle: every set of them has an item     *)
(* that is made of nothing in the set.                                       *)

BomRow == [item : Goods, components : Recipes, docstatus : {"Draft", "Submitted", "Cancelled"},
           active : BOOLEAN, default : BOOLEAN, cost : Nat]
MadeOf(i) == Parts(boms, defaultBom, i, NoBom)
NoCircleAmongChecked ==
  \A X \in SUBSET (Goods \ unchecked) : X # {} => \E i \in X : MadeOf(i) \cap X = {}

OneDefault(bs, ds) ==
  \A b \in DOMAIN bs :
    /\ bs[b].default => \A k \in DOMAIN bs : bs[k].item = bs[b].item /\ bs[k].default => k = b
    /\ bs[b].docstatus = "Submitted" => (ds[bs[b].item] = b <=> bs[b].default /\ bs[b].active)

BomInv ==
  /\ boms \in Seq(BomRow) /\ defaultBom \in [Goods -> 0 .. Len(boms)]
  /\ value \in [Goods -> Values] /\ moves \in 0 .. MaxMoves /\ unchecked \in SUBSET Goods
  /\ OneDefault(boms, defaultBom)
  /\ NoCircleAmongChecked

LEMMA BomConstants ==
  /\ Goods \subseteq Nat /\ IsFiniteSet(Goods) /\ Bought \subseteq Goods
  /\ \A c \in Recipes : c \in SUBSET Goods
  /\ Operating \in Nat /\ Values \subseteq Nat /\ Values # {}
  /\ MaxBoms \in Nat /\ MaxMoves \in Nat /\ MaxCost \in Nat
BY BomAssumption

LEMMA UsedFacts ==
  ASSUME NEW bs \in Seq(BomRow), NEW ds, NEW i, NEW but
  PROVE  /\ Used(bs, ds, i, but) = NoBom \/ Used(bs, ds, i, but) \in Usable(bs, i) \ {but}
         /\ Usable(bs, i) \in SUBSET DOMAIN bs /\ DOMAIN bs = 1 .. Len(bs) /\ Len(bs) \in Nat
<1>1. DOMAIN bs = 1 .. Len(bs) /\ Len(bs) \in Nat
  OBVIOUS
<1>2. PICK usable, default :
        usable = Usable(bs, i) \ {but} /\ default = {b \in usable : bs[b].default}
  OBVIOUS
<1>3. Usable(bs, i) \in SUBSET DOMAIN bs
  BY DEF Usable
<1>4. IsFiniteSet(usable) /\ usable \in SUBSET Nat /\ IsFiniteSet(default) /\ default \in SUBSET usable
  <2>1. IsFiniteSet(1 .. Len(bs)) /\ 1 .. Len(bs) \in SUBSET Nat
    BY <1>1, FS_Interval
  <2>2. usable \in SUBSET (1 .. Len(bs)) /\ default \in SUBSET usable
    BY <1>1, <1>2, <1>3
  <2>3. IsFiniteSet(usable)
    BY <2>1, <2>2, FS_Subset
  <2> QED BY <2>1, <2>2, <2>3, FS_Subset
<1>5. ASSUME NEW S \in SUBSET usable, S # {}, IsFiniteSet(S) PROVE Max(S) \in usable
  <2>1. S \in SUBSET Nat
    BY <1>4
  <2> QED BY <1>5, <2>1, LargestNumber DEF Max
<1>6. Used(bs, ds, i, but) =
        IF ds[i] \in usable THEN ds[i] ELSE IF usable = {} THEN NoBom ELSE Max(IF default # {} THEN default ELSE usable)
  BY <1>2 DEF Used
<1>7. Used(bs, ds, i, but) = NoBom \/ Used(bs, ds, i, but) \in usable
  <2>1. CASE ds[i] \in usable
    BY <1>6, <2>1
  <2>2. CASE ds[i] \notin usable /\ usable = {}
    BY <1>6, <2>2
  <2>3. CASE ds[i] \notin usable /\ usable # {} /\ default # {}
    BY <1>4, <1>5, <1>6, <2>3
  <2>4. CASE ds[i] \notin usable /\ usable # {} /\ default = {}
    BY <1>4, <1>5, <1>6, <2>4
  <2> QED BY <2>1, <2>2, <2>3, <2>4
<1> QED BY <1>1, <1>2, <1>3, <1>7

LEMMA PartsFacts ==
  ASSUME NEW bs \in Seq(BomRow), NEW ds, NEW i, NEW but
  PROVE  Parts(bs, ds, i, but) \in SUBSET Goods
<1>1. PICK b : b = Used(bs, ds, i, but)
  OBVIOUS
<1>2. b = NoBom \/ b \in DOMAIN bs
  BY <1>1, UsedFacts
<1>3. Parts(bs, ds, i, but) = IF b = NoBom THEN {} ELSE bs[b].components
  BY <1>1 DEF Parts
<1>4. \A k \in DOMAIN bs : bs[k].components \in SUBSET Goods
  <2>1. \A k \in DOMAIN bs : bs[k] \in BomRow
    OBVIOUS
  <2> QED BY <2>1, BomConstants DEF BomRow
<1> QED BY <1>2, <1>3, <1>4

\* what a walk comes to: the least set that holds the components and all that
\* any of its members is made of
LEMMA ReachedIsLeast ==
  ASSUME NEW bs, NEW ds, NEW but, NEW S \in SUBSET Goods, \A i : Parts(bs, ds, i, but) \in SUBSET Goods
  PROVE  /\ Reached(bs, ds, S, but) \in SUBSET Goods /\ S \subseteq Reached(bs, ds, S, but)
         /\ \A i \in Reached(bs, ds, S, but) : Parts(bs, ds, i, but) \subseteq Reached(bs, ds, S, but)
         /\ \A C \in SUBSET Goods :
              S \subseteq C /\ (\A i \in C : Parts(bs, ds, i, but) \subseteq C) => Reached(bs, ds, S, but) \subseteq C
<1>1. PICK below : below = [T \in SUBSET Goods |-> UNION {Parts(bs, ds, i, but) : i \in T}]
  OBVIOUS
<1>2. \A T \in SUBSET Goods : below[T] \in SUBSET Goods
  BY <1>1
<1>3. PICK step : step = [T \in SUBSET Goods |-> T \cup below[T]]
  OBVIOUS
<1>4. step \in [SUBSET Goods -> SUBSET Goods]
  BY <1>2, <1>3
<1>5. PICK h \in [Nat -> SUBSET Goods] : h[0] = S /\ \A n \in Nat : h[n + 1] = step[h[n]]
  <2>1. PICK A : A = SUBSET Goods
    OBVIOUS
  <2>2. S \in A /\ step \in [A -> A]
    BY <1>4, <2>1
  <2>3. \E h : h \in [Nat -> A] /\ h[0] = S /\ \A n \in Nat : h[n + 1] = step[h[n]]
    BY <2>2, IterationExists
  <2> QED BY <2>1, <2>3
<1> DEFINE IsWalk(w) ==
             w = [n \in Nat |-> IF n = 0 THEN S ELSE w[n - 1] \cup UNION {Parts(bs, ds, i, but) : i \in w[n - 1]}]
<1>6. IsWalk(h)
  <2>1. ASSUME NEW n \in Nat, n # 0 PROVE h[n] = h[n - 1] \cup UNION {Parts(bs, ds, i, but) : i \in h[n - 1]}
    <3>1. n - 1 \in Nat /\ (n - 1) + 1 = n
      BY <2>1
    <3>2. h[n] = step[h[n - 1]] /\ h[n - 1] \in SUBSET Goods
      BY <1>5, <3>1
    <3> QED BY <1>1, <1>3, <3>2
  <2>2. h = [n \in Nat |-> h[n]]
    OBVIOUS
  <2> QED BY <1>5, <2>1, <2>2
<1>7. PICK w : IsWalk(w) /\ Reached(bs, ds, S, but) = w[Cardinality(Goods)]
  <2>1. Reached(bs, ds, S, but) = (CHOOSE v : IsWalk(v))[Cardinality(Goods)]
    BY DEF Reached
  <2>2. IsWalk(CHOOSE v : IsWalk(v))
    <3> HIDE DEF IsWalk
    <3> QED BY <1>6
  <2> HIDE DEF IsWalk
  <2> QED BY <2>1, <2>2
<1>8. w[0] = S /\ \A n \in Nat : w[n + 1] = w[n] \cup UNION {Parts(bs, ds, i, but) : i \in w[n]}
  <2>1. ASSUME NEW n \in Nat PROVE w[n + 1] = w[n] \cup UNION {Parts(bs, ds, i, but) : i \in w[n]}
    <3>1. n + 1 \in Nat /\ n + 1 # 0 /\ (n + 1) - 1 = n
      OBVIOUS
    <3> QED BY <1>7, <3>1
  <2> QED BY <1>7, <2>1
<1>9. \A n \in Nat : w[n] \in SUBSET Goods
  <2> DEFINE P == {n \in Nat : w[n] \in SUBSET Goods}
  <2>1. 0 \in P
    BY <1>8
  <2>2. ASSUME NEW n \in P PROVE n + 1 \in P
    <3>1. w[n + 1] = w[n] \cup below[w[n]]
      BY <1>1, <1>8
    <3> QED BY <1>2, <3>1
  <2>3. P = Nat
    <3>1. P \in SUBSET Nat /\ \A n \in P : n + 1 \in P
      BY <2>2
    <3> HIDE DEF P
    <3> QED BY <2>1, <3>1, NumberInduction
  <2> QED BY <2>3
<1>10. PICK R : R = Reached(bs, ds, S, but) /\ R = w[Cardinality(Goods)] /\ Cardinality(Goods) \in Nat
  BY <1>7, BomConstants, FS_CardinalityType
<1>11. (\A n \in Nat : w[n] \in SUBSET Goods /\ w[0] \subseteq w[n]) /\ step[w[Cardinality(Goods)]] = w[Cardinality(Goods)]
  <2>1. \A n \in Nat : w[n + 1] = step[w[n]]
    BY <1>1, <1>3, <1>8, <1>9
  <2>2. \A T \in SUBSET Goods : T \subseteq step[T]
    BY <1>3
  <2>3. w[0] \in SUBSET Goods /\ IsFiniteSet(Goods)
    BY <1>8, BomConstants
  <2> QED BY <1>4, <2>1, <2>2, <2>3, GrowthStops
<1>12. R \in SUBSET Goods /\ S \subseteq R
  BY <1>8, <1>10, <1>11
<1>13. below[R] \subseteq R
  BY <1>3, <1>10, <1>11, <1>12
<1>14. \A i \in R : Parts(bs, ds, i, but) \subseteq R
  BY <1>1, <1>12, <1>13
<1>15. ASSUME NEW C \in SUBSET Goods, S \subseteq C, \A i \in C : Parts(bs, ds, i, but) \subseteq C
       PROVE  R \subseteq C
  <2> DEFINE P == {n \in Nat : w[n] \subseteq C}
  <2>1. 0 \in P
    BY <1>8, <1>15
  <2>2. \A n \in P : n + 1 \in P
    BY <1>8, <1>15
  <2>3. P = Nat
    <3>1. P \in SUBSET Nat
      OBVIOUS
    <3> HIDE DEF P
    <3> QED BY <2>1, <2>2, <3>1, NumberInduction
  <2> QED BY <1>10, <2>3
<1> QED BY <1>10, <1>12, <1>14, <1>15

LEMMA ReachedFacts ==
  ASSUME NEW bs \in Seq(BomRow), NEW ds, NEW but, NEW S \in SUBSET Goods
  PROVE  /\ Reached(bs, ds, S, but) \in SUBSET Goods /\ S \subseteq Reached(bs, ds, S, but)
         /\ \A i \in Reached(bs, ds, S, but) : Parts(bs, ds, i, but) \subseteq Reached(bs, ds, S, but)
         /\ \A C \in SUBSET Goods :
              S \subseteq C /\ (\A i \in C : Parts(bs, ds, i, but) \subseteq C) => Reached(bs, ds, S, but) \subseteq C
<1>1. \A i : Parts(bs, ds, i, but) \in SUBSET Goods
  BY PartsFacts
<1> QED BY <1>1, ReachedIsLeast

LEMMA MadeOfFacts ==
  ASSUME BomInv
  PROVE  /\ \A i : MadeOf(i) \in SUBSET Goods
         /\ \A b, i : b \notin Usable(boms, i) => Parts(boms, defaultBom, i, b) = MadeOf(i)
<1>1. boms \in Seq(BomRow)
  BY DEF BomInv
<1>2. \A i : MadeOf(i) \in SUBSET Goods
  BY <1>1, PartsFacts DEF MadeOf
<1>3. ASSUME NEW b, NEW i, b \notin Usable(boms, i) PROVE Parts(boms, defaultBom, i, b) = MadeOf(i)
  <2>1. NoBom \notin Usable(boms, i)
    <3>1. DOMAIN boms = 1 .. Len(boms) /\ Len(boms) \in Nat /\ Usable(boms, i) \in SUBSET DOMAIN boms
      BY <1>1 DEF Usable
    <3> QED BY <3>1 DEF NoBom
  <2>2. Usable(boms, i) \ {b} = Usable(boms, i) \ {NoBom}
    BY <1>3, <2>1
  <2>3. Used(boms, defaultBom, i, b) = Used(boms, defaultBom, i, NoBom)
    BY <2>2 DEF Used
  <2> QED BY <2>3 DEF Parts, MadeOf
<1> QED BY <1>2, <1>3

\* from the walks of the handlers to sets of items and back
LEMMA CirclesComeBack == BomInv => CircleOnlyByReturn
<1> SUFFICES ASSUME BomInv, NEW i \in Goods, Circular(i)
             PROVE  \E j \in unchecked :
                      /\ Circular(j)
                      /\ j \in Reached(boms, defaultBom, {i}, NoBom) /\ i \in Reached(boms, defaultBom, {j}, NoBom)
  BY DEF CircleOnlyByReturn
<1>1. boms \in Seq(BomRow)
  BY DEF BomInv
<1> DEFINE From(S) == Reached(boms, defaultBom, S, NoBom)
<1>2. \A k : Circular(k) <=> k \in From(MadeOf(k)) /\ MadeOf(k) # {}
  <2>1. ASSUME NEW k PROVE Circular(k) <=> k \in From(MadeOf(k)) /\ MadeOf(k) # {}
    <3>1. PICK b : b = Used(boms, defaultBom, k, NoBom)
      OBVIOUS
    <3>2. MadeOf(k) = IF b = NoBom THEN {} ELSE boms[b].components
      BY <3>1 DEF MadeOf, Parts
    <3>3. b # NoBom => boms[b].components # {}
      <4>1. b # NoBom => b \in DOMAIN boms
        BY <1>1, <3>1, UsedFacts
      <4>2. \A m \in DOMAIN boms : boms[m] \in BomRow
        BY <1>1
      <4> QED BY <4>1, <4>2, BomAssumption DEF BomRow
    <3> QED BY <3>1, <3>2, <3>3 DEF Circular
  <2> QED BY <2>1
<1>3. ASSUME NEW S \in SUBSET Goods
      PROVE  /\ From(S) \in SUBSET Goods /\ S \subseteq From(S)
             /\ \A k \in From(S) : MadeOf(k) \subseteq From(S)
             /\ \A C \in SUBSET Goods : S \subseteq C /\ (\A k \in C : MadeOf(k) \subseteq C) => From(S) \subseteq C
  BY <1>1, ReachedFacts DEF MadeOf
<1> HIDE DEF From
<1>4. \A k : MadeOf(k) \in SUBSET Goods
  BY MadeOfFacts
\* what a set reaches, one of its members reaches
<1>5. ASSUME NEW S \in SUBSET Goods, NEW x \in From(S) PROVE \E s \in S : x \in From({s})
  <2>1. PICK C : C = UNION {From({s}) : s \in S}
    OBVIOUS
  <2>2. C \in SUBSET Goods /\ S \subseteq C
    <3>1. \A s \in S : From({s}) \in SUBSET Goods /\ s \in From({s})
      <4>1. \A s \in S : {s} \in SUBSET Goods
        OBVIOUS
      <4> QED BY <1>3, <4>1
    <3> QED BY <2>1, <3>1
  <2>3. ASSUME NEW k \in C PROVE MadeOf(k) \subseteq C
    <3>1. PICK s \in S : k \in From({s})
      BY <2>1
    <3>2. {s} \in SUBSET Goods
      OBVIOUS
    <3>3. MadeOf(k) \subseteq From({s})
      BY <1>3, <3>1, <3>2
    <3> QED BY <2>1, <3>3
  <2>4. From(S) \subseteq C
    BY <1>3, <2>2, <2>3
  <2> QED BY <2>1, <2>4
\* what an item reaches is itself or reached from what it is made of
<1>6. ASSUME NEW k \in Goods, NEW x \in From({k}), x # k PROVE x \in From(MadeOf(k))
  <2>1. PICK C : C = {k} \cup From(MadeOf(k))
    OBVIOUS
  <2>2. MadeOf(k) \in SUBSET Goods /\ {k} \in SUBSET Goods
    BY <1>4
  <2>3. C \in SUBSET Goods /\ {k} \subseteq C /\ \A m \in C : MadeOf(m) \subseteq C
    BY <1>3, <2>1, <2>2
  <2>4. From({k}) \subseteq C
    BY <1>3, <2>2, <2>3
  <2> QED BY <1>6, <2>1, <2>4
\* reaching goes on
<1>7. ASSUME NEW k \in Goods, NEW m \in From({k}), NEW x \in From({m}) PROVE x \in From({k})
  <2>1. {k} \in SUBSET Goods /\ m \in Goods /\ {m} \in SUBSET Goods
    BY <1>3
  <2>2. From({m}) \subseteq From({k})
    BY <1>3, <2>1
  <2> QED BY <2>2
<1>8. PICK C : C = {k \in Goods : k \in From({i}) /\ i \in From({k})}
  OBVIOUS
<1>9. i \in C
  BY <1>3, <1>8
<1>10. ASSUME NEW k \in C PROVE i \in From(MadeOf(k))
  <2>1. CASE k = i
    BY <1>2, <2>1
  <2>2. CASE k # i
    BY <1>6, <1>8, <2>2
  <2> QED BY <2>1, <2>2
<1>11. ASSUME NEW k \in C PROVE MadeOf(k) \cap C # {}
  <2>1. PICK s \in MadeOf(k) : i \in From({s})
    BY <1>4, <1>5, <1>10
  <2>2. s \in Goods /\ s \in From({i})
    <3>1. {i} \in SUBSET Goods /\ k \in From({i})
      BY <1>8
    <3>2. MadeOf(k) \subseteq From({i}) /\ MadeOf(k) \in SUBSET Goods
      BY <1>3, <1>4, <3>1
    <3> QED BY <3>2
  <2>3. s \in C
    BY <1>8, <2>1, <2>2
  <2> QED BY <2>3
<1>12. PICK j \in C : j \in unchecked
  <2>1. C \in SUBSET Goods /\ C # {}
    BY <1>8, <1>9
  <2> SUFFICES ASSUME C \in SUBSET (Goods \ unchecked) PROVE FALSE
    BY <2>1
  <2> QED BY <1>11, <2>1 DEF BomInv, NoCircleAmongChecked
<1>13. Circular(j)
  <2>1. MadeOf(j) \in SUBSET Goods /\ MadeOf(j) # {} /\ i \in From(MadeOf(j)) /\ j \in Goods /\ j \in From({i})
    BY <1>4, <1>8, <1>10, <1>11, <1>12
  <2>2. PICK s \in MadeOf(j) : i \in From({s})
    BY <1>5, <2>1
  <2>3. {i} \in SUBSET Goods /\ {i} \subseteq From(MadeOf(j))
    BY <2>1
  <2>4. From({i}) \subseteq From(MadeOf(j))
    BY <1>3, <2>1, <2>3
  <2> QED BY <1>2, <2>1, <2>4
<1> QED BY <1>8, <1>12, <1>13 DEF From

\* a bill comes into use only looked through, or is marked
LEMMA BecomeKeeps ==
  ASSUME BomInv, NEW bs \in Seq(BomRow), NEW ds \in [Goods -> 0 .. Len(bs)], NEW checked,
         Become(bs, ds, checked), moves' \in 0 .. MaxMoves, OneDefault(bs, ds),
         \A b \in DOMAIN boms :
           b \in DOMAIN bs /\ (boms[b].docstatus = "Submitted" => bs[b].components = boms[b].components),
         checked # NoBom =>
           /\ checked \in DOMAIN bs /\ checked \notin Usable(boms, bs[checked].item)
           /\ NoCycle(boms, defaultBom, bs[checked].item, bs[checked].components, checked)
           /\ \A i : checked \notin Usable(boms, i)
  PROVE  BomInv'
<1>1. /\ boms' = bs /\ defaultBom' = ds /\ value' = value
      /\ unchecked' = {i \in Goods :
           LET before == Used(boms, defaultBom, i, NoBom)
               now == Used(bs, ds, i, NoBom)
           IN now # NoBom /\ IF now = before THEN i \in unchecked ELSE now # checked}
  BY DEF Become
<1>2. boms \in Seq(BomRow)
  BY DEF BomInv
<1>3. \A i : MadeOf(i)' = Parts(bs, ds, i, NoBom)
  BY <1>1 DEF MadeOf
<1> DEFINE Old(i) == i \notin unchecked /\ MadeOf(i)' = MadeOf(i)
           New(i) == checked # NoBom /\ i = bs[checked].item /\ MadeOf(i)' = bs[checked].components
<1>4. ASSUME NEW i \in Goods, i \notin unchecked', MadeOf(i)' # {} PROVE Old(i) \/ New(i)
  <2>1. PICK before, now : before = Used(boms, defaultBom, i, NoBom) /\ now = Used(bs, ds, i, NoBom)
    OBVIOUS
  <2>2. now # NoBom /\ MadeOf(i)' = bs[now].components
    BY <1>3, <1>4, <2>1 DEF Parts
  <2>3. IF now = before THEN i \notin unchecked ELSE now = checked
    BY <1>1, <1>4, <2>1, <2>2
  <2>4. CASE now = before
    <3>1. before \in Usable(boms, i) /\ before \in DOMAIN boms
      BY <1>2, <2>1, <2>2, <2>4, UsedFacts
    <3>2. boms[before].docstatus = "Submitted"
      BY <3>1 DEF Usable
    <3>3. MadeOf(i) = boms[before].components
      BY <2>1, <2>2, <2>4 DEF MadeOf, Parts
    <3> QED BY <2>2, <2>3, <2>4, <3>1, <3>2, <3>3
  <2>5. CASE now # before
    <3>1. now \in Usable(bs, i)
      BY <2>1, <2>2, UsedFacts
    <3>2. bs[now].item = i
      BY <3>1 DEF Usable
    <3> QED BY <2>2, <2>3, <2>5, <3>2
  <2> QED BY <2>4, <2>5
<1>5. unchecked' \in SUBSET Goods
  BY <1>1
<1>6. ASSUME NEW X \in SUBSET (Goods \ unchecked'), X # {}, \A i \in X : MadeOf(i)' \cap X # {}
      PROVE  FALSE
  <2>1. \A i \in X : i \in Goods /\ i \notin unchecked' /\ MadeOf(i)' # {}
    BY <1>6
  <2>2. \A i \in X : Old(i) \/ New(i)
    BY <1>4, <2>1
  <2>3. CASE \A i \in X : Old(i)
    <3>1. X \in SUBSET (Goods \ unchecked) /\ \A i \in X : MadeOf(i) \cap X # {}
      BY <1>6, <2>1, <2>3
    <3> QED BY <1>6, <3>1 DEF BomInv, NoCircleAmongChecked
  <2>4. CASE \E i \in X : New(i) /\ ~Old(i)
    <3>1. PICK x \in X : New(x)
      BY <2>4
    <3>2. PICK R : R = Reached(boms, defaultBom, bs[checked].components, checked)
      OBVIOUS
    <3>3. x \notin R
      BY <3>1, <3>2 DEF NoCycle
    <3>4. bs[checked].components \in SUBSET Goods
      <4>1. bs[checked] \in BomRow
        BY <3>1
      <4> QED BY <4>1, BomConstants DEF BomRow
    <3>5. \A i : Parts(boms, defaultBom, i, checked) = MadeOf(i)
      BY <3>1, MadeOfFacts
    <3>6. bs[checked].components \subseteq R /\ \A i \in R : MadeOf(i) \subseteq R
      BY <1>2, <3>2, <3>4, <3>5, ReachedFacts
    <3>7. PICK Y : Y = X \cap R
      OBVIOUS
    <3>8. \A y \in Y : Old(y)
      BY <2>2, <3>1, <3>3, <3>7
    <3>9. Y # {}
      <4>1. MadeOf(x)' \cap X # {} /\ MadeOf(x)' \subseteq R
        BY <1>6, <3>1, <3>6
      <4> QED BY <3>7, <4>1
    <3>10. ASSUME NEW y \in Y PROVE MadeOf(y) \cap Y # {}
      <4>1. MadeOf(y)' = MadeOf(y) /\ MadeOf(y)' \cap X # {} /\ MadeOf(y) \subseteq R
        BY <1>6, <3>6, <3>7, <3>8
      <4> QED BY <3>7, <4>1
    <3>11. Y \in SUBSET (Goods \ unchecked)
      BY <2>1, <3>7, <3>8
    <3> QED BY <3>9, <3>10, <3>11 DEF BomInv, NoCircleAmongChecked
  <2> QED BY <2>2, <2>3, <2>4
<1>7. NoCircleAmongChecked'
  <2> SUFFICES ASSUME NEW X \in SUBSET (Goods \ unchecked'), X # {}
               PROVE  \E i \in X : MadeOf(i)' \cap X = {}
    BY DEF NoCircleAmongChecked
  <2> QED BY <1>6
<1>8. OneDefault(boms, defaultBom)'
  BY <1>1 DEF OneDefault
<1> QED BY <1>1, <1>5, <1>7, <1>8 DEF BomInv

LEMMA BillFacts ==
  ASSUME NEW bs \in Seq(BomRow)
  PROVE  /\ DOMAIN bs = 1 .. Len(bs) /\ Len(bs) \in Nat
         /\ \A b \in DOMAIN bs :
              /\ bs[b] \in BomRow /\ bs[b].item \in Goods /\ bs[b].components \in Recipes
              /\ bs[b].components \in SUBSET Goods /\ bs[b].components # {}
              /\ bs[b].default \in BOOLEAN /\ bs[b].active \in BOOLEAN /\ bs[b].cost \in Nat
              /\ bs[b].docstatus \in {"Draft", "Submitted", "Cancelled"}
<1>1. DOMAIN bs = 1 .. Len(bs) /\ Len(bs) \in Nat /\ \A b \in DOMAIN bs : bs[b] \in BomRow
  OBVIOUS
<1>2. ASSUME NEW row \in BomRow
      PROVE  /\ row.item \in Goods /\ row.components \in Recipes
             /\ row.components \in SUBSET Goods /\ row.components # {}
             /\ row.default \in BOOLEAN /\ row.active \in BOOLEAN /\ row.cost \in Nat
             /\ row.docstatus \in {"Draft", "Submitted", "Cancelled"}
  BY BomAssumption DEF BomRow
<1> QED BY <1>1, <1>2

\* writing one bill
LEMMA RowWritten ==
  ASSUME NEW bs \in Seq(BomRow), NEW b \in DOMAIN bs, NEW row \in BomRow, NEW ws, ws = [bs EXCEPT ![b] = row]
  PROVE  /\ ws \in Seq(BomRow) /\ Len(ws) = Len(bs) /\ DOMAIN ws = DOMAIN bs
         /\ ws[b] = row /\ \A k \in DOMAIN bs \ {b} : ws[k] = bs[k]
<1>1. DOMAIN bs = 1 .. Len(bs) /\ Len(bs) \in Nat /\ bs \in [1 .. Len(bs) -> BomRow]
  OBVIOUS
<1>2. ws \in [1 .. Len(bs) -> BomRow] /\ ws[b] = row /\ \A k \in DOMAIN bs \ {b} : ws[k] = bs[k]
  BY <1>1
<1> QED BY <1>1, <1>2

LEMMA ClaimedFacts ==
  ASSUME NEW bs \in Seq(BomRow), NEW b \in DOMAIN bs, NEW cs, cs = Claimed(bs, b)
  PROVE  /\ cs \in Seq(BomRow) /\ Len(cs) = Len(bs) /\ DOMAIN cs = DOMAIN bs /\ cs[b] = bs[b]
         /\ \A k \in DOMAIN bs :
              /\ cs[k].item = bs[k].item /\ cs[k].components = bs[k].components
              /\ cs[k].docstatus = bs[k].docstatus /\ cs[k].active = bs[k].active
              /\ cs[k].default <=> bs[k].default /\ (bs[b].default /\ k # b => bs[k].item # bs[b].item)
<1>1. CASE ~bs[b].default
  BY <1>1 DEF Claimed
<1>2. CASE bs[b].default
  <2>1. cs = [k \in DOMAIN bs |-> IF k # b /\ bs[k].item = bs[b].item THEN [bs[k] EXCEPT !.default = FALSE] ELSE bs[k]]
    BY <1>2 DEF Claimed, OthersCleared
  <2>2. DOMAIN bs = 1 .. Len(bs) /\ Len(bs) \in Nat
    OBVIOUS
  <2>3. ASSUME NEW k \in DOMAIN bs
        PROVE  /\ cs[k] \in BomRow
               /\ cs[k].item = bs[k].item /\ cs[k].components = bs[k].components
               /\ cs[k].docstatus = bs[k].docstatus /\ cs[k].active = bs[k].active
               /\ cs[k].default <=> bs[k].default /\ (k # b => bs[k].item # bs[b].item)
    <3>1. PICK row : row = bs[k] /\ row \in BomRow /\ row.default \in BOOLEAN
      BY BillFacts
    <3>2. CASE k # b /\ bs[k].item = bs[b].item
      <4>1. cs[k] = [row EXCEPT !.default = FALSE]
        BY <2>1, <3>1, <3>2
      <4> QED BY <3>1, <3>2, <4>1 DEF BomRow
    <3>3. CASE ~(k # b /\ bs[k].item = bs[b].item)
      <4>1. cs[k] = row
        BY <2>1, <3>1, <3>3
      <4> QED BY <3>1, <3>3, <4>1
    <3> QED BY <3>2, <3>3
  <2>4. cs \in [1 .. Len(bs) -> BomRow]
    BY <2>1, <2>2, <2>3
  <2>5. cs \in Seq(BomRow) /\ Len(cs) = Len(bs) /\ DOMAIN cs = DOMAIN bs /\ cs[b] = bs[b]
    BY <2>1, <2>2, <2>4
  <2> QED BY <1>2, <2>3, <2>5
<1> QED BY <1>1, <1>2

\* a draft that takes the flag of its item takes its pointer with it
LEMMA ClaimKeeps ==
  ASSUME BomInv, NEW bs \in Seq(BomRow), NEW b \in DOMAIN bs,
         \A k \in DOMAIN bs \ {b} : k \in DOMAIN boms /\ bs[k] = boms[k]
  PROVE  LET cs == Claimed(bs, b)
             ds == Pointed(bs, b)
         IN /\ ds \in [Goods -> 0 .. IF Len(boms) < Len(bs) THEN Len(bs) ELSE Len(boms)]
            /\ \A k, l \in DOMAIN cs : cs[k].default /\ cs[l].default /\ cs[k].item = cs[l].item => k = l
            /\ \A k \in DOMAIN cs \ {b} :
                 cs[k].docstatus = "Submitted" => (ds[cs[k].item] = k <=> cs[k].default /\ cs[k].active)
            /\ bs[b].default => ds[bs[b].item] = b
<1>1. PICK cs, ds : cs = Claimed(bs, b) /\ ds = Pointed(bs, b)
  OBVIOUS
<1>2. /\ DOMAIN cs = DOMAIN bs /\ cs[b] = bs[b]
      /\ \A k \in DOMAIN bs :
           /\ cs[k].item = bs[k].item
           /\ cs[k].docstatus = bs[k].docstatus /\ cs[k].active = bs[k].active
           /\ cs[k].default <=> bs[k].default /\ (bs[b].default /\ k # b => bs[k].item # bs[b].item)
  BY <1>1, ClaimedFacts
<1>3. boms \in Seq(BomRow) /\ defaultBom \in [Goods -> 0 .. Len(boms)] /\ OneDefault(boms, defaultBom)
  BY DEF BomInv
<1>4. /\ bs[b].item \in Goods /\ b \in 1 .. Len(bs) /\ Len(bs) \in Nat /\ Len(boms) \in Nat
  BY <1>3, BillFacts
<1>5. ds = IF bs[b].default THEN [defaultBom EXCEPT ![bs[b].item] = b] ELSE defaultBom
  BY <1>1 DEF Pointed
<1>6. ds \in [Goods -> 0 .. IF Len(boms) < Len(bs) THEN Len(bs) ELSE Len(boms)]
  <2>1. PICK m : m = (IF Len(boms) < Len(bs) THEN Len(bs) ELSE Len(boms)) /\ b \in 0 .. m /\ 0 .. Len(boms) \subseteq 0 .. m
    BY <1>4
  <2>2. defaultBom \in [Goods -> 0 .. m]
    BY <1>3, <2>1
  <2>3. ds \in [Goods -> 0 .. m]
    BY <1>4, <1>5, <2>1, <2>2
  <2> QED BY <2>1, <2>3
<1>7. ASSUME NEW k \in DOMAIN cs, NEW l \in DOMAIN cs, cs[k].default, cs[l].default, cs[k].item = cs[l].item
      PROVE  k = l
  <2>1. CASE k = b \/ l = b
    BY <1>2, <1>7, <2>1
  <2>2. CASE k # b /\ l # b
    <3>1. k \in DOMAIN boms /\ l \in DOMAIN boms /\ bs[k] = boms[k] /\ bs[l] = boms[l]
      BY <1>2, <2>2
    <3>2. boms[k].default /\ boms[l].default /\ boms[k].item = boms[l].item
      BY <1>2, <1>7, <3>1
    <3>3. \A x, y \in DOMAIN boms : boms[x].default /\ boms[y].default /\ boms[y].item = boms[x].item => y = x
      BY <1>3 DEF OneDefault
    <3> QED BY <3>1, <3>2, <3>3
  <2> QED BY <2>1, <2>2
<1>8. ASSUME NEW k \in DOMAIN cs \ {b}, cs[k].docstatus = "Submitted"
      PROVE  ds[cs[k].item] = k <=> cs[k].default /\ cs[k].active
  <2>1. k \in DOMAIN boms /\ bs[k] = boms[k] /\ k # b /\ boms[k].item \in Goods /\ boms[k].docstatus = "Submitted"
    BY <1>2, <1>3, <1>8, BillFacts
  <2>2. defaultBom[boms[k].item] = k <=> boms[k].default /\ boms[k].active
    BY <1>3, <2>1 DEF OneDefault
  <2>3. CASE bs[b].default /\ boms[k].item = bs[b].item
    <3>1. ds[bs[b].item] = b /\ ~cs[k].default
      BY <1>2, <1>3, <1>4, <1>5, <2>1, <2>3
    <3> QED BY <1>2, <2>1, <2>3, <3>1
  <2>4. CASE ~(bs[b].default /\ boms[k].item = bs[b].item)
    <3>1. ds[boms[k].item] = defaultBom[boms[k].item]
      BY <1>3, <1>5, <2>1, <2>4
    <3>2. cs[k].default <=> boms[k].default
      BY <1>2, <2>1, <2>4
    <3> QED BY <1>2, <2>1, <2>2, <3>1, <3>2
  <2> QED BY <2>3, <2>4
<1>9. bs[b].default => ds[bs[b].item] = b
  BY <1>3, <1>4, <1>5
<1> QED BY <1>1, <1>6, <1>7, <1>8, <1>9

LEMMA RepointedFacts ==
  ASSUME NEW bs \in Seq(BomRow), NEW n \in Nat, NEW b \in DOMAIN bs, b <= n, NEW ds \in [Goods -> 0 .. n],
         NEW rs, rs = Repointed(bs, ds, b)
  PROVE  /\ rs \in [Goods -> 0 .. n]
         /\ IF bs[b].default /\ bs[b].docstatus = "Submitted" /\ bs[b].active
            THEN rs = [ds EXCEPT ![bs[b].item] = b]
            ELSE \A i \in Goods : rs[i] = IF ds[i] = b THEN NoBom ELSE ds[i]
<1>1. b \in 1 .. Len(bs) /\ Len(bs) \in Nat /\ bs[b].item \in Goods
  BY BillFacts
<1>2. b \in 0 .. n /\ NoBom \in 0 .. n
  BY <1>1 DEF NoBom
<1>3. rs = IF bs[b].default /\ bs[b].docstatus = "Submitted" /\ bs[b].active
           THEN [ds EXCEPT ![bs[b].item] = b]
           ELSE [i \in Goods |-> IF ds[i] = b THEN NoBom ELSE ds[i]]
  BY DEF Repointed
<1>4. CASE bs[b].default /\ bs[b].docstatus = "Submitted" /\ bs[b].active
  BY <1>1, <1>2, <1>3, <1>4
<1>5. CASE ~(bs[b].default /\ bs[b].docstatus = "Submitted" /\ bs[b].active)
  BY <1>2, <1>3, <1>5
<1> QED BY <1>4, <1>5

LEMMA CostIsNat ==
  ASSUME BomInv, NEW components \in SUBSET Goods
  PROVE  NewCost(components) \in Nat
<1>1. PICK costs : costs = Stored(boms) /\ \A b \in DOMAIN boms : costs[b] \in Nat
  <2>1. boms \in Seq(BomRow)
    BY DEF BomInv
  <2>2. \A b \in DOMAIN boms : boms[b].cost \in Nat
    BY <2>1, BillFacts
  <2>3. PICK costs : costs = [b \in DOMAIN boms |-> boms[b].cost]
    OBVIOUS
  <2>4. costs = Stored(boms)
    BY <2>3 DEF Stored
  <2> QED BY <2>2, <2>3, <2>4
<1>2. ASSUME NEW i \in Goods PROVE RateOf(boms, costs, i) \in Nat
  <2>1. PICK b : b = Used(boms, defaultBom, i, NoBom) /\ (b # NoBom => b \in DOMAIN boms)
    <3>1. boms \in Seq(BomRow)
      BY DEF BomInv
    <3> QED BY <3>1, UsedFacts
  <2>2. value[i] \in Nat
    BY BomConstants DEF BomInv
  <2> QED BY <1>1, <2>1, <2>2 DEF RateOf
<1>3. PICK f : f = [i \in components |-> RateOf(boms, costs, i)]
  OBVIOUS
<1>4. IsFiniteSet(components) /\ \A i \in components : f[i] \in Nat
  BY <1>2, <1>3, BomConstants, FS_Subset
<1>5. SumFunctionOnSet(f, components) \in Nat
  BY <1>4, SumOfPart
<1> QED BY <1>1, <1>3, <1>5, BomConstants DEF NewCost, CostOf

LEMMA BomStart == BomInit => BomInv
<1> SUFFICES ASSUME BomInit PROVE BomInv
  OBVIOUS
<1>1. boms = <<>> /\ boms \in Seq(BomRow) /\ Len(boms) = 0 /\ DOMAIN boms = {} /\ moves = 0 /\ unchecked = {}
  BY DEF BomInit
<1>2. defaultBom \in [Goods -> 0 .. Len(boms)] /\ moves \in 0 .. MaxMoves
  BY <1>1, BomConstants DEF BomInit, NoBom
<1>3. value \in [Goods -> Values]
  <2>1. Min(Values) \in Values
    BY BomConstants, LeastNumber DEF Min
  <2> QED BY <2>1 DEF BomInit
<1>4. \A i : MadeOf(i) = {}
  <2>1. ASSUME NEW i PROVE Used(boms, defaultBom, i, NoBom) = NoBom
    <3>1. /\ Used(boms, defaultBom, i, NoBom) = NoBom \/ Used(boms, defaultBom, i, NoBom) \in Usable(boms, i) \ {NoBom}
          /\ Usable(boms, i) \in SUBSET DOMAIN boms
      BY <1>1, UsedFacts
    <3> QED BY <1>1, <3>1
  <2> QED BY <2>1 DEF MadeOf, Parts
<1> QED BY <1>1, <1>2, <1>3, <1>4 DEF BomInv, OneDefault, NoCircleAmongChecked

LEMMA CreateBomKeeps ==
  ASSUME BomInv, NEW i \in Goods, NEW components \in Recipes, NEW default \in BOOLEAN, CreateBom(i, components, default)
  PROVE  BomInv'
<1>1. PICK row, bs, n :
        /\ row = [item |-> i, components |-> components, docstatus |-> "Draft", active |-> TRUE,
                  default |-> default, cost |-> NewCost(components)]
        /\ bs = Append(boms, row) /\ n = Len(bs)
  OBVIOUS
<1>2. boms \in Seq(BomRow) /\ moves \in 0 .. MaxMoves
  BY DEF BomInv
<1>3. row \in BomRow
  <2>1. NewCost(components) \in Nat
    BY BomConstants, CostIsNat
  <2> QED BY <1>1, <2>1 DEF BomRow
<1>4. /\ bs \in Seq(BomRow) /\ n = Len(boms) + 1 /\ Len(boms) \in Nat /\ n \in DOMAIN bs /\ bs[n] = row
      /\ DOMAIN boms = 1 .. Len(boms) /\ DOMAIN bs = 1 .. n
      /\ \A k \in DOMAIN bs \ {n} : k \in DOMAIN boms /\ bs[k] = boms[k]
  <2>1. PICK os : os = boms /\ os \in Seq(BomRow)
    BY <1>2
  <2>2. /\ Append(os, row) \in Seq(BomRow) /\ Len(Append(os, row)) = Len(os) + 1 /\ Append(os, row)[Len(os) + 1] = row
        /\ \A k \in 1 .. Len(os) : Append(os, row)[k] = os[k]
        /\ DOMAIN os = 1 .. Len(os) /\ Len(os) \in Nat
    BY <1>3, <2>1
  <2>3. DOMAIN Append(os, row) = 1 .. (Len(os) + 1)
    BY <1>3, <2>1
  <2> QED BY <1>1, <2>1, <2>2, <2>3
<1>5. PICK cs, ds : cs = Claimed(bs, n) /\ ds = Pointed(bs, n)
  OBVIOUS
<1>6. Become(cs, ds, NoBom) /\ moves' = moves
  BY <1>1, <1>5 DEF CreateBom
<1>7. cs \in Seq(BomRow) /\ DOMAIN cs = DOMAIN bs /\ Len(cs) = n /\ cs[n] = row
      /\ \A k \in DOMAIN boms : k \in DOMAIN cs /\ cs[k].components = boms[k].components
  <2>1. cs \in Seq(BomRow) /\ Len(cs) = Len(bs) /\ DOMAIN cs = DOMAIN bs /\ cs[n] = bs[n]
        /\ \A k \in DOMAIN bs : cs[k].components = bs[k].components
    BY <1>4, <1>5, ClaimedFacts
  <2>2. \A k \in DOMAIN boms : k \in DOMAIN bs /\ k # n
    BY <1>4
  <2> QED BY <1>1, <1>4, <2>1, <2>2
<1>8. /\ ds \in [Goods -> 0 .. n]
      /\ \A k, l \in DOMAIN cs : cs[k].default /\ cs[l].default /\ cs[k].item = cs[l].item => k = l
      /\ \A k \in DOMAIN cs \ {n} :
           cs[k].docstatus = "Submitted" => (ds[cs[k].item] = k <=> cs[k].default /\ cs[k].active)
  <2>1. (IF Len(boms) < Len(bs) THEN Len(bs) ELSE Len(boms)) = n
    BY <1>1, <1>4
  <2> QED BY <1>4, <1>5, <2>1, ClaimKeeps
<1>9. cs[n].docstatus = "Draft"
  BY <1>1, <1>7
<1>10. OneDefault(cs, ds)
  BY <1>7, <1>8, <1>9 DEF OneDefault
<1> QED BY <1>2, <1>6, <1>7, <1>8, <1>10, BecomeKeeps

LEMMA UpdateBomKeeps ==
  ASSUME BomInv, NEW b \in DOMAIN boms, NEW components \in Recipes \cup {{}}, NEW default \in BOOLEAN,
         UpdateBom(b, components, default)
  PROVE  BomInv'
<1>1. PICK row, bs :
        /\ row = IF components = {} THEN [boms[b] EXCEPT !.default = default]
                 ELSE [boms[b] EXCEPT !.default = default, !.components = components, !.cost = NewCost(components)]
        /\ bs = [boms EXCEPT ![b] = row]
  OBVIOUS
<1>2. boms \in Seq(BomRow) /\ moves \in 0 .. MaxMoves
  BY DEF BomInv
<1>3. boms[b].docstatus = "Draft" /\ moves < MaxMoves /\ moves' = moves + 1 /\ boms[b] \in BomRow
  BY <1>2, BillFacts DEF UpdateBom
<1>4. row \in BomRow /\ row.docstatus = "Draft"
  <2>1. CASE components = {}
    BY <1>1, <1>3, <2>1 DEF BomRow
  <2>2. CASE components # {}
    <3>1. NewCost(components) \in Nat /\ components \in Recipes
      BY <2>2, BomConstants, CostIsNat
    <3> QED BY <1>1, <1>3, <2>2, <3>1 DEF BomRow
  <2> QED BY <2>1, <2>2
<1>5. /\ bs \in Seq(BomRow) /\ Len(bs) = Len(boms) /\ DOMAIN bs = DOMAIN boms /\ Len(boms) \in Nat
      /\ bs[b] = row /\ \A k \in DOMAIN bs \ {b} : k \in DOMAIN boms /\ bs[k] = boms[k]
  BY <1>1, <1>2, <1>4, RowWritten, BillFacts
<1>6. PICK cs, ds : cs = Claimed(bs, b) /\ ds = Pointed(bs, b)
  OBVIOUS
<1>7. Become(cs, ds, NoBom)
  <2>1. bs = LET edited == [boms EXCEPT ![b].default = default]
             IN IF components = {} THEN edited
                ELSE [edited EXCEPT ![b].components = components, ![b].cost = NewCost(components)]
    <3>1. PICK edited : edited = [boms EXCEPT ![b].default = default]
      OBVIOUS
    <3>2. CASE components = {}
      BY <1>1, <3>1, <3>2
    <3>3. CASE components # {}
      <4>1. edited = [boms EXCEPT ![b] = [boms[b] EXCEPT !.default = default]]
        BY <3>1
      <4>2. [edited EXCEPT ![b].components = components, ![b].cost = NewCost(components)]
            = [boms EXCEPT ![b] = [boms[b] EXCEPT !.default = default, !.components = components, !.cost = NewCost(components)]]
        BY <1>2, <4>1
      <4> QED BY <1>1, <3>1, <3>3, <4>2
    <3> QED BY <3>1, <3>2, <3>3
  <2> QED BY <1>6, <2>1 DEF UpdateBom
<1>8. cs \in Seq(BomRow) /\ DOMAIN cs = DOMAIN boms /\ Len(cs) = Len(boms) /\ cs[b].docstatus = "Draft"
      /\ \A k \in DOMAIN boms : k \in DOMAIN cs /\ (boms[k].docstatus = "Submitted" => cs[k].components = boms[k].components)
  <2>1. cs \in Seq(BomRow) /\ Len(cs) = Len(bs) /\ DOMAIN cs = DOMAIN bs /\ cs[b] = bs[b]
        /\ \A k \in DOMAIN bs : cs[k].components = bs[k].components
    BY <1>5, <1>6, ClaimedFacts
  <2> QED BY <1>3, <1>4, <1>5, <2>1
<1>9. /\ ds \in [Goods -> 0 .. Len(boms)]
      /\ \A k, l \in DOMAIN cs : cs[k].default /\ cs[l].default /\ cs[k].item = cs[l].item => k = l
      /\ \A k \in DOMAIN cs \ {b} :
           cs[k].docstatus = "Submitted" => (ds[cs[k].item] = k <=> cs[k].default /\ cs[k].active)
  <2>1. (IF Len(boms) < Len(bs) THEN Len(bs) ELSE Len(boms)) = Len(boms)
    BY <1>5
  <2> QED BY <1>5, <1>6, <2>1, ClaimKeeps
<1>10. OneDefault(cs, ds)
  BY <1>8, <1>9 DEF OneDefault
<1>11. moves' \in 0 .. MaxMoves
  BY <1>2, <1>3, BomConstants
<1> QED BY <1>7, <1>8, <1>9, <1>10, <1>11, BecomeKeeps

\* the pointer is set, or taken back
LEMMA RepointKeeps ==
  ASSUME NEW bs \in Seq(BomRow), NEW b \in DOMAIN bs, NEW ds \in [Goods -> 0 .. Len(bs)],
         \A k, l \in DOMAIN bs : bs[k].default /\ bs[l].default /\ bs[k].item = bs[l].item => k = l,
         \A k \in DOMAIN bs \ {b} :
           bs[k].docstatus = "Submitted" => (ds[bs[k].item] = k <=> bs[k].default /\ bs[k].active)
  PROVE  /\ Repointed(bs, ds, b) \in [Goods -> 0 .. Len(bs)]
         /\ OneDefault(bs, Repointed(bs, ds, b))
<1>1. PICK rs : rs = Repointed(bs, ds, b)
  OBVIOUS
<1>2. /\ DOMAIN bs = 1 .. Len(bs) /\ Len(bs) \in Nat /\ b \in 1 .. Len(bs) /\ b <= Len(bs)
      /\ \A k \in DOMAIN bs : bs[k].item \in Goods
  BY BillFacts
<1>3. /\ rs \in [Goods -> 0 .. Len(bs)]
      /\ IF bs[b].default /\ bs[b].docstatus = "Submitted" /\ bs[b].active
           THEN rs = [ds EXCEPT ![bs[b].item] = b]
           ELSE \A i \in Goods : rs[i] = IF ds[i] = b THEN NoBom ELSE ds[i]
  BY <1>1, <1>2, RepointedFacts
<1>4. \A k \in DOMAIN bs : k # NoBom
  BY <1>2 DEF NoBom
<1>5. ASSUME NEW k \in DOMAIN bs, bs[k].docstatus = "Submitted"
      PROVE  rs[bs[k].item] = k <=> bs[k].default /\ bs[k].active
  <2>1. CASE bs[b].default /\ bs[b].docstatus = "Submitted" /\ bs[b].active
    <3>1. \A i \in Goods : rs[i] = IF i = bs[b].item THEN b ELSE ds[i]
      BY <1>3, <2>1
    <3>2. CASE k = b
      BY <1>2, <2>1, <3>1, <3>2
    <3>3. CASE k # b /\ bs[k].item = bs[b].item
      BY <1>2, <2>1, <3>1, <3>3
    <3>4. CASE k # b /\ bs[k].item # bs[b].item
      BY <1>2, <1>5, <3>1, <3>4
    <3> QED BY <3>2, <3>3, <3>4
  <2>2. CASE ~(bs[b].default /\ bs[b].docstatus = "Submitted" /\ bs[b].active)
    <3>1. \A i \in Goods : rs[i] = IF ds[i] = b THEN NoBom ELSE ds[i]
      BY <1>3, <2>2
    <3>2. bs[k].item \in Goods /\ k # NoBom /\ b # NoBom
      BY <1>2, <1>4
    <3>3. CASE k = b
      BY <1>5, <2>2, <3>1, <3>2, <3>3
    <3>4. CASE k # b
      <4>1. ds[bs[k].item] = k <=> bs[k].default /\ bs[k].active
        BY <1>5, <3>4
      <4>2. rs[bs[k].item] = k <=> ds[bs[k].item] = k
        BY <3>1, <3>2, <3>4
      <4> QED BY <4>1, <4>2
    <3> QED BY <3>3, <3>4
  <2> QED BY <2>1, <2>2
<1> QED BY <1>1, <1>3, <1>5 DEF OneDefault

LEMMA SubmitBomKeeps ==
  ASSUME BomInv, NEW b \in DOMAIN boms, SubmitBom(b)
  PROVE  BomInv'
<1>1. boms \in Seq(BomRow) /\ moves \in 0 .. MaxMoves /\ boms[b].docstatus = "Draft"
  BY DEF BomInv, SubmitBom
<1>2. PICK row : row = [boms[b] EXCEPT !.docstatus = "Submitted", !.active = TRUE]
  OBVIOUS
<1>3. row \in BomRow /\ row.item = boms[b].item /\ row.components = boms[b].components
  <2>1. boms[b] \in BomRow
    BY <1>1, BillFacts
  <2> QED BY <1>2, <2>1 DEF BomRow
<1>4. PICK bs : bs = [boms EXCEPT ![b] = row]
  OBVIOUS
<1>5. /\ bs \in Seq(BomRow) /\ Len(bs) = Len(boms) /\ DOMAIN bs = DOMAIN boms /\ Len(boms) \in Nat
      /\ bs[b] = row /\ \A k \in DOMAIN bs \ {b} : k \in DOMAIN boms /\ bs[k] = boms[k]
      /\ DOMAIN boms = 1 .. Len(boms)
  BY <1>1, <1>3, <1>4, RowWritten, BillFacts
<1>6. PICK cs, ds : cs = Claimed(bs, b) /\ ds = Pointed(bs, b)
  OBVIOUS
<1>7. /\ cs \in Seq(BomRow) /\ DOMAIN cs = DOMAIN boms /\ Len(cs) = Len(boms) /\ cs[b] = row
      /\ \A k \in DOMAIN boms : cs[k].components = boms[k].components
  <2>1. cs \in Seq(BomRow) /\ Len(cs) = Len(bs) /\ DOMAIN cs = DOMAIN bs /\ cs[b] = bs[b]
        /\ \A k \in DOMAIN bs : cs[k].components = bs[k].components
    BY <1>5, <1>6, ClaimedFacts
  <2>2. \A k \in DOMAIN boms : bs[k].components = boms[k].components
    BY <1>3, <1>5
  <2> QED BY <1>5, <2>1, <2>2
<1>8. /\ ds \in [Goods -> 0 .. Len(boms)]
      /\ \A k, l \in DOMAIN cs : cs[k].default /\ cs[l].default /\ cs[k].item = cs[l].item => k = l
      /\ \A k \in DOMAIN cs \ {b} :
           cs[k].docstatus = "Submitted" => (ds[cs[k].item] = k <=> cs[k].default /\ cs[k].active)
  <2>1. (IF Len(boms) < Len(bs) THEN Len(bs) ELSE Len(boms)) = Len(boms)
    BY <1>5
  <2> QED BY <1>5, <1>6, <2>1, ClaimKeeps
<1>9. Become(cs, Repointed(cs, Pointed(cs, b), b), b) /\ moves' = moves
      /\ NoCycle(boms, defaultBom, boms[b].item, boms[b].components, b)
  <2>1. [boms EXCEPT ![b].docstatus = "Submitted", ![b].active = TRUE] = bs
    BY <1>1, <1>2, <1>4
  <2> QED BY <1>6, <2>1 DEF SubmitBom
<1>10. Pointed(cs, b) = ds
  BY <1>5, <1>6, <1>7 DEF Pointed
<1>11. PICK rs : rs = Repointed(cs, ds, b)
  OBVIOUS
<1>12. rs \in [Goods -> 0 .. Len(cs)] /\ OneDefault(cs, rs)
  BY <1>7, <1>8, <1>11, RepointKeeps
<1>13. Become(cs, rs, b) /\ moves' \in 0 .. MaxMoves
  BY <1>1, <1>9, <1>10, <1>11
<1>14. \A i : b \notin Usable(boms, i)
  BY <1>1 DEF Usable
<1>15. NoCycle(boms, defaultBom, cs[b].item, cs[b].components, b)
  BY <1>3, <1>7, <1>9
<1> QED BY <1>7, <1>12, <1>13, <1>14, <1>15, BecomeKeeps

\* a submitted bill is withdrawn or comes back
LEMMA StandingChangeKeeps ==
  ASSUME BomInv, NEW b \in DOMAIN boms, NEW bs \in Seq(BomRow), DOMAIN bs = DOMAIN boms, Len(bs) = Len(boms),
         bs[b].item = boms[b].item, bs[b].components = boms[b].components, bs[b].default => boms[b].default,
         \A k \in DOMAIN bs \ {b} : bs[k] = boms[k],
         Become(bs, Repointed(bs, defaultBom, b), NoBom), moves' = moves
  PROVE  BomInv'
<1>1. /\ boms \in Seq(BomRow) /\ moves \in 0 .. MaxMoves
      /\ defaultBom \in [Goods -> 0 .. Len(boms)] /\ OneDefault(boms, defaultBom)
  BY DEF BomInv
<1>2. b \in DOMAIN bs
  OBVIOUS
<1>3. \A k \in DOMAIN boms : bs[k].item = boms[k].item /\ bs[k].components = boms[k].components
                              /\ (bs[k].default => boms[k].default)
  BY <1>2
<1>4. \A k, l \in DOMAIN bs : bs[k].default /\ bs[l].default /\ bs[k].item = bs[l].item => k = l
  BY <1>1, <1>2, <1>3 DEF OneDefault
<1>5. \A k \in DOMAIN bs \ {b} :
        bs[k].docstatus = "Submitted" => (defaultBom[bs[k].item] = k <=> bs[k].default /\ bs[k].active)
  BY <1>1 DEF OneDefault
<1>6. PICK rs : rs = Repointed(bs, defaultBom, b)
  OBVIOUS
<1>7. rs \in [Goods -> 0 .. Len(bs)] /\ OneDefault(bs, rs)
  <2>1. PICK ds : ds = defaultBom /\ ds \in [Goods -> 0 .. Len(bs)]
    BY <1>1, <1>2
  <2>2. \A k \in DOMAIN bs \ {b} :
          bs[k].docstatus = "Submitted" => (ds[bs[k].item] = k <=> bs[k].default /\ bs[k].active)
    BY <1>5, <2>1
  <2>3. Repointed(bs, ds, b) \in [Goods -> 0 .. Len(bs)] /\ OneDefault(bs, Repointed(bs, ds, b))
    BY <1>2, <1>4, <2>1, <2>2, RepointKeeps
  <2> QED BY <1>6, <2>1, <2>3
<1>8. moves' \in 0 .. MaxMoves /\ Become(bs, rs, NoBom)
  BY <1>1, <1>6
<1> QED BY <1>3, <1>7, <1>8, BecomeKeeps

LEMMA CancelBomKeeps ==
  ASSUME BomInv, NEW b \in DOMAIN boms, CancelBom(b)
  PROVE  BomInv'
<1>1. boms \in Seq(BomRow) /\ boms[b] \in BomRow
  BY BillFacts DEF BomInv
<1>2. PICK row : row = [boms[b] EXCEPT !.docstatus = "Cancelled", !.active = FALSE, !.default = FALSE]
  OBVIOUS
<1>3. row \in BomRow /\ row.item = boms[b].item /\ row.components = boms[b].components /\ ~row.default
  BY <1>1, <1>2 DEF BomRow
<1>4. PICK bs : bs = [boms EXCEPT ![b] = row]
  OBVIOUS
<1>5. bs = [boms EXCEPT ![b].docstatus = "Cancelled", ![b].active = FALSE, ![b].default = FALSE]
  BY <1>1, <1>2, <1>4
<1>6. Become(bs, Repointed(bs, defaultBom, b), NoBom) /\ moves' = moves
  BY <1>5 DEF CancelBom
<1>7. /\ bs \in Seq(BomRow) /\ Len(bs) = Len(boms) /\ DOMAIN bs = DOMAIN boms
      /\ bs[b] = row /\ \A k \in DOMAIN bs \ {b} : bs[k] = boms[k]
  BY <1>1, <1>3, <1>4, RowWritten
<1> QED BY <1>3, <1>6, <1>7, StandingChangeKeeps

LEMMA SetActiveKeeps ==
  ASSUME BomInv, NEW b \in DOMAIN boms, NEW active \in BOOLEAN, SetActive(b, active)
  PROVE  BomInv'
<1>1. boms \in Seq(BomRow) /\ boms[b] \in BomRow /\ boms[b].default \in BOOLEAN
  BY BillFacts DEF BomInv
<1>2. PICK row : row = [boms[b] EXCEPT !.active = active, !.default = @ /\ active]
  OBVIOUS
<1>3. row \in BomRow /\ row.item = boms[b].item /\ row.components = boms[b].components
      /\ (row.default => boms[b].default)
  BY <1>1, <1>2 DEF BomRow
<1>4. PICK bs : bs = [boms EXCEPT ![b] = row]
  OBVIOUS
<1>5. bs = [boms EXCEPT ![b].active = active, ![b].default = @ /\ active]
  BY <1>1, <1>2, <1>4
<1>6. Become(bs, Repointed(bs, defaultBom, b), NoBom) /\ moves' = moves
  BY <1>5 DEF SetActive
<1>7. /\ bs \in Seq(BomRow) /\ Len(bs) = Len(boms) /\ DOMAIN bs = DOMAIN boms
      /\ bs[b] = row /\ \A k \in DOMAIN bs \ {b} : bs[k] = boms[k]
  BY <1>1, <1>3, <1>4, RowWritten
<1> QED BY <1>3, <1>6, <1>7, StandingChangeKeeps

\* costs decide nothing about which bill is used
LEMMA UpdateBomCostKeeps ==
  ASSUME BomInv, NEW b \in DOMAIN boms, UpdateBomCost(b)
  PROVE  BomInv'
<1>1. boms \in Seq(BomRow) /\ moves \in 0 .. MaxMoves
  BY DEF BomInv
<1>2. PICK costs : /\ \A k \in DOMAIN boms : costs[k] \in 0 .. MaxCost
                   /\ boms' = [k \in DOMAIN boms |-> [boms[k] EXCEPT !.cost = costs[k]]]
                   /\ moves < MaxMoves /\ moves' = moves + 1 /\ UNCHANGED <<defaultBom, value, unchecked>>
  BY DEF UpdateBomCost
<1>3. PICK bs : bs = boms'
  OBVIOUS
<1>4. /\ bs \in Seq(BomRow) /\ Len(bs) = Len(boms) /\ DOMAIN bs = DOMAIN boms
      /\ \A k \in DOMAIN boms :
           /\ bs[k].item = boms[k].item /\ bs[k].components = boms[k].components
           /\ bs[k].docstatus = boms[k].docstatus /\ bs[k].active = boms[k].active /\ bs[k].default = boms[k].default
  <2>1. DOMAIN boms = 1 .. Len(boms) /\ Len(boms) \in Nat
    BY <1>1, BillFacts
  <2>2. ASSUME NEW k \in DOMAIN boms
        PROVE  /\ bs[k] \in BomRow
               /\ bs[k].item = boms[k].item /\ bs[k].components = boms[k].components
               /\ bs[k].docstatus = boms[k].docstatus /\ bs[k].active = boms[k].active /\ bs[k].default = boms[k].default
    <3>1. PICK row, c : row = boms[k] /\ row \in BomRow /\ c = costs[k] /\ c \in Nat
      BY <1>1, <1>2, BillFacts, BomConstants
    <3>2. bs[k] = [row EXCEPT !.cost = c]
      BY <1>2, <1>3, <3>1
    <3> QED BY <3>1, <3>2 DEF BomRow
  <2>3. bs \in [1 .. Len(boms) -> BomRow]
    BY <1>2, <1>3, <2>1, <2>2
  <2> QED BY <2>1, <2>2, <2>3
<1>5. \A i : Usable(bs, i) = Usable(boms, i)
  BY <1>4 DEF Usable
<1>6. ASSUME NEW i PROVE Parts(bs, defaultBom, i, NoBom) = MadeOf(i)
  <2>1. PICK usable : usable = Usable(boms, i) \ {NoBom} /\ usable \in SUBSET DOMAIN boms
    BY DEF Usable
  <2>2. {k \in usable : bs[k].default} = {k \in usable : boms[k].default}
    BY <1>4, <2>1
  <2>3. Used(bs, defaultBom, i, NoBom) = Used(boms, defaultBom, i, NoBom)
    <3>1. PICK ds : ds = defaultBom[i]
      OBVIOUS
    <3>2. PICK default : default = {k \in usable : boms[k].default}
      OBVIOUS
    <3>3. Used(bs, defaultBom, i, NoBom) =
            IF ds \in usable THEN ds ELSE IF usable = {} THEN NoBom ELSE Max(IF default # {} THEN default ELSE usable)
      <4>1. usable = Usable(bs, i) \ {NoBom} /\ default = {k \in usable : bs[k].default}
        BY <1>5, <2>1, <2>2, <3>2
      <4> QED BY <3>1, <4>1 DEF Used
    <3>4. Used(boms, defaultBom, i, NoBom) =
            IF ds \in usable THEN ds ELSE IF usable = {} THEN NoBom ELSE Max(IF default # {} THEN default ELSE usable)
      BY <2>1, <3>1, <3>2 DEF Used
    <3> QED BY <3>3, <3>4
  <2>4. Used(boms, defaultBom, i, NoBom) # NoBom => Used(boms, defaultBom, i, NoBom) \in DOMAIN boms
    BY <1>1, UsedFacts
  <2> QED BY <1>4, <2>3, <2>4 DEF Parts, MadeOf
<1>7. NoCircleAmongChecked'
  <2>1. unchecked' = unchecked /\ \A i : MadeOf(i)' = MadeOf(i)
    BY <1>2, <1>3, <1>6 DEF MadeOf
  <2> QED BY <2>1 DEF BomInv, NoCircleAmongChecked
<1>8. OneDefault(bs, defaultBom)
  <2>1. OneDefault(boms, defaultBom)
    BY DEF BomInv
  <2>2. \A k, l \in DOMAIN boms : boms[k].default /\ boms[l].default /\ boms[l].item = boms[k].item => l = k
    BY <2>1 DEF OneDefault
  <2>3. \A k \in DOMAIN boms :
          boms[k].docstatus = "Submitted" => (defaultBom[boms[k].item] = k <=> boms[k].default /\ boms[k].active)
    BY <2>1 DEF OneDefault
  <2>4. \A k, l \in DOMAIN bs : bs[k].default /\ bs[l].default /\ bs[l].item = bs[k].item => l = k
    BY <1>4, <2>2
  <2>5. \A k \in DOMAIN bs :
          bs[k].docstatus = "Submitted" => (defaultBom[bs[k].item] = k <=> bs[k].default /\ bs[k].active)
    BY <1>4, <2>3
  <2> QED BY <2>4, <2>5 DEF OneDefault
<1>9. moves' \in 0 .. MaxMoves
  BY <1>1, <1>2, BomConstants
<1> QED BY <1>2, <1>3, <1>4, <1>7, <1>8, <1>9 DEF BomInv

LEMMA RevalueKeeps ==
  ASSUME BomInv, NEW i \in Bought, Revalue(i)
  PROVE  BomInv'
<1>1. value' \in [Goods -> Values] /\ UNCHANGED <<boms, defaultBom, moves, unchecked>>
  BY BomConstants DEF BomInv, Revalue
<1> QED BY <1>1 DEF BomInv, NoCircleAmongChecked, MadeOf, OneDefault

LEMMA BomStep == BomInv /\ [BomNext]_bomvars => BomInv'
<1> SUFFICES ASSUME BomInv, [BomNext]_bomvars PROVE BomInv'
  OBVIOUS
<1>1. ASSUME NEW i \in Goods \ Bought, NEW c \in Recipes, NEW d \in BOOLEAN, CreateBom(i, c, d) PROVE BomInv'
  BY <1>1, CreateBomKeeps
<1>2. ASSUME NEW b \in DOMAIN boms, NEW c \in Recipes \cup {{}}, NEW d \in BOOLEAN, UpdateBom(b, c, d) PROVE BomInv'
  BY <1>2, UpdateBomKeeps
<1>3. ASSUME NEW b \in DOMAIN boms, SubmitBom(b) PROVE BomInv'
  BY <1>3, SubmitBomKeeps
<1>4. ASSUME NEW b \in DOMAIN boms, CancelBom(b) PROVE BomInv'
  BY <1>4, CancelBomKeeps
<1>5. ASSUME NEW b \in DOMAIN boms, UpdateBomCost(b) PROVE BomInv'
  BY <1>5, UpdateBomCostKeeps
<1>6. ASSUME NEW b \in DOMAIN boms, NEW a \in BOOLEAN, SetActive(b, a) PROVE BomInv'
  BY <1>6, SetActiveKeeps
<1>7. ASSUME NEW i \in Bought, Revalue(i) PROVE BomInv'
  BY <1>7, RevalueKeeps
<1>8. CASE UNCHANGED bomvars
  BY <1>8 DEF bomvars, BomInv, NoCircleAmongChecked, MadeOf, OneDefault
<1> QED BY <1>1, <1>2, <1>3, <1>4, <1>5, <1>6, <1>7, <1>8 DEF BomNext

LEMMA BomSafe == BomInv => BomsAgree
<1> SUFFICES ASSUME BomInv PROVE BomsAgree
  OBVIOUS
<1>1. boms \in Seq(BomRow)
  BY DEF BomInv
<1>2. BomTypeOK
  BY <1>1, BillFacts DEF BomInv, BomTypeOK, BomRow
<1>3. DefaultsAgree
  BY DEF BomInv, OneDefault, DefaultsAgree
<1> QED BY <1>2, <1>3, CirclesComeBack DEF BomsAgree

\* After any order of drafts, submissions, cancellations, deactivations and
\* refreshed costs, an item has one default bill and points at it, and nothing
\* is made of itself unless a bill came back into use unchecked.
THEOREM BomsFollow == BomSpec => []BomsAgree
<1>1. BomSpec => []BomInv
  BY BomStart, BomStep, PTL DEF BomSpec
<1> QED BY <1>1, BomSafe, PTL

-----------------------------------------------------------------------------
(* All of them. *)

\* The documents around production count what hangs on them, and of the bills of
\* an item the one in use is its default and leads back to it only unchecked.
THEOREM CountersAlwaysFollow == SSpec /\ PSpec /\ RSpec /\ JSpec /\ BomSpec => []CountersFollow
<1>1. JobFollowsSlips /\ PlanFollowsOrders /\ (RequestFollowsOrders /\ NeverOverordered) /\ CardFollowsLogs /\ BomsAgree
      => CountersFollow
  BY DEF CountersFollow
<1> QED BY <1>1, JobFollows, PlanFollows, RequestFollows, CardFollows, BomsFollow, PTL
=============================================================================
