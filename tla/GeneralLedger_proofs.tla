------------------------ MODULE GeneralLedger_proofs ------------------------
(***************************************************************************)
(* For any number of clerks, entries, accounts and closings: the freeze    *)
(* date only advances, a closed period is final for every request that no  *)
(* closing has overtaken, closed accounts stay empty, a cancelled entry    *)
(* nets out, and a submitted budget holds but for the known ways around it.*)
(* For any tree and any chart of accounts, editors and clerks: the paths   *)
(* tell the places, all is shown, the statements add up along them.        *)
(***************************************************************************)
EXTENDS GeneralLedger, Masters, SumLemmas, SequenceTheorems, TLAPS

Closing(w) == Doing(w, "name") \/ Doing(w, "close")
Writing(w) == Doing(w, "submit") \/ Doing(w, "cancel")

\* Which components the records have; sums are left out, nothing here needs them.
Shapes ==
  /\ frozen \in Nat
  /\ DOMAIN desk = Clerks /\ desk = [w \in Clerks |-> desk[w]]
  /\ \A w \in Clerks :
       /\ desk[w] = [op |-> desk[w].op, on |-> desk[w].on, date |-> desk[w].date,
                     moved |-> desk[w].moved, late |-> desk[w].late]
       /\ Busy(w) => Closing(w) \/ Writing(w)
  /\ closed = [c \in Closings |-> closed[c]]
  /\ entry \in [Entries -> [stage : Stages, says : Drafts \cup {Nobody}]]
  /\ postings = [e \in Entries |-> postings[e]]
  /\ \A e \in Entries : entry[e].stage # "none" => entry[e].says \in Drafts

\* Whoever closes holds the counter and looked at the freeze date after taking it.
Numbered == \A w \in Clerks : Doing(w, "close") => counter = w /\ desk[w].date > frozen

\* The voucher of a closing is not in the ledger yet, and no one else writes it.
Fresh ==
  \A w \in Clerks : Closing(w) =>
    /\ desk[w].on \in Closings /\ desk[w].date \in Days /\ desk[w].on \notin Shut
    /\ \A x \in Clerks : Closing(x) /\ desk[x].on = desk[w].on => x = w

\* A request that no closing overtook still writes into an open period.
Checked ==
  \A w \in Clerks : Writing(w) =>
    /\ desk[w].on \in Entries /\ entry[desk[w].on].stage # "none"
    /\ "closing" \in desk[w].late \/ entry[desk[w].on].says.date > frozen

IInv == Shapes /\ Numbered /\ Fresh /\ Checked

-----------------------------------------------------------------------------
LEMMA InitIInv == GLInit => IInv
<1> SUFFICES ASSUME GLInit PROVE IInv
  OBVIOUS
<1>1. desk = [w \in Clerks |-> NoRequest]
  BY DEF GLInit
<1>2. \A w \in Clerks : ~Busy(w) /\ ~Closing(w) /\ ~Writing(w)
  BY <1>1 DEF Busy, Closing, Writing, Doing, NoRequest, Request
<1>3. Shapes
  <2>1. \A w \in Clerks : desk[w] = [op |-> desk[w].op, on |-> desk[w].on, date |-> desk[w].date,
                                     moved |-> desk[w].moved, late |-> desk[w].late]
    BY <1>1 DEF NoRequest, Request
  <2>2. DOMAIN desk = Clerks /\ desk = [w \in Clerks |-> desk[w]]
    BY <1>1
  <2> QED BY <1>2, <2>1 DEF GLInit, Shapes, Stages
<1> QED BY <1>2, <1>3 DEF IInv, Numbered, Fresh, Checked, Closing

\* What Tell does to the desks.
LEMMA TellDesk ==
  ASSUME Shapes, NEW w, NEW news, Tell(w, news)
  PROVE  /\ DOMAIN desk' = Clerks /\ desk' = [x \in Clerks |-> desk'[x]]
         /\ \A x \in Clerks : x = w => desk'[x] = NoRequest
         /\ \A x \in Clerks : x # w /\ Busy(x) =>
              desk'[x] = [op |-> desk[x].op, on |-> desk[x].on, date |-> desk[x].date,
                          moved |-> desk[x].moved, late |-> desk[x].late \cup news]
         /\ \A x \in Clerks : x # w /\ ~Busy(x) => desk'[x] = NoRequest
<1>1. desk' = [x \in Clerks |->
                IF Busy(x) /\ x # w THEN [desk[x] EXCEPT !.late = @ \cup news] ELSE NoRequest]
  BY DEF Tell
<1>2. DOMAIN desk' = Clerks /\ desk' = [x \in Clerks |-> desk'[x]]
  BY <1>1
<1>3. ASSUME NEW x \in Clerks, x # w, Busy(x)
      PROVE  desk'[x] = [op |-> desk[x].op, on |-> desk[x].on, date |-> desk[x].date,
                         moved |-> desk[x].moved, late |-> desk[x].late \cup news]
  <2>1. desk'[x] = [desk[x] EXCEPT !.late = @ \cup news]
    BY <1>1, <1>3
  <2>2. desk[x] = [op |-> desk[x].op, on |-> desk[x].on, date |-> desk[x].date,
                   moved |-> desk[x].moved, late |-> desk[x].late]
    BY DEF Shapes
  <2> QED BY <2>1, <2>2
<1>4. \A x \in Clerks : x = w \/ ~Busy(x) => desk'[x] = NoRequest
  BY <1>1
<1> QED BY <1>2, <1>3, <1>4

-----------------------------------------------------------------------------
(* Each action keeps the invariant. *)

LEMMA CreateKeeps ==
  ASSUME IInv, NEW e \in Entries, NEW draft \in Drafts, CreateJournalEntry(e, draft)
  PROVE  IInv'
<1> USE DEF IInv, CreateJournalEntry, Busy, Doing, Closing, Writing, Shut
<1>1. Shapes' BY DEF Shapes, Stages
<1>2. Numbered' BY DEF Numbered
<1>3. Fresh' BY DEF Fresh
<1>4. Checked'
  <2>1. entry'[e].stage = "draft" /\ \A x \in Entries \ {e} : entry'[x] = entry[x]
    BY DEF Shapes
  <2> QED BY DEF Checked
<1> QED BY <1>1, <1>2, <1>3, <1>4

LEMMA CheckKeeps ==
  ASSUME IInv, NEW w \in Clerks, NEW e \in Entries, CheckSubmit(w, e) \/ CheckCancel(w, e)
  PROVE  IInv'
<1> USE DEF IInv, CheckSubmit, CheckCancel
<1>1. PICK op, moved :
        op \in {"submit", "cancel"} /\
        desk' = [desk EXCEPT ![w] = [op |-> op, on |-> e, date |-> 0, moved |-> moved, late |-> {}]]
  BY DEF Request
<1>2. /\ DOMAIN desk' = Clerks /\ \A x \in Clerks \ {w} : desk'[x] = desk[x]
      /\ desk'[w] = [op |-> op, on |-> e, date |-> 0, moved |-> moved, late |-> {}]
      /\ desk' = [x \in Clerks |-> desk'[x]] /\ op \in {"submit", "cancel"}
  <2> HIDE DEF CheckSubmit, CheckCancel
  <2>1. DOMAIN desk = Clerks
    BY DEF Shapes
  <2> HIDE DEF IInv
  <2> QED BY <1>1, <2>1
<1>3. UNCHANGED <<entry, postings, closed, frozen, counter>> OBVIOUS
<1>4. entry[e].stage # "none" /\ entry[e].says.date > frozen
  BY DEF OpenPeriod
<1> HIDE DEF IInv, CheckSubmit, CheckCancel
<1> USE DEF IInv, Busy, Doing, Closing, Writing, NoRequest, Request, Shut
<1>5. Shapes'
  <2>1. \A x \in Clerks :
          /\ desk'[x] = [op |-> desk'[x].op, on |-> desk'[x].on, date |-> desk'[x].date,
                         moved |-> desk'[x].moved, late |-> desk'[x].late]
          /\ Busy(x)' => Closing(x)' \/ Writing(x)'
    BY <1>2 DEF Shapes
  <2> QED BY <1>2, <1>3, <2>1 DEF Shapes
<1>6. Numbered' BY <1>2, <1>3 DEF Numbered
<1>7. Fresh' BY <1>2, <1>3 DEF Fresh
<1>8. Checked' BY <1>2, <1>3, <1>4 DEF Checked
<1> QED BY <1>5, <1>6, <1>7, <1>8

LEMMA EntryCommitKeeps ==
  ASSUME IInv, NEW w \in Clerks, CommitSubmit(w) \/ CommitCancel(w)
  PROVE  IInv'
<1> DEFINE e == desk[w].on
<1>1. /\ Writing(w) /\ e \in Entries /\ entry[e].says \in Drafts
      /\ Tell(w, {e})
      /\ UNCHANGED <<closed, frozen, counter>>
  BY DEF IInv, CommitSubmit, CommitCancel, Writing, Shapes, Checked
<1>2. /\ entry' \in [Entries -> [stage : Stages, says : Drafts \cup {Nobody}]]
      /\ entry'[e].stage # "none"
      /\ \A x \in Entries : entry'[x].says = entry[x].says /\ (x # e => entry'[x] = entry[x])
  <2>1. PICK s \in {"submitted", "cancelled"} : entry' = [entry EXCEPT ![e].stage = s]
    BY DEF CommitSubmit, CommitCancel
  <2>2. entry \in [Entries -> [stage : Stages, says : Drafts \cup {Nobody}]]
    BY DEF IInv, Shapes
  <2> QED BY <1>1, <2>1, <2>2 DEF Stages
<1>3. postings' = [x \in Entries |-> postings'[x]]
  BY DEF IInv, CommitSubmit, CommitCancel, Shapes
<1>4. /\ DOMAIN desk' = Clerks /\ desk' = [x \in Clerks |-> desk'[x]]
      /\ \A x \in Clerks : x = w => desk'[x] = NoRequest
      /\ \A x \in Clerks : x # w /\ Busy(x) =>
           desk'[x] = [op |-> desk[x].op, on |-> desk[x].on, date |-> desk[x].date,
                       moved |-> desk[x].moved, late |-> desk[x].late \cup {e}]
      /\ \A x \in Clerks : x # w /\ ~Busy(x) => desk'[x] = NoRequest
  BY <1>1, TellDesk DEF IInv
<1> HIDE DEF e
<1> USE DEF IInv, Busy, Doing, Closing, Writing, NoRequest, Request, Shut
<1>5. Shapes'
  <2>1. \A x \in Clerks :
          /\ desk'[x] = [op |-> desk'[x].op, on |-> desk'[x].on, date |-> desk'[x].date,
                         moved |-> desk'[x].moved, late |-> desk'[x].late]
          /\ Busy(x)' => Closing(x)' \/ Writing(x)'
    BY <1>4 DEF Shapes
  <2>2. \A x \in Entries : entry'[x].stage # "none" => entry'[x].says \in Drafts
    BY <1>1, <1>2 DEF Shapes
  <2> QED BY <1>1, <1>2, <1>3, <1>4, <2>1 DEF Shapes
<1>6. Numbered' BY <1>1, <1>4 DEF Numbered
<1>7. Fresh' BY <1>1, <1>4 DEF Fresh
<1>8. Checked' BY <1>1, <1>2, <1>4 DEF Checked
<1> QED BY <1>5, <1>6, <1>7, <1>8

LEMMA ClosingBeginKeeps ==
  ASSUME IInv, NEW w \in Clerks, NEW c \in Closings, NEW d \in Days, BeginClosing(w, c, d)
  PROVE  IInv'
<1>1. PICK moved : desk' = [desk EXCEPT ![w] = Request("name", c, d, moved)]
  BY DEF BeginClosing
<1>2. /\ DOMAIN desk' = Clerks /\ \A x \in Clerks \ {w} : desk'[x] = desk[x]
      /\ desk'[w] = [op |-> "name", on |-> c, date |-> d, moved |-> moved, late |-> {}]
      /\ desk' = [x \in Clerks |-> desk'[x]]
  BY <1>1 DEF Shapes, IInv, Request
<1>3. /\ UNCHANGED <<entry, postings, closed, frozen, counter>>
      /\ c \notin Shut /\ \A x \in Clerks : Busy(x) => desk[x].on # c
  BY DEF BeginClosing
<1> USE DEF IInv, Busy, Doing, Closing, Writing, NoRequest, Request, Shut
<1>4. Shapes' BY <1>2, <1>3 DEF Shapes
<1>5. Numbered' BY <1>2, <1>3 DEF Numbered
<1>6. Fresh' BY <1>2, <1>3 DEF Fresh
<1>7. Checked' BY <1>2, <1>3 DEF Checked
<1> QED BY <1>4, <1>5, <1>6, <1>7

LEMMA ClosingNameKeeps ==
  ASSUME IInv, NEW w \in Clerks, NameClosing(w)
  PROVE  IInv'
<1>1. /\ DOMAIN desk' = Clerks /\ \A x \in Clerks \ {w} : desk'[x] = desk[x]
      /\ desk'[w] = [op |-> "close", on |-> desk[w].on, date |-> desk[w].date,
                     moved |-> desk[w].moved, late |-> desk[w].late]
      /\ desk' = [x \in Clerks |-> desk'[x]]
      /\ Doing(w, "name")
  BY DEF NameClosing, Shapes, IInv
<1>2. /\ UNCHANGED <<entry, postings, closed, frozen>>
      /\ counter = Nobody /\ counter' = w /\ desk[w].date > frozen
  BY DEF NameClosing, OpenPeriod
<1> USE DEF IInv, Busy, Doing, Closing, Writing, NoRequest, Request, Shut
<1>3. Shapes' BY <1>1, <1>2 DEF Shapes
<1>4. Numbered'
  BY <1>1, <1>2, LedgerAssumption DEF Numbered
<1>5. Fresh' BY <1>1, <1>2 DEF Fresh
<1>6. Checked' BY <1>1, <1>2 DEF Checked
<1> QED BY <1>3, <1>4, <1>5, <1>6

LEMMA ClosingCommitKeeps ==
  ASSUME IInv, NEW w \in Clerks, CommitClosing(w)
  PROVE  IInv'
<1>1. /\ Doing(w, "close") /\ Tell(w, {"closing"}) /\ counter = w /\ counter' = Nobody
      /\ desk[w].on \in Closings /\ desk[w].date \in Days
      /\ frozen' = desk[w].date /\ UNCHANGED <<entry, postings>>
  BY DEF IInv, CommitClosing, Numbered, Fresh, Closing
<1>2. /\ closed' = [c \in Closings |-> closed'[c]]
      /\ \A c \in Closings : c # desk[w].on => closed'[c] = closed[c]
  BY DEF IInv, CommitClosing, Shapes
<1>3. /\ DOMAIN desk' = Clerks /\ desk' = [x \in Clerks |-> desk'[x]]
      /\ \A x \in Clerks : x = w => desk'[x] = NoRequest
      /\ \A x \in Clerks : x # w /\ Busy(x) =>
           desk'[x] = [op |-> desk[x].op, on |-> desk[x].on, date |-> desk[x].date,
                       moved |-> desk[x].moved, late |-> desk[x].late \cup {"closing"}]
      /\ \A x \in Clerks : x # w /\ ~Busy(x) => desk'[x] = NoRequest
  BY <1>1, TellDesk DEF IInv
<1> USE DEF IInv, Busy, Doing, Closing, Writing, NoRequest, Request, Shut
<1>4. Shapes' BY <1>1, <1>2, <1>3, LedgerAssumption DEF Shapes
<1>5. Numbered' BY <1>1, <1>3 DEF Numbered
<1>6. Fresh' BY <1>1, <1>2, <1>3 DEF Fresh
<1>7. Checked' BY <1>1, <1>3 DEF Checked
<1> QED BY <1>4, <1>5, <1>6, <1>7

LEMMA AbandonKeeps ==
  ASSUME IInv, NEW w \in Clerks, Abandon(w)
  PROVE  IInv'
<1>1. /\ DOMAIN desk' = Clerks /\ \A x \in Clerks \ {w} : desk'[x] = desk[x]
      /\ desk'[w] = NoRequest /\ desk' = [x \in Clerks |-> desk'[x]]
  BY DEF Abandon, Shapes, IInv
<1>2. /\ UNCHANGED <<entry, postings, closed, frozen>>
      /\ \A x \in Clerks \ {w} : counter = x => counter' = x
  BY DEF Abandon
<1> USE DEF IInv, Busy, Doing, Closing, Writing, NoRequest, Request, Shut
<1>3. Shapes' BY <1>1, <1>2 DEF Shapes
<1>4. Numbered' BY <1>1, <1>2 DEF Numbered
<1>5. Fresh' BY <1>1, <1>2 DEF Fresh
<1>6. Checked' BY <1>1, <1>2 DEF Checked
<1> QED BY <1>3, <1>4, <1>5, <1>6

LEMMA QuietKeeps ==
  ASSUME IInv, UNCHANGED <<entry, postings, closed, frozen, counter, desk>>
  PROVE  IInv'
<1> USE DEF IInv, Busy, Doing, Closing, Writing
<1>1. Shapes' BY DEF Shapes
<1>2. Numbered' BY DEF Numbered
<1>3. Fresh' BY DEF Fresh, Shut
<1>4. Checked' BY DEF Checked
<1> QED BY <1>1, <1>2, <1>3, <1>4

LEMMA BudgetKeeps ==
  ASSUME IInv, CreateBudget \/ SubmitBudget \/ CancelBudget
  PROVE  IInv'
<1>1. UNCHANGED <<entry, postings, closed, frozen, counter>>
  BY DEF CreateBudget, SubmitBudget, CancelBudget
<1>2. CASE UNCHANGED desk
  BY <1>1, <1>2, QuietKeeps
<1>3. CASE Tell(Nobody, {"budget"})
  <2>1. /\ DOMAIN desk' = Clerks /\ desk' = [x \in Clerks |-> desk'[x]]
        /\ \A x \in Clerks : Busy(x) =>
             desk'[x] = [op |-> desk[x].op, on |-> desk[x].on, date |-> desk[x].date,
                         moved |-> desk[x].moved, late |-> desk[x].late \cup {"budget"}]
        /\ \A x \in Clerks : ~Busy(x) => desk'[x] = NoRequest
    BY <1>3, TellDesk, LedgerAssumption DEF IInv
  <2> USE DEF IInv, Busy, Doing, Closing, Writing, NoRequest, Request, Shut
  <2>2. Shapes' BY <1>1, <2>1 DEF Shapes
  <2>3. Numbered' BY <1>1, <2>1 DEF Numbered
  <2>4. Fresh' BY <1>1, <2>1 DEF Fresh
  <2>5. Checked' BY <1>1, <2>1 DEF Checked
  <2> QED BY <2>2, <2>3, <2>4, <2>5
<1> QED BY <1>2, <1>3 DEF CreateBudget, SubmitBudget, CancelBudget

LEMMA StepKeeps == IInv /\ [GLNext]_gvars => IInv'
<1> SUFFICES ASSUME IInv, [GLNext]_gvars PROVE IInv'
  OBVIOUS
<1>1. CASE UNCHANGED gvars
  BY <1>1, QuietKeeps DEF gvars
<1>2. CASE GLNext
  BY <1>2, CreateKeeps, CheckKeeps, EntryCommitKeeps, ClosingBeginKeeps, ClosingNameKeeps,
     ClosingCommitKeeps, AbandonKeeps, BudgetKeeps DEF GLNext
<1> QED BY <1>1, <1>2

LEMMA AlwaysIInv == GLSpec => []IInv
BY InitIInv, StepKeeps, PTL DEF GLSpec

-----------------------------------------------------------------------------
\* The freeze date only advances: two closings that overlap are put in order
\* by the counter of names (period_closing.py, gl.py set_frozen_upto).
THEOREM FreezeAdvances == GLSpec => FreezeOnlyAdvances
<1>1. IInv /\ [GLNext]_gvars => [frozen' >= frozen]_gvars
  <2> SUFFICES ASSUME IInv, GLNext PROVE frozen' >= frozen
    OBVIOUS
  <2>1. ASSUME NEW w \in Clerks, CommitClosing(w) PROVE frozen' >= frozen
    BY <2>1, LedgerAssumption DEF IInv, CommitClosing, Numbered, Fresh, Closing, Shapes
  <2>2. CASE UNCHANGED frozen
    BY <2>2 DEF IInv, Shapes
  <2> QED
    BY <2>1, <2>2 DEF GLNext, CreateJournalEntry, CheckSubmit, CheckCancel, CommitSubmit,
         CommitCancel, BeginClosing, NameClosing, Abandon, CreateBudget, SubmitBudget, CancelBudget
<1> QED BY <1>1, AlwaysIInv, PTL DEF GLSpec, FreezeOnlyAdvances

\* A closed period is final: only a request the closing overtook still changes
\* what is posted in it, and no closing is dated in it afterwards.
THEOREM ClosedPeriodIsFinal == GLSpec => ClosedIsFinal
<1> DEFINE Overtaken(e) == \E w \in Clerks : Busy(w) /\ desk[w].on = e /\ "closing" \in desk[w].late
           Kept(d) == /\ \A e \in Entries :
                           entry[e].says # Nobody /\ entry[e].says.date = d /\ postings'[e] # postings[e] =>
                             Overtaken(e)
                      /\ {c \in Shut : closed[c].date = d}' = {c \in Shut : closed[c].date = d}
<1>1. IInv /\ [GLNext]_gvars => [\A d \in Days : d <= frozen => Kept(d)]_gvars
  <2> SUFFICES ASSUME IInv, GLNext, NEW d \in Days, d <= frozen PROVE Kept(d)
    OBVIOUS
  <2>1. ASSUME NEW w \in Clerks, CommitSubmit(w) \/ CommitCancel(w) PROVE Kept(d)
    <3>1. /\ Busy(w) /\ Writing(w) /\ desk[w].on \in Entries /\ UNCHANGED closed
          /\ \A e \in Entries : e # desk[w].on => postings'[e] = postings[e]
      BY <2>1 DEF IInv, Shapes, Checked, CommitSubmit, CommitCancel, Writing, Doing, Busy
    <3>2. entry[desk[w].on].says.date = d => "closing" \in desk[w].late
      BY <3>1, LedgerAssumption DEF IInv, Checked, Shapes
    <3>3. \A e \in Entries : entry[e].says.date = d /\ postings'[e] # postings[e] => Overtaken(e)
      BY <3>1, <3>2
    <3> QED BY <3>1, <3>3 DEF Shut
  <2>2. ASSUME NEW w \in Clerks, CommitClosing(w) PROVE Kept(d)
    <3> DEFINE c == desk[w].on
    <3>1. /\ c \in Closings /\ c \notin Shut /\ desk[w].date > frozen
          /\ desk[w].date \in Days /\ UNCHANGED postings
      BY <2>2 DEF IInv, Numbered, Fresh, Closing, CommitClosing
    <3>2. /\ \A x \in Closings : x # c => closed'[x] = closed[x]
          /\ closed'[c] = [date |-> desk[w].date, moved |-> desk[w].moved]
      BY <2>2, <3>1 DEF IInv, Shapes, CommitClosing
    <3>3. closed'[c].date # d
      BY <3>1, <3>2, LedgerAssumption DEF IInv, Shapes
    <3> QED BY <3>1, <3>2, <3>3 DEF Shut
  <2>3. CASE UNCHANGED <<postings, closed>>
    BY <2>3 DEF Shut
  <2> QED
    BY <2>1, <2>2, <2>3 DEF GLNext, CreateJournalEntry, CheckSubmit, CheckCancel, BeginClosing,
         NameClosing, Abandon, CreateBudget, SubmitBudget, CancelBudget
<1> QED BY <1>1, AlwaysIInv, PTL DEF GLSpec, ClosedIsFinal

-----------------------------------------------------------------------------
(* What the ledger says: every sum is a number. *)

\* Types the sums need, and who holds the counter of names.
Counted ==
  /\ postings \in [Entries -> [made : Nat, mirrored : Nat]]
  /\ \A e \in Entries : entry[e].stage = "none" => postings[e].made = 0 /\ postings[e].mirrored = 0
  /\ \A w \in Clerks : Doing(w, "cancel") => desk[w].moved \in Nat
  /\ \A w \in Clerks : Closing(w) => desk[w].moved \in [ProfitAndLoss -> Int]
  /\ \A c \in Shut : closed[c].date \in Days /\ closed[c].moved \in [ProfitAndLoss -> Int]
  /\ frozen \in Days \cup {0}
  /\ budget \in Stages
  /\ counter \in Clerks \cup {Nobody}
  /\ \A w \in Clerks : counter = w => Doing(w, "close")
  /\ disturbed \subseteq Entries \cup {"books"}

\* An entry nobody wrote behind another's back was posted once when submitted,
\* and mirrored once when cancelled; whoever works on it saw it as it is.
Untouched ==
  /\ \A e \in Entries \ disturbed :
       /\ entry[e].stage = "draft" => postings[e].made = 0 /\ postings[e].mirrored = 0
       /\ entry[e].stage = "submitted" => postings[e].mirrored = 0
       /\ entry[e].stage = "cancelled" => postings[e].made = postings[e].mirrored
  /\ \A w \in Clerks : Writing(w) /\ desk[w].on \notin desk[w].late =>
       /\ Doing(w, "submit") => entry[desk[w].on].stage = "draft"
       /\ Doing(w, "cancel") => /\ entry[desk[w].on].stage = "submitted"
                                /\ desk[w].moved = postings[desk[w].on].made

\* A closing that no commit overtook still moves what is on the accounts.
Carried ==
  \A w \in Clerks : Closing(w) /\ desk[w].late \subseteq {"budget"} =>
    \A a \in ProfitAndLoss : desk[w].moved[a] = Balance(a, desk[w].date)

JInv == Counted /\ Untouched /\ Carried /\ ClosedIsEmpty

LEMMA AmountIsInt ==
  ASSUME NEW draft \in Drafts, NEW a
  PROVE  AmountOn(draft, a) \in Int
<1> DEFINE f == [i \in DOMAIN draft.rows |->
                   IF draft.rows[i].account = a THEN draft.rows[i].amount ELSE 0]
<1>1. IsFiniteSet(DOMAIN draft.rows) /\ \A i \in DOMAIN draft.rows : f[i] \in Int
  BY LedgerAssumption
<1>2. SumFunctionOnSet(f, DOMAIN draft.rows) \in Int
  <2> HIDE DEF f
  <2> QED BY <1>1, SumIsInt
<1> QED BY <1>2 DEF AmountOn

\* What one entry put on an account between two days, and what one closing took.
Part(e, a, from, to) ==
  IF e \in Written /\ entry[e].says.date \in from .. to
  THEN Net(e) * AmountOn(entry[e].says, a) ELSE 0
Taken(c, a, from, to) ==
  IF c \in Shut /\ closed[c].date \in from .. to THEN closed[c].moved[a] ELSE 0

LEMMA PartsAreInts ==
  ASSUME IInv, Counted, NEW a \in ProfitAndLoss, NEW from, NEW to
  PROVE  /\ \A e \in Entries : Part(e, a, from, to) \in Int
         /\ \A c \in Closings : Taken(c, a, from, to) \in Int
<1>1. ASSUME NEW e \in Entries PROVE Part(e, a, from, to) \in Int
  <2>1. e \in Written => entry[e].says \in Drafts
    BY DEF IInv, Shapes, Written
  <2>2. Net(e) \in Int
    BY DEF Counted, Net
  <2>3. e \in Written => Net(e) * AmountOn(entry[e].says, a) \in Int
    <3> DEFINE amount == AmountOn(entry[e].says, a)
    <3>1. e \in Written => amount \in Int
      BY <2>1, AmountIsInt
    <3> HIDE DEF amount
    <3>2. e \in Written => Net(e) * amount \in Int
      BY <2>2, <3>1
    <3> QED BY <3>2 DEF amount
  <2> QED BY <2>3 DEF Part
<1>2. ASSUME NEW c \in Closings PROVE Taken(c, a, from, to) \in Int
  BY DEF Counted, Taken
<1> QED BY <1>1, <1>2

LEMMA BookedMoved ==
  ASSUME IInv, Counted, NEW a \in ProfitAndLoss, NEW day
  PROVE  /\ Booked(a, 0, day) = SumFunctionOnSet([e \in Entries |-> Part(e, a, 0, day)], Entries)
         /\ Moved(a, 0, day) = SumFunctionOnSet([c \in Closings |-> Taken(c, a, 0, day)], Closings)
         /\ Booked(a, 0, day) \in Int /\ Moved(a, 0, day) \in Int
<1>1. /\ Booked(a, 0, day) = SumFunctionOnSet([e \in Entries |-> Part(e, a, 0, day)], Entries)
      /\ Moved(a, 0, day) = SumFunctionOnSet([c \in Closings |-> Taken(c, a, 0, day)], Closings)
  BY DEF Booked, Moved, Part, Taken
<1> DEFINE f == [e \in Entries |-> Part(e, a, 0, day)]
           g == [c \in Closings |-> Taken(c, a, 0, day)]
<1>2. (\A e \in Entries : f[e] \in Int) /\ (\A c \in Closings : g[c] \in Int)
  BY PartsAreInts
<1>3. SumFunctionOnSet(f, Entries) \in Int /\ SumFunctionOnSet(g, Closings) \in Int
  <2> HIDE DEF f, g
  <2> QED BY <1>2, SumIsInt, LedgerAssumption
<1> QED BY <1>1, <1>3

\* A step leaves a balance alone when it leaves each part of it alone.
LEMMA SameBalance ==
  ASSUME IInv, Counted, NEW a \in ProfitAndLoss, NEW day,
         \A e \in Entries : Part(e, a, 0, day)' = Part(e, a, 0, day),
         \A c \in Closings : Taken(c, a, 0, day)' = Taken(c, a, 0, day),
         IInv', Counted'
  PROVE  Balance(a, day)' = Balance(a, day)
<1>1. [e \in Entries |-> Part(e, a, 0, day)]' = [e \in Entries |-> Part(e, a, 0, day)]
  OBVIOUS
<1>2. [c \in Closings |-> Taken(c, a, 0, day)]' = [c \in Closings |-> Taken(c, a, 0, day)]
  OBVIOUS
<1>3. /\ Booked(a, 0, day) = SumFunctionOnSet([e \in Entries |-> Part(e, a, 0, day)], Entries)
      /\ Moved(a, 0, day) = SumFunctionOnSet([c \in Closings |-> Taken(c, a, 0, day)], Closings)
  BY BookedMoved
<1>4. /\ Booked(a, 0, day)' = SumFunctionOnSet([e \in Entries |-> Part(e, a, 0, day)], Entries)'
      /\ Moved(a, 0, day)' = SumFunctionOnSet([c \in Closings |-> Taken(c, a, 0, day)], Closings)'
  BY DEF Booked, Moved, Part, Taken
<1> QED BY <1>3, <1>4 DEF Balance

-----------------------------------------------------------------------------
(* Each action keeps the sums. *)

LEMMA InitJInv == GLInit => JInv
<1> SUFFICES ASSUME GLInit PROVE JInv
  OBVIOUS
<1>0. IInv
  BY InitIInv
<1>1. Counted
  BY LedgerAssumption DEF GLInit, Counted, Doing, Closing, Shut, Stages, NoRequest, Request
<1>2. Untouched
  BY DEF GLInit, Untouched, Doing, NoRequest, Request
<1>3. Carried
  BY DEF GLInit, Carried, Closing, Doing, NoRequest, Request
<1>4. ASSUME NEW a \in ProfitAndLoss PROVE Balance(a, frozen) = 0
  <2> DEFINE f == [e \in Entries |-> Part(e, a, 0, 0)]
             g == [c \in Closings |-> Taken(c, a, 0, 0)]
  <2>1. (\A e \in Entries : f[e] = 0) /\ (\A c \in Closings : g[c] = 0)
    BY DEF GLInit, Part, Taken, Written, Shut
  <2>2. SumFunctionOnSet(f, Entries) = 0 /\ SumFunctionOnSet(g, Closings) = 0
    <3> HIDE DEF f, g
    <3> QED BY <2>1, SumOfZeros, LedgerAssumption
  <2>3. Booked(a, 0, 0) = 0 /\ Moved(a, 0, 0) = 0
    BY <1>0, <1>1, <2>2, BookedMoved
  <2> QED BY <2>3 DEF GLInit, Balance
<1> QED BY <1>1, <1>2, <1>3, <1>4 DEF JInv, ClosedIsEmpty

\* A step that writes nothing into the ledger and starts no request keeps every
\* balance, and what the desks carry.
LEMMA CreateKeepsSums ==
  ASSUME IInv, JInv, IInv', NEW e \in Entries, NEW draft \in Drafts, CreateJournalEntry(e, draft)
  PROVE  JInv'
<1>1. /\ entry[e].stage = "none" /\ entry'[e] = [stage |-> "draft", says |-> draft]
      /\ \A x \in Entries \ {e} : entry'[x] = entry[x]
      /\ UNCHANGED <<postings, closed, frozen, budget, counter, desk, disturbed>>
  BY DEF CreateJournalEntry, IInv, Shapes
<1>2. postings[e].made = 0 /\ postings[e].mirrored = 0
  BY <1>1 DEF JInv, Counted
<1>3. Counted'
  BY <1>1 DEF JInv, Counted, Doing, Closing, Shut
<1>4. Untouched'
  <2>1. \A w \in Clerks : Writing(w) => desk[w].on # e
    BY <1>1 DEF IInv, Checked
  <2> QED BY <1>1, <1>2 DEF JInv, Untouched, Writing, Doing, IInv, Checked
<1>5. ASSUME NEW a \in ProfitAndLoss, NEW day PROVE Balance(a, day)' = Balance(a, day)
  <2>1. Part(e, a, 0, day) = 0 /\ Part(e, a, 0, day)' = 0
    <3>1. entry[e].says \in Drafts \/ e \notin Written
      BY DEF IInv, Shapes, Written
    <3>2. Net(e) = 0 /\ Net(e)' = 0
      BY <1>1, <1>2 DEF Net
    <3>3. \A n \in Int : 0 * n = 0
      OBVIOUS
    <3>4. /\ entry[e].says \in Drafts => AmountOn(entry[e].says, a) \in Int
          /\ AmountOn(draft, a) \in Int
      BY AmountIsInt
    <3>5. Part(e, a, 0, day) = 0
      BY <3>1, <3>2, <3>3, <3>4 DEF Part
    <3>6. Part(e, a, 0, day)' = 0
      <4>1. entry'[e].says = draft
        BY <1>1
      <4> QED BY <4>1, <3>2, <3>3, <3>4 DEF Part
    <3> QED BY <3>5, <3>6
  <2>2. \A x \in Entries \ {e} : Part(x, a, 0, day)' = Part(x, a, 0, day)
    BY <1>1 DEF Part, Written, Net
  <2>3. \A c \in Closings : Taken(c, a, 0, day)' = Taken(c, a, 0, day)
    BY <1>1 DEF Taken, Shut
  <2> QED BY <2>1, <2>2, <2>3, <1>3, SameBalance DEF JInv
<1>6. Carried' /\ ClosedIsEmpty'
  BY <1>1, <1>5 DEF JInv, Carried, ClosedIsEmpty, Closing, Doing
<1> QED BY <1>3, <1>4, <1>6 DEF JInv

LEMMA QuietBalance ==
  ASSUME UNCHANGED <<entry, postings, closed>>, NEW a, NEW day
  PROVE  Balance(a, day)' = Balance(a, day)
BY DEF Balance, Booked, Moved, Written, Shut, Net

LEMMA CheckKeepsSums ==
  ASSUME IInv, JInv, NEW w \in Clerks, NEW e \in Entries, CheckSubmit(w, e) \/ CheckCancel(w, e)
  PROVE  JInv'
<1>1. PICK op, moved :
        /\ desk' = [desk EXCEPT ![w] = [op |-> op, on |-> e, date |-> 0, moved |-> moved, late |-> {}]]
        /\ \/ op = "submit" /\ entry[e].stage = "draft"
           \/ op = "cancel" /\ entry[e].stage = "submitted" /\ moved = postings[e].made
  BY DEF Request, CheckSubmit, CheckCancel
<1>2. /\ \A x \in Clerks \ {w} : desk'[x] = desk[x]
      /\ desk'[w] = [op |-> op, on |-> e, date |-> 0, moved |-> moved, late |-> {}]
      /\ Busy(w) = FALSE
      /\ UNCHANGED <<entry, postings, closed, frozen, budget, counter, disturbed>>
  BY <1>1 DEF Shapes, IInv, CheckSubmit, CheckCancel
<1> USE DEF Doing, Busy, Closing, Writing, NoRequest, Request
<1>3. Counted'
  BY <1>1, <1>2 DEF JInv, Counted, Shut
<1>4. Untouched'
  BY <1>1, <1>2 DEF JInv, Untouched
<1>5. Carried' /\ ClosedIsEmpty'
  <2>1. \A a, day : Balance(a, day)' = Balance(a, day)
    BY <1>2, QuietBalance
  <2> QED BY <1>1, <1>2, <2>1 DEF JInv, Carried, ClosedIsEmpty
<1> QED BY <1>3, <1>4, <1>5 DEF JInv

LEMMA ClosingBeginKeepsSums ==
  ASSUME IInv, JInv, NEW w \in Clerks, NEW c \in Closings, NEW d \in Days, BeginClosing(w, c, d)
  PROVE  JInv'
<1> DEFINE moved == [a \in ProfitAndLoss |-> Balance(a, d)]
<1>1. /\ \A x \in Clerks \ {w} : desk'[x] = desk[x]
      /\ desk'[w] = [op |-> "name", on |-> c, date |-> d, moved |-> moved, late |-> {}]
      /\ Busy(w) = FALSE
      /\ UNCHANGED <<entry, postings, closed, frozen, budget, counter, disturbed>>
  BY DEF Shapes, IInv, Request, BeginClosing
<1>2. moved \in [ProfitAndLoss -> Int]
  <2>1. ASSUME NEW a \in ProfitAndLoss PROVE Balance(a, d) \in Int
    <3>1. Booked(a, 0, d) \in Int /\ Moved(a, 0, d) \in Int
      BY BookedMoved DEF JInv
    <3> QED BY <3>1 DEF Balance
  <2> QED BY <2>1
<1>3. \A a \in ProfitAndLoss : moved[a] = Balance(a, d)
  OBVIOUS
<1> HIDE DEF moved
<1> USE DEF Doing, Busy, Closing, Writing, NoRequest, Request
<1>4. Counted'
  BY <1>1, <1>2 DEF JInv, Counted, Shut
<1>5. Untouched'
  BY <1>1 DEF JInv, Untouched
<1>6. Carried' /\ ClosedIsEmpty'
  <2>1. \A a, day : Balance(a, day)' = Balance(a, day)
    BY <1>1, QuietBalance
  <2> QED BY <1>1, <1>3, <2>1 DEF JInv, Carried, ClosedIsEmpty
<1> QED BY <1>4, <1>5, <1>6 DEF JInv

LEMMA ClosingNameKeepsSums ==
  ASSUME IInv, JInv, NEW w \in Clerks, NameClosing(w)
  PROVE  JInv'
<1>1. /\ \A x \in Clerks \ {w} : desk'[x] = desk[x]
      /\ desk'[w] = [op |-> "close", on |-> desk[w].on, date |-> desk[w].date,
                     moved |-> desk[w].moved, late |-> desk[w].late]
      /\ Doing(w, "name") /\ counter' = w
      /\ UNCHANGED <<entry, postings, closed, frozen, budget, disturbed>>
  BY DEF NameClosing, Shapes, IInv
<1> USE DEF Doing, Busy, Closing, Writing, NoRequest, Request
<1>3. Counted'
  BY <1>1 DEF JInv, Counted, Shut
<1>4. Untouched'
  BY <1>1 DEF JInv, Untouched
<1>5. Carried' /\ ClosedIsEmpty'
  <2>1. \A a, day : Balance(a, day)' = Balance(a, day)
    BY <1>1, QuietBalance
  <2> QED BY <1>1, <2>1 DEF JInv, Carried, ClosedIsEmpty
<1> QED BY <1>3, <1>4, <1>5 DEF JInv

LEMMA AbandonKeepsSums ==
  ASSUME IInv, JInv, NEW w \in Clerks, Abandon(w)
  PROVE  JInv'
<1>1. /\ \A x \in Clerks \ {w} : desk'[x] = desk[x]
      /\ desk'[w] = NoRequest
      /\ UNCHANGED <<entry, postings, closed, frozen, budget, disturbed>>
      /\ counter' = IF counter = w THEN Nobody ELSE counter
  BY DEF Abandon, Shapes, IInv
<1> USE DEF Doing, Busy, Closing, Writing, NoRequest, Request
<1>2. Counted'
  BY <1>1, LedgerAssumption DEF JInv, Counted, Shut
<1>3. Untouched'
  BY <1>1 DEF JInv, Untouched
<1>4. Carried' /\ ClosedIsEmpty'
  <2>1. \A a, day : Balance(a, day)' = Balance(a, day)
    BY <1>1, QuietBalance
  <2> QED BY <1>1, <2>1 DEF JInv, Carried, ClosedIsEmpty
<1> QED BY <1>2, <1>3, <1>4 DEF JInv

LEMMA BudgetKeepsSums ==
  ASSUME IInv, JInv, CreateBudget \/ SubmitBudget \/ CancelBudget
  PROVE  JInv'
<1>1. /\ UNCHANGED <<entry, postings, closed, frozen, counter, disturbed>> /\ budget' \in Stages
      /\ \/ \A w \in Clerks : desk'[w] = desk[w]
         \/ /\ \A x \in Clerks : Busy(x) =>
                 desk'[x] = [op |-> desk[x].op, on |-> desk[x].on, date |-> desk[x].date,
                             moved |-> desk[x].moved, late |-> desk[x].late \cup {"budget"}]
            /\ \A x \in Clerks : ~Busy(x) => desk'[x] = NoRequest
  BY TellDesk, LedgerAssumption DEF CreateBudget, SubmitBudget, CancelBudget, Stages, IInv
<1>2. ASSUME NEW x \in Clerks
      PROVE  /\ desk'[x].op = desk[x].op /\ (Busy(x) => desk'[x].on = desk[x].on)
             /\ Busy(x) => desk'[x].date = desk[x].date /\ desk'[x].moved = desk[x].moved
             /\ Busy(x) => desk'[x].late = desk[x].late \/ desk'[x].late = desk[x].late \cup {"budget"}
  <2>1. CASE desk'[x] = desk[x]
    BY <2>1
  <2>2. CASE ~Busy(x) /\ desk'[x] = NoRequest
    BY <2>2 DEF Busy, NoRequest, Request
  <2>3. CASE Busy(x) /\ desk'[x] = [op |-> desk[x].op, on |-> desk[x].on, date |-> desk[x].date,
                          moved |-> desk[x].moved, late |-> desk[x].late \cup {"budget"}]
    BY <2>3
  <2> QED BY <1>1, <2>2, <2>3
<1>3. \A x \in Clerks : Closing(x) \/ Writing(x) => Busy(x)
  BY DEF Closing, Writing, Doing, Busy
<1> USE DEF Doing, Closing, Writing, NoRequest, Request
<1>4. Counted'
  BY <1>1, <1>2 DEF JInv, Counted, Shut
<1>5. Untouched'
  BY <1>1, <1>2 DEF JInv, Untouched
<1>6. Carried' /\ ClosedIsEmpty'
  <2>1. \A a, day : Balance(a, day)' = Balance(a, day)
    BY <1>1, QuietBalance
  <2> QED BY <1>1, <1>2, <2>1 DEF JInv, Carried, ClosedIsEmpty
<1> QED BY <1>4, <1>5, <1>6 DEF JInv

\* What the desk of a clerk still at work keeps when another commits.
LEMMA TellStep ==
  ASSUME Shapes, NEW w, NEW news, Tell(w, news), NEW x \in Clerks, Busy(x)'
  PROVE  /\ x # w /\ Busy(x) /\ desk'[x].op = desk[x].op /\ desk'[x].on = desk[x].on
         /\ desk'[x].date = desk[x].date /\ desk'[x].moved = desk[x].moved
         /\ desk'[x].late = desk[x].late \cup news
<1>1. desk'[x] # NoRequest
  BY DEF Busy, NoRequest, Request
<1>2. x # w /\ Busy(x)
  BY <1>1, TellDesk
<1>3. desk'[x] = [op |-> desk[x].op, on |-> desk[x].on, date |-> desk[x].date,
                  moved |-> desk[x].moved, late |-> desk[x].late \cup news]
  BY <1>2, TellDesk
<1> QED BY <1>2, <1>3

LEMMA TellKinds ==
  ASSUME Shapes, NEW w, NEW news, Tell(w, news), NEW x \in Clerks
  PROVE  /\ Closing(x)' => Busy(x)' /\ Closing(x)
         /\ Writing(x)' => Busy(x)' /\ Writing(x)
         /\ \A op \in {"name", "close", "submit", "cancel"} : Doing(x, op)' => Busy(x)' /\ Doing(x, op)
<1>1. /\ Closing(x)' \/ Writing(x)' => Busy(x)'
      /\ \A op \in {"name", "close", "submit", "cancel"} : Doing(x, op)' => Busy(x)'
  BY DEF Closing, Writing, Doing, Busy
<1>2. Busy(x)' => desk'[x].op = desk[x].op
  BY TellStep
<1> QED BY <1>1, <1>2 DEF Closing, Writing, Doing

LEMMA EntryCommitKeepsSums ==
  ASSUME IInv, JInv, IInv', NEW w \in Clerks, CommitSubmit(w) \/ CommitCancel(w)
  PROVE  JInv'
<1>0. Writing(w) /\ desk[w].on \in Entries
  BY DEF IInv, CommitSubmit, CommitCancel, Writing, Checked
<1>a. PICK e \in Entries : e = desk[w].on
  BY <1>0
<1>1. /\ Writing(w) /\ e \in Entries /\ Tell(w, {e}) /\ e = desk[w].on
      /\ UNCHANGED <<closed, frozen, budget, counter>>
      /\ disturbed' = Spoilt(w)
  BY <1>0, <1>a DEF CommitSubmit, CommitCancel
<1>2. \A x \in Clerks :
        /\ Busy(x)' => /\ x # w /\ desk'[x].op = desk[x].op /\ desk'[x].on = desk[x].on
                       /\ desk'[x].date = desk[x].date /\ desk'[x].moved = desk[x].moved
                       /\ desk'[x].late = desk[x].late \cup {e}
        /\ Closing(x)' => Busy(x)' /\ Closing(x)
        /\ Writing(x)' => Busy(x)' /\ Writing(x)
        /\ Doing(x, "cancel")' => Busy(x)' /\ Doing(x, "cancel")
  BY <1>1, TellStep, TellKinds DEF IInv
<1>b. ASSUME NEW x \in Clerks, Doing(x, "close"), x # w
      PROVE  Doing(x, "close")'
  <2>1. Busy(x)
    BY <1>b DEF Doing, Busy
  <2>2. desk'[x] = [op |-> desk[x].op, on |-> desk[x].on, date |-> desk[x].date,
                    moved |-> desk[x].moved, late |-> desk[x].late \cup {e}]
    BY <1>1, <1>b, <2>1, TellDesk DEF IInv
  <2> QED BY <1>b, <2>2 DEF Doing
<1>3. /\ \A x \in Entries \ {e} : entry'[x] = entry[x] /\ postings'[x] = postings[x]
      /\ entry'[e].says = entry[e].says /\ entry[e].says \in Drafts
      /\ \/ /\ Doing(w, "submit") /\ entry'[e].stage = "submitted"
            /\ postings'[e] = [made |-> postings[e].made + 1, mirrored |-> postings[e].mirrored]
         \/ /\ Doing(w, "cancel") /\ entry'[e].stage = "cancelled"
            /\ postings'[e] = [made |-> postings[e].made,
                               mirrored |-> postings[e].mirrored + desk[w].moved]
      /\ postings' = [x \in Entries |-> postings'[x]]
  <2>1. postings \in [Entries -> [made : Nat, mirrored : Nat]]
    BY DEF JInv, Counted
  <2>2. entry \in [Entries -> [stage : Stages, says : Drafts \cup {Nobody}]] /\ entry[e].says \in Drafts
    BY <1>1 DEF IInv, Shapes, Checked
  <2>3. CASE CommitSubmit(w)
    BY <2>1, <2>2, <2>3, <1>1 DEF CommitSubmit
  <2>4. CASE CommitCancel(w)
    <3>1. /\ \A x \in Entries \ {e} : entry'[x] = entry[x]
          /\ entry'[e].says = entry[e].says /\ entry'[e].stage = "cancelled"
      BY <2>2, <2>4, <1>1 DEF CommitCancel
    <3>2. Doing(w, "cancel")
      BY <2>4 DEF CommitCancel
    <3>3. postings' = [postings EXCEPT ![e].mirrored = @ + desk[w].moved]
      BY <2>4, <1>1 DEF CommitCancel
    <3>4. /\ \A x \in Entries \ {e} : postings'[x] = postings[x]
          /\ postings'[e] = [made |-> postings[e].made,
                             mirrored |-> postings[e].mirrored + desk[w].moved]
          /\ postings' = [x \in Entries |-> postings'[x]]
      BY <2>1, <3>3, <1>1
    <3> QED BY <2>2, <3>1, <3>2, <3>4
  <2> QED BY <2>3, <2>4, <1>1
<1>4. /\ disturbed \subseteq disturbed'
      /\ e \notin disturbed' => e \notin disturbed /\ e \notin desk[w].late
      /\ "books" \notin disturbed' => "books" \notin disturbed /\ "closing" \notin desk[w].late
      /\ disturbed' \subseteq Entries \cup {"books"}
  BY <1>1 DEF Spoilt, JInv, Counted
<1>5. Counted'
  <2>1. /\ postings'[e].made \in Nat /\ postings'[e].mirrored \in Nat
        /\ postings'[e] = [made |-> postings'[e].made, mirrored |-> postings'[e].mirrored]
    BY <1>3 DEF JInv, Counted
  <2>2. postings' \in [Entries -> [made : Nat, mirrored : Nat]]
    BY <1>3 DEF JInv, Counted
  <2>3. \A x \in Entries : entry'[x].stage = "none" => postings'[x].made = 0 /\ postings'[x].mirrored = 0
    BY <1>3 DEF JInv, Counted
  <2>4. \A x \in Clerks :
          /\ Doing(x, "cancel")' => desk'[x].moved \in Nat
          /\ Closing(x)' => desk'[x].moved \in [ProfitAndLoss -> Int]
          /\ counter' = x => Doing(x, "close")'
    <3>1. ~Doing(w, "close")
      BY <1>1 DEF Writing, Doing
    <3> QED BY <1>1, <1>2, <1>b, <3>1 DEF JInv, Counted
  <2> QED BY <1>1, <1>4, <2>2, <2>3, <2>4 DEF JInv, Counted, Shut
<1>6. Untouched'
  <2>1. \A x \in Entries \ disturbed' :
          /\ entry'[x].stage = "draft" => postings'[x].made = 0 /\ postings'[x].mirrored = 0
          /\ entry'[x].stage = "submitted" => postings'[x].mirrored = 0
          /\ entry'[x].stage = "cancelled" => postings'[x].made = postings'[x].mirrored
    <3>1. ASSUME e \notin disturbed'
          PROVE  \/ entry'[e].stage = "submitted" /\ postings'[e].mirrored = 0
                 \/ entry'[e].stage = "cancelled" /\ postings'[e].made = postings'[e].mirrored
      BY <1>1, <1>3, <1>4, <3>1 DEF JInv, Untouched, Counted
    <3> QED BY <1>3, <1>4, <3>1 DEF JInv, Untouched
  <2>2. \A x \in Clerks : Writing(x)' /\ desk'[x].on \notin desk'[x].late =>
          /\ Writing(x) /\ desk'[x].on = desk[x].on /\ desk[x].on \notin desk[x].late
          /\ desk[x].on # e /\ desk'[x].moved = desk[x].moved /\ desk'[x].op = desk[x].op
    BY <1>2
  <2>3. \A x \in Clerks : Writing(x) => desk[x].on \in Entries
    BY DEF IInv, Checked
  <2> QED BY <1>3, <2>1, <2>2, <2>3 DEF JInv, Untouched, Doing
<1>7. \A a \in ProfitAndLoss : \A day :
        ~(entry[e].says.date \in 0 .. day) => Balance(a, day)' = Balance(a, day)
  <2> SUFFICES ASSUME NEW a \in ProfitAndLoss, NEW day, ~(entry[e].says.date \in 0 .. day)
               PROVE  Balance(a, day)' = Balance(a, day)
    OBVIOUS
  <2>1. Part(e, a, 0, day) = 0 /\ Part(e, a, 0, day)' = 0
    BY <1>3 DEF Part
  <2>2. \A x \in Entries \ {e} : Part(x, a, 0, day)' = Part(x, a, 0, day)
    BY <1>3 DEF Part, Written, Net
  <2>3. \A c \in Closings : Taken(c, a, 0, day)' = Taken(c, a, 0, day)
    BY <1>1 DEF Taken, Shut
  <2> QED BY <1>5, <2>1, <2>2, <2>3, SameBalance DEF JInv
<1>8. Carried'
  <2>1. e # "budget"
    BY LedgerAssumption
  <2>2. \A x \in Clerks : Closing(x)' => ~(desk'[x].late \subseteq {"budget"})
    BY <1>2, <2>1
  <2> QED BY <2>2 DEF Carried
<1>9. ClosedIsEmpty'
  <2> SUFFICES ASSUME "books" \notin disturbed', NEW a \in ProfitAndLoss
               PROVE  Balance(a, frozen)' = 0
    BY DEF ClosedIsEmpty
  <2>1. entry[e].says.date > frozen
    BY <1>1, <1>4 DEF IInv, Checked
  <2>2. ~(entry[e].says.date \in 0 .. frozen)
    BY <2>1 DEF IInv, Shapes
  <2>3. Balance(a, frozen) = 0
    BY <1>4 DEF JInv, ClosedIsEmpty
  <2> DEFINE day == frozen
  <2>4. Balance(a, day)' = Balance(a, frozen)
    <3>1. \A d : ~(entry[e].says.date \in 0 .. d) => Balance(a, d)' = Balance(a, d)
      BY <1>7
    <3>2. frozen' = frozen
      BY <1>1
    <3> QED BY <2>2, <3>1, <3>2
  <2> QED BY <2>3, <2>4
<1> QED BY <1>5, <1>6, <1>8, <1>9 DEF JInv

LEMMA ClosingCommitKeepsSums ==
  ASSUME IInv, JInv, IInv', NEW w \in Clerks, CommitClosing(w)
  PROVE  JInv'
<1>0. desk[w].on \in Closings /\ desk[w].date \in Days
  BY DEF IInv, CommitClosing, Fresh, Closing
<1>a. PICK c \in Closings, day \in Days : c = desk[w].on /\ day = desk[w].date
  BY <1>0
<1>1. /\ Doing(w, "close") /\ Closing(w) /\ Tell(w, {"closing"}) /\ counter = w /\ counter' = Nobody
      /\ c \in Closings /\ c \notin Shut /\ day \in Days
      /\ frozen' = day /\ UNCHANGED <<entry, postings, budget>>
      /\ disturbed' = disturbed \cup (IF desk[w].late \ {"budget"} # {} THEN {"books"} ELSE {})
  BY <1>a DEF IInv, CommitClosing, Numbered, Fresh, Closing
<1>2. /\ closed'[c] = [date |-> day, moved |-> desk[w].moved]
      /\ \A x \in Closings \ {c} : closed'[x] = closed[x]
  BY <1>a DEF IInv, CommitClosing, Shapes
<1>3. \A x \in Clerks :
        /\ Busy(x)' => /\ x # w /\ desk'[x].op = desk[x].op /\ desk'[x].on = desk[x].on
                       /\ desk'[x].date = desk[x].date /\ desk'[x].moved = desk[x].moved
                       /\ desk'[x].late = desk[x].late \cup {"closing"}
        /\ Closing(x)' => Busy(x)' /\ Closing(x)
        /\ Writing(x)' => Busy(x)' /\ Writing(x)
        /\ Doing(x, "cancel")' => Busy(x)' /\ Doing(x, "cancel")
  BY <1>1, TellStep, TellKinds DEF IInv
<1>4. day # 0 /\ day \in Nat /\ desk[w].moved \in [ProfitAndLoss -> Int]
  BY <1>1, LedgerAssumption DEF JInv, Counted
<1>5. Counted'
  <2>1. \A x \in Clerks :
          /\ Doing(x, "cancel")' => desk'[x].moved \in Nat
          /\ Closing(x)' => desk'[x].moved \in [ProfitAndLoss -> Int]
          /\ counter' # x
    BY <1>1, <1>3, LedgerAssumption DEF JInv, Counted
  <2>2. \A x \in Shut' : closed'[x].date \in Days /\ closed'[x].moved \in [ProfitAndLoss -> Int]
    BY <1>2, <1>4 DEF JInv, Counted, Shut
  <2> QED BY <1>1, <2>1, <2>2 DEF JInv, Counted
<1>6. Untouched'
  <2>1. \A x \in Clerks : Writing(x)' /\ desk'[x].on \notin desk'[x].late =>
          /\ Writing(x) /\ desk'[x].on = desk[x].on /\ desk[x].on \notin desk[x].late
          /\ desk'[x].moved = desk[x].moved /\ desk'[x].op = desk[x].op
    BY <1>3
  <2> QED BY <1>1, <2>1 DEF JInv, Untouched, Doing
<1>7. Carried'
  <2>1. \A x \in Clerks : Closing(x)' => ~(desk'[x].late \subseteq {"budget"})
    BY <1>3
  <2> QED BY <2>1 DEF Carried
<1>8. ClosedIsEmpty'
  <2> SUFFICES ASSUME "books" \notin disturbed', NEW a \in ProfitAndLoss
               PROVE  Balance(a, frozen)' = 0
    BY DEF ClosedIsEmpty
  <2>1. desk[w].moved[a] = Balance(a, day)
    BY <1>1, <1>a DEF JInv, Carried
  <2> DEFINE f == [x \in Closings |-> Taken(x, a, 0, day)]
             g == [x \in Closings |-> Taken(x, a, 0, day)']
  <2>2. /\ \A x \in Closings : f[x] \in Int /\ g[x] \in Int
        /\ \A x \in Closings \ {c} : g[x] = f[x]
        /\ f[c] = 0 /\ g[c] = desk[w].moved[a]
    <3>1. \A x \in Closings : Taken(x, a, 0, day) \in Int
      BY PartsAreInts DEF JInv
    <3>2. \A x \in Closings \ {c} : Taken(x, a, 0, day)' = Taken(x, a, 0, day)
      BY <1>2 DEF Taken, Shut
    <3>3. Taken(c, a, 0, day) = 0
      BY <1>1 DEF Taken
    <3>4. Taken(c, a, 0, day)' = desk[w].moved[a]
      BY <1>2, <1>4 DEF Taken, Shut
    <3>5. desk[w].moved[a] \in Int
      BY <1>4
    <3> QED BY <3>1, <3>2, <3>3, <3>4, <3>5
  <2>3. SumFunctionOnSet(g, Closings) = SumFunctionOnSet(f, Closings) + g[c] - f[c]
    <3> HIDE DEF f, g
    <3>1. IsFiniteSet(Closings) /\ IsFiniteSet(Closings \ {c}) /\ c \in Closings
      BY <1>1, FS_RemoveElement, LedgerAssumption
    <3>2. SumFunctionOnSet(g, Closings) = g[c] + SumFunctionOnSet(g, Closings \ {c})
      BY <2>2, <3>1, SumWithout
    <3>3. SumFunctionOnSet(f, Closings) = f[c] + SumFunctionOnSet(f, Closings \ {c})
      BY <2>2, <3>1, SumWithout
    <3>4. SumFunctionOnSet(g, Closings \ {c}) = SumFunctionOnSet(f, Closings \ {c})
      BY <2>2, <3>1, SumOfSame
    <3>5. SumFunctionOnSet(f, Closings \ {c}) \in Int
      BY <2>2, <3>1, SumIsInt
    <3> QED BY <2>2, <3>1, <3>2, <3>3, <3>4, <3>5
  <2>4. /\ Moved(a, 0, day) = SumFunctionOnSet(f, Closings)
        /\ Moved(a, 0, day) \in Int /\ Booked(a, 0, day) \in Int
    BY BookedMoved DEF JInv
  <2>5. Moved(a, 0, frozen)' = SumFunctionOnSet(g, Closings)
    BY <1>1 DEF Moved, Taken
  <2>6. Booked(a, 0, frozen)' = Booked(a, 0, day)
    BY <1>1 DEF Booked, Written, Net
  <2>7. Balance(a, frozen)' = Booked(a, 0, frozen)' - Moved(a, 0, frozen)'
    BY DEF Balance
  <2>8. desk[w].moved[a] = Booked(a, 0, day) - Moved(a, 0, day)
    BY <2>1 DEF Balance
  <2> HIDE DEF f, g
  <2> QED BY <2>2, <2>3, <2>4, <2>5, <2>6, <2>7, <2>8
<1> QED BY <1>5, <1>6, <1>7, <1>8 DEF JInv

LEMMA StepKeepsSums == IInv /\ IInv' /\ JInv /\ [GLNext]_gvars => JInv'
<1> SUFFICES ASSUME IInv, IInv', JInv, [GLNext]_gvars PROVE JInv'
  OBVIOUS
<1>1. CASE UNCHANGED gvars
  <2>1. \A a, day : Balance(a, day)' = Balance(a, day)
    BY <1>1, QuietBalance DEF gvars
  <2> QED BY <1>1, <2>1 DEF gvars, JInv, Counted, Untouched, Carried, ClosedIsEmpty, Shut, Doing,
       Closing, Writing
<1>2. CASE GLNext
  BY <1>2, CreateKeepsSums, CheckKeepsSums, EntryCommitKeepsSums, ClosingBeginKeepsSums,
     ClosingNameKeepsSums, ClosingCommitKeepsSums, AbandonKeepsSums, BudgetKeepsSums
     DEF GLNext
<1> QED BY <1>1, <1>2

\* The ledger is sound at every moment: closed profit and loss accounts stay
\* empty up to the freeze date and cancelled entries net out, unless a request
\* wrote on facts another commit had changed (period_closing.py, journal_entry.py).
THEOREM LedgerSound == GLSpec => []LedgerIsSound
<1>1. IInv /\ JInv => LedgerIsSound
  <2> SUFFICES ASSUME IInv, JInv PROVE LedgerIsSound
    OBVIOUS
  <2>1. GLTypeOK
    BY DEF IInv, JInv, Counted, Shapes, Numbered, GLTypeOK
  <2>2. CancelledNetsOut
    BY DEF JInv, Counted, Untouched, CancelledNetsOut, Net
  <2> QED BY <2>1, <2>2 DEF JInv, LedgerIsSound
<1>2. GLSpec => []JInv
  BY AlwaysIInv, InitJInv, StepKeepsSums, PTL DEF GLSpec
<1> QED BY <1>1, <1>2, AlwaysIInv, PTL

-----------------------------------------------------------------------------
(* The budget control.                                                      *)

\* A year is the days between its first and its last.
LEMMA Greatest ==
  ASSUME NEW S \in SUBSET Nat, IsFiniteSet(S), S # {}
  PROVE  \E n \in S : \A m \in S : m <= n
<1> DEFINE P == {T \in SUBSET S : T # {} => \E n \in T : \A m \in T : m <= n}
<1>1. {} \in P
  OBVIOUS
<1>2. ASSUME NEW T \in P, NEW x \in S \ T PROVE T \cup {x} \in P
  <2>1. CASE T = {}
    BY <2>1
  <2>2. CASE T # {}
    <3>1. PICK n \in T : \A m \in T : m <= n
      BY <2>2
    <3>2. CASE x <= n
      BY <3>1, <3>2
    <3>3. CASE ~(x <= n)
      BY <3>1, <3>3
    <3> QED BY <3>2, <3>3
  <2> QED BY <2>1, <2>2
<1>3. P \in SUBSET SUBSET S
  OBVIOUS
<1>4. \A T \in P : \A x \in S \ T : T \cup {x} \in P
  BY <1>2
<1>5. SUBSET S = P
  <2> HIDE DEF P
  <2> QED BY <1>1, <1>3, <1>4, ElementInduction
<1> QED BY <1>5

LEMMA YearIsItsDays ==
  ASSUME NEW d \in Days, NEW day \in Days, day \in YearStart(d) .. YearEnd(d)
  PROVE  YearOf[day] = YearOf[d]
<1> DEFINE S == {x \in Days : YearOf[x] = YearOf[d]}
<1>1. S \in SUBSET Nat /\ IsFiniteSet(S) /\ S # {}
  BY FS_Subset, LedgerAssumption
<1>2. PICK m \in S : \A x \in S : m <= x
  BY <1>1, LeastNumber
<1>3. PICK n \in S : \A x \in S : x <= n
  BY <1>1, Greatest
<1>4. Min(S) \in S /\ Max(S) \in S
  <2> HIDE DEF S
  <2>1. Min(S) \in S
    BY <1>1, <1>2 DEF Min
  <2>2. Max(S) \in S
    BY <1>1, <1>3 DEF Max
  <2> QED BY <2>1, <2>2
<1>5. YearStart(d) = Min(S) /\ YearEnd(d) = Max(S)
  BY DEF YearStart, YearEnd
<1> HIDE DEF S
<1>6. YearStart(d) \in Days /\ YearEnd(d) \in Days
      /\ YearOf[YearStart(d)] = YearOf[d] /\ YearOf[YearEnd(d)] = YearOf[d]
  BY <1>4, <1>5 DEF S
<1>7. YearStart(d) <= day /\ day <= YearEnd(d)
  BY <1>6, LedgerAssumption
<1>8. /\ YearOf[YearStart(d)] <= YearOf[day] /\ YearOf[day] <= YearOf[YearEnd(d)]
      /\ YearOf[day] \in Nat /\ YearOf[d] \in Nat
  BY <1>6, <1>7, LedgerAssumption
<1> QED BY <1>6, <1>8

LEMMA SameYear ==
  ASSUME NEW d \in Days, NEW day \in Days, YearOf[day] = YearOf[d]
  PROVE  YearStart(day) = YearStart(d) /\ YearEnd(day) = YearEnd(d)
BY DEF YearStart, YearEnd

LEMMA SpendIsSum ==
  ASSUME IInv, Counted, NEW a \in ProfitAndLoss, NEW d
  PROVE  /\ TrueSpend(a, d) = SumFunctionOnSet(
              [e \in Entries |-> Part(e, a, YearStart(d), YearEnd(d))], Entries)
         /\ TrueSpend(a, d) \in Int
<1> DEFINE f == [e \in Entries |-> Part(e, a, YearStart(d), YearEnd(d))]
<1>1. TrueSpend(a, d) = SumFunctionOnSet(f, Entries)
  BY DEF TrueSpend, Booked, Part
<1>2. \A e \in Entries : f[e] \in Int
  BY PartsAreInts
<1>3. SumFunctionOnSet(f, Entries) \in Int
  <2> HIDE DEF f
  <2> QED BY <1>2, SumIsInt, LedgerAssumption
<1> QED BY <1>1, <1>3

\* Spending stays the same if the part of every entry does.
LEMMA SameSpend ==
  ASSUME IInv, Counted, IInv', Counted', NEW a \in ProfitAndLoss, NEW d,
         \A e \in Entries : Part(e, a, YearStart(d), YearEnd(d))'
                            = Part(e, a, YearStart(d), YearEnd(d))
  PROVE  TrueSpend(a, d)' = TrueSpend(a, d)
<1>1. [e \in Entries |-> Part(e, a, YearStart(d), YearEnd(d))]'
      = [e \in Entries |-> Part(e, a, YearStart(d), YearEnd(d))]
  OBVIOUS
<1>2. TrueSpend(a, d)' = SumFunctionOnSet(
        [e \in Entries |-> Part(e, a, YearStart(d), YearEnd(d))], Entries)'
  BY DEF TrueSpend, Booked, Part, YearStart, YearEnd
<1> QED BY <1>1, <1>2, SpendIsSum

\* Only the two commits of an entry change what is spent.
LEMMA SpendMoves ==
  ASSUME IInv, Counted, IInv', Counted', NEW a \in ProfitAndLoss, NEW d, [GLNext]_gvars,
         \A w \in Clerks : ~CommitSubmit(w) /\ ~CommitCancel(w)
  PROVE  TrueSpend(a, d)' = TrueSpend(a, d)
<1>1. ASSUME NEW e \in Entries
      PROVE  Part(e, a, YearStart(d), YearEnd(d))' = Part(e, a, YearStart(d), YearEnd(d))
  <2>1. CASE UNCHANGED <<entry, postings>>
    BY <2>1 DEF Part, Written, Net, YearStart, YearEnd
  <2>2. ASSUME NEW x \in Entries, NEW draft \in Drafts, CreateJournalEntry(x, draft)
        PROVE  Part(e, a, YearStart(d), YearEnd(d))' = Part(e, a, YearStart(d), YearEnd(d))
    <3>1. CASE e # x
      <4>1. entry'[e] = entry[e] /\ postings' = postings
        BY <2>2, <3>1 DEF CreateJournalEntry, IInv, Shapes
      <4> QED BY <4>1 DEF Part, Written, Net, YearStart, YearEnd
    <3>2. CASE e = x
      <4>1. /\ postings'[e] = postings[e] /\ postings[e].made = 0 /\ postings[e].mirrored = 0
        BY <2>2, <3>2 DEF CreateJournalEntry, Counted
      <4>2. Net(e) = 0 /\ Net(e)' = 0
        BY <4>1 DEF Net
      <4>3. entry[e].says \in Drafts \cup {Nobody} /\ (entry[e].says)' \in Drafts \cup {Nobody}
        BY DEF IInv, Shapes
      <4>4. Part(e, a, YearStart(d), YearEnd(d)) = 0
        <5>1. e \in Written => AmountOn(entry[e].says, a) \in Int
          BY <4>3, AmountIsInt DEF Written
        <5> QED BY <4>2, <5>1 DEF Part
      <4>5. Part(e, a, YearStart(d), YearEnd(d))' = 0
        <5>1. e \in Written' => AmountOn((entry[e].says)', a) \in Int
          BY <4>3, AmountIsInt DEF Written
        <5> QED BY <4>2, <5>1 DEF Part, AmountOn
      <4> QED BY <4>4, <4>5
    <3> QED BY <3>1, <3>2
  <2> QED
    BY <2>1, <2>2 DEF GLNext, gvars, CheckSubmit, CheckCancel, BeginClosing, NameClosing,
         CommitClosing, Abandon, CreateBudget, SubmitBudget, CancelBudget
<1> QED BY <1>1, SameSpend


\* What a clean request that submits has compared with the budget still fits, unless
\* the year was closed meanwhile.
Spent(draft) ==
  \A i \in DOMAIN draft.rows :
    LET row == draft.rows[i] IN
    row.account \in ProfitAndLoss /\ row.amount > 0 =>
      \/ \E c \in Shut : YearOf[closed[c].date] = YearOf[draft.date]
      \/ TrueSpend(row.account, draft.date) + row.amount <= Cap
WithinCap ==
  budget = "submitted" =>
    \A w \in Clerks : Doing(w, "submit") /\ desk[w].late \subseteq {"closing"} =>
      Spent(entry[desk[w].on].says)

\* No closing of its year hides spending from the control.
LEMMA NothingHidden ==
  ASSUME IInv, Counted, NEW a \in ProfitAndLoss, NEW d \in Days,
         \A c \in Shut : YearOf[closed[c].date] # YearOf[d]
  PROVE  AccountSpend(a, YearStart(d), YearEnd(d)) = TrueSpend(a, d)
<1> DEFINE g == [c \in Closings |-> Taken(c, a, YearStart(d), YearEnd(d))]
<1>1. \A c \in Closings : g[c] = 0
  BY YearIsItsDays DEF Counted, Taken
<1>2. SumFunctionOnSet(g, Closings) = 0
  <2> HIDE DEF g
  <2> QED BY <1>1, SumOfZeros, LedgerAssumption
<1>3. Moved(a, YearStart(d), YearEnd(d)) = SumFunctionOnSet(g, Closings)
  BY DEF Moved, Taken
<1>4. TrueSpend(a, d) \in Int
  BY SpendIsSum
<1> QED BY <1>2, <1>3, <1>4 DEF AccountSpend, TrueSpend

LEMMA FittingIsWithinCap ==
  ASSUME IInv, Counted, NEW draft \in Drafts, budget = "submitted", WithinBudget(draft)
  PROVE  Spent(draft)
<1> SUFFICES ASSUME NEW i \in DOMAIN draft.rows, draft.rows[i].account \in ProfitAndLoss,
                    draft.rows[i].amount > 0,
                    \A c \in Shut : YearOf[closed[c].date] # YearOf[draft.date]
             PROVE  TrueSpend(draft.rows[i].account, draft.date) + draft.rows[i].amount <= Cap
  BY DEF Spent
<1> DEFINE a == draft.rows[i].account
           d == draft.date
<1>1. AccountSpend(a, YearStart(d), YearEnd(d)) + draft.rows[i].amount <= Cap
  BY DEF WithinBudget
<1>2. d \in Days
  BY LedgerAssumption
<1>3. AccountSpend(a, YearStart(d), YearEnd(d)) = TrueSpend(a, d)
  BY <1>2, NothingHidden
<1> QED BY <1>1, <1>3

\* It goes on fitting while spending and closings stay.
LEMMA StillSpent ==
  ASSUME IInv, Counted, IInv', Counted', NEW draft, Spent(draft),
         \A a \in ProfitAndLoss : \A d : TrueSpend(a, d)' = TrueSpend(a, d),
         \A c \in Shut : c \in Shut' /\ closed'[c] = closed[c]
  PROVE  Spent(draft)'
<1> SUFFICES ASSUME NEW i \in DOMAIN draft.rows, draft.rows[i].account \in ProfitAndLoss,
                    draft.rows[i].amount > 0
             PROVE  \/ \E c \in Shut' : YearOf[closed'[c].date] = YearOf[draft.date]
                    \/ TrueSpend(draft.rows[i].account, draft.date)' + draft.rows[i].amount <= Cap
  BY DEF Spent
<1>1. CASE \E c \in Shut : YearOf[closed[c].date] = YearOf[draft.date]
  BY <1>1
<1>2. CASE TrueSpend(draft.rows[i].account, draft.date) + draft.rows[i].amount <= Cap
  <2>1. TrueSpend(draft.rows[i].account, draft.date)' = TrueSpend(draft.rows[i].account, draft.date)
    OBVIOUS
  <2> QED BY <1>2, <2>1
<1> QED BY <1>1, <1>2 DEF Spent

LEMMA ShutStays ==
  ASSUME IInv, [GLNext]_gvars
  PROVE  \A c \in Shut : c \in Shut' /\ closed'[c] = closed[c]
<1>1. CASE UNCHANGED closed
  BY <1>1 DEF Shut
<1>2. ASSUME NEW w \in Clerks, CommitClosing(w)
      PROVE  \A c \in Shut : c \in Shut' /\ closed'[c] = closed[c]
  <2>1. desk[w].on \notin Shut
    BY <1>2 DEF CommitClosing, IInv, Fresh, Closing
  <2>2. \A c \in Shut : closed'[c] = closed[c]
    BY <1>2, <2>1 DEF CommitClosing, IInv, Shapes, Shut
  <2> QED BY <2>2 DEF Shut
<1> QED
  BY <1>1, <1>2 DEF GLNext, gvars, CreateJournalEntry, CheckSubmit, CheckCancel, CommitSubmit,
       CommitCancel, BeginClosing, NameClosing, Abandon, CreateBudget, SubmitBudget, CancelBudget


\* A request that submits after a step was submitting the same entry before it, or has
\* just been checked.
LEMMA SubmittingOn ==
  ASSUME IInv, [GLNext]_gvars, NEW w \in Clerks, Doing(w, "submit")'
  PROVE  \/ /\ Doing(w, "submit") /\ desk'[w].on = desk[w].on
            /\ desk[w].late \subseteq desk'[w].late
         \/ \E e \in Entries : CheckSubmit(w, e) /\ desk'[w].on = e
<1>1. CASE UNCHANGED desk
  BY <1>1 DEF Doing
<1>2. ASSUME NEW x, NEW news, Tell(x, news)
      PROVE  /\ Doing(w, "submit") /\ desk'[w].on = desk[w].on
             /\ desk[w].late \subseteq desk'[w].late
  <2>1. w # x /\ Busy(w)
    BY <1>2, TellDesk DEF IInv, Doing, NoRequest, Request
  <2>2. desk'[w] = [op |-> desk[w].op, on |-> desk[w].on, date |-> desk[w].date,
                    moved |-> desk[w].moved, late |-> desk[w].late \cup news]
    BY <1>2, <2>1, TellDesk DEF IInv
  <2> QED BY <2>2 DEF Doing
<1>3. ASSUME NEW x \in Clerks, NEW e \in Entries, CheckSubmit(x, e) \/ CheckCancel(x, e)
      PROVE  \/ Doing(w, "submit") /\ desk'[w] = desk[w]
             \/ CheckSubmit(w, e) /\ desk'[w].on = e
  <2>1. CASE w # x
    BY <1>3, <2>1 DEF CheckSubmit, CheckCancel, Doing, IInv, Shapes
  <2>2. CASE w = x
    BY <1>3, <2>2 DEF CheckSubmit, CheckCancel, Doing, IInv, Shapes, Request
  <2> QED BY <2>1, <2>2
<1>4. ASSUME NEW x \in Clerks,
             \/ \E c \in Closings, d \in Days : BeginClosing(x, c, d)
             \/ NameClosing(x) \/ Abandon(x)
      PROVE  Doing(w, "submit") /\ desk'[w] = desk[w]
  <2>1. /\ \A y \in Clerks \ {x} : desk'[y] = desk[y]
        /\ desk'[x].op \in {"none", "name", "close"}
    BY <1>4 DEF BeginClosing, NameClosing, Abandon, IInv, Shapes, Request, NoRequest
  <2> QED BY <2>1 DEF Doing
<1>5. CASE \E x \in Clerks : CommitSubmit(x) \/ CommitCancel(x) \/ CommitClosing(x)
  BY <1>2, <1>5 DEF CommitSubmit, CommitCancel, CommitClosing
<1>6. CASE CreateBudget \/ SubmitBudget \/ CancelBudget
  BY <1>1, <1>2, <1>6 DEF CreateBudget, SubmitBudget, CancelBudget
<1>7. CASE \E e \in Entries, draft \in Drafts : CreateJournalEntry(e, draft)
  BY <1>1, <1>7 DEF CreateJournalEntry
<1>8. CASE UNCHANGED gvars
  BY <1>1, <1>8 DEF gvars
<1> QED BY <1>3, <1>4, <1>5, <1>6, <1>7, <1>8 DEF GLNext

\* Whoever still submits an entry submits what it said.
LEMMA SaysStays ==
  ASSUME IInv, [GLNext]_gvars, NEW e \in Entries, entry[e].stage # "none"
  PROVE  entry'[e].says = entry[e].says
<1>1. ASSUME NEW w \in Clerks, CommitSubmit(w) \/ CommitCancel(w)
      PROVE  entry'[e].says = entry[e].says
  BY <1>1 DEF CommitSubmit, CommitCancel, IInv, Shapes
<1>2. ASSUME NEW x \in Entries, NEW draft \in Drafts, CreateJournalEntry(x, draft)
      PROVE  entry'[e].says = entry[e].says
  BY <1>2 DEF CreateJournalEntry, IInv, Shapes
<1> QED
  BY <1>1, <1>2 DEF GLNext, gvars, CheckSubmit, CheckCancel, BeginClosing, NameClosing,
       CommitClosing, Abandon, CreateBudget, SubmitBudget, CancelBudget

LEMMA NewsSpoils ==
  ASSUME IInv, NEW w, NEW news, Tell(w, {news}), news # "closing",
         NEW x \in Clerks, Doing(x, "submit")', desk'[x].late \subseteq {"closing"}
  PROVE  FALSE
<1>1. x # w /\ Busy(x)
  BY TellDesk DEF IInv, Doing, NoRequest, Request
<1>2. desk'[x] = [op |-> desk[x].op, on |-> desk[x].on, date |-> desk[x].date,
                  moved |-> desk[x].moved, late |-> desk[x].late \cup {news}]
  BY <1>1, TellDesk DEF IInv
<1> QED BY <1>2

LEMMA StepKeepsCap ==
  ASSUME IInv, Counted, IInv', Counted', WithinCap, [GLNext]_gvars
  PROVE  WithinCap'
<1> SUFFICES ASSUME budget' = "submitted", NEW w \in Clerks, Doing(w, "submit")',
                    desk'[w].late \subseteq {"closing"}
             PROVE  Spent(entry[desk[w].on].says)'
  BY DEF WithinCap
<1>1. \A x \in Clerks : ~CommitSubmit(x) /\ ~CommitCancel(x)
  <2> SUFFICES ASSUME NEW x \in Clerks, CommitSubmit(x) \/ CommitCancel(x) PROVE FALSE
    OBVIOUS
  <2>1. desk[x].on \in Entries /\ desk[x].on # "closing"
    BY LedgerAssumption DEF IInv, Checked, Writing, CommitSubmit, CommitCancel
  <2>2. Tell(x, {desk[x].on})
    BY DEF CommitSubmit, CommitCancel
  <2> QED BY <2>1, <2>2, NewsSpoils
<1>2. budget = "submitted"
  <2>1. ~SubmitBudget
    BY NewsSpoils DEF SubmitBudget
  <2> QED
    BY <1>1, <2>1 DEF GLNext, gvars, CreateJournalEntry, CheckSubmit, CheckCancel, BeginClosing,
         NameClosing, CommitClosing, Abandon, CreateBudget, CancelBudget
<1>3. \A a \in ProfitAndLoss : \A d : TrueSpend(a, d)' = TrueSpend(a, d)
  BY <1>1, SpendMoves
<1>4. PICK e : e = desk'[w].on
  OBVIOUS
<1>5. PICK draft : draft = entry[e].says
  OBVIOUS
<1>6. e \in Entries /\ entry[e].stage # "none" /\ Spent(draft)
  <2>1. CASE /\ Doing(w, "submit") /\ desk'[w].on = desk[w].on
             /\ desk[w].late \subseteq desk'[w].late
    BY <1>2, <1>4, <1>5, <2>1 DEF WithinCap, IInv, Checked, Writing
  <2>2. CASE \E x \in Entries : CheckSubmit(w, x) /\ desk'[w].on = x
    <3>1. CheckSubmit(w, e) /\ e \in Entries
      BY <1>4, <2>2
    <3>2. entry[e].stage = "draft" /\ WithinBudget(draft)
      BY <1>5, <3>1 DEF CheckSubmit
    <3>3. draft \in Drafts
      BY <1>5, <3>1, <3>2 DEF IInv, Shapes
    <3> QED BY <1>2, <3>1, <3>2, <3>3, FittingIsWithinCap
  <2> QED BY <2>1, <2>2, SubmittingOn
<1>7. entry'[desk'[w].on].says = draft
  BY <1>4, <1>5, <1>6, SaysStays
<1>8. Spent(draft)'
  BY <1>3, <1>6, ShutStays, StillSpent
<1> QED BY <1>7, <1>8 DEF Spent


LEMMA InitWithinCap == GLInit => WithinCap
BY DEF GLInit, WithinCap

\* The only row an account has in a voucher is what the voucher puts on it.
LEMMA OnlyRow ==
  ASSUME NEW draft \in Drafts, NEW a, AmountOn(draft, a) > 0,
         ~(Cardinality({i \in DOMAIN draft.rows : draft.rows[i].account = a}) > 1)
  PROVE  \E i \in DOMAIN draft.rows :
           /\ draft.rows[i].account = a /\ draft.rows[i].amount > 0
           /\ AmountOn(draft, a) = draft.rows[i].amount
<1> DEFINE D == DOMAIN draft.rows
           f == [i \in D |-> IF draft.rows[i].account = a THEN draft.rows[i].amount ELSE 0]
           own == {i \in D : draft.rows[i].account = a}
<1>1. AmountOn(draft, a) = SumFunctionOnSet(f, D)
  BY DEF AmountOn
<1>2. IsFiniteSet(D) /\ \A i \in D : draft.rows[i].amount \in Int
  BY LedgerAssumption
<1>3. own # {}
  <2> SUFFICES ASSUME own = {} PROVE FALSE
    OBVIOUS
  <2>1. \A i \in D : f[i] = 0
    OBVIOUS
  <2>2. SumFunctionOnSet(f, D) = 0
    <3> HIDE DEF f
    <3> QED BY <1>2, <2>1, SumOfZeros
  <2> QED BY <1>1, <2>2
<1>4. PICK i \in D : draft.rows[i].account = a
  BY <1>3
<1>5. ASSUME NEW j \in D, draft.rows[j].account = a, j # i PROVE FALSE
  <2> DEFINE J == {j}
  <2>1. IsFiniteSet(J) /\ Cardinality(J) = 1 /\ i \notin J
    BY <1>5, FS_Singleton
  <2>2. Cardinality({j} \cup {i}) = 2
    <3> HIDE DEF J
    <3>1. Cardinality(J \cup {i}) = (IF i \in J THEN Cardinality(J) ELSE Cardinality(J) + 1)
      BY <2>1, FS_AddElement
    <3>2. Cardinality(J \cup {i}) = 2
      BY <2>1, <3>1
    <3> QED BY <3>2 DEF J
  <2>3. IsFiniteSet(own) /\ {j} \cup {i} \subseteq own
    BY <1>2, <1>4, <1>5, FS_Subset
  <2>4. Cardinality({j} \cup {i}) <= Cardinality(own) /\ Cardinality(own) \in Nat
    BY <2>3, FS_Subset, FS_CardinalityType
  <2> QED BY <2>2, <2>4
<1>6. \A j \in D \ {i} : f[j] = 0
  BY <1>5
<1>7. f[i] = draft.rows[i].amount /\ f[i] \in Int
  BY <1>2, <1>4
<1>8. SumFunctionOnSet(f, D) = f[i]
  <2> HIDE DEF f
  <2> QED BY <1>2, <1>6, <1>7, SumOfOne
<1> QED BY <1>1, <1>4, <1>7, <1>8

\* Taking off an account takes a row that does.
LEMMA SomeRowTakes ==
  ASSUME NEW draft \in Drafts, NEW a, AmountOn(draft, a) < 0
  PROVE  \E i \in DOMAIN draft.rows : draft.rows[i].account = a /\ draft.rows[i].amount < 0
<1> SUFFICES ASSUME \A i \in DOMAIN draft.rows :
                      draft.rows[i].account = a => ~(draft.rows[i].amount < 0)
             PROVE  FALSE
  OBVIOUS
<1> DEFINE D == DOMAIN draft.rows
           f == [i \in D |-> IF draft.rows[i].account = a THEN draft.rows[i].amount ELSE 0]
<1>1. IsFiniteSet(D) /\ \A i \in D : f[i] \in Nat
  BY LedgerAssumption
<1>2. SumFunctionOnSet(f, D) \in Nat
  <2> HIDE DEF f
  <2>1. D \in SUBSET D
    OBVIOUS
  <2> QED BY <1>1, <2>1, SumOfPart
<1> QED BY <1>2 DEF AmountOn

\* What writing one entry does to the spending of a year.
LEMMA SpendChange ==
  ASSUME IInv, Counted, IInv', Counted', NEW a \in ProfitAndLoss, NEW d, NEW e \in Entries,
         NEW k \in Int, entry[e].says \in Drafts, entry'[e].says = entry[e].says,
         Net(e)' = Net(e) + k,
         \A x \in Entries \ {e} : entry'[x] = entry[x] /\ postings'[x] = postings[x]
  PROVE  TrueSpend(a, d)' =
           TrueSpend(a, d) + (IF entry[e].says.date \in YearStart(d) .. YearEnd(d)
                              THEN k * AmountOn(entry[e].says, a) ELSE 0)
<1> DEFINE f == [x \in Entries |-> Part(x, a, YearStart(d), YearEnd(d))]
           g == [x \in Entries |-> Part(x, a, YearStart(d), YearEnd(d))']
           n == Net(e)
           A == AmountOn(entry[e].says, a)
           In == entry[e].says.date \in YearStart(d) .. YearEnd(d)
<1>1. TrueSpend(a, d) = SumFunctionOnSet(f, Entries) /\ TrueSpend(a, d) \in Int
  BY SpendIsSum
<1>2. TrueSpend(a, d)' = SumFunctionOnSet(g, Entries)
  BY DEF TrueSpend, Booked, Part, YearStart, YearEnd
<1>3. \A x \in Entries : f[x] \in Int
  BY PartsAreInts
<1>4. \A x \in Entries \ {e} : g[x] = f[x]
  BY DEF Part, Written, Net, YearStart, YearEnd
<1>5. n \in Int /\ A \in Int
  BY AmountIsInt DEF Net, Counted
<1>6. g[e] = f[e] + (IF In THEN k * A ELSE 0)
  <2>1. e \in Written /\ e \in Written'
    BY LedgerAssumption DEF Written
  <2>2. f[e] = (IF In THEN n * A ELSE 0)
    BY <2>1 DEF Part
  <2>3. g[e] = (IF In THEN (n + k) * A ELSE 0)
    BY <2>1 DEF Part, AmountOn, YearStart, YearEnd
  <2>4. (n + k) * A = n * A + k * A
    <3> HIDE DEF n, A
    <3> QED BY <1>5
  <2>5. n * A \in Int /\ k * A \in Int
    <3> HIDE DEF n, A
    <3> QED BY <1>5
  <2> QED BY <2>2, <2>3, <2>4, <2>5
<1>7. f[e] \in Int /\ (IF In THEN k * A ELSE 0) \in Int
  <2> HIDE DEF f, A, In
  <2> QED BY <1>3, <1>5
<1>8. SumFunctionOnSet(g, Entries) = SumFunctionOnSet(f, Entries) + g[e] - f[e]
  <2> HIDE DEF f, g, A, In
  <2>1. \A x \in Entries : g[x] \in Int
    BY <1>3, <1>4, <1>6, <1>7
  <2> QED BY <1>3, <1>4, <2>1, SumOfChange, LedgerAssumption
<1> QED
  <2> HIDE DEF f, g, A, In
  <2>1. TrueSpend(a, d)' = TrueSpend(a, d) + (IF In THEN k * A ELSE 0)
    BY <1>1, <1>2, <1>6, <1>7, <1>8
  <2> QED BY <2>1 DEF A, In

\* No submission takes an account beyond the budget, but for the known ways.
LEMMA SubmitStaysWithin ==
  ASSUME IInv, Counted, IInv', Counted', WithinCap, NEW w \in Clerks, CommitSubmit(w),
         NEW a \in ProfitAndLoss, NEW d \in Days, budget = "submitted",
         TrueSpend(a, d)' > Cap, TrueSpend(a, d)' > TrueSpend(a, d),
         ~(desk[w].late \ {"closing"} # {}), ~Splits(desk[w].on, a)
  PROVE  \E c \in Shut : YearOf[closed[c].date] = YearOf[d]
<1>1. PICK e : e = desk[w].on
  OBVIOUS
<1>2. PICK draft : draft = entry[e].says
  OBVIOUS
<1>3. Doing(w, "submit") /\ e \in Entries /\ draft \in Drafts /\ draft.date \in Days
  BY <1>1, <1>2, LedgerAssumption DEF CommitSubmit, IInv, Shapes, Checked, Writing
<1>4. /\ entry'[e].says = draft /\ Net(e)' = Net(e) + 1
      /\ \A x \in Entries \ {e} : entry'[x] = entry[x] /\ postings'[x] = postings[x]
  <2>1. entry'[e].says = draft /\ \A x \in Entries \ {e} : entry'[x] = entry[x]
    BY <1>1, <1>2, <1>3 DEF CommitSubmit, IInv, Shapes
  <2>2. postings \in [Entries -> [made : Nat, mirrored : Nat]]
    BY DEF Counted
  <2>3. postings' = [postings EXCEPT ![e].made = @ + 1]
    BY <1>1 DEF CommitSubmit
  <2>4. Net(e)' = Net(e) + 1 /\ \A x \in Entries \ {e} : postings'[x] = postings[x]
    BY <1>3, <2>2, <2>3 DEF Net
  <2> QED BY <2>1, <2>4
<1>5. AmountOn(draft, a) \in Int /\ TrueSpend(a, d) \in Int
  BY <1>3, AmountIsInt, SpendIsSum
<1>6. TrueSpend(a, d)' = TrueSpend(a, d) + (IF draft.date \in YearStart(d) .. YearEnd(d)
                                            THEN 1 * AmountOn(draft, a) ELSE 0)
  <2>1. PICK k \in Int : k = 1
    OBVIOUS
  <2>2. entry[e].says \in Drafts /\ entry'[e].says = entry[e].says /\ Net(e)' = Net(e) + k
    BY <1>2, <1>3, <1>4, <2>1
  <2>3. TrueSpend(a, d)' = TrueSpend(a, d) + (IF entry[e].says.date \in YearStart(d) .. YearEnd(d)
                                              THEN k * AmountOn(entry[e].says, a) ELSE 0)
    BY <1>3, <1>4, <2>2, SpendChange
  <2> QED BY <1>2, <2>1, <2>3
<1>7. draft.date \in YearStart(d) .. YearEnd(d) /\ AmountOn(draft, a) > 0
      /\ TrueSpend(a, d)' = TrueSpend(a, d) + AmountOn(draft, a)
  BY <1>5, <1>6
<1>8. YearOf[draft.date] = YearOf[d]
  BY <1>3, <1>7, YearIsItsDays
<1>9. TrueSpend(a, draft.date) = TrueSpend(a, d)
  BY <1>3, <1>8, SameYear DEF TrueSpend
<1>10. PICK i \in DOMAIN draft.rows :
         /\ draft.rows[i].account = a /\ draft.rows[i].amount > 0
         /\ AmountOn(draft, a) = draft.rows[i].amount
  <2>1. ~(Cardinality({i \in DOMAIN draft.rows : draft.rows[i].account = a}) > 1)
    BY <1>1, <1>2 DEF Splits
  <2> QED BY <1>3, <1>7, <2>1, OnlyRow
<1>11. Spent(draft)
  BY <1>1, <1>2, <1>3 DEF WithinCap
<1>12. \/ \E c \in Shut : YearOf[closed[c].date] = YearOf[draft.date]
       \/ TrueSpend(a, draft.date) + AmountOn(draft, a) <= Cap
  BY <1>10, <1>11 DEF Spent
<1>13. ~(TrueSpend(a, draft.date) + AmountOn(draft, a) <= Cap)
  BY <1>5, <1>7, <1>9, LedgerAssumption
<1> QED BY <1>8, <1>12, <1>13

\* A cancellation that adds spending cancels a refund.
LEMMA CancelAddsRefunds ==
  ASSUME IInv, Counted, IInv', Counted', NEW w \in Clerks, CommitCancel(w),
         NEW a \in ProfitAndLoss, NEW d \in Days, TrueSpend(a, d)' > TrueSpend(a, d)
  PROVE  Refund(desk[w].on)
<1>1. PICK e : e = desk[w].on
  OBVIOUS
<1>2. PICK draft : draft = entry[e].says
  OBVIOUS
<1>3. PICK n : n = desk[w].moved
  OBVIOUS
<1>4. Doing(w, "cancel") /\ e \in Entries /\ draft \in Drafts /\ n \in Nat
  BY <1>1, <1>2, <1>3 DEF CommitCancel, IInv, Shapes, Checked, Writing, Counted
<1>5. /\ entry'[e].says = draft /\ Net(e)' = Net(e) + (-n)
      /\ \A x \in Entries \ {e} : entry'[x] = entry[x] /\ postings'[x] = postings[x]
  <2>1. entry'[e].says = draft /\ \A x \in Entries \ {e} : entry'[x] = entry[x]
    BY <1>1, <1>2, <1>4 DEF CommitCancel, IInv, Shapes
  <2>2. postings \in [Entries -> [made : Nat, mirrored : Nat]]
    BY DEF Counted
  <2>3. postings' = [postings EXCEPT ![e].mirrored = @ + n]
    BY <1>1, <1>3 DEF CommitCancel
  <2>4. Net(e)' = Net(e) + (-n) /\ \A x \in Entries \ {e} : postings'[x] = postings[x]
    BY <1>4, <2>2, <2>3 DEF Net
  <2> QED BY <2>1, <2>4
<1>6. AmountOn(draft, a) \in Int /\ TrueSpend(a, d) \in Int
  BY <1>4, AmountIsInt, SpendIsSum
<1>7. TrueSpend(a, d)' = TrueSpend(a, d) + (IF draft.date \in YearStart(d) .. YearEnd(d)
                                            THEN (-n) * AmountOn(draft, a) ELSE 0)
  <2>1. -n \in Int
    BY <1>4
  <2>2. entry[e].says \in Drafts /\ entry'[e].says = entry[e].says /\ Net(e)' = Net(e) + (-n)
    BY <1>2, <1>4, <1>5
  <2>3. TrueSpend(a, d)' = TrueSpend(a, d) + (IF entry[e].says.date \in YearStart(d) .. YearEnd(d)
                                              THEN (-n) * AmountOn(entry[e].says, a) ELSE 0)
    BY <1>4, <1>5, <2>1, <2>2, SpendChange
  <2> QED BY <1>2, <2>3
<1>8. AmountOn(draft, a) < 0
  <2>1. PICK A \in Int : A = AmountOn(draft, a)
    BY <1>6
  <2>2. A >= 0 => (-n) * A <= 0
    BY <1>4
  <2>3. (-n) * A \in Int
    BY <1>4
  <2> QED BY <1>6, <1>7, <2>1, <2>2, <2>3
<1>9. PICK i \in DOMAIN draft.rows : draft.rows[i].account = a /\ draft.rows[i].amount < 0
  BY <1>4, <1>8, SomeRowTakes
<1> QED BY <1>1, <1>2, <1>9 DEF Refund

\* Whoever commits has nothing in hand after.
LEMMA CommitEnds ==
  ASSUME IInv, NEW w \in Clerks, CommitSubmit(w) \/ CommitCancel(w)
  PROVE  Busy(w) /\ desk'[w] = NoRequest
<1>1. Busy(w)
  BY DEF CommitSubmit, CommitCancel, Doing, Busy
<1>2. Tell(w, {desk[w].on})
  BY DEF CommitSubmit, CommitCancel
<1> QED BY <1>1, <1>2, TellDesk DEF IInv

LEMMA StepHoldsBudget ==
  ASSUME IInv, Counted, IInv', Counted', WithinCap, [GLNext]_gvars,
         NEW a \in ProfitAndLoss, NEW d \in Days, budget = "submitted",
         TrueSpend(a, d)' > Cap, TrueSpend(a, d)' > TrueSpend(a, d)
  PROVE  \/ \E c \in Shut : YearOf[closed[c].date] = YearOf[d]
         \/ \E w \in Clerks : /\ Busy(w) /\ desk'[w] = NoRequest
                              /\ \/ desk[w].late \ {"closing"} # {}
                                 \/ Splits(desk[w].on, a)
                                 \/ Doing(w, "cancel") /\ Refund(desk[w].on)
<1>1. TrueSpend(a, d)' # TrueSpend(a, d)
  <2>1. TrueSpend(a, d) \in Int
    BY SpendIsSum
  <2> QED BY <2>1
<1>2. PICK w \in Clerks : CommitSubmit(w) \/ CommitCancel(w)
  BY <1>1, SpendMoves
<1>3. Busy(w) /\ desk'[w] = NoRequest
  BY <1>2, CommitEnds
<1>4. CASE CommitSubmit(w)
  BY <1>3, <1>4, SubmitStaysWithin
<1>5. CASE CommitCancel(w)
  <2>1. Doing(w, "cancel") /\ Refund(desk[w].on)
    BY <1>5, CancelAddsRefunds DEF CommitCancel
  <2> QED BY <1>3, <2>1
<1> QED BY <1>2, <1>4, <1>5

\* A submitted budget keeps what is spent on an account within its amount,
\* except where a voucher splits the account over rows, a refund is cancelled,
\* the year was closed in part, or a request goes on after another committed
\* (budget.py: validate_budget compares each row with the ledger at the check).
THEOREM BudgetIsKept == GLSpec => BudgetHolds
<1>1. GLSpec => []Counted
  <2>1. GLSpec => []JInv
    BY AlwaysIInv, InitJInv, StepKeepsSums, PTL DEF GLSpec
  <2>2. JInv => Counted
    BY DEF JInv
  <2> QED BY <2>1, <2>2, PTL
<1>2. GLSpec => []WithinCap
  <2>1. IInv /\ Counted /\ IInv' /\ Counted' /\ WithinCap /\ [GLNext]_gvars => WithinCap'
    BY StepKeepsCap
  <2> QED BY <1>1, <2>1, AlwaysIInv, InitWithinCap, PTL DEF GLSpec
<1>3. IInv /\ Counted /\ IInv' /\ Counted' /\ WithinCap /\ [GLNext]_gvars =>
        [\A a \in ProfitAndLoss, d \in Days :
           budget = "submitted" /\ TrueSpend(a, d)' > Cap /\ TrueSpend(a, d)' > TrueSpend(a, d) =>
             \/ \E c \in Shut : YearOf[closed[c].date] = YearOf[d]
             \/ \E w \in Clerks : /\ Busy(w) /\ desk'[w] = NoRequest
                                  /\ \/ desk[w].late \ {"closing"} # {}
                                     \/ Splits(desk[w].on, a)
                                     \/ Doing(w, "cancel") /\ Refund(desk[w].on)]_gvars
  BY StepHoldsBudget
<1> QED BY <1>1, <1>2, <1>3, AlwaysIInv, PTL DEF GLSpec, BudgetHolds

-----------------------------------------------------------------------------
(* Paths. *)

Path == Seq(STRING)
\* a path below P as it is below T
Carrying(P, T, Q) == T \o SubSeq(Q, Len(P) + 1, Len(Q))
Replaced(P, T, Q) == IF Starts(P, Q) THEN Carrying(P, T, Q) ELSE Q

LEMMA PathFacts ==
  ASSUME NEW P \in Path
  PROVE  /\ Len(P) \in Nat /\ DOMAIN P = 1 .. Len(P) /\ \A i \in 1 .. Len(P) : P[i] \in STRING
         /\ P # <<>> <=> Len(P) > 0
<1>1. Len(P) \in Nat /\ DOMAIN P = 1 .. Len(P) /\ \A i \in 1 .. Len(P) : P[i] \in STRING
  BY DEF Path
<1>2. P # <<>> <=> Len(P) > 0
  BY EmptySeq DEF Path
<1> QED BY <1>1, <1>2

LEMMA SamePath ==
  ASSUME NEW P \in Path, NEW Q \in Path, Len(P) = Len(Q), \A i \in 1 .. Len(P) : P[i] = Q[i]
  PROVE  P = Q
BY SeqEqual DEF Path

LEMMA SequenceOfOne ==
  ASSUME NEW S, NEW s \in S
  PROVE  <<s>> \in Seq(S)
OBVIOUS

LEMMA PathOfOne ==
  ASSUME NEW s \in STRING
  PROVE  <<s>> \in Path /\ Len(<<s>>) = 1 /\ <<s>>[1] = s /\ <<>> \in Path /\ Len(<<>>) = 0
<1>1. <<s>> \in Path
  BY SequenceOfOne DEF Path
<1>2. Len(<<s>>) = 1 /\ <<s>>[1] = s
  OBVIOUS
<1>3. <<>> \in Path /\ Len(<<>>) = 0
  BY EmptySeq DEF Path
<1> QED BY <1>1, <1>2, <1>3

LEMMA OneStepDown ==
  ASSUME NEW Q \in Path, NEW s \in STRING
  PROVE  /\ Q \o <<s>> \in Path /\ Len(Q \o <<s>>) = Len(Q) + 1 /\ Q \o <<s>> # <<>>
         /\ \A i \in 1 .. Len(Q) : (Q \o <<s>>)[i] = Q[i]
         /\ (Q \o <<s>>)[Len(Q) + 1] = s
<1>1. PICK t : t = <<s>>
  OBVIOUS
<1>2. t \in Path /\ Len(t) = 1 /\ t[1] = s
  BY <1>1, PathOfOne
<1>3. /\ Q \o t \in Path /\ Len(Q \o t) = Len(Q) + Len(t)
      /\ \A i \in 1 .. Len(Q) + Len(t) : (Q \o t)[i] = IF i <= Len(Q) THEN Q[i] ELSE t[i - Len(Q)]
  BY <1>2, ConcatProperties DEF Path
<1>4. Len(Q) \in Nat
  BY PathFacts
<1>5. Q \o t # <<>>
  BY <1>2, <1>3, <1>4, PathFacts
<1>6. (Len(Q) + 1) - Len(Q) = 1 /\ Len(Q) + 1 \in 1 .. Len(Q) + Len(t) /\ ~(Len(Q) + 1 <= Len(Q))
  BY <1>2, <1>4
<1>7. (Q \o t)[Len(Q) + 1] = t[1]
  BY <1>3, <1>6
<1>8. \A i \in 1 .. Len(Q) : (Q \o t)[i] = Q[i]
  BY <1>2, <1>3, <1>4
<1> QED BY <1>1, <1>2, <1>3, <1>5, <1>7, <1>8

LEMMA StartsFacts ==
  ASSUME NEW P \in Path, NEW Q \in Path
  PROVE  Starts(P, Q) <=> Len(P) <= Len(Q) /\ \A i \in 1 .. Len(P) : Q[i] = P[i]
<1>1. Len(P) \in Nat /\ Len(Q) \in Nat /\ \A i \in 1 .. Len(Q) : Q[i] \in STRING
  BY PathFacts
<1>2. SUFFICES ASSUME Len(P) <= Len(Q)
               PROVE  SubSeq(Q, 1, Len(P)) = P <=> \A i \in 1 .. Len(P) : Q[i] = P[i]
  BY <1>2 DEF Starts
<1>3. PICK R : R = SubSeq(Q, 1, Len(P))
  OBVIOUS
<1>4. R \in Path /\ Len(R) = Len(P) /\ \A i \in 1 .. Len(P) : R[i] = Q[i]
  <2>1. 1 \in Int /\ Len(P) \in Int /\ \A i \in 1 .. Len(P) : Q[i] \in STRING
    BY <1>1, <1>2
  <2>2. /\ R \in Path /\ Len(R) = IF 1 <= Len(P) THEN Len(P) - 1 + 1 ELSE 0
        /\ \A i \in 1 .. Len(P) - 1 + 1 : R[i] = Q[1 + i - 1]
    BY <1>3, <2>1, SubSeqProperties DEF Path
  <2>3. Len(P) - 1 + 1 = Len(P) /\ \A i \in 1 .. Len(P) : 1 + i - 1 = i
    BY <1>1
  <2> QED BY <1>1, <2>2, <2>3
<1>5. R = P <=> \A i \in 1 .. Len(P) : Q[i] = P[i]
  <2>1. ASSUME \A i \in 1 .. Len(P) : Q[i] = P[i] PROVE R = P
    <3>1. \A i \in 1 .. Len(R) : R[i] = P[i]
      BY <1>4, <2>1
    <3> QED BY <1>4, <3>1, SamePath
  <2> QED BY <1>4, <2>1
<1> QED BY <1>3, <1>5

LEMMA RestFacts ==
  ASSUME NEW P \in Path, NEW Q \in Path, Len(P) <= Len(Q)
  PROVE  LET R == SubSeq(Q, Len(P) + 1, Len(Q))
         IN R \in Path /\ Len(R) = Len(Q) - Len(P) /\ \A i \in 1 .. Len(Q) - Len(P) : R[i] = Q[Len(P) + i]
<1>1. Len(P) \in Nat /\ Len(Q) \in Nat /\ \A i \in 1 .. Len(Q) : Q[i] \in STRING
  BY PathFacts
<1>2. PICK m, R : m = Len(P) + 1 /\ R = SubSeq(Q, m, Len(Q))
  OBVIOUS
<1>3. m \in Int /\ Len(Q) \in Int /\ \A i \in m .. Len(Q) : Q[i] \in STRING
  BY <1>1, <1>2
<1>4. /\ R \in Path /\ Len(R) = IF m <= Len(Q) THEN Len(Q) - m + 1 ELSE 0
      /\ \A i \in 1 .. Len(Q) - m + 1 : R[i] = Q[m + i - 1]
  BY <1>2, <1>3, SubSeqProperties DEF Path
<1>5. Len(Q) - m + 1 = Len(Q) - Len(P) /\ (~(m <= Len(Q)) => Len(Q) - Len(P) = 0)
      /\ \A i \in 1 .. Len(Q) - Len(P) : m + i - 1 = Len(P) + i
  BY <1>1, <1>2
<1> QED BY <1>2, <1>4, <1>5

CarriesTo(P, T, Q, C) ==
  /\ C \in Path /\ Len(C) = Len(T) + (Len(Q) - Len(P))
  /\ \A i \in 1 .. Len(T) : C[i] = T[i]
  /\ \A i \in 1 .. Len(Q) - Len(P) : C[Len(T) + i] = Q[Len(P) + i]

LEMMA CarryingFacts ==
  ASSUME NEW P \in Path, NEW T \in Path, NEW Q \in Path, Len(P) <= Len(Q), NEW C, C = Carrying(P, T, Q)
  PROVE  CarriesTo(P, T, Q, C)
<1>1. PICK R : R = SubSeq(Q, Len(P) + 1, Len(Q))
  OBVIOUS
<1>2. R \in Path /\ Len(R) = Len(Q) - Len(P) /\ \A i \in 1 .. Len(Q) - Len(P) : R[i] = Q[Len(P) + i]
  BY <1>1, RestFacts
<1>3. C = T \o R
  BY <1>1 DEF Carrying
<1>4. /\ C \in Path /\ Len(C) = Len(T) + Len(R)
      /\ \A i \in 1 .. Len(T) + Len(R) : C[i] = IF i <= Len(T) THEN T[i] ELSE R[i - Len(T)]
  <2>1. /\ T \o R \in Path /\ Len(T \o R) = Len(T) + Len(R)
        /\ \A i \in 1 .. Len(T) + Len(R) : (T \o R)[i] = IF i <= Len(T) THEN T[i] ELSE R[i - Len(T)]
    BY <1>2, ConcatProperties DEF Path
  <2> QED BY <1>3, <2>1, Zenon
<1>5. Len(P) \in Nat /\ Len(Q) \in Nat /\ Len(T) \in Nat /\ Len(R) \in Nat
  BY <1>2, PathFacts
<1>6. \A i \in 1 .. Len(T) : C[i] = T[i]
  BY <1>4, <1>5
<1>7. \A i \in 1 .. Len(R) : C[Len(T) + i] = R[i]
  <2>1. \A i \in 1 .. Len(R) : Len(T) + i \in 1 .. Len(T) + Len(R) /\ ~(Len(T) + i <= Len(T)) /\ (Len(T) + i) - Len(T) = i
    BY <1>5
  <2> QED BY <1>4, <2>1
<1> QED BY <1>2, <1>4, <1>6, <1>7 DEF CarriesTo

\* what lies below P, and what it becomes, one step further down
LEMMA ReplacedStep ==
  ASSUME NEW P \in Path, NEW T \in Path, NEW Q \in Path, NEW s \in STRING, P # Q \o <<s>>
  PROVE  Replaced(P, T, Q \o <<s>>) = Replaced(P, T, Q) \o <<s>>
<1>1. PICK R : R = Q \o <<s>>
  OBVIOUS
<1>2. /\ R \in Path /\ Len(R) = Len(Q) + 1 /\ R[Len(Q) + 1] = s
      /\ \A i \in 1 .. Len(Q) : R[i] = Q[i]
  BY <1>1, OneStepDown
<1>3. Len(P) \in Nat /\ Len(Q) \in Nat /\ Len(T) \in Nat /\ Len(R) \in Nat
  BY <1>2, PathFacts
<1>4. Starts(P, R) <=> Starts(P, Q)
  <2>1. ASSUME Starts(P, R), ~(Len(P) <= Len(Q)) PROVE FALSE
    <3>1. Len(P) = Len(R) /\ \A i \in 1 .. Len(P) : R[i] = P[i]
      BY <1>2, <1>3, <2>1, StartsFacts
    <3> QED BY <1>1, <1>2, <3>1, SamePath
  <2>2. ASSUME Len(P) <= Len(Q) PROVE Starts(P, R) <=> Starts(P, Q)
    <3>1. Len(P) <= Len(R) /\ \A i \in 1 .. Len(P) : R[i] = Q[i]
      BY <1>2, <1>3, <2>2
    <3> QED BY <1>2, <2>2, <3>1, StartsFacts
  <2>3. Starts(P, Q) => Len(P) <= Len(Q)
    BY StartsFacts
  <2> QED BY <2>1, <2>2, <2>3
<1>5. CASE ~Starts(P, Q)
  BY <1>1, <1>4, <1>5 DEF Replaced
<1>6. CASE Starts(P, Q)
  <2>1. Len(P) <= Len(Q) /\ Len(P) <= Len(R)
    BY <1>2, <1>3, <1>6, StartsFacts
  <2>2. PICK C, D : C = Carrying(P, T, Q) /\ D = Carrying(P, T, R)
    OBVIOUS
  <2>3. /\ C \in Path /\ Len(C) = Len(T) + (Len(Q) - Len(P))
        /\ \A i \in 1 .. Len(T) : C[i] = T[i]
        /\ \A i \in 1 .. Len(Q) - Len(P) : C[Len(T) + i] = Q[Len(P) + i]
    <3>1. CarriesTo(P, T, Q, C)
      BY <2>1, <2>2, CarryingFacts, Zenon
    <3> QED BY <1>1, <3>1 DEF CarriesTo
  <2>4. /\ D \in Path /\ Len(D) = Len(T) + (Len(R) - Len(P))
        /\ \A i \in 1 .. Len(T) : D[i] = T[i]
        /\ \A i \in 1 .. Len(R) - Len(P) : D[Len(T) + i] = R[Len(P) + i]
    <3>1. CarriesTo(P, T, R, D)
      BY <1>2, <2>1, <2>2, CarryingFacts, Zenon
    <3> QED BY <1>1, <3>1 DEF CarriesTo
  <2>5. PICK F : F = C \o <<s>>
    OBVIOUS
  <2>6. F \in Path /\ Len(F) = Len(C) + 1 /\ F[Len(C) + 1] = s /\ \A i \in 1 .. Len(C) : F[i] = C[i]
    BY <2>3, <2>5, OneStepDown
  <2>7. ASSUME NEW i \in 1 .. Len(D) PROVE D[i] = F[i]
    <3>1. CASE i <= Len(T)
      <4>1. i \in 1 .. Len(T) /\ i \in 1 .. Len(C)
        BY <1>3, <2>1, <2>3, <2>7, <3>1
      <4> QED BY <2>3, <2>4, <2>6, <4>1
    <3>2. CASE ~(i <= Len(T)) /\ i <= Len(C)
      <4>1. PICK j : j = i - Len(T)
        OBVIOUS
      <4>2. /\ j \in 1 .. Len(Q) - Len(P) /\ j \in 1 .. Len(R) - Len(P) /\ i = Len(T) + j
            /\ Len(P) + j \in 1 .. Len(Q) /\ i \in 1 .. Len(C)
        BY <1>2, <1>3, <2>1, <2>3, <2>4, <2>7, <3>2, <4>1
      <4>3. D[i] = R[Len(P) + j] /\ C[i] = Q[Len(P) + j]
        BY <2>3, <2>4, <4>2
      <4> QED BY <1>2, <2>6, <4>2, <4>3
    <3>3. CASE ~(i <= Len(C))
      <4>1. PICK j : j = i - Len(T)
        OBVIOUS
      <4>2. i = Len(C) + 1 /\ j \in 1 .. Len(R) - Len(P) /\ i = Len(T) + j /\ Len(P) + j = Len(Q) + 1
        BY <1>2, <1>3, <2>1, <2>3, <2>4, <2>7, <3>3, <4>1
      <4>3. D[i] = R[Len(P) + j]
        BY <2>4, <4>2
      <4> QED BY <1>2, <2>6, <4>2, <4>3
    <3>4. Len(T) <= Len(C) /\ i \in Int /\ Len(C) \in Int
      BY <1>3, <2>1, <2>3
    <3> QED BY <3>1, <3>2, <3>3, <3>4
  <2>8. Len(D) = Len(F)
    BY <1>2, <1>3, <2>3, <2>4, <2>6
  <2>9. D = F
    BY <2>4, <2>6, <2>7, <2>8, SamePath
  <2> QED BY <1>1, <1>4, <1>6, <2>2, <2>5, <2>9 DEF Replaced
<1> QED BY <1>5, <1>6

LEMMA ReplacedFacts ==
  ASSUME NEW P \in Path, NEW T \in Path, NEW Q \in Path
  PROVE  /\ Replaced(P, T, Q) \in Path /\ (T # <<>> /\ Q # <<>> => Replaced(P, T, Q) # <<>>)
         /\ Replaced(P, T, P) = T
         /\ P # <<>> => Replaced(P, T, <<>>) = <<>>
         /\ Replaced(P, P, Q) = Q
<1>1. Len(P) \in Nat /\ Len(Q) \in Nat /\ Len(T) \in Nat
  BY PathFacts
<1>2. Starts(P, Q) => Len(P) <= Len(Q) /\ \A i \in 1 .. Len(P) : Q[i] = P[i]
  BY StartsFacts
<1>3. Replaced(P, T, Q) \in Path /\ (T # <<>> /\ Q # <<>> => Replaced(P, T, Q) # <<>>)
  <2>1. CASE Starts(P, Q)
    <3>1. PICK C : C = Carrying(P, T, Q)
      OBVIOUS
    <3>2. C \in Path /\ Len(C) = Len(T) + (Len(Q) - Len(P))
      <4>1. CarriesTo(P, T, Q, C)
        BY <1>2, <2>1, <3>1, CarryingFacts, Zenon
      <4> QED BY <1>1, <4>1 DEF CarriesTo
    <3>3. T # <<>> => C # <<>>
      BY <1>1, <1>2, <2>1, <3>2, PathFacts
    <3> QED BY <2>1, <3>1, <3>2, <3>3 DEF Replaced
  <2>2. CASE ~Starts(P, Q)
    BY <2>2 DEF Replaced
  <2> QED BY <2>1, <2>2
<1>4. Replaced(P, T, P) = T
  <2>1. Starts(P, P) /\ Len(P) <= Len(P)
    BY <1>1, StartsFacts
  <2>2. PICK C : C = Carrying(P, T, P)
    OBVIOUS
  <2>3. C \in Path /\ Len(C) = Len(T) /\ \A i \in 1 .. Len(T) : C[i] = T[i]
    <3>1. CarriesTo(P, T, P, C)
      BY <1>1, <2>1, <2>2, CarryingFacts, Zenon
    <3> QED BY <1>1, <3>1 DEF CarriesTo
  <2>4. C = T
    BY <2>3, SamePath
  <2> QED BY <2>1, <2>2, <2>4 DEF Replaced
<1>5. P # <<>> => Replaced(P, T, <<>>) = <<>>
  <2>1. <<>> \in Path /\ Len(<<>>) = 0
    BY DEF Path
  <2>2. P # <<>> => ~Starts(P, <<>>)
    BY <1>1, <2>1, PathFacts, StartsFacts
  <2> QED BY <2>2 DEF Replaced
<1>6. Replaced(P, P, Q) = Q
  <2>1. CASE ~Starts(P, Q)
    BY <2>1 DEF Replaced
  <2>2. CASE Starts(P, Q)
    <3>1. PICK C : C = Carrying(P, P, Q)
      OBVIOUS
    <3>2. /\ C \in Path /\ Len(C) = Len(P) + (Len(Q) - Len(P))
          /\ \A i \in 1 .. Len(P) : C[i] = P[i]
          /\ \A i \in 1 .. Len(Q) - Len(P) : C[Len(P) + i] = Q[Len(P) + i]
      <4>1. CarriesTo(P, P, Q, C)
        BY <1>2, <2>2, <3>1, CarryingFacts, Zenon
      <4> QED BY <1>1, <4>1 DEF CarriesTo
    <3>3. Len(C) = Len(Q)
      BY <1>1, <3>2
    <3>4. ASSUME NEW i \in 1 .. Len(C) PROVE C[i] = Q[i]
      <4>1. CASE i <= Len(P)
        BY <1>1, <1>2, <2>2, <3>2, <3>3, <4>1
      <4>2. CASE ~(i <= Len(P))
        <5>1. PICK j : j = i - Len(P)
          OBVIOUS
        <5>2. j \in 1 .. Len(Q) - Len(P) /\ i = Len(P) + j
          BY <1>1, <3>3, <3>4, <4>2, <5>1
        <5> QED BY <3>2, <5>2
      <4> QED BY <4>1, <4>2
    <3>5. C = Q
      BY <3>2, <3>3, <3>4, SamePath
    <3> QED BY <2>2, <3>1, <3>5 DEF Replaced
  <2> QED BY <2>1, <2>2
<1> QED BY <1>3, <1>4, <1>5, <1>6

\* what starts with P, one step further down
LEMMA StartsStep ==
  ASSUME NEW P \in Path, NEW Q \in Path, NEW s \in STRING
  PROVE  Starts(P, Q \o <<s>>) <=> Starts(P, Q) \/ P = Q \o <<s>>
<1>1. PICK R : R = Q \o <<s>>
  OBVIOUS
<1>2. /\ R \in Path /\ Len(R) = Len(Q) + 1
      /\ \A i \in 1 .. Len(Q) : R[i] = Q[i]
  BY <1>1, OneStepDown
<1>3. Len(P) \in Nat /\ Len(Q) \in Nat /\ Len(R) \in Nat
  BY <1>2, PathFacts
<1>4. ASSUME Starts(P, R), ~(Len(P) <= Len(Q)) PROVE P = R
  <2>1. Len(P) = Len(R) /\ \A i \in 1 .. Len(P) : R[i] = P[i]
    BY <1>2, <1>3, <1>4, StartsFacts
  <2> QED BY <1>2, <2>1, SamePath
<1>5. ASSUME Len(P) <= Len(Q) PROVE Starts(P, R) <=> Starts(P, Q)
  <2>1. Len(P) <= Len(R) /\ \A i \in 1 .. Len(P) : R[i] = Q[i]
    BY <1>2, <1>3, <1>5
  <2> QED BY <1>2, <1>5, <2>1, StartsFacts
<1>6. P = R => Starts(P, R)
  BY <1>2, <1>3, StartsFacts
<1>7. Starts(P, Q) => Len(P) <= Len(Q)
  BY StartsFacts
<1> QED BY <1>1, <1>4, <1>5, <1>6, <1>7

LEMMA StartsOrder ==
  ASSUME NEW P \in Path, NEW Q \in Path, NEW R \in Path
  PROVE  /\ Starts(P, P)
         /\ Starts(P, Q) /\ Starts(Q, R) => Starts(P, R)
         /\ Starts(P, R) /\ Starts(Q, R) /\ Len(P) = Len(Q) => P = Q
         /\ Starts(P, Q) /\ Len(P) = Len(Q) => P = Q
<1>1. Len(P) \in Nat /\ Len(Q) \in Nat /\ Len(R) \in Nat
  BY PathFacts
<1>2. /\ Starts(P, P) <=> Len(P) <= Len(P) /\ \A i \in 1 .. Len(P) : P[i] = P[i]
      /\ Starts(P, Q) <=> Len(P) <= Len(Q) /\ \A i \in 1 .. Len(P) : Q[i] = P[i]
      /\ Starts(Q, R) <=> Len(Q) <= Len(R) /\ \A i \in 1 .. Len(Q) : R[i] = Q[i]
      /\ Starts(P, R) <=> Len(P) <= Len(R) /\ \A i \in 1 .. Len(P) : R[i] = P[i]
  BY StartsFacts
<1>3. Starts(P, P)
  BY <1>1, <1>2
<1>4. Starts(P, Q) /\ Starts(Q, R) => Starts(P, R)
  <2> SUFFICES ASSUME Starts(P, Q), Starts(Q, R) PROVE Starts(P, R)
    OBVIOUS
  <2>1. Len(P) <= Len(R) /\ \A i \in 1 .. Len(P) : i \in 1 .. Len(Q) /\ R[i] = Q[i] /\ Q[i] = P[i]
    BY <1>1, <1>2
  <2> QED BY <1>2, <2>1
<1>5. ASSUME Starts(P, R), Starts(Q, R), Len(P) = Len(Q) PROVE P = Q
  <2>1. \A i \in 1 .. Len(P) : P[i] = Q[i]
    BY <1>2, <1>5
  <2> QED BY <1>5, <2>1, SamePath
<1>6. ASSUME Starts(P, Q), Len(P) = Len(Q) PROVE P = Q
  <2>1. \A i \in 1 .. Len(P) : P[i] = Q[i]
    BY <1>2, <1>6
  <2> QED BY <1>6, <2>1, SamePath
<1> QED BY <1>3, <1>4, <1>5, <1>6

LEMMA UnderFacts ==
  ASSUME NEW P \in Path, NEW Q \in Path
  PROVE  Under(P, Q) <=> Starts(P, Q) /\ P # Q
<1>1. Len(P) \in Nat /\ Len(Q) \in Nat
  BY PathFacts
<1>2. Starts(P, Q) /\ Len(P) = Len(Q) => P = Q
  BY StartsOrder
<1>3. Starts(P, Q) => Len(P) <= Len(Q)
  BY StartsFacts
<1>4. Under(P, Q) => Starts(P, Q) /\ P # Q
  BY <1>1 DEF Under, Starts
<1>5. Starts(P, Q) /\ P # Q => Len(P) < Len(Q)
  BY <1>1, <1>2, <1>3
<1> QED BY <1>4, <1>5 DEF Under, Starts

-----------------------------------------------------------------------------
(* Trees. *)

TreeTypes ==
  /\ nodes \in [Nodes -> TreeRow \cup {Unborn, Gone}]
  /\ edited \in [Editors -> EditRow \cup {Idle}]
  /\ updates \in 0 .. MaxUpdates /\ outrun \in SUBSET Editors
  /\ \A n \in Present : nodes[n].path # <<>> /\ nodes[n].parent \in Present \cup {NoNode}
  /\ \A e \in Editing : edited[e].row.path # <<>>
NodesApart == \A n, m \in Present : nodes[n].path = nodes[m].path => n = m
\* what a request would write is what it would compute now
EditCurrent(r) ==
  /\ ParentFits(r.row.parent) /\ r.row.path = PathBelow(r.row.parent, r.row.title)
  /\ IF r.read = Unborn THEN nodes[r.node] = Unborn
     ELSE r.node \in Present /\ nodes[r.node] = r.read /\ NotBelowItself(r.node, r.row.parent)
TreeInv ==
  /\ TreeTypes
  /\ ~twinned => NodesApart
  /\ \A e \in Editing \ outrun : EditCurrent(edited[e])
  /\ PathsTellPlaces

\* the rows, one by one
LEMMA TreeRows ==
  ASSUME TreeTypes
  PROVE  /\ Present \in SUBSET Nodes
         /\ \A n \in Present :
              /\ nodes[n] \in TreeRow
              /\ nodes[n].parent \in Present \cup {NoNode} /\ nodes[n].parent \in Nodes \cup {NoNode} /\ nodes[n].title \in Titles
              /\ nodes[n].path \in Path /\ nodes[n].path # <<>>
         /\ Editing \in SUBSET Editors
         /\ \A e \in Editing :
              /\ edited[e] \in EditRow /\ edited[e].node \in Nodes /\ edited[e].row \in TreeRow
              /\ edited[e].row.path \in Path /\ edited[e].row.path # <<>>
              /\ edited[e].read = Unborn \/ (edited[e].read \in TreeRow /\ edited[e].read.path \in Path)
<1>1. Present \in SUBSET Nodes /\ Editing \in SUBSET Editors
  BY DEF Present, Editing
<1>2. ASSUME NEW n \in Present
      PROVE  /\ nodes[n] \in TreeRow
             /\ nodes[n].parent \in Present \cup {NoNode} /\ nodes[n].parent \in Nodes \cup {NoNode} /\ nodes[n].title \in Titles
             /\ nodes[n].path \in Path /\ nodes[n].path # <<>>
  <2>1. nodes[n] \in TreeRow
    BY DEF TreeTypes, Present
  <2>2. nodes[n].parent \in Nodes \cup {NoNode} /\ nodes[n].title \in Titles /\ nodes[n].path \in Path
    BY <2>1 DEF TreeRow, Path
  <2>3. nodes[n].path # <<>> /\ nodes[n].parent \in Present \cup {NoNode}
    BY DEF TreeTypes
  <2> QED BY <2>1, <2>2, <2>3
<1>3. ASSUME NEW e \in Editing
      PROVE  /\ edited[e] \in EditRow /\ edited[e].node \in Nodes /\ edited[e].row \in TreeRow
             /\ edited[e].row.path \in Path /\ edited[e].row.path # <<>>
             /\ edited[e].read = Unborn \/ (edited[e].read \in TreeRow /\ edited[e].read.path \in Path)
  <2>1. edited[e] \in EditRow
    BY DEF TreeTypes, Editing
  <2>2. edited[e].node \in Nodes /\ edited[e].row \in TreeRow /\ edited[e].read \in TreeRow \cup {Unborn}
    BY <2>1 DEF EditRow
  <2>3. \A row \in TreeRow : row.path \in Path
    BY DEF TreeRow, Path
  <2>4. edited[e].row.path # <<>>
    BY DEF TreeTypes
  <2> QED BY <2>1, <2>2, <2>3, <2>4
<1> QED BY <1>1, <1>2, <1>3

LEMMA PathBelowIsPath ==
  ASSUME TreeTypes, NEW parent \in Present \cup {NoNode}, NEW title \in Titles
  PROVE  /\ PathBelow(parent, title) \in Path /\ PathBelow(parent, title) # <<>>
         /\ parent # NoNode => Len(nodes[parent].path) + 1 = Len(PathBelow(parent, title))
<1>1. SlugOf[title] \in STRING
  BY TreeConstants
<1>2. PICK Q : Q = (IF parent = NoNode THEN <<>> ELSE nodes[parent].path)
  OBVIOUS
<1>3. Q \in Path
  BY <1>1, <1>2, PathOfOne, TreeRows
<1>4. PathBelow(parent, title) = Q \o <<SlugOf[title]>>
  BY <1>2 DEF PathBelow
<1>5. Q \o <<SlugOf[title]>> \in Path /\ Q \o <<SlugOf[title]>> # <<>> /\ Len(Q \o <<SlugOf[title]>>) = Len(Q) + 1
  BY <1>1, <1>3, OneStepDown
<1> QED BY <1>2, <1>4, <1>5

LEMMA TreeInitInv == TreeInit => TreeInv
<1> SUFFICES ASSUME TreeInit PROVE TreeInv
  OBVIOUS
<1>1. Present = {} /\ Editing = {}
  BY DEF TreeInit, Present, Editing
<1>2. TreeTypes
  BY <1>1, TreeConstants DEF TreeInit, TreeTypes
<1> QED BY <1>1, <1>2 DEF TreeInv, NodesApart, PathsTellPlaces

\* a step that leaves the rows of the tree as they are
LEMMA NodesStayPut ==
  ASSUME TreeInv, UNCHANGED <<nodes, interleaved, twinned>>
  PROVE  /\ Present' = Present
         /\ \A parent, title : PathBelow(parent, title)' = PathBelow(parent, title)
         /\ \A r : EditCurrent(r)' <=> EditCurrent(r)
         /\ (~twinned => NodesApart)' /\ PathsTellPlaces'
<1>1. Present' = Present
  BY DEF Present
<1>2. \A parent, title : PathBelow(parent, title)' = PathBelow(parent, title)
  BY DEF PathBelow
<1>3. \A r : EditCurrent(r)' <=> EditCurrent(r)
  BY <1>1, <1>2 DEF EditCurrent, ParentFits, NotBelowItself
<1>4. (~twinned => NodesApart)'
  BY <1>1 DEF TreeInv, NodesApart
<1>5. PathsTellPlaces'
  BY <1>1, <1>2 DEF TreeInv, PathsTellPlaces
<1> QED BY <1>1, <1>2, <1>3, <1>4, <1>5

\* an editor begins
LEMMA EditBegins ==
  ASSUME TreeInv, NEW e \in Editors, edited[e] = Idle, NEW r \in EditRow, r.row.path # <<>>, EditCurrent(r),
         edited' = [edited EXCEPT ![e] = r], UNCHANGED <<nodes, outrun, interleaved, twinned>>, updates' \in 0 .. MaxUpdates
  PROVE  TreeInv'
<1>1. edited \in [Editors -> EditRow \cup {Idle}]
  BY DEF TreeInv, TreeTypes
<1>2. edited'[e] = r /\ \A x \in Editors : x # e => edited'[x] = edited[x]
  BY <1>1
<1>3. edited' \in [Editors -> EditRow \cup {Idle}]
  BY <1>1
<1>4. \A x \in Editing' : x = e \/ x \in Editing
  BY <1>2 DEF Editing
<1>5. TreeTypes'
  <2>1. \A x \in Editing' : edited'[x].row.path # <<>>
    BY <1>2, <1>4 DEF TreeInv, TreeTypes, Editing
  <2> QED BY <1>3, <2>1, NodesStayPut DEF TreeInv, TreeTypes
<1>6. (\A x \in Editing \ outrun : EditCurrent(edited[x]))'
  <2>1. ASSUME NEW x \in Editing' \ outrun' PROVE EditCurrent(edited'[x])
    <3>1. CASE x = e
      BY <1>2, <3>1
    <3>2. CASE x # e
      BY <1>2, <1>4, <3>2 DEF TreeInv, Editing
    <3> QED BY <3>1, <3>2
  <2> QED BY <2>1, NodesStayPut
<1> QED BY <1>5, <1>6, NodesStayPut DEF TreeInv

LEMMA CreateKeepsInv ==
  ASSUME TreeInv, NEW e \in Editors, NEW title \in Titles, NEW parent \in Nodes \cup {NoNode}, BeginCreate(e, title, parent)
  PROVE  TreeInv'
<1>1. PICK n : n = Min(Numbers)
  OBVIOUS
<1>2. n \in Numbers
  <2>1. Numbers \in SUBSET Nat /\ Numbers # {}
    BY TreeConstants DEF Numbers, BeginCreate
  <2>2. \E k \in Numbers : \A m \in Numbers : k <= m
    BY <2>1, LeastNumber
  <2> QED BY <1>1, <2>2 DEF Min
<1>3. n \in Nodes /\ nodes[n] = Unborn
  BY <1>2 DEF Numbers
<1>4. parent \in Present \cup {NoNode} /\ edited[e] = Idle
  BY DEF BeginCreate, ParentFits
<1>5. PICK row : row = [parent |-> parent, title |-> title, path |-> PathBelow(parent, title)]
  OBVIOUS
<1>6. row \in TreeRow /\ row.path # <<>>
  BY <1>4, <1>5, PathBelowIsPath DEF TreeInv, TreeRow, Path
<1>7. PICK r : r = [node |-> n, read |-> Unborn, row |-> row]
  OBVIOUS
<1>8. r \in EditRow /\ r.row.path # <<>>
  BY <1>3, <1>6, <1>7 DEF EditRow
<1>9. EditCurrent(r)
  BY <1>3, <1>4, <1>5, <1>7 DEF EditCurrent, ParentFits
<1>10. edited' = [edited EXCEPT ![e] = r] /\ UNCHANGED <<nodes, outrun, interleaved, twinned>> /\ updates' \in 0 .. MaxUpdates
  BY <1>1, <1>5, <1>7 DEF BeginCreate, TreeInv, TreeTypes
<1> QED BY <1>4, <1>8, <1>9, <1>10, EditBegins

LEMMA UpdateKeepsInv ==
  ASSUME TreeInv, NEW e \in Editors, NEW title \in Titles, NEW parent \in Nodes \cup {NoNode}, NEW n \in Nodes,
         BeginUpdate(e, n, title, parent)
  PROVE  TreeInv'
<1>1. parent \in Present \cup {NoNode} /\ edited[e] = Idle /\ n \in Present /\ NotBelowItself(n, parent)
  BY DEF BeginUpdate, ParentFits
<1>2. PICK row : row = [parent |-> parent, title |-> title, path |-> PathBelow(parent, title)]
  OBVIOUS
<1>3. row \in TreeRow /\ row.path # <<>>
  BY <1>1, <1>2, PathBelowIsPath DEF TreeInv, TreeRow, Path
<1>4. nodes[n] \in TreeRow /\ nodes[n] # Unborn
  BY <1>1, TreeRows DEF TreeInv, Present
<1>5. PICK r : r = [node |-> n, read |-> nodes[n], row |-> row]
  OBVIOUS
<1>6. r \in EditRow /\ r.row.path # <<>>
  BY <1>3, <1>4, <1>5 DEF EditRow
<1>7. EditCurrent(r)
  BY <1>1, <1>2, <1>4, <1>5 DEF EditCurrent, ParentFits
<1>8. edited' = [edited EXCEPT ![e] = r] /\ UNCHANGED <<nodes, outrun, interleaved, twinned>> /\ updates' \in 0 .. MaxUpdates
  <2>1. updates \in 0 .. MaxUpdates /\ updates < MaxUpdates /\ updates' = updates + 1
    BY DEF BeginUpdate, TreeInv, TreeTypes
  <2> QED BY <1>2, <1>5, <2>1, TreeConstants DEF BeginUpdate
<1> QED BY <1>1, <1>6, <1>7, <1>8, EditBegins

LEMMA DropKeepsInv ==
  ASSUME TreeInv, NEW e \in Editors, DropEdit(e)
  PROVE  TreeInv'
<1>1. edited \in [Editors -> EditRow \cup {Idle}] /\ edited' = [edited EXCEPT ![e] = Idle]
  BY DEF TreeInv, TreeTypes, DropEdit
<1>2. edited'[e] = Idle /\ \A x \in Editors : x # e => edited'[x] = edited[x]
  BY <1>1
<1>3. \A x \in Editing' : x # e /\ x \in Editing /\ edited'[x] = edited[x]
  BY <1>2 DEF Editing
<1>4. UNCHANGED <<nodes, interleaved, twinned>> /\ UNCHANGED updates /\ outrun' = outrun \ {e}
  BY DEF DropEdit
<1>5. TreeTypes'
  <2>1. \A x \in Editing' : edited'[x].row.path # <<>>
    BY <1>3 DEF TreeInv, TreeTypes
  <2>2. edited' \in [Editors -> EditRow \cup {Idle}]
    BY <1>1
  <2> QED BY <1>4, <2>1, <2>2, NodesStayPut DEF TreeInv, TreeTypes
<1>6. (\A x \in Editing \ outrun : EditCurrent(edited[x]))'
  <2>1. ASSUME NEW x \in Editing' \ outrun' PROVE EditCurrent(edited'[x])
    BY <1>3, <1>4 DEF TreeInv
  <2> QED BY <1>4, <2>1, NodesStayPut
<1> QED BY <1>4, <1>5, <1>6, NodesStayPut DEF TreeInv

LEMMA DeleteKeepsInv ==
  ASSUME TreeInv, NEW n \in Nodes, DeleteNode(n)
  PROVE  TreeInv'
<1>1. n \in Present /\ (\A m \in Present : nodes[m].parent # n) /\ nodes' = [nodes EXCEPT ![n] = Gone]
      /\ outrun' = Editing /\ UNCHANGED <<edited, updates, interleaved, twinned>>
  BY DEF DeleteNode
<1>2. nodes \in [Nodes -> TreeRow \cup {Unborn, Gone}]
  BY DEF TreeInv, TreeTypes
<1>3. nodes'[n] = Gone /\ \A m \in Nodes : m # n => nodes'[m] = nodes[m]
  BY <1>1, <1>2
<1>4. Present' = Present \ {n} /\ Editing' = Editing
  BY <1>1, <1>3 DEF Present, Editing
<1>5. \A m \in Present' : m \in Present /\ nodes'[m] = nodes[m] /\ nodes[m].parent \in Present' \cup {NoNode}
  BY <1>1, <1>3, <1>4, TreeRows DEF TreeInv
<1>6. TreeTypes'
  <2>1. nodes' \in [Nodes -> TreeRow \cup {Unborn, Gone}]
    BY <1>1, <1>2
  <2>2. Editing \in SUBSET Editors
    BY DEF Editing
  <2>3. \A m \in Present' : nodes'[m].path # <<>> /\ nodes'[m].parent \in Present' \cup {NoNode}
    BY <1>5 DEF TreeInv, TreeTypes
  <2> QED BY <1>1, <1>4, <2>1, <2>2, <2>3 DEF TreeInv, TreeTypes
<1>7. (~twinned => NodesApart)'
  BY <1>1, <1>5 DEF TreeInv, NodesApart
<1>8. PathsTellPlaces'
  <2>1. ASSUME ~interleaved, ~twinned, NEW m \in Present' PROVE (nodes[m].path = PathBelow(nodes[m].parent, nodes[m].title))'
    <3>1. nodes[m].path = PathBelow(nodes[m].parent, nodes[m].title)
      BY <1>5, <2>1 DEF TreeInv, PathsTellPlaces
    <3>2. nodes[m].parent # NoNode => nodes'[nodes[m].parent] = nodes[nodes[m].parent]
      BY <1>5
    <3> QED BY <1>5, <3>1, <3>2 DEF PathBelow
  <2> QED BY <1>1, <2>1 DEF PathsTellPlaces
<1>9. (\A x \in Editing \ outrun : EditCurrent(edited[x]))'
  BY <1>1, <1>4
<1> QED BY <1>6, <1>7, <1>8, <1>9 DEF TreeInv

\* of a row: the columns that changed, and the others as they are now
LEMMA ColumnsChanged ==
  ASSUME NEW a \in TreeRow, NEW b \in TreeRow, NEW c \in TreeRow, NEW row,
         row = [column \in DOMAIN a |-> IF a[column] = b[column] THEN c[column] ELSE a[column]]
  PROVE  /\ row \in TreeRow /\ row.path \in {a.path, c.path}
         /\ b = c => row = a
<1>1. DOMAIN a = {"parent", "title", "path"} /\ a.parent \in Nodes \cup {NoNode} /\ a.title \in Titles /\ a.path \in Seq(STRING)
  BY DEF TreeRow
<1>2. c.parent \in Nodes \cup {NoNode} /\ c.title \in Titles /\ c.path \in Seq(STRING)
  BY DEF TreeRow
<1>3. row = [parent |-> row.parent, title |-> row.title, path |-> row.path]
  BY <1>1
<1>4. row.parent \in {a.parent, c.parent} /\ row.title \in {a.title, c.title} /\ row.path \in {a.path, c.path}
  BY <1>1
<1>5. row \in TreeRow
  BY <1>1, <1>2, <1>3, <1>4 DEF TreeRow
<1>6. ASSUME b = c PROVE row = a
  <2>1. row = [column \in DOMAIN a |-> a[column]]
    BY <1>6
  <2>2. a = [parent |-> a.parent, title |-> a.title, path |-> a.path]
    BY DEF TreeRow
  <2>3. row.parent = a.parent /\ row.title = a.title /\ row.path = a.path
    BY <1>1, <2>1
  <2> QED BY <1>3, <2>2, <2>3
<1> QED BY <1>4, <1>5, <1>6

\* The rows after a commit.
Committed(r, row) ==
  /\ r \in EditRow /\ r.node \in Nodes /\ row \in TreeRow /\ row.path # <<>> /\ row.parent \in Present \cup {NoNode}
  /\ r.row.path \in Path /\ r.row.path # <<>>
  /\ nodes'[r.node] = row /\ r.node \in Present' /\ Present' = Present \cup {r.node}
  /\ r.read = Unborn => row = r.row
  /\ r.read # Unborn => /\ r.node \in Present /\ r.read \in TreeRow /\ r.read.path \in Path
                        /\ nodes[r.node] = r.read => row = r.row
  /\ \A m \in Present : m # r.node =>
       /\ nodes'[m] \in TreeRow /\ nodes'[m].parent = nodes[m].parent /\ nodes'[m].title = nodes[m].title
       /\ nodes'[m].path = Repathed(r, m) /\ nodes'[m].path # <<>>
       /\ r.read = Unborn => nodes'[m].path = nodes[m].path
       /\ r.read # Unborn /\ (r.read.path # nodes[m].path \/ r.row.path = r.read.path) =>
            nodes'[m].path = Replaced(r.read.path, r.row.path, nodes[m].path)

LEMMA RowsCommitted ==
  ASSUME TreeTypes, NEW e \in Editors, CommitEdit(e), NEW r, r = edited[e], NEW row, row = RowWritten(r)
  PROVE  Committed(r, row)
<1>1. /\ r # Idle /\ e \in Editing /\ (r.node \in Present \/ r.read = Unborn)
      /\ row.parent \in Present \cup {NoNode}
      /\ nodes' = [n \in Nodes |-> IF n = r.node THEN row
                                   ELSE IF n \notin Present THEN nodes[n]
                                   ELSE [nodes[n] EXCEPT !.path = Repathed(r, n)]]
  BY DEF CommitEdit, Accepted, Editing
<1>2. /\ r \in EditRow /\ r.node \in Nodes /\ r.row \in TreeRow /\ r.row.path \in Path /\ r.row.path # <<>>
      /\ r.read = Unborn \/ (r.read \in TreeRow /\ r.read.path \in Path)
  BY <1>1, TreeRows
<1>3. /\ row \in TreeRow /\ row.path # <<>> /\ (r.read = Unborn => row = r.row)
      /\ (r.read # Unborn /\ nodes[r.node] = r.read => row = r.row)
  <2>1. CASE r.read = Unborn
    BY <1>2, <2>1 DEF RowWritten
  <2>2. CASE r.read # Unborn
    <3>1. nodes[r.node] \in TreeRow /\ nodes[r.node].path # <<>>
      BY <1>1, <2>2, TreeRows
    <3>2. row = [column \in DOMAIN r.row |-> IF r.row[column] = r.read[column] THEN nodes[r.node][column] ELSE r.row[column]]
      BY <2>2 DEF RowWritten
    <3>3. row \in TreeRow /\ row.path \in {r.row.path, nodes[r.node].path} /\ (r.read = nodes[r.node] => row = r.row)
      <4>1. PICK a, b, c : a = r.row /\ b = r.read /\ c = nodes[r.node]
        OBVIOUS
      <4>2. a \in TreeRow /\ b \in TreeRow /\ c \in TreeRow
        BY <1>2, <2>2, <3>1, <4>1
      <4>3. row = [column \in DOMAIN a |-> IF a[column] = b[column] THEN c[column] ELSE a[column]]
        BY <3>2, <4>1
      <4>4. row \in TreeRow /\ row.path \in {a.path, c.path} /\ (b = c => row = a)
        BY <4>2, <4>3, ColumnsChanged
      <4> QED BY <4>1, <4>4
    <3> QED BY <1>2, <2>2, <3>1, <3>3
  <2> QED BY <2>1, <2>2
<1>4. nodes'[r.node] = row /\ \A m \in Present : m # r.node => nodes'[m] = [nodes[m] EXCEPT !.path = Repathed(r, m)]
  <2>1. Present \in SUBSET Nodes
    BY DEF Present
  <2> QED BY <1>1, <1>2, <2>1
<1>5. ASSUME NEW m \in Present, m # r.node
      PROVE  /\ nodes'[m] \in TreeRow /\ nodes'[m].parent = nodes[m].parent /\ nodes'[m].title = nodes[m].title
             /\ nodes'[m].path = Repathed(r, m) /\ nodes'[m].path # <<>>
             /\ r.read = Unborn => nodes'[m].path = nodes[m].path
             /\ r.read # Unborn /\ (r.read.path # nodes[m].path \/ r.row.path = r.read.path) =>
                  nodes'[m].path = Replaced(r.read.path, r.row.path, nodes[m].path)
  <2>1. nodes[m] \in TreeRow /\ nodes[m].path \in Path /\ nodes[m].path # <<>>
    BY <1>5, TreeRows
  <2>2. PICK Q : Q = Repathed(r, m)
    OBVIOUS
  <2>3. /\ r.read = Unborn => Q = nodes[m].path
        /\ r.read # Unborn =>
             Q = IF r.read.path # r.row.path /\ Under(r.read.path, nodes[m].path)
                 THEN Replaced(r.read.path, r.row.path, nodes[m].path) ELSE nodes[m].path
    <3>1. r.read # Unborn /\ Under(r.read.path, nodes[m].path)
            => Rerooted(r, nodes[m].path) = Replaced(r.read.path, r.row.path, nodes[m].path)
      <4>1. r.read # Unborn /\ Under(r.read.path, nodes[m].path) => Starts(r.read.path, nodes[m].path)
        BY <1>2, <2>1, UnderFacts
      <4> QED BY <4>1 DEF Rerooted, Replaced, Carrying
    <3> QED BY <2>2, <3>1 DEF Repathed
  <2>4. Q \in Path /\ Q # <<>>
    <3>1. PICK P, T, R : P = r.read.path /\ T = r.row.path /\ R = nodes[m].path
      OBVIOUS
    <3>2. T \in Path /\ T # <<>> /\ R \in Path /\ R # <<>> /\ (r.read # Unborn => P \in Path)
      BY <1>2, <2>1, <3>1
    <3>3. r.read # Unborn => Replaced(P, T, R) \in Path /\ Replaced(P, T, R) # <<>>
      BY <3>2, ReplacedFacts
    <3> QED BY <2>3, <3>1, <3>2, <3>3
  <2>5. nodes'[m] = [nodes[m] EXCEPT !.path = Q]
    BY <1>4, <1>5, <2>2
  <2>6. /\ nodes'[m] \in TreeRow /\ nodes'[m].parent = nodes[m].parent /\ nodes'[m].title = nodes[m].title
        /\ nodes'[m].path = Q
    BY <2>1, <2>4, <2>5 DEF TreeRow, Path
  <2>7. ASSUME r.read # Unborn, r.read.path # nodes[m].path \/ r.row.path = r.read.path
        PROVE  Q = Replaced(r.read.path, r.row.path, nodes[m].path)
    <3>1. Under(r.read.path, nodes[m].path) <=> Starts(r.read.path, nodes[m].path) /\ r.read.path # nodes[m].path
      BY <1>2, <2>1, <2>7, UnderFacts
    <3>2. CASE r.row.path = r.read.path
      <4>1. Replaced(r.read.path, r.read.path, nodes[m].path) = nodes[m].path
        BY <1>2, <2>1, <2>7, ReplacedFacts
      <4> QED BY <2>3, <2>7, <3>2, <4>1
    <3>3. CASE r.row.path # r.read.path
      BY <2>3, <2>7, <3>1, <3>3 DEF Replaced
    <3> QED BY <3>2, <3>3
  <2> QED BY <2>2, <2>3, <2>4, <2>5, <2>6, <2>7
<1>6. r.node \in Present' /\ Present' = Present \cup {r.node}
  <2>1. \A m \in TreeRow : m \notin {Unborn, Gone}
    BY TreeConstants
  <2>2. r.node \in Present'
    BY <1>2, <1>3, <1>4, <2>1 DEF Present
  <2>3. Present \subseteq Present'
    <3> SUFFICES ASSUME NEW m \in Present, m # r.node PROVE m \in Present'
      BY <2>2
    <3>1. nodes'[m] \in TreeRow /\ m \in Nodes
      BY <1>5 DEF Present
    <3> QED BY <2>1, <3>1 DEF Present
  <2>4. \A m \in Present' : m = r.node \/ m \in Present
    BY <1>1 DEF Present
  <2> QED BY <2>2, <2>3, <2>4
<1> QED BY <1>1, <1>2, <1>3, <1>4, <1>5, <1>6 DEF Committed

LEMMA CommitKeepsTypes ==
  ASSUME TreeInv, NEW e \in Editors, CommitEdit(e)
  PROVE  TreeTypes' /\ (~twinned => NodesApart)' /\ (\A x \in Editing \ outrun : EditCurrent(edited[x]))'
<1>1. PICK r, row : r = edited[e] /\ row = RowWritten(r)
  OBVIOUS
<1>2. /\ row \in TreeRow /\ row.path # <<>> /\ row.parent \in Present \cup {NoNode} /\ r.node \in Nodes
      /\ nodes'[r.node] = row /\ r.node \in Present' /\ Present' = Present \cup {r.node}
      /\ \A m \in Present : m # r.node =>
           nodes'[m] \in TreeRow /\ nodes'[m].parent = nodes[m].parent /\ nodes'[m].path # <<>>
  <2>1. Committed(r, row)
    BY <1>1, RowsCommitted DEF TreeInv
  <2> QED BY <1>1, <2>1 DEF Committed
<1>3. edited \in [Editors -> EditRow \cup {Idle}] /\ edited' = [edited EXCEPT ![e] = Idle]
      /\ outrun' = (outrun \cup Editing) \ {e} /\ updates' = updates
  BY DEF TreeInv, TreeTypes, CommitEdit
<1>4. edited'[e] = Idle /\ \A x \in Editors : x # e => edited'[x] = edited[x]
  BY <1>3
<1>5. Editing' = Editing \ {e}
  BY <1>4 DEF Editing
<1>6. nodes' \in [Nodes -> TreeRow \cup {Unborn, Gone}]
  <2>1. DOMAIN nodes' = Nodes /\ nodes' = [n \in Nodes |-> nodes'[n]]
    BY DEF CommitEdit
  <2>2. ASSUME NEW n \in Nodes PROVE nodes'[n] \in TreeRow \cup {Unborn, Gone}
    <3>1. n \notin Present' => nodes'[n] \in {Unborn, Gone}
      BY DEF Present
    <3>2. n \in Present' => nodes'[n] \in TreeRow
      BY <1>2
    <3> QED BY <3>1, <3>2
  <2> QED BY <2>1, <2>2
<1>7. TreeTypes'
  <2>1. edited' \in [Editors -> EditRow \cup {Idle}]
    BY <1>3
  <2>2. outrun' \in SUBSET Editors /\ updates' \in 0 .. MaxUpdates
    BY <1>3 DEF TreeInv, TreeTypes, Editing
  <2>3. \A x \in Editing' : edited'[x].row.path # <<>>
    BY <1>4, <1>5 DEF TreeInv, TreeTypes, Editing
  <2>4. \A n \in Present' : nodes'[n].path # <<>> /\ nodes'[n].parent \in Present' \cup {NoNode}
    BY <1>2 DEF TreeInv, TreeTypes
  <2> QED BY <1>6, <2>1, <2>2, <2>3, <2>4 DEF TreeTypes
<1>8. (~twinned => NodesApart)'
  BY DEF CommitEdit, NodesApart
<1>9. (\A x \in Editing \ outrun : EditCurrent(edited[x]))'
  BY <1>3, <1>5
<1> QED BY <1>7, <1>8, <1>9

\* a new node, below a node that has its path
LEMMA CreatedTellPlaces ==
  ASSUME TreeInv, NEW e \in Editors, CommitEdit(e), ~interleaved', ~twinned', edited[e].read = Unborn
  PROVE  (\A n \in Present : nodes[n].path = PathBelow(nodes[n].parent, nodes[n].title))'
<1>1. PICK r, row : r = edited[e] /\ row = RowWritten(r)
  OBVIOUS
<1>2. /\ row = r.row /\ nodes'[r.node] = row /\ Present' = Present \cup {r.node} /\ row.parent \in Present \cup {NoNode}
      /\ \A m \in Present : m # r.node =>
           nodes'[m].parent = nodes[m].parent /\ nodes'[m].title = nodes[m].title /\ nodes'[m].path = nodes[m].path
  <2>1. Committed(r, row)
    BY <1>1, RowsCommitted DEF TreeInv
  <2> QED BY <1>1, <2>1 DEF Committed
<1>3. ~interleaved /\ ~twinned /\ e \in Editing \ outrun
  BY DEF CommitEdit, Editing
<1>4. EditCurrent(r) /\ \A n \in Present : nodes[n].path = PathBelow(nodes[n].parent, nodes[n].title)
  BY <1>1, <1>3 DEF TreeInv, PathsTellPlaces
<1>5. nodes[r.node] = Unborn /\ r.row.path = PathBelow(r.row.parent, r.row.title)
  BY <1>1, <1>4 DEF EditCurrent
<1>6. r.node \notin Present
  BY <1>5 DEF Present
<1>7. ASSUME NEW parent \in Present \cup {NoNode}, NEW title PROVE PathBelow(parent, title)' = PathBelow(parent, title)
  <2>1. parent # NoNode => nodes'[parent].path = nodes[parent].path
    BY <1>2, <1>6
  <2> QED BY <2>1 DEF PathBelow
<1>8. ASSUME NEW n \in Present' PROVE (nodes[n].path = PathBelow(nodes[n].parent, nodes[n].title))'
  <2>1. CASE n = r.node
    <3>1. PICK p, t : p = row.parent /\ t = row.title
      OBVIOUS
    <3>2. nodes'[n].parent = p /\ nodes'[n].title = t /\ nodes'[n].path = PathBelow(p, t)
      BY <1>2, <1>5, <2>1, <3>1
    <3>3. PathBelow(p, t)' = PathBelow(p, t)
      BY <1>2, <1>7, <3>1
    <3> QED BY <3>2, <3>3
  <2>2. CASE n # r.node
    <3>1. PICK p, t : p = nodes[n].parent /\ t = nodes[n].title
      OBVIOUS
    <3>2. n \in Present /\ p \in Present \cup {NoNode}
      BY <1>2, <2>2, <3>1 DEF TreeInv, TreeTypes
    <3>3. nodes'[n].parent = p /\ nodes'[n].title = t /\ nodes'[n].path = PathBelow(p, t)
      BY <1>2, <1>4, <2>2, <3>1, <3>2
    <3>4. PathBelow(p, t)' = PathBelow(p, t)
      BY <1>7, <3>2
    <3> QED BY <3>3, <3>4
  <2> QED BY <2>1, <2>2
<1> QED BY <1>8

\* A node renamed or moved, and what lies below it.
LEMMA UpdatedTellPlaces ==
  ASSUME TreeInv, NEW e \in Editors, CommitEdit(e), ~interleaved', ~twinned', edited[e].read # Unborn
  PROVE  (\A n \in Present : nodes[n].path = PathBelow(nodes[n].parent, nodes[n].title))'
<1>1. PICK r, row : r = edited[e] /\ row = RowWritten(r)
  OBVIOUS
<1>2. ~interleaved /\ ~twinned /\ e \in Editing \ outrun
  BY DEF CommitEdit, Editing
<1>3. EditCurrent(r) /\ NodesApart /\ TreeTypes /\ \A n \in Present : nodes[n].path = PathBelow(nodes[n].parent, nodes[n].title)
  BY <1>1, <1>2 DEF TreeInv, PathsTellPlaces
<1>4. PICK P, T : P = r.read.path /\ T = r.row.path
  OBVIOUS
<1>5. /\ nodes[r.node] = r.read /\ T = PathBelow(r.row.parent, r.row.title) /\ r.row.parent \in Present \cup {NoNode}
      /\ NotBelowItself(r.node, r.row.parent) /\ r.node \in Present
  BY <1>1, <1>3, <1>4 DEF EditCurrent, ParentFits
<1>6. /\ row = r.row /\ nodes'[r.node] = row /\ Present' = Present /\ P \in Path /\ T \in Path /\ T # <<>>
      /\ \A m \in Present : m # r.node =>
           /\ nodes'[m].parent = nodes[m].parent /\ nodes'[m].title = nodes[m].title
           /\ P # nodes[m].path => nodes'[m].path = Replaced(P, T, nodes[m].path)
  <2>1. /\ row = r.row /\ nodes'[r.node] = row /\ Present' = Present \cup {r.node} /\ r.row.path \in Path /\ r.row.path # <<>>
        /\ r.read.path \in Path
        /\ \A m \in Present : m # r.node =>
             /\ nodes'[m].parent = nodes[m].parent /\ nodes'[m].title = nodes[m].title
             /\ r.read.path # nodes[m].path => nodes'[m].path = Replaced(r.read.path, r.row.path, nodes[m].path)
    <3>1. Committed(r, row)
      BY <1>1, <1>3, RowsCommitted
    <3> QED BY <1>1, <1>5, <3>1 DEF Committed
  <2> QED BY <1>4, <1>5, <2>1
<1>7. nodes[r.node].path = P /\ P # <<>>
  BY <1>4, <1>5, TreeRows, <1>3
<1>8. \A m \in Present : m # r.node => nodes[m].path # P
  BY <1>3, <1>5, <1>7 DEF NodesApart
<1>9. ASSUME NEW m \in Present PROVE nodes'[m].path = Replaced(P, T, nodes[m].path)
  <2>1. Replaced(P, T, P) = T
    BY <1>6, ReplacedFacts
  <2> QED BY <1>4, <1>6, <1>7, <1>8, <2>1
<1>10. ASSUME NEW parent \in Present \cup {NoNode}, NEW title \in Titles, PathBelow(parent, title) # P
       PROVE  PathBelow(parent, title)' = Replaced(P, T, PathBelow(parent, title))
  <2>1. PICK Q, s : Q = (IF parent = NoNode THEN <<>> ELSE nodes[parent].path) /\ s = SlugOf[title]
    OBVIOUS
  <2>2. Q \in Path /\ s \in STRING
    BY <1>3, <2>1, PathOfOne, TreeRows, TreeConstants
  <2>3. PathBelow(parent, title) = Q \o <<s>>
    BY <2>1 DEF PathBelow
  <2>4. (IF parent = NoNode THEN <<>> ELSE nodes'[parent].path) = Replaced(P, T, Q)
    <3>1. Replaced(P, T, <<>>) = <<>>
      BY <1>6, <1>7, PathOfOne, ReplacedFacts
    <3> QED BY <1>9, <2>1, <3>1
  <2>5. PathBelow(parent, title)' = Replaced(P, T, Q) \o <<s>>
    BY <2>1, <2>4 DEF PathBelow
  <2>6. Replaced(P, T, Q \o <<s>>) = Replaced(P, T, Q) \o <<s>>
    BY <1>6, <1>10, <2>2, <2>3, ReplacedStep
  <2> QED BY <2>3, <2>5, <2>6
<1>11. PathBelow(r.row.parent, r.row.title)' = T
  <2>1. PICK p, t : p = r.row.parent /\ t = r.row.title
    OBVIOUS
  <2>2. p \in Present \cup {NoNode}
    BY <1>5, <2>1
  <2>3. p # NoNode => nodes'[p].path = nodes[p].path
    <3> SUFFICES ASSUME p # NoNode PROVE nodes'[p].path = nodes[p].path
      OBVIOUS
    <3>1. nodes[p].path # P /\ ~Under(P, nodes[p].path) /\ nodes[p].path \in Path
      BY <1>3, <1>5, <1>7, <2>1, <2>2, TreeRows DEF NotBelowItself
    <3>2. ~Starts(P, nodes[p].path)
      BY <1>6, <3>1, UnderFacts
    <3> QED BY <1>9, <2>2, <3>2 DEF Replaced
  <2>4. PathBelow(p, t)' = PathBelow(p, t)
    BY <2>3 DEF PathBelow
  <2> QED BY <1>5, <2>1, <2>4
<1>12. ASSUME NEW n \in Present' PROVE (nodes[n].path = PathBelow(nodes[n].parent, nodes[n].title))'
  <2>1. CASE n = r.node
    <3>1. nodes'[n].parent = r.row.parent /\ nodes'[n].title = r.row.title /\ nodes'[n].path = T
      BY <1>4, <1>6, <2>1
    <3> QED BY <1>11, <3>1
  <2>2. CASE n # r.node
    <3>1. PICK p, t : p = nodes[n].parent /\ t = nodes[n].title
      OBVIOUS
    <3>2. n \in Present /\ p \in Present \cup {NoNode} /\ t \in Titles
      BY <1>3, <1>6, <3>1, TreeRows
    <3>3. nodes'[n].parent = p /\ nodes'[n].title = t /\ nodes[n].path = PathBelow(p, t) /\ nodes[n].path # P
      BY <1>3, <1>6, <1>8, <2>2, <3>1, <3>2
    <3>4. PathBelow(p, t)' = Replaced(P, T, PathBelow(p, t))
      BY <1>10, <3>2, <3>3
    <3>5. nodes'[n].path = Replaced(P, T, PathBelow(p, t))
      BY <1>9, <3>2, <3>3
    <3> QED BY <3>3, <3>4, <3>5
  <2> QED BY <2>1, <2>2
<1> QED BY <1>12

LEMMA CommitKeepsInv ==
  ASSUME TreeInv, NEW e \in Editors, CommitEdit(e)
  PROVE  TreeInv'
<1>1. PathsTellPlaces'
  BY CreatedTellPlaces, UpdatedTellPlaces DEF PathsTellPlaces
<1> QED BY <1>1, CommitKeepsTypes DEF TreeInv

LEMMA TreeStepInv == TreeInv /\ [TreeNext]_treevars => TreeInv'
<1> SUFFICES ASSUME TreeInv, [TreeNext]_treevars PROVE TreeInv'
  OBVIOUS
<1>1. CASE UNCHANGED treevars
  BY <1>1 DEF treevars, TreeInv, TreeTypes, NodesApart, EditCurrent, PathsTellPlaces, PathBelow, ParentFits, NotBelowItself,
              Present, Editing
<1>2. ASSUME NEW e \in Editors, NEW title \in Titles, NEW parent \in Nodes \cup {NoNode}, BeginCreate(e, title, parent)
      PROVE  TreeInv'
  BY <1>2, CreateKeepsInv
<1>3. ASSUME NEW e \in Editors, NEW title \in Titles, NEW parent \in Nodes \cup {NoNode}, NEW n \in Nodes,
             BeginUpdate(e, n, title, parent)
      PROVE  TreeInv'
  BY <1>3, UpdateKeepsInv
<1>4. ASSUME NEW e \in Editors, CommitEdit(e) \/ DropEdit(e) PROVE TreeInv'
  BY <1>4, CommitKeepsInv, DropKeepsInv
<1>5. ASSUME NEW n \in Nodes, DeleteNode(n) PROVE TreeInv'
  BY <1>5, DeleteKeepsInv
<1> QED BY <1>1, <1>2, <1>3, <1>4, <1>5 DEF TreeNext

\* All are shown: no path of a parent is as long as that of its child, so that
\* what is not shown would have a parent that is not shown either, without end.
LEMMA AllShown == TreeInv => AllAreShown
<1> SUFFICES ASSUME TreeInv, ~interleaved, ~twinned PROVE Shown = Present
  BY DEF AllAreShown
<1>1. \A n \in Present : nodes[n].path = PathBelow(nodes[n].parent, nodes[n].title)
  BY DEF TreeInv, PathsTellPlaces
<1>2. PICK roots : roots = {n \in Present : nodes[n].parent = NoNode}
  OBVIOUS
<1>3. PICK step : step = [T \in SUBSET Nodes |-> T \cup {n \in Present : nodes[n].parent \in T}]
  OBVIOUS
<1>4. Present \in SUBSET Nodes /\ roots \in SUBSET Nodes /\ step \in [SUBSET Nodes -> SUBSET Nodes]
      /\ \A T \in SUBSET Nodes : T \subseteq step[T]
  BY <1>2, <1>3 DEF Present
<1>5. PICK h \in [Nat -> SUBSET Nodes] : h[0] = roots /\ \A k \in Nat : h[k + 1] = step[h[k]]
  <2>1. PICK A : A = SUBSET Nodes
    OBVIOUS
  <2>2. roots \in A /\ step \in [A -> A]
    BY <1>4, <2>1
  <2>3. \E h : h \in [Nat -> A] /\ h[0] = roots /\ \A n \in Nat : h[n + 1] = step[h[n]]
    BY <2>2, IterationExists
  <2> QED BY <2>1, <2>3
<1> DEFINE IsGrow(w) ==
             w = [k \in Nat |-> IF k = 0 THEN {n \in Present : nodes[n].parent = NoNode}
                                ELSE w[k - 1] \cup {n \in Present : nodes[n].parent \in w[k - 1]}]
<1>6. IsGrow(h)
  <2>1. ASSUME NEW k \in Nat, k # 0 PROVE h[k] = h[k - 1] \cup {n \in Present : nodes[n].parent \in h[k - 1]}
    <3>1. k - 1 \in Nat /\ (k - 1) + 1 = k
      BY <2>1
    <3>2. h[k] = step[h[k - 1]] /\ h[k - 1] \in SUBSET Nodes
      BY <1>5, <3>1
    <3> QED BY <1>3, <3>2
  <2>2. h = [k \in Nat |-> h[k]]
    OBVIOUS
  <2> QED BY <1>2, <1>5, <2>1, <2>2
<1>7. PICK w : IsGrow(w) /\ Shown = w[Cardinality(Nodes)]
  <2>1. Shown = (CHOOSE v : IsGrow(v))[Cardinality(Nodes)]
    BY DEF Shown
  <2>2. IsGrow(CHOOSE v : IsGrow(v))
    <3> HIDE DEF IsGrow
    <3> QED BY <1>6
  <2> HIDE DEF IsGrow
  <2> QED BY <2>1, <2>2
<1>8. w[0] = roots /\ \A k \in Nat : w[k + 1] = w[k] \cup {n \in Present : nodes[n].parent \in w[k]}
  <2>1. ASSUME NEW k \in Nat PROVE w[k + 1] = w[k] \cup {n \in Present : nodes[n].parent \in w[k]}
    <3>1. k + 1 \in Nat /\ k + 1 # 0 /\ (k + 1) - 1 = k
      OBVIOUS
    <3> QED BY <1>7, <3>1
  <2> QED BY <1>2, <1>7, <2>1
<1>9. \A k \in Nat : w[k] \in SUBSET Present
  <2> DEFINE P == {k \in Nat : w[k] \in SUBSET Present}
  <2>1. 0 \in P
    BY <1>2, <1>8
  <2>2. \A k \in P : k + 1 \in P
    BY <1>8
  <2>3. P = Nat
    <3>1. P \in SUBSET Nat
      OBVIOUS
    <3> HIDE DEF P
    <3> QED BY <2>1, <2>2, <3>1, NumberInduction
  <2> QED BY <2>3
<1>10. step[Shown] = Shown /\ roots \subseteq Shown /\ Shown \subseteq Present
  <2>1. \A k \in Nat : w[k + 1] = step[w[k]]
    BY <1>3, <1>4, <1>8, <1>9
  <2>2. IsFiniteSet(Nodes) /\ Cardinality(Nodes) \in Nat
    BY TreeConstants, FS_CardinalityType
  <2>3. /\ \A n \in Nat : w[n] \in SUBSET Nodes /\ w[0] \subseteq w[n]
        /\ step[w[Cardinality(Nodes)]] = w[Cardinality(Nodes)]
    BY <1>4, <1>8, <2>1, <2>2, GrowthStops
  <2> QED BY <1>7, <1>8, <1>9, <2>2, <2>3
<1>11. \A n \in Present : nodes[n].parent \in Shown => n \in Shown
  BY <1>3, <1>4, <1>10
<1> SUFFICES ASSUME Present \ Shown # {} PROVE FALSE
  BY <1>10
<1>12. \A n \in Present : Len(nodes[n].path) \in Nat
  BY TreeRows, PathFacts DEF TreeInv
<1>13. PICK n \in Present \ Shown : \A m \in Present \ Shown : Len(nodes[n].path) <= Len(nodes[m].path)
  <2> DEFINE Lengths == {Len(nodes[m].path) : m \in Present \ Shown}
  <2>1. Lengths \in SUBSET Nat /\ Lengths # {}
    BY <1>12
  <2>2. PICK l \in Lengths : \A k \in Lengths : l <= k
    <3> HIDE DEF Lengths
    <3> QED BY <2>1, LeastNumber
  <2> QED BY <2>2
<1>14. PICK p, t : p = nodes[n].parent /\ t = nodes[n].title
  OBVIOUS
<1>15. p \in Present /\ p # NoNode /\ t \in Titles
  <2>1. p \in Present \cup {NoNode} /\ t \in Titles
    BY <1>14, TreeRows DEF TreeInv
  <2>2. p # NoNode
    BY <1>2, <1>10, <1>14
  <2> QED BY <2>1, <2>2
<1>16. p \notin Shown
  BY <1>11, <1>14
<1>17. Len(nodes[n].path) = Len(nodes[p].path) + 1
  <2>1. nodes[n].path = PathBelow(p, t)
    BY <1>1, <1>14
  <2>2. Len(nodes[p].path) + 1 = Len(PathBelow(p, t))
    BY <1>15, PathBelowIsPath DEF TreeInv
  <2> QED BY <2>1, <2>2
<1> QED BY <1>12, <1>13, <1>15, <1>16, <1>17

LEMMA TreesAlwaysHold == TreeSpec => []TreesHold
<1>1. TreeInv => TreesHold
  <2>1. TreeInv => TreeTypeOK
    <3> SUFFICES ASSUME TreeInv PROVE TreeTypeOK
      OBVIOUS
    <3>1. \A n \in Present : /\ nodes[n].parent \in Present \cup {NoNode} /\ nodes[n].title \in Titles
                             /\ nodes[n].path \in Path /\ nodes[n].path # <<>>
      BY TreeRows DEF TreeInv
    <3>2. \A n \in Present : Len(nodes[n].path) > 0
      BY <3>1, PathFacts
    <3> QED BY <3>1, <3>2 DEF TreeTypeOK, TreeInv, TreeTypes
  <2> QED BY <2>1, AllShown DEF TreesHold, TreeInv
<1> QED BY <1>1, TreeInitInv, TreeStepInv, PTL DEF TreeSpec

-----------------------------------------------------------------------------
(* The chart of accounts. *)

ChartTypes ==
  /\ chart \in [Accounts -> ChartRow \cup {Closed}]
  /\ keepings \in [Keepers -> KeepRow \cup {Resting}]
  /\ renames \in 0 .. MaxRenames /\ passed \in SUBSET Keepers
  /\ \A a \in Opened : chart[a].path # <<>> /\ ParentOf[a] \in Opened \cup {TopLevel}
\* what a request that has begun may still count on
KeepSound(r) ==
  /\ ParentOf[r.account] \in Opened \cup {TopLevel}
  /\ r.account \in Opened \cup DOMAIN r.paths /\ DOMAIN r.paths \subseteq Opened \cup {r.account}
  /\ \A b \in DOMAIN r.paths : r.paths[b] # <<>>
  /\ r.step = "load" => r.account \in Opened /\ DOMAIN r.paths = {r.account}
PathOf(a, label) == Above(a) \o <<LabelSlug[label]>>
\* the paths a rename of a writes that has read them now
Loaded(a, from, to) ==
  IF to = from THEN <<>>
  ELSE [b \in {b \in Opened : Starts(from, chart[b].path)} \cup {a} |->
         IF b = a THEN to ELSE Carrying(from, to, chart[b].path)]
\* what a request would write is what it would compute now
KeepCurrent(r) ==
  IF r.account \notin Opened
  THEN r.step = "write" /\ r.paths = [b \in {r.account} |-> PathOf(r.account, r.label)]
  ELSE /\ r.from = chart[r.account].path
       /\ r.paths = IF r.step = "load" THEN [b \in {r.account} |-> PathOf(r.account, r.label)]
                    ELSE Loaded(r.account, r.from, PathOf(r.account, r.label))
ChartApart == \A a, b \in Opened : chart[a].path = chart[b].path => a = b
PathsInPlace == \A a \in Opened : chart[a].path = PathOf(a, chart[a].label)
ChartInv ==
  /\ ChartTypes
  /\ \A k \in Keeping : KeepSound(keepings[k])
  /\ ~doubled => ChartApart
  /\ \A k \in Keeping \ passed : KeepCurrent(keepings[k])
  /\ ~mixed /\ ~doubled => PathsInPlace

LEMMA ChartRows ==
  ASSUME ChartTypes
  PROVE  /\ Opened \in SUBSET Accounts
         /\ \A a \in Opened :
              /\ chart[a] \in ChartRow /\ chart[a].label \in Labels /\ chart[a].path \in Path /\ chart[a].path # <<>>
              /\ ParentOf[a] \in Opened \cup {TopLevel}
         /\ Keeping \in SUBSET Keepers
         /\ \A k \in Keeping :
              /\ keepings[k] \in KeepRow /\ keepings[k].account \in Accounts /\ keepings[k].label \in Labels
              /\ keepings[k].from \in Path /\ DOMAIN keepings[k].paths \in SUBSET Accounts
              /\ \A b \in DOMAIN keepings[k].paths : keepings[k].paths[b] \in Path
<1>1. Opened \in SUBSET Accounts /\ Keeping \in SUBSET Keepers
  BY DEF Opened, Keeping
<1>2. ASSUME NEW a \in Opened
      PROVE  /\ chart[a] \in ChartRow /\ chart[a].label \in Labels /\ chart[a].path \in Path /\ chart[a].path # <<>>
             /\ ParentOf[a] \in Opened \cup {TopLevel}
  <2>1. chart[a] \in ChartRow
    BY DEF ChartTypes, Opened
  <2> QED BY <2>1 DEF ChartRow, Path, ChartTypes
<1>3. ASSUME NEW k \in Keeping
      PROVE  /\ keepings[k] \in KeepRow /\ keepings[k].account \in Accounts /\ keepings[k].label \in Labels
             /\ keepings[k].from \in Path /\ DOMAIN keepings[k].paths \in SUBSET Accounts
             /\ \A b \in DOMAIN keepings[k].paths : keepings[k].paths[b] \in Path
  <2>1. keepings[k] \in KeepRow
    BY DEF ChartTypes, Keeping
  <2>2. /\ keepings[k].account \in Accounts /\ keepings[k].label \in Labels /\ keepings[k].from \in Path
        /\ keepings[k].paths \in UNION {[some -> Seq(STRING)] : some \in SUBSET Accounts}
    BY <2>1 DEF KeepRow, Path
  <2>3. PICK some \in SUBSET Accounts : keepings[k].paths \in [some -> Seq(STRING)]
    BY <2>2
  <2> QED BY <2>1, <2>2, <2>3 DEF Path
<1> QED BY <1>1, <1>2, <1>3

LEMMA PathOfIsPath ==
  ASSUME ChartTypes, NEW a \in Accounts, ParentOf[a] \in Opened \cup {TopLevel}, NEW label \in Labels
  PROVE  /\ Above(a) \in Path /\ LabelSlug[label] \in STRING
         /\ PathOf(a, label) \in Path /\ PathOf(a, label) # <<>> /\ Len(PathOf(a, label)) = Len(Above(a)) + 1
<1>1. Above(a) \in Path
  <2>1. <<>> \in Path
    BY EmptySeq DEF Path
  <2>2. ParentOf[a] # TopLevel => chart[ParentOf[a]].path \in Path
    BY ChartRows
  <2> QED BY <2>1, <2>2 DEF Above
<1>2. LabelSlug[label] \in STRING
  BY ChartConstants
<1> QED BY <1>1, <1>2, OneStepDown DEF PathOf

LEMMA ChartInitInv == ChartInit => ChartInv
<1> SUFFICES ASSUME ChartInit PROVE ChartInv
  OBVIOUS
<1>1. PICK rootLabel \in Labels :
        chart = [a \in Accounts |-> IF ParentOf[a] # TopLevel THEN Closed
                                    ELSE [label |-> rootLabel, path |-> <<LabelSlug[rootLabel]>>]]
  BY DEF ChartInit
<1>2. PICK row : row = [label |-> rootLabel, path |-> <<LabelSlug[rootLabel]>>]
  OBVIOUS
<1>3. row \in ChartRow /\ row.path # <<>> /\ row.path = <<>> \o <<LabelSlug[rootLabel]>>
  <2>1. PICK s, t : s = LabelSlug[rootLabel] /\ t = <<>> \o <<s>>
    OBVIOUS
  <2>2. s \in STRING
    BY <2>1, ChartConstants
  <2>3. <<s>> \in Path /\ Len(<<s>>) = 1 /\ <<s>>[1] = s /\ <<>> \in Path /\ Len(<<>>) = 0
    BY <2>2, PathOfOne
  <2>4. t \in Path /\ Len(t) = 1 /\ t[1] = s /\ t # <<>>
    <3>1. t \in Path /\ Len(t) = Len(<<>>) + 1 /\ t[Len(<<>>) + 1] = s /\ t # <<>>
      BY <2>1, <2>2, <2>3, OneStepDown
    <3> QED BY <2>3, <3>1
  <2>5. t = <<s>>
    <3>1. PICK q : q = <<s>>
      OBVIOUS
    <3>2. q \in Path /\ Len(t) = Len(q) /\ \A i \in 1 .. Len(t) : t[i] = q[i]
      BY <2>3, <2>4, <3>1
    <3> QED BY <2>4, <3>1, <3>2, SamePath
  <2>6. <<s>> \in Seq(STRING)
    BY <2>3 DEF Path
  <2> QED BY <1>2, <2>1, <2>4, <2>5, <2>6 DEF ChartRow
<1>4. \A a \in Accounts : chart[a] = IF ParentOf[a] # TopLevel THEN Closed ELSE row
  BY <1>1, <1>2
<1>5. Opened = {a \in Accounts : ParentOf[a] = TopLevel} /\ \A a \in Opened : chart[a] = row
  BY <1>3, <1>4, ChartConstants DEF Opened
<1>6. Keeping = {}
  BY DEF ChartInit, Keeping
<1>7. ChartTypes
  <2>1. chart \in [Accounts -> ChartRow \cup {Closed}]
    BY <1>1, <1>2, <1>3
  <2>2. keepings \in [Keepers -> KeepRow \cup {Resting}] /\ renames \in 0 .. MaxRenames /\ passed \in SUBSET Keepers
    BY ChartConstants DEF ChartInit
  <2> QED BY <1>3, <1>5, <2>1, <2>2 DEF ChartTypes
<1>8. ChartApart
  <2>1. IsFiniteSet(Opened) /\ Cardinality(Opened) = 1
    BY <1>5, FS_Subset, ChartConstants
  <2>2. \E a : Opened = {a}
    BY <2>1, FS_Singleton
  <2> QED BY <2>2 DEF ChartApart
<1>9. PathsInPlace
  <2>1. \A a \in Opened : Above(a) = <<>> /\ chart[a].label = rootLabel /\ chart[a].path = <<>> \o <<LabelSlug[rootLabel]>>
    BY <1>2, <1>3, <1>5 DEF Above
  <2> QED BY <2>1, Zenon DEF PathsInPlace, PathOf
<1> QED BY <1>6, <1>7, <1>8, <1>9 DEF ChartInv

\* a step that leaves the rows as they are
LEMMA ChartStaysPut ==
  ASSUME ChartInv, UNCHANGED <<chart, mixed, doubled>>
  PROVE  /\ Opened' = Opened
         /\ \A r : (KeepSound(r)' <=> KeepSound(r)) /\ (KeepCurrent(r)' <=> KeepCurrent(r))
         /\ (~doubled => ChartApart)' /\ (~mixed /\ ~doubled => PathsInPlace)'
<1>1. Opened' = Opened
  BY DEF Opened
<1>2. \A a, label : PathOf(a, label)' = PathOf(a, label)
  BY DEF PathOf, Above
<1>3. \A a, from, to : Loaded(a, from, to)' = Loaded(a, from, to)
  BY <1>1 DEF Loaded
<1>4. \A r : KeepSound(r)' <=> KeepSound(r)
  BY <1>1 DEF KeepSound
<1>5. \A r : KeepCurrent(r)' <=> KeepCurrent(r)
  BY <1>1, <1>2, <1>3 DEF KeepCurrent
<1>6. (~doubled => ChartApart)'
  BY <1>1 DEF ChartInv, ChartApart
<1>7. (~mixed /\ ~doubled => PathsInPlace)'
  BY <1>1, <1>2 DEF ChartInv, PathsInPlace
<1> QED BY <1>1, <1>4, <1>5, <1>6, <1>7

\* a clerk begins, or reads
LEMMA KeepingBegins ==
  ASSUME ChartInv, NEW k \in Keepers, NEW r \in KeepRow, KeepSound(r), k \notin passed \/ keepings[k] = Resting => KeepCurrent(r),
         keepings' = [keepings EXCEPT ![k] = r], UNCHANGED <<chart, passed, mixed, doubled>>, renames' \in 0 .. MaxRenames
  PROVE  ChartInv'
<1>1. keepings \in [Keepers -> KeepRow \cup {Resting}]
  BY DEF ChartInv, ChartTypes
<1>2. keepings'[k] = r /\ \A x \in Keepers : x # k => keepings'[x] = keepings[x]
  BY <1>1
<1>3. keepings' \in [Keepers -> KeepRow \cup {Resting}]
  BY <1>1
<1>4. \A x \in Keeping' : x = k \/ x \in Keeping
  BY <1>2 DEF Keeping
<1>5. ChartTypes'
  BY <1>3, ChartStaysPut DEF ChartInv, ChartTypes
<1>6. (\A x \in Keeping : KeepSound(keepings[x]))'
  <2>1. ASSUME NEW x \in Keeping' PROVE KeepSound(keepings'[x])
    BY <1>2, <1>4 DEF ChartInv, Keeping
  <2> QED BY <2>1, ChartStaysPut
<1>7. (\A x \in Keeping \ passed : KeepCurrent(keepings[x]))'
  <2>1. ASSUME NEW x \in Keeping' \ passed' PROVE KeepCurrent(keepings'[x])
    BY <1>2, <1>4 DEF ChartInv, Keeping
  <2> QED BY <2>1, ChartStaysPut
<1> QED BY <1>5, <1>6, <1>7, ChartStaysPut DEF ChartInv

LEMMA OpenKeepsInv ==
  ASSUME ChartInv, NEW k \in Keepers, NEW a \in Accounts, NEW label \in Labels, BeginOpen(k, a, label)
  PROVE  ChartInv'
<1>1. a \notin Opened /\ ParentOf[a] \in Opened
  BY DEF BeginOpen
<1>2. PICK paths : paths = [b \in {a} |-> Above(a) \o <<LabelSlug[label]>>]
  OBVIOUS
<1>3. PathOf(a, label) \in Path /\ PathOf(a, label) # <<>>
  BY <1>1, PathOfIsPath DEF ChartInv
<1>4. paths = [b \in {a} |-> PathOf(a, label)] /\ paths[a] = PathOf(a, label) /\ DOMAIN paths = {a}
  BY <1>2 DEF PathOf
<1>5. PICK r : r = [account |-> a, label |-> label, step |-> "write", from |-> <<>>, paths |-> paths]
  OBVIOUS
<1>6. r \in KeepRow
  <2>1. paths \in [{a} -> Seq(STRING)]
    BY <1>3, <1>4 DEF Path
  <2>2. paths \in UNION {[some -> Seq(STRING)] : some \in SUBSET Accounts}
    BY <2>1
  <2>3. <<>> \in Seq(STRING)
    BY EmptySeq
  <2> QED BY <1>5, <2>2, <2>3 DEF KeepRow
<1>7. KeepSound(r)
  BY <1>1, <1>3, <1>4, <1>5 DEF KeepSound
<1>8. KeepCurrent(r)
  BY <1>1, <1>4, <1>5 DEF KeepCurrent
<1>9. keepings' = [keepings EXCEPT ![k] = r] /\ UNCHANGED <<chart, renames, passed, mixed, doubled>>
  BY <1>2, <1>5 DEF BeginOpen
<1>10. renames' \in 0 .. MaxRenames
  BY <1>9 DEF ChartInv, ChartTypes
<1> QED BY <1>6, <1>7, <1>8, <1>9, <1>10, KeepingBegins

LEMMA RenameKeepsInv ==
  ASSUME ChartInv, NEW k \in Keepers, NEW a \in Accounts, NEW label \in Labels, BeginRename(k, a, label)
  PROVE  ChartInv'
<1>1. a \in Opened /\ ParentOf[a] \in Opened \cup {TopLevel} /\ chart[a].path \in Path
  BY ChartRows DEF BeginRename, ChartInv
<1>2. PICK paths : paths = [b \in {a} |-> Above(a) \o <<LabelSlug[label]>>]
  OBVIOUS
<1>3. PathOf(a, label) \in Path /\ PathOf(a, label) # <<>>
  BY <1>1, PathOfIsPath DEF ChartInv
<1>4. paths = [b \in {a} |-> PathOf(a, label)] /\ paths[a] = PathOf(a, label) /\ DOMAIN paths = {a}
  BY <1>2 DEF PathOf
<1>5. PICK r : r = [account |-> a, label |-> label, step |-> "load", from |-> chart[a].path, paths |-> paths]
  OBVIOUS
<1>6. r \in KeepRow
  <2>1. paths \in [{a} -> Seq(STRING)]
    BY <1>3, <1>4 DEF Path
  <2>2. paths \in UNION {[some -> Seq(STRING)] : some \in SUBSET Accounts}
    BY <2>1
  <2> QED BY <1>1, <1>5, <2>2 DEF KeepRow, Path
<1>7. KeepSound(r)
  BY <1>1, <1>3, <1>4, <1>5 DEF KeepSound
<1>8. KeepCurrent(r)
  BY <1>1, <1>4, <1>5 DEF KeepCurrent
<1>9. keepings' = [keepings EXCEPT ![k] = r] /\ UNCHANGED <<chart, passed, mixed, doubled>>
  BY <1>2, <1>5 DEF BeginRename
<1>10. renames' \in 0 .. MaxRenames
  <2>1. renames \in 0 .. MaxRenames /\ renames < MaxRenames /\ renames' = renames + 1
    BY DEF BeginRename, ChartInv, ChartTypes
  <2> QED BY <2>1, ChartConstants
<1> QED BY <1>6, <1>7, <1>8, <1>9, <1>10, KeepingBegins

\* the paths loaded, one by one
LEMMA LoadedFacts ==
  ASSUME ChartTypes, NEW a \in Accounts, NEW from \in Path, NEW to \in Path, to # <<>>, NEW paths, paths = Loaded(a, from, to)
  PROVE  /\ paths \in UNION {[some -> Seq(STRING)] : some \in SUBSET Accounts}
         /\ DOMAIN paths \subseteq Opened \cup {a} /\ \A b \in DOMAIN paths : paths[b] # <<>>
         /\ to # from => a \in DOMAIN paths /\ paths[a] = to
         /\ \A b \in Opened : b # a => (IF b \in DOMAIN paths THEN paths[b] ELSE chart[b].path) = Replaced(from, to, chart[b].path)
<1>1. CASE to = from
  <2>1. paths = <<>>
    BY <1>1 DEF Loaded
  <2>2. DOMAIN paths = {} /\ paths \in [{} -> Seq(STRING)]
    BY <2>1
  <2>3. \A b \in Opened : Replaced(from, to, chart[b].path) = chart[b].path
    BY <1>1, ChartRows, ReplacedFacts
  <2> QED BY <1>1, <2>2, <2>3
<1>2. CASE to # from
  <2>1. PICK some : some = {b \in Opened : Starts(from, chart[b].path)} \cup {a}
    OBVIOUS
  <2>2. paths = [b \in some |-> IF b = a THEN to ELSE Carrying(from, to, chart[b].path)]
    BY <1>2, <2>1 DEF Loaded
  <2>3. some \in SUBSET Accounts /\ some \subseteq Opened \cup {a}
    BY <2>1, ChartRows
  <2>4. \A b \in Opened : Replaced(from, to, chart[b].path) \in Path /\ Replaced(from, to, chart[b].path) # <<>>
    BY ChartRows, ReplacedFacts
  <2>5. \A b \in some : b # a => Carrying(from, to, chart[b].path) = Replaced(from, to, chart[b].path) /\ b \in Opened
    BY <2>1 DEF Replaced
  <2>6. \A b \in some : paths[b] \in Path /\ paths[b] # <<>>
    BY <2>2, <2>4, <2>5
  <2>7. paths \in [some -> Seq(STRING)]
    BY <2>2, <2>6 DEF Path
  <2>8. \A b \in Opened : b # a /\ b \notin some => Replaced(from, to, chart[b].path) = chart[b].path
    BY <2>1 DEF Replaced
  <2>9. DOMAIN paths = some /\ a \in some /\ paths[a] = to
    BY <2>1, <2>2
  <2>10. ASSUME NEW b \in Opened, b # a
         PROVE  (IF b \in DOMAIN paths THEN paths[b] ELSE chart[b].path) = Replaced(from, to, chart[b].path)
    BY <2>2, <2>5, <2>8, <2>9, <2>10
  <2> QED BY <1>2, <2>3, <2>6, <2>7, <2>9, <2>10
<1> QED BY <1>1, <1>2

LEMMA LoadKeepsInv ==
  ASSUME ChartInv, NEW k \in Keepers, LoadChart(k)
  PROVE  ChartInv'
<1>1. PICK r : r = keepings[k]
  OBVIOUS
<1>2. k \in Keeping /\ r.step = "load" /\ r \in KeepRow /\ KeepSound(r) /\ (k \notin passed => KeepCurrent(r))
  <2>1. k \in Keeping
    BY DEF LoadChart, Keeping
  <2>2. keepings[k] \in KeepRow
    BY <2>1, ChartRows DEF ChartInv
  <2> QED BY <1>1, <2>1, <2>2 DEF ChartInv, LoadChart
<1>3. /\ r.account \in Accounts /\ r.from \in Path /\ DOMAIN r.paths = {r.account} /\ r.account \in Opened
      /\ ParentOf[r.account] \in Opened \cup {TopLevel}
      /\ r.paths[r.account] \in Path /\ r.paths[r.account] # <<>>
  <2>1. r.account \in Accounts /\ r.from \in Path /\ \A b \in DOMAIN r.paths : r.paths[b] \in Path
    BY <1>1, <1>2, ChartRows DEF ChartInv
  <2> QED BY <1>2, <2>1 DEF KeepSound
<1>4. PICK a, from, to, paths : a = r.account /\ from = r.from /\ to = r.paths[r.account] /\ paths = Rewritten(r)
  OBVIOUS
<1>5. paths = Loaded(a, from, to)
  BY <1>4 DEF Loaded, Rewritten, Carrying
<1>6. /\ paths \in UNION {[some -> Seq(STRING)] : some \in SUBSET Accounts}
      /\ DOMAIN paths \subseteq Opened \cup {a} /\ \A b \in DOMAIN paths : paths[b] # <<>>
  BY <1>3, <1>4, <1>5, LoadedFacts DEF ChartInv
<1>7. PICK q : q = [r EXCEPT !.step = "write", !.paths = paths]
  OBVIOUS
<1>8. q \in KeepRow /\ q.account = a /\ q.label = r.label /\ q.from = from /\ q.step = "write" /\ q.paths = paths
  BY <1>2, <1>4, <1>6, <1>7 DEF KeepRow
<1>9. KeepSound(q)
  BY <1>3, <1>4, <1>6, <1>8 DEF KeepSound
<1>10. k \notin passed => KeepCurrent(q)
  <2> SUFFICES ASSUME KeepCurrent(r) PROVE KeepCurrent(q)
    BY <1>2
  <2>1. from = chart[a].path /\ r.paths = [b \in {a} |-> PathOf(a, r.label)]
    BY <1>2, <1>3, <1>4 DEF KeepCurrent
  <2>2. to = PathOf(a, r.label)
    BY <1>4, <2>1
  <2> QED BY <1>3, <1>4, <1>5, <1>8, <2>1, <2>2 DEF KeepCurrent
<1>11. keepings' = [keepings EXCEPT ![k] = q] /\ UNCHANGED <<chart, renames, passed, mixed, doubled>>
  <2>1. keepings' = [keepings EXCEPT ![k].step = "write", ![k].paths = paths]
    BY <1>1, <1>4 DEF LoadChart
  <2>2. [keepings EXCEPT ![k].step = "write", ![k].paths = paths] = [keepings EXCEPT ![k] = q]
    BY <1>1, <1>7 DEF ChartInv, ChartTypes
  <2> QED BY <2>1, <2>2 DEF LoadChart
<1>12. renames' \in 0 .. MaxRenames /\ keepings[k] # Resting
  BY <1>11 DEF ChartInv, ChartTypes, LoadChart
<1> QED BY <1>8, <1>9, <1>10, <1>11, <1>12, KeepingBegins

LEMMA DropKeepingKeepsInv ==
  ASSUME ChartInv, NEW k \in Keepers, DropKeeping(k)
  PROVE  ChartInv'
<1>1. keepings \in [Keepers -> KeepRow \cup {Resting}] /\ keepings' = [keepings EXCEPT ![k] = Resting]
  BY DEF ChartInv, ChartTypes, DropKeeping
<1>2. keepings'[k] = Resting /\ \A x \in Keepers : x # k => keepings'[x] = keepings[x]
  BY <1>1
<1>3. \A x \in Keeping' : x # k /\ x \in Keeping /\ keepings'[x] = keepings[x]
  BY <1>2 DEF Keeping
<1>4. UNCHANGED <<chart, mixed, doubled>> /\ UNCHANGED renames /\ passed' = passed \ {k}
  BY DEF DropKeeping
<1>5. keepings' \in [Keepers -> KeepRow \cup {Resting}]
  BY <1>1
<1>6. ChartTypes'
  BY <1>4, <1>5, ChartStaysPut DEF ChartInv, ChartTypes
<1>7. (\A x \in Keeping : KeepSound(keepings[x]))'
  <2>1. ASSUME NEW x \in Keeping' PROVE KeepSound(keepings'[x])
    BY <1>3 DEF ChartInv
  <2> QED BY <1>4, <2>1, ChartStaysPut
<1>8. (\A x \in Keeping \ passed : KeepCurrent(keepings[x]))'
  <2>1. ASSUME NEW x \in Keeping' \ passed' PROVE KeepCurrent(keepings'[x])
    BY <1>3, <1>4 DEF ChartInv
  <2> QED BY <1>4, <2>1, ChartStaysPut
<1> QED BY <1>4, <1>6, <1>7, <1>8, ChartStaysPut DEF ChartInv

\* The rows after a commit.
RowsAfter(r) ==
  /\ r.account \in Accounts /\ r.label \in Labels /\ Opened' = Opened \cup {r.account}
  /\ \A a \in Opened' :
       /\ chart'[a] \in ChartRow /\ chart'[a].path # <<>>
       /\ chart'[a].label = IF a = r.account THEN r.label ELSE chart[a].label
       /\ chart'[a].path = IF a \in DOMAIN r.paths THEN r.paths[a] ELSE chart[a].path

LEMMA RowsAfterCommit ==
  ASSUME ChartInv, NEW k \in Keepers, CommitKeeping(k), NEW r, r = keepings[k]
  PROVE  RowsAfter(r) /\ k \in Keeping
<1>1. k \in Keeping
  BY DEF CommitKeeping, Keeping
<1>2. /\ r \in KeepRow /\ r.account \in Accounts /\ r.label \in Labels
      /\ \A b \in DOMAIN r.paths : r.paths[b] \in Path
  BY <1>1, ChartRows DEF ChartInv
<1>3. KeepSound(r)
  BY <1>1 DEF ChartInv
<1>4. chart' = [a \in Accounts |->
          IF a # r.account /\ a \notin DOMAIN r.paths THEN chart[a]
          ELSE [label |-> IF a = r.account THEN r.label ELSE chart[a].label,
                path |-> IF a \in DOMAIN r.paths THEN r.paths[a] ELSE chart[a].path]]
  BY DEF CommitKeeping
<1>5. /\ Opened \in SUBSET Accounts
      /\ \A a \in Opened : chart[a] \in ChartRow /\ chart[a].label \in Labels /\ chart[a].path \in Path /\ chart[a].path # <<>>
  BY ChartRows DEF ChartInv
<1>6. DOMAIN r.paths \subseteq Opened \cup {r.account} /\ (\A b \in DOMAIN r.paths : r.paths[b] # <<>>)
      /\ r.account \in Opened \cup DOMAIN r.paths
  BY <1>3 DEF KeepSound
<1>7. ASSUME NEW a \in Opened \cup {r.account}
      PROVE  /\ chart'[a] \in ChartRow /\ chart'[a].path # <<>>
             /\ chart'[a].label = IF a = r.account THEN r.label ELSE chart[a].label
             /\ chart'[a].path = IF a \in DOMAIN r.paths THEN r.paths[a] ELSE chart[a].path
  <2>1. CASE a # r.account /\ a \notin DOMAIN r.paths
    BY <1>4, <1>5, <2>1
  <2>2. CASE ~(a # r.account /\ a \notin DOMAIN r.paths)
    <3>1. PICK l, p : /\ l = (IF a = r.account THEN r.label ELSE chart[a].label)
                      /\ p = (IF a \in DOMAIN r.paths THEN r.paths[a] ELSE chart[a].path)
      OBVIOUS
    <3>2. chart'[a] = [label |-> l, path |-> p]
      BY <1>2, <1>4, <1>5, <2>2, <3>1
    <3>3. l \in Labels /\ p \in Seq(STRING) /\ p # <<>>
      BY <1>2, <1>5, <1>6, <3>1 DEF Path
    <3>4. chart'[a] \in ChartRow
      BY <3>2, <3>3 DEF ChartRow
    <3> QED BY <3>1, <3>2, <3>3, <3>4
  <2> QED BY <2>1, <2>2
<1>8. Opened' = Opened \cup {r.account}
  <2>1. \A a \in Opened \cup {r.account} : a \in Opened'
    BY <1>2, <1>5, <1>7, ChartConstants DEF Opened
  <2>2. \A a \in Opened' : a \in Opened \cup {r.account}
    BY <1>4, <1>6 DEF Opened
  <2> QED BY <2>1, <2>2
<1> QED BY <1>1, <1>2, <1>7, <1>8 DEF RowsAfter

LEMMA CommitKeepsChart ==
  ASSUME ChartInv, NEW k \in Keepers, CommitKeeping(k)
  PROVE  /\ ChartTypes' /\ (~doubled => ChartApart)'
         /\ (\A x \in Keeping : KeepSound(keepings[x]))' /\ (\A x \in Keeping \ passed : KeepCurrent(keepings[x]))'
<1>1. PICK r : r = keepings[k]
  OBVIOUS
<1>2. RowsAfter(r) /\ k \in Keeping
  BY <1>1, RowsAfterCommit
<1>3. /\ r.account \in Accounts /\ Opened' = Opened \cup {r.account}
      /\ \A a \in Opened' : chart'[a] \in ChartRow /\ chart'[a].path # <<>>
  BY <1>2 DEF RowsAfter
<1>4. keepings \in [Keepers -> KeepRow \cup {Resting}] /\ keepings' = [keepings EXCEPT ![k] = Resting]
      /\ passed' = (passed \cup Keeping) \ {k} /\ renames' = renames
  BY DEF ChartInv, ChartTypes, CommitKeeping
<1>5. keepings'[k] = Resting /\ \A x \in Keepers : x # k => keepings'[x] = keepings[x]
  BY <1>4
<1>6. \A x \in Keeping' : x # k /\ x \in Keeping /\ keepings'[x] = keepings[x]
  BY <1>5 DEF Keeping
<1>7. ChartTypes'
  <2>1. chart' \in [Accounts -> ChartRow \cup {Closed}]
    <3>1. chart' = [a \in Accounts |-> chart'[a]]
      BY DEF CommitKeeping
    <3>2. \A a \in Accounts : chart'[a] \in ChartRow \cup {Closed}
      <4>1. \A a \in Accounts : a \notin Opened' => chart'[a] = Closed
        BY DEF Opened
      <4> QED BY <1>3, <4>1
    <3> QED BY <3>1, <3>2
  <2>2. keepings' \in [Keepers -> KeepRow \cup {Resting}] /\ renames' \in 0 .. MaxRenames /\ passed' \in SUBSET Keepers
    BY <1>4 DEF ChartInv, ChartTypes, Keeping
  <2>3. ParentOf[r.account] \in Opened \cup {TopLevel}
    BY <1>1, <1>2 DEF ChartInv, KeepSound
  <2>4. \A a \in Opened : ParentOf[a] \in Opened \cup {TopLevel}
    BY DEF ChartInv, ChartTypes
  <2>5. \A a \in Opened' : ParentOf[a] \in Opened' \cup {TopLevel}
    BY <1>3, <2>3, <2>4
  <2> QED BY <1>3, <2>1, <2>2, <2>5 DEF ChartTypes
<1>8. (~doubled => ChartApart)'
  BY DEF CommitKeeping, ChartApart
<1>9. (\A x \in Keeping : KeepSound(keepings[x]))'
  <2>1. ASSUME NEW x \in Keeping' PROVE KeepSound(keepings[x])'
    <3>1. PICK q : q = keepings[x]
      OBVIOUS
    <3>2. KeepSound(q) /\ keepings'[x] = q
      BY <1>6, <3>1 DEF ChartInv
    <3> QED BY <1>3, <3>2 DEF KeepSound
  <2> QED BY <2>1
<1>10. (\A x \in Keeping \ passed : KeepCurrent(keepings[x]))'
  BY <1>4, <1>6
<1> QED BY <1>7, <1>8, <1>9, <1>10

\* a new account, below an account that has its path
LEMMA OpenedInPlace ==
  ASSUME ChartInv, NEW k \in Keepers, CommitKeeping(k), ~mixed', ~doubled', keepings[k].account \notin Opened
  PROVE  PathsInPlace'
<1>1. PICK r : r = keepings[k]
  OBVIOUS
<1>2. RowsAfter(r) /\ k \in Keeping /\ KeepSound(r)
  BY <1>1, RowsAfterCommit DEF ChartInv
<1>3. ~mixed /\ ~doubled /\ k \in Keeping \ passed
  BY <1>2 DEF CommitKeeping
<1>4. KeepCurrent(r) /\ PathsInPlace /\ ChartTypes
  BY <1>1, <1>3 DEF ChartInv
<1>5. r.account \notin Opened /\ r.paths = [b \in {r.account} |-> PathOf(r.account, r.label)]
  BY <1>1, <1>4 DEF KeepCurrent
<1>6. /\ r.account \in Accounts /\ Opened' = Opened \cup {r.account} /\ DOMAIN r.paths = {r.account}
      /\ chart'[r.account].label = r.label /\ chart'[r.account].path = PathOf(r.account, r.label)
      /\ \A a \in Opened : chart'[a].label = chart[a].label /\ chart'[a].path = chart[a].path
  BY <1>2, <1>5 DEF RowsAfter
<1>7. \A a \in Opened' : ParentOf[a] \in Opened \cup {TopLevel}
  BY <1>2, <1>4, <1>6 DEF ChartTypes, KeepSound
<1>8. \A a \in Opened' : Above(a)' = Above(a)
  BY <1>6, <1>7 DEF Above
<1>9. \A a \in Opened' : \A label : PathOf(a, label)' = PathOf(a, label)
  BY <1>8 DEF PathOf
<1>10. ASSUME NEW a \in Opened' PROVE (chart[a].path = PathOf(a, chart[a].label))'
  <2>1. PICK label : label = chart'[a].label
    OBVIOUS
  <2>2. chart'[a].path = PathOf(a, label)
    BY <1>4, <1>5, <1>6, <2>1 DEF PathsInPlace
  <2>3. PathOf(a, label)' = PathOf(a, label)
    BY <1>9
  <2> QED BY <2>1, <2>2, <2>3
<1> QED BY <1>10 DEF PathsInPlace

\* An account renamed, and what lies below it.
LEMMA RenamedInPlace ==
  ASSUME ChartInv, NEW k \in Keepers, CommitKeeping(k), ~mixed', ~doubled', keepings[k].account \in Opened
  PROVE  PathsInPlace'
<1>1. PICK r : r = keepings[k]
  OBVIOUS
<1>2. RowsAfter(r) /\ k \in Keeping /\ KeepSound(r)
  BY <1>1, RowsAfterCommit DEF ChartInv
<1>3. ~mixed /\ ~doubled /\ k \in Keeping \ passed
  BY <1>2 DEF CommitKeeping
<1>4. KeepCurrent(r) /\ PathsInPlace /\ ChartTypes /\ ChartApart
  BY <1>1, <1>3 DEF ChartInv
<1>5. PICK c, P, T : c = r.account /\ P = r.from /\ T = PathOf(r.account, r.label)
  OBVIOUS
<1>6. c \in Opened /\ P = chart[c].path /\ r.paths = Loaded(c, P, T)
  BY <1>1, <1>4, <1>5 DEF KeepCurrent, CommitKeeping
<1>7. /\ Opened \in SUBSET Accounts /\ c \in Accounts /\ P \in Path /\ P # <<>> /\ T \in Path /\ T # <<>> /\ r.label \in Labels
      /\ Above(c) \in Path /\ Len(P) = Len(Above(c)) + 1
  <2>1. /\ Opened \in SUBSET Accounts /\ c \in Accounts /\ ParentOf[c] \in Opened \cup {TopLevel}
        /\ P \in Path /\ P # <<>> /\ chart[c].label \in Labels
    BY <1>4, <1>6, ChartRows
  <2>2. r.label \in Labels
    BY <1>2 DEF RowsAfter
  <2>3. T \in Path /\ T # <<>> /\ Above(c) \in Path
    BY <1>4, <1>5, <2>1, <2>2, PathOfIsPath
  <2>4. Len(P) = Len(Above(c)) + 1
    BY <1>4, <1>6, <2>1, PathOfIsPath DEF PathsInPlace
  <2> QED BY <2>1, <2>2, <2>3, <2>4
<1>8. /\ Opened' = Opened /\ chart'[c].label = r.label /\ chart'[c].path = T
      /\ \A a \in Opened : a # c => chart'[a].label = chart[a].label /\ chart'[a].path = Replaced(P, T, chart[a].path)
  <2>1. /\ T # P => c \in DOMAIN r.paths /\ r.paths[c] = T
        /\ T = P => r.paths = <<>>
        /\ \A b \in Opened : b # c => (IF b \in DOMAIN r.paths THEN r.paths[b] ELSE chart[b].path) = Replaced(P, T, chart[b].path)
    <3>1. T = P => r.paths = <<>>
      BY <1>6 DEF Loaded
    <3> QED BY <1>4, <1>6, <1>7, <3>1, LoadedFacts
  <2>2. /\ Opened' = Opened \cup {c}
        /\ \A a \in Opened' : /\ chart'[a].label = IF a = c THEN r.label ELSE chart[a].label
                              /\ chart'[a].path = IF a \in DOMAIN r.paths THEN r.paths[a] ELSE chart[a].path
    BY <1>2, <1>5 DEF RowsAfter
  <2>3. T = P => DOMAIN r.paths = {}
    BY <2>1
  <2> QED BY <1>6, <2>1, <2>2, <2>3
<1>9. \A a \in Opened : chart'[a].path = Replaced(P, T, chart[a].path)
  <2>1. Replaced(P, T, P) = T
    BY <1>7, ReplacedFacts
  <2> QED BY <1>6, <1>8, <2>1
<1>10. \A a \in Opened : a # c => chart[a].path # P
  BY <1>4, <1>6 DEF ChartApart
<1>11. ASSUME NEW a \in Opened PROVE Above(a)' = Replaced(P, T, Above(a))
  <2>1. Replaced(P, T, <<>>) = <<>>
    <3>1. <<>> \in Path
      BY EmptySeq DEF Path
    <3> QED BY <1>7, <3>1, ReplacedFacts
  <2>2. ParentOf[a] \in Opened \cup {TopLevel}
    BY <1>4 DEF ChartTypes
  <2> QED BY <1>9, <2>1, <2>2 DEF Above
<1>12. ASSUME NEW a \in Opened PROVE (chart[a].path = PathOf(a, chart[a].label))'
  <2>1. PICK label, Q : label = chart'[a].label /\ Q = Above(a)
    OBVIOUS
  <2>2. Above(a)' = Replaced(P, T, Q)
    BY <1>11, <2>1
  <2>3. PathOf(a, label)' = Replaced(P, T, Q) \o <<LabelSlug[label]>>
    BY <2>2 DEF PathOf
  <2>4. CASE a = c
    <3>1. ~Starts(P, Q)
      <4>1. Len(Q) \in Nat /\ Len(P) = Len(Q) + 1
        BY <1>7, <2>1, <2>4, PathFacts
      <4> QED BY <1>7, <2>1, <2>4, <4>1, StartsFacts
    <3>2. PathOf(a, label)' = Q \o <<LabelSlug[label]>>
      BY <2>3, <3>1 DEF Replaced
    <3>3. T = Q \o <<LabelSlug[label]>>
      BY <1>5, <1>8, <2>1, <2>4 DEF PathOf
    <3> QED BY <1>8, <2>1, <2>4, <3>2, <3>3
  <2>5. CASE a # c
    <3>1. label = chart[a].label /\ chart[a].path = Q \o <<LabelSlug[label]>>
      <4>1. label = chart[a].label
        BY <1>8, <2>1, <2>5
      <4>2. chart[a].path = PathOf(a, label)
        BY <1>4, <4>1 DEF PathsInPlace
      <4> QED BY <2>1, <4>1, <4>2 DEF PathOf
    <3>2. Q \in Path /\ LabelSlug[label] \in STRING
      <4>1. a \in Accounts /\ ParentOf[a] \in Opened \cup {TopLevel} /\ label \in Labels
        BY <1>4, <3>1, ChartRows
      <4> QED BY <1>4, <2>1, <4>1, PathOfIsPath
    <3>3. P # Q \o <<LabelSlug[label]>>
      BY <1>10, <2>5, <3>1
    <3>4. Replaced(P, T, Q \o <<LabelSlug[label]>>) = Replaced(P, T, Q) \o <<LabelSlug[label]>>
      BY <1>7, <3>2, <3>3, ReplacedStep
    <3>5. chart'[a].path = Replaced(P, T, Q \o <<LabelSlug[label]>>)
      BY <1>9, <3>1
    <3> QED BY <2>1, <2>3, <3>4, <3>5
  <2> QED BY <2>4, <2>5
<1> QED BY <1>8, <1>12 DEF PathsInPlace

LEMMA ChartStepInv == ChartInv /\ [ChartNext]_chartvars => ChartInv'
<1> SUFFICES ASSUME ChartInv, [ChartNext]_chartvars PROVE ChartInv'
  OBVIOUS
<1>1. CASE UNCHANGED chartvars
  <2>1. UNCHANGED <<chart, keepings, renames, passed, mixed, doubled>> /\ Keeping' = Keeping
    BY <1>1 DEF chartvars, Keeping
  <2>2. ChartTypes'
    BY <2>1, ChartStaysPut DEF ChartInv, ChartTypes
  <2>3. (\A k \in Keeping : KeepSound(keepings[k]))' /\ (\A k \in Keeping \ passed : KeepCurrent(keepings[k]))'
    BY <2>1, ChartStaysPut DEF ChartInv
  <2> QED BY <2>1, <2>2, <2>3, ChartStaysPut DEF ChartInv
<1>2. ASSUME NEW k \in Keepers, NEW a \in Accounts, NEW label \in Labels, BeginOpen(k, a, label) \/ BeginRename(k, a, label)
      PROVE  ChartInv'
  BY <1>2, OpenKeepsInv, RenameKeepsInv
<1>3. ASSUME NEW k \in Keepers, LoadChart(k) \/ CommitKeeping(k) \/ DropKeeping(k) PROVE ChartInv'
  <2>1. CASE CommitKeeping(k)
    <3>1. (~mixed /\ ~doubled => PathsInPlace)'
      BY <2>1, OpenedInPlace, RenamedInPlace
    <3> QED BY <2>1, <3>1, CommitKeepsChart DEF ChartInv
  <2> QED BY <1>3, <2>1, LoadKeepsInv, DropKeepingKeepsInv
<1> QED BY <1>1, <1>2, <1>3 DEF ChartNext

-----------------------------------------------------------------------------
(* The statements. *)

RowOf(reading, b) == {leaf \in Leaves : Starts(chart[b].path, chart[leaf].path) /\ reading[chart[b].path] = b}

\* Rows that have each of some accounts once and no others show what those add up to.
LEMMA RowsAddUp ==
  ASSUME NEW reading, NEW C \in SUBSET Accounts, NEW L \in SUBSET Leaves,
         \A leaf \in L : \E b \in C : leaf \in RowOf(reading, b) /\ \A x \in C : leaf \in RowOf(reading, x) => x = b,
         \A leaf \in Leaves \ L, b \in C : leaf \notin RowOf(reading, b),
         NEW f, \A b \in C : f[b] = RowAmount(reading, b)
  PROVE  SumFunctionOnSet(f, C) = SumFunctionOnSet(NetOf, L)
<1>1. IsFiniteSet(C) /\ IsFiniteSet(Leaves) /\ IsFiniteSet(L)
  BY FS_Subset, ChartConstants DEF Leaves, PostedTo
<1>2. \A leaf \in Leaves : NetOf[leaf] \in Int
  BY ChartConstants DEF Leaves
<1>3. PICK m : m = [b \in C |-> [leaf \in Leaves |-> IF leaf \in RowOf(reading, b) THEN NetOf[leaf] ELSE 0]]
  OBVIOUS
<1>4. \A b \in C : \A leaf \in Leaves : m[b][leaf] = (IF leaf \in RowOf(reading, b) THEN NetOf[leaf] ELSE 0) /\ m[b][leaf] \in Int
  BY <1>2, <1>3
<1>5. ASSUME NEW b \in C PROVE f[b] = SumFunctionOnSet(m[b], Leaves)
  <2>1. PICK R : R = RowOf(reading, b)
    OBVIOUS
  <2>2. R \in SUBSET Leaves
    BY <2>1 DEF RowOf
  <2>3. f[b] = SumFunctionOnSet(NetOf, R)
    BY <2>1 DEF RowAmount, RowOf
  <2>4. SumFunctionOnSet(NetOf, R) = SumFunctionOnSet([leaf \in Leaves |-> IF leaf \in R THEN NetOf[leaf] ELSE 0], Leaves)
    BY <1>1, <1>2, <2>2, SumOfChosen
  <2>5. m[b] = [leaf \in Leaves |-> IF leaf \in R THEN NetOf[leaf] ELSE 0]
    BY <1>3, <2>1
  <2> QED BY <2>3, <2>4, <2>5
<1>6. PICK t : t = [leaf \in Leaves |-> [b \in C |-> m[b][leaf]]]
  OBVIOUS
<1>7. PICK column : column = [leaf \in Leaves |-> SumFunctionOnSet(t[leaf], C)]
  OBVIOUS
<1>8. SumFunctionOnSet(f, C) = SumFunctionOnSet(column, Leaves)
  <2>1. Transposes(t, m, C, Leaves)
    BY <1>4, <1>6 DEF Transposes
  <2>2. AddsRows(f, m, C, Leaves)
    BY <1>5 DEF AddsRows
  <2>3. AddsRows(column, t, Leaves, C)
    BY <1>7 DEF AddsRows
  <2> QED BY <1>1, <2>1, <2>2, <2>3, SumOfRows
<1>9. ASSUME NEW leaf \in Leaves PROVE column[leaf] = IF leaf \in L THEN NetOf[leaf] ELSE 0
  <2>1. PICK g : g = t[leaf]
    OBVIOUS
  <2>2. column[leaf] = SumFunctionOnSet(g, C)
    BY <1>7, <2>1
  <2>3. \A b \in C : g[b] = IF leaf \in RowOf(reading, b) THEN NetOf[leaf] ELSE 0
    BY <1>4, <1>6, <2>1
  <2>4. CASE leaf \in L
    <3>1. PICK b \in C : leaf \in RowOf(reading, b) /\ \A x \in C : leaf \in RowOf(reading, x) => x = b
      BY <2>4
    <3>2. g[b] = NetOf[leaf] /\ g[b] \in Int /\ \A x \in C \ {b} : g[x] = 0
      BY <1>2, <2>3, <3>1
    <3>3. SumFunctionOnSet(g, C) = g[b]
      BY <1>1, <3>2, SumOfOne
    <3> QED BY <2>2, <2>4, <3>2, <3>3
  <2>5. CASE leaf \notin L
    <3>1. \A b \in C : g[b] = 0
      BY <2>3, <2>5
    <3>2. SumFunctionOnSet(g, C) = 0
      BY <1>1, <3>1, SumOfZeros
    <3> QED BY <2>2, <2>5, <3>2
  <2> QED BY <2>4, <2>5
<1>10. SumFunctionOnSet(NetOf, L) = SumFunctionOnSet(column, Leaves)
  <2>1. column = [leaf \in Leaves |-> IF leaf \in L THEN NetOf[leaf] ELSE 0]
    BY <1>7, <1>9
  <2>2. \A leaf \in L : NetOf[leaf] \in Int
    BY <1>2
  <2> QED BY <1>1, <2>1, <2>2, SumOfChosen
<1> QED BY <1>8, <1>10

LEMMA ReadingFacts ==
  ASSUME NEW reading \in Readings, NEW a \in Opened
  PROVE  reading[chart[a].path] \in Opened /\ chart[reading[chart[a].path]].path = chart[a].path
BY DEF Readings

\* The path from an account down to another one leads through an account right below the first.
LEMMA ChildOnTheWay ==
  ASSUME ChartTypes, ChartApart, PathsInPlace, NEW a \in Opened, NEW c \in Opened, c # a,
         Starts(chart[a].path, chart[c].path)
  PROVE  \E b \in Opened : ParentOf[b] = a /\ Starts(chart[b].path, chart[c].path)
<1> DEFINE Below == {x \in Opened : x # a /\ Starts(chart[a].path, chart[x].path)}
           Led(x) == \E b \in Opened : ParentOf[b] = a /\ Starts(chart[b].path, chart[x].path)
           Lengths == {Len(chart[x].path) : x \in {y \in Below : ~Led(y)}}
<1>1. \A x \in Opened : chart[x].path \in Path /\ chart[x].path # <<>> /\ Len(chart[x].path) \in Nat /\ x \in Accounts
                        /\ chart[x].label \in Labels /\ ParentOf[x] \in Opened \cup {TopLevel} /\ Len(chart[x].path) > 0
  BY ChartRows, PathFacts
<1> SUFFICES ASSUME ~Led(c) PROVE FALSE
  OBVIOUS
<1>2. Lengths \in SUBSET Nat /\ Lengths # {}
  BY <1>1
<1>3. PICK n \in Lengths : \A k \in Lengths : n <= k
  <2> HIDE DEF Lengths
  <2> QED BY <1>2, LeastNumber
<1>4. PICK x \in Below : ~Led(x) /\ n = Len(chart[x].path)
  OBVIOUS
<1>5. PICK s, Q : s = LabelSlug[chart[x].label] /\ Q = Above(x)
  OBVIOUS
<1>6. s \in STRING /\ Q \in Path /\ chart[x].path = Q \o <<s>> /\ x \in Opened /\ x # a
      /\ Starts(chart[a].path, Q \o <<s>>) /\ Len(chart[x].path) = Len(Q) + 1
  <2>1. Above(x) \in Path /\ LabelSlug[chart[x].label] \in STRING
    BY <1>1, PathOfIsPath
  <2>2. chart[x].path = PathOf(x, chart[x].label)
    BY DEF PathsInPlace
  <2>3. Len(Q \o <<s>>) = Len(Q) + 1
    BY <1>5, <2>1, OneStepDown
  <2> QED BY <1>5, <2>1, <2>2, <2>3 DEF PathOf
<1>7. chart[a].path # Q \o <<s>>
  BY <1>6 DEF ChartApart
<1>8. Starts(chart[a].path, Q)
  BY <1>1, <1>6, <1>7, StartsStep
<1>9. ParentOf[x] # TopLevel
  <2> SUFFICES ASSUME ParentOf[x] = TopLevel PROVE FALSE
    OBVIOUS
  <2>1. Q = <<>> /\ Len(<<>>) = 0
    BY <1>5, EmptySeq DEF Above
  <2>2. Len(chart[a].path) <= Len(Q)
    BY <1>1, <1>6, <1>8, StartsFacts
  <2> QED BY <1>1, <2>1, <2>2
<1>10. PICK p : p = ParentOf[x]
  OBVIOUS
<1>11. p \in Opened /\ Q = chart[p].path
  BY <1>1, <1>5, <1>6, <1>9, <1>10 DEF Above
<1>12. CASE p = a
  <2>1. Starts(chart[x].path, chart[x].path)
    BY <1>1, <1>6, StartsOrder
  <2> QED BY <1>4, <1>6, <1>10, <1>12, <2>1
<1>13. CASE p # a
  <2>1. p \in Below
    BY <1>8, <1>11, <1>13
  <2>2. Led(p)
    <3> SUFFICES ASSUME ~Led(p) PROVE FALSE
      OBVIOUS
    <3>1. Len(chart[p].path) \in Lengths
      BY <2>1
    <3>2. n <= Len(chart[p].path)
      BY <1>3, <3>1
    <3> QED BY <1>1, <1>4, <1>6, <1>11, <3>2
  <2>3. PICK b \in Opened : ParentOf[b] = a /\ Starts(chart[b].path, chart[p].path)
    BY <2>2
  <2>4. Starts(chart[b].path, chart[x].path)
    BY <1>1, <1>6, <1>11, <2>3, StartsStep
  <2> QED BY <1>4, <2>3, <2>4
<1> QED BY <1>12, <1>13

LEMMA GroupsAlwaysAddUp == ChartInv => GroupsAddUp
<1> SUFFICES ASSUME ChartInv, ~mixed, ~doubled, NEW reading \in Readings, NEW a \in Opened \ PostedTo
             PROVE  RowAmount(reading, a) =
                      SumFunctionOnSet([b \in Opened |-> RowAmount(reading, b)], {b \in Opened : ParentOf[b] = a})
  BY DEF GroupsAddUp
<1>1. ChartTypes /\ ChartApart /\ PathsInPlace
  BY DEF ChartInv
<1>2. \A x \in Opened : /\ chart[x].path \in Path /\ Len(chart[x].path) \in Nat /\ x \in Accounts /\ chart[x].label \in Labels
                        /\ ParentOf[x] \in Opened \cup {TopLevel} /\ reading[chart[x].path] = x
  BY <1>1, ChartRows, PathFacts, ReadingFacts DEF ChartApart
<1>3. PICK C, L, f : C = {b \in Opened : ParentOf[b] = a} /\ L = RowOf(reading, a) /\ f = [b \in Opened |-> RowAmount(reading, b)]
  OBVIOUS
<1>4. C \in SUBSET Accounts /\ L \in SUBSET Leaves /\ Leaves \in SUBSET Opened /\ \A b \in C : f[b] = RowAmount(reading, b)
  BY <1>2, <1>3 DEF RowOf, Leaves
<1>5. \A x \in Opened, leaf \in Leaves : leaf \in RowOf(reading, x) <=> Starts(chart[x].path, chart[leaf].path)
  BY <1>2 DEF RowOf
<1>6. \A b \in C : /\ b \in Opened /\ Starts(chart[a].path, chart[b].path)
                   /\ Len(chart[b].path) = Len(chart[a].path) + 1
  <2> SUFFICES ASSUME NEW b \in C
               PROVE  /\ b \in Opened /\ Starts(chart[a].path, chart[b].path)
                      /\ Len(chart[b].path) = Len(chart[a].path) + 1
    OBVIOUS
  <2>1. b \in Opened /\ b \in Accounts /\ ParentOf[b] = a
    BY <1>2, <1>3
  <2>2. a # TopLevel
    BY <1>2, ChartConstants
  <2>3. Above(b) = chart[a].path
    BY <2>1, <2>2 DEF Above
  <2>4. PICK s : s = LabelSlug[chart[b].label]
    OBVIOUS
  <2>5. chart[b].path = chart[a].path \o <<s>> /\ s \in STRING
    <3>1. chart[b].path = PathOf(b, chart[b].label)
      BY <1>1, <2>1 DEF PathsInPlace
    <3>2. s \in STRING
      BY <1>2, <2>1, <2>4, ChartConstants
    <3> QED BY <2>3, <2>4, <3>1, <3>2 DEF PathOf
  <2>6. Starts(chart[a].path, chart[a].path)
    BY <1>2, StartsOrder
  <2>7. Starts(chart[a].path, chart[b].path) /\ Len(chart[b].path) = Len(chart[a].path) + 1
    BY <1>2, <2>5, <2>6, StartsStep, OneStepDown
  <2> QED BY <2>1, <2>7
<1>7. ASSUME NEW leaf \in L
      PROVE  \E b \in C : leaf \in RowOf(reading, b) /\ \A x \in C : leaf \in RowOf(reading, x) => x = b
  <2>1. leaf \in Opened /\ leaf \in PostedTo /\ Starts(chart[a].path, chart[leaf].path) /\ leaf \in Leaves
    BY <1>3, <1>4, <1>5 DEF Leaves
  <2>2. PICK b \in Opened : ParentOf[b] = a /\ Starts(chart[b].path, chart[leaf].path)
    BY <1>1, <2>1, ChildOnTheWay
  <2>3. b \in C /\ leaf \in RowOf(reading, b)
    BY <1>3, <1>5, <2>1, <2>2
  <2>4. ASSUME NEW x \in C, leaf \in RowOf(reading, x) PROVE x = b
    <3>1. Starts(chart[x].path, chart[leaf].path) /\ x \in Opened /\ Len(chart[x].path) = Len(chart[b].path)
      BY <1>5, <1>6, <2>1, <2>3, <2>4
    <3>2. chart[x].path = chart[b].path
      BY <1>2, <2>1, <2>2, <3>1, StartsOrder
    <3> QED BY <1>1, <3>1, <3>2 DEF ChartApart
  <2> QED BY <2>3, <2>4
<1>8. ASSUME NEW leaf \in Leaves \ L, NEW b \in C PROVE leaf \notin RowOf(reading, b)
  <2> SUFFICES ASSUME leaf \in RowOf(reading, b) PROVE FALSE
    OBVIOUS
  <2>1. leaf \in Opened /\ b \in Opened /\ Starts(chart[b].path, chart[leaf].path) /\ Starts(chart[a].path, chart[b].path)
    BY <1>4, <1>5, <1>6
  <2>2. Starts(chart[a].path, chart[leaf].path)
    BY <1>2, <2>1, StartsOrder
  <2> QED BY <1>3, <1>5, <2>2
<1>9. SumFunctionOnSet(f, C) = SumFunctionOnSet(NetOf, L)
  BY <1>4, <1>7, <1>8, RowsAddUp
<1>10. RowAmount(reading, a) = SumFunctionOnSet(NetOf, L)
  BY <1>3 DEF RowAmount, RowOf
<1> QED BY <1>3, <1>9, <1>10

LEMMA TotalsAreAlwaysAll == ChartInv => TotalsAreAll
<1> SUFFICES ASSUME ChartInv,
                    \A a \in Leaves, b \in Opened : a # b =>
                      ~Starts(chart[a].path, chart[b].path) \/ (b \in PostedTo /\ chart[a].path = chart[b].path),
                    NEW reading \in Readings
             PROVE  TotalShown(reading) = AllBooked
  BY DEF TotalsAreAll
<1>1. \A x \in Opened : chart[x].path \in Path /\ Starts(chart[x].path, chart[x].path) /\ x \in Accounts
  BY ChartRows, StartsOrder DEF ChartInv
<1>2. Leaves \in SUBSET Opened /\ Leaves \in SUBSET Accounts
  BY <1>1 DEF Leaves
<1>3. ASSUME NEW leaf \in Leaves
      PROVE  \E b \in Leaves : leaf \in RowOf(reading, b) /\ \A x \in Leaves : leaf \in RowOf(reading, x) => x = b
  <2>1. PICK p, b : p = chart[leaf].path /\ b = reading[p]
    OBVIOUS
  <2>2. b \in Opened /\ chart[b].path = p
    BY <1>2, <2>1, ReadingFacts
  <2>3. b \in Leaves
    BY <1>1, <1>2, <2>1, <2>2 DEF Leaves
  <2>4. leaf \in RowOf(reading, b)
    BY <1>1, <1>2, <2>1, <2>2 DEF RowOf
  <2>5. ASSUME NEW x \in Leaves, leaf \in RowOf(reading, x) PROVE x = b
    <3>1. Starts(chart[x].path, chart[leaf].path) /\ reading[chart[x].path] = x
      BY <2>5 DEF RowOf
    <3>2. chart[x].path = chart[leaf].path
      BY <1>2, <3>1
    <3> QED BY <2>1, <3>1, <3>2
  <2> QED BY <2>3, <2>4, <2>5
<1>4. PICK f : f = [a \in Leaves |-> RowAmount(reading, a)]
  OBVIOUS
<1>5. SumFunctionOnSet(f, Leaves) = SumFunctionOnSet(NetOf, Leaves)
  <2>1. \A b \in Leaves : f[b] = RowAmount(reading, b)
    BY <1>4
  <2>2. \A leaf \in Leaves \ Leaves, b \in Leaves : leaf \notin RowOf(reading, b)
    OBVIOUS
  <2> QED BY <1>2, <1>3, <2>1, <2>2, RowsAddUp
<1> QED BY <1>4, <1>5 DEF TotalShown, AllBooked

LEMMA ChartAlwaysHolds == ChartSpec => []ChartHolds
<1>1. ChartInv => ChartTypeOK
  <2> SUFFICES ASSUME ChartInv PROVE ChartTypeOK
    OBVIOUS
  <2>1. \A a \in Opened : chart[a].label \in Labels /\ Len(chart[a].path) > 0
    BY ChartRows, PathFacts DEF ChartInv
  <2>2. Opened \subseteq Accounts
    BY DEF Opened
  <2> QED BY <2>1, <2>2 DEF ChartTypeOK, ChartInv, ChartTypes
<1>2. ChartInv => ChartHolds
  BY <1>1, GroupsAlwaysAddUp, TotalsAreAlwaysAll DEF ChartHolds
<1> QED BY <1>2, ChartInitInv, ChartStepInv, PTL DEF ChartSpec

\* What the masters are arranged by holds: a node's path tells its place and every
\* node is shown, the row of a group is what its accounts add up to and the totals
\* leave nothing out, with the exceptions the properties name - requests that
\* interleave, two rows with one path (tree.py: on_update, get_tree;
\* accounts_masters.py: update_account; financial_reports/_helpers.py: _rollup).
THEOREM MastersAlwaysHold == TreeSpec /\ ChartSpec => []MastersHold
BY TreesAlwaysHold, ChartAlwaysHolds, PTL DEF MastersHold

=============================================================================
