---------------------------- MODULE Subscription ----------------------------
(***************************************************************************)
(* Recurring billing (services/subscription.py, jobs/subscription.py).     *)
(* A subscription keeps a cursor, the day of the next period to bill.      *)
(* Creating the invoice of that period and advancing the cursor is one     *)
(* transaction, submitting the invoice the next.  A nightly sweep bills    *)
(* every due subscription until it has caught up; a request bills one      *)
(* period, on the day the user gives.  Both work on the rows they loaded   *)
(* first: the session does not refresh them.                               *)
(*                                                                         *)
(* Days are integers, and a cadence is a number of days.  The one customer *)
(* that cannot be invoiced and the days nothing can be posted on stand for *)
(* every reason to refuse; a refusal rolls back, and reading the id of the *)
(* rolled back subscription then ends the sweep.                           *)
(***************************************************************************)
EXTENDS Integers

CONSTANTS
  Subs,
  StartDay, EndDay, Step, \* first day, exclusive last day and cadence of each
  Blocked,                \* subscriptions whose invoice cannot be created
  Unpostable,             \* days on which nothing can be posted
  MaxCatchup,             \* periods one sweep bills per subscription
  Horizon,                \* the last day considered (bound)
  Workers, None

ASSUME SubsAssumption ==
  /\ Horizon \in Nat /\ MaxCatchup \in Nat \ {0}
  /\ None \notin Subs
  /\ StartDay \in [Subs -> Nat] /\ EndDay \in [Subs -> Nat] /\ Step \in [Subs -> Nat \ {0}]
  /\ \A s \in Subs : StartDay[s] <= EndDay[s]
  /\ Blocked \subseteq Subs

Days == 0 .. Horizon
NoDay == -1

VARIABLES
  today,
  sub,      \* status and cursor of each subscription
  invoice,  \* per subscription and day: draft and posted invoices
  work      \* per worker: the sweep or request it is running

vars == <<today, sub, invoice, work>>

Rest ==
  [op |-> "idle", todo |-> {}, now |-> None, copy |-> [s \in Subs |-> None],
   day |-> 0, tries |-> 0, pending |-> NoDay]

Init ==
  /\ today = 0
  /\ sub = [s \in Subs |-> [status |-> "Absent", cursor |-> StartDay[s]]]
  /\ invoice = [s \in Subs |-> [d \in Days |-> [draft |-> 0, posted |-> 0]]]
  /\ work = [w \in Workers |-> Rest]

Tick ==
  /\ today < Horizon
  /\ today' = today + 1
  /\ UNCHANGED <<sub, invoice, work>>

\* mutant: strictly before today
DueBefore(s) == sub[s].status = "Active" /\ sub[s].cursor < today

Due(s) == sub[s].status = "Active" /\ sub[s].cursor <= today

------------------------------------------------------------------------------
\* Requests and the sweep load what they will work on.

Request(s, row, day) ==
  [op |-> "request", todo |-> {}, now |-> s,
   copy |-> [x \in Subs |-> IF x = s THEN row ELSE None],
   day |-> day, tries |-> 0, pending |-> NoDay]

\* create_subscription: commit, then bill the first period if it is due
Create(w, s) ==
  /\ work[w] = Rest
  /\ sub[s].status = "Absent"
  /\ sub' = [sub EXCEPT ![s] = [status |-> "Active", cursor |-> StartDay[s]]]
  /\ work' = [work EXCEPT ![w] =
       Request(s, [status |-> "Active", cursor |-> StartDay[s]], today)]
  /\ UNCHANGED <<today, invoice>>

\* generate_for_subscription, on a day the user may choose
BeginRequest(w, s, day) ==
  /\ work[w] = Rest
  /\ sub[s].status # "Absent"
  /\ work' = [work EXCEPT ![w] = Request(s, sub[s], day)]
  /\ UNCHANGED <<today, sub, invoice>>

Cancel(w, s) ==
  /\ work[w] = Rest
  /\ sub[s].status = "Active"
  /\ sub' = [sub EXCEPT ![s] = [status |-> "Cancelled", cursor |-> sub[s].cursor]]
  /\ UNCHANGED <<today, invoice, work>>

\* process_subscriptions loads the due rows once
BeginSweep(w) ==
  /\ work[w] = Rest
  /\ \E s \in Subs : Due(s)
  /\ work' = [work EXCEPT ![w] =
       [op |-> "sweep", todo |-> {s \in Subs : Due(s)}, now |-> None,
        copy |-> [s \in Subs |-> IF Due(s) THEN sub[s] ELSE None],
        day |-> today, tries |-> 0, pending |-> NoDay]]
  /\ UNCHANGED <<today, sub, invoice>>

\* the next one, ordered by cursor
Pick(w) ==
  /\ work[w].op = "sweep" /\ work[w].now = None
  /\ \E s \in work[w].todo :
       /\ \A t \in work[w].todo : work[w].copy[s].cursor <= work[w].copy[t].cursor
       /\ work' = [work EXCEPT ![w] =
            [op |-> "sweep", todo |-> work[w].todo \ {s}, now |-> s, copy |-> work[w].copy,
             day |-> work[w].day, tries |-> 0, pending |-> NoDay]]
  /\ UNCHANGED <<today, sub, invoice>>

EndSweep(w) ==
  /\ work[w].op = "sweep" /\ work[w].now = None /\ work[w].todo = {}
  /\ work' = [work EXCEPT ![w] = Rest]
  /\ UNCHANGED <<today, sub, invoice>>

------------------------------------------------------------------------------
\* generate_due_invoice on the loaded row.

\* w is about to bill s, whose row it loaded as c
Billing(w, s, c) ==
  /\ work[w].now = s /\ s # None /\ work[w].pending = NoDay
  /\ c = work[w].copy[s]

\* a request answers; a sweep turns to the next subscription
Done(w) ==
  work' = [work EXCEPT ![w] =
    IF work[w].op = "request" THEN Rest
    ELSE [op |-> "sweep", todo |-> work[w].todo, now |-> None, copy |-> work[w].copy,
          day |-> work[w].day, tries |-> 0, pending |-> NoDay]]

\* mutant: the end date is inclusive
BillableThrough(c, s, day) ==
  c.status = "Active" /\ c.cursor <= day /\ c.cursor <= EndDay[s]

\* mutant: the status is not looked at
BillableAnyway(c, s, day) == c.cursor <= day /\ c.cursor < EndDay[s]

\* the period at the cursor is to be billed
Billable(c, s, day) ==
  c.status = "Active" /\ c.cursor <= day /\ c.cursor < EndDay[s]

\* nothing to bill, or this sweep has billed enough
Skip(w) ==
  \E s \in Subs : LET c == work[w].copy[s] IN
    /\ Billing(w, s, c)
    /\ \/ c.status # "Active"
       \/ c.cursor > work[w].day
       \/ work[w].op = "sweep" /\ work[w].tries >= MaxCatchup
    /\ Done(w)
    /\ UNCHANGED <<today, sub, invoice>>

\* past the agreement
Complete(w) ==
  \E s \in Subs : LET c == work[w].copy[s] IN
    /\ Billing(w, s, c)
    /\ c.status = "Active" /\ c.cursor <= work[w].day /\ c.cursor >= EndDay[s]
    /\ ~(work[w].op = "sweep" /\ work[w].tries >= MaxCatchup)
    /\ sub' = [sub EXCEPT ![s] = [status |-> "Completed", cursor |-> sub[s].cursor]]
    /\ Done(w)
    /\ UNCHANGED <<today, invoice>>

\* mutant: the cursor is advanced after the invoice was submitted
Unmoved(s, c) == c

\* mutant: the next day instead of the next period
NextDay(s, c) ==
  [status |-> IF c.cursor + 1 >= EndDay[s] THEN "Completed" ELSE c.status,
   cursor |-> c.cursor + 1]

\* the row after billing the period at its cursor
Advanced(s, c) ==
  [status |-> IF c.cursor + Step[s] >= EndDay[s] THEN "Completed" ELSE c.status,
   cursor |-> c.cursor + Step[s]]

\* mutant: the invoice is posted as it is created
DraftedPosted(i) == [draft |-> i.draft, posted |-> i.posted + 1]

\* the invoices of a period after one more is created, after one is submitted
Drafted(i) == [draft |-> i.draft + 1, posted |-> i.posted]
Posted(i) == [draft |-> i.draft - 1, posted |-> i.posted + 1]

\* invoice and cursor are committed together
Invoice(w) ==
  \E s \in Subs : LET c == work[w].copy[s] n == Advanced(s, c) IN
    /\ Billing(w, s, c)
    /\ Billable(c, s, work[w].day) /\ c.cursor \in Days
    /\ ~(work[w].op = "sweep" /\ work[w].tries >= MaxCatchup)
    /\ s \notin Blocked
    /\ sub' = [sub EXCEPT ![s] =
         [status |-> IF n.status = c.status THEN sub[s].status ELSE n.status,
          cursor |-> n.cursor]]
    /\ invoice' = [invoice EXCEPT ![s] = [d \in Days |->
         IF d = c.cursor THEN Drafted(invoice[s][d]) ELSE invoice[s][d]]]
    /\ work' = [work EXCEPT ![w] =
         [op |-> work[w].op, todo |-> work[w].todo, now |-> s,
          copy |-> [x \in Subs |-> IF x = s THEN n ELSE work[w].copy[x]],
          day |-> work[w].day, tries |-> work[w].tries + 1, pending |-> c.cursor]]
    /\ UNCHANGED today

\* the invoice cannot be created: rollback, and the whole sweep is over
Refuse(w) ==
  \E s \in Subs : LET c == work[w].copy[s] IN
    /\ Billing(w, s, c)
    /\ Billable(c, s, work[w].day)
    /\ ~(work[w].op = "sweep" /\ work[w].tries >= MaxCatchup)
    /\ s \in Blocked
    /\ work' = [work EXCEPT ![w] = Rest]
    /\ UNCHANGED <<today, sub, invoice>>

\* the second transaction: submit_sales_invoice
Post(w) ==
  /\ work[w].pending \in Days \ Unpostable
  /\ \E s \in Subs :
       /\ work[w].now = s
       /\ invoice' = [invoice EXCEPT ![s] = [d \in Days |->
            IF d = work[w].pending THEN Posted(invoice[s][d]) ELSE invoice[s][d]]]
  /\ work' = [work EXCEPT ![w] =
       IF work[w].op = "request" THEN Rest
       ELSE [op |-> "sweep", todo |-> work[w].todo, now |-> work[w].now,
             copy |-> work[w].copy, day |-> work[w].day, tries |-> work[w].tries,
             pending |-> NoDay]]
  /\ UNCHANGED <<today, sub>>

\* it cannot be submitted: the draft stays, the cursor too
RefusePost(w) ==
  /\ work[w].pending \in Days \cap Unpostable
  /\ work' = [work EXCEPT ![w] = Rest]
  /\ UNCHANGED <<today, sub, invoice>>

Crash(w) ==
  /\ work[w] # Rest
  /\ work' = [work EXCEPT ![w] = Rest]
  /\ UNCHANGED <<today, sub, invoice>>

Bill(w) == Skip(w) \/ Complete(w) \/ Invoice(w) \/ Refuse(w) \/ Post(w) \/ RefusePost(w)
Sweep(w) == BeginSweep(w) \/ Pick(w) \/ EndSweep(w) \/ Bill(w)

Next ==
  \/ Tick
  \/ \E w \in Workers :
       \/ \E s \in Subs :
            \/ Create(w, s) \/ Cancel(w, s)
            \/ \E day \in Days : BeginRequest(w, s, day)
       \/ Sweep(w)
       \/ Crash(w)

Spec == Init /\ [][Next]_vars

\* The scheduler starts a sweep every night, and a sweep that is not killed runs
\* on; however often it is killed, some nights it gets to its next step.
Fairness ==
  \A w \in Workers :
    /\ SF_vars(BeginSweep(w)) /\ SF_vars(Pick(w)) /\ SF_vars(EndSweep(w))
    /\ SF_vars(Skip(w)) /\ SF_vars(Complete(w)) /\ SF_vars(Invoice(w)) /\ SF_vars(Refuse(w))
    /\ SF_vars(Post(w)) /\ SF_vars(RefusePost(w))
FairSpec == Spec /\ Fairness

------------------------------------------------------------------------------
(***************************************************************************)
(* Properties                                                              *)
(***************************************************************************)

Row == [status : {"Absent", "Active", "Completed", "Cancelled"}, cursor : Nat]

\* The columns have their types; a pending invoice is a draft of the current subscription.
TypeOK ==
  /\ today \in Days
  /\ sub \in [Subs -> Row]
  /\ invoice \in [Subs -> [Days -> [draft : Nat, posted : Nat]]]
  /\ work \in [Workers ->
       [op : {"idle", "sweep", "request"}, todo : SUBSET Subs, now : Subs \cup {None},
        copy : [Subs -> Row \cup {None}], day : Days, tries : Nat,
        pending : Days \cup {NoDay}]]

Invoices(s, d) == invoice[s][d].draft + invoice[s][d].posted

\* No period is billed twice, whatever sweep or request bills it and wherever it
\* is killed (jobs/subscription.py:6 "a re-run (or a retry after a crash) never
\* double-bills a period").
NeverTwice ==
  \A s \in Subs, d \in Days :
    Invoices(s, d) <= (IF d < sub[s].cursor THEN 1 ELSE 0)

\* No period is left out: the days with an invoice run from the first day to the
\* cursor, one cadence apart.
NoGap ==
  \A s \in Subs, d \in Days :
    Invoices(s, d) > 0 <=>
      /\ StartDay[s] <= d /\ d < sub[s].cursor
      /\ (d - StartDay[s]) % Step[s] = 0

\* A subscription is completed exactly when its agreement is over, and is not billed
\* for a period that starts at or after its end.
CompletedAtEnd ==
  \A s \in Subs :
    /\ sub[s].status = "Completed" => sub[s].cursor >= EndDay[s]
    /\ \A d \in Days : Invoices(s, d) > 0 => d < EndDay[s]

\* A cancelled subscription is never billed again.
CancelledIsQuiet ==
  [][\A s \in Subs : sub[s].status = "Cancelled" =>
       /\ sub'[s] = sub[s]
       /\ \A d \in Days : Invoices(s, d)' = Invoices(s, d)]_vars

\* Every due period is eventually billed, unless the subscription itself cannot be
\* invoiced (jobs/subscription.py:10 "one bad subscription can't stop the batch").
DueIsBilled ==
  \A s \in Subs \ Blocked : []<>(sub[s].status # "Active" \/ sub[s].cursor > today)
=============================================================================
