------------------------- MODULE Subscription_proofs -------------------------
(***************************************************************************)
(* A period is never billed twice when requests and sweeps are served one  *)
(* at a time, wherever they are killed or refused, for any subscriptions,  *)
(* cadences and days.  With two workers it is false.                       *)
(***************************************************************************)
EXTENDS Subscription, TLAPS

-----------------------------------------------------------------------------
(* The inductive invariant: nothing is invoiced at or after the cursor, the *)
(* rows a worker still has to bill are the stored rows, and the invoice it  *)
(* is about to submit is a draft.                                           *)

Activity ==
  [op : {"idle", "sweep", "request"}, todo : SUBSET Subs, now : Subs \cup {None},
   copy : [Subs -> Row \cup {None}], day : Days, tries : Nat, pending : Days \cup {NoDay}]

Count == [draft : Nat, posted : Nat]

\* a worker may be doing a while the rows are r and the invoices i
Sound(a, r, i) ==
  /\ a \in Activity
  /\ a.now \notin a.todo
  /\ \A s \in Subs : s \in a.todo \/ a.now = s => a.copy[s] = r[s] /\ r[s].status # "Absent"
  /\ a.pending # NoDay => \E s \in Subs : a.now = s /\ i[s][a.pending].draft > 0

Unbilled(r, i) ==
  /\ r \in [Subs -> Row]
  /\ i \in [Subs -> [Days -> Count]]
  /\ \A s \in Subs :
       /\ r[s].status = "Absent" => r[s].cursor = StartDay[s]
       /\ r[s].status = "Completed" => r[s].cursor >= EndDay[s]
  /\ \A s \in Subs, d \in Days :
       /\ i[s][d].draft + i[s][d].posted <= (IF d < r[s].cursor THEN 1 ELSE 0)
       /\ i[s][d].draft + i[s][d].posted > 0 => d < EndDay[s]

IInv ==
  /\ today \in Days
  /\ Unbilled(sub, invoice)
  /\ work = [v \in Workers |-> work[v]]
  /\ \A v \in Workers : Sound(work[v], sub, invoice)

-----------------------------------------------------------------------------
LEMMA IInvTypes == IInv => TypeOK
<1> SUFFICES ASSUME IInv PROVE TypeOK
  OBVIOUS
<1>1. work \in [Workers -> Activity]
  BY DEF IInv, Sound
<1> QED BY <1>1 DEF IInv, Unbilled, TypeOK, Activity, Count

LEMMA IInvNeverTwice == IInv => NeverTwice
BY DEF IInv, Unbilled, NeverTwice, Invoices

LEMMA IInvCompleted == IInv => CompletedAtEnd
BY DEF IInv, Unbilled, CompletedAtEnd, Invoices

LEMMA RestSound ==
  ASSUME NEW r, NEW i
  PROVE  Sound(Rest, r, i)
<1>1. Rest \in Activity
  BY SubsAssumption DEF Rest, Activity, Days
<1>2. Rest.now = None /\ Rest.todo = {} /\ Rest.pending = NoDay
  BY DEF Rest
<1> QED BY <1>1, <1>2, SubsAssumption DEF Sound

LEMMA IInvInit == Init => IInv
<1> SUFFICES ASSUME Init PROVE IInv
  OBVIOUS
<1>1. today \in Days
  BY SubsAssumption DEF Init, Days
<1>2. Unbilled(sub, invoice)
  <2>1. \A s \in Subs : sub[s] = [status |-> "Absent", cursor |-> StartDay[s]]
    BY DEF Init
  <2>2. \A s \in Subs, d \in Days : invoice[s][d] = [draft |-> 0, posted |-> 0]
    BY DEF Init
  <2>3. sub \in [Subs -> Row]
    BY SubsAssumption DEF Init, Row
  <2>4. invoice \in [Subs -> [Days -> Count]]
    BY DEF Init, Count
  <2> QED BY <2>1, <2>2, <2>3, <2>4 DEF Unbilled
<1>3. \A v \in Workers : Sound(work[v], sub, invoice)
  BY RestSound DEF Init
<1> QED BY <1>1, <1>2, <1>3 DEF IInv, Init

\* It is enough to look at the only worker.
LEMMA OneWorker ==
  ASSUME NEW w, Workers = {w}, IInv, today' \in Days,
         work' = [work EXCEPT ![w] = work'[w]],
         Unbilled(sub', invoice'), Sound(work'[w], sub', invoice')
  PROVE  IInv'
BY DEF IInv

\* A worker that gives up leaves everything as it is.
LEMMA Abandoned ==
  ASSUME NEW w, Workers = {w}, IInv, UNCHANGED <<today, sub, invoice>>,
         work' = [work EXCEPT ![w] = Rest]
  PROVE  IInv'
<1>1. work'[w] = Rest /\ work' = [work EXCEPT ![w] = work'[w]]
  BY DEF IInv
<1>2. Unbilled(sub', invoice') /\ today' \in Days
  BY DEF IInv
<1> QED BY <1>1, <1>2, RestSound, OneWorker

-----------------------------------------------------------------------------
(* Requests and the sweep load their rows.                                  *)

LEMMA RequestSound ==
  ASSUME NEW r \in [Subs -> Row], NEW i, NEW s \in Subs, NEW day \in Days,
         r[s].status # "Absent"
  PROVE  Sound(Request(s, r[s], day), r, i)
<1> DEFINE a == Request(s, r[s], day)
<1>1. /\ a.op = "request" /\ a.todo = {} /\ a.now = s /\ a.day = day /\ a.tries = 0
      /\ a.pending = NoDay /\ a.copy = [x \in Subs |-> IF x = s THEN r[s] ELSE None]
  BY DEF Request
<1>2. a \in Activity
  BY DEF Request, Activity
<1> QED BY <1>1, <1>2, SubsAssumption DEF Sound

LEMMA CreateStep ==
  ASSUME NEW w, Workers = {w}, IInv, NEW s \in Subs, Create(w, s)
  PROVE  IInv'
<1>1. sub[s].status = "Absent" /\ sub[s].cursor = StartDay[s] /\ sub \in [Subs -> Row]
  BY DEF Create, IInv, Unbilled
<1>2. /\ sub' = [sub EXCEPT ![s] = [status |-> "Active", cursor |-> StartDay[s]]]
      /\ invoice' = invoice /\ today' = today
  BY DEF Create
<1>3. sub' \in [Subs -> Row]
  BY <1>1, <1>2, SubsAssumption DEF Row
<1>4. /\ sub'[s] = [status |-> "Active", cursor |-> StartDay[s]]
      /\ \A x \in Subs : sub'[x].cursor = sub[x].cursor
      /\ \A x \in Subs : sub'[x].status = "Absent" => sub[x].status = "Absent"
      /\ \A x \in Subs : sub'[x].status = "Completed" => sub[x].status = "Completed"
  BY <1>1, <1>2
<1>5. Unbilled(sub', invoice')
  BY <1>2, <1>3, <1>4 DEF IInv, Unbilled
<1>6. work' = [work EXCEPT ![w] = work'[w]] /\ work'[w] = Request(s, sub'[s], today)
  BY <1>4 DEF Create, IInv
<1>7. today \in Days
  BY DEF IInv
<1>8. sub'[s].status # "Absent"
  BY <1>4
<1>9. Sound(work'[w], sub', invoice')
  BY <1>3, <1>6, <1>7, <1>8, RequestSound
<1> QED BY <1>2, <1>5, <1>6, <1>7, <1>9, OneWorker

LEMMA BeginRequestStep ==
  ASSUME NEW w, Workers = {w}, IInv, NEW s \in Subs, NEW day \in Days, BeginRequest(w, s, day)
  PROVE  IInv'
<1>1. work' = [work EXCEPT ![w] = work'[w]] /\ work'[w] = Request(s, sub[s], day)
  BY DEF BeginRequest, IInv
<1>2. sub' = sub /\ invoice' = invoice /\ today' = today /\ sub[s].status # "Absent"
  BY DEF BeginRequest
<1>3. Unbilled(sub', invoice') /\ today' \in Days /\ sub \in [Subs -> Row]
  BY <1>2 DEF IInv, Unbilled
<1>4. Sound(work'[w], sub', invoice')
  BY <1>1, <1>2, <1>3, RequestSound
<1> QED BY <1>1, <1>3, <1>4, OneWorker

\* Cancelling is a request of its own: nobody holds the row.
LEMMA CancelStep ==
  ASSUME NEW w, Workers = {w}, IInv, NEW s \in Subs, Cancel(w, s)
  PROVE  IInv'
<1>1. /\ sub' = [sub EXCEPT ![s] = [status |-> "Cancelled", cursor |-> sub[s].cursor]]
      /\ invoice' = invoice /\ today' = today /\ work' = work /\ work[w] = Rest
  BY DEF Cancel
<1>2. sub \in [Subs -> Row]
  BY DEF IInv, Unbilled
<1>3. sub' \in [Subs -> Row]
  BY <1>1, <1>2 DEF Row
<1>4. /\ \A x \in Subs : sub'[x].cursor = sub[x].cursor
      /\ \A x \in Subs : sub'[x].status = "Absent" => sub[x].status = "Absent"
      /\ \A x \in Subs : sub'[x].status = "Completed" => sub[x].status = "Completed"
  BY <1>1, <1>2
<1>5. Unbilled(sub', invoice')
  BY <1>1, <1>3, <1>4 DEF IInv, Unbilled
<1>6. work' = [work EXCEPT ![w] = work'[w]] /\ today' \in Days
  BY <1>1 DEF IInv
<1>7. Sound(work'[w], sub', invoice')
  BY <1>1, RestSound
<1> QED BY <1>5, <1>6, <1>7, OneWorker

LEMMA BeginSweepStep ==
  ASSUME NEW w, Workers = {w}, IInv, BeginSweep(w)
  PROVE  IInv'
<1> DEFINE a == [op |-> "sweep", todo |-> {s \in Subs : Due(s)}, now |-> None,
                 copy |-> [s \in Subs |-> IF Due(s) THEN sub[s] ELSE None],
                 day |-> today, tries |-> 0, pending |-> NoDay]
<1>1. sub' = sub /\ invoice' = invoice /\ today' = today
  BY DEF BeginSweep
<1>2. work' = [work EXCEPT ![w] = work'[w]] /\ work'[w] = a
  BY DEF BeginSweep, IInv
<1>3. Unbilled(sub', invoice') /\ today \in Days /\ sub \in [Subs -> Row]
  BY <1>1 DEF IInv, Unbilled
<1>4. a \in Activity
  <2>1. [s \in Subs |-> IF Due(s) THEN sub[s] ELSE None] \in [Subs -> Row \cup {None}]
    BY <1>3
  <2> QED BY <1>3, <2>1 DEF Activity
<1>5. \A s \in Subs : s \in a.todo => a.copy[s] = sub[s] /\ sub[s].status # "Absent"
  BY DEF Due
<1>6. a.now = None /\ a.todo \subseteq Subs /\ a.pending = NoDay
  OBVIOUS
<1> HIDE DEF a
<1>7. Sound(a, sub, invoice)
  BY <1>4, <1>5, <1>6, SubsAssumption DEF Sound
<1> QED BY <1>1, <1>2, <1>3, <1>7, OneWorker

LEMMA PickStep ==
  ASSUME NEW w, Workers = {w}, IInv, Pick(w)
  PROVE  IInv'
<1> DEFINE k == work[w]
<1>1. sub' = sub /\ invoice' = invoice /\ today' = today
  BY DEF Pick
<1>2. PICK s \in k.todo :
        work' = [work EXCEPT ![w] =
          [op |-> "sweep", todo |-> k.todo \ {s}, now |-> s, copy |-> k.copy,
           day |-> k.day, tries |-> 0, pending |-> NoDay]]
  BY DEF Pick
<1>3. Sound(k, sub, invoice) /\ Unbilled(sub', invoice') /\ today' \in Days
  BY <1>1 DEF IInv
<1> DEFINE a == [op |-> "sweep", todo |-> k.todo \ {s}, now |-> s, copy |-> k.copy,
                 day |-> k.day, tries |-> 0, pending |-> NoDay]
<1>4. work' = [work EXCEPT ![w] = work'[w]] /\ work'[w] = a
  BY <1>2 DEF IInv
<1>5. k \in Activity /\ s \in Subs
  BY <1>2, <1>3 DEF Sound, Activity
<1>6. a \in Activity
  BY <1>5 DEF Activity
<1>7. a.now = s /\ a.todo = k.todo \ {s} /\ a.copy = k.copy /\ a.pending = NoDay
  OBVIOUS
<1> HIDE DEF a
<1>8. Sound(a, sub, invoice)
  BY <1>2, <1>3, <1>6, <1>7 DEF Sound
<1> QED BY <1>1, <1>3, <1>4, <1>8, OneWorker

-----------------------------------------------------------------------------
(* Billing one subscription.                                                *)

DoneWith(k) ==
  [op |-> "sweep", todo |-> k.todo, now |-> None, copy |-> k.copy,
   day |-> k.day, tries |-> 0, pending |-> NoDay]

\* Turning to the next subscription is sound as long as the rest of the list is untouched.
LEMMA DoneSound ==
  ASSUME NEW k, NEW r, NEW i, NEW q, NEW j, Sound(k, r, i),
         \A s \in k.todo : q[s] = r[s]
  PROVE  Sound(DoneWith(k), q, j)
<1> DEFINE a == DoneWith(k)
<1>1. /\ a.op = "sweep" /\ a.now = None /\ a.todo = k.todo /\ a.copy = k.copy
      /\ a.pending = NoDay /\ a.day = k.day /\ a.tries = 0
  BY DEF DoneWith
<1>2. k \in Activity
  BY DEF Sound
<1>3. a \in Activity
  BY <1>2 DEF DoneWith, Activity
<1>4. k.todo \subseteq Subs
  BY <1>2 DEF Activity
<1> HIDE DEF a
<1>5. Sound(a, q, j)
  BY <1>1, <1>3, <1>4, SubsAssumption DEF Sound
<1> QED BY <1>5 DEF a

LEMMA DoneStep ==
  ASSUME NEW w, Workers = {w}, IInv, Done(w), today' = today, Unbilled(sub', invoice'),
         \A s \in work[w].todo : sub'[s] = sub[s]
  PROVE  IInv'
<1>1. today' \in Days /\ Sound(work[w], sub, invoice)
  BY DEF IInv
<1>2. work' = [work EXCEPT ![w] = work'[w]]
      /\ (work'[w] = Rest \/ work'[w] = DoneWith(work[w]))
  BY DEF Done, DoneWith, IInv
<1>3. Sound(work'[w], sub', invoice')
  BY <1>1, <1>2, DoneSound, RestSound
<1> QED BY <1>1, <1>2, <1>3, OneWorker

LEMMA SkipStep ==
  ASSUME NEW w, Workers = {w}, IInv, Skip(w)
  PROVE  IInv'
<1>1. Done(w) /\ UNCHANGED <<today, sub, invoice>>
  BY DEF Skip
<1>2. Unbilled(sub', invoice')
  BY <1>1 DEF IInv
<1> QED BY <1>1, <1>2, DoneStep

LEMMA CompleteStep ==
  ASSUME NEW w, Workers = {w}, IInv, Complete(w)
  PROVE  IInv'
<1>1. PICK s \in Subs :
        /\ work[w].now = s
        /\ work[w].copy[s].cursor >= EndDay[s]
        /\ sub' = [sub EXCEPT ![s] = [status |-> "Completed", cursor |-> sub[s].cursor]]
  BY DEF Complete, Billing
<1>2. Done(w) /\ invoice' = invoice /\ today' = today
  BY DEF Complete
<1>3. Sound(work[w], sub, invoice) /\ Unbilled(sub, invoice)
  BY DEF IInv
<1>4. sub \in [Subs -> Row]
  BY <1>3 DEF Unbilled
<1>5. sub' \in [Subs -> Row]
  BY <1>1, <1>4 DEF Row
<1>6. /\ \A x \in Subs : sub'[x].cursor = sub[x].cursor
      /\ \A x \in Subs : sub'[x].status = "Absent" => sub[x].status = "Absent"
      /\ \A x \in Subs : x # s => sub'[x] = sub[x]
  BY <1>1, <1>4
<1>7. Unbilled(sub', invoice')
  <2>1. sub[s].cursor >= EndDay[s]
    BY <1>1, <1>3 DEF Sound
  <2>2. \A x \in Subs : sub'[x].status = "Completed" => sub'[x].cursor >= EndDay[x]
    BY <1>3, <1>6, <2>1 DEF Unbilled
  <2> QED BY <1>2, <1>3, <1>5, <1>6, <2>2 DEF Unbilled
<1>8. \A x \in work[w].todo : sub'[x] = sub[x]
  <2>1. s \notin work[w].todo /\ work[w].todo \subseteq Subs
    BY <1>1, <1>3 DEF Sound, Activity
  <2> QED BY <1>6, <2>1
<1> QED BY <1>2, <1>7, <1>8, DoneStep

\* A new draft for the period at the cursor is the first invoice of that period,
\* and the cursor has left it when both are committed.
LEMMA InvoiceStep ==
  ASSUME NEW w, Workers = {w}, IInv, Invoice(w)
  PROVE  IInv'
<1> DEFINE k == work[w]
<1>1. PICK s \in Subs :
        /\ Billing(w, s, k.copy[s])
        /\ Billable(k.copy[s], s, k.day) /\ k.copy[s].cursor \in Days
        /\ sub' = [sub EXCEPT ![s] =
             [status |-> IF Advanced(s, k.copy[s]).status = k.copy[s].status
                         THEN sub[s].status ELSE Advanced(s, k.copy[s]).status,
              cursor |-> Advanced(s, k.copy[s]).cursor]]
        /\ invoice' = [invoice EXCEPT ![s] = [d \in Days |->
             IF d = k.copy[s].cursor THEN Drafted(invoice[s][d]) ELSE invoice[s][d]]]
        /\ work' = [work EXCEPT ![w] =
             [op |-> k.op, todo |-> k.todo, now |-> s,
              copy |-> [x \in Subs |-> IF x = s THEN Advanced(s, k.copy[s]) ELSE k.copy[x]],
              day |-> k.day, tries |-> k.tries + 1, pending |-> k.copy[s].cursor]]
        /\ today' = today
  BY DEF Invoice
<1> DEFINE c == k.copy[s]
           n == Advanced(s, c)
           a == [op |-> k.op, todo |-> k.todo, now |-> s,
                 copy |-> [x \in Subs |-> IF x = s THEN n ELSE k.copy[x]],
                 day |-> k.day, tries |-> k.tries + 1, pending |-> c.cursor]
<1>2. Sound(k, sub, invoice) /\ Unbilled(sub, invoice) /\ today' \in Days
  BY <1>1 DEF IInv
<1>3. k \in Activity /\ k.now = s /\ s \notin k.todo /\ c = sub[s]
  BY <1>1, <1>2 DEF Sound, Billing
<1>4. sub \in [Subs -> Row] /\ invoice \in [Subs -> [Days -> Count]]
  BY <1>2 DEF Unbilled
<1>5. c.status = "Active" /\ c.cursor \in Days /\ c.cursor \in Nat /\ c.cursor < EndDay[s]
  BY <1>1, <1>3, <1>4 DEF Billable, Row
<1>6. /\ n \in Row /\ n.status # "Absent" /\ n.cursor > c.cursor
      /\ n.status = "Completed" => n.cursor >= EndDay[s]
      /\ n = [status |-> n.status, cursor |-> n.cursor]
  BY <1>5, SubsAssumption DEF Advanced, Row
<1>7. sub'[s] = n /\ \A x \in Subs : x # s => sub'[x] = sub[x]
  <2>1. sub'[s] = [status |-> IF n.status = c.status THEN sub[s].status ELSE n.status,
                   cursor |-> n.cursor]
    BY <1>1, <1>4
  <2>2. (IF n.status = c.status THEN sub[s].status ELSE n.status) = n.status
    BY <1>3
  <2>3. \A x \in Subs : x # s => sub'[x] = sub[x]
    BY <1>1, <1>4
  <2> QED BY <2>1, <2>2, <2>3, <1>6
<1>8. sub' \in [Subs -> Row]
  <2>1. DOMAIN sub' = Subs /\ sub' = [x \in Subs |-> sub'[x]]
    BY <1>1, <1>4
  <2>2. \A x \in Subs : sub'[x] \in Row
    BY <1>4, <1>6, <1>7
  <2> HIDE DEF n
  <2> QED BY <2>1, <2>2
<1>9. /\ \A x \in Subs : x # s => invoice'[x] = invoice[x]
      /\ \A d \in Days : invoice'[s][d] =
           (IF d = c.cursor THEN Drafted(invoice[s][d]) ELSE invoice[s][d])
  BY <1>1, <1>4
<1>10. \A d \in Days :
         /\ invoice[s][d] \in Count
         /\ Drafted(invoice[s][d]) \in Count
         /\ Drafted(invoice[s][d]).draft = invoice[s][d].draft + 1
         /\ Drafted(invoice[s][d]).posted = invoice[s][d].posted
  BY <1>4 DEF Drafted, Count
<1>11. invoice' \in [Subs -> [Days -> Count]]
  <2>1. [d \in Days |-> IF d = c.cursor THEN Drafted(invoice[s][d]) ELSE invoice[s][d]]
          \in [Days -> Count]
    BY <1>10
  <2> QED BY <1>1, <1>4, <2>1
<1>12. work' = [work EXCEPT ![w] = work'[w]] /\ work'[w] = a
  BY <1>1 DEF IInv
<1>13. a \in Activity
  <2>1. [x \in Subs |-> IF x = s THEN n ELSE k.copy[x]] \in [Subs -> Row \cup {None}]
    BY <1>3, <1>6 DEF Activity
  <2> HIDE DEF n
  <2> QED BY <1>3, <1>5, <2>1 DEF Activity
<1>14. /\ a.now = s /\ a.todo = k.todo /\ a.pending = c.cursor
       /\ a.copy[s] = n /\ \A x \in Subs : x # s => a.copy[x] = k.copy[x]
  OBVIOUS
<1> HIDE DEF n, a, c, k
<1>15. Unbilled(sub', invoice')
  <2>1. ASSUME NEW x \in Subs, NEW d \in Days
        PROVE  invoice'[x][d].draft + invoice'[x][d].posted
                 <= (IF d < sub'[x].cursor THEN 1 ELSE 0)
    <3>1. /\ invoice[x][d].draft + invoice[x][d].posted
               <= (IF d < sub[x].cursor THEN 1 ELSE 0)
          /\ invoice[x][d].draft \in Nat /\ invoice[x][d].posted \in Nat
          /\ sub[x].cursor \in Nat /\ d \in Int
      <4>1. invoice[x][d] \in Count /\ sub[x] \in Row
        BY <1>4
      <4>2. invoice[x][d].draft + invoice[x][d].posted <= (IF d < sub[x].cursor THEN 1 ELSE 0)
        BY <1>2 DEF Unbilled
      <4>3. d \in Int
        BY SubsAssumption DEF Days
      <4> QED BY <4>1, <4>2, <4>3 DEF Count, Row
    <3>2. CASE x # s
      BY <3>1, <3>2, <1>7, <1>9
    <3>3. CASE x = s /\ d # c.cursor
      <4>1. invoice'[x][d] = invoice[x][d]
        BY <3>3, <1>9
      <4>2. sub'[x].cursor > sub[x].cursor /\ sub'[x].cursor \in Nat
        BY <3>3, <1>3, <1>6, <1>7 DEF Row
      <4> QED BY <3>1, <4>1, <4>2
    <3>4. CASE x = s /\ d = c.cursor
      <4>1. /\ invoice'[x][d].draft = invoice[x][d].draft + 1
            /\ invoice'[x][d].posted = invoice[x][d].posted
        BY <3>4, <1>9, <1>10
      <4>2. d < sub'[x].cursor /\ ~(d < sub[x].cursor)
        BY <3>4, <1>3, <1>5, <1>6, <1>7
      <4> QED BY <3>1, <4>1, <4>2
    <3> QED BY <3>2, <3>3, <3>4
  <2>2. \A x \in Subs :
          /\ sub'[x].status = "Absent" => sub'[x].cursor = StartDay[x]
          /\ sub'[x].status = "Completed" => sub'[x].cursor >= EndDay[x]
    BY <1>2, <1>6, <1>7 DEF Unbilled
  <2>3. ASSUME NEW x \in Subs, NEW d \in Days, invoice'[x][d].draft + invoice'[x][d].posted > 0
        PROVE  d < EndDay[x]
    <3>1. CASE x = s /\ d = c.cursor
      BY <3>1, <1>5
    <3>2. CASE ~(x = s /\ d = c.cursor)
      <4>1. invoice'[x][d] = invoice[x][d]
        BY <3>2, <1>9
      <4> QED BY <2>3, <4>1, <1>2 DEF Unbilled
    <3> QED BY <3>1, <3>2
  <2> QED BY <2>1, <2>2, <2>3, <1>8, <1>11 DEF Unbilled
<1>16. Sound(a, sub', invoice')
  <2>1. \A x \in Subs : x \in a.todo \/ a.now = x
          => a.copy[x] = sub'[x] /\ sub'[x].status # "Absent"
    BY <1>2, <1>3, <1>6, <1>7, <1>14 DEF Sound
  <2>2. invoice'[s][a.pending].draft > 0
    BY <1>5, <1>9, <1>10, <1>14 DEF Count
  <2> QED BY <1>3, <1>13, <1>14, <2>1, <2>2 DEF Sound
<1> QED BY <1>2, <1>12, <1>15, <1>16, OneWorker

\* Submitting turns the pending draft into a posted invoice.
LEMMA PostStep ==
  ASSUME NEW w, Workers = {w}, IInv, Post(w)
  PROVE  IInv'
<1> DEFINE k == work[w]
           a == [op |-> "sweep", todo |-> k.todo, now |-> k.now, copy |-> k.copy,
                 day |-> k.day, tries |-> k.tries, pending |-> NoDay]
<1>1. PICK s \in Subs :
        /\ k.now = s
        /\ invoice' = [invoice EXCEPT ![s] = [d \in Days |->
             IF d = k.pending THEN Posted(invoice[s][d]) ELSE invoice[s][d]]]
  BY DEF Post
<1>2. k.pending \in Days /\ sub' = sub /\ today' = today
  BY DEF Post
<1>3. Sound(k, sub, invoice) /\ Unbilled(sub, invoice) /\ today' \in Days
  BY <1>2 DEF IInv
<1>4. sub \in [Subs -> Row] /\ invoice \in [Subs -> [Days -> Count]] /\ k \in Activity
  BY <1>3 DEF Unbilled, Sound
<1>5. invoice[s][k.pending].draft > 0
  <2>1. k.pending # NoDay
    BY <1>2 DEF Days, NoDay
  <2> QED BY <2>1, <1>1, <1>3 DEF Sound
<1>6. ASSUME NEW d \in Days, d = k.pending
      PROVE  /\ Posted(invoice[s][d]) \in Count
             /\ Posted(invoice[s][d]).draft + Posted(invoice[s][d]).posted
                  = invoice[s][d].draft + invoice[s][d].posted
  <2>1. invoice[s][d].draft \in Nat /\ invoice[s][d].posted \in Nat /\ invoice[s][d].draft > 0
    BY <1>4, <1>5, <1>6 DEF Count
  <2> QED BY <2>1 DEF Posted, Count
<1>7. invoice' \in [Subs -> [Days -> Count]]
  <2>1. [d \in Days |-> IF d = k.pending THEN Posted(invoice[s][d]) ELSE invoice[s][d]]
          \in [Days -> Count]
    BY <1>4, <1>6
  <2> QED BY <1>1, <1>4, <2>1
<1>8. \A x \in Subs, d \in Days :
        invoice'[x][d].draft + invoice'[x][d].posted = invoice[x][d].draft + invoice[x][d].posted
  BY <1>1, <1>4, <1>6
<1>9. Unbilled(sub', invoice')
  BY <1>2, <1>3, <1>7, <1>8 DEF Unbilled
<1>10. work' = [work EXCEPT ![w] = work'[w]] /\ (work'[w] = Rest \/ work'[w] = a)
  BY DEF Post, IInv
<1>11. a \in Activity
  BY <1>4 DEF Activity
<1>12. a.now = k.now /\ a.todo = k.todo /\ a.copy = k.copy /\ a.pending = NoDay
  OBVIOUS
<1> HIDE DEF a, k
<1>13. Sound(a, sub', invoice')
  BY <1>2, <1>3, <1>11, <1>12 DEF Sound
<1> QED BY <1>3, <1>9, <1>10, <1>13, RestSound, OneWorker

-----------------------------------------------------------------------------
LEMMA IInvStep ==
  ASSUME NEW w, Workers = {w}, IInv, [Next]_vars
  PROVE  IInv'
<1>1. CASE Tick
  <2>1. today' \in Days
    BY <1>1, SubsAssumption DEF Tick, IInv, Days
  <2> QED BY <1>1, <2>1 DEF Tick, IInv
<1>2. ASSUME NEW s \in Subs, Create(w, s) PROVE IInv'
  BY <1>2, CreateStep
<1>3. ASSUME NEW s \in Subs, Cancel(w, s) PROVE IInv'
  BY <1>3, CancelStep
<1>4. ASSUME NEW s \in Subs, NEW day \in Days, BeginRequest(w, s, day) PROVE IInv'
  BY <1>4, BeginRequestStep
<1>5. ASSUME BeginSweep(w) \/ Pick(w) \/ Skip(w) \/ Complete(w) \/ Invoice(w) \/ Post(w)
      PROVE  IInv'
  BY <1>5, BeginSweepStep, PickStep, SkipStep, CompleteStep, InvoiceStep, PostStep
<1>6. ASSUME EndSweep(w) \/ Refuse(w) \/ RefusePost(w) \/ Crash(w) PROVE IInv'
  <2>1. UNCHANGED <<today, sub, invoice>> /\ work' = [work EXCEPT ![w] = Rest]
    BY <1>6 DEF EndSweep, Refuse, RefusePost, Crash
  <2> QED BY <2>1, Abandoned
<1>7. CASE UNCHANGED vars
  BY <1>7 DEF vars, IInv
<1> QED BY <1>1, <1>2, <1>3, <1>4, <1>5, <1>6, <1>7 DEF Next, Sweep, Bill

\* Served one at a time, every variable keeps its type; in particular a submission
\* always finds the draft its own transaction created.
THEOREM TypeCorrect ==
  ASSUME NEW w, Workers = {w}
  PROVE  Spec => []TypeOK
<1>1. IInv /\ [Next]_vars => IInv'
  BY IInvStep
<1> QED BY <1>1, IInvInit, IInvTypes, PTL DEF Spec

\* Served one at a time, no period is billed twice, whichever sweep or request bills
\* it, on whatever day it was asked for, and wherever it is killed or refused.
THEOREM NeverBilledTwice ==
  ASSUME NEW w, Workers = {w}
  PROVE  Spec => []NeverTwice
<1>1. IInv /\ [Next]_vars => IInv'
  BY IInvStep
<1> QED BY <1>1, IInvInit, IInvNeverTwice, PTL DEF Spec

\* Served one at a time, a subscription is completed only when its agreement is over,
\* and no period that starts at or after its end is ever billed.
THEOREM NothingAfterTheEnd ==
  ASSUME NEW w, Workers = {w}
  PROVE  Spec => []CompletedAtEnd
<1>1. IInv /\ [Next]_vars => IInv'
  BY IInvStep
<1> QED BY <1>1, IInvInit, IInvCompleted, PTL DEF Spec

-----------------------------------------------------------------------------
(* What happens to a cancelled subscription.                                *)

Quiet ==
  \A s \in Subs : sub[s].status = "Cancelled" =>
    /\ sub'[s] = sub[s]
    /\ \A d \in Days : Invoices(s, d)' = Invoices(s, d)

LEMMA QuietRow ==
  ASSUME NEW s \in Subs, sub[s].status # "Cancelled", invoice' = invoice,
         NEW r, sub' = [sub EXCEPT ![s] = r], sub \in [Subs -> Row]
  PROVE  Quiet
BY DEF Quiet, Invoices

LEMMA QuietStep ==
  ASSUME NEW w, Workers = {w}, IInv, [Next]_vars
  PROVE  Quiet
<1> DEFINE k == work[w]
<1>0. sub \in [Subs -> Row] /\ invoice \in [Subs -> [Days -> Count]] /\ Sound(k, sub, invoice)
  BY DEF IInv, Unbilled
<1>1. CASE sub' = sub /\ invoice' = invoice
  BY <1>1 DEF Quiet, Invoices
<1>2. ASSUME NEW s \in Subs, Create(w, s) PROVE Quiet
  BY <1>0, <1>2, QuietRow DEF Create
<1>3. ASSUME NEW s \in Subs, Cancel(w, s) PROVE Quiet
  BY <1>0, <1>3, QuietRow DEF Cancel
<1>4. CASE Complete(w)
  <2>1. PICK s \in Subs :
          /\ k.now = s /\ k.copy[s].status = "Active"
          /\ sub' = [sub EXCEPT ![s] = [status |-> "Completed", cursor |-> sub[s].cursor]]
          /\ invoice' = invoice
    BY <1>4 DEF Complete, Billing
  <2>2. sub[s].status # "Cancelled"
    BY <2>1, <1>0 DEF Sound
  <2> QED BY <2>1, <2>2, <1>0, QuietRow
<1>5. CASE Invoice(w)
  <2>1. PICK s \in Subs :
          /\ k.now = s /\ k.copy[s].status = "Active"
          /\ \A x \in Subs : x # s => sub'[x] = sub[x] /\ invoice'[x] = invoice[x]
    BY <1>0, <1>5 DEF Invoice, Billing, Billable
  <2>2. sub[s].status # "Cancelled"
    BY <2>1, <1>0 DEF Sound
  <2> QED BY <2>1, <2>2 DEF Quiet, Invoices
<1>6. CASE Post(w)
  <2>1. PICK s \in Subs :
          invoice' = [invoice EXCEPT ![s] = [d \in Days |->
            IF d = k.pending THEN Posted(invoice[s][d]) ELSE invoice[s][d]]]
    BY <1>6 DEF Post
  <2>2. sub' = sub
    BY <1>6 DEF Post
  <2>3. \A d \in Days : Posted(invoice[s][d]).draft + Posted(invoice[s][d]).posted
                          = invoice[s][d].draft + invoice[s][d].posted
    BY <1>0 DEF Posted, Count
  <2>4. \A x \in Subs, d \in Days :
          invoice'[x][d].draft + invoice'[x][d].posted
            = invoice[x][d].draft + invoice[x][d].posted
    BY <1>0, <2>1, <2>3
  <2> QED BY <2>2, <2>4 DEF Quiet, Invoices
<1>7. CASE \/ UNCHANGED vars \/ Tick
           \/ \E s \in Subs, day \in Days : BeginRequest(w, s, day)
           \/ BeginSweep(w) \/ Pick(w) \/ EndSweep(w) \/ Skip(w)
           \/ Refuse(w) \/ RefusePost(w) \/ Crash(w)
  BY <1>1, <1>7 DEF vars, Tick, BeginRequest, BeginSweep, Pick, EndSweep, Skip, Refuse,
                    RefusePost, Crash
<1> QED BY <1>2, <1>3, <1>4, <1>5, <1>6, <1>7 DEF Next, Sweep, Bill

\* Served one at a time, a cancelled subscription is never billed or changed again.
THEOREM CancelledForGood ==
  ASSUME NEW w, Workers = {w}
  PROVE  Spec => CancelledIsQuiet
<1>1. IInv /\ [Next]_vars => IInv'
  BY IInvStep
<1>2. IInv /\ [Next]_vars => [Quiet]_vars
  BY QuietStep
<1>3. Spec => []IInv
  BY <1>1, IInvInit, PTL DEF Spec
<1> QED BY <1>2, <1>3, PTL DEF Spec, CancelledIsQuiet, Quiet

-----------------------------------------------------------------------------
(* No period is left out: the cursor is a whole number of cadences past the *)
(* first day, so between it and the next cursor no other period begins.      *)

LEMMA Divides ==
  ASSUME NEW n \in Int, NEW p \in Int, p > 0, n % p = 0
  PROVE  n = p * (n \div p)
BY Z3

LEMMA MultipleDivides ==
  ASSUME NEW p \in Nat \ {0}, NEW k \in Nat
  PROVE  (p * k) % p = 0
<1> DEFINE n == p * k
<1>1. n \in Nat /\ n = p * k + 0
  BY SMT
<1> HIDE DEF n
<1>2. n % p = 0
  BY <1>1, SMT
<1> QED BY <1>2 DEF n

\* a is a whole number of steps p from zero
LEMMA Quotient ==
  ASSUME NEW a \in Nat, NEW p \in Nat \ {0}, a % p = 0
  PROVE  \E k \in Nat : a = p * k
<1>1. a \div p \in Int /\ a \div p >= 0
  BY SMT
<1>2. a = p * (a \div p)
  BY Divides
<1> QED BY <1>1, <1>2

LEMMA NextMultiple ==
  ASSUME NEW a \in Nat, NEW p \in Nat \ {0}, a % p = 0
  PROVE  (a + p) % p = 0
<1>1. PICK k \in Nat : a = p * k
  BY Quotient
<1>2. a + p = p * (k + 1)
  BY <1>1, SMT
<1>3. k + 1 \in Nat /\ (p * (k + 1)) % p = 0
  <2>1. k + 1 \in Nat
    OBVIOUS
  <2> QED BY ONLY <2>1, MultipleDivides, p \in Nat \ {0}
<1> QED BY ONLY <1>2, <1>3

LEMMA NoMultipleBetween ==
  ASSUME NEW a \in Nat, NEW b \in Nat, NEW p \in Nat \ {0},
         a % p = 0, b % p = 0, a <= b, b < a + p
  PROVE  b = a
<1>1. PICK k \in Nat : a = p * k
  BY Quotient
<1>2. PICK j \in Nat : b = p * j
  BY Quotient
<1>3. p * j >= p * k /\ p * j < p * k + p
  BY <1>1, <1>2
<1>4. j = k
  BY <1>3, SMT
<1> QED BY <1>1, <1>2, <1>4

\* a period of s begins on day d
Begins(s, d) == StartDay[s] <= d /\ (d - StartDay[s]) % Step[s] = 0

Regular(s) ==
  /\ Begins(s, sub[s].cursor)
  /\ \A d \in Days : Invoices(s, d) > 0 <=> Begins(s, d) /\ d < sub[s].cursor

Gapless == \A s \in Subs : Regular(s)

LEMMA GaplessInit == Init => Gapless
<1> SUFFICES ASSUME Init, NEW s \in Subs PROVE Regular(s)
  BY DEF Gapless
<1>1. StartDay[s] \in Nat /\ Step[s] \in Nat \ {0}
  BY SubsAssumption
<1>2. sub[s].cursor = StartDay[s] /\ \A d \in Days : Invoices(s, d) = 0
  BY DEF Init, Invoices
<1>3. (StartDay[s] - StartDay[s]) % Step[s] = 0
  <2>1. StartDay[s] - StartDay[s] = 0
    BY <1>1
  <2>2. 0 % Step[s] = 0
    BY <1>1, SMT
  <2> QED BY <2>1, <2>2
<1>4. \A d \in Days : d \in Nat
  BY SubsAssumption DEF Days
<1> QED BY <1>1, <1>2, <1>3, <1>4 DEF Regular, Begins

\* a step that moves no cursor and adds no invoice
LEMMA RegularSame ==
  ASSUME Gapless, NEW s \in Subs, sub'[s].cursor = sub[s].cursor,
         \A d \in Days : Invoices(s, d)' = Invoices(s, d)
  PROVE  Regular(s)'
BY DEF Gapless, Regular, Begins

\* one that bills the period at the cursor
LEMMA RegularAdvance ==
  ASSUME Gapless, NEW s \in Subs, sub[s].cursor \in Nat,
         sub'[s].cursor = sub[s].cursor + Step[s],
         \A d \in Days : Invoices(s, d) \in Nat
           /\ Invoices(s, d)' = (IF d = sub[s].cursor THEN Invoices(s, d) + 1 ELSE Invoices(s, d))
  PROVE  Regular(s)'
<1> DEFINE c == sub[s].cursor
           p == Step[s]
           a == StartDay[s]
<1>1. c \in Nat /\ p \in Nat \ {0} /\ a \in Nat /\ \A d \in Days : d \in Nat
  BY SubsAssumption DEF Days
<1>2. /\ a <= c /\ (c - a) % p = 0
      /\ \A d \in Days : Invoices(s, d) > 0 <=> (a <= d /\ (d - a) % p = 0) /\ d < c
  BY DEF Gapless, Regular, Begins
<1>3. a <= c + p /\ ((c + p) - a) % p = 0
  <2>1. c - a \in Nat /\ (c + p) - a = (c - a) + p
    BY <1>1, <1>2
  <2> QED BY <1>1, <1>2, <2>1, NextMultiple
<1>4. ASSUME NEW d \in Days
      PROVE  Invoices(s, d)' > 0 <=> (a <= d /\ (d - a) % p = 0) /\ d < c + p
  <2>1. d \in Nat /\ Invoices(s, d) \in Nat
    BY <1>1
  <2>2. CASE d = c
    BY <2>1, <2>2, <1>1, <1>2
  <2>3. CASE d < c
    BY <2>1, <2>3, <1>1, <1>2
  <2>4. CASE d > c
    <3>1. ~(Invoices(s, d)' > 0)
      BY <2>1, <2>4, <1>1, <1>2
    <3>2. ~(a <= d /\ (d - a) % p = 0 /\ d < c + p)
      <4> SUFFICES ASSUME a <= d, (d - a) % p = 0, d < c + p PROVE FALSE
        OBVIOUS
      <4>1. d - a \in Nat /\ c - a \in Nat /\ c - a <= d - a /\ d - a < (c - a) + p
        BY <2>1, <2>4, <1>1, <1>2
      <4>2. d - a = c - a
        BY <4>1, <1>1, <1>2, NoMultipleBetween
      <4> QED BY <4>2, <2>1, <2>4, <1>1
    <3> QED BY <3>1, <3>2
  <2> QED BY <2>1, <2>2, <2>3, <2>4, <1>1
<1>5. sub'[s].cursor = c + p
  OBVIOUS
<1> HIDE DEF c, p
<1>6. Begins(s, sub'[s].cursor) /\ \A d \in Days : Invoices(s, d)' > 0 <=> Begins(s, d) /\ d < sub'[s].cursor
  BY <1>3, <1>4, <1>5 DEF Begins, p
<1> QED BY <1>6 DEF Regular, Begins

\* a step that changes the row of one subscription only, and not its cursor
LEMMA RowGapless ==
  ASSUME Gapless, sub \in [Subs -> Row], NEW s \in Subs, NEW r, r.cursor = sub[s].cursor,
         sub' = [sub EXCEPT ![s] = r], invoice' = invoice
  PROVE  Gapless'
<1>1. \A x \in Subs : sub'[x].cursor = sub[x].cursor
  OBVIOUS
<1>2. \A x \in Subs, d \in Days : Invoices(x, d)' = Invoices(x, d)
  BY DEF Invoices
<1> QED BY <1>1, <1>2, RegularSame DEF Gapless

LEMMA GaplessStep ==
  ASSUME NEW w, Workers = {w}, IInv, Gapless, [Next]_vars
  PROVE  Gapless'
<1> DEFINE k == work[w]
<1>0. sub \in [Subs -> Row] /\ invoice \in [Subs -> [Days -> Count]] /\ Sound(k, sub, invoice)
  BY DEF IInv, Unbilled
<1>1. CASE sub' = sub /\ invoice' = invoice
  <2>1. \A s \in Subs, d \in Days : Invoices(s, d)' = Invoices(s, d)
    BY <1>1 DEF Invoices
  <2> QED BY <1>1, <2>1, RegularSame DEF Gapless
<1>2. ASSUME NEW s \in Subs, Create(w, s) PROVE Gapless'
  <2>1. sub[s].cursor = StartDay[s]
    BY <1>2 DEF Create, IInv, Unbilled
  <2> QED BY <1>0, <1>2, <2>1, RowGapless DEF Create
<1>3. ASSUME NEW s \in Subs, Cancel(w, s) PROVE Gapless'
  BY <1>0, <1>3, RowGapless DEF Cancel
<1>4. CASE Complete(w)
  <2>1. PICK s \in Subs :
          /\ sub' = [sub EXCEPT ![s] = [status |-> "Completed", cursor |-> sub[s].cursor]]
          /\ invoice' = invoice
    BY <1>4 DEF Complete
  <2> QED BY <2>1, <1>0, RowGapless
<1>5. CASE Invoice(w)
  <2>1. PICK s \in Subs :
          /\ k.now = s
          /\ sub' = [sub EXCEPT ![s] =
               [status |-> IF Advanced(s, k.copy[s]).status = k.copy[s].status
                           THEN sub[s].status ELSE Advanced(s, k.copy[s]).status,
                cursor |-> Advanced(s, k.copy[s]).cursor]]
          /\ invoice' = [invoice EXCEPT ![s] = [d \in Days |->
               IF d = k.copy[s].cursor THEN Drafted(invoice[s][d]) ELSE invoice[s][d]]]
    BY <1>5 DEF Invoice, Billing
  <2>2. k.copy[s] = sub[s]
    BY <2>1, <1>0 DEF Sound
  <2>3. sub'[s].cursor = sub[s].cursor + Step[s] /\ sub[s].cursor \in Nat
    BY <2>1, <2>2, <1>0 DEF Advanced, Row
  <2>4. ASSUME NEW d \in Days
        PROVE  /\ Invoices(s, d) \in Nat
               /\ Invoices(s, d)' = (IF d = sub[s].cursor THEN Invoices(s, d) + 1
                                     ELSE Invoices(s, d))
    <3>1. invoice[s][d] \in Count
      BY <1>0
    <3>2. invoice'[s][d] = IF d = sub[s].cursor THEN Drafted(invoice[s][d]) ELSE invoice[s][d]
      BY <2>1, <2>2, <1>0
    <3> QED BY <3>1, <3>2 DEF Invoices, Drafted, Count
  <2>5. Regular(s)'
    BY <2>3, <2>4, RegularAdvance
  <2>6. ASSUME NEW x \in Subs, x # s PROVE Regular(x)'
    <3>1. sub'[x] = sub[x] /\ invoice'[x] = invoice[x]
      BY <2>1, <2>6, <1>0
    <3> QED BY <3>1, RegularSame DEF Invoices
  <2> QED BY <2>5, <2>6 DEF Gapless
<1>6. CASE Post(w)
  <2>1. PICK s \in Subs :
          invoice' = [invoice EXCEPT ![s] = [d \in Days |->
            IF d = k.pending THEN Posted(invoice[s][d]) ELSE invoice[s][d]]]
    BY <1>6 DEF Post
  <2>2. sub' = sub
    BY <1>6 DEF Post
  <2>3. \A d \in Days : Posted(invoice[s][d]).draft + Posted(invoice[s][d]).posted
                          = invoice[s][d].draft + invoice[s][d].posted
    BY <1>0 DEF Posted, Count
  <2>4. \A x \in Subs, d \in Days : Invoices(x, d)' = Invoices(x, d)
    BY <1>0, <2>1, <2>3 DEF Invoices
  <2> QED BY <2>2, <2>4, RegularSame DEF Gapless
<1>7. CASE \/ UNCHANGED vars \/ Tick
           \/ \E s \in Subs, day \in Days : BeginRequest(w, s, day)
           \/ BeginSweep(w) \/ Pick(w) \/ EndSweep(w) \/ Skip(w)
           \/ Refuse(w) \/ RefusePost(w) \/ Crash(w)
  BY <1>1, <1>7 DEF vars, Tick, BeginRequest, BeginSweep, Pick, EndSweep, Skip, Refuse,
                    RefusePost, Crash
<1> QED BY <1>2, <1>3, <1>4, <1>5, <1>6, <1>7 DEF Next, Sweep, Bill

\* Served one at a time, no period is left out: on every day before the cursor on which
\* a period begins there is an invoice, and on no other day, whatever was killed,
\* refused, cancelled or asked for in advance.
THEOREM NothingLeftUnbilled ==
  ASSUME NEW w, Workers = {w}
  PROVE  Spec => []NoGap
<1>1. IInv /\ Gapless /\ [Next]_vars => IInv' /\ Gapless'
  BY IInvStep, GaplessStep
<1>2. Gapless => NoGap
  BY DEF Gapless, Regular, Begins, NoGap
<1> QED BY <1>1, <1>2, IInvInit, GaplessInit, PTL DEF Spec
=============================================================================
