--------------------------- MODULE InvoicingProofs ---------------------------
(***************************************************************************)
(* Invoicing for every number of jobs, invoices, requests, edits and       *)
(* overlaps: that paid invoices are covered and settled, that a total is   *)
(* that of the lines, that posted invoices do not change, that the nights  *)
(* bill a job once and that bills stay within the credit.                  *)
(***************************************************************************)
EXTENDS Invoicing, FiniteSetTheorems, NaturalsInduction, TLAPS

-----------------------------------------------------------------------------
(***************************************************************************)
(* The inductive invariant.                                                *)
(***************************************************************************)
\* A request has an invoice that exists if it writes to one, and each statement
\* belongs to its operation.
Shaped(q) ==
  /\ q.op = "idle" => q = Idle
  /\ q.op \in {"edit", "post", "cancel", "pay"} =>
       q.inv \in Invoices /\ invoice[q.inv].status # "none"
  /\ q.op = "edit" => q.at \in {"delete", "write"} /\ q.edit > 0 /\ q.jobs # {}
  /\ q.op \in {"post", "cancel"} => q.then \in {"POSTED", "CANCELLED"}
  /\ q.op = "pay" => q.amount > 0 /\ q.then \in {"PAID", "POSTED"}
  /\ q.at = "delete" => q.op = "edit"
  /\ q.at = "create" => q.op \in {"create", "cycle"}
  /\ q.at = "tip" => q.op = "customer"

\* Until somebody posts, cancels or pays it, the invoice is a draft nobody has
\* paid, and its lines are the ones the edit has seen.
EditKnows(q) ==
  q.op = "edit" =>
    /\ q.since \cap {"status", "pay"} = {} => invoice[q.inv].status = "DRAFT"
    /\ "pay" \notin q.since => invoice[q.inv].paid = 0 /\ invoice[q.inv].status # "PAID"
    /\ q.at = "write" /\ "edit" \notin q.since => invoice[q.inv].lines = q.seen

StatusKnows(q) ==
  q.op \in {"post", "cancel"} /\ "pay" \notin q.since => invoice[q.inv].paid = 0

\* Payments only add up: one that settled the invoice when it looked still does.
PayKnows(q) ==
  q.op = "pay" =>
    /\ q.then = "PAID" /\ "edit" \notin q.since =>
         invoice[q.inv].paid + q.amount >= invoice[q.inv].total
    /\ q.since = {} =>
         /\ invoice[q.inv].paid + q.amount <= invoice[q.inv].total
         /\ q.then = "PAID" <=> invoice[q.inv].paid + q.amount = invoice[q.inv].total

\* Nobody has billed the jobs of a night's run that was told of no bill.
BillKnows(q) ==
  q.op = "cycle" /\ q.at = "create" /\ "bill" \notin q.since =>
    \A i \in Invoices, j \in q.jobs : <<0, j>> \notin invoice[i].lines

Known(q) == Shaped(q) /\ EditKnows(q) /\ StatusKnows(q) /\ PayKnows(q) /\ BillKnows(q)

\* A draft is unpaid; a row that is not there has nothing.
Rows ==
  \A i \in Invoices :
    /\ invoice[i].status = "DRAFT" => invoice[i].paid = 0
    /\ invoice[i].status = "none" => invoice[i] = Absent

IInv ==
  /\ TypeOK /\ Rows /\ PaidIsCovered /\ SettledExactly /\ TotalIsLines /\ CycleBillsOnce
  /\ \A r \in Requests : Known(req[r])

LEMMA IdleIsKnown ==
  Idle \in Request /\ Known(Idle)
<1>1. Idle \in Request
  BY Constants DEF Idle, Request, InvoiceStatus
<1>2. Idle.op = "idle" /\ Idle.at = "idle"
  BY DEF Idle
<1>3. QED
  BY <1>1, <1>2 DEF Known, Shaped, EditKnows, StatusKnows, PayKnows, BillKnows

LEMMA AbsentIsRow ==
  Absent \in InvoiceRow
BY DEF Absent, InvoiceRow, InvoiceStatus

\* Lines of one edit are as many as their jobs.
LEMMA LinesCount ==
  ASSUME NEW S \in SUBSET Jobs, NEW e
  PROVE  /\ IsFiniteSet(S) /\ Cardinality(S) \in Nat
         /\ Cardinality({e} \X S) = Cardinality(S)
<1>1. IsFiniteSet(S) /\ Cardinality(S) \in Nat
  BY Constants, FS_Subset, FS_CardinalityType
<1> DEFINE f == [j \in S |-> <<e, j>>]
<1>2. f \in [S -> {e} \X S]
  OBVIOUS
<1>3. \A j, k \in S : f[j] = f[k] => j = k
  OBVIOUS
<1>4. \A line \in {e} \X S : \E j \in S : f[j] = line
  OBVIOUS
<1> HIDE DEF f
<1>5. f \in Surjection(S, {e} \X S)
  BY <1>2, <1>4 DEF Surjection
<1>6. f \in Injection(S, {e} \X S)
  BY <1>2, <1>3 DEF Injection, IsInjective
<1>7. ExistsBijection(S, {e} \X S)
  BY <1>5, <1>6 DEF ExistsBijection, Bijection
<1>8. QED
  BY <1>1, <1>7, FS_Bijection

LEMMA InitEstablishes == Init => IInv
<1> SUFFICES ASSUME Init PROVE IInv
  OBVIOUS
<1>1. TypeOK
  BY AbsentIsRow, IdleIsKnown, Constants DEF Init, TypeOK
<1>2. \A i \in Invoices : invoice[i] = Absent
  BY DEF Init
<1>3. Rows /\ PaidIsCovered /\ SettledExactly
  BY <1>2 DEF Rows, PaidIsCovered, SettledExactly, Absent
<1>4. TotalIsLines
  BY <1>2, FS_EmptySet DEF TotalIsLines, Absent
<1>5. CycleBillsOnce
  BY <1>2 DEF CycleBillsOnce, Absent
<1>6. \A r \in Requests : Known(req[r])
  BY IdleIsKnown DEF Init
<1>7. QED
  BY <1>1, <1>3, <1>4, <1>5, <1>6 DEF IInv

-----------------------------------------------------------------------------
(***************************************************************************)
(* Statements that write no invoice.                                       *)
(***************************************************************************)
\* Request r has become q, and the others are as they were.
Becomes(r, q) ==
  /\ req' \in [Requests -> Request] /\ req'[r] = q
  /\ \A o \in Requests \ {r} : req'[o] = req[o]

LEMMA KnownStays ==
  ASSUME UNCHANGED invoice, NEW q, Known(q)
  PROVE  Known(q)'
BY DEF Known, Shaped, EditKnows, StatusKnows, PayKnows, BillKnows, Idle

LEMMA LocalKeeps ==
  ASSUME IInv, NEW r \in Requests, NEW q \in Request, Becomes(r, q), Known(q),
         UNCHANGED <<invoice, stale>>, edits' \in 0..MaxEdits
  PROVE  IInv'
<1>1. TypeOK'
  BY DEF IInv, TypeOK, Becomes
<1>2. Rows' /\ PaidIsCovered' /\ SettledExactly' /\ TotalIsLines'
  BY DEF IInv, Rows, PaidIsCovered, SettledExactly, TotalIsLines, Overtook
<1>3. CycleBillsOnce'
  BY DEF IInv, CycleBillsOnce, Unedited, Overtook, JobsOf
<1>4. ASSUME NEW o \in Requests PROVE Known(req[o])'
  <2>1. CASE o = r
    BY <2>1, KnownStays DEF Becomes
  <2>2. CASE o # r
    BY <2>2, KnownStays DEF Becomes, IInv
  <2>3. QED
    BY <2>1, <2>2
<1>5. QED
  BY <1>1, <1>2, <1>3, <1>4 DEF IInv

LEMMA AdmitKeeps ==
  ASSUME IInv, NEW r \in Requests, NEW q \in Request, Known(q), Admit(r, q),
         UNCHANGED <<invoice, stale>>, edits' \in 0..MaxEdits
  PROVE  IInv'
<1>1. Becomes(r, q)
  BY DEF IInv, TypeOK, Admit, Becomes
<1>2. QED
  BY <1>1, LocalKeeps

LEMMA BillsKeep ==
  ASSUME IInv, NEW r \in Requests, NEW jobs \in SUBSET Jobs, NEW op \in {"create", "cycle"},
         Reads(r, op, jobs), op = "cycle" => jobs \cap Invoiced = {}
  PROVE  IInv'
<1> DEFINE q == [Idle EXCEPT !.op = op, !.at = "create", !.jobs = jobs]
<1>1. q \in Request
  BY IdleIsKnown DEF Request, AllOps
<1>2. q.op = op /\ q.at = "create" /\ q.jobs = jobs
  BY DEF Idle
<1>3. BillKnows(q)
  <2>1. SUFFICES ASSUME op = "cycle", NEW i \in Invoices, NEW j \in jobs,
                        <<0, j>> \in invoice[i].lines
                 PROVE  FALSE
    BY <1>2 DEF BillKnows
  <2>2. j \in JobsOf(i)
    BY <2>1 DEF JobsOf
  <2>3. QED
    BY <2>1, <2>2 DEF Invoiced
<1>4. Known(q)
  BY <1>2, <1>3 DEF Known, Shaped, EditKnows, StatusKnows, PayKnows
<1>5. QED
  BY <1>1, <1>4, AdmitKeeps DEF Reads, IInv, TypeOK

LEMMA EditLinesKeeps ==
  ASSUME IInv, NEW r \in Requests, NEW i \in Invoices, NEW jobs \in SUBSET Jobs,
         EditLines(r, i, jobs)
  PROVE  IInv'
<1> DEFINE q == [Idle EXCEPT !.op = "edit", !.at = "delete", !.inv = i,
                             !.jobs = jobs, !.edit = edits + 1]
<1>1. edits \in Nat /\ edits < MaxEdits /\ edits + 1 \in 0..MaxEdits
  BY Constants DEF EditLines, IInv, TypeOK
<1>2. q \in Request
  <2>1. i \in 0..MaxInvoices
    BY Constants DEF Invoices
  <2>2. QED
    BY <1>1, <2>1, IdleIsKnown DEF Request, AllOps
<1>3. /\ q.op = "edit" /\ q.at = "delete" /\ q.inv = i /\ q.jobs = jobs
      /\ q.edit = edits + 1
  BY DEF Idle
<1>4. invoice[i].status = "DRAFT" /\ invoice[i].paid = 0 /\ jobs # {}
  BY DEF EditLines, IInv, Rows
<1>5. Known(q)
  BY <1>1, <1>3, <1>4 DEF Known, Shaped, EditKnows, StatusKnows, PayKnows, BillKnows
<1>6. QED
  BY <1>1, <1>2, <1>5, AdmitKeeps DEF EditLines

LEMMA ChangeStatusKeeps ==
  ASSUME IInv, NEW r \in Requests, NEW i \in Invoices, ChangeStatus(r, i)
  PROVE  IInv'
<1>1. ASSUME NEW op \in {"post", "cancel"}, NEW then \in {"POSTED", "CANCELLED"},
             Admit(r, [Idle EXCEPT !.op = op, !.at = "write", !.inv = i, !.then = then])
      PROVE  IInv'
  <2> DEFINE q == [Idle EXCEPT !.op = op, !.at = "write", !.inv = i, !.then = then]
  <2>1. q \in Request
    <3>1. i \in 0..MaxInvoices
      BY Constants DEF Invoices
    <3>2. QED
      BY <3>1, IdleIsKnown DEF Request, AllOps, InvoiceStatus
  <2>2. q.op = op /\ q.at = "write" /\ q.inv = i /\ q.then = then
    BY DEF Idle
  <2>3. invoice[i].status = "DRAFT" /\ invoice[i].paid = 0
    BY DEF ChangeStatus, IInv, Rows
  <2>4. Known(q)
    BY <2>2, <2>3 DEF Known, Shaped, EditKnows, StatusKnows, PayKnows, BillKnows
  <2>5. QED
    BY <1>1, <2>1, <2>4, AdmitKeeps DEF ChangeStatus, IInv, TypeOK
<1>2. QED
  BY <1>1 DEF ChangeStatus

LEMMA PayKeeps ==
  ASSUME IInv, NEW r \in Requests, NEW i \in Invoices, NEW amount \in Nat \ {0},
         Pay(r, i, amount)
  PROVE  IInv'
<1> DEFINE full == invoice[i].paid + amount = invoice[i].total
           then == IF full THEN "PAID" ELSE "POSTED"
           q == [Idle EXCEPT !.op = "pay", !.at = "write", !.inv = i, !.amount = amount,
                             !.then = then]
<1>1. q \in Request
  <2>1. i \in 0..MaxInvoices /\ then \in InvoiceStatus
    BY Constants DEF Invoices, InvoiceStatus
  <2>2. QED
    BY <2>1, IdleIsKnown DEF Request, AllOps
<1>2. /\ q.op = "pay" /\ q.at = "write" /\ q.inv = i /\ q.amount = amount
      /\ q.then = then
  BY DEF Idle
<1>3. /\ invoice[i].status # "none" /\ invoice[i].paid + amount <= invoice[i].total
      /\ invoice[i].paid \in Nat /\ invoice[i].total \in Nat
  BY DEF Pay, IInv, TypeOK, InvoiceRow
<1>4. PayKnows(q)
  BY <1>2, <1>3 DEF PayKnows
<1>5. Known(q)
  BY <1>2, <1>3, <1>4 DEF Known, Shaped, EditKnows, StatusKnows, BillKnows
<1>6. QED
  BY <1>1, <1>5, AdmitKeeps DEF Pay, IInv, TypeOK

\* The lines an edit deletes are the ones there are, until another edit.
LEMMA DeleteLinesKeeps ==
  ASSUME IInv, NEW r \in Requests, DeleteLines(r)
  PROVE  IInv'
<1> DEFINE p == req[r]
           q == [p EXCEPT !.at = "write", !.seen = invoice[p.inv].lines]
<1>1. p \in Request /\ Known(p) /\ p.at = "delete"
  BY DEF IInv, TypeOK, DeleteLines
<1>2. req' = [req EXCEPT ![r] = q]
  BY DEF DeleteLines
<1>3. /\ q.op = p.op /\ q.at = "write" /\ q.inv = p.inv /\ q.jobs = p.jobs
      /\ q.edit = p.edit /\ q.seen = invoice[p.inv].lines /\ q.amount = p.amount
      /\ q.then = p.then /\ q.since = p.since
  BY <1>1 DEF Request
<1>4. q \in Request
  <2>1. p.inv \in Invoices
    BY <1>1 DEF Known, Shaped
  <2>2. invoice[p.inv].lines \in SUBSET Lines
    BY <2>1 DEF IInv, TypeOK, InvoiceRow
  <2>3. QED
    BY <1>1, <2>2 DEF Request
<1>5. Known(q)
  BY <1>1, <1>3 DEF Known, Shaped, EditKnows, StatusKnows, PayKnows, BillKnows, Idle
<1>6. Becomes(r, q)
  BY <1>2, <1>4 DEF IInv, TypeOK, Becomes
<1>7. QED
  BY <1>4, <1>5, <1>6, LocalKeeps DEF DeleteLines, IInv, TypeOK

LEMMA CrashKeeps ==
  ASSUME IInv, NEW r \in Requests, Crash(r)
  PROVE  IInv'
<1>1. Becomes(r, Idle)
  BY IdleIsKnown DEF IInv, TypeOK, Crash, Becomes
<1>2. QED
  BY <1>1, IdleIsKnown, LocalKeeps DEF Crash, IInv, TypeOK

-----------------------------------------------------------------------------
(***************************************************************************)
(* Statements that write one invoice.                                      *)
(***************************************************************************)
\* Request p hears of a write of this kind to invoice i, and is then q.
Hears(p, q, i, kind) ==
  /\ q.op = p.op /\ q.at = p.at /\ q.inv = p.inv /\ q.jobs = p.jobs
  /\ q.edit = p.edit /\ q.seen = p.seen /\ q.amount = p.amount /\ q.then = p.then
  /\ p = Idle => q = Idle
  /\ p.since \subseteq q.since
  /\ kind # "bill" /\ p.inv = i => kind \in q.since
  /\ kind = "bill" /\ p.at = "create" => kind \in q.since

LEMMA WroteEffect ==
  ASSUME IInv, NEW r \in Requests, NEW i \in Invoices, NEW kind \in Writes,
         NEW next \in Request, Wrote(r, i, kind, next)
  PROVE  /\ req' \in [Requests -> Request] /\ req'[r] = next
         /\ \A o \in Requests \ {r} : Hears(req[o], req'[o], i, kind)
         /\ stale \subseteq stale' /\ stale' \subseteq Invoices \X Writes \X Writes
         /\ \A k \in req[r].since : <<i, kind, k>> \in stale'
<1>1. \A o \in Requests : req[o] \in Request
  BY DEF IInv, TypeOK
<1>2. ASSUME NEW o \in Requests \ {r}
      PROVE  req'[o] \in Request /\ Hears(req[o], req'[o], i, kind)
  <2>1. CASE IF kind = "bill" THEN req[o].at = "create" ELSE req[o].inv = i
    <3>1. req'[o] = [req[o] EXCEPT !.since = @ \cup {kind}]
      BY <2>1 DEF Wrote
    <3>2. /\ req'[o] \in Request /\ req'[o].since = req[o].since \cup {kind}
          /\ req'[o].op = req[o].op /\ req'[o].at = req[o].at /\ req'[o].inv = req[o].inv
          /\ req'[o].jobs = req[o].jobs /\ req'[o].edit = req[o].edit
          /\ req'[o].seen = req[o].seen /\ req'[o].amount = req[o].amount
          /\ req'[o].then = req[o].then
      BY <1>1, <3>1 DEF Request
    <3>3. req[o] # Idle
      BY <2>1, Constants DEF Idle, Invoices
    <3>4. QED
      BY <3>2, <3>3 DEF Hears
  <2>2. CASE ~ (IF kind = "bill" THEN req[o].at = "create" ELSE req[o].inv = i)
    <3>1. req'[o] = req[o]
      BY <2>2 DEF Wrote
    <3>2. QED
      BY <1>1, <2>2, <3>1 DEF Hears
  <2>3. QED
    BY <2>1, <2>2
<1>3. req'[r] = next /\ req' = [o \in Requests |-> req'[o]]
  BY DEF Wrote
<1>4. req[r].since \subseteq Writes
  BY <1>1 DEF Request
<1>5. stale' = stale \cup {<<i, kind, k>> : k \in req[r].since}
  BY DEF Wrote
<1>6. QED
  BY <1>2, <1>3, <1>4, <1>5 DEF IInv, TypeOK

\* What a write of each kind does to invoice i, and leaves alone.
Changes(i, kind) ==
  /\ \A k \in Invoices \ {i} : invoice'[k] = invoice[k]
  /\ invoice'[i].status # "none"
  /\ kind = "bill" => invoice[i] = Absent
  /\ kind # "bill" =>
       /\ invoice'[i].by = invoice[i].by
       /\ \A j \in Jobs : <<0, j>> \in invoice'[i].lines => <<0, j>> \in invoice[i].lines
  /\ kind = "edit" =>
       invoice'[i].status = invoice[i].status /\ invoice'[i].paid = invoice[i].paid
  /\ kind \in {"status", "pay"} =>
       invoice'[i].lines = invoice[i].lines /\ invoice'[i].total = invoice[i].total
  /\ kind = "status" =>
       invoice'[i].paid = invoice[i].paid /\ invoice'[i].status # "PAID"
  /\ kind = "pay" => invoice'[i].paid >= invoice[i].paid

LEMMA HearersKnow ==
  ASSUME IInv, NEW i \in Invoices, NEW kind \in Writes, Changes(i, kind),
         invoice' \in [Invoices -> InvoiceRow],
         NEW o \in Requests, Hears(req[o], req'[o], i, kind)
  PROVE  Known(req[o])'
<1> DEFINE p == req[o]
           q == req'[o]
<1>1. Known(p) /\ p \in Request
  BY DEF IInv, TypeOK
<1>2. p.inv \in Invoices =>
        /\ invoice[p.inv].status # "none" => invoice'[p.inv].status # "none"
        /\ p.inv # i => invoice'[p.inv] = invoice[p.inv]
        /\ invoice[p.inv].paid \in Nat /\ invoice[p.inv].total \in Nat
        /\ invoice'[p.inv].paid \in Nat /\ invoice'[p.inv].total \in Nat
  BY DEF Changes, IInv, TypeOK, InvoiceRow
<1>3. Shaped(req[o])'
  BY <1>1, <1>2 DEF Known, Shaped, Hears, Idle
<1>4. p.op \in {"edit", "post", "cancel", "pay"} /\ p.inv = i =>
        kind # "bill" /\ kind \in q.since
  BY <1>1 DEF Known, Shaped, Changes, Absent, Hears
<1>5. EditKnows(req[o])'
  <2>1. SUFFICES ASSUME p.op = "edit"
                 PROVE  /\ q.since \cap {"status", "pay"} = {} =>
                             invoice'[p.inv].status = "DRAFT"
                        /\ "pay" \notin q.since =>
                             invoice'[p.inv].paid = 0 /\ invoice'[p.inv].status # "PAID"
                        /\ p.at = "write" /\ "edit" \notin q.since =>
                             invoice'[p.inv].lines = p.seen
    BY DEF EditKnows, Hears
  <2>2. CASE p.inv = i
    BY <1>1, <1>4, <2>1, <2>2 DEF Known, EditKnows, Changes, Hears, Writes
  <2>3. CASE p.inv # i
    BY <1>1, <1>2, <2>1, <2>3 DEF Known, Shaped, EditKnows, Hears
  <2>4. QED
    BY <2>2, <2>3
<1>6. StatusKnows(req[o])'
  <2>1. CASE p.inv = i
    BY <1>1, <1>4, <2>1 DEF Known, StatusKnows, Changes, Hears, Writes
  <2>2. CASE p.inv # i
    BY <1>1, <1>2, <2>2 DEF Known, Shaped, StatusKnows, Hears
  <2>3. QED
    BY <2>1, <2>2
<1>7. PayKnows(req[o])'
  <2>1. SUFFICES ASSUME p.op = "pay"
                 PROVE  /\ p.then = "PAID" /\ "edit" \notin q.since =>
                             invoice'[p.inv].paid + p.amount >= invoice'[p.inv].total
                        /\ q.since = {} =>
                             /\ invoice'[p.inv].paid + p.amount <= invoice'[p.inv].total
                             /\ p.then = "PAID" <=>
                                  invoice'[p.inv].paid + p.amount = invoice'[p.inv].total
    BY DEF PayKnows, Hears
  <2>2. CASE p.inv = i
    <3>1. kind \in {"edit", "status", "pay"} /\ kind \in q.since
      BY <1>4, <2>1, <2>2 DEF Writes
    <3>2. p.then = "PAID" /\ "edit" \notin q.since =>
            /\ invoice[i].paid + p.amount >= invoice[i].total
            /\ invoice'[i].total = invoice[i].total /\ invoice'[i].paid >= invoice[i].paid
      BY <1>1, <1>2, <2>1, <2>2, <3>1 DEF Known, PayKnows, Hears, Changes
    <3>3. p.amount \in Nat
      BY <1>1 DEF Request
    <3>4. QED
      BY <1>2, <2>2, <3>1, <3>2, <3>3
  <2>3. CASE p.inv # i
    BY <1>1, <1>2, <2>1, <2>3 DEF Known, Shaped, PayKnows, Hears
  <2>4. QED
    BY <2>2, <2>3
<1>8. BillKnows(req[o])'
  <2>1. SUFFICES ASSUME p.op = "cycle", p.at = "create", "bill" \notin q.since,
                        NEW k \in Invoices, NEW j \in p.jobs,
                        <<0, j>> \in invoice'[k].lines
                 PROVE  FALSE
    BY DEF BillKnows, Hears
  <2>2. kind # "bill" /\ "bill" \notin p.since /\ j \in Jobs
    BY <1>1, <2>1 DEF Hears, Request
  <2>3. <<0, j>> \in invoice[k].lines
    BY <2>1, <2>2 DEF Changes
  <2>4. QED
    BY <1>1, <2>1, <2>2, <2>3 DEF Known, BillKnows
<1>9. QED
  BY <1>3, <1>5, <1>6, <1>7, <1>8 DEF Known

\* What the invariants ask of one row.
Good(i) ==
  /\ invoice[i].status = "DRAFT" => invoice[i].paid = 0
  /\ invoice[i].status = "PAID" /\ ~Overtook(i, "edit", "pay") /\ ~Overtook(i, "pay", "edit")
       => invoice[i].paid >= invoice[i].total
  /\ (\A k \in Writes : ~Overtook(i, "pay", k) /\ ~Overtook(i, k, "pay"))
       => /\ invoice[i].paid <= invoice[i].total
          /\ invoice[i].paid > 0 /\ invoice[i].paid = invoice[i].total
               => invoice[i].status = "PAID"
  /\ ~Overtook(i, "edit", "edit") => invoice[i].total = Cardinality(invoice[i].lines)

\* The nights have billed none of the jobs of invoice i elsewhere.
Alone(i) ==
  /\ invoice[i].by = "cycle" /\ Unedited(i) /\ ~Overtook(i, "bill", "bill")
  => \A k \in Invoices \ {i} :
       invoice[k].by = "cycle" /\ Unedited(k) /\ ~Overtook(k, "bill", "bill")
         => JobsOf(i) \cap JobsOf(k) = {}

LEMMA WriteKeeps ==
  ASSUME IInv, NEW r \in Requests, NEW i \in Invoices, NEW kind \in Writes,
         NEW next \in Request, Wrote(r, i, kind, next), Known(next)',
         invoice' \in [Invoices -> InvoiceRow], edits' = edits,
         Changes(i, kind), Good(i)', Alone(i)'
  PROVE  IInv'
<1>1. /\ req' \in [Requests -> Request] /\ req'[r] = next
      /\ \A o \in Requests \ {r} : Hears(req[o], req'[o], i, kind)
      /\ stale \subseteq stale' /\ stale' \subseteq Invoices \X Writes \X Writes
  BY WroteEffect
<1>2. TypeOK'
  BY <1>1 DEF IInv, TypeOK
<1>3. \A k \in Invoices \ {i} : invoice'[k] = invoice[k]
  BY DEF Changes
<1>4. \A k \in Invoices : Good(k)'
  <2>1. ASSUME NEW k \in Invoices \ {i} PROVE Good(k)'
    <3>1. \A a, b \in Writes : Overtook(k, a, b) => Overtook(k, a, b)'
      BY <1>1 DEF Overtook
    <3>2. Good(k)
      BY DEF IInv, Good, Rows, PaidIsCovered, SettledExactly, TotalIsLines
    <3>3. QED
      BY <1>3, <3>1, <3>2 DEF Good, Writes
  <2>2. QED
    BY <2>1
<1>5. Rows'
  BY <1>3, <1>4 DEF Rows, Good, Changes, IInv
<1>6. PaidIsCovered' /\ SettledExactly' /\ TotalIsLines'
  BY <1>4 DEF Good, PaidIsCovered, SettledExactly, TotalIsLines
<1>7. CycleBillsOnce'
  <2> DEFINE Nightly(k) == invoice[k].by = "cycle" /\ Unedited(k) /\ ~Overtook(k, "bill", "bill")
  <2>1. SUFFICES ASSUME NEW j \in Invoices, NEW k \in Invoices, j # k,
                        Nightly(j)', Nightly(k)'
                 PROVE  JobsOf(j)' \cap JobsOf(k)' = {}
    BY DEF CycleBillsOnce
  <2>2. \A m \in Invoices \ {i} : Nightly(m)' => Nightly(m) /\ JobsOf(m)' = JobsOf(m)
    BY <1>1, <1>3 DEF Overtook, Unedited, JobsOf, Writes
  <2>3. CASE j # i /\ k # i
    BY <2>1, <2>2, <2>3 DEF IInv, CycleBillsOnce
  <2>4. ASSUME NEW m \in Invoices \ {i}, Nightly(i)', Nightly(m)'
        PROVE  JobsOf(i)' \cap JobsOf(m)' = {}
    BY <2>4, Zenon DEF Alone
  <2>5. QED
    BY <2>1, <2>3, <2>4
<1>8. \A o \in Requests : Known(req[o])'
  BY <1>1, HearersKnow
<1>9. QED
  BY <1>2, <1>5, <1>6, <1>7, <1>8 DEF IInv

LEMMA CreatesKeep ==
  ASSUME IInv, NEW r \in Requests, NEW by \in {"office", "cycle", "customer"},
         NEW jobs \in SUBSET Jobs, NEW next \in Request, Known(next)',
         Creates(r, by, jobs, next),
         by = "cycle" => req[r].op = "cycle" /\ req[r].at = "create" /\ req[r].jobs = jobs
  PROVE  IInv'
<1> DEFINE row == [status |-> "DRAFT", by |-> by, lines |-> {0} \X jobs,
                   total |-> Cardinality(jobs), paid |-> 0]
<1>1. PICK i \in Invoices :
        /\ invoice[i] = Absent /\ invoice' = [invoice EXCEPT ![i] = row]
        /\ Wrote(r, i, "bill", next) /\ edits' = edits
  BY DEF Creates
<1>2. invoice'[i] = row /\ \A k \in Invoices \ {i} : invoice'[k] = invoice[k]
  BY <1>1 DEF IInv, TypeOK
<1>3. Cardinality(jobs) \in Nat /\ Cardinality({0} \X jobs) = Cardinality(jobs)
  BY LinesCount
<1>4. row \in InvoiceRow
  <2>1. {0} \X jobs \in SUBSET Lines
    BY Constants DEF Lines
  <2>2. QED
    BY <1>3, <2>1 DEF InvoiceRow, InvoiceStatus
<1>5. invoice' \in [Invoices -> InvoiceRow]
  BY <1>1, <1>4 DEF IInv, TypeOK
<1>6. Changes(i, "bill")
  BY <1>1, <1>2 DEF Changes
<1>7. Good(i)'
  BY <1>2, <1>3 DEF Good
<1>8. Alone(i)'
  <2>1. SUFFICES ASSUME by = "cycle", <<i, "bill", "bill">> \notin stale',
                        NEW k \in Invoices \ {i}, Unedited(k)', NEW j \in JobsOf(i)',
                        j \in JobsOf(k)'
                 PROVE  FALSE
    BY <1>2 DEF Alone, Overtook
  <2>2. "bill" \notin req[r].since
    BY <1>1, <2>1, WroteEffect, IdleIsKnown DEF Writes
  <2>3. j \in jobs
    BY <1>2, <2>1 DEF JobsOf
  <2>4. <<0, j>> \in invoice[k].lines
    BY <1>2, <2>1 DEF JobsOf, Unedited
  <2>5. BillKnows(req[r])
    BY DEF IInv, Known
  <2>6. QED
    BY <2>1, <2>2, <2>3, <2>4, <2>5 DEF BillKnows
<1>9. QED
  BY <1>1, <1>5, <1>6, <1>7, <1>8, WriteKeeps DEF Writes

LEMMA CreateDraftKeeps ==
  ASSUME IInv, NEW r \in Requests, CreateDraft(r)
  PROVE  IInv'
<1>1. req[r] \in Request /\ Known(req[r])
  BY DEF IInv, TypeOK
<1>2. Idle \in Request /\ Known(Idle)'
  BY IdleIsKnown DEF Known, Shaped, EditKnows, StatusKnows, PayKnows, BillKnows, Idle
<1>3. req[r].op \in {"create", "cycle"} /\ req[r].jobs \in SUBSET Jobs
  BY <1>1 DEF CreateDraft, Known, Shaped, Request
<1>4. QED
  BY <1>2, <1>3, CreatesKeep DEF CreateDraft

LEMMA CustomerInvoicesKeeps ==
  ASSUME IInv, NEW r \in Requests, NEW jobs \in SUBSET Jobs, CustomerInvoices(r, jobs)
  PROVE  IInv'
<1> DEFINE q == [Idle EXCEPT !.op = "customer", !.at = "tip", !.jobs = jobs]
<1>1. q \in Request
  BY IdleIsKnown DEF Request, AllOps
<1>2. q.op = "customer" /\ q.at = "tip"
  BY DEF Idle
<1>3. Known(q)'
  BY <1>2 DEF Known, Shaped, EditKnows, StatusKnows, PayKnows, BillKnows
<1>4. QED
  BY <1>1, <1>3, CreatesKeep DEF CustomerInvoices

LEMMA CreateTipInvoiceKeeps ==
  ASSUME IInv, NEW r \in Requests, CreateTipInvoice(r)
  PROVE  IInv'
<1>1. req[r] \in Request
  BY DEF IInv, TypeOK
<1>2. Idle \in Request /\ Known(Idle)'
  BY IdleIsKnown DEF Known, Shaped, EditKnows, StatusKnows, PayKnows, BillKnows, Idle
<1>3. req[r].jobs \in SUBSET Jobs
  BY <1>1 DEF Request
<1>4. QED
  BY <1>2, <1>3, CreatesKeep DEF CreateTipInvoice

\* The statement of an edit, a change of status or a payment writes the row the
\* request has named.
LEMMA UpdateKeeps ==
  ASSUME IInv, NEW r \in Requests, NEW i \in Invoices, NEW kind \in {"edit", "status", "pay"},
         NEW row \in InvoiceRow, invoice' = [invoice EXCEPT ![i] = row],
         row.by = invoice[i].by, row.status # "none",
         Wrote(r, i, kind, Idle), edits' = edits, Changes(i, kind), Good(i)',
         kind = "edit" => \E line \in row.lines : line \notin {0} \X Jobs
  PROVE  IInv'
<1>1. invoice'[i] = row /\ \A k \in Invoices \ {i} : invoice'[k] = invoice[k]
  BY DEF IInv, TypeOK
<1>2. invoice' \in [Invoices -> InvoiceRow]
  BY DEF IInv, TypeOK
<1>3. Idle \in Request /\ Known(Idle)'
  BY IdleIsKnown DEF Known, Shaped, EditKnows, StatusKnows, PayKnows, BillKnows, Idle
<1>4. stale \subseteq stale'
  BY <1>3, WroteEffect DEF Writes
<1>5. Alone(i)'
  <2>1. CASE kind = "edit"
    BY <1>1, <2>1 DEF Alone, Unedited
  <2>2. CASE kind # "edit"
    <3>1. invoice'[i].lines = invoice[i].lines /\ invoice'[i].by = invoice[i].by
      BY <2>2 DEF Changes
    <3>2. SUFFICES ASSUME invoice'[i].by = "cycle", Unedited(i)',
                          <<i, "bill", "bill">> \notin stale',
                          NEW k \in Invoices \ {i}, invoice'[k].by = "cycle", Unedited(k)',
                          <<k, "bill", "bill">> \notin stale'
                   PROVE  JobsOf(i)' \cap JobsOf(k)' = {}
      BY DEF Alone, Overtook
    <3>3. /\ invoice[i].by = "cycle" /\ Unedited(i) /\ ~Overtook(i, "bill", "bill")
          /\ JobsOf(i)' = JobsOf(i)
      BY <1>4, <3>1, <3>2 DEF Unedited, Overtook, JobsOf
    <3>4. /\ invoice[k].by = "cycle" /\ Unedited(k) /\ ~Overtook(k, "bill", "bill")
          /\ JobsOf(k)' = JobsOf(k)
      BY <1>1, <1>4, <3>2 DEF Unedited, Overtook, JobsOf
    <3>5. JobsOf(i) \cap JobsOf(k) = {}
      BY <3>3, <3>4 DEF IInv, CycleBillsOnce
    <3>6. QED
      BY <3>3, <3>4, <3>5
  <2>3. QED
    BY <2>1, <2>2
<1>6. QED
  BY <1>2, <1>3, <1>5, WriteKeeps DEF Writes

LEMMA WriteLinesKeeps ==
  ASSUME IInv, NEW r \in Requests, WriteLines(r)
  PROVE  IInv'
<1> DEFINE p == req[r]
<1>0. PICK i \in Invoices : i = p.inv
  BY DEF IInv, Known, Shaped, WriteLines
<1> DEFINE new == {p.edit} \X p.jobs
           row == [invoice[i] EXCEPT !.lines = (@ \ p.seen) \cup new,
                                     !.total = Cardinality(p.jobs)]
<1>1. p \in Request /\ Known(p) /\ p.op = "edit" /\ p.at = "write"
  BY DEF IInv, TypeOK, WriteLines
<1>2. /\ i = p.inv /\ invoice[i] \in InvoiceRow /\ invoice[i].status # "none"
      /\ p.edit \in 0..MaxEdits /\ p.edit > 0 /\ p.jobs \in SUBSET Jobs /\ p.jobs # {}
      /\ p.since \subseteq Writes
  BY <1>0, <1>1 DEF IInv, TypeOK, Known, Shaped, Request
<1>3. Cardinality(p.jobs) \in Nat /\ Cardinality(new) = Cardinality(p.jobs)
  BY <1>2, LinesCount
<1>4. /\ row.lines = (invoice[i].lines \ p.seen) \cup new
      /\ row.total = Cardinality(p.jobs)
      /\ row.status = invoice[i].status /\ row.paid = invoice[i].paid
      /\ row.by = invoice[i].by /\ row \in InvoiceRow
  <2>1. new \in SUBSET Lines
    BY <1>2 DEF Lines
  <2>2. QED
    BY <1>2, <1>3, <2>1 DEF InvoiceRow
<1>5. /\ invoice' = [invoice EXCEPT ![i] = row] /\ edits' = edits
      /\ Wrote(r, i, "edit", Idle)
  BY <1>2 DEF WriteLines
<1>6. invoice'[i] = row /\ \A k \in Invoices \ {i} : invoice'[k] = invoice[k]
  BY <1>2, <1>5 DEF IInv, TypeOK
<1>7. \A line \in new : line \notin {0} \X Jobs
  BY <1>2
<1>8. Changes(i, "edit")
  BY <1>2, <1>4, <1>6, <1>7 DEF Changes
<1>9. \A k \in p.since : <<i, "edit", k>> \in stale'
  BY <1>2, <1>5, WroteEffect, IdleIsKnown DEF Writes
<1>10. Good(i)'
  <2>1. "pay" \notin p.since => invoice[i].paid = 0 /\ invoice[i].status # "PAID"
    BY <1>0, <1>1 DEF Known, EditKnows
  <2>2. "edit" \notin p.since => row.lines = new
    BY <1>0, <1>1, <1>4 DEF Known, EditKnows
  <2>3. invoice[i].status = "DRAFT" => invoice[i].paid = 0
    BY <1>2 DEF IInv, Rows
  <2>4. /\ invoice'[i].status = invoice[i].status /\ invoice'[i].paid = invoice[i].paid
        /\ invoice'[i].total = Cardinality(p.jobs) /\ invoice'[i].lines = row.lines
    BY <1>4, <1>6
  <2>5. (\A k \in Writes : <<i, "pay", k>> \notin stale' /\ <<i, k, "pay">> \notin stale')
          => "pay" \notin p.since
    BY <1>9 DEF Writes
  <2>6. <<i, "edit", "pay">> \notin stale' => "pay" \notin p.since
    BY <1>9
  <2>7. <<i, "edit", "edit">> \notin stale' => "edit" \notin p.since
    BY <1>9
  <2> HIDE DEF p, new, row
  <2>8. invoice'[i].status = "DRAFT" => invoice'[i].paid = 0
    BY <2>3, <2>4
  <2>9. <<i, "edit", "pay">> \notin stale' => invoice'[i].status # "PAID"
    BY <2>1, <2>4, <2>6
  <2>10. (\A k \in Writes : <<i, "pay", k>> \notin stale' /\ <<i, k, "pay">> \notin stale')
          => /\ invoice'[i].paid <= invoice'[i].total
             /\ invoice'[i].paid > 0 /\ invoice'[i].paid = invoice'[i].total
                  => invoice'[i].status = "PAID"
    <3>1. "pay" \notin p.since =>
            invoice'[i].paid = 0 /\ invoice'[i].total \in Nat
      BY <1>3, <2>1, <2>4
    <3>2. QED
      BY <2>5, <3>1
  <2>11. <<i, "edit", "edit">> \notin stale' =>
           invoice'[i].total = Cardinality(invoice'[i].lines)
    BY <1>3, <2>2, <2>4, <2>7
  <2>12. QED
    BY <2>8, <2>9, <2>10, <2>11 DEF Good, Overtook
<1>11. \E line \in row.lines : line \notin {0} \X Jobs
  <2>1. PICK j \in p.jobs : TRUE
    BY <1>2
  <2>2. <<p.edit, j>> \in new
    BY <2>1
  <2>3. <<p.edit, j>> \in row.lines
    BY <1>4, <2>2
  <2>4. QED
    BY <1>7, <2>2, <2>3
<1> HIDE DEF p, new, row
<1>12. QED
  BY <1>2, <1>4, <1>5, <1>8, <1>10, <1>11, UpdateKeeps

LEMMA WriteStatusKeeps ==
  ASSUME IInv, NEW r \in Requests, WriteStatus(r)
  PROVE  IInv'
<1> DEFINE p == req[r]
<1>0. PICK i \in Invoices : i = p.inv
  BY DEF IInv, Known, Shaped, WriteStatus
<1> DEFINE row == [invoice[i] EXCEPT !.status = p.then]
<1>1. p \in Request /\ Known(p) /\ p.op \in {"post", "cancel"}
  BY DEF IInv, TypeOK, WriteStatus
<1>2. /\ i = p.inv /\ invoice[i] \in InvoiceRow /\ invoice[i].status # "none"
      /\ p.then \in {"POSTED", "CANCELLED"} /\ p.since \subseteq Writes
  BY <1>0, <1>1 DEF IInv, TypeOK, Known, Shaped, Request
<1>3. /\ row.lines = invoice[i].lines /\ row.total = invoice[i].total
      /\ row.status = p.then /\ row.paid = invoice[i].paid
      /\ row.by = invoice[i].by /\ row \in InvoiceRow
  BY <1>2 DEF InvoiceRow, InvoiceStatus
<1>4. /\ invoice' = [invoice EXCEPT ![i] = row] /\ edits' = edits
      /\ Wrote(r, i, "status", Idle)
  BY <1>2 DEF WriteStatus
<1>5. invoice'[i] = row /\ \A k \in Invoices \ {i} : invoice'[k] = invoice[k]
  BY <1>2, <1>4 DEF IInv, TypeOK
<1>6. Changes(i, "status")
  BY <1>2, <1>3, <1>5 DEF Changes
<1>7. stale \subseteq stale' /\ \A k \in p.since : <<i, "status", k>> \in stale'
  BY <1>2, <1>4, WroteEffect, IdleIsKnown DEF Writes
<1>8. Good(i)'
  <2>1. "pay" \notin p.since => invoice[i].paid = 0
    BY <1>0, <1>1 DEF Known, StatusKnows
  <2>2. <<i, "edit", "edit">> \notin stale =>
          invoice[i].total = Cardinality(invoice[i].lines)
    BY <1>2 DEF IInv, TotalIsLines, Overtook
  <2>3. invoice[i].total \in Nat
    BY <1>2 DEF InvoiceRow
  <2>4. /\ invoice'[i].status = p.then /\ invoice'[i].paid = invoice[i].paid
        /\ invoice'[i].total = invoice[i].total /\ invoice'[i].lines = invoice[i].lines
    BY <1>3, <1>5
  <2>5. (\A k \in Writes : <<i, "pay", k>> \notin stale' /\ <<i, k, "pay">> \notin stale')
          => "pay" \notin p.since
    BY <1>7 DEF Writes
  <2>6. <<i, "edit", "edit">> \notin stale' =>
          invoice'[i].total = Cardinality(invoice'[i].lines)
    BY <1>7, <2>2, <2>4
  <2> HIDE DEF p, row
  <2>7. (\A k \in Writes : <<i, "pay", k>> \notin stale' /\ <<i, k, "pay">> \notin stale')
          => /\ invoice'[i].paid <= invoice'[i].total
             /\ invoice'[i].paid > 0 /\ invoice'[i].paid = invoice'[i].total
                  => invoice'[i].status = "PAID"
    <3>1. "pay" \notin p.since =>
            invoice'[i].paid = 0 /\ invoice'[i].total \in Nat
      BY <2>1, <2>3, <2>4
    <3>2. QED
      BY <2>5, <3>1
  <2>8. invoice'[i].status \notin {"DRAFT", "PAID"}
    BY <1>2, <2>4
  <2>9. QED
    BY <2>6, <2>7, <2>8 DEF Good, Overtook
<1> HIDE DEF p, row
<1>9. QED
  BY <1>2, <1>3, <1>4, <1>6, <1>8, UpdateKeeps

LEMMA WritePaymentKeeps ==
  ASSUME IInv, NEW r \in Requests, WritePayment(r)
  PROVE  IInv'
<1> DEFINE p == req[r]
<1>0. PICK i \in Invoices : i = p.inv
  BY DEF IInv, Known, Shaped, WritePayment
<1> DEFINE row == [invoice[i] EXCEPT !.paid = @ + p.amount, !.status = p.then]
<1>1. p \in Request /\ Known(p) /\ p.op = "pay"
  BY DEF IInv, TypeOK, WritePayment
<1>2. /\ i = p.inv /\ invoice[i] \in InvoiceRow /\ invoice[i].status # "none"
      /\ p.then \in {"PAID", "POSTED"} /\ p.since \subseteq Writes
      /\ p.amount \in Nat /\ p.amount > 0
  BY <1>0, <1>1 DEF IInv, TypeOK, Known, Shaped, Request
<1>3. invoice[i].paid \in Nat /\ invoice[i].total \in Nat
  BY <1>2 DEF InvoiceRow
<1>4. /\ row.lines = invoice[i].lines /\ row.total = invoice[i].total
      /\ row.status = p.then /\ row.paid = invoice[i].paid + p.amount
      /\ row.by = invoice[i].by /\ row \in InvoiceRow
  <2>1. invoice[i].paid + p.amount \in Nat /\ p.then \in InvoiceStatus
    BY <1>2, <1>3 DEF InvoiceStatus
  <2>2. QED
    BY <1>2, <2>1 DEF InvoiceRow
<1>5. /\ invoice' = [invoice EXCEPT ![i] = row] /\ edits' = edits
      /\ Wrote(r, i, "pay", Idle)
  BY <1>2 DEF WritePayment
<1>6. invoice'[i] = row /\ \A k \in Invoices \ {i} : invoice'[k] = invoice[k]
  BY <1>2, <1>5 DEF IInv, TypeOK
<1>7. Changes(i, "pay")
  BY <1>2, <1>3, <1>4, <1>6 DEF Changes
<1>8. stale \subseteq stale' /\ \A k \in p.since : <<i, "pay", k>> \in stale'
  BY <1>2, <1>5, WroteEffect, IdleIsKnown DEF Writes
<1>9. Good(i)'
  <2>1. p.then = "PAID" /\ "edit" \notin p.since =>
          invoice[i].paid + p.amount >= invoice[i].total
    BY <1>0, <1>1 DEF Known, PayKnows
  <2>2. p.since = {} =>
          /\ invoice[i].paid + p.amount <= invoice[i].total
          /\ p.then = "PAID" <=> invoice[i].paid + p.amount = invoice[i].total
    BY <1>0, <1>1 DEF Known, PayKnows
  <2>3. <<i, "edit", "edit">> \notin stale =>
          invoice[i].total = Cardinality(invoice[i].lines)
    BY <1>2 DEF IInv, TotalIsLines, Overtook
  <2>4. (\A k \in Writes : <<i, "pay", k>> \notin stale') => p.since = {}
    BY <1>2, <1>8
  <2>5. /\ invoice'[i].status = p.then /\ invoice'[i].paid = invoice[i].paid + p.amount
        /\ invoice'[i].total = invoice[i].total /\ invoice'[i].lines = invoice[i].lines
    BY <1>4, <1>6
  <2>6. <<i, "edit", "edit">> \notin stale' =>
          invoice'[i].total = Cardinality(invoice'[i].lines)
    BY <1>8, <2>3, <2>5
  <2>7. <<i, "pay", "edit">> \notin stale' => "edit" \notin p.since
    BY <1>8
  <2> HIDE DEF p, row
  <2>8. invoice'[i].status = "PAID" /\ <<i, "pay", "edit">> \notin stale'
          => invoice'[i].paid >= invoice'[i].total
    BY <2>1, <2>5, <2>7
  <2>9. (\A k \in Writes : <<i, "pay", k>> \notin stale' /\ <<i, k, "pay">> \notin stale')
          => /\ invoice'[i].paid <= invoice'[i].total
             /\ invoice'[i].paid > 0 /\ invoice'[i].paid = invoice'[i].total
                  => invoice'[i].status = "PAID"
    <3>1. p.since = {} =>
            /\ invoice'[i].paid <= invoice'[i].total
            /\ invoice'[i].paid = invoice'[i].total => invoice'[i].status = "PAID"
      BY <2>2, <2>5
    <3>2. QED
      BY <2>4, <3>1
  <2>10. invoice'[i].status # "DRAFT"
    BY <1>2, <2>5
  <2>11. QED
    BY <2>6, <2>8, <2>9, <2>10 DEF Good, Overtook
<1> HIDE DEF p, row
<1>10. QED
  BY <1>2, <1>4, <1>5, <1>7, <1>9, UpdateKeeps

-----------------------------------------------------------------------------
(***************************************************************************)
(* Every step, and what follows.                                           *)
(***************************************************************************)
LEMMA NextKeeps ==
  ASSUME IInv, [Next]_vars
  PROVE  IInv'
<1>1. CASE UNCHANGED vars
  <2>1. /\ invoice' = invoice /\ req' = req /\ edits' = edits /\ stale' = stale
    BY <1>1 DEF vars
  <2>2. TypeOK' /\ Rows' /\ PaidIsCovered' /\ SettledExactly' /\ TotalIsLines'
    BY <2>1 DEF IInv, TypeOK, Rows, PaidIsCovered, SettledExactly, TotalIsLines, Overtook
  <2>3. CycleBillsOnce'
    BY <2>1 DEF IInv, CycleBillsOnce, Unedited, Overtook, JobsOf
  <2>4. ASSUME NEW r \in Requests PROVE Known(req[r])'
    BY <2>1, KnownStays DEF IInv
  <2>5. QED
    BY <2>2, <2>3, <2>4 DEF IInv
<1>2. ASSUME NEW r \in Requests, Admission(r) PROVE IInv'
  <2>1. ASSUME NEW jobs \in SUBSET Jobs, CreateInvoice(r, jobs) PROVE IInv'
    BY <2>1, BillsKeep DEF CreateInvoice
  <2>2. ASSUME NEW jobs \in SUBSET Jobs, CycleInvoice(r, jobs) PROVE IInv'
    BY <2>2, BillsKeep DEF CycleInvoice
  <2>3. ASSUME NEW jobs \in SUBSET Jobs, CustomerInvoices(r, jobs) PROVE IInv'
    BY <2>3, CustomerInvoicesKeeps
  <2>4. ASSUME NEW jobs \in SUBSET Jobs, NEW i \in Invoices, EditLines(r, i, jobs)
        PROVE  IInv'
    BY <2>4, EditLinesKeeps
  <2>5. ASSUME NEW i \in Invoices, ChangeStatus(r, i) PROVE IInv'
    BY <2>5, ChangeStatusKeeps
  <2>6. ASSUME NEW i \in Invoices, NEW amount \in 1..Cardinality(Jobs), Pay(r, i, amount)
        PROVE  IInv'
    <3>1. amount \in Nat \ {0}
      BY Constants, FS_CardinalityType
    <3>2. QED
      BY <2>6, <3>1, PayKeeps
  <2>7. QED
    BY <1>2, <2>1, <2>2, <2>3, <2>4, <2>5, <2>6 DEF Admission
<1>3. ASSUME NEW r \in Requests, Proceed(r) PROVE IInv'
  BY <1>3, CreateDraftKeeps, CreateTipInvoiceKeeps, DeleteLinesKeeps, WriteLinesKeeps,
     WriteStatusKeeps, WritePaymentKeeps DEF Proceed
<1>4. ASSUME NEW r \in Requests, Crash(r) PROVE IInv'
  BY <1>4, CrashKeeps
<1>5. QED
  BY <1>1, <1>2, <1>3, <1>4 DEF Next

\* The invariant holds whatever requests overlap.
THEOREM Inductive == Spec => []IInv
<1>1. Init => IInv
  BY InitEstablishes
<1>2. IInv /\ [Next]_vars => IInv'
  BY NextKeeps
<1>3. QED
  BY <1>1, <1>2, PTL DEF Spec

\* Rows, requests and marks keep their types.
THEOREM TypeCorrect == Spec => []TypeOK
<1>1. IInv => TypeOK
  BY DEF IInv
<1>2. QED
  BY <1>1, Inductive, PTL

\* A PAID invoice is covered by its payments, whichever payments, postings and
\* cancellations overlapped: createPayment only ever adds.
THEOREM PaidAreCovered == Spec => []PaidIsCovered
<1>1. IInv => PaidIsCovered
  BY DEF IInv
<1>2. QED
  BY <1>1, Inductive, PTL

\* Without overlapping payments an invoice is never overpaid and is PAID as soon
\* as it is settled, through any number of partial payments.
THEOREM SettledWhenPaid == Spec => []SettledExactly
<1>1. IInv => SettledExactly
  BY DEF IInv
<1>2. QED
  BY <1>1, Inductive, PTL

\* However often its lines are replaced, an invoice's total is theirs, unless two
\* edits overlapped.
THEOREM TotalsAgree == Spec => []TotalIsLines
<1>1. IInv => TotalIsLines
  BY DEF IInv
<1>2. QED
  BY <1>1, Inductive, PTL

\* The nightly cycles of all replicas bill a job once, unless two of them or one
\* and the office read before either wrote.
THEOREM NightsBillOnce == Spec => []CycleBillsOnce
<1>1. IInv => CycleBillsOnce
  BY DEF IInv
<1>2. QED
  BY <1>1, Inductive, PTL

\* A posted, paid or cancelled invoice keeps its lines and total; whoever edits it
\* nevertheless had begun while it was a draft.
THEOREM PostedIsImmutable == Spec => Immutable
<1> DEFINE Kept(i) ==
      invoice[i].status \in {"POSTED", "PAID", "CANCELLED"} =>
        \/ invoice'[i].lines = invoice[i].lines /\ invoice'[i].total = invoice[i].total
        \/ \E k \in {"status", "pay"} : <<i, "edit", k>> \in stale'
<1>1. ASSUME IInv, NEW i \in Invoices, [Next]_vars
      PROVE  Kept(i)
  <2>1. SUFFICES ASSUME invoice'[i] # invoice[i] PROVE Kept(i)
    OBVIOUS
  <2>2. PICK r \in Requests :
          \/ \E by, jobs, next : Creates(r, by, jobs, next)
          \/ WriteLines(r) \/ WriteStatus(r) \/ WritePayment(r)
    BY <1>1, <2>1 DEF Next, Admission, Proceed, vars, CreateInvoice, CycleInvoice, Reads,
       CustomerInvoices, EditLines, ChangeStatus, Pay, CreateDraft, CreateTipInvoice,
       DeleteLines, Crash
  <2>3. CASE \E by, jobs, next : Creates(r, by, jobs, next)
    BY <1>1, <2>1, <2>3 DEF Creates, IInv, TypeOK, Absent
  <2>4. CASE WriteLines(r)
    <3>1. /\ req[r].op = "edit" /\ Known(req[r]) /\ req[r].inv \in Invoices
          /\ Wrote(r, req[r].inv, "edit", Idle)
      BY <1>1, <2>4 DEF WriteLines, IInv, Known, Shaped
    <3>2. i = req[r].inv
      BY <1>1, <2>1, <2>4 DEF WriteLines, IInv, TypeOK
    <3>3. \A k \in req[r].since : <<i, "edit", k>> \in stale'
      BY <1>1, <3>1, <3>2, WroteEffect, IdleIsKnown DEF Writes
    <3>4. req[r].since \cap {"status", "pay"} = {} => invoice[i].status = "DRAFT"
      BY <3>1, <3>2 DEF Known, EditKnows
    <3>5. QED
      BY <3>3, <3>4
  <2>5. CASE WriteStatus(r) \/ WritePayment(r)
    <3>1. req[r].inv \in Invoices
      BY <1>1, <2>5 DEF WriteStatus, WritePayment, IInv, Known, Shaped
    <3>2. invoice[i] \in InvoiceRow
      BY <1>1 DEF IInv, TypeOK
    <3>3. QED
      BY <1>1, <2>5, <3>1, <3>2 DEF WriteStatus, WritePayment, IInv, TypeOK, InvoiceRow
  <2>6. QED
    BY <2>2, <2>3, <2>4, <2>5
<1>2. IInv /\ [Next]_vars => [\A i \in Invoices : Kept(i)]_vars
  BY <1>1
<1>3. QED
  BY <1>2, Inductive, PTL DEF Spec, Immutable

-----------------------------------------------------------------------------
(***************************************************************************)
(* Sums.  MapThenSumSet adds the totals up in an order nobody knows; the   *)
(* sum does not depend on it.  Each argument by induction takes a smallest *)
(* counterexample.                                                         *)
(***************************************************************************)
\* A set of numbers has a least one.
LEMMA LeastNumber ==
  ASSUME NEW T \in SUBSET Nat, T # {}
  PROVE  \E n \in T : \A m \in T : n <= m
<1> DEFINE R == {ss \in Nat \X Nat : ss[1] < ss[2]}
<1>1. IsWellFoundedOn(R, Nat)
  BY NatLessThanWellFounded DEF OpToRel
<1>2. PICK n \in T : \A m \in T : ~ (<<m, n>> \in R)
  BY <1>1, WFMin
<1>3. ASSUME NEW m \in T, m < n PROVE FALSE
  <2>1. <<m, n>> \in Nat \X Nat /\ <<m, n>>[1] = m /\ <<m, n>>[2] = n
    OBVIOUS
  <2>2. <<m, n>> \in R
    BY <1>3, <2>1
  <2>3. QED
    BY <1>2, <2>2
<1> HIDE DEF R
<1>4. \A m \in T : n <= m
  BY <1>3
<1>5. QED
  BY <1>4

\* The sum of the totals of S.
SumOf(rows, S) == MapThenSumSet(LAMBDA i : rows[i].total, S)

\* The element MapThenSumSet takes first.
First(s) == CHOOSE x \in s : TRUE

\* The sum of s, with a sum g of smaller sets.
SumStep(rows, g, s) == IF s = {} THEN 0 ELSE rows[First(s)].total + g[s \ {First(s)}]

\* g is the sum of every subset of D.
Sums(rows, D, g) == g = [s \in SUBSET D |-> SumStep(rows, g, s)]

\* What MapThenSumSet adds up by is chosen for the set summed.
LEMMA SumIsChosen ==
  ASSUME NEW rows, NEW S
  PROVE  SumOf(rows, S) = (CHOOSE g : Sums(rows, S, g))[S]
BY DEF SumOf, MapThenSumSet, MapThenFoldSet, Sums, SumStep, First

\* Without its first element a finite set has one element less.
LEMMA FirstShrinks ==
  ASSUME NEW s, IsFiniteSet(s), s # {}
  PROVE  /\ First(s) \in s /\ IsFiniteSet(s \ {First(s)})
         /\ Cardinality(s) \in Nat /\ Cardinality(s \ {First(s)}) = Cardinality(s) - 1
         /\ Cardinality(s) > 0
<1>1. First(s) \in s
  BY DEF First
<1>2. /\ IsFiniteSet(s \ {First(s)})
      /\ Cardinality(s \ {First(s)}) = Cardinality(s) - 1
      /\ Cardinality(s) \in Nat /\ Cardinality(s \ {First(s)}) \in Nat
  BY <1>1, FS_RemoveElement, FS_CardinalityType
<1>3. QED
  BY <1>1, <1>2

\* There is a function that adds up every subset.
LEMMA SumsExist ==
  ASSUME NEW D, IsFiniteSet(D), NEW rows, \A i \in D : rows[i].total \in Nat
  PROVE  \E g \in [SUBSET D -> Nat] : Sums(rows, D, g)
<1> DEFINE UpTo(g, n) ==
             \A s \in SUBSET D : Cardinality(s) <= n => g[s] = SumStep(rows, g, s)
           T == {n \in Nat : ~ \E g \in [SUBSET D -> Nat] : UpTo(g, n)}
<1>1. \A s \in SUBSET D : IsFiniteSet(s) /\ Cardinality(s) \in Nat
  BY FS_Subset, FS_CardinalityType
<1>2. T = {}
  <2>1. SUFFICES ASSUME T # {} PROVE FALSE
    OBVIOUS
  <2>2. PICK n \in T : \A m \in T : n <= m
    BY <2>1, LeastNumber
  <2>3. CASE n = 0
    <3>1. [s \in SUBSET D |-> 0] \in [SUBSET D -> Nat]
      OBVIOUS
    <3>2. ASSUME NEW s \in SUBSET D, Cardinality(s) <= 0 PROVE s = {}
      BY <1>1, <3>2, FS_EmptySet
    <3>3. UpTo([s \in SUBSET D |-> 0], 0)
      BY <3>2 DEF SumStep
    <3>4. QED
      BY <2>2, <2>3, <3>1, <3>3
  <2>4. CASE n # 0
    <3>1. n \in Nat /\ n - 1 \in Nat
      BY <2>2, <2>4
    <3> HIDE DEF T
    <3>2. n - 1 \notin T
      BY <2>2, <3>1
    <3> USE DEF T
    <3>3. PICK g \in [SUBSET D -> Nat] : UpTo(g, n - 1)
      BY <3>1, <3>2
    <3> DEFINE h == [s \in SUBSET D |-> SumStep(rows, g, s)]
    <3>4. ASSUME NEW s \in SUBSET D PROVE SumStep(rows, g, s) \in Nat
      <4>1. CASE s = {}
        BY <4>1 DEF SumStep
      <4>2. CASE s # {}
        <5>1. First(s) \in D /\ s \ {First(s)} \in SUBSET D
          BY <1>1, <4>2, FirstShrinks
        <5>2. g[s \ {First(s)}] \in Nat /\ rows[First(s)].total \in Nat
          BY <5>1
        <5>3. QED
          BY <4>2, <5>2 DEF SumStep
      <4>3. QED
        BY <4>1, <4>2
    <3>5. h \in [SUBSET D -> Nat]
      BY <3>4
    <3>6. ASSUME NEW s \in SUBSET D, Cardinality(s) <= n PROVE h[s] = SumStep(rows, h, s)
      <4>1. CASE s = {}
        BY <4>1 DEF SumStep
      <4>2. CASE s # {}
        <5>1. PICK u \in SUBSET D : u = s \ {First(s)}
          OBVIOUS
        <5>2. Cardinality(u) <= n - 1
          BY <1>1, <3>1, <3>6, <4>2, <5>1, FirstShrinks
        <5>3. g[u] = SumStep(rows, g, u)
          BY <3>3, <5>2
        <5>4. h[u] = g[u]
          BY <5>3
        <5>5. QED
          BY <4>2, <5>1, <5>4 DEF SumStep
      <4>3. QED
        BY <4>1, <4>2
    <3>7. UpTo(h, n)
      BY <3>6
    <3>8. QED
      BY <2>2, <3>5, <3>7
  <2>5. QED
    BY <2>3, <2>4
<1>3. Cardinality(D) \in Nat /\ \A s \in SUBSET D : Cardinality(s) <= Cardinality(D)
  BY FS_Subset, FS_CardinalityType
<1>4. PICK g \in [SUBSET D -> Nat] : UpTo(g, Cardinality(D))
  BY <1>2, <1>3
<1>5. \A s \in SUBSET D : g[s] = SumStep(rows, g, s)
  BY <1>3, <1>4
<1>6. g = [s \in SUBSET D |-> SumStep(rows, g, s)]
  BY <1>5
<1>7. QED
  BY <1>6 DEF Sums

\* Whatever is added up over a larger set agrees with it.
LEMMA SumsAgree ==
  ASSUME NEW D, IsFiniteSet(D), NEW S \in SUBSET D, NEW rows, NEW g, NEW h,
         Sums(rows, D, g), Sums(rows, S, h)
  PROVE  h[S] = g[S]
<1> DEFINE T == {n \in Nat : \E s \in SUBSET S : Cardinality(s) = n /\ h[s] # g[s]}
<1>1. \A s \in SUBSET S : IsFiniteSet(s) /\ Cardinality(s) \in Nat
  BY FS_Subset, FS_CardinalityType
<1>2. T = {}
  <2>1. SUFFICES ASSUME T # {} PROVE FALSE
    OBVIOUS
  <2>2. PICK n \in T : \A m \in T : n <= m
    BY <2>1, LeastNumber
  <2>3. PICK s \in SUBSET S : Cardinality(s) = n /\ h[s] # g[s]
    BY <2>2
  <2>4. h[s] = SumStep(rows, h, s) /\ g[s] = SumStep(rows, g, s)
    BY DEF Sums
  <2>5. s # {}
    BY <2>3, <2>4 DEF SumStep
  <2>6. PICK u \in SUBSET S : u = s \ {First(s)}
    OBVIOUS
  <2>7. Cardinality(u) \in Nat /\ Cardinality(u) < n
    BY <1>1, <2>3, <2>5, <2>6, FirstShrinks
  <2>8. h[u] = g[u]
    BY <2>2, <2>7
  <2>9. QED
    BY <2>3, <2>4, <2>5, <2>6, <2>8 DEF SumStep
<1>3. QED
  BY <1>1, <1>2

\* One element more adds its total.
AddsUp(rows, D, g) ==
  \A S \in SUBSET D : \A x \in D \ S : g[S \cup {x}] = rows[x].total + g[S]


\* Whichever element the sum takes first, a further one adds its total.
LEMMA SumsAdd ==
  ASSUME NEW D, IsFiniteSet(D), NEW rows, \A i \in D : rows[i].total \in Nat,
         NEW g \in [SUBSET D -> Nat], Sums(rows, D, g)
  PROVE  AddsUp(rows, D, g)
<1> DEFINE Adds(s, y) == g[s \cup {y}] = rows[y].total + g[s]
           T == {n \in Nat : \E s \in SUBSET D : \E y \in D \ s :
                   Cardinality(s) = n /\ ~Adds(s, y)}
<1>1. \A s \in SUBSET D : IsFiniteSet(s) /\ Cardinality(s) \in Nat
  BY FS_Subset, FS_CardinalityType
<1>2. T = {}
  <2>1. SUFFICES ASSUME T # {} PROVE FALSE
    OBVIOUS
  <2>2. PICK n \in T : \A m \in T : n <= m
    BY <2>1, LeastNumber
  <2>3. PICK s \in SUBSET D : \E y \in D \ s : Cardinality(s) = n /\ ~Adds(s, y)
    BY <2>2
  <2>4. PICK y \in D \ s : Cardinality(s) = n /\ ~Adds(s, y)
    BY <2>3
  <2>5. PICK t \in SUBSET D : t = s \cup {y}
    OBVIOUS
  <2>6. PICK c : c = First(t)
    OBVIOUS
  <2>7. /\ c \in t /\ g[t] = rows[c].total + g[t \ {c}]
    BY <1>1, <2>5, <2>6, FirstShrinks DEF Sums, SumStep
  <2>8. c # y
    <3>1. CASE c = y
      <4>1. t \ {c} = s
        BY <2>5, <3>1
      <4>2. QED
        BY <2>4, <2>5, <2>7, <3>1, <4>1
    <3>2. QED
      BY <3>1
  <2>9. PICK u \in SUBSET D : u = s \ {c}
    OBVIOUS
  <2>10. c \in s /\ c \in D \ u /\ y \in D \ u /\ t \ {c} = u \cup {y} /\ s = u \cup {c}
    BY <2>5, <2>7, <2>8, <2>9
  <2>11. Cardinality(u) = n - 1 /\ Cardinality(u) \in Nat /\ n \in Nat
    BY <1>1, <2>4, <2>9, <2>10, FS_RemoveElement
  <2>12. Cardinality(u) \notin T
    <3> HIDE DEF T
    <3>1. QED
      BY <2>2, <2>11
  <2>13. Adds(u, y) /\ Adds(u, c)
    BY <2>10, <2>11, <2>12
  <2>14. /\ rows[c].total \in Nat /\ rows[y].total \in Nat /\ g[u] \in Nat
    BY <2>10
  <2>15. g[t] = rows[y].total + g[s]
    <3>1. g[t] = rows[c].total + (rows[y].total + g[u])
      BY <2>7, <2>10, <2>13
    <3>2. g[s] = rows[c].total + g[u]
      BY <2>10, <2>13
    <3>3. QED
      BY <2>14, <3>1, <3>2
  <2>16. QED
    BY <2>4, <2>5, <2>15
<1>3. QED
  BY <1>1, <1>2 DEF AddsUp

\* The chosen sum is any sum of a larger set, at the set.
LEMMA SumIs ==
  ASSUME NEW D, IsFiniteSet(D), NEW rows, \A i \in D : rows[i].total \in Nat,
         NEW g \in [SUBSET D -> Nat], Sums(rows, D, g), NEW S \in SUBSET D
  PROVE  SumOf(rows, S) = g[S]
<1>1. IsFiniteSet(S)
  BY FS_Subset
<1>2. \E h : Sums(rows, S, h)
  BY <1>1, SumsExist
<1>3. PICK h : h = CHOOSE k : Sums(rows, S, k)
  OBVIOUS
<1>4. Sums(rows, S, h) /\ SumOf(rows, S) = h[S]
  BY <1>2, <1>3, SumIsChosen
<1>5. QED
  BY <1>4, SumsAgree

\* A sum with one element more is larger by its total.
LEMMA SumAdds ==
  ASSUME NEW S, IsFiniteSet(S), NEW x, x \notin S, NEW rows,
         \A i \in S \cup {x} : rows[i].total \in Nat
  PROVE  /\ SumOf(rows, S) \in Nat
         /\ SumOf(rows, S \cup {x}) = rows[x].total + SumOf(rows, S)
<1>1. PICK D : D = S \cup {x}
  OBVIOUS
<1>2. /\ IsFiniteSet(D) /\ S \in SUBSET D /\ x \in D \ S /\ D \in SUBSET D
      /\ \A i \in D : rows[i].total \in Nat
  BY <1>1, FS_AddElement
<1>3. PICK g \in [SUBSET D -> Nat] : Sums(rows, D, g)
  BY <1>2, SumsExist
<1>4. SumOf(rows, S) = g[S]
  BY <1>2, <1>3, SumIs
<1>5. SumOf(rows, D) = g[D]
  BY <1>2, <1>3, SumIs
<1>6. g[S \cup {x}] = rows[x].total + g[S]
  <2>1. AddsUp(rows, D, g)
    BY <1>2, <1>3, SumsAdd
  <2>2. QED
    BY <1>2, <2>1 DEF AddsUp
<1>7. QED
  BY <1>1, <1>2, <1>4, <1>5, <1>6

\* A sum of numbers is a number.
LEMMA SumIsNumber ==
  ASSUME NEW S, IsFiniteSet(S), NEW rows, \A i \in S : rows[i].total \in Nat
  PROVE  SumOf(rows, S) \in Nat /\ (S = {} => SumOf(rows, S) = 0)
<1>1. PICK g \in [SUBSET S -> Nat] : Sums(rows, S, g)
  BY SumsExist
<1>2. SumOf(rows, S) = g[S] /\ S \in SUBSET S
  BY <1>1, SumIs
<1>3. S = {} => g[S] = 0
  BY <1>1, <1>2 DEF Sums, SumStep
<1>4. QED
  BY <1>2, <1>3

\* Fewer and smaller totals add up to no more.
LEMMA SumIsMonotone ==
  ASSUME NEW D, IsFiniteSet(D), NEW S \in SUBSET D, NEW rows, NEW less,
         \A i \in D : rows[i].total \in Nat,
         \A i \in S : less[i].total \in Nat /\ less[i].total <= rows[i].total
  PROVE  SumOf(less, S) <= SumOf(rows, D)
<1> DEFINE Below(U) == SumOf(less, S \cap U) <= SumOf(rows, U)
           T == {n \in Nat : \E U \in SUBSET D : Cardinality(U) = n /\ ~Below(U)}
<1>1. \A U \in SUBSET D : IsFiniteSet(U) /\ Cardinality(U) \in Nat
  BY FS_Subset, FS_CardinalityType
<1>2. T = {}
  <2>1. SUFFICES ASSUME T # {} PROVE FALSE
    OBVIOUS
  <2>2. PICK n \in T : \A m \in T : n <= m
    BY <2>1, LeastNumber
  <2>3. PICK U \in SUBSET D : Cardinality(U) = n /\ ~Below(U)
    BY <2>2
  <2>4. CASE U = {}
    <3>1. SumOf(rows, {}) = 0 /\ SumOf(less, {}) = 0
      BY FS_EmptySet, SumIsNumber
    <3>2. S \cap U = {}
      BY <2>4
    <3>3. QED
      BY <2>3, <2>4, <3>1, <3>2
  <2>5. CASE U # {}
    <3>1. PICK c \in U : c = First(U)
      BY <1>1, <2>5, FirstShrinks
    <3>2. PICK V \in SUBSET D : V = U \ {c}
      OBVIOUS
    <3>3. /\ Cardinality(V) = n - 1 /\ Cardinality(V) \in Nat /\ n \in Nat
          /\ IsFiniteSet(V) /\ IsFiniteSet(S \cap V) /\ U = V \cup {c} /\ c \notin V
      <4>1. S \cap V \in SUBSET D
        OBVIOUS
      <4>2. QED
        BY <1>1, <2>3, <3>1, <3>2, <4>1, FS_RemoveElement
    <3>4. Cardinality(V) \notin T
      <4> HIDE DEF T
      <4>1. QED
        BY <2>2, <3>3
    <3>5. Below(V)
      BY <3>3, <3>4
    <3>6. /\ SumOf(rows, V) \in Nat /\ rows[c].total \in Nat
          /\ SumOf(rows, U) = rows[c].total + SumOf(rows, V)
      BY <3>3, SumAdds
    <3>7. SumOf(less, S \cap V) \in Nat
      BY <3>3, SumIsNumber
    <3>8. CASE c \in S
      <4>1. S \cap U = (S \cap V) \cup {c}
        BY <3>3, <3>8
      <4>2. SumOf(less, S \cap U) = less[c].total + SumOf(less, S \cap V)
        BY <3>3, <3>8, <4>1, SumAdds
      <4>3. QED
        BY <2>3, <3>5, <3>6, <3>7, <3>8, <4>2
    <3>9. CASE c \notin S
      <4>1. S \cap U = S \cap V
        BY <3>3, <3>9
      <4>2. SumOf(less, S \cap U) <= SumOf(rows, V)
        BY <3>5, <4>1
      <4>3. SumOf(less, S \cap U) \in Nat
        BY <3>7, <4>1
      <4> HIDE DEF T
      <4>4. SumOf(less, S \cap U) <= SumOf(rows, U)
        BY <3>6, <4>2, <4>3
      <4>5. QED
        BY <2>3, <4>4
    <3>10. QED
      BY <3>8, <3>9
  <2>6. QED
    BY <2>4, <2>5
<1>3. Below(D)
  BY <1>1, <1>2
<1>4. S \cap D = S
  OBVIOUS
<1>5. QED
  BY <1>3, <1>4
-----------------------------------------------------------------------------
(***************************************************************************)
(* Credit.                                                                 *)
(***************************************************************************)
\* What counts: the bills of the office nobody has edited, cancelled or settled.
Plain ==
  {i \in Invoices : /\ invoice[i].by = "office" /\ Unedited(i)
                    /\ invoice[i].status \in {"DRAFT", "POSTED"}}

\* A bill that no other came before still fits.
BillFits(q) ==
  q.op = "create" =>
    /\ q.at = "create"
    /\ Limit > 0 /\ stale = {} /\ q.since = {} =>
         Cardinality(q.jobs) + SumOf(invoice, Plain) <= Limit

\* What a request is about to post, cancel or pay is open, until it is told of
\* another write.
Open(q) ==
  q.op \in {"post", "cancel", "pay"} /\ q.since = {} =>
    invoice[q.inv].status \in {"DRAFT", "POSTED"}

\* The invariant of credit, beside IInv.
CreditInv ==
  /\ Limit > 0 /\ stale = {} => SumOf(invoice, Plain) <= Limit
  /\ \A r \in Requests : BillFits(req[r]) /\ Open(req[r])

\* The sums over bills are sums of finitely many numbers.
LEMMA PlainAddsUp ==
  ASSUME TypeOK
  PROVE  /\ IsFiniteSet(Invoices) /\ IsFiniteSet(Plain) /\ Plain \in SUBSET Invoices
         /\ \A i \in Invoices : invoice[i].total \in Nat
         /\ SumOf(invoice, Plain) \in Nat
<1>1. IsFiniteSet(Invoices)
  BY Constants, FS_Interval DEF Invoices
<1>2. IsFiniteSet(Plain) /\ Plain \in SUBSET Invoices
  BY <1>1, FS_Subset DEF Plain
<1>3. \A i \in Invoices : invoice[i].total \in Nat
  BY DEF TypeOK, InvoiceRow
<1>4. SumOf(invoice, Plain) \in Nat
  BY <1>2, <1>3, SumIsNumber
<1>5. QED
  BY <1>1, <1>2, <1>3, <1>4

\* A step that makes nothing plain adds nothing up.
LEMMA PlainShrinks ==
  ASSUME TypeOK, TypeOK', Plain' \subseteq Plain,
         \A i \in Plain' : invoice'[i].total = invoice[i].total
  PROVE  SumOf(invoice, Plain)' <= SumOf(invoice, Plain)
<1>1. /\ IsFiniteSet(Plain) /\ Plain' \in SUBSET Plain
      /\ \A i \in Plain : invoice[i].total \in Nat
  BY PlainAddsUp
<1>2. \A i \in Plain' : invoice'[i].total \in Nat /\ invoice'[i].total <= invoice[i].total
  BY <1>1
<1>3. SumOf(invoice', Plain') <= SumOf(invoice, Plain)
  BY <1>1, <1>2, SumIsMonotone
<1>4. QED
  BY <1>3

LEMMA CreditAdmitted ==
  ASSUME IInv, CreditInv, NEW r \in Requests, NEW q \in Request, Becomes(r, q),
         BillFits(q), Open(q), UNCHANGED <<invoice, stale>>
  PROVE  CreditInv'
<1>1. Plain' = Plain /\ SumOf(invoice, Plain)' = SumOf(invoice, Plain)
  BY DEF Plain, Unedited
<1>2. ASSUME NEW o \in Requests PROVE BillFits(req[o])' /\ Open(req[o])'
  <2>1. CASE o = r
    BY <1>1, <2>1 DEF Becomes, BillFits, Open
  <2>2. CASE o # r
    BY <1>1, <2>2 DEF Becomes, CreditInv, BillFits, Open
  <2>3. QED
    BY <2>1, <2>2
<1>3. QED
  BY <1>1, <1>2 DEF CreditInv

\* A write of request r to invoice i: the others hear of it, so those that still
\* think they were first have lost nothing.
LEMMA CreditWritten ==
  ASSUME IInv, CreditInv, NEW r \in Requests, NEW i \in Invoices, NEW kind \in Writes,
         NEW next \in Request, Wrote(r, i, kind, next), Changes(i, kind),
         TypeOK', next.op \in {"idle", "customer"},
         Limit > 0 /\ stale' = {} => SumOf(invoice, Plain)' <= Limit,
         kind # "bill" /\ stale' = {} => Plain' \subseteq Plain
                          /\ \A k \in Plain' : invoice'[k].total = invoice[k].total
  PROVE  CreditInv'
<1>1. /\ req'[r] = next /\ stale \subseteq stale'
      /\ \A o \in Requests \ {r} : Hears(req[o], req'[o], i, kind)
  BY WroteEffect
<1>2. TypeOK
  BY DEF IInv
<1>3. kind # "bill" /\ stale' = {} => SumOf(invoice, Plain)' <= SumOf(invoice, Plain)
  BY <1>2, PlainShrinks
<1>4. ASSUME NEW o \in Requests \ {r} PROVE BillFits(req[o])'
  <2>1. SUFFICES ASSUME req'[o].op = "create"
                 PROVE  /\ req'[o].at = "create"
                        /\ Limit > 0 /\ stale' = {} /\ req'[o].since = {} =>
                             Cardinality(req'[o].jobs) + SumOf(invoice, Plain)' <= Limit
    BY DEF BillFits
  <2>2. /\ Hears(req[o], req'[o], i, kind) /\ BillFits(req[o]) /\ req[o].jobs \in SUBSET Jobs
    BY <1>1, <1>2 DEF CreditInv, TypeOK, Request
  <2>3. req[o].op = "create" /\ req[o].at = "create" /\ req'[o].at = "create"
    BY <2>1, <2>2 DEF Hears, BillFits
  <2>4. ASSUME Limit > 0, stale' = {}, req'[o].since = {}
        PROVE  Cardinality(req'[o].jobs) + SumOf(invoice, Plain)' <= Limit
    <3>1. kind # "bill" /\ req[o].since = {} /\ stale = {} /\ req'[o].jobs = req[o].jobs
      BY <1>1, <2>2, <2>3, <2>4 DEF Hears
    <3>2. Cardinality(req[o].jobs) + SumOf(invoice, Plain) <= Limit
      BY <2>2, <2>3, <2>4, <3>1 DEF BillFits
    <3>3. SumOf(invoice, Plain)' <= SumOf(invoice, Plain)
      BY <1>3, <2>4, <3>1
    <3>4. /\ Cardinality(req[o].jobs) \in Nat /\ Limit \in Nat
          /\ SumOf(invoice, Plain) \in Nat /\ SumOf(invoice, Plain)' \in Nat
      <4>1. SumOf(invoice, Plain) \in Nat /\ (SumOf(invoice, Plain) \in Nat)'
        BY <1>2, PlainAddsUp, PTL
      <4>2. QED
        BY <2>2, <4>1, LinesCount, Constants
    <3>5. QED
      BY <3>1, <3>2, <3>3, <3>4
  <2>5. QED
    BY <2>3, <2>4
<1>5. ASSUME NEW o \in Requests \ {r} PROVE Open(req[o])'
  <2>1. SUFFICES ASSUME req'[o].op \in {"post", "cancel", "pay"}, req'[o].since = {}
                 PROVE  invoice'[req'[o].inv].status \in {"DRAFT", "POSTED"}
    BY DEF Open
  <2>2. Hears(req[o], req'[o], i, kind) /\ Open(req[o]) /\ Shaped(req[o])
    BY <1>1 DEF CreditInv, IInv, Known
  <2>3. /\ req[o].op \in {"post", "cancel", "pay"} /\ req[o].since = {}
        /\ req'[o].inv = req[o].inv /\ req[o].inv \in Invoices
        /\ invoice[req[o].inv].status \in {"DRAFT", "POSTED"}
    BY <2>1, <2>2 DEF Hears, Open, Shaped
  <2>4. req[o].inv # i
    BY <2>1, <2>2, <2>3 DEF Hears, Changes, Absent
  <2>5. QED
    BY <2>3, <2>4 DEF Changes
<1>6. BillFits(req[r])' /\ Open(req[r])'
  BY <1>1 DEF BillFits, Open
<1>7. QED
  BY <1>4, <1>5, <1>6 DEF CreditInv

\* A bill adds what it was admitted with.
LEMMA CreditBilled ==
  ASSUME IInv, CreditInv, TypeOK', NEW r \in Requests,
         NEW by \in {"office", "cycle", "customer"}, NEW jobs \in SUBSET Jobs,
         NEW next \in Request, next.op \in {"idle", "customer"},
         Creates(r, by, jobs, next),
         by = "office" => req[r].op = "create" /\ req[r].jobs = jobs
  PROVE  CreditInv'
<1> DEFINE row == [status |-> "DRAFT", by |-> by, lines |-> {0} \X jobs,
                   total |-> Cardinality(jobs), paid |-> 0]
<1>1. PICK i \in Invoices :
        /\ invoice[i] = Absent /\ invoice' = [invoice EXCEPT ![i] = row]
        /\ Wrote(r, i, "bill", next)
  BY DEF Creates
<1>2. TypeOK
  BY DEF IInv
<1>3. invoice'[i] = row /\ \A k \in Invoices \ {i} : invoice'[k] = invoice[k]
  BY <1>1, <1>2 DEF TypeOK
<1>4. Changes(i, "bill")
  BY <1>1, <1>3 DEF Changes
<1>5. /\ stale \subseteq stale' /\ \A k \in req[r].since : <<i, "bill", k>> \in stale'
  BY <1>1, WroteEffect DEF Writes
<1>6. i \notin Plain /\ \A k \in Plain : invoice'[k] = invoice[k]
  BY <1>1, <1>3 DEF Plain, Absent
<1>7. /\ IsFiniteSet(Plain) /\ \A k \in Plain : invoice[k].total \in Nat
      /\ SumOf(invoice, Plain) \in Nat
  BY <1>2, PlainAddsUp
<1>8. SumOf(invoice', Plain) <= SumOf(invoice, Plain) /\ SumOf(invoice', Plain) \in Nat
  <2>1. Plain \in SUBSET Plain
    OBVIOUS
  <2>2. \A k \in Plain : invoice'[k].total \in Nat /\ invoice'[k].total <= invoice[k].total
    BY <1>6, <1>7
  <2>3. QED
    BY <1>7, <2>1, <2>2, SumIsMonotone, SumIsNumber
<1>9. Limit > 0 /\ stale' = {} => SumOf(invoice, Plain)' <= Limit
  <2>1. SUFFICES ASSUME Limit > 0, stale' = {} PROVE SumOf(invoice', Plain') <= Limit
    OBVIOUS
  <2>2. stale = {} /\ req[r].since = {}
    BY <1>5, <2>1
  <2>3. CASE by = "office"
    <3>1. Plain' = Plain \cup {i}
      <4>1. \A k \in Invoices \ {i} : k \in Plain' <=> k \in Plain
        BY <1>3 DEF Plain, Unedited
      <4>2. i \in Plain'
        BY <1>3, <2>3 DEF Plain, Unedited
      <4>3. Plain' \subseteq Invoices /\ Plain \subseteq Invoices
        BY DEF Plain
      <4>4. QED
        BY <4>1, <4>2, <4>3
    <3>2. invoice'[i].total = Cardinality(jobs) /\ Cardinality(jobs) \in Nat
      <4>1. invoice'[i].total = Cardinality(jobs)
        BY <1>3
      <4>2. Cardinality(jobs) \in Nat
        BY LinesCount
      <4>3. QED
        BY <4>1, <4>2
    <3>3. \A k \in Plain \cup {i} : invoice'[k].total \in Nat
      BY <1>6, <1>7, <3>2
    <3>4. SumOf(invoice', Plain \cup {i}) = Cardinality(jobs) + SumOf(invoice', Plain)
      <4>1. SumOf(invoice', Plain \cup {i}) = invoice'[i].total + SumOf(invoice', Plain)
        BY <1>6, <1>7, <3>3, SumAdds
      <4>2. QED
        BY <3>2, <4>1
    <3>5. Cardinality(jobs) + SumOf(invoice, Plain) <= Limit
      BY <2>1, <2>2, <2>3 DEF CreditInv, BillFits
    <3>6. QED
      BY <1>7, <1>8, <3>1, <3>2, <3>4, <3>5, Constants
  <2>4. CASE by # "office"
    <3>1. Plain' = Plain
      BY <1>3, <1>6, <2>4 DEF Plain, Unedited
    <3>2. SumOf(invoice, Plain) <= Limit
      BY <2>1, <2>2 DEF CreditInv
    <3>3. QED
      BY <1>7, <1>8, <3>1, <3>2, Constants
  <2>5. QED
    BY <2>3, <2>4
<1>10. QED
  BY <1>1, <1>4, <1>9, CreditWritten DEF Writes

\* A write to an invoice there is adds nothing to what counts: an edit takes the
\* invoice out, and whoever posts or pays one that did not count overtook another.
LEMMA CreditUpdated ==
  ASSUME IInv, CreditInv, TypeOK', NEW r \in Requests, NEW i \in Invoices,
         NEW kind \in {"edit", "status", "pay"}, Wrote(r, i, kind, Idle),
         Changes(i, kind), req[r].inv = i,
         kind = "edit" => ~Unedited(i)',
         kind # "edit" => req[r].op \in {"post", "cancel", "pay"}
  PROVE  CreditInv'
<1>1. /\ stale \subseteq stale' /\ \A k \in req[r].since : <<i, kind, k>> \in stale'
  BY IdleIsKnown, WroteEffect DEF Writes
<1>2. ASSUME stale' = {}
      PROVE  /\ Plain' \subseteq Plain
             /\ \A k \in Plain' : invoice'[k].total = invoice[k].total
  <2>1. req[r].since = {}
    BY <1>1, <1>2
  <2>2. \A k \in Invoices \ {i} : invoice'[k] = invoice[k]
    BY DEF Changes
  <2>3. ASSUME i \in Plain' PROVE i \in Plain /\ invoice'[i].total = invoice[i].total
    <3>1. /\ kind \in {"status", "pay"} /\ invoice'[i].lines = invoice[i].lines
          /\ invoice'[i].by = invoice[i].by /\ invoice'[i].total = invoice[i].total
      BY <2>3 DEF Plain, Changes
    <3>2. invoice[i].status \in {"DRAFT", "POSTED"}
      BY <2>1, <3>1 DEF CreditInv, Open
    <3>3. QED
      BY <2>3, <3>1, <3>2 DEF Plain, Unedited
  <2>4. ASSUME NEW k \in Plain', k # i
        PROVE  k \in Plain /\ invoice'[k].total = invoice[k].total
    BY <2>2, <2>4 DEF Plain, Unedited
  <2>5. QED
    BY <2>3, <2>4
<1>3. Limit > 0 /\ stale' = {} => SumOf(invoice, Plain)' <= Limit
  <2>1. SUFFICES ASSUME Limit > 0, stale' = {} PROVE SumOf(invoice, Plain)' <= Limit
    OBVIOUS
  <2>2. TypeOK
    BY DEF IInv
  <2>3. SumOf(invoice, Plain)' <= SumOf(invoice, Plain)
    BY <1>2, <2>1, <2>2, PlainShrinks
  <2>4. SumOf(invoice, Plain) <= Limit
    BY <1>1, <2>1 DEF CreditInv
  <2>5. SumOf(invoice, Plain) \in Nat /\ (SumOf(invoice, Plain) \in Nat)'
    BY <2>2, PlainAddsUp, PTL
  <2>6. QED
    BY <2>3, <2>4, <2>5, Constants
<1>4. Idle.op = "idle" /\ Idle \in Request
  BY IdleIsKnown DEF Idle
<1>5. QED
  BY <1>2, <1>3, <1>4, CreditWritten DEF Writes

LEMMA CreditAdmission ==
  ASSUME IInv, CreditInv, NEW r \in Requests, Admission(r), IInv'
  PROVE  CreditInv'
<1>1. \A q \in Request :
        Admit(r, q) /\ UNCHANGED <<invoice, stale>> /\ BillFits(q) /\ Open(q) => CreditInv'
  <2>1. ASSUME NEW q \in Request, Admit(r, q) PROVE Becomes(r, q)
    BY <2>1 DEF IInv, TypeOK, Admit, Becomes
  <2>2. QED
    BY <2>1, CreditAdmitted
<1>2. ASSUME NEW jobs \in SUBSET Jobs, CreateInvoice(r, jobs) PROVE CreditInv'
  <2> DEFINE q == [Idle EXCEPT !.op = "create", !.at = "create", !.jobs = jobs]
  <2>1. q \in Request /\ q.op = "create" /\ q.at = "create" /\ q.jobs = jobs
    BY IdleIsKnown DEF Request, AllOps, Idle
  <2>2. Limit > 0 => Cardinality(jobs) + SumOf(invoice, Plain) <= Limit
    <3> DEFINE owed == {i \in Invoices : /\ invoice[i].by # "customer"
                                         /\ invoice[i].status \in {"DRAFT", "POSTED"}}
    <3>1. Outstanding = SumOf(invoice, owed)
      BY DEF Outstanding, SumOf
    <3>2. IsFiniteSet(owed) /\ \A i \in owed : invoice[i].total \in Nat
      <4>1. TypeOK
        BY DEF IInv
      <4>2. QED
        BY <4>1, PlainAddsUp, FS_Subset
    <3>3. Plain \in SUBSET owed
      BY DEF Plain
    <3>4. SumOf(invoice, Plain) <= SumOf(invoice, owed)
      <4>1. \A i \in Plain : invoice[i].total \in Nat /\ invoice[i].total <= invoice[i].total
        BY <3>2, <3>3
      <4>2. QED
        BY <3>2, <3>3, <4>1, SumIsMonotone
    <3>5. SumOf(invoice, Plain) \in Nat /\ SumOf(invoice, owed) \in Nat
      BY <3>2, SumIsNumber, PlainAddsUp DEF IInv
    <3>6. Limit > 0 => Cardinality(jobs) + SumOf(invoice, owed) <= Limit
      BY <1>2, <3>1, Constants DEF CreateInvoice
    <3>7. Cardinality(jobs) \in Nat /\ Limit \in Nat
      BY LinesCount, Constants
    <3> HIDE DEF owed
    <3>8. QED
      BY <3>4, <3>5, <3>6, <3>7
  <2>3. BillFits(q) /\ Open(q)
    BY <2>1, <2>2 DEF BillFits, Open
  <2>4. QED
    BY <1>1, <1>2, <2>1, <2>3 DEF CreateInvoice, Reads
<1>3. ASSUME NEW jobs \in SUBSET Jobs, CycleInvoice(r, jobs) PROVE CreditInv'
  <2> DEFINE q == [Idle EXCEPT !.op = "cycle", !.at = "create", !.jobs = jobs]
  <2>1. q \in Request /\ q.op = "cycle"
    BY IdleIsKnown DEF Request, AllOps, Idle
  <2>2. QED
    BY <1>1, <1>3, <2>1 DEF CycleInvoice, Reads, BillFits, Open
<1>4. ASSUME NEW jobs \in SUBSET Jobs, CustomerInvoices(r, jobs) PROVE CreditInv'
  <2> DEFINE q == [Idle EXCEPT !.op = "customer", !.at = "tip", !.jobs = jobs]
  <2>1. q \in Request /\ q.op = "customer"
    BY IdleIsKnown DEF Request, AllOps, Idle
  <2>2. QED
    BY <1>4, <2>1, CreditBilled DEF CustomerInvoices, IInv
<1>5. ASSUME NEW jobs \in SUBSET Jobs, NEW i \in Invoices, EditLines(r, i, jobs)
      PROVE  CreditInv'
  <2> DEFINE q == [Idle EXCEPT !.op = "edit", !.at = "delete", !.inv = i,
                               !.jobs = jobs, !.edit = edits + 1]
  <2>1. i \in 0..MaxInvoices /\ edits + 1 \in 0..MaxEdits
    BY <1>5, Constants DEF Invoices, EditLines, IInv, TypeOK
  <2>2. q \in Request /\ q.op = "edit"
    BY <2>1, IdleIsKnown DEF Request, AllOps, Idle
  <2>3. QED
    BY <1>1, <1>5, <2>2 DEF EditLines, BillFits, Open
<1>6. ASSUME NEW i \in Invoices, invoice[i].status \in {"DRAFT", "POSTED"},
             NEW q \in Request, q.op # "create", q.inv = i, Admit(r, q),
             UNCHANGED <<invoice, stale>>
      PROVE  CreditInv'
  BY <1>1, <1>6 DEF BillFits, Open
<1>7. ASSUME NEW i \in Invoices, ChangeStatus(r, i) PROVE CreditInv'
  <2>1. PICK op \in {"post", "cancel"}, then \in {"POSTED", "CANCELLED"} :
          Admit(r, [Idle EXCEPT !.op = op, !.at = "write", !.inv = i, !.then = then])
    BY <1>7 DEF ChangeStatus
  <2> DEFINE q == [Idle EXCEPT !.op = op, !.at = "write", !.inv = i, !.then = then]
  <2>2. i \in 0..MaxInvoices
    BY Constants DEF Invoices
  <2>3. q \in Request /\ q.op # "create" /\ q.inv = i
    BY <2>2, IdleIsKnown DEF Request, AllOps, InvoiceStatus, Idle
  <2>4. QED
    BY <1>6, <1>7, <2>1, <2>3 DEF ChangeStatus
<1>8. ASSUME NEW i \in Invoices, NEW amount \in 1..Cardinality(Jobs), Pay(r, i, amount)
      PROVE  CreditInv'
  <2> DEFINE then == IF invoice[i].paid + amount = invoice[i].total
                     THEN "PAID" ELSE "POSTED"
             q == [Idle EXCEPT !.op = "pay", !.at = "write", !.inv = i, !.amount = amount,
                               !.then = then]
  <2>1. amount \in Nat /\ i \in 0..MaxInvoices /\ then \in InvoiceStatus
    BY Constants, FS_CardinalityType DEF Invoices, InvoiceStatus
  <2>2. q \in Request /\ q.op # "create" /\ q.inv = i
    BY <2>1, IdleIsKnown DEF Request, AllOps, Idle
  <2>3. QED
    BY <1>6, <1>8, <2>2 DEF Pay
<1>9. QED
  BY <1>2, <1>3, <1>4, <1>5, <1>7, <1>8 DEF Admission

LEMMA CreditProceeds ==
  ASSUME IInv, CreditInv, NEW r \in Requests, Proceed(r), IInv'
  PROVE  CreditInv'
<1>1. req[r] \in Request /\ Known(req[r]) /\ TypeOK'
  BY DEF IInv, TypeOK
<1>2. Idle \in Request /\ Idle.op = "idle"
  BY IdleIsKnown DEF Idle
<1>3. CASE CreateDraft(r)
  BY <1>1, <1>2, <1>3, CreditBilled DEF CreateDraft, Known, Shaped, Request
<1>4. CASE CreateTipInvoice(r)
  BY <1>1, <1>2, <1>4, CreditBilled DEF CreateTipInvoice, Request
<1>5. CASE DeleteLines(r)
  <2> DEFINE q == [req[r] EXCEPT !.at = "write", !.seen = invoice[req[r].inv].lines]
  <2>1. req[r].op = "edit" /\ req[r].inv \in Invoices
    BY <1>1, <1>5 DEF DeleteLines, Known, Shaped
  <2>2. q \in Request /\ q.op = "edit"
    <3>1. invoice[req[r].inv].lines \in SUBSET Lines
      BY <2>1 DEF IInv, TypeOK, InvoiceRow
    <3>2. QED
      BY <1>1, <2>1, <3>1 DEF Request
  <2>3. Becomes(r, q)
    BY <1>5, <2>2 DEF DeleteLines, IInv, TypeOK, Becomes
  <2>4. QED
    BY <1>5, <2>2, <2>3, CreditAdmitted DEF DeleteLines, BillFits, Open
<1>6. ASSUME WriteLines(r) \/ WriteStatus(r) \/ WritePayment(r) PROVE CreditInv'
  <2>1. PICK i \in Invoices : i = req[r].inv
    BY <1>1, <1>6 DEF WriteLines, WriteStatus, WritePayment, Known, Shaped
  <2>2. /\ invoice[i] \in InvoiceRow /\ invoice[i].status # "none"
        /\ req[r].amount \in Nat /\ req[r].jobs \in SUBSET Jobs
    BY <1>1, <1>6, <2>1 DEF WriteLines, WriteStatus, WritePayment, Known, Shaped, IInv,
       TypeOK, Request
  <2>3. CASE WriteLines(r)
    <3>1. /\ req[r].op = "edit" /\ req[r].edit > 0 /\ req[r].edit \in Nat
          /\ req[r].jobs # {} /\ Wrote(r, i, "edit", Idle)
      BY <1>1, <2>1, <2>3, Constants DEF WriteLines, Known, Shaped, Request
    <3>2. /\ \A k \in Invoices \ {i} : invoice'[k] = invoice[k]
          /\ invoice'[i].status = invoice[i].status /\ invoice'[i].paid = invoice[i].paid
          /\ invoice'[i].by = invoice[i].by
          /\ invoice'[i].lines = (invoice[i].lines \ req[r].seen)
                                   \cup ({req[r].edit} \X req[r].jobs)
      BY <2>1, <2>2, <2>3 DEF WriteLines, IInv, TypeOK, InvoiceRow
    <3>3. Changes(i, "edit")
      BY <2>2, <3>1, <3>2 DEF Changes
    <3>4. ~Unedited(i)'
      <4>1. PICK j \in req[r].jobs : TRUE
        BY <3>1
      <4>2. <<req[r].edit, j>> \in invoice'[i].lines /\ <<req[r].edit, j>> \notin {0} \X Jobs
        BY <3>1, <3>2, <4>1
      <4>3. QED
        BY <4>2 DEF Unedited
    <3>5. QED
      BY <1>1, <2>1, <3>1, <3>3, <3>4, CreditUpdated
  <2>4. CASE WriteStatus(r)
    <3>1. /\ req[r].op \in {"post", "cancel"} /\ req[r].then \in {"POSTED", "CANCELLED"}
          /\ Wrote(r, i, "status", Idle)
      BY <1>1, <2>1, <2>4 DEF WriteStatus, Known, Shaped
    <3>2. /\ \A k \in Invoices \ {i} : invoice'[k] = invoice[k]
          /\ invoice'[i] = [invoice[i] EXCEPT !.status = req[r].then]
      BY <2>1, <2>2, <2>4 DEF WriteStatus, IInv, TypeOK
    <3>3. Changes(i, "status")
      BY <2>2, <3>1, <3>2 DEF Changes, InvoiceRow
    <3>4. QED
      BY <1>1, <2>1, <3>1, <3>3, CreditUpdated
  <2>5. CASE WritePayment(r)
    <3>1. /\ req[r].op = "pay" /\ req[r].then \in {"PAID", "POSTED"}
          /\ Wrote(r, i, "pay", Idle)
      BY <1>1, <2>1, <2>5 DEF WritePayment, Known, Shaped
    <3>2. /\ \A k \in Invoices \ {i} : invoice'[k] = invoice[k]
          /\ invoice'[i] = [invoice[i] EXCEPT !.paid = @ + req[r].amount,
                                              !.status = req[r].then]
      BY <2>1, <2>2, <2>5 DEF WritePayment, IInv, TypeOK
    <3>3. Changes(i, "pay")
      BY <2>2, <3>1, <3>2 DEF Changes, InvoiceRow
    <3>4. QED
      BY <1>1, <2>1, <3>1, <3>3, CreditUpdated
  <2>6. QED
    BY <1>6, <2>3, <2>4, <2>5
<1>7. QED
  BY <1>3, <1>4, <1>5, <1>6 DEF Proceed

\* The credit limit holds for what the office has billed, however many requests,
\* nights, postings and payments there are, as long as none overtook another:
\* checkAgentCreditLimit counts at least all of it.
THEOREM BilledWithinCredit == Spec => []WithinCredit
<1>1. Init => CreditInv
  <2> SUFFICES ASSUME Init PROVE CreditInv
    OBVIOUS
  <2>1. Plain = {}
    BY DEF Init, Plain, Absent
  <2>2. SumOf(invoice, Plain) = 0
    BY <2>1, FS_EmptySet, SumIsNumber
  <2>3. \A r \in Requests : req[r].op = "idle"
    BY DEF Init, Idle
  <2>4. QED
    BY <2>2, <2>3, Constants DEF CreditInv, BillFits, Open
<1>2. IInv /\ CreditInv /\ [Next]_vars => CreditInv'
  <2> SUFFICES ASSUME IInv, CreditInv, [Next]_vars PROVE CreditInv'
    OBVIOUS
  <2>1. IInv'
    BY NextKeeps
  <2>2. CASE UNCHANGED vars
    BY <2>2 DEF vars, CreditInv, BillFits, Open, Plain, Unedited
  <2>3. ASSUME NEW r \in Requests, Admission(r) PROVE CreditInv'
    BY <2>1, <2>3, CreditAdmission
  <2>4. ASSUME NEW r \in Requests, Proceed(r) PROVE CreditInv'
    BY <2>1, <2>4, CreditProceeds
  <2>5. ASSUME NEW r \in Requests, Crash(r) PROVE CreditInv'
    <3>1. Becomes(r, Idle) /\ Idle \in Request /\ Idle.op = "idle"
      BY <2>5, IdleIsKnown DEF Crash, IInv, TypeOK, Becomes, Idle
    <3>2. QED
      BY <2>5, <3>1, CreditAdmitted DEF Crash, BillFits, Open
  <2>6. QED
    BY <2>2, <2>3, <2>4, <2>5 DEF Next
<1>3. CreditInv => WithinCredit
  BY DEF CreditInv, WithinCredit, Plain, SumOf
<1>4. QED
  BY <1>1, <1>2, <1>3, Inductive, PTL DEF Spec
=============================================================================
