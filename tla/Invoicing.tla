----------------------------- MODULE Invoicing -----------------------------
(***************************************************************************)
(* The invoices of one agent and one customer: written by the office, by   *)
(* the nightly cycle of every replica, or generated for a customer; edited *)
(* and posted or cancelled while drafts; settled by payments.              *)
(*                                                                         *)
(* Every operation reads, decides, and writes in a transaction of its own. *)
(* A request is a slot of req that names its next statement in `at' and    *)
(* keeps what it read; `since' collects what others have written to the    *)
(* same invoice, or billed in the meantime for a request that bills, after *)
(* it read.  A write that others came before leaves its mark in `stale'.   *)
(*                                                                         *)
(* Every line costs one unit of money, so a total counts lines.            *)
(***************************************************************************)
EXTENDS Naturals, FiniteSets, FiniteSetsExt

CONSTANTS
  Jobs,
  Requests,       \* slots for requests and cron runs in flight
  Ops,            \* the operations called in this instance
  Limit,          \* the agent's creditLimit; 0: none
  MaxInvoices,    \* bound: invoices ever created
  MaxEdits,       \* bound: edits of lines ever asked for
  MaxStale        \* bound: once stale has as many marks, no more overtaken writes

AllOps == {"create", "cycle", "customer", "edit", "post", "cancel", "pay", "crash"}

ASSUME Constants ==
  /\ IsFiniteSet(Jobs) /\ Ops \subseteq AllOps
  /\ {Limit, MaxInvoices, MaxEdits, MaxStale} \subseteq Nat

VARIABLES
  invoice,   \* agent_invoices rows with their lines and the sum of their payments
  req,       \* the request in each slot
  edits,     \* edits asked for so far
  stale      \* history: <<invoice, kind of write, kind that came before>>

vars == <<invoice, req, edits, stale>>

Invoices == 1..MaxInvoices

InvoiceStatus == {"none", "DRAFT", "POSTED", "PAID", "CANCELLED"}

\* A line is its job and the edit that wrote it; 0 is the creation.
Lines == (0..MaxEdits) \X Jobs

Absent == [status |-> "none", by |-> "none", lines |-> {}, total |-> 0, paid |-> 0]

Writes == {"bill", "edit", "status", "pay"}

Idle == [op |-> "idle", at |-> "idle", inv |-> 0, jobs |-> {}, edit |-> 0,
         seen |-> {}, amount |-> 0, then |-> "none", since |-> {}]

InvoiceRow ==
  [status: InvoiceStatus, by: {"none", "office", "cycle", "customer"},
   lines: SUBSET Lines, total: Nat, paid: Nat]

Request ==
  [op: AllOps \cup {"idle"}, at: {"idle", "create", "tip", "delete", "write"},
   inv: 0..MaxInvoices, jobs: SUBSET Jobs, edit: 0..MaxEdits,
   seen: SUBSET Lines, amount: Nat, then: InvoiceStatus, since: SUBSET Writes]

TypeOK ==
  /\ invoice \in [Invoices -> InvoiceRow]
  /\ req \in [Requests -> Request]
  /\ edits \in 0..MaxEdits
  /\ stale \subseteq Invoices \X Writes \X Writes

Init ==
  /\ invoice = [i \in Invoices |-> Absent]
  /\ req = [r \in Requests |-> Idle]
  /\ edits = 0 /\ stale = {}

-----------------------------------------------------------------------------
JobsOf(i) == {line[2] : line \in invoice[i].lines}

Invoiced == UNION {JobsOf(i) : i \in Invoices}

\* A slip: only drafts count against the credit.
DraftsOutstanding ==
  MapThenSumSet(LAMBDA i : invoice[i].total,
                {i \in Invoices : invoice[i].by # "customer" /\ invoice[i].status = "DRAFT"})

\* checkAgentCreditLimit: the totals of drafts and posted invoices, whatever
\* has been paid of them.
Outstanding ==
  MapThenSumSet(LAMBDA i : invoice[i].total,
                {i \in Invoices : /\ invoice[i].by # "customer"
                                  /\ invoice[i].status \in {"DRAFT", "POSTED"}})

Admit(r, q) ==
  /\ q.op \in Ops /\ req[r] = Idle
  /\ req' = [req EXCEPT ![r] = q]

\* Request r has written to invoice i: others that read it before know less.
Wrote(r, i, kind, next) ==
  /\ req[r].since = {} \/ Cardinality(stale) < MaxStale
  /\ req' = [o \in Requests |->
       CASE o = r -> next
         [] o # r /\ (IF kind = "bill" THEN req[o].at = "create" ELSE req[o].inv = i) ->
              [req[o] EXCEPT !.since = @ \cup {kind}]
         [] OTHER -> req[o]]
  /\ stale' = stale \cup {<<i, kind, k>> : k \in req[r].since}

\* A new draft, under the next free number.
Creates(r, by, jobs, next) ==
  \E i \in Invoices :
    /\ invoice[i] = Absent /\ \A k \in 1..(i - 1) : invoice[k] # Absent
    /\ invoice' = [invoice EXCEPT ![i] =
         [status |-> "DRAFT", by |-> by, lines |-> {0} \X jobs,
          total |-> Cardinality(jobs), paid |-> 0]]
    /\ Wrote(r, i, "bill", next)
    /\ UNCHANGED edits

-----------------------------------------------------------------------------
(***************************************************************************)
(* Billing.                                                                *)
(***************************************************************************)
Reads(r, op, jobs) ==
  /\ Admit(r, [Idle EXCEPT !.op = op, !.at = "create", !.jobs = jobs])
  /\ UNCHANGED <<invoice, edits, stale>>

\* createInvoice takes any jobs, on other invoices or not, within the credit.
CreateInvoice(r, jobs) ==
  /\ jobs # {}
  /\ Limit = 0 \/ Cardinality(jobs) + Outstanding <= Limit
  /\ Reads(r, "create", jobs)

\* A slip: the night bills what is completed, invoiced or not.
CycleAgain(r, jobs) ==
  /\ jobs # {}
  /\ Reads(r, "cycle", jobs)

\* generateCycleInvoice, on every replica: the uninvoiced jobs that are completed,
\* of the period and priced, whichever they are.  It asks nobody about credit.
CycleInvoice(r, jobs) ==
  /\ jobs # {} /\ jobs \cap Invoiced = {}
  /\ Reads(r, "cycle", jobs)

CreateDraft(r) ==
  /\ req[r].at = "create"
  /\ Creates(r, IF req[r].op = "create" THEN "office" ELSE "cycle", req[r].jobs, Idle)

\* generateCustomerInvoices: a transfer invoice for jobs it does not look for on
\* other invoices, and then one for the drivers' tips.
CustomerInvoices(r, jobs) ==
  /\ "customer" \in Ops /\ jobs # {} /\ req[r] = Idle
  /\ Creates(r, "customer", jobs,
             [Idle EXCEPT !.op = "customer", !.at = "tip", !.jobs = jobs])

CreateTipInvoice(r) ==
  /\ req[r].at = "tip" /\ Creates(r, "customer", req[r].jobs, Idle)

-----------------------------------------------------------------------------
(***************************************************************************)
(* Edits, posting and cancelling.                                          *)
(***************************************************************************)
\* A slip: any invoice may be edited.
EditAny(r, i, jobs) ==
  /\ invoice[i].status # "none" /\ jobs # {}
  /\ edits < MaxEdits /\ edits' = edits + 1
  /\ Admit(r, [Idle EXCEPT !.op = "edit", !.at = "delete", !.inv = i,
                           !.jobs = jobs, !.edit = edits + 1])
  /\ UNCHANGED <<invoice, stale>>

\* updateInvoiceLines: drafts only.
EditLines(r, i, jobs) ==
  /\ invoice[i].status = "DRAFT" /\ jobs # {}
  /\ edits < MaxEdits /\ edits' = edits + 1
  /\ Admit(r, [Idle EXCEPT !.op = "edit", !.at = "delete", !.inv = i,
                           !.jobs = jobs, !.edit = edits + 1])
  /\ UNCHANGED <<invoice, stale>>

\* The transaction deletes the lines its first statement sees.  At READ
\* COMMITTED it waits for another edit that is deleting them, and finds them
\* gone; lines that edit has added it does not see.
DeleteLines(r) ==
  /\ req[r].at = "delete"
  /\ req' = [req EXCEPT ![r].at = "write", ![r].seen = invoice[req[r].inv].lines]
  /\ UNCHANGED <<invoice, edits, stale>>

\* A slip: the old lines stay.
AddLines(r) ==
  /\ req[r].at = "write" /\ req[r].op = "edit"
  /\ invoice' = [invoice EXCEPT
       ![req[r].inv].lines = @ \cup ({req[r].edit} \X req[r].jobs),
       ![req[r].inv].total = Cardinality(req[r].jobs)]
  /\ Wrote(r, req[r].inv, "edit", Idle)
  /\ UNCHANGED edits

\* It adds its own and commits with their total.
WriteLines(r) ==
  /\ req[r].at = "write" /\ req[r].op = "edit"
  /\ invoice' = [invoice EXCEPT
       ![req[r].inv].lines = (@ \ req[r].seen) \cup ({req[r].edit} \X req[r].jobs),
       ![req[r].inv].total = Cardinality(req[r].jobs)]
  /\ Wrote(r, req[r].inv, "edit", Idle)
  /\ UNCHANGED edits

\* updateInvoiceStatus: drafts only.
ChangeStatus(r, i) ==
  /\ invoice[i].status = "DRAFT"
  /\ \/ Admit(r, [Idle EXCEPT !.op = "post", !.at = "write", !.inv = i, !.then = "POSTED"])
     \/ Admit(r, [Idle EXCEPT !.op = "cancel", !.at = "write", !.inv = i, !.then = "CANCELLED"])
  /\ UNCHANGED <<invoice, edits, stale>>

WriteStatus(r) ==
  /\ req[r].at = "write" /\ req[r].op \in {"post", "cancel"}
  /\ invoice' = [invoice EXCEPT ![req[r].inv].status = req[r].then]
  /\ Wrote(r, req[r].inv, "status", Idle)
  /\ UNCHANGED edits

-----------------------------------------------------------------------------
(***************************************************************************)
(* Payments.                                                               *)
(***************************************************************************)
\* A slip: what was paid before is forgotten.
PayAlone(r, i, amount) ==
  /\ invoice[i].status \in {"DRAFT", "POSTED"} /\ amount <= invoice[i].total
  /\ Admit(r, [Idle EXCEPT !.op = "pay", !.at = "write", !.inv = i, !.amount = amount,
                 !.then = IF amount = invoice[i].total THEN "PAID" ELSE "POSTED"])
  /\ UNCHANGED <<invoice, edits, stale>>

\* A slip: a payment settles the invoice.
PaySettles(r, i, amount) ==
  /\ invoice[i].status \in {"DRAFT", "POSTED"}
  /\ invoice[i].paid + amount <= invoice[i].total
  /\ Admit(r, [Idle EXCEPT !.op = "pay", !.at = "write", !.inv = i, !.amount = amount,
                           !.then = "PAID"])
  /\ UNCHANGED <<invoice, edits, stale>>

\* createPayment, of a draft as well: no more than what is left, and POSTED
\* stands for partly paid.
Pay(r, i, amount) ==
  /\ invoice[i].status \in {"DRAFT", "POSTED"}
  /\ invoice[i].paid + amount <= invoice[i].total
  /\ Admit(r, [Idle EXCEPT !.op = "pay", !.at = "write", !.inv = i, !.amount = amount,
                 !.then = IF invoice[i].paid + amount = invoice[i].total
                          THEN "PAID" ELSE "POSTED"])
  /\ UNCHANGED <<invoice, edits, stale>>

WritePayment(r) ==
  /\ req[r].at = "write" /\ req[r].op = "pay"
  /\ invoice' = [invoice EXCEPT ![req[r].inv].paid = @ + req[r].amount,
                                ![req[r].inv].status = req[r].then]
  /\ Wrote(r, req[r].inv, "pay", Idle)
  /\ UNCHANGED edits

-----------------------------------------------------------------------------
\* A number that is taken five times, a lost connection, a process that dies:
\* a request ends without its transaction.
Crash(r) ==
  /\ "crash" \in Ops /\ req[r] # Idle
  /\ req' = [req EXCEPT ![r] = Idle]
  /\ UNCHANGED <<invoice, edits, stale>>

Admission(r) ==
  \/ \E jobs \in SUBSET Jobs :
       \/ CreateInvoice(r, jobs)
       \/ CycleInvoice(r, jobs)
       \/ CustomerInvoices(r, jobs)
       \/ \E i \in Invoices : EditLines(r, i, jobs)
  \/ \E i \in Invoices :
       \/ ChangeStatus(r, i)
       \/ \E amount \in 1..Cardinality(Jobs) : Pay(r, i, amount)

Proceed(r) ==
  \/ CreateDraft(r)
  \/ CreateTipInvoice(r)
  \/ DeleteLines(r)
  \/ WriteLines(r)
  \/ WriteStatus(r)
  \/ WritePayment(r)

Next == \E r \in Requests : Admission(r) \/ Proceed(r) \/ Crash(r)

Spec == Init /\ [][Next]_vars

-----------------------------------------------------------------------------
(***************************************************************************)
(* Properties.  Each names the overlaps that break it and no others.       *)
(***************************************************************************)
\* A write of kind `after' followed a `before' it did not know of.
Overtook(i, after, before) == <<i, after, before>> \in stale

\* A PAID invoice is covered by its payments, also when payments, posting and
\* cancelling overlapped: only an edit under way during a payment breaks it.
PaidIsCovered ==
  \A i \in Invoices :
    invoice[i].status = "PAID" /\ ~Overtook(i, "edit", "pay") /\ ~Overtook(i, "pay", "edit")
      => invoice[i].paid >= invoice[i].total

\* An invoice is never paid more than its total, and once it is paid in full it
\* says so, unless a payment overlapped another write to it.
SettledExactly ==
  \A i \in Invoices :
    (\A k \in Writes : ~Overtook(i, "pay", k) /\ ~Overtook(i, k, "pay"))
      => /\ invoice[i].paid <= invoice[i].total
         /\ invoice[i].paid > 0 /\ invoice[i].paid = invoice[i].total
              => invoice[i].status = "PAID"

\* The total is that of the lines, unless two edits overlapped.
TotalIsLines ==
  \A i \in Invoices :
    ~Overtook(i, "edit", "edit") => invoice[i].total = Cardinality(invoice[i].lines)

\* "Posted (immutable)": an invoice that is no draft keeps its lines and total,
\* unless it was posted, cancelled or paid while an edit was under way.
Immutable ==
  [][\A i \in Invoices :
       invoice[i].status \in {"POSTED", "PAID", "CANCELLED"} =>
         \/ invoice'[i].lines = invoice[i].lines /\ invoice'[i].total = invoice[i].total
         \/ \E k \in {"status", "pay"} : <<i, "edit", k>> \in stale']_vars

Unedited(i) == invoice[i].lines \subseteq {0} \X Jobs

\* The nights bill a job once, as long as the office has not edited what they
\* wrote and no two requests billed at the same time.
CycleBillsOnce ==
  LET nightly == {i \in Invoices : /\ invoice[i].by = "cycle" /\ Unedited(i)
                                   /\ ~Overtook(i, "bill", "bill")}
  IN  \A i, k \in nightly : i # k => JobsOf(i) \cap JobsOf(k) = {}

\* What the office has billed and nobody has edited stays within the credit,
\* unless writes overlapped.
WithinCredit ==
  LET plain == {i \in Invoices : /\ invoice[i].by = "office" /\ Unedited(i)
                                 /\ invoice[i].status \in {"DRAFT", "POSTED"}}
  IN  Limit > 0 /\ stale = {}
        => MapThenSumSet(LAMBDA i : invoice[i].total, plain) <= Limit
=============================================================================
