---------------------------- MODULE PaymentLedger ----------------------------
(***************************************************************************)
(* The dues-and-cash core of the backend (internal/finance): dues, the     *)
(* bills issued for them, the payments made against bills (one bill, or    *)
(* several periods at once) or as donations to a voluntary due, and the    *)
(* KAS, the append-only cash ledger of an RT.                              *)
(*                                                                         *)
(* One action is one committed database transaction: a handler takes the   *)
(* row of the bill (or payment, or due) FOR UPDATE before it reads what    *)
(* its guards use, so that on the rows of this module handlers behave as   *)
(* if they ran one at a time.  PaymentSessions breaks the handlers into    *)
(* their statements and checks that claim.                                 *)
(*                                                                         *)
(* Money is counted in small whole units.  SUM(amount) over payment rows   *)
(* is the number of (payment, unit) pairs, a cardinality, which both TLC   *)
(* and the proofs can work with.                                           *)
(***************************************************************************)
EXTENDS Integers, Sequences, FiniteSets

CONSTANTS
    Bills,       \* bill rows that can ever exist: UNIQUE (occupancy, due, period)
    Dues,        \* due definitions of the RT
    Occupancies, \* household occupancies
    Users,       \* accounts
    Warga,       \* the accounts acting with tenant role "warga"
    Staff,       \* the accounts acting with any other tenant role
    PaymentIds,  \* payment rows that can ever exist
    Locations,   \* fund locations (cash box, bank account)
    NoLocation, NoPayment, NoUser, NoDue, NoOccupancy,
    DueOf, OccOf, PeriodOf, Amount, \* the immutable columns of a bill
    DueType,     \* DueType[d]: "regular", "voluntary" or "multi_month"
    HomeOf,      \* HomeOf[u]: the current occupancy of account u
    DueSettings, \* the due settings UpdateDue may choose from
    TenureEdits, \* bound: the <<first, last, openEnded>> an occupancy's dates are set to
    ManualAmounts, \* bound: amounts of manual ledger entries
    MaxPay,      \* bound: largest amount paid to one bill
    MaxBillsPerPayment, \* 12 in the code
    MaxManual,   \* bound: manual entries in the ledger
    MaxLedger    \* bound: rows in the ledger

Periods == {PeriodOf[b] : b \in Bills}

BillStatuses == {"absent", "unpaid", "partial", "paid", "cancelled"}
PaymentStatuses == {"none", "PENDING", "APPROVED", "REJECTED", "REVERSED"}

DueRow == [active : BOOLEAN, voluntary : BOOLEAN, expired : BOOLEAN, rp0 : BOOLEAN,
           rule : {"full", "partial"}]
TenureRow == [span : SUBSET Periods, open : BOOLEAN]
BillRow == [status : BillStatuses, active : BOOLEAN, obligatory : BOOLEAN]
Allocation == [Bills -> 0 .. MaxPay]
PaymentRow == [status : PaymentStatuses, kind : {"single", "multi", "donation"},
               due : Dues \cup {NoDue}, alloc : Allocation, amount : Nat,
               submitted_by : Users \cup {NoUser}, verified_by : Users \cup {NoUser}]
LedgerRow == [type : {"income", "expense"}, amount : Nat,
              payment : PaymentIds \cup {NoPayment}, reverses : Nat,
              location : Locations \cup {NoLocation},
              note : {"manual", "payment", "payment_reversal", "hand_reversal"}]

ASSUME BillColumns ==
    /\ DueOf \in [Bills -> Dues]
    /\ OccOf \in [Bills -> Occupancies]
    /\ PeriodOf \in [Bills -> Nat]
    /\ Amount \in [Bills -> Nat]
    /\ \A b, c \in Bills :
          DueOf[b] = DueOf[c] /\ OccOf[b] = OccOf[c] /\ PeriodOf[b] = PeriodOf[c] => b = c
ASSUME FiniteRows == IsFiniteSet(PaymentIds) /\ IsFiniteSet(Bills)
ASSUME Actors == /\ Warga \subseteq Users /\ Staff \subseteq Users
                 /\ HomeOf \in [Users -> Occupancies \cup {NoOccupancy}]
                 /\ DueSettings \subseteq DueRow
                 /\ DueType \in [Dues -> {"regular", "voluntary", "multi_month"}]
ASSUME Bounds == /\ MaxPay \in Nat /\ MaxLedger \in Nat /\ MaxBillsPerPayment \in Nat
                 /\ MaxManual \in Nat
                 /\ TenureEdits \subseteq Nat \X Nat \X BOOLEAN
                 /\ ManualAmounts \subseteq Nat
ASSUME NullRows == /\ NoLocation \notin Locations /\ NoPayment \notin PaymentIds
                   /\ NoUser \notin Users /\ NoDue \notin Dues
                   /\ NoOccupancy \notin Occupancies

VARIABLES
    dues,      \* dues[d]: the row of a due; expired = today (WIB) is past valid_until,
               \* rp0 = its configured amount is Rp0
    bills,     \* bills[b]: the row of a bill; "absent" before it is issued
    tenure,    \* tenure[o]: the periods between the occupancy's start and end
               \* dates, and whether it is open (has no end date)
    payments,  \* payments[p] with its allocation rows; "none" before it is inserted
    ledger,    \* table transactions, in insertion order; all rows are posted
    balance,   \* balance[l] = SUM(amount_delta) of location_balance_changes
    wasVoluntary \* history, not in the code: dues that were ever voluntary

vars == <<dues, bills, tenure, payments, ledger, balance, wasVoluntary>>
-----------------------------------------------------------------------------
(* Aggregates over the payment rows ps (the tables before or after a step). *)

Units(ps, b, status) ==
    {u \in PaymentIds \X (1 .. MaxPay) :
        ps[u[1]].status = status /\ u[2] <= ps[u[1]].alloc[b]}

ApprovedIn(ps, b) == Cardinality(Units(ps, b, "APPROVED"))

\* Faulty: sums payments.amount by bill_id and misses the allocation rows.
BillIdPaymentTotal(b) ==
    Cardinality({u \in Units(payments, b, "APPROVED") : payments[u[1]].kind = "single"})

GetApprovedPaymentTotal(b) == ApprovedIn(payments, b)

\* Faulty: a submission reserves nothing until it is approved.
NothingReserved(b) == 0

GetPendingPaymentTotal(b) == Cardinality(Units(payments, b, "PENDING"))

GetApprovedPaymentCount(b) ==
    Cardinality({p \in PaymentIds : payments[p].status = "APPROVED"
                                    /\ payments[p].alloc[b] > 0})

AllocTotal(alloc) ==
    Cardinality({x \in Bills \X (1 .. MaxPay) : x[2] <= alloc[x[1]]})

Covers(alloc) == {b \in Bills : alloc[b] > 0}

Voluntary(b) == dues[DueOf[b]].voluntary

\* The bills in the FIFO queue of an occupancy and a due.
Unsettled(o, d) ==
    {b \in Bills : /\ OccOf[b] = o /\ DueOf[b] = d
                   /\ bills[b].status \notin {"absent", "cancelled"}
                   /\ bills[b].active /\ bills[b].obligatory
                   /\ GetApprovedPaymentTotal(b) < Amount[b]}

\* S is the set of the oldest |S| bills of the queue.
OldestOf(S, o, d) ==
    /\ S \subseteq Unsettled(o, d)
    /\ \A b \in S, c \in Unsettled(o, d) \ S : PeriodOf[b] < PeriodOf[c]

\* Faulty: the label shown to users instead of the stored status.
SettledStatusLabel(b, total) == IF total >= Amount[b] THEN "lunas" ELSE "partial"

\* Bill status once approved payments reach total, on approval ...
SettledStatus(b, total) == IF total >= Amount[b] THEN "paid" ELSE "partial"

\* ... and when a rejection or a reversal has it recomputed.
Reconciled(row, b, total) ==
    [row EXCEPT !.status =
        IF row.status = "cancelled" THEN "cancelled"
        ELSE IF total >= Amount[b] /\ Amount[b] > 0 THEN "paid"
        ELSE IF total > 0 THEN "partial" ELSE "unpaid"]

\* Faulty: recomputes before the payment's new status is stored.
ReconcileTooEarly(ps, touched) ==
    [b \in Bills |-> IF b \in touched THEN Reconciled(bills[b], b, ApprovedIn(payments, b))
                                      ELSE bills[b]]

ReconcileBills(ps, touched) ==
    [b \in Bills |-> IF b \in touched THEN Reconciled(bills[b], b, ApprovedIn(ps, b))
                                      ELSE bills[b]]
-----------------------------------------------------------------------------
(* Posting to the ledger. *)

Delta(type, amt) == IF type = "income" THEN amt ELSE -amt

\* TransactionCreate: append a posted row; a row with a location also records
\* the change of that location's balance.
TransactionCreate(type, amt, p, reversed, loc, note) ==
    /\ Len(ledger) < MaxLedger
    /\ ledger' = Append(ledger, [type |-> type, amount |-> amt, payment |-> p,
                                 reverses |-> reversed, location |-> loc, note |-> note])
    /\ balance' = IF loc = NoLocation THEN balance
                  ELSE [balance EXCEPT ![loc] = @ + Delta(type, amt)]

PostPaymentIncome(p, amt, loc) == TransactionCreate("income", amt, p, 0, loc, "payment")

\* Faulty: money leaves a location without a look at its balance.
SpendsFreely(loc, amt) == TRUE

CanSpend(loc, amt) == loc # NoLocation => balance[loc] >= amt
-----------------------------------------------------------------------------
NoAllocation == [b \in Bills |-> 0]

NewPayment(kind, d, alloc, amt, u, status) ==
    [status |-> status, kind |-> kind, due |-> d, alloc |-> alloc, amount |-> amt,
     submitted_by |-> u, verified_by |-> IF status = "APPROVED" THEN u ELSE NoUser]

Init ==
    /\ dues \in [Dues -> DueSettings]
    /\ bills = [b \in Bills |-> [status |-> "absent", active |-> TRUE, obligatory |-> TRUE]]
    /\ tenure = [o \in Occupancies |-> [span |-> Periods, open |-> TRUE]]
    /\ payments = [p \in PaymentIds |->
                      NewPayment("single", NoDue, NoAllocation, 0, NoUser, "none")]
    /\ ledger = <<>>
    /\ balance = [l \in Locations |-> 0]
    /\ wasVoluntary = {d \in Dues : dues[d].voluntary}
-----------------------------------------------------------------------------
(* Dues. *)

MayIssue(d) == dues[d].active /\ ~(dues[d].voluntary /\ dues[d].expired)

\* Any settings may be saved, but a voluntary due whose deadline has passed
\* is not activated again; a due that is not voluntary carries no deadline.
UpdateDue(d, row) ==
    /\ row.expired => row.voluntary
    /\ row.active /\ row.expired => dues[d].active
    /\ dues' = [dues EXCEPT ![d] = row]
    /\ wasVoluntary' = IF row.voluntary THEN wasVoluntary \cup {d} ELSE wasVoluntary
    /\ UNCHANGED <<bills, tenure, payments, ledger, balance>>

DeactivateDue(d) ==
    /\ dues[d].active
    /\ dues' = [dues EXCEPT ![d].active = FALSE]
    /\ UNCHANGED <<bills, tenure, payments, ledger, balance, wasVoluntary>>

\* Midnight in Jakarta after valid_until.
DeadlinePasses(d) ==
    /\ dues[d].voluntary /\ ~dues[d].expired
    /\ dues' = [dues EXCEPT ![d].expired = TRUE]
    /\ UNCHANGED <<bills, tenure, payments, ledger, balance, wasVoluntary>>

\* The scheduled job: deactivate every active voluntary due past its deadline.
ExpireVoluntaryDues ==
    /\ dues' = [d \in Dues |-> IF dues[d].voluntary /\ dues[d].expired
                               THEN [dues[d] EXCEPT !.active = FALSE] ELSE dues[d]]
    /\ UNCHANGED <<bills, tenure, payments, ledger, balance, wasVoluntary>>
-----------------------------------------------------------------------------
(* Bills. *)

Issued(b) == bills[b].status # "absent"

\* INSERT INTO bills ... ON CONFLICT DO NOTHING for each bill of the set S.
BillCreate(S) ==
    [b \in Bills |-> IF b \in S /\ ~Issued(b)
                     THEN [status |-> "unpaid", active |-> TRUE,
                           obligatory |-> PeriodOf[b] \in tenure[OccOf[b]].span]
                     ELSE bills[b]]

\* Generated bills take the amount the due has at that moment.
HasDueAmount(b) == (Amount[b] = 0) = dues[DueOf[b]].rp0

\* occs: the occupancies the bills are generated for, those that are current
\* (and, for the twelve bills of a multi-month due, overlap its year).
GenerateBills(d, period, occs) ==
    /\ MayIssue(d)
    /\ UNCHANGED <<dues, tenure, payments, ledger, balance, wasVoluntary>>
    /\ bills' = BillCreate({b \in Bills :
                    /\ DueOf[b] = d /\ OccOf[b] \in occs /\ HasDueAmount(b)
                    /\ PeriodOf[b] = period \/ DueType[d] = "multi_month"})

\* A conflicting insert returns no row, which the service dereferences: the
\* handler panics and its transaction rolls back.
CreateBill(b) ==
    /\ MayIssue(DueOf[b]) /\ Amount[b] > 0
    /\ ~Issued(b)
    /\ UNCHANGED <<dues, tenure, payments, ledger, balance, wasVoluntary>>
    /\ bills' = BillCreate({b})

\* Bill rows bs after SyncHouseholdOccupancyBills has run for the occupancies
\* occs, whose tenures are ten.  An open occupancy gets the bills it lacks for
\* active dues that are not voluntary: all periods of a multi-month due, the
\* periods issued to anyone of a regular one.  The obligation of the unpaid
\* ones among them is recomputed.
Synced(bs, occs, ten) ==
    LET issuedInRT(b) == \E c \in Bills : /\ DueOf[c] = DueOf[b] /\ PeriodOf[c] = PeriodOf[b]
                                          /\ bs[c].status # "absent"
        expected(b) == /\ OccOf[b] \in occs /\ ten[OccOf[b]].open
                       /\ dues[DueOf[b]].active /\ ~Voluntary(b)
                       /\ \/ DueType[DueOf[b]] = "multi_month"
                          \/ DueType[DueOf[b]] = "regular" /\ issuedInRT(b)
    IN [b \in Bills |->
          IF /\ expected(b)
             /\ bs[b].status = "unpaid" \/ (bs[b].status = "absent" /\ HasDueAmount(b))
          THEN [bs[b] EXCEPT !.status = "unpaid",
                             !.obligatory = PeriodOf[b] \in ten[OccOf[b]].span]
          ELSE bs[b]]

\* Faulty: recomputes the obligation of every bill, paid ones too.
RecomputedForAll(o, span) ==
    [b \in Bills |-> IF OccOf[b] = o THEN [bills[b] EXCEPT !.obligatory = PeriodOf[b] \in span]
                                     ELSE bills[b]]

\* Faulty: leaves the bills that exist as they are.
RecomputedForNone(o, span) == bills

RecomputedForUnpaid(o, span) ==
    [b \in Bills |-> IF OccOf[b] = o /\ bills[b].status = "unpaid"
                     THEN [bills[b] EXCEPT !.obligatory = PeriodOf[b] \in span] ELSE bills[b]]

\* A correction of a household's dates, with all it sets off.
UpdateOccupancyDates(o, first, last, open) ==
    LET span == {t \in Periods : first <= t /\ (open \/ t <= last)}
    IN /\ tenure' = [tenure EXCEPT ![o] = [span |-> span, open |-> open]]
       /\ bills' = Synced(RecomputedForUnpaid(o, span), {o}, tenure')
       /\ UNCHANGED <<dues, payments, ledger, balance, wasVoluntary>>

\* Reading the bill list synchronises the bills of the occupancies listed.
ListBills(occs) ==
    /\ bills' = Synced(bills, occs, tenure)
    /\ UNCHANGED <<dues, tenure, payments, ledger, balance, wasVoluntary>>

UpdateBillStatus(b, isActive) ==
    /\ Issued(b)
    /\ ~isActive => /\ bills[b].status # "paid"
                    /\ ~(GetApprovedPaymentTotal(b) >= Amount[b] /\ Amount[b] > 0)
    /\ bills' = [bills EXCEPT ![b].active = isActive]
    /\ UNCHANGED <<dues, tenure, payments, ledger, balance, wasVoluntary>>

InPeriod(d, period) == {b \in Bills : DueOf[b] = d /\ PeriodOf[b] = period /\ Issued(b)}

NotPaidInPeriod(d, period) == {b \in InPeriod(d, period) : bills[b].status # "paid"}

UpdateDuePeriodStatus(d, period, isActive) ==
    /\ ~isActive => InPeriod(d, period) = {} \/ NotPaidInPeriod(d, period) # {}
    /\ bills' = [b \in Bills |-> IF b \in NotPaidInPeriod(d, period)
                                THEN [bills[b] EXCEPT !.active = isActive] ELSE bills[b]]
    /\ UNCHANGED <<dues, tenure, payments, ledger, balance, wasVoluntary>>

CancelBill(b) ==
    /\ bills[b].status = "unpaid"
    /\ GetApprovedPaymentCount(b) = 0
    /\ bills' = [bills EXCEPT ![b].status = "cancelled"]
    /\ UNCHANGED <<dues, tenure, payments, ledger, balance, wasVoluntary>>
-----------------------------------------------------------------------------
(* Recording payments.  Staff record money already received: the payment   *)
(* is approved and posted at once.  A warga's payment waits for an officer. *)

Collectable(b) == /\ bills[b].status \notin {"absent", "cancelled"} /\ bills[b].active
                  /\ ~Voluntary(b) => /\ bills[b].obligatory
                                      /\ bills[b].status # "paid"

PayableBill(b) ==
    /\ Collectable(b)
    /\ ~Voluntary(b) => /\ dues[DueOf[b]].active
                        /\ OldestOf({b}, OccOf[b], DueOf[b])

\* The amount an obligatory bill accepts when avail units are still open.
AcceptsAmount(b, amt, avail) ==
    /\ amt <= avail
    /\ dues[DueOf[b]].rule = "full" => amt = avail

One(b, amt) == [c \in Bills |-> IF c = b THEN amt ELSE 0]

StaffPayBill(p, u, b, amt) ==
    /\ payments[p].status = "none" /\ u \in Staff
    /\ PayableBill(b)
    /\ Voluntary(b) \/ AcceptsAmount(b, amt, Amount[b] - GetApprovedPaymentTotal(b))
    /\ payments' = [payments EXCEPT ![p] = NewPayment("single", NoDue, One(b, amt), amt, u,
                                                      "APPROVED")]
    /\ bills' = [bills EXCEPT ![b].status =
                    IF Voluntary(b) THEN "paid"
                    ELSE SettledStatus(b, GetApprovedPaymentTotal(b) + amt)]
    /\ PostPaymentIncome(p, amt, NoLocation)
    /\ UNCHANGED <<dues, tenure, wasVoluntary>>

WargaPayBill(p, u, b, amt) ==
    /\ payments[p].status = "none" /\ u \in Warga
    /\ PayableBill(b)
    /\ HomeOf[u] = OccOf[b]
    /\ Voluntary(b) \/ AcceptsAmount(b, amt, Amount[b] - GetApprovedPaymentTotal(b)
                                                       - GetPendingPaymentTotal(b))
    /\ payments' = [payments EXCEPT ![p] = NewPayment("single", NoDue, One(b, amt), amt, u,
                                                      "PENDING")]
    /\ UNCHANGED <<dues, bills, tenure, ledger, balance, wasVoluntary>>

\* A donation to an active voluntary due with configured amount Rp0.
Donate(p, u, d, amt) ==
    /\ payments[p].status = "none"
    /\ MayIssue(d) /\ dues[d].voluntary /\ dues[d].rp0
    /\ \/ /\ u \in Staff
          /\ payments' = [payments EXCEPT ![p] =
                             NewPayment("donation", d, NoAllocation, amt, u, "APPROVED")]
          /\ PostPaymentIncome(p, amt, NoLocation)
       \/ /\ u \in Warga /\ HomeOf[u] # NoOccupancy
          /\ payments' = [payments EXCEPT ![p] =
                             NewPayment("donation", d, NoAllocation, amt, u, "PENDING")]
          /\ UNCHANGED <<ledger, balance>>
    /\ UNCHANGED <<dues, bills, tenure, wasVoluntary>>

\* The bills covered by alloc can be paid together by u, who leaves
\* reserved[b] units of each bill to payments that are still pending.
MultiPayable(alloc, reserved) ==
    LET S == Covers(alloc)
        group(b) == {c \in S : DueOf[c] = DueOf[b]}
    IN /\ S # {} /\ Cardinality(S) <= MaxBillsPerPayment
       /\ \A b, c \in S : OccOf[b] = OccOf[c]
       /\ \A b \in S :
             /\ bills[b].status \notin {"absent", "paid", "cancelled"}
             /\ bills[b].active /\ bills[b].obligatory
             /\ ~Voluntary(b) => OldestOf(group(b), OccOf[b], DueOf[b])
             /\ AcceptsAmount(b, alloc[b],
                              Amount[b] - GetApprovedPaymentTotal(b) - reserved[b])

\* Bill rows once the allocation is approved, from the totals read before it.
SettleAll(alloc) ==
    [b \in Bills |->
        IF alloc[b] > 0
        THEN [bills[b] EXCEPT !.status =
                 SettledStatus(b, GetApprovedPaymentTotal(b) + alloc[b])]
        ELSE bills[b]]

StaffPayPeriods(p, u, alloc) ==
    /\ payments[p].status = "none" /\ u \in Staff
    /\ MultiPayable(alloc, [b \in Bills |-> 0])
    /\ payments' = [payments EXCEPT ![p] =
                       NewPayment("multi", NoDue, alloc, AllocTotal(alloc), u, "APPROVED")]
    /\ bills' = SettleAll(alloc)
    /\ PostPaymentIncome(p, AllocTotal(alloc), NoLocation)
    /\ UNCHANGED <<dues, tenure, wasVoluntary>>

WargaPayPeriods(p, u, alloc) ==
    /\ payments[p].status = "none" /\ u \in Warga
    /\ MultiPayable(alloc, [b \in Bills |-> GetPendingPaymentTotal(b)])
    /\ \A b \in Covers(alloc) : OccOf[b] = HomeOf[u]
    /\ payments' = [payments EXCEPT ![p] =
                       NewPayment("multi", NoDue, alloc, AllocTotal(alloc), u, "PENDING")]
    /\ UNCHANGED <<dues, bills, tenure, ledger, balance, wasVoluntary>>
-----------------------------------------------------------------------------
(* Verification of a pending payment by an officer other than its submitter. *)

\* Faulty: a second approval of the same payment goes through.
VerifiableAgain(p, v) == /\ payments[p].status \in {"PENDING", "APPROVED"}
                         /\ v \in Staff /\ payments[p].submitted_by # v

Verifiable(p, v) == /\ payments[p].status = "PENDING"
                    /\ v \in Staff /\ payments[p].submitted_by # v

PaymentVerify(p, v, status) ==
    [payments EXCEPT ![p].status = status, ![p].verified_by = v]

RejectPayment(p, v) ==
    /\ Verifiable(p, v)
    /\ payments' = PaymentVerify(p, v, "REJECTED")
    /\ bills' = ReconcileBills(payments', Covers(payments[p].alloc))
    /\ UNCHANGED <<dues, tenure, ledger, balance, wasVoluntary>>

ApproveDonation(p, v, loc) ==
    /\ Verifiable(p, v) /\ payments[p].kind = "donation"
    /\ dues[payments[p].due].voluntary
    /\ payments' = PaymentVerify(p, v, "APPROVED")
    /\ PostPaymentIncome(p, payments[p].amount, loc)
    /\ UNCHANGED <<dues, bills, tenure, wasVoluntary>>

\* Approving a one-bill payment.  If the bill has meanwhile less open than
\* the payment, the payment is rejected instead, and that is committed.
VerifySinglePayment(p, v, loc) ==
    /\ Verifiable(p, v) /\ payments[p].kind = "single"
    /\ \E b \in Covers(payments[p].alloc) :
          LET amt == payments[p].amount
              total == GetApprovedPaymentTotal(b)
          IN /\ Collectable(b)
             /\ \/ /\ ~Voluntary(b) /\ amt > Amount[b] - total
                   /\ payments' = PaymentVerify(p, v, "REJECTED")
                   /\ UNCHANGED <<bills, ledger, balance>>
                \/ /\ Voluntary(b) \/ amt <= Amount[b] - total
                   /\ payments' = PaymentVerify(p, v, "APPROVED")
                   /\ bills' = [bills EXCEPT ![b].status =
                                   IF Voluntary(b) THEN "paid"
                                   ELSE SettledStatus(b, total + amt)]
                   /\ PostPaymentIncome(p, amt, loc)
    /\ UNCHANGED <<dues, tenure, wasVoluntary>>

VerifyMultiPeriodPayment(p, v, loc) ==
    LET alloc == payments[p].alloc IN
    /\ Verifiable(p, v) /\ payments[p].kind = "multi"
    /\ \A b \in Covers(alloc) :
          /\ bills[b].status \notin {"paid", "cancelled"}
          /\ bills[b].active /\ bills[b].obligatory
          /\ alloc[b] <= Amount[b] - GetApprovedPaymentTotal(b)
    /\ payments' = PaymentVerify(p, v, "APPROVED")
    /\ bills' = SettleAll(alloc)
    /\ PostPaymentIncome(p, payments[p].amount, loc)
    /\ UNCHANGED <<dues, tenure, wasVoluntary>>
-----------------------------------------------------------------------------
(* Corrections and manual entries. *)

PaymentIncomeRow(i, p) == /\ ledger[i].payment = p /\ ledger[i].type = "income"
                          /\ ledger[i].reverses = 0

\* The payment's first income row, ORDER BY created_at.
OriginalIncome(i, p) ==
    /\ PaymentIncomeRow(i, p)
    /\ \A j \in 1 .. Len(ledger) : PaymentIncomeRow(j, p) => i <= j

ReverseApprovedPayment(p) ==
    /\ payments[p].status = "APPROVED"
    /\ \E i \in 1 .. Len(ledger) :
          /\ OriginalIncome(i, p)
          /\ CanSpend(ledger[i].location, payments[p].amount)
          /\ TransactionCreate("expense", payments[p].amount, p, i, ledger[i].location,
                               "payment_reversal")
    /\ payments' = [payments EXCEPT ![p].status = "REVERSED"]
    /\ bills' = ReconcileBills(payments', Covers(payments[p].alloc))
    /\ UNCHANGED <<dues, tenure, wasVoluntary>>

Reversed(i) == \E j \in 1 .. Len(ledger) : ledger[j].reverses = i

\* Any posted row that is not itself a reversal, at most once.
ReverseTransaction(i) ==
    LET row == ledger[i] IN
    /\ row.reverses = 0
    /\ ~Reversed(i)
    /\ row.type = "income" => CanSpend(row.location, row.amount)
    /\ TransactionCreate(IF row.type = "income" THEN "expense" ELSE "income",
                         row.amount, row.payment, i, row.location, "hand_reversal")
    /\ UNCHANGED <<dues, bills, tenure, payments, wasVoluntary>>

CreateManualTransaction(type, amt, loc) ==
    /\ Cardinality({i \in 1 .. Len(ledger) : ledger[i].note = "manual"}) < MaxManual
    /\ type = "expense" => CanSpend(loc, amt)
    /\ TransactionCreate(type, amt, NoPayment, 0, loc, "manual")
    /\ UNCHANGED <<dues, bills, tenure, payments, wasVoluntary>>
-----------------------------------------------------------------------------
AnyLocation == Locations \cup {NoLocation}

DueActions ==
    \E d \in Dues :
       \/ \E row \in DueSettings : UpdateDue(d, row)
       \/ DeactivateDue(d)
       \/ DeadlinePasses(d)

BillActions ==
    \/ \E d \in Dues, t \in Periods, occs \in SUBSET Occupancies : GenerateBills(d, t, occs)
    \/ \E b \in Bills : CreateBill(b) \/ CancelBill(b)
    \/ \E b \in Bills, a \in BOOLEAN : UpdateBillStatus(b, a)
    \/ \E d \in Dues, t \in Periods, a \in BOOLEAN : UpdateDuePeriodStatus(d, t, a)
    \/ \E o \in Occupancies, e \in TenureEdits : UpdateOccupancyDates(o, e[1], e[2], e[3])
    \/ \E o \in Occupancies : ListBills({o})
    \/ ListBills(Occupancies)

RecordActions ==
    \E p \in PaymentIds, u \in Users :
       \/ \E b \in Bills, amt \in 1 .. MaxPay :
             StaffPayBill(p, u, b, amt) \/ WargaPayBill(p, u, b, amt)
       \/ \E d \in Dues, amt \in 1 .. MaxPay : Donate(p, u, d, amt)
       \/ \E alloc \in Allocation : StaffPayPeriods(p, u, alloc) \/ WargaPayPeriods(p, u, alloc)

VerifyActions ==
    \E p \in PaymentIds, v \in Users :
       \/ RejectPayment(p, v)
       \/ \E loc \in AnyLocation : \/ ApproveDonation(p, v, loc)
                                   \/ VerifySinglePayment(p, v, loc)
                                   \/ VerifyMultiPeriodPayment(p, v, loc)

LedgerActions ==
    \/ \E p \in PaymentIds : ReverseApprovedPayment(p)
    \/ \E i \in 1 .. Len(ledger) : ReverseTransaction(i)
    \/ \E type \in {"income", "expense"}, amt \in ManualAmounts, loc \in AnyLocation :
          CreateManualTransaction(type, amt, loc)

Next == DueActions \/ ExpireVoluntaryDues \/ BillActions \/ RecordActions
        \/ VerifyActions \/ LedgerActions

Spec == Init /\ [][Next]_vars
-----------------------------------------------------------------------------
(* Properties. *)

\* Every table holds well-formed rows.
TypeOK ==
    /\ dues \in [Dues -> DueRow]
    /\ bills \in [Bills -> BillRow]
    /\ tenure \in [Occupancies -> TenureRow]
    /\ payments \in [PaymentIds -> PaymentRow]
    /\ ledger \in Seq(LedgerRow)
    /\ balance \in [Locations -> Int]
    /\ wasVoluntary \subseteq Dues

\* However staff entries, pending submissions, approvals and reversals are
\* interleaved, the approved money on a bill whose due was never voluntary
\* stays within the amount billed (CreatePayment, CreateMultiPeriodPayment and
\* both verification paths check it against different totals).
NoOverpayment ==
    \A b \in Bills : DueOf[b] \notin wasVoluntary => ApprovedIn(payments, b) <= Amount[b]

\* What the status of bill b may be when total is the approved money on it.
StatusFits(b, status, total) ==
    /\ total > 0 <=> status \in {"partial", "paid"}
    /\ total > 0 /\ total >= Amount[b] /\ Amount[b] > 0 => status = "paid"
    /\ status = "paid" /\ DueOf[b] \notin wasVoluntary => total >= Amount[b]

\* The stored status of a bill, written by five handlers, always agrees with
\* the payments: money is on it exactly when it is partial or paid, it is paid
\* once the full amount is there, and (unless the due was ever voluntary) only
\* then.  In particular no approved money is left on a cancelled bill.
StatusAgrees == \A b \in Bills : StatusFits(b, bills[b].status, ApprovedIn(payments, b))

\* Submissions of residents reserve what they ask for: pending and approved
\* self-submitted money together never exceed the bill, even though staff
\* entries are accepted over pending ones.
SelfReservationsFit ==
    \A b \in Bills : DueOf[b] \notin wasVoluntary =>
       Cardinality({u \in PaymentIds \X (1 .. MaxPay) :
                      /\ payments[u[1]].status \in {"PENDING", "APPROVED"}
                      /\ payments[u[1]].submitted_by \in Warga \ Staff
                      /\ u[2] <= payments[u[1]].alloc[b]}) <= Amount[b]

\* A payment that was ever approved has exactly one income row, of its own
\* amount; a reversed one has exactly one compensating row that names it; any
\* other payment has none (BR-12).  Rows reversed by hand are counted apart.
OneIncomePerPayment ==
    \A p \in PaymentIds :
       LET rows(note) == {i \in 1 .. Len(ledger) : /\ ledger[i].payment = p
                                                   /\ ledger[i].note = note}
       IN /\ Cardinality(rows("payment")) =
                IF payments[p].status \in {"APPROVED", "REVERSED"} THEN 1 ELSE 0
          /\ Cardinality(rows("payment_reversal")) =
                IF payments[p].status = "REVERSED" THEN 1 ELSE 0
          /\ \A i \in rows("payment") : ledger[i].amount = payments[p].amount
          /\ \A i \in rows("payment_reversal") : /\ ledger[i].amount = payments[p].amount
                                                  /\ ledger[i].reverses \in rows("payment")

\* No expense, hand reversal or payment reversal takes more out of a fund
\* location than was recorded into it.
NoOverdraft == \A l \in Locations : balance[l] >= 0

\* Once paid, a bill is not cancelled, deactivated or released from its
\* obligation by any later edit of bill, period or occupancy (BR-20).
PaidBillsKept ==
    [][\A b \in Bills : bills[b].status = "paid" =>
          /\ bills'[b].status # "cancelled"
          /\ bills[b].active => bills'[b].active
          /\ bills'[b].obligatory = bills[b].obligatory]_vars

\* An unpaid bill is obligatory exactly when its period lies within the tenure
\* of its occupancy, through date edits, generation and synchronisation, as
\* long as it has not become unpaid by a reversal.
UnpaidFollowsTenure ==
    \A b \in Bills :
       /\ bills[b].status = "unpaid"
       /\ \A p \in PaymentIds : payments[p].alloc[b] > 0 => payments[p].status # "REVERSED"
       => bills[b].obligatory = (PeriodOf[b] \in tenure[OccOf[b]].span)

\* KAS rows posted for payments, less those posted to reverse them.
CashUnits(note) == UNION {{i} \X (1 .. ledger[i].amount) :
                             i \in {j \in 1 .. Len(ledger) : ledger[j].note = note}}
PaymentCash == Cardinality(CashUnits("payment")) - Cardinality(CashUnits("payment_reversal"))

Contract == INSTANCE PaymentContract WITH
    status <- [p \in PaymentIds |-> payments[p].status],
    alloc <- [p \in PaymentIds |-> payments[p].alloc],
    amount <- [p \in PaymentIds |-> payments[p].amount],
    credit <- [b \in Bills |-> ApprovedIn(payments, b)],
    cash <- PaymentCash

\* The ledger implements the contract: whatever else happens to dues, bills,
\* occupancies and KAS, a payment is decided once, and its money reaches every
\* bill it covers and the KAS in the same step, and leaves them in the same step.
ImplementsContract == Contract!Spec

\* A ledger row is reversed at most once (ErrAlreadyReversed).
ReversedAtMostOnce ==
    \A i, j \in 1 .. Len(ledger) :
       ledger[i].reverses # 0 /\ ledger[i].reverses = ledger[j].reverses => i = j

\* Money approved for a bill never leaves an older bill of the same occupancy
\* and due in the queue unsettled (the FIFO rule).
FifoApproval ==
    [][\A b, c \in Bills :
          /\ OccOf[b] = OccOf[c] /\ DueOf[b] = DueOf[c] /\ PeriodOf[b] < PeriodOf[c]
          /\ ~Voluntary(c)
          /\ ApprovedIn(payments', c) > ApprovedIn(payments, c)
          => b \notin Unsettled(OccOf[b], DueOf[b])']_vars
=============================================================================
