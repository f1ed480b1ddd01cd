-------------------------- MODULE PaymentRulesProofs --------------------------
(***************************************************************************)
(* More theorems about PaymentLedger, on the invariant of                  *)
(* PaymentLedgerProofs: what becomes of paid and unpaid bills, what is     *)
(* posted for a payment, and what residents reserve.                       *)
(***************************************************************************)
EXTENDS PaymentLedgerProofs

-----------------------------------------------------------------------------
(* How a step may change the rows of bills. *)

\* The row of b is written by a payment: only its status, and not to cancelled.
Settles(b) ==
    /\ bills'[b] = [bills[b] EXCEPT !.status = bills'[b].status]
    /\ bills'[b].status \in {"unpaid", "partial", "paid"}

\* A money step leaves a bill alone or writes its status, and cancels none.
LEMMA SettlesOrNot ==
    ASSUME TypeOK, RecordActions \/ VerifyActions \/ LedgerActions, NEW b \in Bills
    PROVE  bills'[b] = bills[b] \/ Settles(b)
<1>1. bills[b] \in BillRow
  BY DEF TypeOK
<1>2. ASSUME NEW c, NEW s \in {"unpaid", "partial", "paid"},
             bills' = [bills EXCEPT ![c].status = s]
      PROVE  bills'[b] = bills[b] \/ Settles(b)
  BY <1>1, <1>2 DEF TypeOK, Settles, BillRow
<1>3. ASSUME NEW alloc, bills' = SettleAll(alloc)
      PROVE  bills'[b] = bills[b] \/ Settles(b)
  <2>1. \A n : SettledStatus(b, n) \in {"partial", "paid"}
    BY DEF SettledStatus
  <2>2. \/ bills'[b] = bills[b]
        \/ \E s \in {"partial", "paid"} : bills'[b] = [bills[b] EXCEPT !.status = s]
    BY <1>3, <2>1 DEF SettleAll
  <2> QED
    BY <1>1, <2>2 DEF Settles, BillRow
<1>4. ASSUME NEW ps, NEW touched, bills' = ReconcileBills(ps, touched)
      PROVE  bills'[b] = bills[b] \/ Settles(b)
  <2>1. CASE bills[b].status = "cancelled"
    <3>1. bills'[b] = bills[b] \/ bills'[b] = [bills[b] EXCEPT !.status = "cancelled"]
      BY <1>4, <2>1 DEF ReconcileBills, Reconciled
    <3> QED
      BY <1>1, <2>1, <3>1 DEF BillRow
  <2>2. CASE bills[b].status # "cancelled"
    <3>1. \/ bills'[b] = bills[b]
          \/ \E s \in {"unpaid", "partial", "paid"} : bills'[b] = [bills[b] EXCEPT !.status = s]
      BY <1>4, <2>2 DEF ReconcileBills, Reconciled
    <3> QED
      BY <1>1, <3>1 DEF Settles, BillRow
  <2> QED
    BY <2>1, <2>2
<1>5. \A c, n : (IF Voluntary(c) THEN "paid" ELSE SettledStatus(c, n)) \in {"partial", "paid"}
  BY DEF SettledStatus
<1>6. CASE RecordActions
  <2>1. \/ bills' = bills
        \/ \E c \in Bills, s \in {"partial", "paid"} : bills' = [bills EXCEPT ![c].status = s]
        \/ \E alloc \in Allocation : bills' = SettleAll(alloc)
    <3>1. ASSUME NEW p, NEW u, NEW c \in Bills, NEW amt, StaffPayBill(p, u, c, amt)
          PROVE  \E s \in {"partial", "paid"} : bills' = [bills EXCEPT ![c].status = s]
      <4>1. PICK n : bills' = [bills EXCEPT ![c].status =
                                  IF Voluntary(c) THEN "paid" ELSE SettledStatus(c, n)]
        BY <3>1 DEF StaffPayBill
      <4> QED
        BY <1>5, <4>1
    <3>2. ASSUME NEW p, NEW u, NEW alloc, StaffPayPeriods(p, u, alloc)
          PROVE  bills' = SettleAll(alloc)
      BY <3>2 DEF StaffPayPeriods
    <3>3. PICK p \in PaymentIds, u \in Users :
             \/ \E c \in Bills, amt \in 1 .. MaxPay :
                   StaffPayBill(p, u, c, amt) \/ WargaPayBill(p, u, c, amt)
             \/ \E d \in Dues, amt \in 1 .. MaxPay : Donate(p, u, d, amt)
             \/ \E alloc \in Allocation :
                   StaffPayPeriods(p, u, alloc) \/ WargaPayPeriods(p, u, alloc)
      BY <1>6 DEF RecordActions
    <3>4. ASSUME NEW c, NEW amt, NEW d, NEW alloc,
                 WargaPayBill(p, u, c, amt) \/ Donate(p, u, d, amt) \/ WargaPayPeriods(p, u, alloc)
          PROVE  bills' = bills
      BY <3>4 DEF WargaPayBill, Donate, WargaPayPeriods
    <3> QED
      BY <3>1, <3>2, <3>3, <3>4
  <2> QED
    BY <1>2, <1>3, <2>1
<1>7. CASE VerifyActions
  BY <1>2, <1>3, <1>4, <1>5, <1>7
     DEF VerifyActions, RejectPayment, ApproveDonation, VerifySinglePayment,
         VerifyMultiPeriodPayment
<1>8. CASE LedgerActions
  BY <1>4, <1>8 DEF LedgerActions, ReverseApprovedPayment, ReverseTransaction,
                    CreateManualTransaction
<1> QED
  BY <1>6, <1>7, <1>8

\* The synchronisation writes rows that are absent or unpaid, and sets their
\* obligation by the tenures it is given.
LEMMA SyncedRow ==
    ASSUME NEW bs \in [Bills -> BillRow], NEW occs, NEW ten, NEW b \in Bills
    PROVE  \/ Synced(bs, occs, ten)[b] = bs[b]
           \/ /\ bs[b].status \in {"absent", "unpaid"} /\ OccOf[b] \in occs
              /\ Synced(bs, occs, ten)[b].obligatory = (PeriodOf[b] \in ten[OccOf[b]].span)
<1>1. \/ Synced(bs, occs, ten)[b] = bs[b]
      \/ /\ bs[b].status \in {"absent", "unpaid"} /\ OccOf[b] \in occs
         /\ Synced(bs, occs, ten)[b] =
               [bs[b] EXCEPT !.status = "unpaid",
                             !.obligatory = PeriodOf[b] \in ten[OccOf[b]].span]
  BY DEF Synced
<1>2. \A x \in BOOLEAN : [bs[b] EXCEPT !.status = "unpaid", !.obligatory = x].obligatory = x
  BY DEF BillRow
<1>3. (PeriodOf[b] \in ten[OccOf[b]].span) \in BOOLEAN
  OBVIOUS
<1>4. [bs[b] EXCEPT !.status = "unpaid",
                    !.obligatory = PeriodOf[b] \in ten[OccOf[b]].span].obligatory
         = (PeriodOf[b] \in ten[OccOf[b]].span)
  BY ONLY <1>2, <1>3, Zenon
<1> QED
  BY <1>1, <1>4

\* A date edit recomputes the obligation of unpaid bills and nothing else.
LEMMA RecomputedRow ==
    ASSUME TypeOK, NEW o, NEW span, NEW b \in Bills
    PROVE  /\ RecomputedForUnpaid(o, span) \in [Bills -> BillRow]
           /\ RecomputedForUnpaid(o, span)[b].status = bills[b].status
           /\ IF OccOf[b] = o /\ bills[b].status = "unpaid"
              THEN RecomputedForUnpaid(o, span)[b].obligatory = (PeriodOf[b] \in span)
              ELSE RecomputedForUnpaid(o, span)[b] = bills[b]
<1>1. \A c \in Bills : bills[c] \in BillRow
  BY DEF TypeOK
<1>2. RecomputedForUnpaid(o, span) \in [Bills -> BillRow]
  BY <1>1, ObligatoryRowType DEF RecomputedForUnpaid
<1>3. \A x \in BOOLEAN : /\ [bills[b] EXCEPT !.obligatory = x].obligatory = x
                         /\ [bills[b] EXCEPT !.obligatory = x].status = bills[b].status
  BY <1>1 DEF BillRow
<1>4. (PeriodOf[b] \in span) \in BOOLEAN
  OBVIOUS
<1>5. /\ [bills[b] EXCEPT !.obligatory = PeriodOf[b] \in span].obligatory = (PeriodOf[b] \in span)
      /\ [bills[b] EXCEPT !.obligatory = PeriodOf[b] \in span].status = bills[b].status
  BY ONLY <1>3, <1>4, Zenon
<1>6. RecomputedForUnpaid(o, span)[b] =
         IF OccOf[b] = o /\ bills[b].status = "unpaid"
         THEN [bills[b] EXCEPT !.obligatory = PeriodOf[b] \in span] ELSE bills[b]
  BY DEF RecomputedForUnpaid
<1> QED
  BY <1>2, <1>5, <1>6

-----------------------------------------------------------------------------
(* Paid bills. *)

KeptIfPaid(b) ==
    bills[b].status = "paid" =>
       /\ bills'[b].status # "cancelled"
       /\ bills[b].active => bills'[b].active
       /\ bills'[b].obligatory = bills[b].obligatory

\* Steps about bills keep paid ones.
LEMMA BillStepsKeepPaid ==
    ASSUME TypeOK, BillActions, NEW b \in Bills, bills[b].status = "paid"
    PROVE  KeptIfPaid(b)
<1>1. bills[b] \in BillRow
  BY DEF TypeOK
<1>2. ASSUME bills'[b] = bills[b]
      PROVE  KeptIfPaid(b)
  BY <1>2 DEF KeptIfPaid
<1>3. ASSUME NEW S, bills' = BillCreate(S)
      PROVE  bills'[b] = bills[b]
  BY <1>3 DEF BillCreate, Issued
<1>4. ASSUME NEW c \in Bills, CancelBill(c)
      PROVE  bills'[b] = bills[b]
  BY <1>4 DEF CancelBill, TypeOK
<1>5. ASSUME NEW c \in Bills, NEW a \in BOOLEAN, UpdateBillStatus(c, a)
      PROVE  KeptIfPaid(b)
  <2>1. CASE c # b
    BY <1>2, <1>5, <2>1 DEF UpdateBillStatus, TypeOK
  <2>2. CASE c = b
    <3>1. a = TRUE
      BY <1>5, <2>2 DEF UpdateBillStatus
    <3>2. bills'[b] = [bills[b] EXCEPT !.active = TRUE]
      BY <1>5, <2>2, <3>1 DEF UpdateBillStatus, TypeOK
    <3> QED
      BY <1>1, <3>2 DEF KeptIfPaid, BillRow
  <2> QED
    BY <2>1, <2>2
<1>6. ASSUME NEW d, NEW t, NEW a, UpdateDuePeriodStatus(d, t, a)
      PROVE  bills'[b] = bills[b]
  BY <1>6 DEF UpdateDuePeriodStatus, NotPaidInPeriod
<1>7. ASSUME NEW o, NEW first, NEW last, NEW open, UpdateOccupancyDates(o, first, last, open)
      PROVE  bills'[b] = bills[b]
  <2>1. PICK span : bills' = Synced(RecomputedForUnpaid(o, span), {o}, tenure')
    BY <1>7 DEF UpdateOccupancyDates
  <2>2. /\ RecomputedForUnpaid(o, span) \in [Bills -> BillRow]
        /\ RecomputedForUnpaid(o, span)[b] = bills[b]
    BY RecomputedRow
  <2> QED
    BY <2>1, <2>2, SyncedRow
<1>8. ASSUME NEW occs, ListBills(occs)
      PROVE  bills'[b] = bills[b]
  <2>1. bills' = Synced(bills, occs, tenure) /\ bills \in [Bills -> BillRow]
    BY <1>8 DEF ListBills, TypeOK
  <2> QED
    BY <2>1, SyncedRow
<1> QED
  BY <1>2, <1>3, <1>4, <1>5, <1>6, <1>7, <1>8 DEF BillActions, GenerateBills, CreateBill

\* No edit of a due, a bill, a period or an occupancy, and no payment, takes a
\* paid bill out of the collection: the handlers that cancel, deactivate and
\* recompute bills never write the row of a paid one (BR-20).
THEOREM PaidStays == Spec => PaidBillsKept
<1>1. TypeOK /\ [Next]_vars => [\A b \in Bills : KeptIfPaid(b)]_vars
  <2> SUFFICES ASSUME TypeOK, Next, NEW b \in Bills, bills[b].status = "paid"
               PROVE  KeptIfPaid(b)
    BY DEF KeptIfPaid
  <2>1. CASE DueActions \/ ExpireVoluntaryDues
    <3>1. bills' = bills
      BY <2>1 DEF DueActions, UpdateDue, DeactivateDue, DeadlinePasses, ExpireVoluntaryDues
    <3> QED
      BY <3>1 DEF KeptIfPaid
  <2>2. CASE BillActions
    BY <2>2, BillStepsKeepPaid
  <2>3. CASE RecordActions \/ VerifyActions \/ LedgerActions
    <3>1. bills'[b] = bills[b] \/ Settles(b)
      BY <2>3, SettlesOrNot
    <3>2. bills[b] \in BillRow
      BY DEF TypeOK
    <3> QED
      BY <3>1, <3>2 DEF KeptIfPaid, Settles, BillRow
  <2> QED
    BY <2>1, <2>2, <2>3 DEF Next
<1>2. Spec => [][\A b \in Bills : KeptIfPaid(b)]_vars
  BY <1>1, TypeCorrect, PTL DEF Spec
<1> QED
  BY <1>2 DEF PaidBillsKept, KeptIfPaid

-----------------------------------------------------------------------------
(* How a step may change the rows of payments and what it posts. *)

Posts(p) == \E loc \in AnyLocation : PostPaymentIncome(p, payments'[p].amount, loc)

\* Recognised exactly if it is approved.
PostsIfApproved(p) ==
    /\ payments'[p].status = "APPROVED" => Posts(p)
    /\ payments'[p].status # "APPROVED" => ledger' = ledger

SameClaim(p) == /\ payments'[p].alloc = payments[p].alloc
                /\ payments'[p].amount = payments[p].amount
                /\ payments'[p].submitted_by = payments[p].submitted_by

Entered(p) ==
    /\ payments[p].status = "none" /\ payments'[p].status \in {"PENDING", "APPROVED"}
    /\ \A b \in Covers(payments'[p].alloc) : bills[b].status # "absent"
    /\ payments'[p].submitted_by \in Warga \ Staff =>
          \A b \in Covers(payments'[p].alloc) :
             Voluntary(b) \/ payments'[p].alloc[b] <= Amount[b] - GetApprovedPaymentTotal(b)
                                                               - GetPendingPaymentTotal(b)
    /\ PostsIfApproved(p)

Decided(p) ==
    /\ payments[p].status = "PENDING" /\ payments'[p].status \in {"APPROVED", "REJECTED"}
    /\ SameClaim(p) /\ PostsIfApproved(p)

Withdrawn(p) ==
    /\ payments[p].status = "APPROVED" /\ payments'[p].status = "REVERSED"
    /\ SameClaim(p)
    /\ \E i \in 1 .. Len(ledger) :
          /\ OriginalIncome(i, p)
          /\ TransactionCreate("expense", payments[p].amount, p, i, ledger[i].location,
                               "payment_reversal")

PaymentStep(p) == /\ \A q \in PaymentIds \ {p} : payments'[q] = payments[q]
                  /\ Entered(p) \/ Decided(p) \/ Withdrawn(p)

\* Recording enters one payment.
LEMMA RecordSteps ==
    ASSUME TypeOK, RecordActions
    PROVE  \E p \in PaymentIds : PaymentStep(p)
<1> USE DEF AnyLocation
<1>1. PICK p \in PaymentIds, u \in Users :
         \/ \E b \in Bills, amt \in 1 .. MaxPay :
               StaffPayBill(p, u, b, amt) \/ WargaPayBill(p, u, b, amt)
         \/ \E d \in Dues, amt \in 1 .. MaxPay : Donate(p, u, d, amt)
         \/ \E alloc \in Allocation : StaffPayPeriods(p, u, alloc) \/ WargaPayPeriods(p, u, alloc)
  BY DEF RecordActions
<1>2. Covers(NoAllocation) = {}
  BY DEF Covers, NoAllocation
<1>3. ASSUME NEW b \in Bills, NEW amt \in 1 .. MaxPay, StaffPayBill(p, u, b, amt)
      PROVE  PaymentStep(p)
  <2>1. /\ payments' = [payments EXCEPT ![p] =
                           NewPayment("single", NoDue, One(b, amt), amt, u, "APPROVED")]
        /\ payments[p].status = "none" /\ u \in Staff /\ bills[b].status # "absent"
        /\ PostPaymentIncome(p, amt, NoLocation)
    BY <1>3 DEF StaffPayBill, PayableBill, Collectable
  <2>2. /\ \A q \in PaymentIds \ {p} : payments'[q] = payments[q]
        /\ payments'[p].status = "APPROVED" /\ payments'[p].alloc = One(b, amt)
        /\ payments'[p].amount = amt /\ payments'[p].submitted_by = u
    BY <2>1 DEF TypeOK, NewPayment
  <2> QED
    BY <2>1, <2>2, OneIs DEF PaymentStep, Entered, PostsIfApproved, Posts
<1>4. ASSUME NEW b \in Bills, NEW amt \in 1 .. MaxPay, WargaPayBill(p, u, b, amt)
      PROVE  PaymentStep(p)
  <2>1. /\ payments' = [payments EXCEPT ![p] =
                           NewPayment("single", NoDue, One(b, amt), amt, u, "PENDING")]
        /\ payments[p].status = "none" /\ bills[b].status # "absent" /\ ledger' = ledger
        /\ Voluntary(b) \/ amt <= Amount[b] - GetApprovedPaymentTotal(b)
                                            - GetPendingPaymentTotal(b)
    BY <1>4 DEF WargaPayBill, PayableBill, Collectable, AcceptsAmount
  <2>2. /\ \A q \in PaymentIds \ {p} : payments'[q] = payments[q]
        /\ payments'[p].status = "PENDING" /\ payments'[p].alloc = One(b, amt)
        /\ payments'[p].amount = amt /\ payments'[p].submitted_by = u
    BY <2>1 DEF TypeOK, NewPayment
  <2> QED
    BY <2>1, <2>2, OneIs DEF PaymentStep, Entered, PostsIfApproved
<1>5. ASSUME NEW d \in Dues, NEW amt \in 1 .. MaxPay, Donate(p, u, d, amt)
      PROVE  PaymentStep(p)
  <2>1. PICK s \in {"PENDING", "APPROVED"} :
           /\ payments' = [payments EXCEPT ![p] =
                              NewPayment("donation", d, NoAllocation, amt, u, s)]
           /\ s = "APPROVED" => PostPaymentIncome(p, amt, NoLocation)
           /\ s # "APPROVED" => ledger' = ledger
    BY <1>5 DEF Donate
  <2>2. /\ \A q \in PaymentIds \ {p} : payments'[q] = payments[q]
        /\ payments'[p].status = s /\ payments'[p].alloc = NoAllocation
        /\ payments'[p].amount = amt
    BY <2>1 DEF TypeOK, NewPayment
  <2>3. payments[p].status = "none"
    BY <1>5 DEF Donate
  <2> QED
    BY <1>2, <2>1, <2>2, <2>3 DEF PaymentStep, Entered, PostsIfApproved, Posts
<1>6. ASSUME NEW alloc \in Allocation, StaffPayPeriods(p, u, alloc)
      PROVE  PaymentStep(p)
  <2>1. /\ payments' = [payments EXCEPT ![p] =
                           NewPayment("multi", NoDue, alloc, AllocTotal(alloc), u, "APPROVED")]
        /\ payments[p].status = "none" /\ u \in Staff
        /\ PostPaymentIncome(p, AllocTotal(alloc), NoLocation)
    BY <1>6 DEF StaffPayPeriods
  <2>2. /\ \A q \in PaymentIds \ {p} : payments'[q] = payments[q]
        /\ payments'[p].status = "APPROVED" /\ payments'[p].alloc = alloc
        /\ payments'[p].amount = AllocTotal(alloc) /\ payments'[p].submitted_by = u
    BY <2>1 DEF TypeOK, NewPayment
  <2>3. \A b \in Covers(alloc) : bills[b].status # "absent"
    BY <1>6 DEF StaffPayPeriods, MultiPayable
  <2> QED
    BY <2>1, <2>2, <2>3 DEF PaymentStep, Entered, PostsIfApproved, Posts
<1>7. ASSUME NEW alloc \in Allocation, WargaPayPeriods(p, u, alloc)
      PROVE  PaymentStep(p)
  <2> DEFINE pending == [b \in Bills |-> GetPendingPaymentTotal(b)]
  <2>1. /\ payments' = [payments EXCEPT ![p] =
                           NewPayment("multi", NoDue, alloc, AllocTotal(alloc), u, "PENDING")]
        /\ payments[p].status = "none" /\ ledger' = ledger /\ MultiPayable(alloc, pending)
    BY <1>7 DEF WargaPayPeriods
  <2>2. /\ \A q \in PaymentIds \ {p} : payments'[q] = payments[q]
        /\ payments'[p].status = "PENDING" /\ payments'[p].alloc = alloc
        /\ payments'[p].amount = AllocTotal(alloc) /\ payments'[p].submitted_by = u
    BY <2>1 DEF TypeOK, NewPayment
  <2>3. \A b \in Covers(alloc) :
           /\ bills[b].status # "absent"
           /\ AcceptsAmount(b, alloc[b], Amount[b] - GetApprovedPaymentTotal(b) - pending[b])
    BY <2>1, Zenon DEF MultiPayable
  <2>4. \A b \in Covers(alloc) : pending[b] = GetPendingPaymentTotal(b)
    BY DEF Covers
  <2> HIDE DEF pending
  <2>5. \A b \in Covers(alloc) :
           alloc[b] <= Amount[b] - GetApprovedPaymentTotal(b) - GetPendingPaymentTotal(b)
    BY <2>3, <2>4 DEF AcceptsAmount
  <2> QED
    BY <2>1, <2>2, <2>3, <2>5 DEF PaymentStep, Entered, PostsIfApproved
<1> QED
  BY <1>1, <1>3, <1>4, <1>5, <1>6, <1>7

\* Verifying decides on one payment.
LEMMA VerifySteps ==
    ASSUME TypeOK, VerifyActions
    PROVE  \E p \in PaymentIds : PaymentStep(p)
<1>1. PICK p \in PaymentIds, v \in Users :
         \/ RejectPayment(p, v)
         \/ \E loc \in AnyLocation : \/ ApproveDonation(p, v, loc)
                                     \/ VerifySinglePayment(p, v, loc)
                                     \/ VerifyMultiPeriodPayment(p, v, loc)
  BY DEF VerifyActions
<1>2. payments[p].status = "PENDING"
  BY <1>1 DEF RejectPayment, ApproveDonation, VerifySinglePayment, VerifyMultiPeriodPayment,
              Verifiable
<1>3. PICK s \in {"APPROVED", "REJECTED"} :
         /\ payments' = PaymentVerify(p, v, s)
         /\ s = "APPROVED" => \E loc \in AnyLocation : PostPaymentIncome(p, payments[p].amount, loc)
         /\ s # "APPROVED" => ledger' = ledger
  BY <1>1 DEF RejectPayment, ApproveDonation, VerifySinglePayment, VerifyMultiPeriodPayment
<1>4. /\ \A q \in PaymentIds \ {p} : payments'[q] = payments[q]
      /\ payments'[p].status = s /\ payments'[p].alloc = payments[p].alloc
      /\ payments'[p].amount = payments[p].amount
      /\ payments'[p].submitted_by = payments[p].submitted_by
  BY <1>3 DEF PaymentVerify, TypeOK, PaymentRow
<1> QED
  BY <1>2, <1>3, <1>4 DEF PaymentStep, Decided, SameClaim, PostsIfApproved, Posts

\* A reversal withdraws one payment; other ledger steps touch no payment or bill.
LEMMA LedgerSteps ==
    ASSUME TypeOK, LedgerActions
    PROVE  \/ \E p \in PaymentIds : PaymentStep(p)
           \/ /\ UNCHANGED <<payments, bills>>
              /\ \/ \E i \in 1 .. Len(ledger) : ReverseTransaction(i)
                 \/ \E type \in {"income", "expense"}, amt \in ManualAmounts, loc \in AnyLocation :
                       CreateManualTransaction(type, amt, loc)
<1>1. ASSUME NEW p \in PaymentIds, ReverseApprovedPayment(p)
      PROVE  PaymentStep(p)
  <2>1. /\ \A q \in PaymentIds \ {p} : payments'[q] = payments[q]
        /\ payments'[p].status = "REVERSED" /\ payments'[p].alloc = payments[p].alloc
        /\ payments'[p].amount = payments[p].amount
        /\ payments'[p].submitted_by = payments[p].submitted_by
    BY <1>1 DEF ReverseApprovedPayment, TypeOK, PaymentRow
  <2> QED
    BY <1>1, <2>1 DEF ReverseApprovedPayment, PaymentStep, Withdrawn, SameClaim
<1> QED
  BY <1>1 DEF LedgerActions, ReverseTransaction, CreateManualTransaction

\* Steps about dues and bills touch neither payments nor ledger.
LEMMA OtherSteps ==
    ASSUME DueActions \/ ExpireVoluntaryDues \/ BillActions \/ UNCHANGED vars
    PROVE  UNCHANGED <<payments, ledger>> /\ wasVoluntary \subseteq wasVoluntary'
<1>1. CASE DueActions \/ ExpireVoluntaryDues \/ UNCHANGED vars
  BY <1>1 DEF vars, DueActions, UpdateDue, DeactivateDue, DeadlinePasses, ExpireVoluntaryDues
<1>2. CASE BillActions
  BY <1>2 DEF BillActions, GenerateBills, CreateBill, CancelBill, UpdateBillStatus,
              UpdateDuePeriodStatus, UpdateOccupancyDates, ListBills
<1> QED
  BY <1>1, <1>2

\* Money steps touch neither dues nor tenures.
LEMMA MoneyStepsSpare ==
    ASSUME RecordActions \/ VerifyActions \/ LedgerActions
    PROVE  UNCHANGED <<dues, tenure, wasVoluntary>>
<1>1. CASE RecordActions
  <2>1. PICK p \in PaymentIds, u \in Users :
           \/ \E b \in Bills, amt \in 1 .. MaxPay :
                 StaffPayBill(p, u, b, amt) \/ WargaPayBill(p, u, b, amt)
           \/ \E d \in Dues, amt \in 1 .. MaxPay : Donate(p, u, d, amt)
           \/ \E alloc \in Allocation :
                 StaffPayPeriods(p, u, alloc) \/ WargaPayPeriods(p, u, alloc)
    BY <1>1 DEF RecordActions
  <2> QED
    BY <2>1 DEF StaffPayBill, WargaPayBill, Donate, StaffPayPeriods, WargaPayPeriods
<1>2. CASE VerifyActions
  BY <1>2 DEF VerifyActions, RejectPayment, ApproveDonation, VerifySinglePayment,
              VerifyMultiPeriodPayment
<1>3. CASE LedgerActions
  BY <1>3 DEF LedgerActions, ReverseApprovedPayment, ReverseTransaction, CreateManualTransaction
<1> QED
  BY <1>1, <1>2, <1>3

-----------------------------------------------------------------------------
(* Unpaid bills. *)

\* What a payment covers has been issued.
CoveredIssued ==
    \A p \in PaymentIds, b \in Bills :
       payments[p].status # "none" /\ payments[p].alloc[b] > 0 => bills[b].status # "absent"

\* A bill that was issued stays.
LEMMA IssuedStays ==
    ASSUME TypeOK, [Next]_vars, NEW b \in Bills, bills[b].status # "absent"
    PROVE  bills'[b].status # "absent"
<1>1. bills[b] \in BillRow
  BY DEF TypeOK
<1>2. CASE bills' = bills
  BY <1>2
<1>3. CASE DueActions \/ ExpireVoluntaryDues \/ UNCHANGED vars
  BY <1>3 DEF DueActions, UpdateDue, DeactivateDue, DeadlinePasses, ExpireVoluntaryDues, vars
<1>4. CASE RecordActions \/ VerifyActions \/ LedgerActions
  BY <1>4, SettlesOrNot DEF Settles
<1>5. ASSUME NEW c \in Bills,
             CreateBill(c) \/ CancelBill(c) \/ \E x \in BOOLEAN : UpdateBillStatus(c, x)
      PROVE  bills'[b].status # "absent"
  <2>1. CASE CreateBill(c)
    BY <2>1 DEF CreateBill, BillCreate, Issued
  <2>2. CASE CancelBill(c)
    BY <1>1, <2>2 DEF CancelBill, TypeOK, BillRow
  <2>3. CASE \E x \in BOOLEAN : UpdateBillStatus(c, x)
    BY <1>1, <2>3 DEF UpdateBillStatus, TypeOK, BillRow
  <2> QED
    BY <1>5, <2>1, <2>2, <2>3
<1>6. ASSUME NEW d \in Dues, NEW t \in Periods,
             \/ \E occs \in SUBSET Occupancies : GenerateBills(d, t, occs)
             \/ \E x \in BOOLEAN : UpdateDuePeriodStatus(d, t, x)
      PROVE  bills'[b].status # "absent"
  BY <1>1, <1>6 DEF GenerateBills, BillCreate, UpdateDuePeriodStatus, BillRow
<1>7. ASSUME NEW o, NEW first, NEW last, NEW open, UpdateOccupancyDates(o, first, last, open)
      PROVE  bills'[b].status # "absent"
  <2>1. PICK span : bills' = Synced(RecomputedForUnpaid(o, span), {o}, tenure')
    BY <1>7 DEF UpdateOccupancyDates
  <2>2. /\ RecomputedForUnpaid(o, span) \in [Bills -> BillRow]
        /\ RecomputedForUnpaid(o, span)[b].status = bills[b].status
    BY RecomputedRow
  <2> QED
    BY <2>1, <2>2, SyncedOnlyIfOpen
<1>8. ASSUME NEW occs, ListBills(occs)
      PROVE  bills'[b].status # "absent"
  <2>1. bills' = Synced(bills, occs, tenure) /\ bills \in [Bills -> BillRow]
    BY <1>8 DEF ListBills, TypeOK
  <2> QED
    BY <2>1, SyncedOnlyIfOpen
<1> QED
  BY <1>3, <1>4, <1>5, <1>6, <1>7, <1>8 DEF Next, BillActions

\* Who pays a bill, decides on it or takes it back.
LEMMA PaymentSteps ==
    ASSUME TypeOK, [Next]_vars
    PROVE  payments' = payments \/ \E p \in PaymentIds : PaymentStep(p)
BY RecordSteps, VerifySteps, LedgerSteps, OtherSteps DEF Next

\* Every step keeps what a payment covers issued.
LEMMA CoveredStep ==
    ASSUME TypeOK, TypeOK', CoveredIssued, [Next]_vars
    PROVE  CoveredIssued'
<1> SUFFICES ASSUME NEW p \in PaymentIds, NEW b \in Bills,
                    payments'[p].status # "none", payments'[p].alloc[b] > 0
             PROVE  bills'[b].status # "absent"
  BY DEF CoveredIssued
<1>1. CASE payments'[p] = payments[p]
  BY <1>1, IssuedStays DEF CoveredIssued
<1>2. CASE payments'[p] # payments[p]
  <2>1. PaymentStep(p)
    BY <1>2, PaymentSteps DEF PaymentStep
  <2>2. CASE Entered(p)
    <3>1. b \in Covers(payments'[p].alloc)
      BY DEF Covers
    <3> QED
      BY <2>2, <3>1, IssuedStays DEF Entered
  <2>3. CASE Decided(p) \/ Withdrawn(p)
    <3>1. payments[p].status # "none" /\ payments[p].alloc[b] > 0
      BY <2>3 DEF Decided, Withdrawn, SameClaim
    <3> QED
      BY <3>1, IssuedStays DEF CoveredIssued
  <2> QED
    BY <2>1, <2>2, <2>3 DEF PaymentStep
<1> QED
  BY <1>1, <1>2

\* Unless money is taken back from it, a bill that a payment leaves unpaid was
\* unpaid before.
LEMMA BackToUnpaid ==
    ASSUME MoneyInv, MoneyInv', CoveredIssued, NEW b \in Bills,
           RecordActions \/ VerifyActions \/ LedgerActions,
           bills'[b] # bills[b], bills'[b].status = "unpaid",
           \A p \in PaymentIds : payments'[p].alloc[b] > 0 => payments'[p].status # "REVERSED"
    PROVE  bills[b].status = "unpaid"
<1> USE DEF MoneyInv
<1>1. bills[b] \in BillRow /\ bills \in [Bills -> BillRow]
  BY DEF TypeOK
<1>2. \A c, n : /\ SettledStatus(c, n) # "unpaid"
                /\ (IF Voluntary(c) THEN "paid" ELSE SettledStatus(c, n)) # "unpaid"
  BY DEF SettledStatus
<1>3. ASSUME NEW c, NEW n, bills' = [bills EXCEPT ![c].status =
                                        IF Voluntary(c) THEN "paid" ELSE SettledStatus(c, n)]
      PROVE  FALSE
  <2> DEFINE s == IF Voluntary(c) THEN "paid" ELSE SettledStatus(c, n)
  <2>1. s # "unpaid" /\ bills' = [bills EXCEPT ![c].status = s]
    BY <1>2, <1>3
  <2> HIDE DEF s
  <2> QED
    BY <1>1, <2>1 DEF BillRow
<1>4. ASSUME NEW alloc, bills' = SettleAll(alloc)
      PROVE  FALSE
  <2>1. PICK n : bills'[b] = [bills[b] EXCEPT !.status = SettledStatus(b, n)]
    BY <1>4 DEF SettleAll
  <2>2. bills'[b].status = SettledStatus(b, n)
    BY <1>1, <2>1 DEF BillRow
  <2> QED
    BY <1>2, <2>2
<1>5. ASSUME RecordActions
      PROVE  FALSE
  <2>1. PICK p \in PaymentIds, u \in Users :
           \/ \E c \in Bills, amt \in 1 .. MaxPay :
                 StaffPayBill(p, u, c, amt) \/ WargaPayBill(p, u, c, amt)
           \/ \E d \in Dues, amt \in 1 .. MaxPay : Donate(p, u, d, amt)
           \/ \E alloc \in Allocation :
                 StaffPayPeriods(p, u, alloc) \/ WargaPayPeriods(p, u, alloc)
    BY <1>5 DEF RecordActions
  <2>2. ASSUME NEW c, NEW amt, NEW d, NEW alloc,
               WargaPayBill(p, u, c, amt) \/ Donate(p, u, d, amt) \/ WargaPayPeriods(p, u, alloc)
        PROVE  FALSE
    BY <2>2 DEF WargaPayBill, Donate, WargaPayPeriods
  <2>3. ASSUME NEW c, NEW amt, StaffPayBill(p, u, c, amt)
        PROVE  FALSE
    BY <1>3, <2>3 DEF StaffPayBill
  <2>4. ASSUME NEW alloc, StaffPayPeriods(p, u, alloc)
        PROVE  FALSE
    BY <1>4, <2>4 DEF StaffPayPeriods
  <2> QED
    BY <2>1, <2>2, <2>3, <2>4
<1>6. PICK p \in PaymentIds :
         /\ bills' = ReconcileBills(payments', Covers(payments[p].alloc))
         /\ \/ payments[p].status = "PENDING" /\ \E v : payments' = PaymentVerify(p, v, "REJECTED")
            \/ /\ payments[p].status = "APPROVED"
               /\ payments' = [payments EXCEPT ![p].status = "REVERSED"]
  <2>1. CASE VerifyActions
    <3>1. PICK p \in PaymentIds, v \in Users :
             \/ RejectPayment(p, v)
             \/ \E loc \in AnyLocation : \/ ApproveDonation(p, v, loc)
                                         \/ VerifySinglePayment(p, v, loc)
                                         \/ VerifyMultiPeriodPayment(p, v, loc)
      BY <2>1 DEF VerifyActions
    <3>2. ASSUME NEW loc, ApproveDonation(p, v, loc)
          PROVE  FALSE
      BY <3>2 DEF ApproveDonation
    <3>3. ASSUME NEW loc, VerifySinglePayment(p, v, loc)
          PROVE  FALSE
      <4>1. PICK c, n : bills' = [bills EXCEPT ![c].status =
                                     IF Voluntary(c) THEN "paid" ELSE SettledStatus(c, n)]
        BY <3>3 DEF VerifySinglePayment
      <4> QED
        BY <1>3, <4>1
    <3>4. ASSUME NEW loc, VerifyMultiPeriodPayment(p, v, loc)
          PROVE  FALSE
      BY <1>4, <3>4 DEF VerifyMultiPeriodPayment
    <3>5. RejectPayment(p, v)
      BY <3>1, <3>2, <3>3, <3>4
    <3> QED
      BY <3>5 DEF RejectPayment, Verifiable
  <2>2. CASE LedgerActions
    BY <2>2 DEF LedgerActions, ReverseApprovedPayment, ReverseTransaction, CreateManualTransaction
  <2> QED
    BY <1>5, <2>1, <2>2
<1>7. b \in Covers(payments[p].alloc) /\ payments[p].alloc[b] > 0
  BY <1>6 DEF ReconcileBills, Covers
<1>8. bills[b].status # "absent"
  BY <1>6, <1>7 DEF CoveredIssued
<1>9. bills[b].status # "cancelled"
  <2>1. bills'[b] = Reconciled(bills[b], b, ApprovedIn(payments', b))
    BY <1>6, <1>7 DEF ReconcileBills
  <2>2. ASSUME bills[b].status = "cancelled"
        PROVE  bills'[b].status = "cancelled"
    BY <1>1, <2>1, <2>2 DEF Reconciled, BillRow
  <2> QED
    BY <2>2
<1>10. payments[p].status = "PENDING" /\ payments'[p].status = "REJECTED"
  <2>1. CASE payments' = [payments EXCEPT ![p].status = "REVERSED"]
    <3>1. payments'[p].status = "REVERSED" /\ payments'[p].alloc = payments[p].alloc
      BY <2>1 DEF TypeOK, PaymentRow
    <3> QED
      BY <1>7, <3>1
  <2>2. ASSUME NEW v, payments' = PaymentVerify(p, v, "REJECTED")
        PROVE  payments'[p].status = "REJECTED"
    BY <2>2, VerifyKeepsRow
  <2> QED
    BY <1>6, <2>1, <2>2
<1>11. ApprovedIn(payments', b) = ApprovedIn(payments, b)
  <2>1. PICK v : payments' = PaymentVerify(p, v, "REJECTED")
    <3>1. payments' = [payments EXCEPT ![p].status = "REVERSED"] => payments'[p].status = "REVERSED"
      BY DEF TypeOK, PaymentRow
    <3> QED
      BY <1>6, <1>10, <3>1
  <2>2. \A q \in PaymentIds \ {p} : payments'[q] = payments[q]
    BY <2>1, VerifyKeepsRow
  <2>3. payments[p].status # "APPROVED" /\ payments'[p].status # "APPROVED"
    BY <1>10
  <2> QED
    BY <2>2, <2>3, ApprovedKept
<1>12. bills[b].status \notin {"partial", "paid"}
  <2>1. StatusFits(b, bills'[b].status, ApprovedIn(payments', b))
    BY DEF StatusAgrees, StatusFits
  <2>2. StatusFits(b, bills[b].status, ApprovedIn(payments, b))
    BY DEF StatusAgrees
  <2> QED
    BY <1>11, <2>1, <2>2 DEF StatusFits
<1> QED
  BY <1>1, <1>8, <1>9, <1>12 DEF BillRow, BillStatuses

\* Reversed payments stay as they are.
LEMMA ReversedStays ==
    ASSUME TypeOK, [Next]_vars, NEW p \in PaymentIds, payments[p].status = "REVERSED"
    PROVE  payments'[p] = payments[p]
BY PaymentSteps DEF PaymentStep, Entered, Decided, Withdrawn

Clean(b) == \A p \in PaymentIds : payments[p].alloc[b] > 0 => payments[p].status # "REVERSED"
Follows(b) == bills[b].obligatory = (PeriodOf[b] \in tenure[OccOf[b]].span)

\* After a step about bills an unpaid one has the obligation of its tenure.
LEMMA BillStepsFollow ==
    ASSUME TypeOK, BillActions, NEW b \in Bills, bills'[b].status = "unpaid",
           bills[b].status = "unpaid" => Follows(b)
    PROVE  Follows(b)'
<1>1. bills[b] \in BillRow /\ OccOf[b] \in Occupancies
  BY BillColumns DEF TypeOK
<1>2. ASSUME bills'[b].obligatory = bills[b].obligatory, bills[b].status = "unpaid",
             tenure' = tenure
      PROVE  Follows(b)'
  BY <1>2 DEF Follows
<1>3. ASSUME NEW S, bills' = BillCreate(S), tenure' = tenure
      PROVE  Follows(b)'
  <2>1. CASE bills'[b] = bills[b]
    BY <1>2, <1>3, <2>1
  <2>2. CASE bills'[b] = [status |-> "unpaid", active |-> TRUE,
                          obligatory |-> PeriodOf[b] \in tenure[OccOf[b]].span]
    BY <1>3, <2>2 DEF Follows
  <2> QED
    BY <1>3, <2>1, <2>2 DEF BillCreate
<1>4. ASSUME NEW c \in Bills, CancelBill(c) \/ \E x \in BOOLEAN : UpdateBillStatus(c, x)
      PROVE  Follows(b)'
  <2>1. /\ bills'[b].obligatory = bills[b].obligatory /\ bills[b].status = "unpaid"
        /\ tenure' = tenure
    <3>1. CASE CancelBill(c)
      BY <1>1, <3>1 DEF CancelBill, TypeOK, BillRow
    <3>2. CASE \E x \in BOOLEAN : UpdateBillStatus(c, x)
      BY <1>1, <3>2 DEF UpdateBillStatus, TypeOK, BillRow
    <3> QED
      BY <1>4, <3>1, <3>2
  <2> QED
    BY <1>2, <2>1
<1>5. ASSUME NEW d, NEW t, NEW x \in BOOLEAN, UpdateDuePeriodStatus(d, t, x)
      PROVE  Follows(b)'
  <2>1. /\ bills'[b].obligatory = bills[b].obligatory /\ bills[b].status = "unpaid"
        /\ tenure' = tenure
    BY <1>1, <1>5 DEF UpdateDuePeriodStatus, BillRow
  <2> QED
    BY <1>2, <2>1
<1>6. ASSUME NEW bs \in [Bills -> BillRow], NEW occs, bills' = Synced(bs, occs, tenure'),
             bs[b].status = "unpaid" => bs[b].obligatory = (PeriodOf[b] \in tenure'[OccOf[b]].span)
      PROVE  Follows(b)'
  <2>1. CASE bills'[b] = bs[b]
    BY <1>6, <2>1 DEF Follows
  <2>2. CASE bills'[b].obligatory = (PeriodOf[b] \in tenure'[OccOf[b]].span)
    BY <2>2 DEF Follows
  <2> QED
    BY <1>6, <2>1, <2>2, SyncedRow
<1>7. ASSUME NEW o \in Occupancies, NEW first, NEW last, NEW open,
             UpdateOccupancyDates(o, first, last, open)
      PROVE  Follows(b)'
  <2>1. PICK span : /\ bills' = Synced(RecomputedForUnpaid(o, span), {o}, tenure')
                    /\ tenure' = [tenure EXCEPT ![o] = [span |-> span, open |-> open]]
    BY <1>7 DEF UpdateOccupancyDates
  <2> DEFINE bs == RecomputedForUnpaid(o, span)
  <2>2. /\ bs \in [Bills -> BillRow] /\ bs[b].status = bills[b].status
        /\ OccOf[b] = o /\ bills[b].status = "unpaid" => bs[b].obligatory = (PeriodOf[b] \in span)
        /\ OccOf[b] # o => bs[b] = bills[b]
    BY RecomputedRow
  <2> HIDE DEF bs
  <2>3. tenure'[o].span = span /\ (OccOf[b] # o => tenure'[OccOf[b]] = tenure[OccOf[b]])
    BY <1>1, <2>1 DEF TypeOK
  <2>4. bs[b].status = "unpaid" => bs[b].obligatory = (PeriodOf[b] \in tenure'[OccOf[b]].span)
    <3>1. CASE OccOf[b] = o
      BY <2>2, <2>3, <3>1
    <3>2. CASE OccOf[b] # o
      BY <2>2, <2>3, <3>2 DEF Follows
    <3> QED
      BY <3>1, <3>2
  <2>5. bills' = Synced(bs, {o}, tenure')
    BY <2>1 DEF bs
  <2> QED
    BY <1>6, <2>2, <2>4, <2>5
<1>8. ASSUME NEW occs, ListBills(occs)
      PROVE  Follows(b)'
  <2>1. bills' = Synced(bills, occs, tenure') /\ bills \in [Bills -> BillRow] /\ tenure' = tenure
    BY <1>8 DEF ListBills, TypeOK
  <2> QED
    BY <1>6, <2>1 DEF Follows
<1> QED
  BY <1>3, <1>4, <1>5, <1>7, <1>8 DEF BillActions, GenerateBills, CreateBill

\* Every step keeps unpaid bills following the tenure.
LEMMA UnpaidStep ==
    ASSUME MoneyInv, MoneyInv', CoveredIssued, UnpaidFollowsTenure, [Next]_vars
    PROVE  UnpaidFollowsTenure'
<1> SUFFICES ASSUME NEW b \in Bills, bills'[b].status = "unpaid", Clean(b)'
             PROVE  Follows(b)'
  BY DEF UnpaidFollowsTenure, Clean, Follows
<1>1. Clean(b)
  BY ReversedStays DEF MoneyInv, Clean
<1>2. bills[b].status = "unpaid" => Follows(b)
  BY <1>1 DEF UnpaidFollowsTenure, Clean, Follows
<1>3. CASE DueActions \/ ExpireVoluntaryDues \/ UNCHANGED vars
  <2>1. UNCHANGED <<bills, tenure>>
    BY <1>3 DEF vars, DueActions, UpdateDue, DeactivateDue, DeadlinePasses, ExpireVoluntaryDues
  <2> QED
    BY <1>2, <2>1 DEF Follows
<1>4. CASE BillActions
  BY <1>2, <1>4, BillStepsFollow DEF MoneyInv
<1>5. CASE RecordActions \/ VerifyActions \/ LedgerActions
  <2>1. tenure' = tenure
    BY <1>5, MoneyStepsSpare
  <2>2. CASE bills'[b] = bills[b]
    BY <1>2, <2>1, <2>2 DEF Follows
  <2>3. CASE bills'[b] # bills[b]
    <3>1. bills[b].status = "unpaid"
      BY <1>5, <2>3, BackToUnpaid DEF Clean
    <3>2. bills'[b].obligatory = bills[b].obligatory
      <4>1. Settles(b) /\ bills[b] \in BillRow
        BY <1>5, <2>3, SettlesOrNot DEF MoneyInv, TypeOK
      <4> QED
        BY <4>1 DEF Settles, BillRow
    <3> QED
      BY <1>2, <2>1, <3>1, <3>2 DEF Follows
  <2> QED
    BY <2>2, <2>3
<1> QED
  BY <1>3, <1>4, <1>5 DEF Next

\* No bill is unpaid at the start.
LEMMA InitUnpaid == Init => CoveredIssued /\ UnpaidFollowsTenure
<1> SUFFICES ASSUME Init
             PROVE  CoveredIssued /\ UnpaidFollowsTenure
  OBVIOUS
<1>1. \A p \in PaymentIds : payments[p].status = "none"
  BY DEF Init, NewPayment
<1>2. \A b \in Bills : bills[b].status = "absent"
  BY DEF Init
<1> QED
  BY <1>1, <1>2 DEF CoveredIssued, UnpaidFollowsTenure

\* Date edits, generation, the synchronisation and the list keep the obligation
\* of every unpaid bill in step with the tenure, unless a reversal made it
\* unpaid: the dates may have changed while it was partial or paid.
THEOREM UnpaidFollows == Spec => []UnpaidFollowsTenure
<1> DEFINE Inv == MoneyInv /\ CoveredIssued /\ UnpaidFollowsTenure
<1>1. Init => Inv
  BY InitMoney, InitUnpaid
<1>2. Inv /\ [Next]_vars => Inv'
  BY StepMoney, CoveredStep, UnpaidStep DEF MoneyInv
<1>3. Inv => UnpaidFollowsTenure
  OBVIOUS
<1> QED
  BY <1>1, <1>2, <1>3, PTL DEF Spec

-----------------------------------------------------------------------------
(* What residents reserve. *)

\* The units of bill b that residents have asked to pay or have paid.
SelfUnits(ps, b) ==
    {u \in PaymentIds \X (1 .. MaxPay) :
        /\ ps[u[1]].status \in {"PENDING", "APPROVED"}
        /\ ps[u[1]].submitted_by \in Warga \ Staff
        /\ u[2] <= ps[u[1]].alloc[b]}

\* Residents' units on a bill are among the approved and pending ones.
LEMMA SelfUnitsBound ==
    ASSUME NEW b
    PROVE  /\ IsFiniteSet(SelfUnits(payments, b)) /\ Cardinality(SelfUnits(payments, b)) \in Nat
           /\ Cardinality(SelfUnits(payments, b))
                 <= GetApprovedPaymentTotal(b) + GetPendingPaymentTotal(b)
<1> DEFINE A == Units(payments, b, "APPROVED")
           P == Units(payments, b, "PENDING")
<1>1. IsFiniteSet(A) /\ IsFiniteSet(P) /\ IsFiniteSet(A \cup P)
  BY UnitsFinite, FS_Union
<1>2. SelfUnits(payments, b) \subseteq A \cup P
  BY DEF SelfUnits, Units
<1>3. /\ Cardinality(A) \in Nat /\ Cardinality(P) \in Nat
      /\ Cardinality(A \cup P) = Cardinality(A) + Cardinality(P) - Cardinality(A \cap P)
      /\ Cardinality(A \cap P) \in Nat
  <2>1. IsFiniteSet(A \cap P)
    BY <1>1, FS_Intersection
  <2> QED
    BY <1>1, <2>1, FS_Union, FS_CardinalityType
<1>4. /\ IsFiniteSet(SelfUnits(payments, b)) /\ Cardinality(SelfUnits(payments, b)) \in Nat
      /\ Cardinality(SelfUnits(payments, b)) <= Cardinality(A \cup P)
  BY <1>1, <1>2, FS_Subset, FS_CardinalityType
<1>5. Cardinality(A) = GetApprovedPaymentTotal(b) /\ Cardinality(P) = GetPendingPaymentTotal(b)
  BY DEF GetApprovedPaymentTotal, ApprovedIn, GetPendingPaymentTotal
<1> HIDE DEF A, P
<1> QED
  BY <1>3, <1>4, <1>5

\* Adding a resident's new payment of n units of b.
LEMMA SelfUnitsAdded ==
    ASSUME NEW p \in PaymentIds, NEW b \in Bills,
           \A q \in PaymentIds \ {p} : payments'[q] = payments[q],
           payments[p].status = "none", payments'[p].alloc[b] \in 0 .. MaxPay
    PROVE  Cardinality(SelfUnits(payments', b))
              <= Cardinality(SelfUnits(payments, b)) + payments'[p].alloc[b]
<1> DEFINE n == payments'[p].alloc[b]
           new == {p} \X (1 .. n)
           old == SelfUnits(payments, b)
<1>1. n \in Nat
  BY Bounds
<1>2. SelfUnits(payments', b) \subseteq old \cup new
  BY <1>1, Bounds DEF SelfUnits
<1>3. IsFiniteSet({p}) /\ Cardinality({p}) = 1
  BY FS_Singleton
<1>4. IsFiniteSet(1 .. n) /\ Cardinality(1 .. n) = n
  <2> HIDE DEF n
  <2>1. Cardinality(1 .. n) = IF 1 > n THEN 0 ELSE n - 1 + 1
    BY <1>1, FS_Interval
  <2>2. IsFiniteSet(1 .. n)
    BY <1>1, FS_Interval
  <2>3. Cardinality(1 .. n) = n
    BY <1>1, <2>1
  <2> QED
    BY <2>2, <2>3
<1>5. IsFiniteSet(new) /\ Cardinality(new) = Cardinality({p}) * Cardinality(1 .. n)
  BY <1>3, <1>4, FS_Product
<1>6. Cardinality(new) = n
  BY <1>1, <1>3, <1>4, <1>5
<1>7. IsFiniteSet(old) /\ Cardinality(old) \in Nat
  BY SelfUnitsBound
<1>8. /\ IsFiniteSet(old \cup new) /\ Cardinality(old \cap new) \in Nat
      /\ Cardinality(old \cup new) = Cardinality(old) + Cardinality(new) - Cardinality(old \cap new)
  <2>1. IsFiniteSet(old \cap new)
    BY <1>7, FS_Intersection
  <2> QED
    BY <1>5, <1>7, <2>1, FS_Union, FS_CardinalityType
<1>9. /\ Cardinality(SelfUnits(payments', b)) <= Cardinality(old \cup new)
      /\ Cardinality(SelfUnits(payments', b)) \in Nat
  BY <1>2, <1>8, FS_Subset, FS_CardinalityType
<1> HIDE DEF n, new, old
<1>10. Cardinality(SelfUnits(payments', b)) <= Cardinality(old) + n
  BY <1>1, <1>6, <1>7, <1>8, <1>9
<1> QED
  BY <1>10 DEF old, n

\* Every step keeps residents' reservations within the bill.
LEMMA SelfStep ==
    ASSUME MoneyInv, TypeOK', SelfReservationsFit, [Next]_vars
    PROVE  SelfReservationsFit'
<1> SUFFICES ASSUME NEW b \in Bills, DueOf[b] \notin wasVoluntary'
             PROVE  Cardinality(SelfUnits(payments', b)) <= Amount[b]
  BY DEF SelfReservationsFit, SelfUnits
<1>1. DueOf[b] \notin wasVoluntary
  BY OtherSteps, MoneyStepsSpare DEF Next
<1>2. Cardinality(SelfUnits(payments, b)) <= Amount[b]
  BY <1>1 DEF SelfReservationsFit, SelfUnits
<1>3. CASE payments' = payments
  BY <1>2, <1>3 DEF SelfUnits
<1>4. ASSUME NEW p \in PaymentIds, PaymentStep(p)
      PROVE  Cardinality(SelfUnits(payments', b)) <= Amount[b]
  <2>1. \A q \in PaymentIds \ {p} : payments'[q] = payments[q]
    BY <1>4 DEF PaymentStep
  <2>2. ASSUME SelfUnits(payments', b) \subseteq SelfUnits(payments, b)
        PROVE  Cardinality(SelfUnits(payments', b)) <= Amount[b]
    <3>1. IsFiniteSet(SelfUnits(payments, b)) /\ Cardinality(SelfUnits(payments, b)) \in Nat
      BY SelfUnitsBound
    <3>2. /\ Cardinality(SelfUnits(payments', b)) <= Cardinality(SelfUnits(payments, b))
          /\ Cardinality(SelfUnits(payments', b)) \in Nat
      BY <2>2, <3>1, FS_Subset, FS_CardinalityType
    <3> QED
      BY <1>2, <3>1, <3>2, BillColumns
  <2>3. CASE Decided(p) \/ Withdrawn(p)
    <3>1. /\ payments[p].status \in {"PENDING", "APPROVED"}
          /\ payments'[p].alloc = payments[p].alloc
          /\ payments'[p].submitted_by = payments[p].submitted_by
      BY <2>3 DEF Decided, Withdrawn, SameClaim
    <3>2. SelfUnits(payments', b) \subseteq SelfUnits(payments, b)
      BY <2>1, <3>1 DEF SelfUnits
    <3> QED
      BY <2>2, <3>2
  <2>4. CASE Entered(p)
    <3>1. payments'[p].alloc[b] \in 0 .. MaxPay
      BY DEF TypeOK, PaymentRow, Allocation
    <3>2. CASE payments'[p].submitted_by \notin Warga \ Staff \/ payments'[p].alloc[b] = 0
      <4>1. \A k \in 1 .. MaxPay : ~(k <= 0)
        BY Bounds
      <4>2. SelfUnits(payments', b) \subseteq SelfUnits(payments, b)
        BY <2>1, <3>2, <4>1 DEF SelfUnits
      <4> QED
        BY <2>2, <4>2
    <3>3. CASE payments'[p].submitted_by \in Warga \ Staff /\ payments'[p].alloc[b] # 0
      <4>1. b \in Covers(payments'[p].alloc)
        BY <3>1, <3>3, Bounds DEF Covers
      <4>2. ~Voluntary(b)
        BY <1>1, BillColumns DEF MoneyInv, VoluntaryRemembered, Voluntary
      <4>3. payments'[p].alloc[b] <= Amount[b] - GetApprovedPaymentTotal(b)
                                               - GetPendingPaymentTotal(b)
        BY <2>4, <3>3, <4>1, <4>2 DEF Entered
      <4>4. Cardinality(SelfUnits(payments', b))
               <= Cardinality(SelfUnits(payments, b)) + payments'[p].alloc[b]
        BY <2>1, <2>4, <3>1, SelfUnitsAdded DEF Entered
      <4>5. /\ GetApprovedPaymentTotal(b) \in Nat /\ GetPendingPaymentTotal(b) \in Nat
            /\ payments'[p].alloc[b] \in Nat /\ Amount[b] \in Nat
        BY <3>1, Bounds, BillColumns, UnitsFinite, FS_CardinalityType
           DEF GetApprovedPaymentTotal, ApprovedIn, GetPendingPaymentTotal
      <4>6. Cardinality(SelfUnits(payments', b)) \in Nat
        <5>1. SelfUnits(payments', b) \subseteq PaymentIds \X (1 .. MaxPay)
          BY DEF SelfUnits
        <5>2. IsFiniteSet(PaymentIds \X (1 .. MaxPay))
          <6>1. IsFiniteSet(1 .. MaxPay)
            BY Bounds, FS_Interval
          <6> QED
            BY <6>1, FiniteRows, FS_Product
        <5> QED
          BY <5>1, <5>2, FS_Subset, FS_CardinalityType
      <4> QED
        BY <4>3, <4>4, <4>5, <4>6, SelfUnitsBound
    <3> QED
      BY <3>2, <3>3
  <2> QED
    BY <1>4, <2>3, <2>4 DEF PaymentStep
<1> QED
  BY <1>3, <1>4, PaymentSteps DEF MoneyInv

\* Residents never get more submitted and approved than a bill asks for: a
\* submission is checked against approved and pending payments together, and
\* staff entries, decisions and reversals only leave more room.
THEOREM ReservationsFit == Spec => []SelfReservationsFit
<1>1. Init => SelfReservationsFit
  <2> SUFFICES ASSUME Init, NEW b \in Bills
               PROVE  Cardinality(SelfUnits(payments, b)) <= Amount[b]
    BY DEF SelfReservationsFit, SelfUnits
  <2>1. SelfUnits(payments, b) = {}
    BY DEF Init, NewPayment, SelfUnits
  <2> QED
    BY <2>1, FS_EmptySet, BillColumns
<1>2. MoneyInv /\ SelfReservationsFit /\ [Next]_vars => SelfReservationsFit'
  BY SelfStep, StepType DEF MoneyInv
<1> QED
  BY <1>1, <1>2, MoneyInvariant, PTL DEF Spec

-----------------------------------------------------------------------------
(* What is posted for a payment. *)

Rows(p, note) == {i \in 1 .. Len(ledger) : ledger[i].payment = p /\ ledger[i].note = note}

\* Only the rows posted for payments look like the income of a payment.
LedgerShape ==
    \A i \in 1 .. Len(ledger) :
       ledger[i].note # "payment" => ledger[i].payment = NoPayment \/ ledger[i].reverses # 0

OneIncome(p) ==
    /\ Cardinality(Rows(p, "payment")) =
          IF payments[p].status \in {"APPROVED", "REVERSED"} THEN 1 ELSE 0
    /\ Cardinality(Rows(p, "payment_reversal")) =
          IF payments[p].status = "REVERSED" THEN 1 ELSE 0
    /\ \A i \in Rows(p, "payment") : ledger[i].amount = payments[p].amount
    /\ \A i \in Rows(p, "payment_reversal") : /\ ledger[i].amount = payments[p].amount
                                              /\ ledger[i].reverses \in Rows(p, "payment")

\* The property speaks of each payment by itself.
LEMMA OneIncomeIs == OneIncomePerPayment <=> \A p \in PaymentIds : OneIncome(p)
BY DEF OneIncomePerPayment, OneIncome, Rows

\* The rows posted for a payment are finite.
LEMMA RowsFinite ==
    ASSUME TypeOK, NEW p, NEW note
    PROVE  IsFiniteSet(Rows(p, note)) /\ Cardinality(Rows(p, note)) \in Nat
<1>1. IsFiniteSet(1 .. Len(ledger))
  BY FS_Interval DEF TypeOK
<1> QED
  BY <1>1, FS_Subset, FS_CardinalityType DEF Rows

\* A posting adds one row, at the end.
LEMMA Posted ==
    ASSUME TypeOK, NEW type, NEW amt, NEW q, NEW r, NEW loc, NEW n,
           TransactionCreate(type, amt, q, r, loc, n)
    PROVE  /\ Len(ledger) \in Nat /\ Len(ledger') = Len(ledger) + 1
           /\ \A i \in 1 .. Len(ledger) : ledger'[i] = ledger[i]
           /\ ledger'[Len(ledger) + 1] = [type |-> type, amount |-> amt, payment |-> q,
                                         reverses |-> r, location |-> loc, note |-> n]
           /\ ledger'[Len(ledger) + 1].amount = amt
           /\ ledger'[Len(ledger) + 1].payment = q
           /\ ledger'[Len(ledger) + 1].reverses = r
           /\ ledger'[Len(ledger) + 1].note = n
<1>1. /\ Len(ledger) \in Nat /\ Len(ledger') = Len(ledger) + 1
      /\ \A i \in 1 .. Len(ledger) : ledger'[i] = ledger[i]
      /\ ledger'[Len(ledger) + 1] = [type |-> type, amount |-> amt, payment |-> q,
                                    reverses |-> r, location |-> loc, note |-> n]
  BY DEF TransactionCreate, TypeOK
<1> QED
  BY <1>1

\* A posting adds its row to those of its payment and note, and to no others.
LEMMA PostedRows ==
    ASSUME TypeOK, NEW type, NEW amt, NEW q, NEW r, NEW loc, NEW n,
           TransactionCreate(type, amt, q, r, loc, n), NEW p, NEW note
    PROVE  /\ p = q /\ note = n => Rows(p, note)' = Rows(p, note) \cup {Len(ledger) + 1}
           /\ p # q \/ note # n => Rows(p, note)' = Rows(p, note)
           /\ Len(ledger) + 1 \notin Rows(p, note)
<1>1. /\ Len(ledger) \in Nat /\ Len(ledger') = Len(ledger) + 1
      /\ \A i \in 1 .. Len(ledger) : ledger'[i] = ledger[i]
      /\ ledger'[Len(ledger) + 1].payment = q /\ ledger'[Len(ledger) + 1].note = n
  BY Posted
<1>2. 1 .. Len(ledger') = (1 .. Len(ledger)) \cup {Len(ledger) + 1}
  BY <1>1
<1>3. Len(ledger) + 1 \notin 1 .. Len(ledger)
  BY <1>1
<1> QED
  BY <1>1, <1>2, <1>3 DEF Rows

\* And their number grows by one.
LEMMA OneMoreRow ==
    ASSUME TypeOK, NEW type, NEW amt, NEW q, NEW r, NEW loc, NEW n,
           TransactionCreate(type, amt, q, r, loc, n)
    PROVE  Cardinality(Rows(q, n)') = Cardinality(Rows(q, n)) + 1
<1>1. Rows(q, n)' = Rows(q, n) \cup {Len(ledger) + 1} /\ Len(ledger) + 1 \notin Rows(q, n)
  BY PostedRows
<1>2. IsFiniteSet(Rows(q, n))
  BY RowsFinite
<1> QED
  BY <1>1, <1>2, FS_AddElement

\* A payment that no posting is about keeps its rows.
LEMMA OneIncomeKept ==
    ASSUME TypeOK, NEW p, OneIncome(p),
           payments'[p].amount = payments[p].amount \/ payments[p].status = "none",
           payments'[p].status = payments[p].status
           \/ {payments[p].status, payments'[p].status} \cap {"APPROVED", "REVERSED"} = {},
           Rows(p, "payment")' = Rows(p, "payment"),
           Rows(p, "payment_reversal")' = Rows(p, "payment_reversal"),
           \A i \in 1 .. Len(ledger) : ledger'[i] = ledger[i]
    PROVE  OneIncome(p)'
<1>1. \A note : Rows(p, note) \subseteq 1 .. Len(ledger)
  BY DEF Rows
<1>2. /\ Cardinality(Rows(p, "payment")') = Cardinality(Rows(p, "payment"))
      /\ Cardinality(Rows(p, "payment_reversal")') = Cardinality(Rows(p, "payment_reversal"))
  OBVIOUS
<1>3. CASE payments'[p].amount = payments[p].amount
  BY <1>1, <1>2, <1>3 DEF OneIncome
<1>4. CASE payments[p].status = "none"
  <2>1. \A note : IsFiniteSet(Rows(p, note))
    BY RowsFinite
  <2>2. Rows(p, "payment") = {} /\ Rows(p, "payment_reversal") = {}
    BY <1>4, <2>1, FS_EmptySet DEF OneIncome
  <2>3. payments'[p].status \notin {"APPROVED", "REVERSED"}
    BY <1>4
  <2> QED
    BY <1>2, <1>4, <2>2, <2>3 DEF OneIncome
<1> QED
  BY <1>3, <1>4

\* The shape of the ledger after a posting.
LEMMA PostedShape ==
    ASSUME TypeOK, LedgerShape, NEW type, NEW amt, NEW q, NEW r, NEW loc, NEW n,
           TransactionCreate(type, amt, q, r, loc, n),
           n = "payment" \/ q = NoPayment \/ r # 0
    PROVE  LedgerShape'
<1>1. /\ Len(ledger) \in Nat /\ Len(ledger') = Len(ledger) + 1
      /\ \A i \in 1 .. Len(ledger) : ledger'[i] = ledger[i]
      /\ ledger'[Len(ledger) + 1].payment = q /\ ledger'[Len(ledger) + 1].note = n
      /\ ledger'[Len(ledger) + 1].reverses = r
  BY Posted
<1>2. 1 .. Len(ledger') = (1 .. Len(ledger)) \cup {Len(ledger) + 1}
  BY <1>1
<1> QED
  BY <1>1, <1>2 DEF LedgerShape

\* A payment becomes approved, and its income is posted.
LEMMA IncomeStep ==
    ASSUME TypeOK, OneIncomePerPayment, LedgerShape, NEW p \in PaymentIds,
           \A q \in PaymentIds \ {p} : payments'[q] = payments[q],
           payments[p].status \in {"none", "PENDING"}, payments'[p].status = "APPROVED",
           Posts(p)
    PROVE  OneIncomePerPayment' /\ LedgerShape'
<1>1. PICK loc : TransactionCreate("income", payments'[p].amount, p, 0, loc, "payment")
  BY DEF Posts, PostPaymentIncome
<1>2. LedgerShape'
  BY <1>1, PostedShape
<1>3. ASSUME NEW q \in PaymentIds \ {p}
      PROVE  OneIncome(q)'
  <2>1. \A note : Rows(q, note)' = Rows(q, note)
    BY <1>1, PostedRows
  <2>2. \A i \in 1 .. Len(ledger) : ledger'[i] = ledger[i]
    BY <1>1, Posted
  <2>3. OneIncome(q)
    BY OneIncomeIs
  <2> QED
    BY <2>1, <2>2, <2>3, OneIncomeKept
<1>4. OneIncome(p)'
  <2>1. /\ Cardinality(Rows(p, "payment")) = 0 /\ Cardinality(Rows(p, "payment_reversal")) = 0
    BY OneIncomeIs DEF OneIncome
  <2>2. Rows(p, "payment") = {} /\ Rows(p, "payment_reversal") = {}
    BY <2>1, RowsFinite, FS_EmptySet
  <2>3. /\ Rows(p, "payment")' = {Len(ledger) + 1} /\ Rows(p, "payment_reversal")' = {}
        /\ Cardinality(Rows(p, "payment")') = 1
    BY <1>1, <2>1, <2>2, PostedRows, OneMoreRow
  <2>4. Cardinality(Rows(p, "payment_reversal")') = 0
    BY <2>3, FS_EmptySet
  <2>5. ledger'[Len(ledger) + 1].amount = payments'[p].amount
    BY <1>1, Posted
  <2> QED
    BY <2>3, <2>4, <2>5 DEF OneIncome
<1>5. \A q \in PaymentIds : OneIncome(q)'
  BY <1>3, <1>4
<1>6. OneIncomePerPayment'
  BY <1>5 DEF OneIncomePerPayment, OneIncome, Rows
<1> QED
  BY <1>2, <1>6

-----------------------------------------------------------------------------
(* The steps, and the theorem. *)

\* Nothing is posted, and no payment starts or stops being recognised.
LEMMA NothingPosted ==
    ASSUME TypeOK, OneIncomePerPayment, LedgerShape, ledger' = ledger,
           \A q \in PaymentIds :
              \/ payments'[q] = payments[q]
              \/ /\ payments[q].status = "none" \/ payments'[q].amount = payments[q].amount
                 /\ payments[q].status \in {"none", "PENDING"}
                 /\ payments'[q].status \in {"PENDING", "REJECTED"}
    PROVE  OneIncomePerPayment' /\ LedgerShape'
<1>1. ASSUME NEW q \in PaymentIds
      PROVE  OneIncome(q)'
  <2>1. \A note : Rows(q, note)' = Rows(q, note)
    BY DEF Rows
  <2>2. OneIncome(q)
    BY OneIncomeIs
  <2> QED
    BY <2>1, <2>2, OneIncomeKept
<1> QED
  BY <1>1 DEF OneIncomePerPayment, OneIncome, Rows, LedgerShape

\* A row that belongs to no payment, or reverses one by hand, is posted.
LEMMA HandStep ==
    ASSUME TypeOK, OneIncomePerPayment, LedgerShape, payments' = payments,
           NEW type, NEW amt, NEW q, NEW r, NEW loc, NEW n,
           TransactionCreate(type, amt, q, r, loc, n),
           n \in {"manual", "hand_reversal"}, q = NoPayment \/ r # 0
    PROVE  OneIncomePerPayment' /\ LedgerShape'
<1>1. LedgerShape'
  BY PostedShape
<1>2. ASSUME NEW p \in PaymentIds
      PROVE  OneIncome(p)'
  <2>1. /\ Rows(p, "payment")' = Rows(p, "payment")
        /\ Rows(p, "payment_reversal")' = Rows(p, "payment_reversal")
    BY PostedRows
  <2>2. \A i \in 1 .. Len(ledger) : ledger'[i] = ledger[i]
    BY Posted
  <2>3. OneIncome(p)
    BY OneIncomeIs
  <2> QED
    BY <2>1, <2>2, <2>3, OneIncomeKept
<1> QED
  BY <1>1, <1>2 DEF OneIncomePerPayment, OneIncome, Rows

\* An approved payment is withdrawn: one more row compensates its income.
LEMMA WithdrawStep ==
    ASSUME TypeOK, OneIncomePerPayment, LedgerShape, NEW p \in PaymentIds,
           \A q \in PaymentIds \ {p} : payments'[q] = payments[q], Withdrawn(p)
    PROVE  OneIncomePerPayment' /\ LedgerShape'
<1>1. PICK i \in 1 .. Len(ledger) :
         /\ OriginalIncome(i, p)
         /\ TransactionCreate("expense", payments[p].amount, p, i, ledger[i].location,
                              "payment_reversal")
  BY DEF Withdrawn
<1>2. /\ payments[p].status = "APPROVED" /\ payments'[p].status = "REVERSED"
      /\ payments'[p].amount = payments[p].amount
  BY DEF Withdrawn, SameClaim
<1>3. /\ Len(ledger) \in Nat
      /\ \A j \in 1 .. Len(ledger) : ledger'[j] = ledger[j]
      /\ ledger'[Len(ledger) + 1].amount = payments[p].amount
      /\ ledger'[Len(ledger) + 1].reverses = i
  <2>1. PICK amt, loc : /\ amt = payments[p].amount
                        /\ TransactionCreate("expense", amt, p, i, loc, "payment_reversal")
    BY <1>1
  <2>2. /\ Len(ledger) \in Nat /\ Len(ledger') = Len(ledger) + 1
        /\ \A j \in 1 .. Len(ledger) : ledger'[j] = ledger[j]
        /\ ledger'[Len(ledger) + 1] =
              [type |-> "expense", amount |-> amt, payment |-> p, reverses |-> i,
               location |-> loc, note |-> "payment_reversal"]
    BY <2>1 DEF TransactionCreate, TypeOK
  <2>3. ledger'[Len(ledger) + 1].amount = amt /\ ledger'[Len(ledger) + 1].reverses = i
    BY <2>2
  <2> QED
    BY <2>1, <2>2, <2>3
<1>4. i # 0
  BY <1>3
<1>5. LedgerShape'
  BY <1>1, <1>4, PostedShape
<1>6. i \in Rows(p, "payment")
  BY <1>1, NullRows DEF OriginalIncome, PaymentIncomeRow, LedgerShape, Rows
<1>7. ASSUME NEW q \in PaymentIds \ {p}
      PROVE  OneIncome(q)'
  <2>1. /\ Rows(q, "payment")' = Rows(q, "payment")
        /\ Rows(q, "payment_reversal")' = Rows(q, "payment_reversal")
    BY <1>1, PostedRows
  <2>2. OneIncome(q)
    BY OneIncomeIs
  <2> QED
    BY <1>3, <2>1, <2>2, OneIncomeKept
<1>8. OneIncome(p)'
  <2>1. OneIncome(p)
    BY OneIncomeIs
  <2>2. /\ Cardinality(Rows(p, "payment")) = 1
        /\ Cardinality(Rows(p, "payment_reversal")) = 0
    BY <1>2, <2>1 DEF OneIncome
  <2>3. Rows(p, "payment_reversal") = {}
    BY <2>2, RowsFinite, FS_EmptySet
  <2>4. /\ Rows(p, "payment")' = Rows(p, "payment")
        /\ Rows(p, "payment_reversal")' = {Len(ledger) + 1}
        /\ Cardinality(Rows(p, "payment_reversal")') = 1
    BY <1>1, <2>2, <2>3, PostedRows, OneMoreRow
  <2>5. \A j \in Rows(p, "payment")' : ledger'[j].amount = payments'[p].amount
    BY <1>2, <1>3, <2>1, <2>4 DEF OneIncome, Rows
  <2>6. \A j \in Rows(p, "payment_reversal")' : /\ ledger'[j].amount = payments'[p].amount
                                                /\ ledger'[j].reverses \in Rows(p, "payment")'
    BY <1>2, <1>3, <1>6, <2>4
  <2>7. Cardinality(Rows(p, "payment")') = 1
    BY <2>2, <2>4
  <2> QED
    BY <1>2, <2>4, <2>5, <2>6, <2>7 DEF OneIncome
<1>9. \A q \in PaymentIds : OneIncome(q)'
  BY <1>7, <1>8
<1> QED
  BY <1>5, <1>9 DEF OneIncomePerPayment, OneIncome, Rows

\* A step of a payment posts exactly what its new status calls for.
LEMMA PostedStep ==
    ASSUME TypeOK, OneIncomePerPayment, LedgerShape, NEW p \in PaymentIds, PaymentStep(p)
    PROVE  OneIncomePerPayment' /\ LedgerShape'
<1>1. CASE Withdrawn(p)
  BY <1>1, WithdrawStep DEF PaymentStep
<1>2. CASE (Entered(p) \/ Decided(p)) /\ payments'[p].status = "APPROVED"
  <2>1. payments[p].status \in {"none", "PENDING"} /\ Posts(p)
    BY <1>2 DEF Entered, Decided, PostsIfApproved
  <2> QED
    BY <1>2, <2>1, IncomeStep DEF PaymentStep
<1>3. CASE (Entered(p) \/ Decided(p)) /\ payments'[p].status # "APPROVED"
  <2>1. ledger' = ledger
    BY <1>3 DEF Entered, Decided, PostsIfApproved
  <2>2. /\ payments[p].status = "none" \/ payments'[p].amount = payments[p].amount
        /\ payments[p].status \in {"none", "PENDING"}
        /\ payments'[p].status \in {"PENDING", "REJECTED"}
    BY <1>3 DEF Entered, Decided, SameClaim
  <2>3. \A q \in PaymentIds : payments'[q] = payments[q] \/ q = p
    BY DEF PaymentStep
  <2> QED
    BY <2>1, <2>2, <2>3, NothingPosted
<1> QED
  BY <1>1, <1>2, <1>3 DEF PaymentStep

\* So do reversals, and rows posted by hand count for no payment.
LEMMA LedgerStepsPost ==
    ASSUME TypeOK, OneIncomePerPayment, LedgerShape, LedgerActions
    PROVE  OneIncomePerPayment' /\ LedgerShape'
<1>1. CASE \E p \in PaymentIds : PaymentStep(p)
  BY <1>1, PostedStep
<1>2. ASSUME NEW i \in 1 .. Len(ledger), ReverseTransaction(i)
      PROVE  OneIncomePerPayment' /\ LedgerShape'
  <2>1. i # 0
    OBVIOUS
  <2>2. /\ payments' = payments
        /\ TransactionCreate(IF ledger[i].type = "income" THEN "expense" ELSE "income",
                             ledger[i].amount, ledger[i].payment, i, ledger[i].location,
                             "hand_reversal")
    BY <1>2 DEF ReverseTransaction
  <2> QED
    BY <2>1, <2>2, HandStep
<1>3. ASSUME NEW type, NEW amt, NEW loc, CreateManualTransaction(type, amt, loc)
      PROVE  OneIncomePerPayment' /\ LedgerShape'
  <2>1. payments' = payments /\ TransactionCreate(type, amt, NoPayment, 0, loc, "manual")
    BY <1>3 DEF CreateManualTransaction
  <2> QED
    BY <2>1, HandStep
<1> QED
  BY <1>1, <1>2, <1>3, LedgerSteps

\* However payments are entered, verified, rejected and reversed, and whatever
\* is posted or reversed by hand in between, a payment that was ever approved
\* has exactly one income row of its own amount, a reversed one exactly one
\* compensating row that names it, and any other payment none (BR-12).
THEOREM PostedOnce == Spec => []OneIncomePerPayment
<1>1. Init => OneIncomePerPayment /\ LedgerShape
  <2> SUFFICES ASSUME Init
               PROVE  OneIncomePerPayment /\ LedgerShape
    OBVIOUS
  <2>1. \A p \in PaymentIds : payments[p].status = "none"
    BY DEF Init, NewPayment
  <2>2. Len(ledger) = 0
    BY DEF Init
  <2>3. \A p, note : Rows(p, note) = {}
    BY <2>2 DEF Rows
  <2>4. Cardinality({}) = 0
    BY FS_EmptySet
  <2>5. \A p \in PaymentIds : OneIncome(p)
    BY <2>1, <2>3, <2>4 DEF OneIncome
  <2> QED
    BY <2>2, <2>5, OneIncomeIs DEF LedgerShape
<1>2. TypeOK /\ OneIncomePerPayment /\ LedgerShape /\ [Next]_vars
         => OneIncomePerPayment' /\ LedgerShape'
  <2> SUFFICES ASSUME TypeOK, OneIncomePerPayment, LedgerShape, [Next]_vars
               PROVE  OneIncomePerPayment' /\ LedgerShape'
    OBVIOUS
  <2>1. CASE RecordActions
    BY <2>1, RecordSteps, PostedStep
  <2>2. CASE VerifyActions
    BY <2>2, VerifySteps, PostedStep
  <2>3. CASE LedgerActions
    BY <2>3, LedgerStepsPost
  <2>4. CASE DueActions \/ ExpireVoluntaryDues \/ BillActions \/ UNCHANGED vars
    BY <2>4, OtherSteps, NothingPosted
  <2> QED
    BY <2>1, <2>2, <2>3, <2>4 DEF Next
<1>3. Spec => []TypeOK
  BY TypeCorrect
<1> QED
  BY <1>1, <1>2, <1>3, PTL DEF Spec
=============================================================================
