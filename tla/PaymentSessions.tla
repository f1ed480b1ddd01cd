--------------------------- MODULE PaymentSessions ---------------------------
(***************************************************************************)
(* The money handlers of internal/finance as PostgreSQL runs them: several *)
(* sessions at READ COMMITTED, each executing the statements of one        *)
(* handler inside one transaction.  PaymentLedger treats a handler as one  *)
(* atomic step; this module shows that row locks make it one, for the      *)
(* payments, the bills, the KAS rows and the fund locations, and what the  *)
(* order in which the handlers take their locks leads to.                  *)
(*                                                                         *)
(* A handler is the sequence of its statements (operators StaffPay ..      *)
(* PayOut).  A statement sees the committed rows and the session's own     *)
(* drafts; drafts become visible at commit, when all locks are released.   *)
(* Of a bill only the status is kept, and payments are written in units of *)
(* money: the guards that read other columns are in PaymentLedger.         *)
(***************************************************************************)
EXTENDS Integers, Sequences, FiniteSets

CONSTANTS
    Sessions,    \* database sessions (one per HTTP request in flight)
    Bills,       \* the bill rows
    Rank,        \* Rank[b]: place of b in the order of the ids
    Dues, DueOf, \* the due each bill belongs to
    Amount,      \* Amount[b]: what is billed
    PaymentIds,  \* payment rows that can exist, with their immutable columns:
    Alloc,       \* Alloc[p][b]: what p pays on bill b (nothing, for a donation)
    Single,      \* the payments recorded and verified by the one-bill handlers
    Locations,   \* fund locations
    NoLocation,
    Opening,     \* Opening[l]: balance of a location before the first request
    Requests,    \* requests that may arrive
    MaxRequests  \* bound: how many requests arrive

Places == Locations \cup {NoLocation}
Covers(p) == {b \in Bills : Alloc[p][b] > 0}

\* A request is a handler, the row it is about, and the due or the location
\* it names.  Only a payment without a bill is a donation.
RequestKinds ==
    {"staff pay", "warga pay", "reject", "reverse", "undo"} \X PaymentIds \X {NoLocation}
    \cup {"donate"} \X {p \in PaymentIds : Covers(p) = {}} \X Dues
    \cup {"approve"} \X PaymentIds \X Places
    \cup {"cancel"} \X Bills \X {NoLocation} \cup {"pay out"} \X Locations \X {NoLocation}

ASSUME Columns == /\ Rank \in [Bills -> Nat]
                  /\ DueOf \in [Bills -> Dues] /\ Amount \in [Bills -> Nat]
                  /\ Alloc \in [PaymentIds -> [Bills -> Nat]]
                  /\ Single \subseteq PaymentIds
                  /\ NoLocation \notin Locations
                  /\ Opening \in [Locations -> Nat] /\ MaxRequests \in Nat
                  /\ Requests \subseteq RequestKinds

\* The tables are finite.
ASSUME FiniteTables == IsFiniteSet(PaymentIds) /\ IsFiniteSet(Bills) /\ IsFiniteSet(Locations)

VARIABLES
    status,    \* committed status of each payment
    bill,      \* committed status of each bill
    number,    \* committed payment_no of each payment, 0 for NULL
    income,    \* committed income rows of each payment, by location
    reversals, \* committed rows that reverse it: reversals[p].payment of them by
               \* a reversal of the payment, reversals[p].hand by hand
    balance,   \* committed balance of each location
    session,   \* what each session has still to do, its locks and its drafts
    requests   \* requests that arrived so far

vars == <<status, bill, number, income, reversals, balance, session, requests>>
tables == <<status, bill, number, income, reversals, balance>>

PaymentStatuses == {"none", "PENDING", "APPROVED", "REJECTED", "REVERSED"}
BillStatuses == {"unpaid", "partial", "paid", "cancelled"}

Rows == {"payment"} \X PaymentIds \cup {"bill"} \X Bills \cup {"due"} \X Dues
        \cup {"location"} \X Locations \cup {<<"rts", "rt">>, <<"advisory", "kas_ref">>}
        \cup {"payment_no"} \X Nat
Modes == {"update", "key share"}

\* A row of transactions: its type, the payment it is for (an expense has
\* none) and its location.
Postings == {"income", "payment", "hand"} \X PaymentIds \X Places
            \cup {"expense"} \X Locations \X Locations
NoPosting == <<"none", NoLocation, NoLocation>>

\* The total of a function to Nat, counted by its units.
Sum(f) == Cardinality(UNION {{x} \X (1 .. f[x]) : x \in DOMAIN f})

\* A donation is one unit.
Total == [p \in PaymentIds |-> IF Covers(p) = {} THEN 1 ELSE Sum(Alloc[p])]

\* What a row adds to the balance of its location.
Worth(row) == CASE row[1] = "income" -> Total[row[2]]
                [] row[1] \in {"payment", "hand"} -> -Total[row[2]]
                [] row[1] = "expense" -> -1
                [] OTHER -> 0
-----------------------------------------------------------------------------
(* Statements, and the handlers as sequences of them. *)

Do(what, arg) == <<[do |-> what, arg |-> arg]>>

ForUpdate(row) == Do("lock", <<row, "update">>)
\* What a foreign key check takes on the row referenced.
KeyShare(row) == Do("lock", <<row, "key share">>)

\* Faulty: the bill is read without a lock.
BillGetByID(b) == <<>>

\* BillGetByIDForUpdate joins dues and rts, and FOR UPDATE locks all three.
BillGetByIDForUpdate(b) == ForUpdate(<<"bill", b>>) \o ForUpdate(<<"due", DueOf[b]>>)
                           \o ForUpdate(<<"rts", "rt">>)

\* statements[b] for each b of bills in turn; each bill takes as many of them.
ForEach(bills, statements) ==
    IF bills = <<>> THEN <<>>
    ELSE LET n == Len(statements[bills[1]])
         IN [i \in 1 .. n * Len(bills) |-> statements[bills[1 + ((i - 1) \div n)]][1 + ((i - 1) % n)]]

\* The orders in which rows may be returned that ORDER BY does not order.
Unordered(bills) ==
    {q \in [1 .. Cardinality(bills) -> bills] : \A b \in bills : \E i \in DOMAIN q : q[i] = b}

\* sort.Strings(billIDs)
Sorted(bills) ==
    {q \in Unordered(bills) : \A i, j \in DOMAIN q : i < j => Rank[q[i]] < Rank[q[j]]}

\* TransactionCreate: a row without a payment number takes the next KAS number
\* under an advisory lock; the insert then checks its foreign keys.
TransactionCreate(numbered, l, row) ==
    (IF numbered THEN <<>> ELSE ForUpdate(<<"advisory", "kas_ref">>))
    \o KeyShare(<<"rts", "rt">>)
    \o (IF l = NoLocation THEN <<>> ELSE KeyShare(<<"location", l>>))
    \o Do("post", row)

\* Faulty: compares with a balance that may change.
AffordUnlocked(l, n) == IF l = NoLocation THEN <<>> ELSE Do("afford", <<l, n>>)

\* Lock a location and check that it can pay n.
Afford(l, n) == IF l = NoLocation THEN <<>>
                ELSE ForUpdate(<<"location", l>>) \o Do("afford", <<l, n>>)

PaymentVerify(p, to) == Do("number", p) \o Do("set", <<p, to>>)

\* Lock each bill of p and check what is open on it.
LockAndCheck(p, check) == [b \in Bills |-> BillGetByIDForUpdate(b) \o Do(check, <<p, b>>)]

StaffPay(p, order) ==
    ForEach(order, LockAndCheck(p, "open"))
    \o Do("insert", <<p, "APPROVED">>) \o Do("settle", p)
    \o TransactionCreate(FALSE, NoLocation, <<"income", p, NoLocation>>) \o Do("commit", p)

WargaPay(p, order) ==
    ForEach(order, LockAndCheck(p, "free")) \o Do("insert", <<p, "PENDING">>) \o Do("commit", p)

\* A donation; dues row d, no bill.
Donate(p, d, to) ==
    ForUpdate(<<"due", d>>) \o KeyShare(<<"rts", "rt">>) \o Do("insert", <<p, to>>)
    \o (IF to = "APPROVED"
        THEN TransactionCreate(FALSE, NoLocation, <<"income", p, NoLocation>>) ELSE <<>>)
    \o Do("commit", p)

\* Faulty: the payment is read without a lock.
PaymentGetByID(p) == <<>>

PaymentGetByIDForUpdate(p) == ForUpdate(<<"payment", p>>)

Approve(p, l, order) ==
    PaymentGetByIDForUpdate(p) \o Do("expect", <<p, "PENDING">>)
    \o ForEach(order, LockAndCheck(p, "payable"))
    \o PaymentVerify(p, "APPROVED") \o Do("settle", p)
    \o TransactionCreate(TRUE, l, <<"income", p, l>>) \o Do("commit", p)

\* Faulty: computes the total before the bill is locked.
ReconcileUnlocked(b) == Do("reconcile", b) \o BillGetByIDForUpdate(b)

Reconcile(b) == BillGetByIDForUpdate(b) \o Do("reconcile", b)

ReconcileEach(order) == ForEach(order, [b \in Bills |-> Reconcile(b)])

Reject(p, order) ==
    PaymentGetByIDForUpdate(p) \o Do("expect", <<p, "PENDING">>)
    \o PaymentVerify(p, "REJECTED") \o ReconcileEach(order) \o Do("commit", p)

\* Where the income of p went; read when the request arrives.
Place(p) == IF \E l \in Locations : income[p][l] > 0
            THEN CHOOSE l \in Locations : income[p][l] > 0 ELSE NoLocation

ReverseApprovedPayment(p, order) ==
    PaymentGetByIDForUpdate(p) \o Do("expect", <<p, "APPROVED">>)
    \o Afford(Place(p), Total[p])
    \o TransactionCreate(FALSE, Place(p), <<"payment", p, Place(p)>>)
    \o Do("set", <<p, "REVERSED">>) \o ReconcileEach(order) \o Do("commit", p)

\* Reversal by hand of the income row of p.
ReverseTransaction(p) ==
    Do("unreversed", p) \o Afford(Place(p), Total[p])
    \o TransactionCreate(FALSE, Place(p), <<"hand", p, Place(p)>>) \o Do("commit", p)

CancelBill(b) == BillGetByIDForUpdate(b) \o Do("cancel", b) \o Do("commit", b)

\* A manual expense of one unit.
PayOut(l) == Afford(l, 1) \o TransactionCreate(FALSE, l, <<"expense", l, l>>) \o Do("commit", l)

\* The statements a request <<handler, row, where>> may turn into.
Handlers(r) ==
    LET p == r[2] IN
    CASE r[1] = "staff pay" -> {StaffPay(p, order) : order \in Sorted(Covers(p))}
      [] r[1] = "warga pay" -> {WargaPay(p, order) : order \in Sorted(Covers(p))}
      [] r[1] = "donate"    -> {Donate(p, r[3], to) : to \in {"PENDING", "APPROVED"}}
      [] r[1] = "approve"   -> {Approve(p, r[3], order) : order \in Sorted(Covers(p))}
      [] r[1] = "reject"    -> {Reject(p, order) : order \in Unordered(Covers(p))}
      [] r[1] = "reverse"   -> {ReverseApprovedPayment(p, order) : order \in Unordered(Covers(p))}
      [] r[1] = "undo"      -> {ReverseTransaction(p)}
      [] r[1] = "cancel"    -> {CancelBill(p)}
      [] r[1] = "pay out"   -> {PayOut(p)}
-----------------------------------------------------------------------------
NotReversed == [payment |-> 0, hand |-> 0]

NoDraft == [pay |-> [p \in PaymentIds |-> "-"], bill |-> [b \in Bills |-> "-"],
            number |-> [p \in PaymentIds |-> 0], post |-> NoPosting]

Idle == [todo |-> <<>>, held |-> {}, seen |-> [b \in Bills |-> 0], next |-> 0, draft |-> NoDraft]

Busy(s) == session[s].todo # <<>>
Statement(s) == Head(session[s].todo)

\* Session s is at a statement of this kind, and what that is about.
At(s, do) == Busy(s) /\ Statement(s).do = do
Arg(s) == Statement(s).arg

\* What session s sees of the tables.
StatusSeen(s, p) == IF session[s].draft.pay[p] # "-" THEN session[s].draft.pay[p] ELSE status[p]

ApprovedTotal(b) == Sum([p \in PaymentIds |-> IF status[p] = "APPROVED" THEN Alloc[p][b] ELSE 0])
TotalSeen(s, b, st) == Sum([p \in PaymentIds |-> IF StatusSeen(s, p) = st THEN Alloc[p][b] ELSE 0])

Settled(b, total) == IF total >= Amount[b] THEN "paid" ELSE "partial"
Reconciled(b, was, total) ==
    IF was = "cancelled" THEN was
    ELSE IF total >= Amount[b] /\ Amount[b] > 0 THEN "paid"
    ELSE IF total > 0 THEN "partial" ELSE "unpaid"

\* The requests served before: payments in any consistent state, none reversed.
Init ==
    /\ status \in [PaymentIds -> {"none", "PENDING", "APPROVED"}]
    /\ \A b \in Bills : ApprovedTotal(b) <= Amount[b]
    /\ bill = [b \in Bills |-> Reconciled(b, "unpaid", ApprovedTotal(b))]
    /\ number = [p \in PaymentIds |-> 0]
    /\ income \in [PaymentIds -> [Places -> {0, 1}]]
    /\ \A p \in PaymentIds : Sum(income[p]) = IF status[p] = "APPROVED" THEN 1 ELSE 0
    /\ reversals = [p \in PaymentIds |-> NotReversed]
    /\ balance = [l \in Locations |->
                    Opening[l] + Sum([p \in PaymentIds |-> Total[p] * income[p][l]])]
    /\ session = [s \in Sessions |-> Idle]
    /\ requests = 0

Arrive(s) ==
    /\ ~Busy(s) /\ requests < MaxRequests
    /\ \E r \in Requests : \E todo \in Handlers(r) :
          session' = [session EXCEPT ![s] = [Idle EXCEPT !.todo = todo]]
    /\ requests' = requests + 1
    /\ UNCHANGED tables

\* Statement s is done, and the rest of its session becomes rest.
Advance(s, rest) ==
    /\ session' = [session EXCEPT ![s] = [rest EXCEPT !.todo = Tail(@)]]
    /\ UNCHANGED <<tables, requests>>

\* Faulty: a return path that leaves the transaction, and its locks, open.
LeftOpen(s) ==
    /\ session' = [session EXCEPT ![s] = [Idle EXCEPT !.held = session[s].held]]
    /\ UNCHANGED <<tables, requests>>

\* The handler returns an error: ROLLBACK.
Rollback(s) ==
    /\ session' = [session EXCEPT ![s] = Idle]
    /\ UNCHANGED <<tables, requests>>

\* A statement that goes on if a condition on what it reads holds, and
\* otherwise makes the handler fail.
Check(s, condition, rest) ==
    \/ condition /\ Advance(s, rest)
    \/ ~condition /\ Rollback(s)
-----------------------------------------------------------------------------
(* Locks. *)

Conflict(mode, other) == "update" \in {mode, other}

\* The statements that write a payment_no, which is UNIQUE: they wait for a
\* draft with the same number, and fail if the number is taken.
WritesNumber(s) == At(s, "set") /\ Arg(s)[2] # "REVERSED"

\* The locks the statement of s asks for.
Wanted(s) == IF At(s, "lock") THEN {Arg(s)}
             ELSE IF WritesNumber(s) THEN {<<<<"payment_no", session[s].next>>, "update">>}
             ELSE {}

\* The sessions that hold a lock that conflicts with what s asks for.
Blockers(s) ==
    {o \in Sessions \ {s} : \E want \in Wanted(s), have \in session[o].held :
                               want[1] = have[1] /\ Conflict(want[2], have[2])}

Lock(s) ==
    /\ At(s, "lock") /\ Blockers(s) = {}
    /\ Advance(s, [session[s] EXCEPT !.held = @ \cup {Arg(s)}])
-----------------------------------------------------------------------------
(* SELECT, then compare: status of a payment, what is open on a bill. *)

Unsettled(b) == bill[b] \notin {"paid", "cancelled"}

\* p fits in what is open on bill b and not reserved.
Fits(s, p, b, reserved) == Alloc[p][b] <= Amount[b] - TotalSeen(s, b, "APPROVED") - reserved

\* The session with the total of b it has read.
Seen(s, b) == [session[s] EXCEPT !.seen[b] = TotalSeen(s, b, "APPROVED")]

ExpectStatus(s) ==
    At(s, "expect") /\ Check(s, status[Arg(s)[1]] = Arg(s)[2], session[s])

CheckOpen(s) ==
    LET p == Arg(s)[1]
        b == Arg(s)[2]
    IN At(s, "open") /\ Check(s, Unsettled(b) /\ Fits(s, p, b, 0), Seen(s, b))

CheckFree(s) ==
    LET p == Arg(s)[1]
        b == Arg(s)[2]
    IN At(s, "free")
       /\ Check(s, Unsettled(b) /\ Fits(s, p, b, TotalSeen(s, b, "PENDING")), Seen(s, b))

CheckPayable(s) ==
    LET p == Arg(s)[1]
        b == Arg(s)[2]
    IN /\ At(s, "payable") /\ (p \notin Single \/ Fits(s, p, b, 0))
       /\ Check(s, Unsettled(b) /\ Fits(s, p, b, 0), Seen(s, b))

\* A one-bill payment that no longer fits is rejected instead.
RejectInstead(s) ==
    LET p == Arg(s)[1]
        b == Arg(s)[2]
    IN /\ At(s, "payable") /\ p \in Single /\ ~Fits(s, p, b, 0)
       /\ Check(s, Unsettled(b),
                [session[s] EXCEPT !.todo = <<Statement(s)>> \o PaymentVerify(p, "REJECTED")
                                            \o Do("commit", p)])

CheckUnreversed(s) ==
    /\ At(s, "unreversed")
    /\ Check(s, Sum(income[Arg(s)]) > 0 /\ reversals[Arg(s)] = NotReversed, session[s])

CheckBalance(s) ==
    At(s, "afford") /\ Check(s, balance[Arg(s)[1]] >= Arg(s)[2], session[s])

\* One more than the largest number.
NextNumber(s) ==
    /\ At(s, "number")
    /\ \E p \in PaymentIds :
          /\ \A q \in PaymentIds : number[q] <= number[p]
          /\ Advance(s, [session[s] EXCEPT !.next = 1 + number[p]])

Read(s) == \/ ExpectStatus(s) \/ CheckOpen(s) \/ CheckFree(s) \/ CheckPayable(s) \/ RejectInstead(s)
           \/ CheckUnreversed(s) \/ CheckBalance(s) \/ NextNumber(s)
-----------------------------------------------------------------------------
(* INSERT and UPDATE, drafts until the commit. *)

\* The id of an inserted row is new: no other insert has it.
Insert(s) ==
    /\ At(s, "insert")
    /\ Check(s, \A o \in Sessions : StatusSeen(o, Arg(s)[1]) = "none",
             [session[s] EXCEPT !.draft.pay[Arg(s)[1]] = Arg(s)[2]])

SetReversed(s) ==
    /\ At(s, "set") /\ Arg(s)[2] = "REVERSED"
    /\ Advance(s, [session[s] EXCEPT !.draft.pay[Arg(s)[1]] = Arg(s)[2]])

SetVerified(s) ==
    /\ WritesNumber(s) /\ Blockers(s) = {}
    /\ Check(s, \A p \in PaymentIds : number[p] # session[s].next,
             [session[s] EXCEPT !.draft.pay[Arg(s)[1]] = Arg(s)[2],
                                !.draft.number[Arg(s)[1]] = session[s].next,
                                !.held = @ \cup Wanted(s)])

\* The status of each bill of p, from the total read when it was locked.
Settle(s) ==
    LET p == Arg(s)
        settled(b) == IF b \in Covers(p) THEN Settled(b, session[s].seen[b] + Alloc[p][b]) ELSE "-"
    IN At(s, "settle") /\ Advance(s, [session[s] EXCEPT !.draft.bill = [b \in Bills |-> settled(b)]])

SetReconciled(s) ==
    LET b == Arg(s)
    IN /\ At(s, "reconcile")
       /\ Advance(s, [session[s] EXCEPT !.draft.bill[b] =
                        Reconciled(b, bill[b], TotalSeen(s, b, "APPROVED"))])

SetCancelled(s) ==
    LET b == Arg(s)
    IN /\ At(s, "cancel")
       /\ Check(s, /\ bill[b] = "unpaid"
                   /\ ~\E p \in PaymentIds : status[p] = "APPROVED" /\ Alloc[p][b] > 0,
                [session[s] EXCEPT !.draft.bill[b] = "cancelled"])

Post(s) == At(s, "post") /\ Advance(s, [session[s] EXCEPT !.draft.post = Arg(s)])

Write(s) == \/ Insert(s) \/ SetReversed(s) \/ SetVerified(s) \/ Settle(s) \/ SetReconciled(s)
            \/ SetCancelled(s) \/ Post(s)
-----------------------------------------------------------------------------
Posts(s, type, p, l) == IF session[s].draft.post = <<type, p, l>> THEN 1 ELSE 0

\* How often s reverses the income row of p, wherever that went.
Reverses(s, by, p) == IF \E l \in Places : session[s].draft.post = <<by, p, l>> THEN 1 ELSE 0

Commit(s) ==
    LET draft == session[s].draft IN
    /\ At(s, "commit")
    /\ status' = [p \in PaymentIds |-> StatusSeen(s, p)]
    /\ bill' = [b \in Bills |-> IF draft.bill[b] # "-" THEN draft.bill[b] ELSE bill[b]]
    /\ number' = [p \in PaymentIds |-> IF draft.number[p] # 0 THEN draft.number[p] ELSE number[p]]
    /\ income' = [p \in PaymentIds |-> [l \in Places |-> income[p][l] + Posts(s, "income", p, l)]]
    /\ reversals' = [p \in PaymentIds |->
                       [payment |-> reversals[p].payment + Reverses(s, "payment", p),
                        hand |-> reversals[p].hand + Reverses(s, "hand", p)]]
    /\ balance' = [l \in Locations |->
                     balance[l] + (IF draft.post[3] = l THEN Worth(draft.post) ELSE 0)]
    /\ session' = [session EXCEPT ![s] = Idle]
    /\ UNCHANGED requests

\* A set of sessions each of which waits for another of them.
Deadlocked(S) == S # {} /\ \A s \in S : Blockers(s) \cap S # {}

\* PostgreSQL cancels one of them; the handler reports the error and rolls back.
BreakDeadlock(s) == /\ \E S \in SUBSET Sessions : s \in S /\ Deadlocked(S)
                    /\ Rollback(s)

\* The client gives up, its connection or the server fails.
Abort(s) == Busy(s) /\ Rollback(s)

Step(s) == Lock(s) \/ Read(s) \/ Write(s) \/ Commit(s) \/ BreakDeadlock(s)

Next == \E s \in Sessions : Arrive(s) \/ Step(s) \/ Abort(s)

\* The server runs every handler to its end; lock waits are granted in the end.
Spec == Init /\ [][Next]_vars /\ \A s \in Sessions : WF_vars(Step(s))
-----------------------------------------------------------------------------
(* Properties. *)

\* A statement and what it is about.
Statements ==
    [do : {"lock"}, arg : Rows \X Modes]
    \cup [do : {"open", "free", "payable"}, arg : PaymentIds \X Bills]
    \cup [do : {"expect", "insert", "set"}, arg : PaymentIds \X PaymentStatuses]
    \cup [do : {"number", "settle", "unreversed"}, arg : PaymentIds]
    \cup [do : {"reconcile", "cancel"}, arg : Bills]
    \cup [do : {"afford"}, arg : Locations \X Nat] \cup [do : {"post"}, arg : Postings]
    \cup [do : {"commit"}, arg : PaymentIds \cup Bills \cup Locations]

DraftRow == [pay : [PaymentIds -> PaymentStatuses \cup {"-"}],
             bill : [Bills -> BillStatuses \cup {"-"}],
             number : [PaymentIds -> Nat],
             post : Postings \cup {NoPosting}]

SessionRow == [todo : Seq(Statements), held : SUBSET (Rows \X Modes), seen : [Bills -> Nat],
               next : Nat, draft : DraftRow]

\* Tables and sessions are well formed; an idle session holds nothing.
TypeOK ==
    /\ status \in [PaymentIds -> PaymentStatuses] /\ bill \in [Bills -> BillStatuses]
    /\ number \in [PaymentIds -> Nat] /\ income \in [PaymentIds -> [Places -> Nat]]
    /\ reversals \in [PaymentIds -> [payment : Nat, hand : Nat]]
    /\ balance \in [Locations -> Int] /\ requests \in 0 .. MaxRequests
    /\ session \in [Sessions -> SessionRow]
    /\ \A s \in Sessions : ~Busy(s) => session[s] = Idle

\* The totals a handler compares with are read by one statement and used some
\* statements later; whatever other sessions commit in between, no bill gets
\* more approved money than was billed.
NoOverpayment == \A b \in Bills : ApprovedTotal(b) <= Amount[b]

\* Whenever nothing is half done, that is in the committed tables, the status
\* of every bill says how much approved money is on it, although approval,
\* rejection and reversal compute it from totals they read earlier.
StatusAgrees ==
    \A b \in Bills : bill[b] = Reconciled(b, bill[b], ApprovedTotal(b))
                     /\ (bill[b] = "cancelled" => ApprovedTotal(b) = 0)

\* Expenses and reversals check a balance and post later; still no location
\* ever pays out more than it took in.
NoOverdraft == \A l \in Locations : balance[l] >= 0

\* Officers who decide on the same payment at the same time do not both
\* succeed: committed payments have the income and reversal rows of their status.
OneIncomePerPayment ==
    \A p \in PaymentIds :
       /\ Sum(income[p]) = IF status[p] \in {"APPROVED", "REVERSED"} THEN 1 ELSE 0
       /\ reversals[p].payment = IF status[p] = "REVERSED" THEN 1 ELSE 0

\* Every commit is one step of the payment contract: however the statements of
\* the handlers interleave, each of them takes effect at once or not at all.
Contract == INSTANCE PaymentContract WITH
    alloc <- [p \in PaymentIds |-> IF status[p] = "none" THEN [b \in Bills |-> 0] ELSE Alloc[p]],
    amount <- [p \in PaymentIds |-> IF status[p] = "none" THEN 0 ELSE Total[p]],
    credit <- [b \in Bills |-> ApprovedTotal(b)],
    cash <- Sum([row \in PaymentIds \X Places |-> Total[row[1]] * income[row[1]][row[2]]])
            - Sum([p \in PaymentIds |-> Total[p] * reversals[p].payment])

ImplementsContract == [][Contract!Next]_Contract!contract

\* Every request is answered: no session waits forever for the locks of others.
EveryRequestEnds == \A s \in Sessions : Busy(s) ~> ~Busy(s)

\* "Sort bill IDs deterministically to prevent deadlocks when multiple
\* concurrent transactions try to lock overlapping sets of bills."
NoDeadlock == \A S \in SUBSET Sessions : ~Deadlocked(S)
=============================================================================
