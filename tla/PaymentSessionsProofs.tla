------------------------ MODULE PaymentSessionsProofs ------------------------
(***************************************************************************)
(* Proofs about PaymentSessions, for any number of sessions, payments,     *)
(* bills and locations.  A handler is a sequence of statements, so the     *)
(* inductive invariant is about what is left of one: every statement left  *)
(* finds what it builds on done before it (Supported), and is followed by  *)
(* what it needs to be complete (Followed).  What was done still holds     *)
(* (Holds), because the rows it depends on are locked.                     *)
(***************************************************************************)
EXTENDS PaymentSessions, FiniteSetTheorems, TLAPS

\* The statement `what` about `arg`, and the lock of a row for an update.
St(what, arg) == [do |-> what, arg |-> arg]
Update(kind, id) == <<<<kind, id>>, "update">>
LockOf(kind, id) == St("lock", Update(kind, id))

Elements(q) == {q[i] : i \in DOMAIN q}

\* The statements that decide before anything is drafted, or draft a payment.
Early == {"open", "free", "payable", "insert", "set", "cancel"}

\* The statements before which nothing is posted.
Unposted == {"payable", "post"}

\* Payment p has been drafted with status st.
Drafts(done, p, st) == St("insert", <<p, st>>) \in done \/ St("set", <<p, st>>) \in done

\* What x builds on is among the statements done.
Supported(x, done) ==
    /\ x.do \in {"open", "free", "payable"} => LockOf("bill", x.arg[2]) \in done
    /\ x.do = "payable" => St("expect", <<x.arg[1], "PENDING">>) \in done
    /\ x.do = "expect" => LockOf("payment", x.arg[1]) \in done /\ x.arg[2] # "none"
    /\ x.do = "insert" =>
         \/ x.arg[2] = "PENDING"
         \/ /\ x.arg[2] = "APPROVED"
            /\ \A b \in Covers(x.arg[1]) : St("open", <<x.arg[1], b>>) \in done
    /\ x.do = "set" =>
         \/ x.arg[2] = "REJECTED" /\ St("expect", <<x.arg[1], "PENDING">>) \in done
         \/ /\ x.arg[2] = "APPROVED" /\ St("expect", <<x.arg[1], "PENDING">>) \in done
            /\ \A b \in Covers(x.arg[1]) : St("payable", <<x.arg[1], b>>) \in done
         \/ /\ x.arg[2] = "REVERSED" /\ St("expect", <<x.arg[1], "APPROVED">>) \in done
            /\ \E l \in Places : St("post", <<"payment", x.arg[1], l>>) \in done
    /\ x.do = "settle" => Drafts(done, x.arg, "APPROVED")
    /\ x.do = "reconcile" =>
         /\ LockOf("bill", x.arg) \in done
         /\ \E p \in PaymentIds, st \in {"REJECTED", "REVERSED"} : St("set", <<p, st>>) \in done
    /\ x.do = "cancel" => LockOf("bill", x.arg) \in done
    /\ x.do = "afford" => LockOf("location", x.arg[1]) \in done
    /\ x.do = "post" =>
         \/ x.arg[1] = "income" /\ Drafts(done, x.arg[2], "APPROVED")
         \/ /\ x.arg[1] \in {"payment", "hand"}
            /\ x.arg[3] # NoLocation => St("afford", <<x.arg[3], Total[x.arg[2]]>>) \in done
         \/ x.arg[1] = "expense" /\ St("afford", <<x.arg[3], 1>>) \in done

\* What completes x is among the statements after it, and nothing that x must
\* come after is.
Followed(x, after) ==
    /\ x.do = "commit" <=> after = {}
    /\ x.do \in {"insert", "set", "settle", "reconcile", "cancel"} =>
         \A y \in after : y.do \notin Early
    /\ x.do = "post" => \A y \in after : y.do \notin Unposted
    /\ x.do = "post" /\ x.arg[1] = "payment" => St("set", <<x.arg[2], "REVERSED">>) \in after
    /\ x.do \in {"insert", "set"} /\ x.arg[2] = "APPROVED" =>
         /\ \E l \in Places : St("post", <<"income", x.arg[1], l>>) \in after
         /\ Covers(x.arg[1]) # {} => St("settle", x.arg[1]) \in after
    /\ x.do = "set" /\ x.arg[2] = "REVERSED" =>
         \A b \in Covers(x.arg[1]) : St("reconcile", b) \in after

Before(q, i) == {q[j] : j \in 1 .. (i - 1)}
After(q, i) == {q[j] : j \in (i + 1) .. Len(q)}

\* q can be run when the statements of done are done, if after comes after it.
Program(q, done, after) ==
    /\ q \in Seq(Statements)
    /\ \A i \in 1 .. Len(q) : /\ Supported(q[i], done \cup Before(q, i))
                              /\ Followed(q[i], After(q, i) \cup after)
-----------------------------------------------------------------------------
(* The inductive invariant. *)

HasLock(s, kind, id) == Update(kind, id) \in session[s].held

\* p fits in what is open on b, and s has read how much that is under a lock.
Reserved(s, p, b) == /\ HasLock(s, "bill", b) /\ session[s].seen[b] = ApprovedTotal(b)
                     /\ ApprovedTotal(b) + Alloc[p][b] <= Amount[b]

\* What s knows after x.
Holds(s, x) ==
    /\ x.do = "lock" => x.arg \in session[s].held
    /\ x.do = "expect" => /\ HasLock(s, "payment", x.arg[1])
                          /\ status[x.arg[1]] = x.arg[2] /\ x.arg[2] # "none"
    /\ x.do \in {"open", "payable"} => Reserved(s, x.arg[1], x.arg[2])
    /\ x.do \in {"insert", "set"} => session[s].draft.pay[x.arg[1]] = x.arg[2]
    /\ x.do = "afford" => HasLock(s, "location", x.arg[1]) /\ balance[x.arg[1]] >= x.arg[2]
    /\ x.do = "post" => session[s].draft.post = x.arg

\* What s has left to do builds on what it has done.
OnTrack(s) == Busy(s) => \E done \in SUBSET Statements : /\ Program(session[s].todo, done, {})
                                                         /\ \A x \in done : Holds(s, x)

Left(s, x) == x \in Elements(session[s].todo)

\* Nothing is drafted before it is decided on; a session posts once.
InOrder(s) ==
    LET todo == Elements(session[s].todo)
        draft == session[s].draft
    IN /\ (\E x \in todo : x.do \in Early) => /\ \A p \in PaymentIds : draft.pay[p] = "-"
                                              /\ \A b \in Bills : draft.bill[b] = "-"
       /\ (\E x \in todo : x.do \in Unposted) => draft.post = NoPosting

\* The status a drafted payment has in the tables meanwhile.
DraftPayment(s, p) ==
    LET to == session[s].draft.pay[p] IN
    /\ to = "PENDING" => status[p] = "none"
    /\ to = "APPROVED" => \/ status[p] = "none"
                          \/ status[p] = "PENDING" /\ HasLock(s, "payment", p)
    /\ to = "REJECTED" => status[p] = "PENDING" /\ HasLock(s, "payment", p)
    /\ to = "REVERSED" => status[p] = "APPROVED" /\ HasLock(s, "payment", p)
    /\ to = "APPROVED" => \A b \in Covers(p) : Reserved(s, p, b)
    /\ to # "none"

\* A status of b that says how much approved money is on it.
Agrees(b, st, total) == st = Reconciled(b, st, total) /\ (st = "cancelled" => total = 0)

DraftBill(s, b) ==
    session[s].draft.bill[b] # "-" =>
        HasLock(s, "bill", b) /\ Agrees(b, session[s].draft.bill[b], TotalSeen(s, b, "APPROVED"))

\* The bills of a drafted payment follow it, if not yet then later.
BillsFollow(s, p) ==
    session[s].draft.pay[p] \in {"APPROVED", "REVERSED"} =>
        \A b \in Covers(p) : \/ session[s].draft.bill[b] # "-"
                             \/ Left(s, St("settle", p)) \/ Left(s, St("reconcile", b))

\* Money is posted for the payment that is drafted, and the other way round.
MoneyFollows(s) ==
    LET draft == session[s].draft IN
    /\ \A p \in PaymentIds :
         /\ draft.pay[p] = "APPROVED" =>
              \E l \in Places : \/ draft.post = <<"income", p, l>>
                                \/ Left(s, St("post", <<"income", p, l>>))
         /\ draft.pay[p] = "REVERSED" => \E l \in Places : draft.post = <<"payment", p, l>>
    /\ draft.post[1] = "income" => draft.pay[draft.post[2]] = "APPROVED"
    /\ draft.post[1] = "payment" => \/ draft.pay[draft.post[2]] = "REVERSED"
                                    \/ Left(s, St("set", <<draft.post[2], "REVERSED">>))

\* A location can pay what is posted.
Covered(s) ==
    LET row == session[s].draft.post IN
    row[1] \in {"payment", "hand", "expense"} /\ row[3] # NoLocation =>
        HasLock(s, "location", row[3]) /\ balance[row[3]] + Worth(row) >= 0

\* A session drafts one payment, and no two sessions the same.
OneDraft(s) ==
    \A p, q \in PaymentIds :
        session[s].draft.pay[p] # "-" /\ session[s].draft.pay[q] # "-" => p = q

Exclusive(s, o) ==
    /\ \A p \in PaymentIds : session[s].draft.pay[p] = "-" \/ session[o].draft.pay[p] = "-"
    /\ \A mine \in session[s].held, other \in session[o].held :
          mine[1] = other[1] => ~Conflict(mine[2], other[2])

Drafted(s) == /\ InOrder(s) /\ MoneyFollows(s) /\ Covered(s) /\ OneDraft(s)
              /\ \A p \in PaymentIds : DraftPayment(s, p) /\ BillsFollow(s, p)
              /\ \A b \in Bills : DraftBill(s, b)

Inv == /\ TypeOK /\ NoOverpayment /\ StatusAgrees /\ NoOverdraft
       /\ \A s \in Sessions : OnTrack(s) /\ Drafted(s)
       /\ \A s, o \in Sessions : s # o => Exclusive(s, o)
-----------------------------------------------------------------------------
(* Totals. *)

Units(f, S) == UNION {{x} \X (1 .. f[x]) : x \in S}

\* The units of a function on a finite set are finitely many.
LEMMA UnitsFinite ==
    ASSUME NEW S, IsFiniteSet(S), NEW f \in [S -> Nat]
    PROVE  IsFiniteSet(Units(f, S))
<1>1. IsFiniteSet({{x} \X (1 .. f[x]) : x \in S})
  <2> DEFINE T == {{x} \X (1 .. f[x]) : x \in S}
             g == [x \in S |-> {x} \X (1 .. f[x])]
  <2>1. g \in [S -> T] /\ \A t \in T : \E x \in S : g[x] = t
    OBVIOUS
  <2>2. g \in Surjection(S, T)
    <3> HIDE DEF T, g
    <3> QED  BY <2>1 DEF Surjection
  <2> QED  BY <2>2, FS_Surjection DEF ExistsSurjection
<1>2. \A T \in {{x} \X (1 .. f[x]) : x \in S} : IsFiniteSet(T)
  <2> SUFFICES ASSUME NEW x \in S
               PROVE  IsFiniteSet({x} \X (1 .. f[x]))
    OBVIOUS
  <2>1. IsFiniteSet({x}) /\ IsFiniteSet(1 .. f[x])
    <3>1. f[x] \in Int /\ 1 \in Int
      OBVIOUS
    <3>2. IsFiniteSet(1 .. f[x])
      BY <3>1, FS_Interval
    <3> QED  BY <3>2, FS_Singleton
  <2> QED  BY <2>1, FS_Product
<1> QED  BY <1>1, <1>2, FS_UNION DEF Units

\* A total is a natural number.
LEMMA SumNat ==
    ASSUME NEW S, IsFiniteSet(S), NEW f \in [S -> Nat]
    PROVE  Sum(f) \in Nat
<1>1. Sum(f) = Cardinality(Units(f, S))
  BY DEF Sum, Units
<1> QED  BY <1>1, UnitsFinite, FS_CardinalityType

\* The total without one element, and what the element adds.
LEMMA SumSplit ==
    ASSUME NEW S, IsFiniteSet(S), NEW f \in [S -> Nat], NEW x \in S
    PROVE  /\ Cardinality(Units(f, S \ {x})) \in Nat
           /\ Sum(f) = Cardinality(Units(f, S \ {x})) + f[x]
<1> DEFINE mine == {x} \X (1 .. f[x])
           others == Units(f, S \ {x})
<1>1. IsFiniteSet(others)
  <2>1. IsFiniteSet(Units(f, S))
    BY UnitsFinite
  <2>2. others \subseteq Units(f, S)
    BY DEF Units
  <2> QED  BY <2>1, <2>2, FS_Subset
<1>2. f[x] \in Nat /\ f[x] \in Int /\ 1 \in Int
  OBVIOUS
<1>3. IsFiniteSet(mine) /\ Cardinality(mine) = f[x]
  <2>1. IsFiniteSet({x}) /\ Cardinality({x}) = 1
    BY FS_Singleton
  <2>2. IsFiniteSet(1 .. f[x]) /\ Cardinality(1 .. f[x]) = f[x]
    BY <1>2, FS_Interval
  <2>3. IsFiniteSet(mine) /\ Cardinality(mine) = 1 * f[x]
    BY <2>1, <2>2, FS_Product
  <2> QED  BY <1>2, <2>3
<1>4. Units(f, S) = others \cup mine
  BY DEF Units
<1>5. others \cap mine = {}
  BY DEF Units
<1>6. Cardinality(others) \in Nat
  BY <1>1, FS_CardinalityType
<1>7. Cardinality(others \cup mine) = Cardinality(others) + Cardinality(mine) - Cardinality(others \cap mine)
  <2> HIDE DEF others, mine
  <2> QED  BY <1>1, <1>3, FS_Union
<1>8. Cardinality(others \cap mine) = 0
  BY <1>5, FS_EmptySet
<1>9. Sum(f) = Cardinality(others \cup mine)
  BY <1>4 DEF Sum, Units
<1> HIDE DEF others, mine
<1>10. Sum(f) = Cardinality(others) + f[x]
  BY <1>2, <1>3, <1>6, <1>7, <1>8, <1>9
<1> QED  BY <1>6, <1>10 DEF others

\* A total changes by what one element changes.
LEMMA SumChange ==
    ASSUME NEW S, IsFiniteSet(S), NEW f \in [S -> Nat], NEW g \in [S -> Nat], NEW x \in S,
           \A y \in S : y # x => g[y] = f[y]
    PROVE  Sum(f) \in Nat /\ Sum(g) \in Nat /\ Sum(g) = Sum(f) - f[x] + g[x]
<1>1. Units(g, S \ {x}) = Units(f, S \ {x})
  BY DEF Units
<1> DEFINE n == Cardinality(Units(f, S \ {x}))
<1>2. n \in Nat /\ Sum(f) = n + f[x]
  BY SumSplit
<1>3. Sum(g) = n + g[x]
  BY <1>1, SumSplit
<1>4. f[x] \in Nat /\ g[x] \in Nat
  OBVIOUS
<1> HIDE DEF n
<1> QED  BY <1>2, <1>3, <1>4

\* A total of nothing.
LEMMA SumOfNothing ==
    ASSUME NEW S, NEW f \in [S -> Nat], \A x \in S : f[x] = 0
    PROVE  Sum(f) = 0
<1>1. UNION {{x} \X (1 .. f[x]) : x \in S} = {}
  <2>1. \A x \in S : 1 .. f[x] = {}
    OBVIOUS
  <2> QED  BY <2>1
<1> QED  BY <1>1, FS_EmptySet DEF Sum
-----------------------------------------------------------------------------
(* Programs. *)

\* The parts of a lock statement.
LEMMA LockSt == \A kind, id : LockOf(kind, id).do = "lock" /\ LockOf(kind, id).arg = Update(kind, id)
BY DEF LockOf, St

\* More done supports as much.
LEMMA Monotone ==
    ASSUME NEW x, NEW D, NEW E, D \subseteq E, Supported(x, D)
    PROVE  Supported(x, E)
<1>1. \A p, st : Drafts(D, p, st) => Drafts(E, p, st)
  BY DEF Drafts
<1> QED  BY <1>1 DEF Supported

\* No statements are a program.
LEMMA EmptyProgram == ASSUME NEW D, NEW F
                      PROVE  Program(<<>>, D, F)
BY DEF Program

\* One statement is a program if it is supported and followed.
LEMMA SingleProgram ==
    ASSUME NEW x \in Statements, NEW D, NEW F, Supported(x, D), Followed(x, F)
    PROVE  Program(<<x>>, D, F) /\ Elements(<<x>>) = {x}
<1> DEFINE q == <<x>>
<1>1. q \in Seq(Statements) /\ Len(q) = 1 /\ q[1] = x /\ DOMAIN q = {1}
  OBVIOUS
<1> HIDE DEF q
<1>2. Before(q, 1) = {} /\ After(q, 1) = {}
  BY <1>1 DEF Before, After
<1>3. D \cup {} = D /\ {} \cup F = F
  OBVIOUS
<1>4. Supported(q[1], D \cup Before(q, 1)) /\ Followed(q[1], After(q, 1) \cup F)
  BY <1>1, <1>2, <1>3
<1>5. \A i \in 1 .. Len(q) : i = 1
  BY <1>1
<1>6. Program(q, D, F)
  BY <1>1, <1>4, <1>5 DEF Program
<1>7. Elements(q) = {x}
  BY <1>1 DEF Elements
<1> QED  BY <1>6, <1>7 DEF q

\* The positions of a sequence that is another after one.
LEMMA Joined ==
    ASSUME NEW q \in Seq(Statements), NEW r \in Seq(Statements)
    PROVE  /\ q \o r \in Seq(Statements)
           /\ Len(q) \in Nat /\ Len(r) \in Nat /\ Len(q \o r) = Len(q) + Len(r)
           /\ \A i \in 1 .. Len(q) : (q \o r)[i] = q[i]
           /\ \A i \in 1 .. Len(r) : (q \o r)[Len(q) + i] = r[i]
OBVIOUS

\* The statements of two sequences, one after the other.
LEMMA JoinedElements ==
    ASSUME NEW q \in Seq(Statements), NEW r \in Seq(Statements)
    PROVE  Elements(q \o r) = Elements(q) \cup Elements(r)
<1> DEFINE m == Len(q)
           n == Len(r)
           qr == q \o r
<1>1. /\ m \in Nat /\ n \in Nat
      /\ \A i \in 1 .. m : qr[i] = q[i]
      /\ \A i \in 1 .. n : qr[m + i] = r[i]
      /\ DOMAIN q = 1 .. m /\ DOMAIN r = 1 .. n /\ DOMAIN qr = 1 .. (m + n)
  BY Joined
<1> HIDE DEF m, n, qr
<1>2. \A i \in 1 .. (m + n) : i \in 1 .. m \/ \E j \in 1 .. n : i = m + j
  <2> SUFFICES ASSUME NEW i \in 1 .. (m + n), i \notin 1 .. m
               PROVE  \E j \in 1 .. n : i = m + j
    OBVIOUS
  <2>1. i - m \in 1 .. n /\ i = m + (i - m)
    BY <1>1
  <2> QED  BY <2>1
<1>3. \A i \in 1 .. m : i \in 1 .. (m + n)
  BY <1>1
<1>4. \A i \in 1 .. n : m + i \in 1 .. (m + n)
  BY <1>1
<1>5. {qr[i] : i \in 1 .. (m + n)} \subseteq {q[i] : i \in 1 .. m} \cup {r[i] : i \in 1 .. n}
  BY <1>1, <1>2
<1>6. {q[i] : i \in 1 .. m} \subseteq {qr[i] : i \in 1 .. (m + n)}
  BY <1>1, <1>3
<1>7. {r[i] : i \in 1 .. n} \subseteq {qr[i] : i \in 1 .. (m + n)}
  BY <1>1, <1>4
<1>8. {qr[i] : i \in 1 .. (m + n)} = {q[i] : i \in 1 .. m} \cup {r[i] : i \in 1 .. n}
  BY <1>5, <1>6, <1>7
<1> QED  BY <1>1, <1>8 DEF Elements, qr

\* A program after a program is a program.
LEMMA JoinPrograms ==
    ASSUME NEW q, NEW r, NEW D, NEW F,
           Program(q, D, Elements(r) \cup F), Program(r, D \cup Elements(q), F)
    PROVE  Program(q \o r, D, F) /\ Elements(q \o r) = Elements(q) \cup Elements(r)
<1> DEFINE m == Len(q)
           n == Len(r)
           qr == q \o r
<1>0. q \in Seq(Statements) /\ r \in Seq(Statements)
  BY DEF Program
<1>1. /\ qr \in Seq(Statements) /\ Len(qr) = m + n
      /\ m \in Nat /\ n \in Nat
      /\ \A i \in 1 .. m : qr[i] = q[i]
      /\ \A i \in 1 .. n : qr[m + i] = r[i]
      /\ DOMAIN q = 1 .. m /\ DOMAIN r = 1 .. n
  BY <1>0, Joined
<1>2. /\ \A i \in 1 .. m : Supported(q[i], D \cup Before(q, i))
      /\ \A i \in 1 .. m : Followed(q[i], After(q, i) \cup (Elements(r) \cup F))
      /\ \A i \in 1 .. n : Supported(r[i], (D \cup Elements(q)) \cup Before(r, i))
      /\ \A i \in 1 .. n : Followed(r[i], After(r, i) \cup F)
  BY DEF Program
<1>3. Elements(qr) = Elements(q) \cup Elements(r)
  BY <1>0, JoinedElements
<1> HIDE DEF m, n, qr
<1>4. Len(qr) \in Nat
  BY <1>1
<1>5. ASSUME NEW i \in 1 .. Len(qr)
      PROVE  Supported(qr[i], D \cup Before(qr, i)) /\ Followed(qr[i], After(qr, i) \cup F)
  <2>1. CASE i \in 1 .. m
    <3>1. \A j \in 1 .. (i - 1) : j \in 1 .. m
      BY <1>1, <2>1
    <3>2. Before(qr, i) = Before(q, i)
      BY <1>1, <3>1 DEF Before
    <3>3. \A j \in (i + 1) .. (m + n) : j \in (i + 1) .. m \/ \E k \in 1 .. n : j = m + k
      <4> SUFFICES ASSUME NEW j \in (i + 1) .. (m + n), j \notin (i + 1) .. m
                   PROVE  \E k \in 1 .. n : j = m + k
        OBVIOUS
      <4>1. j - m \in 1 .. n /\ j = m + (j - m)
        BY <1>1, <2>1
      <4> QED  BY <4>1
    <3>4. \A j \in (i + 1) .. m : j \in 1 .. m /\ j \in (i + 1) .. (m + n)
      BY <1>1, <2>1
    <3>5. \A k \in 1 .. n : m + k \in (i + 1) .. (m + n)
      BY <1>1, <2>1
    <3>6. After(qr, i) = After(q, i) \cup Elements(r)
      <4>1. After(qr, i) = {qr[j] : j \in (i + 1) .. (m + n)}
        BY <1>1 DEF After
      <4>2. After(q, i) = {q[j] : j \in (i + 1) .. m}
        BY DEF After, m
      <4>3. Elements(r) = {r[k] : k \in 1 .. n}
        BY <1>1 DEF Elements
      <4>4. {qr[j] : j \in (i + 1) .. (m + n)} \subseteq {q[j] : j \in (i + 1) .. m} \cup {r[k] : k \in 1 .. n}
        BY <1>1, <3>3, <3>4
      <4>5. {q[j] : j \in (i + 1) .. m} \subseteq {qr[j] : j \in (i + 1) .. (m + n)}
        BY <1>1, <3>4
      <4>6. {r[k] : k \in 1 .. n} \subseteq {qr[j] : j \in (i + 1) .. (m + n)}
        BY <1>1, <3>5
      <4> QED  BY <4>1, <4>2, <4>3, <4>4, <4>5, <4>6
    <3>7. After(qr, i) \cup F = After(q, i) \cup (Elements(r) \cup F)
      BY <3>6
    <3> QED  BY <1>1, <1>2, <2>1, <3>2, <3>7
  <2>2. CASE i \notin 1 .. m
    <3>1. PICK k \in 1 .. n : i = m + k
      <4>1. i - m \in 1 .. n /\ i = m + (i - m)
        BY <1>1, <2>2
      <4> QED  BY <4>1
    <3>2. qr[i] = r[k]
      BY <1>1, <3>1
    <3>3. Elements(q) \cup Before(r, k) \subseteq Before(qr, i)
      <4>1. \A j \in 1 .. m : j \in 1 .. (i - 1)
        BY <1>1, <3>1
      <4>2. \A j \in 1 .. (k - 1) : m + j \in 1 .. (i - 1) /\ j \in 1 .. n
        BY <1>1, <3>1
      <4>3. Elements(q) \subseteq Before(qr, i)
        BY <1>1, <4>1 DEF Elements, Before
      <4>4. Before(r, k) \subseteq Before(qr, i)
        BY <1>1, <4>2 DEF Before
      <4> QED  BY <4>3, <4>4
    <3>4. Supported(qr[i], D \cup Before(qr, i))
      <4>1. (D \cup Elements(q)) \cup Before(r, k) \subseteq D \cup Before(qr, i)
        BY <3>3
      <4>2. Supported(r[k], (D \cup Elements(q)) \cup Before(r, k))
        BY <1>2
      <4> QED  BY <3>2, <4>1, <4>2, Monotone
    <3>5. After(qr, i) = After(r, k)
      <4>1. \A j \in (i + 1) .. (m + n) : j - m \in (k + 1) .. n /\ j = m + (j - m) /\ j - m \in 1 .. n
        BY <1>1, <3>1
      <4>2. \A j \in (k + 1) .. n : m + j \in (i + 1) .. (m + n) /\ j \in 1 .. n
        BY <1>1, <3>1
      <4>3. After(qr, i) = {qr[j] : j \in (i + 1) .. (m + n)}
        BY <1>1 DEF After
      <4>4. After(r, k) = {r[j] : j \in (k + 1) .. n}
        BY DEF After, n
      <4>5. {qr[j] : j \in (i + 1) .. (m + n)} \subseteq {r[j] : j \in (k + 1) .. n}
        <5> SUFFICES ASSUME NEW j \in (i + 1) .. (m + n)
                     PROVE  qr[j] \in {r[l] : l \in (k + 1) .. n}
          OBVIOUS
        <5>1. j - m \in (k + 1) .. n /\ j = m + (j - m) /\ j - m \in 1 .. n
          BY <4>1
        <5>2. qr[m + (j - m)] = r[j - m]
          BY <1>1, <5>1
        <5> QED  BY <5>1, <5>2
      <4>6. {r[j] : j \in (k + 1) .. n} \subseteq {qr[j] : j \in (i + 1) .. (m + n)}
        BY <1>1, <4>2
      <4> QED  BY <4>3, <4>4, <4>5, <4>6
    <3> QED  BY <1>2, <3>2, <3>4, <3>5
  <2> QED  BY <2>1, <2>2
<1>6. Program(qr, D, F)
  BY <1>1, <1>5 DEF Program
<1> QED  BY <1>3, <1>6 DEF qr

\* What is left of a program after its first statement is a program.
LEMMA RestProgram ==
    ASSUME NEW q, NEW D, NEW F, Program(q, D, F), q # <<>>
    PROVE  /\ Head(q) \in Statements /\ Supported(Head(q), D)
           /\ Followed(Head(q), Elements(Tail(q)) \cup F)
           /\ Program(Tail(q), D \cup {Head(q)}, F)
           /\ Elements(q) = {Head(q)} \cup Elements(Tail(q))
<1> DEFINE r == Tail(q)
           n == Len(r)
           h == Head(q)
<1>1. q \in Seq(Statements)
  BY DEF Program
<1>2. /\ r \in Seq(Statements) /\ n \in Nat /\ Len(q) = n + 1 /\ Len(q) \in Nat
      /\ \A i \in 1 .. n : r[i] = q[i + 1]
      /\ DOMAIN r = 1 .. n /\ DOMAIN q = 1 .. (n + 1)
      /\ h = q[1] /\ h \in Statements
  BY <1>1
<1> HIDE DEF r, n, h
<1>3. \A i \in 1 .. (n + 1) : Supported(q[i], D \cup Before(q, i)) /\ Followed(q[i], After(q, i) \cup F)
  BY <1>2 DEF Program
<1>4. 1 \in 1 .. (n + 1)
  BY <1>2
<1>5. Before(q, 1) = {} /\ D \cup {} = D
  BY DEF Before
<1>6. Supported(h, D)
  <2>1. Supported(q[1], D \cup Before(q, 1))
    BY <1>3, <1>4
  <2> QED  BY <1>2, <1>5, <2>1
<1>7. \A i \in 1 .. n : i + 1 \in 1 .. (n + 1) /\ i + 1 \in 2 .. (n + 1)
  BY <1>2
<1>8. \A j \in 2 .. (n + 1) : j - 1 \in 1 .. n /\ j = (j - 1) + 1
  BY <1>2
<1>9. After(q, 1) = Elements(r)
  <2>1. After(q, 1) = {q[j] : j \in 2 .. (n + 1)}
    BY <1>2 DEF After
  <2>2. Elements(r) = {r[i] : i \in 1 .. n}
    BY <1>2 DEF Elements
  <2>3. {q[j] : j \in 2 .. (n + 1)} \subseteq {r[i] : i \in 1 .. n}
    <3> SUFFICES ASSUME NEW j \in 2 .. (n + 1)
                 PROVE  q[j] \in {r[i] : i \in 1 .. n}
      OBVIOUS
    <3>1. j - 1 \in 1 .. n /\ j = (j - 1) + 1
      BY <1>8
    <3>2. r[j - 1] = q[(j - 1) + 1]
      BY <1>2, <3>1
    <3> QED  BY <3>1, <3>2
  <2>4. {r[i] : i \in 1 .. n} \subseteq {q[j] : j \in 2 .. (n + 1)}
    BY <1>2, <1>7
  <2> QED  BY <2>1, <2>2, <2>3, <2>4
<1>10. Followed(h, Elements(r) \cup F)
  <2>1. Followed(q[1], After(q, 1) \cup F)
    BY <1>3, <1>4
  <2> QED  BY <1>2, <1>9, <2>1
<1>11. Elements(q) = {h} \cup Elements(r)
  <2>1. \A j \in 1 .. (n + 1) : j = 1 \/ j \in 2 .. (n + 1)
    BY <1>2
  <2>2. After(q, 1) = {q[j] : j \in 2 .. (n + 1)}
    BY <1>2 DEF After
  <2>3. \A j \in 2 .. (n + 1) : j \in 1 .. (n + 1)
    BY <1>2
  <2>4. Elements(q) = {q[j] : j \in 1 .. (n + 1)}
    BY <1>2 DEF Elements
  <2>5. {q[j] : j \in 1 .. (n + 1)} = {q[1]} \cup {q[j] : j \in 2 .. (n + 1)}
    BY <1>4, <2>1, <2>3
  <2> QED  BY <1>2, <1>9, <2>2, <2>4, <2>5
<1>12. ASSUME NEW i \in 1 .. n
       PROVE  Supported(r[i], (D \cup {h}) \cup Before(r, i)) /\ Followed(r[i], After(r, i) \cup F)
  <2>1. i + 1 \in 1 .. (n + 1) /\ r[i] = q[i + 1]
    BY <1>2, <1>7
  <2>2. Before(q, i + 1) \subseteq {h} \cup Before(r, i)
    <3> SUFFICES ASSUME NEW j \in 1 .. i
                 PROVE  q[j] = h \/ q[j] \in {r[k] : k \in 1 .. (i - 1)}
      BY DEF Before
    <3>1. j = 1 \/ (j - 1 \in 1 .. (i - 1) /\ j - 1 \in 1 .. n /\ j = (j - 1) + 1)
      BY <1>2
    <3>2. CASE j = 1
      BY <1>2, <3>2
    <3>3. CASE j - 1 \in 1 .. (i - 1) /\ j - 1 \in 1 .. n /\ j = (j - 1) + 1
      <4>1. r[j - 1] = q[(j - 1) + 1]
        BY <1>2, <3>3
      <4> QED  BY <3>3, <4>1
    <3> QED  BY <3>1, <3>2, <3>3
  <2>3. After(q, i + 1) = After(r, i)
    <3>1. After(q, i + 1) = {q[j] : j \in (i + 2) .. (n + 1)}
      <4>1. (i + 1) + 1 = i + 2
        BY <1>2
      <4> QED  BY <1>2, <4>1 DEF After
    <3>2. After(r, i) = {r[j] : j \in (i + 1) .. n}
      BY DEF After, n
    <3>3. {q[j] : j \in (i + 2) .. (n + 1)} \subseteq {r[j] : j \in (i + 1) .. n}
      <4> SUFFICES ASSUME NEW j \in (i + 2) .. (n + 1)
                   PROVE  q[j] \in {r[k] : k \in (i + 1) .. n}
        OBVIOUS
      <4>1. j - 1 \in (i + 1) .. n /\ j - 1 \in 1 .. n /\ j = (j - 1) + 1
        BY <1>2
      <4>2. r[j - 1] = q[(j - 1) + 1]
        BY <1>2, <4>1
      <4> QED  BY <4>1, <4>2
    <3>4. {r[j] : j \in (i + 1) .. n} \subseteq {q[j] : j \in (i + 2) .. (n + 1)}
      <4>1. \A j \in (i + 1) .. n : j \in 1 .. n /\ j + 1 \in (i + 2) .. (n + 1)
        BY <1>2
      <4> QED  BY <1>2, <4>1
    <3> QED  BY <3>1, <3>2, <3>3, <3>4
  <2>4. D \cup Before(q, i + 1) \subseteq (D \cup {h}) \cup Before(r, i)
    BY <2>2
  <2>5. Supported(q[i + 1], D \cup Before(q, i + 1)) /\ Followed(q[i + 1], After(q, i + 1) \cup F)
    BY <1>3, <2>1
  <2> QED  BY <2>1, <2>3, <2>4, <2>5, Monotone
<1>13. Program(r, D \cup {h}, F)
  BY <1>2, <1>12 DEF Program, n
<1> QED  BY <1>2, <1>6, <1>10, <1>11, <1>13 DEF r, h
-----------------------------------------------------------------------------
(* The handlers are programs. *)

\* Statements that need nothing after them but some other statement.
Plain == {"lock", "open", "free", "payable", "expect", "number", "unreversed", "afford"}

\* Statements that need only be followed by something.
LEMMA PlainFollowed ==
    ASSUME NEW x, NEW F, x.do \in Plain, F # {}
    PROVE  Followed(x, F)
BY DEF Followed, Plain

\* The statements there are.
LEMMA StatementKinds ==
    /\ \A row \in Rows, mode \in Modes : St("lock", <<row, mode>>) \in Statements
    /\ \A do \in {"open", "free", "payable"}, p \in PaymentIds, b \in Bills :
          St(do, <<p, b>>) \in Statements
    /\ \A do \in {"expect", "insert", "set"}, p \in PaymentIds, st \in PaymentStatuses :
          St(do, <<p, st>>) \in Statements
    /\ \A do \in {"number", "settle", "unreversed"}, p \in PaymentIds : St(do, p) \in Statements
    /\ \A do \in {"reconcile", "cancel"}, b \in Bills : St(do, b) \in Statements
    /\ \A l \in Locations, n \in Nat : St("afford", <<l, n>>) \in Statements
    /\ \A row \in Postings : St("post", row) \in Statements
    /\ \A x \in PaymentIds \cup Bills \cup Locations : St("commit", x) \in Statements
BY DEF Statements, St

\* The parts of a statement.
LEMMA StIs == \A do, arg : St(do, arg).do = do /\ St(do, arg).arg = arg /\ Do(do, arg) = <<St(do, arg)>>
BY DEF St, Do

\* The rows there are to lock.
LEMMA RowKinds ==
    /\ \A p \in PaymentIds : <<"payment", p>> \in Rows
    /\ \A b \in Bills : <<"bill", b>> \in Rows
    /\ \A d \in Dues : <<"due", d>> \in Rows
    /\ \A l \in Locations : <<"location", l>> \in Rows
    /\ \A n \in Nat : <<"payment_no", n>> \in Rows
    /\ <<"rts", "rt">> \in Rows /\ <<"advisory", "kas_ref">> \in Rows
    /\ "update" \in Modes /\ "key share" \in Modes
BY DEF Rows, Modes

\* One statement.
LEMMA OneStatement ==
    ASSUME NEW do, NEW arg, NEW D, NEW F, St(do, arg) \in Statements,
           Supported(St(do, arg), D), Followed(St(do, arg), F)
    PROVE  Program(Do(do, arg), D, F) /\ Elements(Do(do, arg)) = {St(do, arg)}
BY StIs, SingleProgram

\* A lock or another statement that builds on nothing.
LEMMA FreeStatement ==
    ASSUME NEW do \in {"lock", "number", "unreversed"}, NEW arg, St(do, arg) \in Statements,
           NEW D, NEW F, F # {}
    PROVE  Program(Do(do, arg), D, F) /\ Elements(Do(do, arg)) = {St(do, arg)}
<1>1. St(do, arg).do = do
  BY StIs
<1>2. Followed(St(do, arg), F)
  BY <1>1, PlainFollowed DEF Plain
<1>3. Supported(St(do, arg), D)
  BY <1>1 DEF Supported
<1> QED  BY <1>2, <1>3, OneStatement

\* The orders in which the bills of a payment are locked.
LEMMA OrderIs ==
    ASSUME NEW p, NEW order \in Unordered(Covers(p))
    PROVE  \E n \in Nat : /\ order \in [1 .. n -> Bills]
                          /\ \A b \in Covers(p) : \E k \in 1 .. n : order[k] = b
<1>1. Covers(p) \subseteq Bills
  BY DEF Covers
<1>2. Cardinality(Covers(p)) \in Nat
  BY <1>1, FiniteTables, FS_Subset, FS_CardinalityType
<1>3. /\ order \in [1 .. Cardinality(Covers(p)) -> Covers(p)]
      /\ \A b \in Covers(p) : \E i \in DOMAIN order : order[i] = b
  BY DEF Unordered
<1>4. order \in [1 .. Cardinality(Covers(p)) -> Bills]
  BY <1>1, <1>3
<1> QED  BY <1>2, <1>3, <1>4

\* Sorting yields one of the orders.
LEMMA SortedIs == \A p : Sorted(Covers(p)) \subseteq Unordered(Covers(p))
BY DEF Sorted

\* The loops: four statements for each bill.
LEMMA LoopIs ==
    ASSUME NEW n \in Nat, NEW order \in [1 .. n -> Bills], NEW f,
           \A b \in Bills : f[b] \in Seq(Statements) /\ Len(f[b]) = 4
    PROVE  /\ ForEach(order, f) \in Seq(Statements)
           /\ Len(ForEach(order, f)) = 4 * n
           /\ \A k \in 1 .. n, j \in 1 .. 4 : ForEach(order, f)[4 * (k - 1) + j] = f[order[k]][j]
<1>1. order \in Seq(Bills) /\ Len(order) = n
  OBVIOUS
<1>2. CASE n = 0
  <2>1. order = <<>>
    BY <1>1, <1>2
  <2>2. ForEach(order, f) = <<>>
    BY <2>1 DEF ForEach
  <2> QED  BY <1>2, <2>2
<1>3. CASE n # 0
  <2>1. order # <<>> /\ 1 \in 1 .. n /\ order[1] \in Bills
    BY <1>1, <1>3
  <2>2. Len(f[order[1]]) = 4
    BY <2>1
  <2> DEFINE loop == [i \in 1 .. 4 * n |-> f[order[1 + ((i - 1) \div 4)]][1 + ((i - 1) % 4)]]
  <2>3. ForEach(order, f) = loop
    BY <1>1, <2>1, <2>2 DEF ForEach
  <2>4. \A i \in 1 .. 4 * n : 1 + ((i - 1) \div 4) \in 1 .. n /\ 1 + ((i - 1) % 4) \in 1 .. 4
    OBVIOUS
  <2>5. \A i \in 1 .. 4 * n : loop[i] \in Statements
    <3> SUFFICES ASSUME NEW i \in 1 .. 4 * n
                 PROVE  loop[i] \in Statements
      OBVIOUS
    <3> DEFINE b == order[1 + ((i - 1) \div 4)]
               j == 1 + ((i - 1) % 4)
    <3>1. b \in Bills /\ j \in 1 .. 4
      BY <2>4
    <3>2. loop[i] = f[b][j]
      OBVIOUS
    <3> HIDE DEF b, j, loop
    <3>3. f[b] \in Seq(Statements) /\ Len(f[b]) = 4
      BY <3>1
    <3>4. f[b][j] \in Statements
      BY <3>1, <3>3
    <3> QED  BY <3>2, <3>4
  <2>6. loop \in [1 .. 4 * n -> Statements]
    BY <2>5
  <2>7. 4 * n \in Nat
    OBVIOUS
  <2>8. loop \in Seq(Statements) /\ Len(loop) = 4 * n
    <3> HIDE DEF loop
    <3> QED  BY <2>6, <2>7
  <2>9. ASSUME NEW k \in 1 .. n, NEW j \in 1 .. 4
        PROVE  loop[4 * (k - 1) + j] = f[order[k]][j]
    <3>1. 4 * (k - 1) + j \in 1 .. 4 * n
      OBVIOUS
    <3>2. 1 + (((4 * (k - 1) + j) - 1) \div 4) = k
      OBVIOUS
    <3>3. 1 + (((4 * (k - 1) + j) - 1) % 4) = j
      OBVIOUS
    <3> QED  BY <3>1, <3>2, <3>3
  <2> QED  BY <2>3, <2>8, <2>9
<1> QED  BY <1>2, <1>3

\* A loop is a program if the statements for one bill are.
LEMMA LoopProgram ==
    ASSUME NEW n \in Nat, NEW order \in [1 .. n -> Bills], NEW f, NEW D, NEW F,
           \A b \in Bills : f[b] \in Seq(Statements) /\ Len(f[b]) = 4,
           \A b \in Bills : \A j \in 1 .. 4 : Supported(f[b][j], D \cup Before(f[b], j)),
           \A b \in Bills : \A j \in 1 .. 4 :
              \A G : (\A x \in G : \E c \in Bills : x \in Elements(f[c])) => Followed(f[b][j], G \cup F)
    PROVE  /\ Program(ForEach(order, f), D, F)
           /\ \A x \in Elements(ForEach(order, f)) : \E c \in Bills : x \in Elements(f[c])
           /\ \A k \in 1 .. n : Elements(f[order[k]]) \subseteq Elements(ForEach(order, f))
<1> DEFINE q == ForEach(order, f)
<1>0. /\ q \in Seq(Statements) /\ Len(q) = 4 * n
      /\ \A k \in 1 .. n, j \in 1 .. 4 : q[4 * (k - 1) + j] = f[order[k]][j]
  BY LoopIs
<1>2. \A b \in Bills : Elements(f[b]) = {f[b][j] : j \in 1 .. 4}
  BY DEF Elements
<1> HIDE DEF q
<1>1. /\ q \in Seq(Statements) /\ Len(q) = 4 * n /\ DOMAIN q = 1 .. 4 * n
      /\ \A k \in 1 .. n, j \in 1 .. 4 : q[4 * (k - 1) + j] = f[order[k]][j]
  BY <1>0
<1>3. ASSUME NEW i \in 1 .. 4 * n
      PROVE  \E k \in 1 .. n, j \in 1 .. 4 : i = 4 * (k - 1) + j
  <2>1. 1 + ((i - 1) \div 4) \in 1 .. n /\ 1 + ((i - 1) % 4) \in 1 .. 4
    OBVIOUS
  <2>2. i = 4 * ((1 + ((i - 1) \div 4)) - 1) + (1 + ((i - 1) % 4))
    OBVIOUS
  <2> QED  BY <2>1, <2>2
<1>4. ASSUME NEW i \in 1 .. 4 * n
      PROVE  \E c \in Bills : q[i] \in Elements(f[c])
  <2>1. PICK k \in 1 .. n, j \in 1 .. 4 : i = 4 * (k - 1) + j
    BY <1>3
  <2>2. q[i] = f[order[k]][j] /\ order[k] \in Bills
    BY <1>1, <2>1
  <2> QED  BY <1>2, <2>2
<1>5. ASSUME NEW i \in 1 .. 4 * n
      PROVE  Supported(q[i], D \cup Before(q, i)) /\ Followed(q[i], After(q, i) \cup F)
  <2>1. PICK k \in 1 .. n, j \in 1 .. 4 : i = 4 * (k - 1) + j
    BY <1>3
  <2>2. q[i] = f[order[k]][j] /\ order[k] \in Bills
    BY <1>1, <2>1
  <2> DEFINE b == order[k]
  <2>3. Before(f[b], j) \subseteq Before(q, i)
    <3> SUFFICES ASSUME NEW h \in 1 .. (j - 1)
                 PROVE  \E g \in 1 .. (i - 1) : f[b][h] = q[g]
      BY DEF Before
    <3>1. h \in 1 .. 4 /\ 4 * (k - 1) + h \in 1 .. (i - 1)
      BY <2>1
    <3> QED  BY <1>1, <3>1
  <2>4. D \cup Before(f[b], j) \subseteq D \cup Before(q, i)
    BY <2>3
  <2>5. Supported(f[b][j], D \cup Before(f[b], j))
    BY <2>2
  <2>6. \A x \in After(q, i) : \E c \in Bills : x \in Elements(f[c])
    <3> SUFFICES ASSUME NEW g \in (i + 1) .. 4 * n
                 PROVE  \E c \in Bills : q[g] \in Elements(f[c])
      BY <1>1 DEF After
    <3>1. g \in 1 .. 4 * n
      OBVIOUS
    <3> QED  BY <1>4, <3>1
  <2>7. Followed(f[b][j], After(q, i) \cup F)
    BY <2>2, <2>6
  <2> QED  BY <2>2, <2>4, <2>5, <2>7, Monotone
<1>6. Program(q, D, F)
  BY <1>1, <1>5 DEF Program
<1>7. \A x \in Elements(q) : \E c \in Bills : x \in Elements(f[c])
  BY <1>1, <1>4 DEF Elements
<1>8. ASSUME NEW k \in 1 .. n
      PROVE  Elements(f[order[k]]) \subseteq Elements(q)
  <2>1. order[k] \in Bills
    OBVIOUS
  <2>2. \A j \in 1 .. 4 : 4 * (k - 1) + j \in 1 .. 4 * n
    OBVIOUS
  <2>3. \A j \in 1 .. 4 : f[order[k]][j] \in Elements(q)
    BY <1>1, <2>2 DEF Elements
  <2>4. Elements(f[order[k]]) = {f[order[k]][j] : j \in 1 .. 4}
    BY <1>2, <2>1
  <2> QED  BY <2>3, <2>4
<1> QED  BY <1>6, <1>7, <1>8 DEF q

\* q is the statement x.
Lone(q, x) == q \in Seq(Statements) /\ Len(q) = 1 /\ q[1] = x

\* A sequence of one statement.
LEMMA LoneDo ==
    ASSUME NEW do, NEW arg, St(do, arg) \in Statements
    PROVE  Lone(Do(do, arg), St(do, arg))
<1> DEFINE x == St(do, arg)
<1>1. Do(do, arg) = <<x>>
  BY StIs
<1> HIDE DEF x
<1>2. ASSUME NEW y \in Statements
      PROVE  Lone(<<y>>, y)
  BY DEF Lone
<1> QED  BY <1>1, <1>2 DEF x

\* A statement is appended.
LEMMA OneMore ==
    ASSUME NEW q \in Seq(Statements), NEW r, NEW x, Lone(r, x)
    PROVE  /\ q \o r \in Seq(Statements) /\ Len(q) \in Nat /\ Len(q \o r) = Len(q) + 1
           /\ \A i \in 1 .. Len(q) : (q \o r)[i] = q[i]
           /\ (q \o r)[Len(q) + 1] = x
<1>1. r \in Seq(Statements) /\ Len(r) = 1 /\ r[1] = x /\ 1 \in 1 .. Len(r)
  BY DEF Lone
<1> QED  BY <1>1, Joined

\* q is the statements a, c, d and x.
Four(q, a, c, d, x) == /\ q \in Seq(Statements) /\ Len(q) = 4 /\ DOMAIN q = 1 .. 4
                       /\ q[1] = a /\ q[2] = c /\ q[3] = d /\ q[4] = x

\* Four statements, one after the other.
LEMMA FourIs ==
    ASSUME NEW t, NEW a, NEW u, NEW c, NEW v, NEW d, NEW w, NEW x,
           Lone(t, a), Lone(u, c), Lone(v, d), Lone(w, x),
           NEW four, four = ((t \o u) \o v) \o w
    PROVE  Four(four, a, c, d, x)
<1>1. t \in Seq(Statements) /\ Len(t) = 1 /\ t[1] = a
  BY DEF Lone
<1> DEFINE tu == t \o u
           tuv == tu \o v
           q == tuv \o w
<1>a. ASSUME NEW g \in Seq(Statements), NEW r, NEW y, Lone(r, y)
      PROVE  /\ g \o r \in Seq(Statements) /\ Len(g \o r) = Len(g) + 1
             /\ \A i \in 1 .. Len(g) : (g \o r)[i] = g[i]
             /\ (g \o r)[Len(g) + 1] = y
  BY <1>a, OneMore
<1>2. tu \in Seq(Statements) /\ Len(tu) = 2 /\ tu[1] = a /\ tu[2] = c
  <2>1. /\ tu \in Seq(Statements) /\ Len(tu) = Len(t) + 1
        /\ \A i \in 1 .. Len(t) : tu[i] = t[i]
        /\ tu[Len(t) + 1] = c
    BY <1>1, OneMore
  <2> HIDE DEF tu
  <2>2. 1 \in 1 .. Len(t) /\ Len(t) + 1 = 2
    BY <1>1
  <2> QED  BY <1>1, <2>1, <2>2
<1> HIDE DEF tu
<1>3. tuv \in Seq(Statements) /\ Len(tuv) = 3 /\ tuv[1] = a /\ tuv[2] = c /\ tuv[3] = d
  <2>1. /\ tuv \in Seq(Statements) /\ Len(tuv) = Len(tu) + 1
        /\ \A i \in 1 .. Len(tu) : tuv[i] = tu[i]
        /\ tuv[Len(tu) + 1] = d
    <3>1. tu \in Seq(Statements) /\ Lone(v, d)
      BY <1>2
    <3> HIDE DEF tuv
    <3>2. tuv = tu \o v
      BY DEF tuv
    <3> QED  BY <3>1, <3>2, <1>a
  <2> HIDE DEF tuv
  <2>2. 1 \in 1 .. Len(tu) /\ 2 \in 1 .. Len(tu) /\ Len(tu) + 1 = 3
    BY <1>2
  <2> QED  BY <1>2, <2>1, <2>2
<1> HIDE DEF tuv
<1>4. q \in Seq(Statements) /\ Len(q) = 4 /\ q[1] = a /\ q[2] = c /\ q[3] = d /\ q[4] = x
  <2>1. /\ q \in Seq(Statements) /\ Len(q) = Len(tuv) + 1
        /\ \A i \in 1 .. Len(tuv) : q[i] = tuv[i]
        /\ q[Len(tuv) + 1] = x
    <3>1. tuv \in Seq(Statements) /\ Lone(w, x)
      BY <1>3
    <3> HIDE DEF q
    <3>2. q = tuv \o w
      BY DEF q
    <3> QED  BY <3>1, <3>2, <1>a
  <2> HIDE DEF q
  <2>2. 1 \in 1 .. Len(tuv) /\ 2 \in 1 .. Len(tuv) /\ 3 \in 1 .. Len(tuv) /\ Len(tuv) + 1 = 4
    BY <1>3
  <2> QED  BY <1>3, <2>1, <2>2
<1> HIDE DEF q
<1>5. DOMAIN q = 1 .. 4
  BY <1>4
<1>6. q = four
  BY DEF q, tuv, tu
<1> QED  BY <1>4, <1>5, <1>6 DEF Four

\* The three locks on a bill, and a statement under them.
\* q locks b, with what it refers to, for the statement x.
OnBill(q, b, x) == /\ q \in Seq(Statements) /\ Len(q) = 4
                   /\ q[1] = LockOf("bill", b) /\ q[2].do = "lock" /\ q[3].do = "lock"
                   /\ q[4] = x
                   /\ Before(q, 4) = {q[1], q[2], q[3]} /\ Elements(q) = {q[1], q[2], q[3], q[4]}

\* What a handler does with a bill: three locks, then the statement it locked
\* the bill for.
LEMMA FourStatements ==
    ASSUME NEW b \in Bills, NEW do, NEW arg, St(do, arg) \in Statements,
           NEW q, q = BillGetByIDForUpdate(b) \o Do(do, arg)
    PROVE  OnBill(q, b, St(do, arg))
<1> DEFINE a == LockOf("bill", b)
           c == LockOf("due", DueOf[b])
           d == LockOf("rts", "rt")
           x == St(do, arg)
<1>1. DueOf[b] \in Dues
  BY Columns
<1>2. a \in Statements /\ c \in Statements /\ d \in Statements
  BY <1>1, RowKinds, StatementKinds DEF LockOf, Update
<1>3. /\ Lone(ForUpdate(<<"bill", b>>), a) /\ Lone(ForUpdate(<<"due", DueOf[b]>>), c)
      /\ Lone(ForUpdate(<<"rts", "rt">>), d) /\ Lone(Do(do, arg), x)
  BY <1>2, LoneDo DEF ForUpdate, LockOf, Update
<1>5. /\ q \in Seq(Statements) /\ Len(q) = 4 /\ DOMAIN q = 1 .. 4
      /\ q[1] = a /\ q[2] = c /\ q[3] = d /\ q[4] = x
  <2> DEFINE t == ForUpdate(<<"bill", b>>)
             u == ForUpdate(<<"due", DueOf[b]>>)
             v == ForUpdate(<<"rts", "rt">>)
             w == Do(do, arg)
  <2>1. q = ((t \o u) \o v) \o w
    BY DEF BillGetByIDForUpdate
  <2> HIDE DEF a, c, d, x, t, u, v, w
  <2>2. Lone(t, a) /\ Lone(u, c) /\ Lone(v, d) /\ Lone(w, x)
    BY <1>3 DEF t, u, v, w
  <2>3. Four(q, a, c, d, x)
    BY <2>1, <2>2, FourIs, Zenon
  <2> QED  BY <2>3 DEF Four
<1>4. a.do = "lock" /\ c.do = "lock" /\ d.do = "lock"
  BY LockSt
<1> HIDE DEF a, c, d, x
<1>6. 1 .. (4 - 1) = {1, 2, 3} /\ 1 .. 4 = {1, 2, 3, 4}
  OBVIOUS
<1>7. Before(q, 4) = {q[1], q[2], q[3]}
  BY <1>6 DEF Before
<1>8. Elements(q) = {q[1], q[2], q[3], q[4]}
  BY <1>5, <1>6 DEF Elements
<1> QED  BY <1>4, <1>5, <1>7, <1>8 DEF a, x, OnBill

\* Every bill of a payment is locked and checked.
LEMMA CheckLoop ==
    ASSUME NEW p \in PaymentIds, NEW check \in {"open", "free", "payable"},
           NEW order \in Unordered(Covers(p)), NEW D, NEW F, F # {},
           check = "payable" => St("expect", <<p, "PENDING">>) \in D
    PROVE  LET loop == ForEach(order, LockAndCheck(p, check))
           IN  /\ Program(loop, D, F)
               /\ \A x \in Elements(loop) : x.do \in {"lock", check}
               /\ \A b \in Covers(p) : St(check, <<p, b>>) \in Elements(loop)
<1> DEFINE f == LockAndCheck(p, check)
<1>1. PICK n \in Nat : /\ order \in [1 .. n -> Bills]
                       /\ \A b \in Covers(p) : \E k \in 1 .. n : order[k] = b
  BY OrderIs
<1>2. ASSUME NEW b \in Bills
      PROVE  /\ f[b] \in Seq(Statements) /\ Len(f[b]) = 4
             /\ f[b][1] = LockOf("bill", b) /\ f[b][2].do = "lock" /\ f[b][3].do = "lock"
             /\ f[b][4] = St(check, <<p, b>>)
             /\ Before(f[b], 4) = {f[b][1], f[b][2], f[b][3]}
             /\ Elements(f[b]) = {f[b][1], f[b][2], f[b][3], f[b][4]}
  <2>1. St(check, <<p, b>>) \in Statements
    BY StatementKinds
  <2>2. f[b] = BillGetByIDForUpdate(b) \o Do(check, <<p, b>>)
    BY DEF LockAndCheck
  <2> HIDE DEF f
  <2>3. OnBill(f[b], b, St(check, <<p, b>>))
    BY <2>1, <2>2, FourStatements, Zenon
  <2> QED  BY <2>3 DEF OnBill
<1> HIDE DEF f
<1>3. \A b \in Bills : \A j \in 1 .. 4 : f[b][j].do \in {"lock", check}
  <2> SUFFICES ASSUME NEW b \in Bills, NEW j \in 1 .. 4
               PROVE  f[b][j].do \in {"lock", check}
    OBVIOUS
  <2>1. j \in {1, 2, 3, 4}
    OBVIOUS
  <2>2. LockOf("bill", b).do = "lock" /\ St(check, <<p, b>>).do = check
    BY LockSt, StIs
  <2> QED  BY <1>2, <2>1, <2>2
<1>4. \A b \in Bills : \A j \in 1 .. 4 : Supported(f[b][j], D \cup Before(f[b], j))
  <2> SUFFICES ASSUME NEW b \in Bills, NEW j \in 1 .. 4
               PROVE  Supported(f[b][j], D \cup Before(f[b], j))
    OBVIOUS
  <2>1. CASE j = 4
    <3>1. LockOf("bill", b) \in D \cup Before(f[b], j)
      BY <1>2, <2>1
    <3>2. /\ f[b][j].do = check /\ f[b][j].arg = <<p, b>>
      <4>1. f[b][j] = St(check, <<p, b>>)
        BY <1>2, <2>1
      <4> QED  BY <4>1, StIs
    <3>3. f[b][j].arg[1] = p /\ f[b][j].arg[2] = b
      BY <3>2
    <3> QED  BY <3>1, <3>2, <3>3 DEF Supported
  <2>2. CASE j # 4
    <3>1. j \in {1, 2, 3}
      BY <2>2
    <3>2. f[b][j].do = "lock"
      <4>1. f[b][j] = LockOf("bill", b) \/ f[b][j].do = "lock"
        BY <1>2, <3>1
      <4> QED  BY <4>1, LockSt
    <3> QED  BY <3>2 DEF Supported
  <2> QED  BY <2>1, <2>2
<1>5. \A b \in Bills : \A j \in 1 .. 4 :
         \A G : (\A x \in G : \E c \in Bills : x \in Elements(f[c])) => Followed(f[b][j], G \cup F)
  <2> SUFFICES ASSUME NEW b \in Bills, NEW j \in 1 .. 4, NEW G
               PROVE  Followed(f[b][j], G \cup F)
    OBVIOUS
  <2>1. f[b][j].do \in Plain
    BY <1>3 DEF Plain
  <2> QED  BY <2>1, PlainFollowed
<1>6. \A b \in Bills : f[b] \in Seq(Statements) /\ Len(f[b]) = 4
  BY <1>2
<1> DEFINE loop == ForEach(order, f)
<1>7. /\ Program(loop, D, F)
      /\ \A x \in Elements(loop) : \E c \in Bills : x \in Elements(f[c])
      /\ \A k \in 1 .. n : Elements(f[order[k]]) \subseteq Elements(loop)
  BY <1>1, <1>4, <1>5, <1>6, LoopProgram
<1> HIDE DEF loop
<1>8. \A x \in Elements(loop) : x.do \in {"lock", check}
  <2> SUFFICES ASSUME NEW x \in Elements(loop)
               PROVE  x.do \in {"lock", check}
    OBVIOUS
  <2>1. PICK c \in Bills : x \in Elements(f[c])
    BY <1>7
  <2>2. x \in {f[c][1], f[c][2], f[c][3], f[c][4]}
    BY <1>2, <2>1
  <2> QED  BY <1>3, <2>2
<1>9. \A b \in Covers(p) : St(check, <<p, b>>) \in Elements(loop)
  <2> SUFFICES ASSUME NEW b \in Covers(p)
               PROVE  St(check, <<p, b>>) \in Elements(loop)
    OBVIOUS
  <2>1. PICK k \in 1 .. n : order[k] = b
    BY <1>1
  <2>2. b \in Bills
    BY DEF Covers
  <2>3. f[b][4] \in Elements(f[b])
    BY <1>2, <2>2
  <2> QED  BY <1>2, <1>7, <2>1, <2>2, <2>3
<1> QED  BY <1>7, <1>8, <1>9 DEF loop, f

\* Every bill of a payment is locked and reconciled.
LEMMA ReconcileLoop ==
    ASSUME NEW p \in PaymentIds, NEW order \in Unordered(Covers(p)), NEW D, NEW F, F # {},
           \A x \in F : x.do \notin Early,
           \E st \in {"REJECTED", "REVERSED"} : St("set", <<p, st>>) \in D
    PROVE  /\ Program(ReconcileEach(order), D, F)
           /\ \A x \in Elements(ReconcileEach(order)) : x.do \in {"lock", "reconcile"}
           /\ \A b \in Covers(p) : St("reconcile", b) \in Elements(ReconcileEach(order))
<1> DEFINE f == [b \in Bills |-> Reconcile(b)]
<1>1. PICK n \in Nat : /\ order \in [1 .. n -> Bills]
                       /\ \A b \in Covers(p) : \E k \in 1 .. n : order[k] = b
  BY OrderIs
<1>2. ASSUME NEW b \in Bills
      PROVE  /\ f[b] \in Seq(Statements) /\ Len(f[b]) = 4
             /\ f[b][1] = LockOf("bill", b) /\ f[b][2].do = "lock" /\ f[b][3].do = "lock"
             /\ f[b][4] = St("reconcile", b)
             /\ Before(f[b], 4) = {f[b][1], f[b][2], f[b][3]}
             /\ Elements(f[b]) = {f[b][1], f[b][2], f[b][3], f[b][4]}
  <2>1. St("reconcile", b) \in Statements
    BY StatementKinds
  <2>2. f[b] = BillGetByIDForUpdate(b) \o Do("reconcile", b)
    BY DEF Reconcile
  <2> HIDE DEF f
  <2>3. OnBill(f[b], b, St("reconcile", b))
    BY <2>1, <2>2, FourStatements, Zenon
  <2> QED  BY <2>3 DEF OnBill
<1>a. ForEach(order, f) = ReconcileEach(order)
  BY DEF ReconcileEach
<1> HIDE DEF f
<1>3. \A b \in Bills : \A j \in 1 .. 4 : f[b][j].do \in {"lock", "reconcile"}
  <2> SUFFICES ASSUME NEW b \in Bills, NEW j \in 1 .. 4
               PROVE  f[b][j].do \in {"lock", "reconcile"}
    OBVIOUS
  <2>1. j \in {1, 2, 3, 4}
    OBVIOUS
  <2>2. LockOf("bill", b).do = "lock" /\ St("reconcile", b).do = "reconcile"
    BY LockSt, StIs
  <2> QED  BY <1>2, <2>1, <2>2
<1>4. \A b \in Bills : \A j \in 1 .. 4 : Supported(f[b][j], D \cup Before(f[b], j))
  <2> SUFFICES ASSUME NEW b \in Bills, NEW j \in 1 .. 4
               PROVE  Supported(f[b][j], D \cup Before(f[b], j))
    OBVIOUS
  <2>1. CASE j = 4
    <3>1. LockOf("bill", b) \in D \cup Before(f[b], j)
      BY <1>2, <2>1
    <3>2. /\ f[b][j].do = "reconcile" /\ f[b][j].arg = b
      BY <1>2, <2>1, StIs
    <3> QED  BY <3>1, <3>2 DEF Supported
  <2>2. CASE j # 4
    <3>1. j \in {1, 2, 3}
      BY <2>2
    <3>2. f[b][j].do = "lock"
      <4>1. f[b][j] = LockOf("bill", b) \/ f[b][j].do = "lock"
        BY <1>2, <3>1
      <4> QED  BY <4>1, LockSt
    <3> QED  BY <3>2 DEF Supported
  <2> QED  BY <2>1, <2>2
<1>b. \A G : (\A x \in G : \E c \in Bills : x \in Elements(f[c])) => \A x \in G : x.do \in {"lock", "reconcile"}
  <2> SUFFICES ASSUME NEW c \in Bills, NEW x \in Elements(f[c])
               PROVE  x.do \in {"lock", "reconcile"}
    OBVIOUS
  <2>1. x \in {f[c][1], f[c][2], f[c][3], f[c][4]}
    BY <1>2
  <2> QED  BY <1>3, <2>1
<1>5. \A b \in Bills : \A j \in 1 .. 4 :
         \A G : (\A x \in G : \E c \in Bills : x \in Elements(f[c])) => Followed(f[b][j], G \cup F)
  <2> SUFFICES ASSUME NEW b \in Bills, NEW j \in 1 .. 4, NEW G,
                      \A x \in G : \E c \in Bills : x \in Elements(f[c])
               PROVE  Followed(f[b][j], G \cup F)
    OBVIOUS
  <2>1. \A x \in G \cup F : x.do \notin Early
    BY <1>b DEF Early
  <2>2. f[b][j].do \in {"lock", "reconcile"}
    BY <1>3
  <2> QED  BY <2>1, <2>2 DEF Followed
<1>6. \A b \in Bills : f[b] \in Seq(Statements) /\ Len(f[b]) = 4
  BY <1>2
<1> DEFINE loop == ForEach(order, f)
<1>7. /\ Program(loop, D, F)
      /\ \A x \in Elements(loop) : \E c \in Bills : x \in Elements(f[c])
      /\ \A k \in 1 .. n : Elements(f[order[k]]) \subseteq Elements(loop)
  BY <1>1, <1>4, <1>5, <1>6, LoopProgram
<1> HIDE DEF loop
<1>8. \A x \in Elements(loop) : x.do \in {"lock", "reconcile"}
  BY <1>7, <1>b
<1>9. \A b \in Covers(p) : St("reconcile", b) \in Elements(loop)
  <2> SUFFICES ASSUME NEW b \in Covers(p)
               PROVE  St("reconcile", b) \in Elements(loop)
    OBVIOUS
  <2>1. PICK k \in 1 .. n : order[k] = b
    BY <1>1
  <2>2. b \in Bills
    BY DEF Covers
  <2>3. f[b][4] \in Elements(f[b])
    BY <1>2, <2>2
  <2> QED  BY <1>2, <1>7, <2>1, <2>2, <2>3
<1> QED  BY <1>7, <1>8, <1>9, <1>a DEF loop

\* What can be run can be run when more is done.
LEMMA MonotoneProgram ==
    ASSUME NEW q, NEW D, NEW E, NEW F, D \subseteq E, Program(q, D, F)
    PROVE  Program(q, E, F)
<1>1. q \in Seq(Statements)
  BY DEF Program
<1>2. ASSUME NEW i \in 1 .. Len(q)
      PROVE  Supported(q[i], E \cup Before(q, i)) /\ Followed(q[i], After(q, i) \cup F)
  <2>1. Supported(q[i], D \cup Before(q, i)) /\ Followed(q[i], After(q, i) \cup F)
    BY DEF Program
  <2>2. D \cup Before(q, i) \subseteq E \cup Before(q, i)
    OBVIOUS
  <2> QED  BY <2>1, <2>2, Monotone
<1> QED  BY <1>1, <1>2 DEF Program

\* Locks, or none, need nothing before them.
LEMMA MaybeLock ==
    ASSUME NEW given \in BOOLEAN, NEW row \in Rows, NEW mode \in Modes, NEW D, NEW F, F # {}
    PROVE  LET q == IF given THEN <<>> ELSE Do("lock", <<row, mode>>)
           IN  Program(q, D, F) /\ \A y \in Elements(q) : y.do = "lock"
<1> DEFINE q == IF given THEN <<>> ELSE Do("lock", <<row, mode>>)
<1>1. CASE given
  <2>1. q = <<>>
    BY <1>1
  <2>2. Elements(<<>>) = {}
    BY DEF Elements
  <2> HIDE DEF q
  <2> QED  BY <2>1, <2>2, EmptyProgram DEF q
<1>2. CASE ~given
  <2>1. q = Do("lock", <<row, mode>>)
    BY <1>2
  <2>2. St("lock", <<row, mode>>) \in Statements
    BY StatementKinds
  <2>3. /\ Program(Do("lock", <<row, mode>>), D, F)
        /\ Elements(Do("lock", <<row, mode>>)) = {St("lock", <<row, mode>>)}
    BY <2>2, FreeStatement
  <2>4. St("lock", <<row, mode>>).do = "lock"
    BY StIs
  <2> HIDE DEF q
  <2> QED  BY <2>1, <2>3, <2>4 DEF q
<1> QED  BY <1>1, <1>2

\* A row is posted under the locks of its number and its foreign keys.
LEMMA PostBlock ==
    ASSUME NEW numbered \in BOOLEAN, NEW l \in Places, NEW row \in Postings, NEW D, NEW F,
           Supported(St("post", row), D), Followed(St("post", row), F)
    PROVE  /\ Program(TransactionCreate(numbered, l, row), D, F)
           /\ St("post", row) \in Elements(TransactionCreate(numbered, l, row))
           /\ \A x \in Elements(TransactionCreate(numbered, l, row)) :
                 x = St("post", row) \/ x.do = "lock"
<1> DEFINE x == St("post", row)
           a == IF numbered THEN <<>> ELSE ForUpdate(<<"advisory", "kas_ref">>)
           k == KeyShare(<<"rts", "rt">>)
           c == IF l = NoLocation THEN <<>> ELSE KeyShare(<<"location", l>>)
           w == Do("post", row)
<1>1. x \in Statements
  BY StatementKinds
<1>2. Program(w, D, F) /\ Elements(w) = {x}
  BY <1>1, OneStatement
<1>3. ASSUME NEW G, G # {}
      PROVE  Program(a, D, G) /\ \A y \in Elements(a) : y.do = "lock"
  <2>1. <<"advisory", "kas_ref">> \in Rows /\ "update" \in Modes
    BY RowKinds
  <2> QED  BY <1>3, <2>1, MaybeLock DEF ForUpdate
<1>4. ASSUME NEW G, G # {}
      PROVE  Program(k, D, G) /\ \A y \in Elements(k) : y.do = "lock"
  <2>1. <<"rts", "rt">> \in Rows /\ "key share" \in Modes
    BY RowKinds
  <2>2. k = IF FALSE THEN <<>> ELSE Do("lock", <<<<"rts", "rt">>, "key share">>)
    BY DEF KeyShare
  <2> HIDE DEF k
  <2> QED  BY <1>4, <2>1, <2>2, MaybeLock
<1>5. ASSUME NEW G, G # {}
      PROVE  Program(c, D, G) /\ \A y \in Elements(c) : y.do = "lock"
  <2>1. CASE l = NoLocation
    <3>1. c = <<>>
      BY <2>1
    <3>2. Elements(<<>>) = {}
      BY DEF Elements
    <3> HIDE DEF c
    <3> QED  BY <3>1, <3>2, EmptyProgram
  <2>2. CASE l # NoLocation
    <3>1. <<"location", l>> \in Rows /\ "key share" \in Modes
      BY <2>2, RowKinds DEF Places
    <3>2. c = IF FALSE THEN <<>> ELSE Do("lock", <<<<"location", l>>, "key share">>)
      BY <2>2 DEF KeyShare
    <3> HIDE DEF c
    <3> QED  BY <1>5, <3>1, <3>2, MaybeLock
  <2> QED  BY <2>1, <2>2
<1>6. TransactionCreate(numbered, l, row) = ((a \o k) \o c) \o w
  BY DEF TransactionCreate
<1> HIDE DEF a, k, c, w, x
<1>7. Program(a \o k, D, Elements(c) \cup (Elements(w) \cup F))
      /\ Elements(a \o k) = Elements(a) \cup Elements(k)
  <2> DEFINE G == Elements(c) \cup (Elements(w) \cup F)
  <2>1. G # {} /\ Elements(k) \cup G # {}
    BY <1>2
  <2> HIDE DEF G
  <2>2. Program(a, D, Elements(k) \cup G)
    BY <1>3, <2>1
  <2>3. Program(k, D, G)
    BY <1>4, <2>1
  <2>4. Program(k, D \cup Elements(a), G)
    BY <2>3, MonotoneProgram
  <2> QED  BY <2>2, <2>4, JoinPrograms DEF G
<1>8. Program((a \o k) \o c, D, Elements(w) \cup F)
      /\ Elements((a \o k) \o c) = Elements(a \o k) \cup Elements(c)
  <2>1. Elements(w) \cup F # {}
    BY <1>2
  <2>2. Program(c, D, Elements(w) \cup F)
    BY <1>5, <2>1
  <2>3. Program(c, D \cup Elements(a \o k), Elements(w) \cup F)
    BY <2>2, MonotoneProgram
  <2> QED  BY <1>7, <2>3, JoinPrograms
<1>9. Program(((a \o k) \o c) \o w, D, F)
      /\ Elements(((a \o k) \o c) \o w) = Elements((a \o k) \o c) \cup Elements(w)
  <2>1. Program(w, D \cup Elements((a \o k) \o c), F)
    BY <1>2, MonotoneProgram
  <2> QED  BY <1>8, <2>1, JoinPrograms
<1>10. \A y \in Elements(a) \cup Elements(k) \cup Elements(c) : y.do = "lock"
  <2>1. {x} # {}
    OBVIOUS
  <2> QED  BY <1>3, <1>4, <1>5, <2>1
<1>11. Elements(((a \o k) \o c) \o w) = (Elements(a) \cup Elements(k) \cup Elements(c)) \cup {x}
  BY <1>2, <1>7, <1>8, <1>9
<1> QED  BY <1>6, <1>9, <1>10, <1>11 DEF x

\* A location is locked before its balance is compared.
LEMMA AffordBlock ==
    ASSUME NEW l \in Places, NEW n \in Nat, NEW D, NEW F, F # {}
    PROVE  /\ Program(Afford(l, n), D, F)
           /\ l # NoLocation => St("afford", <<l, n>>) \in Elements(Afford(l, n))
           /\ \A x \in Elements(Afford(l, n)) : x.do \in {"lock", "afford"}
<1>1. CASE l = NoLocation
  <2>1. Afford(l, n) = <<>>
    BY <1>1 DEF Afford
  <2>2. Elements(<<>>) = {}
    BY DEF Elements
  <2> QED  BY <1>1, <2>1, <2>2, EmptyProgram
<1>2. CASE l # NoLocation
  <2> DEFINE x == St("afford", <<l, n>>)
             y == LockOf("location", l)
             a == Do("lock", Update("location", l))
             w == Do("afford", <<l, n>>)
  <2>1. l \in Locations
    BY <1>2 DEF Places
  <2>2. Afford(l, n) = a \o w
    BY <1>2 DEF Afford, ForUpdate, Update
  <2>3. x \in Statements /\ y \in Statements
    BY <2>1, RowKinds, StatementKinds DEF LockOf, Update
  <2>4. Program(a, D, Elements(w) \cup F) /\ Elements(a) = {y}
    BY <2>3, FreeStatement DEF LockOf
  <2>5. Supported(x, D \cup {y})
    <3>1. x.do = "afford" /\ x.arg = <<l, n>> /\ x.arg[1] = l
      BY StIs
    <3> QED  BY <3>1 DEF Supported
  <2>6. Followed(x, F)
    <3>1. x.do = "afford"
      BY StIs
    <3> QED  BY <3>1, PlainFollowed DEF Plain
  <2>7. Program(w, D \cup Elements(a), F) /\ Elements(w) = {x}
    BY <2>3, <2>4, <2>5, <2>6, OneStatement
  <2>8. x.do = "afford" /\ y.do = "lock"
    BY StIs, LockSt
  <2> HIDE DEF a, w, x, y
  <2>9. Program(a \o w, D, F) /\ Elements(a \o w) = Elements(a) \cup Elements(w)
    BY <2>4, <2>7, JoinPrograms
  <2>10. Elements(a \o w) = {y, x}
    BY <2>4, <2>7, <2>9
  <2> QED  BY <2>2, <2>8, <2>9, <2>10 DEF x
<1> QED  BY <1>1, <1>2

\* A program after which another can be run.
LEMMA Then ==
    ASSUME NEW q, NEW r, NEW D, NEW F, NEW G, G = Elements(r) \cup F,
           Program(q, {}, G), Program(r, D, F), D \subseteq Elements(q)
    PROVE  Program(q \o r, {}, F) /\ Elements(q \o r) = Elements(q) \cup Elements(r)
<1>1. {} \cup Elements(q) = Elements(q)
  OBVIOUS
<1>2. Program(r, {} \cup Elements(q), F)
  BY <1>1, MonotoneProgram
<1> QED  BY <1>2, JoinPrograms

\* What is committed, and nothing after it.
Ends(F) == F # {} /\ \A x \in F : x.do = "commit"

\* A handler commits at its end.
LEMMA CommitLast ==
    ASSUME NEW a \in PaymentIds \cup Bills \cup Locations, NEW q, NEW C,
           C = {St("commit", a)}, Program(q, {}, C)
    PROVE  Program(q \o Do("commit", a), {}, {}) /\ q \o Do("commit", a) # <<>>
<1> DEFINE x == St("commit", a)
           w == Do("commit", a)
<1>1. x \in Statements /\ x.do = "commit"
  BY StatementKinds, StIs
<1>2. Supported(x, {})
  BY <1>1 DEF Supported
<1>3. Followed(x, {})
  BY <1>1 DEF Followed
<1>4. Program(w, {}, {}) /\ Elements(w) = {x}
  BY <1>1, <1>2, <1>3, OneStatement
<1> HIDE DEF x, w
<1>5. C = Elements(w) \cup {}
  BY <1>4 DEF x
<1>6. Program(q \o w, {}, {}) /\ Elements(q \o w) = Elements(q) \cup Elements(w)
  BY <1>4, <1>5, Then
<1>7. Elements(<<>>) = {}
  BY DEF Elements
<1>8. Elements(q \o w) # {}
  BY <1>4, <1>6
<1>9. q \o w # <<>>
  BY <1>7, <1>8
<1> QED  BY <1>6, <1>9 DEF w

\* A commit ends a handler.
LEMMA CommitEnds ==
    \A a : Ends({St("commit", a)})
BY StIs DEF Ends

\* Income is posted for a payment that has been drafted.
LEMMA IncomeBlock ==
    ASSUME NEW p \in PaymentIds, NEW l \in Places, NEW numbered \in BOOLEAN, NEW D, NEW F,
           Drafts(D, p, "APPROVED"), Ends(F)
    PROVE  LET q == TransactionCreate(numbered, l, <<"income", p, l>>)
           IN  /\ Program(q, D, F)
               /\ St("post", <<"income", p, l>>) \in Elements(q)
               /\ \A x \in Elements(q) : x.do \in {"post", "lock"}
<1> DEFINE row == <<"income", p, l>>
           x == St("post", row)
<1>1. row \in Postings /\ row[1] = "income" /\ row[2] = p
  BY DEF Postings
<1>2. x.do = "post" /\ x.arg = row
  BY StIs
<1> HIDE DEF x, row
<1>3. Supported(x, D)
  BY <1>1, <1>2 DEF Supported
<1>4. Followed(x, F)
  BY <1>1, <1>2 DEF Followed, Ends, Unposted
<1>5. /\ Program(TransactionCreate(numbered, l, row), D, F)
      /\ x \in Elements(TransactionCreate(numbered, l, row))
      /\ \A y \in Elements(TransactionCreate(numbered, l, row)) : y = x \/ y.do = "lock"
  BY <1>1, <1>3, <1>4, PostBlock DEF x
<1> QED  BY <1>2, <1>5 DEF x, row

\* A payment is drafted as approved when each of its bills is known to have room.
LEMMA InsertApproved ==
    ASSUME NEW p \in PaymentIds, NEW l \in Places, NEW D, NEW F, F # {},
           \A b \in Covers(p) : St("open", <<p, b>>) \in D,
           \A y \in F : y.do \notin Early,
           St("post", <<"income", p, l>>) \in F,
           Covers(p) # {} => St("settle", p) \in F
    PROVE  /\ Program(Do("insert", <<p, "APPROVED">>), D, F)
           /\ Elements(Do("insert", <<p, "APPROVED">>)) = {St("insert", <<p, "APPROVED">>)}
<1> DEFINE x == St("insert", <<p, "APPROVED">>)
<1>1. x \in Statements
  BY StatementKinds DEF PaymentStatuses
<1>2. x.do = "insert" /\ x.arg = <<p, "APPROVED">>
  BY StIs
<1>a. x.arg[1] = p /\ x.arg[2] = "APPROVED"
  BY <1>2
<1> HIDE DEF x
<1>3. Supported(x, D)
  BY <1>2, <1>a DEF Supported
<1>4. Followed(x, F)
  BY <1>2, <1>a DEF Followed
<1> QED  BY <1>1, <1>3, <1>4, OneStatement DEF x

\* A pending payment needs nothing else.
LEMMA InsertPending ==
    ASSUME NEW p \in PaymentIds, NEW D, NEW F, Ends(F)
    PROVE  /\ Program(Do("insert", <<p, "PENDING">>), D, F)
           /\ Elements(Do("insert", <<p, "PENDING">>)) = {St("insert", <<p, "PENDING">>)}
<1> DEFINE x == St("insert", <<p, "PENDING">>)
<1>1. x \in Statements
  BY StatementKinds DEF PaymentStatuses
<1>2. x.do = "insert" /\ x.arg = <<p, "PENDING">>
  BY StIs
<1>a. x.arg[2] = "PENDING"
  BY <1>2
<1> HIDE DEF x
<1>3. Supported(x, D)
  BY <1>2, <1>a DEF Supported
<1>4. Followed(x, F)
  BY <1>2, <1>a DEF Followed, Ends, Early
<1> QED  BY <1>1, <1>3, <1>4, OneStatement DEF x

\* The bills are settled once the approval is drafted.
LEMMA SettleStatement ==
    ASSUME NEW p \in PaymentIds, NEW D, NEW F, F # {}, Drafts(D, p, "APPROVED"),
           \A y \in F : y.do \notin Early
    PROVE  Program(Do("settle", p), D, F) /\ Elements(Do("settle", p)) = {St("settle", p)}
<1> DEFINE x == St("settle", p)
<1>1. x \in Statements /\ x.do = "settle" /\ x.arg = p
  BY StatementKinds, StIs
<1> HIDE DEF x
<1>3. Supported(x, D)
  BY <1>1 DEF Supported
<1>4. Followed(x, F)
  BY <1>1 DEF Followed
<1> QED  BY <1>1, <1>3, <1>4, OneStatement DEF x

\* Each handler is a program: staff record a payment.
LEMMA StaffPayProgram ==
    ASSUME NEW p \in PaymentIds, NEW order \in Sorted(Covers(p))
    PROVE  Program(StaffPay(p, order), {}, {}) /\ StaffPay(p, order) # <<>>
<1> DEFINE q1 == ForEach(order, LockAndCheck(p, "open"))
           x2 == St("insert", <<p, "APPROVED">>)
           q2 == Do("insert", <<p, "APPROVED">>)
           x3 == St("settle", p)
           q3 == Do("settle", p)
           row == St("post", <<"income", p, NoLocation>>)
           q4 == TransactionCreate(FALSE, NoLocation, <<"income", p, NoLocation>>)
           C  == {St("commit", p)}
           F3 == Elements(q4) \cup C
           F2 == {x3} \cup F3
           F1 == {x2} \cup F2
<1>0. NoLocation \in Places /\ Ends(C) /\ FALSE \in BOOLEAN
  BY CommitEnds DEF Places
<1>1. x2.do = "insert" /\ x3.do = "settle"
  BY StIs
<1>2. Drafts({x2}, p, "APPROVED")
  BY DEF Drafts
<1>4. Program(q4, {x2}, C) /\ row \in Elements(q4)
      /\ \A y \in Elements(q4) : y.do \in {"post", "lock"}
  BY <1>0, <1>2, IncomeBlock
<1> HIDE DEF x2, x3, q2, q3, row, q4, C
<1>a. \A y \in F3 : y.do \in {"post", "lock", "commit"}
  BY <1>0, <1>4 DEF Ends
<1>b. \A y \in F2 : y.do \in {"settle", "post", "lock", "commit"}
  BY <1>1, <1>a
<1>c. F3 # {} /\ F2 # {} /\ F1 # {} /\ row \in F2 /\ x3 \in F2
  BY <1>4
<1> HIDE DEF F1, F2, F3
<1>3. Program(q3, {x2}, F3) /\ Elements(q3) = {x3}
  <2>1. \A y \in F3 : y.do \notin Early
    BY <1>a DEF Early
  <2> QED  BY <1>2, <1>c, <2>1, SettleStatement DEF q3, x3
<1> HIDE DEF q1
<1>5. /\ Program(q1, {}, F1)
      /\ \A b \in Covers(p) : St("open", <<p, b>>) \in Elements(q1)
  BY <1>c, SortedIs, CheckLoop DEF q1
<1>6. Program(q2, Elements(q1), F2) /\ Elements(q2) = {x2}
  <2>1. \A y \in F2 : y.do \notin Early
    BY <1>b DEF Early
  <2> QED  BY <1>0, <1>5, <1>c, <2>1, InsertApproved DEF q2, x2, x3, row
<1>7. F1 = Elements(q2) \cup F2 /\ F2 = Elements(q3) \cup F3 /\ F3 = Elements(q4) \cup C
  BY <1>3, <1>6 DEF F1, F2, F3
<1> DEFINE r2 == q1 \o q2
           r3 == r2 \o q3
           r4 == r3 \o q4
<1>8. Program(r2, {}, F2) /\ Elements(r2) = Elements(q1) \cup Elements(q2)
  BY <1>5, <1>6, <1>7, Then
<1> HIDE DEF r2
<1>9. Program(r3, {}, F3) /\ Elements(r3) = Elements(r2) \cup Elements(q3)
  <2>1. {x2} \subseteq Elements(r2)
    BY <1>6, <1>8
  <2> QED  BY <1>3, <1>7, <1>8, <2>1, Then
<1> HIDE DEF r3
<1>10. Program(r4, {}, C)
  <2>1. {x2} \subseteq Elements(r3)
    BY <1>6, <1>8, <1>9
  <2> QED  BY <1>4, <1>7, <1>9, <2>1, Then
<1>11. StaffPay(p, order) = r4 \o Do("commit", p)
  BY DEF StaffPay, q1, q2, q3, q4, r2, r3
<1> QED  BY <1>10, <1>11, CommitLast DEF C

\* The total of a payment is a natural number.
LEMMA TotalNat == \A p \in PaymentIds : Total[p] \in Nat
<1> SUFFICES ASSUME NEW p \in PaymentIds
             PROVE  Total[p] \in Nat
  OBVIOUS
<1>1. Alloc[p] \in [Bills -> Nat]
  BY Columns
<1>2. Sum(Alloc[p]) \in Nat
  BY <1>1, FiniteTables, SumNat
<1> QED  BY <1>2 DEF Total

\* The payment is locked before its status is compared.
LEMMA ExpectBlock ==
    ASSUME NEW p \in PaymentIds, NEW st \in PaymentStatuses \ {"none"}, NEW F, F # {}
    PROVE  LET q == PaymentGetByIDForUpdate(p) \o Do("expect", <<p, st>>)
           IN  /\ Program(q, {}, F)
               /\ Elements(q) = {LockOf("payment", p), St("expect", <<p, st>>)}
<1> DEFINE a == PaymentGetByIDForUpdate(p)
           w == Do("expect", <<p, st>>)
           y == LockOf("payment", p)
           x == St("expect", <<p, st>>)
           G == {x} \cup F
<1>1. x \in Statements /\ y \in Statements
  BY StatementKinds, RowKinds DEF LockOf, Update
<1>2. Program(a, {}, G) /\ Elements(a) = {y}
  BY <1>1, FreeStatement DEF PaymentGetByIDForUpdate, ForUpdate, LockOf, Update
<1>3. Supported(x, {y})
  <2>1. x.do = "expect" /\ x.arg = <<p, st>> /\ x.arg[1] = p /\ x.arg[2] = st
    BY StIs
  <2> QED  BY <2>1 DEF Supported
<1>4. Followed(x, F)
  <2>1. x.do = "expect"
    BY StIs
  <2> QED  BY <2>1, PlainFollowed DEF Plain
<1>5. Program(w, {y}, F) /\ Elements(w) = {x}
  BY <1>1, <1>3, <1>4, OneStatement
<1> HIDE DEF a, w, y, x
<1>6. G = Elements(w) \cup F
  BY <1>5 DEF G
<1>7. Program(a \o w, {}, F) /\ Elements(a \o w) = Elements(a) \cup Elements(w)
  BY <1>2, <1>5, <1>6, Then
<1> QED  BY <1>2, <1>5, <1>7 DEF a, w, y, x

\* The number a payment gets is read before it is written.
LEMMA VerifyBlock ==
    ASSUME NEW p \in PaymentIds, NEW st \in PaymentStatuses, NEW D, NEW F, F # {},
           Supported(St("set", <<p, st>>), D), Followed(St("set", <<p, st>>), F)
    PROVE  /\ Program(PaymentVerify(p, st), D, F)
           /\ Elements(PaymentVerify(p, st)) = {St("number", p), St("set", <<p, st>>)}
<1> DEFINE a == Do("number", p)
           w == Do("set", <<p, st>>)
           y == St("number", p)
           x == St("set", <<p, st>>)
<1>1. x \in Statements /\ y \in Statements
  BY StatementKinds
<1>2. Program(w, D, F) /\ Elements(w) = {x}
  BY <1>1, OneStatement
<1>3. {x} \cup F # {}
  OBVIOUS
<1>4. Program(a, D, {x} \cup F) /\ Elements(a) = {y}
  BY <1>1, <1>3, FreeStatement
<1> HIDE DEF a, w, y, x
<1>5. Program(w, D \cup Elements(a), F)
  BY <1>2, MonotoneProgram
<1>6. Program(a, D, Elements(w) \cup F)
  BY <1>2, <1>4
<1>7. Program(a \o w, D, F) /\ Elements(a \o w) = Elements(a) \cup Elements(w)
  BY <1>5, <1>6, JoinPrograms
<1>8. PaymentVerify(p, st) = a \o w
  BY DEF PaymentVerify, a, w
<1> QED  BY <1>2, <1>4, <1>7, <1>8 DEF y, x

\* A bill is locked, with the rows it refers to.
LEMMA BillBlock ==
    ASSUME NEW b \in Bills, NEW F, F # {}
    PROVE  /\ Program(BillGetByIDForUpdate(b), {}, F)
           /\ LockOf("bill", b) \in Elements(BillGetByIDForUpdate(b))
<1> DEFINE q1 == ForUpdate(<<"bill", b>>)
           x1 == LockOf("bill", b)
           q2 == ForUpdate(<<"due", DueOf[b]>>)
           x2 == LockOf("due", DueOf[b])
           q3 == ForUpdate(<<"rts", "rt">>)
           x3 == LockOf("rts", "rt")
           F2 == {x3} \cup F
           F1 == {x2} \cup F2
<1>1. DueOf[b] \in Dues
  BY Columns
<1>2. x1 \in Statements /\ x2 \in Statements /\ x3 \in Statements
  BY <1>1, RowKinds, StatementKinds DEF LockOf, Update
<1>3. /\ q1 = Do("lock", Update("bill", b)) /\ q2 = Do("lock", Update("due", DueOf[b]))
      /\ q3 = Do("lock", Update("rts", "rt"))
  BY DEF ForUpdate, Update
<1> HIDE DEF q1, q2, q3
<1>4. Program(q1, {}, F1) /\ Elements(q1) = {x1}
  BY <1>2, <1>3, FreeStatement DEF LockOf
<1>5. Program(q2, {}, F2) /\ Elements(q2) = {x2}
  BY <1>2, <1>3, FreeStatement DEF LockOf
<1>6. Program(q3, {}, F) /\ Elements(q3) = {x3}
  BY <1>2, <1>3, FreeStatement DEF LockOf
<1> HIDE DEF x1, x2, x3
<1>7. F1 = Elements(q2) \cup F2 /\ F2 = Elements(q3) \cup F
  BY <1>5, <1>6 DEF F1, F2
<1> HIDE DEF F1, F2
<1> DEFINE r2 == q1 \o q2
<1>8. Program(r2, {}, F2) /\ Elements(r2) = Elements(q1) \cup Elements(q2)
  BY <1>4, <1>5, <1>7, Then
<1> HIDE DEF r2
<1>9. Program(r2 \o q3, {}, F) /\ Elements(r2 \o q3) = Elements(r2) \cup Elements(q3)
  BY <1>6, <1>7, <1>8, Then
<1>10. BillGetByIDForUpdate(b) = r2 \o q3
  BY DEF BillGetByIDForUpdate, r2, q1, q2, q3
<1> QED  BY <1>4, <1>8, <1>9, <1>10 DEF x1

\* Warga submit a payment.
LEMMA WargaPayProgram ==
    ASSUME NEW p \in PaymentIds, NEW order \in Sorted(Covers(p))
    PROVE  Program(WargaPay(p, order), {}, {}) /\ WargaPay(p, order) # <<>>
<1> DEFINE q1 == ForEach(order, LockAndCheck(p, "free"))
           x2 == St("insert", <<p, "PENDING">>)
           q2 == Do("insert", <<p, "PENDING">>)
           C  == {St("commit", p)}
           F1 == {x2} \cup C
<1>1. Ends(C)
  BY CommitEnds
<1> HIDE DEF C
<1>2. Program(q2, {}, C) /\ Elements(q2) = {x2}
  BY <1>1, InsertPending
<1>3. F1 # {}
  OBVIOUS
<1> HIDE DEF x2, F1
<1>4. Program(q1, {}, F1)
  BY <1>3, SortedIs, CheckLoop
<1> HIDE DEF q1, q2
<1>5. F1 = Elements(q2) \cup C
  BY <1>2 DEF F1
<1>6. Program(q1 \o q2, {}, C)
  BY <1>2, <1>4, <1>5, Then
<1>7. WargaPay(p, order) = (q1 \o q2) \o Do("commit", p)
  BY DEF WargaPay, q1, q2
<1> QED  BY <1>6, <1>7, CommitLast DEF C

\* A bill is cancelled.
LEMMA CancelProgram ==
    ASSUME NEW b \in Bills
    PROVE  Program(CancelBill(b), {}, {}) /\ CancelBill(b) # <<>>
<1> DEFINE q1 == BillGetByIDForUpdate(b)
           x2 == St("cancel", b)
           q2 == Do("cancel", b)
           C  == {St("commit", b)}
           F1 == {x2} \cup C
<1>1. Ends(C)
  BY CommitEnds
<1> HIDE DEF C
<1>2. x2 \in Statements /\ x2.do = "cancel" /\ x2.arg = b
  BY StatementKinds, StIs
<1>3. Supported(x2, {LockOf("bill", b)}) /\ Followed(x2, C)
  BY <1>1, <1>2 DEF Supported, Followed, Ends, Early
<1>4. Program(q2, {LockOf("bill", b)}, C) /\ Elements(q2) = {x2}
  BY <1>2, <1>3, OneStatement
<1>5. F1 # {}
  OBVIOUS
<1> HIDE DEF x2, F1, q2
<1>6. Program(q1, {}, F1) /\ {LockOf("bill", b)} \subseteq Elements(q1)
  BY <1>5, BillBlock
<1> HIDE DEF q1
<1>7. F1 = Elements(q2) \cup C
  BY <1>4 DEF F1
<1>8. Program(q1 \o q2, {}, C)
  BY <1>4, <1>6, <1>7, Then
<1>9. CancelBill(b) = (q1 \o q2) \o Do("commit", b)
  BY DEF CancelBill, q1, q2
<1> QED  BY <1>8, <1>9, CommitLast DEF C

\* A location pays for what is posted there, unless there is none.
LEMMA ExpenseBlock ==
    ASSUME NEW type \in {"payment", "hand", "expense"}, NEW p, NEW l \in Places,
           <<type, p, l>> \in Postings, NEW n \in Nat, NEW D, NEW F, NEW G,
           n = (IF type = "expense" THEN 1 ELSE Total[p]),
           type = "expense" => l # NoLocation,
           \A y \in F : y.do \notin Unposted, F # {},
           type = "payment" => St("set", <<p, "REVERSED">>) \in F,
           G = Elements(TransactionCreate(FALSE, l, <<type, p, l>>)) \cup F
    PROVE  LET q == Afford(l, n)
               r == TransactionCreate(FALSE, l, <<type, p, l>>)
           IN  /\ Program(q, {}, G)
               /\ Program(r, Elements(q), F)
               /\ St("post", <<type, p, l>>) \in Elements(r)
               /\ \A x \in Elements(r) : x.do \in {"post", "lock"}
<1> DEFINE row == <<type, p, l>>
           x == St("post", row)
           q == Afford(l, n)
           r == TransactionCreate(FALSE, l, row)
<1>1. row[1] = type /\ row[2] = p /\ row[3] = l
  OBVIOUS
<1>2. x.do = "post" /\ x.arg = row
  BY StIs
<1>3. row \in Postings
  OBVIOUS
<1>a. FALSE \in BOOLEAN
  OBVIOUS
<1>b. G = Elements(r) \cup F
  OBVIOUS
<1> HIDE DEF x, row, q, r
<1>4. G # {}
  BY <1>b
<1>5. /\ Program(q, {}, G)
      /\ l # NoLocation => St("afford", <<l, n>>) \in Elements(q)
  BY <1>4, AffordBlock DEF q
<1>6. Supported(x, Elements(q))
  <2>1. CASE type = "expense"
    BY <1>1, <1>2, <1>5, <2>1 DEF Supported
  <2>2. CASE type # "expense"
    BY <1>1, <1>2, <1>5, <2>2 DEF Supported
  <2> QED  BY <2>1, <2>2
<1>7. Followed(x, F)
  BY <1>1, <1>2 DEF Followed
<1>8. /\ Program(r, Elements(q), F) /\ x \in Elements(r)
      /\ \A y \in Elements(r) : y = x \/ y.do = "lock"
  BY <1>3, <1>6, <1>7, <1>a, PostBlock DEF x, r
<1>9. \A y \in Elements(r) : y.do \in {"post", "lock"}
  BY <1>2, <1>8
<1> QED  BY <1>5, <1>8, <1>9 DEF x, row, q, r

\* A manual expense.
LEMMA PayOutProgram ==
    ASSUME NEW l \in Locations
    PROVE  Program(PayOut(l), {}, {}) /\ PayOut(l) # <<>>
<1> DEFINE q1 == Afford(l, 1)
           q2 == TransactionCreate(FALSE, l, <<"expense", l, l>>)
           C  == {St("commit", l)}
           F1 == Elements(q2) \cup C
<1>1. C # {} /\ \A y \in C : y.do \notin Unposted
  BY CommitEnds DEF Ends, Unposted
<1>2. l \in Places /\ l # NoLocation /\ <<"expense", l, l>> \in Postings
  BY Columns DEF Places, Postings
<1> HIDE DEF C
<1>3. Program(q1, {}, F1) /\ Program(q2, Elements(q1), C)
  BY <1>1, <1>2, ExpenseBlock
<1> HIDE DEF q1, q2
<1>4. Program(q1 \o q2, {}, C)
  BY <1>3, Then
<1>5. PayOut(l) = (q1 \o q2) \o Do("commit", l)
  BY DEF PayOut, q1, q2
<1> QED  BY <1>4, <1>5, CommitLast DEF C

\* Income went to a location, or to none.
LEMMA PlaceIs == \A p : Place(p) \in Places
BY DEF Place, Places

\* An income row is reversed by hand.
LEMMA UndoProgram ==
    ASSUME NEW p \in PaymentIds
    PROVE  Program(ReverseTransaction(p), {}, {}) /\ ReverseTransaction(p) # <<>>
<1> DEFINE l == Place(p)
           q1 == Do("unreversed", p)
           q2 == Afford(l, Total[p])
           q3 == TransactionCreate(FALSE, l, <<"hand", p, l>>)
           C  == {St("commit", p)}
           F2 == Elements(q3) \cup C
           F1 == Elements(q2) \cup F2
<1>1. C # {} /\ \A y \in C : y.do \notin Unposted
  BY CommitEnds DEF Ends, Unposted
<1>2. l \in Places /\ Total[p] \in Nat
  BY PlaceIs, TotalNat
<1>a. ReverseTransaction(p) = ((q1 \o q2) \o q3) \o Do("commit", p)
  BY DEF ReverseTransaction
<1> HIDE DEF C, l
<1>3. <<"hand", p, l>> \in Postings
  BY <1>2 DEF Postings
<1>4. Program(q2, {}, F2) /\ Program(q3, Elements(q2), C)
  BY <1>1, <1>2, <1>3, ExpenseBlock
<1>5. F1 # {} /\ St("unreversed", p) \in Statements
  BY <1>1, StatementKinds
<1> HIDE DEF q2, q3, F1, F2
<1>6. Program(q1, {}, F1)
  BY <1>5, FreeStatement
<1> HIDE DEF q1
<1> DEFINE r2 == q1 \o q2
<1>7. Program(r2, {}, F2) /\ Elements(r2) = Elements(q1) \cup Elements(q2)
  <2>1. {} \subseteq Elements(q1)
    OBVIOUS
  <2> QED  BY <1>4, <1>6, <2>1, Then DEF F1
<1> HIDE DEF r2
<1>8. Program(r2 \o q3, {}, C)
  <2>1. Elements(q2) \subseteq Elements(r2)
    BY <1>7
  <2> QED  BY <1>4, <1>7, <2>1, Then DEF F2
<1> QED  BY <1>8, <1>a, CommitLast DEF C, r2

\* An approved payment is reversed: afford, post, set, then each bill.
LEMMA ReverseProgram ==
    ASSUME NEW p \in PaymentIds, NEW order \in Unordered(Covers(p))
    PROVE  /\ Program(ReverseApprovedPayment(p, order), {}, {})
           /\ ReverseApprovedPayment(p, order) # <<>>
<1> DEFINE l == Place(p)
           q1 == PaymentGetByIDForUpdate(p) \o Do("expect", <<p, "APPROVED">>)
           e  == St("expect", <<p, "APPROVED">>)
           q2 == Afford(l, Total[p])
           row == St("post", <<"payment", p, l>>)
           q3 == TransactionCreate(FALSE, l, <<"payment", p, l>>)
           x4 == St("set", <<p, "REVERSED">>)
           q4 == Do("set", <<p, "REVERSED">>)
           q5 == ReconcileEach(order)
           C  == {St("commit", p)}
           F4 == Elements(q5) \cup C
           F3 == Elements(q4) \cup F4
           F2 == Elements(q3) \cup F3
           F1 == Elements(q2) \cup F2
<1>1. Ends(C)
  BY CommitEnds
<1>2. l \in Places /\ Total[p] \in Nat
  BY PlaceIs, TotalNat
<1>a. ReverseApprovedPayment(p, order) = ((((q1 \o q2) \o q3) \o q4) \o q5) \o Do("commit", p)
  BY DEF ReverseApprovedPayment
<1>3. x4 \in Statements /\ x4.do = "set" /\ x4.arg = <<p, "REVERSED">>
  BY StatementKinds, StIs DEF PaymentStatuses
<1>b. x4.arg[1] = p /\ x4.arg[2] = "REVERSED"
  BY <1>3
<1> HIDE DEF C, l
<1>4. /\ Program(q5, {x4}, C)
      /\ \A x \in Elements(q5) : x.do \in {"lock", "reconcile"}
      /\ \A b \in Covers(p) : St("reconcile", b) \in Elements(q5)
  <2>1. C # {} /\ \A x \in C : x.do \notin Early
    BY <1>1 DEF Ends, Early
  <2>2. \E st \in {"REJECTED", "REVERSED"} : St("set", <<p, st>>) \in {x4}
    OBVIOUS
  <2> HIDE DEF x4, q5
  <2> QED  BY <2>1, <2>2, ReconcileLoop DEF q5
<1> HIDE DEF q5
<1>5. \A y \in F4 : y.do \in {"lock", "reconcile", "commit"}
  BY <1>1, <1>4 DEF Ends
<1>c. F4 # {}
  BY <1>1 DEF Ends
<1> HIDE DEF F4
<1>6. Supported(x4, {e, row})
  BY <1>2, <1>3, <1>b DEF Supported
<1>7. Followed(x4, F4)
  <2>1. \A b \in Covers(p) : St("reconcile", b) \in F4
    BY <1>4 DEF F4
  <2>2. \A y \in F4 : y.do \notin Early
    BY <1>5 DEF Early
  <2> HIDE DEF x4
  <2> QED  BY <1>3, <1>b, <1>c, <2>1, <2>2 DEF Followed
<1>8. Program(q4, {e, row}, F4) /\ Elements(q4) = {x4}
  BY <1>3, <1>6, <1>7, OneStatement
<1>9. <<"payment", p, l>> \in Postings
  BY <1>2 DEF Postings
<1> HIDE DEF q4
<1>10. F3 # {} /\ x4 \in F3 /\ \A y \in F3 : y.do \notin Unposted
  <2>1. F3 = {x4} \cup F4
    BY <1>8
  <2>2. \A y \in F4 : y.do \notin Unposted
    BY <1>5 DEF Unposted
  <2>3. x4.do \notin Unposted
    BY <1>3 DEF Unposted
  <2> HIDE DEF F3, x4
  <2> QED  BY <2>1, <2>2, <2>3
<1> HIDE DEF F3
<1>11. Program(q2, {}, F2) /\ Program(q3, Elements(q2), F3) /\ row \in Elements(q3)
  <2>1. x4 = St("set", <<p, "REVERSED">>)
    OBVIOUS
  <2> HIDE DEF x4
  <2> QED  BY <1>2, <1>9, <1>10, <2>1, ExpenseBlock
<1> HIDE DEF x4, row, q2, q3, F2, F1
<1>12. F1 # {}
  BY <1>10 DEF F1, F2
<1>13. Program(q1, {}, F1) /\ e \in Elements(q1)
  <2>1. "APPROVED" \in PaymentStatuses \ {"none"}
    BY DEF PaymentStatuses
  <2> QED  BY <1>12, <2>1, ExpectBlock
<1> HIDE DEF q1, e
<1> DEFINE r2 == q1 \o q2
           r3 == r2 \o q3
           r4 == r3 \o q4
           r5 == r4 \o q5
<1>14. Program(r2, {}, F2) /\ Elements(r2) = Elements(q1) \cup Elements(q2)
  <2>1. {} \subseteq Elements(q1)
    OBVIOUS
  <2> QED  BY <1>11, <1>13, <2>1, Then DEF F1
<1> HIDE DEF r2
<1>15. Program(r3, {}, F3) /\ Elements(r3) = Elements(r2) \cup Elements(q3)
  <2>1. Elements(q2) \subseteq Elements(r2)
    BY <1>14
  <2> QED  BY <1>11, <1>14, <2>1, Then DEF F2
<1> HIDE DEF r3
<1>16. Program(r4, {}, F4) /\ Elements(r4) = Elements(r3) \cup Elements(q4)
  <2> DEFINE D == {e, row}
  <2>1. D \subseteq Elements(r3)
    BY <1>11, <1>13, <1>14, <1>15
  <2>2. Program(q4, D, F4) /\ Program(r3, {}, F3)
    BY <1>8, <1>15
  <2>3. F3 = Elements(q4) \cup F4
    BY DEF F3
  <2> HIDE DEF D
  <2> QED  BY <2>1, <2>2, <2>3, Then, Zenon
<1> HIDE DEF r4
<1>17. Program(r5, {}, C)
  <2>1. {x4} \subseteq Elements(r4)
    BY <1>8, <1>16
  <2> QED  BY <1>4, <1>16, <2>1, Then DEF F4
<1>18. ReverseApprovedPayment(p, order) = r5 \o Do("commit", p)
  BY <1>a DEF r2, r3, r4
<1> QED  BY <1>17, <1>18, CommitLast DEF C

\* A pending payment is rejected.
LEMMA RejectProgram ==
    ASSUME NEW p \in PaymentIds, NEW order \in Unordered(Covers(p))
    PROVE  Program(Reject(p, order), {}, {}) /\ Reject(p, order) # <<>>
<1> DEFINE q1 == PaymentGetByIDForUpdate(p) \o Do("expect", <<p, "PENDING">>)
           e  == St("expect", <<p, "PENDING">>)
           x2 == St("set", <<p, "REJECTED">>)
           q2 == PaymentVerify(p, "REJECTED")
           q3 == ReconcileEach(order)
           C  == {St("commit", p)}
           F2 == Elements(q3) \cup C
           F1 == Elements(q2) \cup F2
<1>1. Ends(C)
  BY CommitEnds
<1>a. Reject(p, order) = ((q1 \o q2) \o q3) \o Do("commit", p)
  BY DEF Reject
<1>3. x2.do = "set" /\ x2.arg = <<p, "REJECTED">>
  BY StIs
<1>b. x2.arg[1] = p /\ x2.arg[2] = "REJECTED"
  BY <1>3
<1> HIDE DEF C
<1>4. /\ Program(q3, {x2}, C)
      /\ \A x \in Elements(q3) : x.do \in {"lock", "reconcile"}
  <2>1. C # {} /\ \A x \in C : x.do \notin Early
    BY <1>1 DEF Ends, Early
  <2>2. \E st \in {"REJECTED", "REVERSED"} : St("set", <<p, st>>) \in {x2}
    OBVIOUS
  <2> HIDE DEF x2
  <2> QED  BY <2>1, <2>2, ReconcileLoop
<1> HIDE DEF q3
<1>5. \A y \in F2 : y.do \in {"lock", "reconcile", "commit"}
  BY <1>1, <1>4 DEF Ends
<1>c. F2 # {}
  BY <1>1 DEF Ends
<1> HIDE DEF F2
<1>6. Supported(x2, {e})
  <2> HIDE DEF x2
  <2> QED  BY <1>3, <1>b DEF Supported
<1>7. Followed(x2, F2)
  <2>2. \A y \in F2 : y.do \notin Early
    BY <1>5 DEF Early
  <2> HIDE DEF x2
  <2> QED  BY <1>3, <1>b, <1>c, <2>2 DEF Followed
<1>8. Program(q2, {e}, F2) /\ Elements(q2) = {St("number", p), x2}
  BY <1>6, <1>7, <1>c, VerifyBlock DEF PaymentStatuses
<1> HIDE DEF x2, q2, F1
<1>9. F1 # {}
  BY <1>c DEF F1
<1>10. Program(q1, {}, F1) /\ e \in Elements(q1)
  <2>1. "PENDING" \in PaymentStatuses \ {"none"}
    BY DEF PaymentStatuses
  <2> QED  BY <1>9, <2>1, ExpectBlock
<1> HIDE DEF q1, e
<1> DEFINE r2 == q1 \o q2
           r3 == r2 \o q3
<1>14. Program(r2, {}, F2) /\ Elements(r2) = Elements(q1) \cup Elements(q2)
  <2> DEFINE D == {e}
  <2>1. D \subseteq Elements(q1)
    BY <1>10
  <2>2. Program(q2, D, F2) /\ Program(q1, {}, F1)
    BY <1>8, <1>10
  <2>3. F1 = Elements(q2) \cup F2
    BY DEF F1
  <2> HIDE DEF D
  <2> QED  BY <2>1, <2>2, <2>3, Then, Zenon
<1> HIDE DEF r2
<1>15. Program(r3, {}, C)
  <2>1. {x2} \subseteq Elements(r2)
    BY <1>8, <1>14
  <2> QED  BY <1>4, <1>14, <2>1, Then DEF F2
<1>18. Reject(p, order) = r3 \o Do("commit", p)
  BY <1>a DEF r2
<1> QED  BY <1>15, <1>18, CommitLast DEF C

\* A pending payment is approved.
LEMMA ApproveProgram ==
    ASSUME NEW p \in PaymentIds, NEW l \in Places, NEW order \in Sorted(Covers(p))
    PROVE  Program(Approve(p, l, order), {}, {}) /\ Approve(p, l, order) # <<>>
<1> DEFINE q1 == PaymentGetByIDForUpdate(p) \o Do("expect", <<p, "PENDING">>)
           e  == St("expect", <<p, "PENDING">>)
           q2 == ForEach(order, LockAndCheck(p, "payable"))
           x3 == St("set", <<p, "APPROVED">>)
           q3 == PaymentVerify(p, "APPROVED")
           x4 == St("settle", p)
           q4 == Do("settle", p)
           row == St("post", <<"income", p, l>>)
           q5 == TransactionCreate(TRUE, l, <<"income", p, l>>)
           C  == {St("commit", p)}
           F4 == Elements(q5) \cup C
           F3 == Elements(q4) \cup F4
           F2 == Elements(q3) \cup F3
           F1 == Elements(q2) \cup F2
<1>0. Ends(C) /\ TRUE \in BOOLEAN
  BY CommitEnds
<1>1. x3.do = "set" /\ x3.arg = <<p, "APPROVED">> /\ x4.do = "settle"
  BY StIs
<1>b. x3.arg[1] = p /\ x3.arg[2] = "APPROVED"
  BY <1>1
<1>a. Approve(p, l, order) = ((((q1 \o q2) \o q3) \o q4) \o q5) \o Do("commit", p)
  BY DEF Approve
<1>2. Drafts({x3}, p, "APPROVED")
  BY DEF Drafts
<1> HIDE DEF C
<1>3. Program(q5, {x3}, C) /\ row \in Elements(q5)
      /\ \A y \in Elements(q5) : y.do \in {"post", "lock"}
  BY <1>0, <1>2, IncomeBlock
<1> HIDE DEF q5
<1>4. row \in F4 /\ \A y \in F4 : y.do \in {"post", "lock", "commit"}
  BY <1>0, <1>3 DEF Ends
<1> HIDE DEF F4
<1>5. Program(q4, {x3}, F4) /\ Elements(q4) = {x4}
  <2>1. F4 # {} /\ \A y \in F4 : y.do \notin Early
    BY <1>4 DEF Early
  <2> HIDE DEF x3
  <2> QED  BY <1>2, <2>1, SettleStatement
<1> HIDE DEF q4
<1>6. row \in F3 /\ x4 \in F3 /\ \A y \in F3 : y.do \in {"settle", "post", "lock", "commit"}
  <2>1. F3 = {x4} \cup F4
    BY <1>5
  <2> HIDE DEF F3, x4, row
  <2> QED  BY <1>1, <1>4, <2>1
<1> HIDE DEF F3
<1>7. /\ Program(q2, {e}, F2)
      /\ \A b \in Covers(p) : St("payable", <<p, b>>) \in Elements(q2)
  <2>1. F2 # {} /\ e \in {e}
    BY <1>6
  <2> HIDE DEF F2
  <2> QED  BY <2>1, SortedIs, CheckLoop
<1> HIDE DEF q2, F2
<1>8. Supported(x3, {e} \cup Elements(q2))
  <2>1. e \in {e} \cup Elements(q2)
    OBVIOUS
  <2>2. \A b \in Covers(p) : St("payable", <<p, b>>) \in {e} \cup Elements(q2)
    BY <1>7
  <2> HIDE DEF x3
  <2> QED  BY <1>1, <1>b, <2>1, <2>2 DEF Supported
<1>9. Followed(x3, F3)
  <2>2. \A y \in F3 : y.do \notin Early
    BY <1>6 DEF Early
  <2> HIDE DEF x3
  <2> QED  BY <1>1, <1>b, <1>6, <2>2 DEF Followed
<1>10. Program(q3, {e} \cup Elements(q2), F3) /\ Elements(q3) = {St("number", p), x3}
  <2>1. F3 # {}
    BY <1>6
  <2> QED  BY <1>8, <1>9, <2>1, VerifyBlock DEF PaymentStatuses
<1> HIDE DEF x3, x4, row, q3, F1
<1>11. F1 # {}
  <2>1. F3 # {}
    BY <1>6
  <2> QED  BY <2>1 DEF F1, F2
<1>13. Program(q1, {}, F1) /\ e \in Elements(q1)
  <2>1. "PENDING" \in PaymentStatuses \ {"none"}
    BY DEF PaymentStatuses
  <2> QED  BY <1>11, <2>1, ExpectBlock
<1> HIDE DEF q1, e
<1> DEFINE r2 == q1 \o q2
           r3 == r2 \o q3
           r4 == r3 \o q4
           r5 == r4 \o q5
<1>14. Program(r2, {}, F2) /\ Elements(r2) = Elements(q1) \cup Elements(q2)
  <2>1. {e} \subseteq Elements(q1)
    BY <1>13
  <2> QED  BY <1>7, <1>13, <2>1, Then DEF F1
<1> HIDE DEF r2
<1>15. Program(r3, {}, F3) /\ Elements(r3) = Elements(r2) \cup Elements(q3)
  <2>1. {e} \cup Elements(q2) \subseteq Elements(r2)
    BY <1>13, <1>14
  <2> QED  BY <1>10, <1>14, <2>1, Then DEF F2
<1> HIDE DEF r3
<1>16. Program(r4, {}, F4) /\ Elements(r4) = Elements(r3) \cup Elements(q4)
  <2> DEFINE D == {x3}
  <2>1. D \subseteq Elements(r3)
    BY <1>10, <1>15
  <2>2. Program(q4, D, F4) /\ Program(r3, {}, F3)
    BY <1>5, <1>15
  <2>3. F3 = Elements(q4) \cup F4
    BY DEF F3
  <2> HIDE DEF D
  <2> QED  BY <2>1, <2>2, <2>3, Then, Zenon
<1> HIDE DEF r4
<1>17. Program(r5, {}, C)
  <2>1. {x3} \subseteq Elements(r4)
    BY <1>10, <1>15, <1>16
  <2> QED  BY <1>3, <1>16, <2>1, Then DEF F4
<1>18. Approve(p, l, order) = r5 \o Do("commit", p)
  BY <1>a DEF r2, r3, r4
<1> QED  BY <1>17, <1>18, CommitLast DEF C

\* A donation is recorded, or submitted.
LEMMA DonateProgram ==
    ASSUME NEW p \in PaymentIds, Covers(p) = {}, NEW d \in Dues, NEW to \in {"PENDING", "APPROVED"}
    PROVE  Program(Donate(p, d, to), {}, {}) /\ Donate(p, d, to) # <<>>
<1> DEFINE q1 == ForUpdate(<<"due", d>>)
           x1 == St("lock", <<<<"due", d>>, "update">>)
           q2 == KeyShare(<<"rts", "rt">>)
           x2 == St("lock", <<<<"rts", "rt">>, "key share">>)
           q3 == Do("insert", <<p, to>>)
           x3 == St("insert", <<p, to>>)
           q4 == IF to = "APPROVED"
                 THEN TransactionCreate(FALSE, NoLocation, <<"income", p, NoLocation>>) ELSE <<>>
           C  == {St("commit", p)}
           F3 == Elements(q4) \cup C
           F2 == Elements(q3) \cup F3
           F1 == Elements(q2) \cup F2
<1>0. Ends(C) /\ NoLocation \in Places /\ FALSE \in BOOLEAN
  BY CommitEnds DEF Places
<1>a. Donate(p, d, to) = (((q1 \o q2) \o q3) \o q4) \o Do("commit", p)
  BY DEF Donate
<1> HIDE DEF C
<1>c. C # {}
  BY <1>0 DEF Ends
<1>1. Program(q4, {x3}, C) /\ Program(q3, {}, F3) /\ Elements(q3) = {x3}
  <2>1. CASE to = "PENDING"
    <3>1. q4 = <<>> /\ Elements(<<>>) = {}
      BY <2>1 DEF Elements
    <3>2. F3 = C
      BY <3>1
    <3>3. Program(q4, {x3}, C)
      BY <3>1, EmptyProgram
    <3> HIDE DEF q4, F3
    <3>4. Program(q3, {}, F3) /\ Elements(q3) = {x3}
      BY <1>0, <2>1, <3>2, InsertPending
    <3> QED  BY <3>3, <3>4
  <2>2. CASE to = "APPROVED"
    <3> DEFINE row == St("post", <<"income", p, NoLocation>>)
    <3>1. Drafts({x3}, p, "APPROVED")
      BY <2>2 DEF Drafts
    <3>2. q4 = TransactionCreate(FALSE, NoLocation, <<"income", p, NoLocation>>)
      BY <2>2
    <3> HIDE DEF q4
    <3>3. Program(q4, {x3}, C) /\ row \in Elements(q4)
          /\ \A y \in Elements(q4) : y.do \in {"post", "lock"}
      BY <1>0, <3>1, <3>2, IncomeBlock
    <3>4. row \in F3 /\ F3 # {} /\ \A y \in F3 : y.do \notin Early
      BY <1>0, <3>3 DEF Ends, Early
    <3> HIDE DEF F3
    <3>5. Program(q3, {}, F3) /\ Elements(q3) = {x3}
      BY <1>0, <2>2, <3>4, InsertApproved
    <3> QED  BY <3>3, <3>5
  <2> QED  BY <2>1, <2>2
<1>2. x1 \in Statements /\ x2 \in Statements
  BY RowKinds, StatementKinds
<1> HIDE DEF q4, F3, x3, q3
<1>3. F2 # {}
  BY <1>1 DEF F2
<1> HIDE DEF F2
<1>4. Program(q2, {}, F2) /\ Elements(q2) = {x2}
  BY <1>2, <1>3, FreeStatement DEF KeyShare
<1>5. F1 # {}
  BY <1>3 DEF F1
<1> HIDE DEF F1, q2
<1>6. Program(q1, {}, F1)
  BY <1>2, <1>5, FreeStatement DEF ForUpdate
<1> HIDE DEF x1, x2, q1
<1> DEFINE r2 == q1 \o q2
           r3 == r2 \o q3
           r4 == r3 \o q4
<1>b. F1 = Elements(q2) \cup F2 /\ F2 = Elements(q3) \cup F3 /\ F3 = Elements(q4) \cup C
  BY DEF F1, F2, F3
<1>d. \A q : {} \subseteq Elements(q)
  OBVIOUS
<1>7. Program(r2, {}, F2)
  <2>1. Program(q2, {}, F2)
    BY <1>4
  <2> QED  BY <2>1, <1>6, <1>b, <1>d, Then
<1> HIDE DEF r2
<1>8. Program(r3, {}, F3) /\ Elements(r3) = Elements(r2) \cup Elements(q3)
  <2>1. Program(q3, {}, F3)
    BY <1>1
  <2> QED  BY <2>1, <1>7, <1>b, <1>d, Then
<1> HIDE DEF r3
<1>9. Program(r4, {}, C)
  <2> DEFINE D == {x3}
  <2>1. D \subseteq Elements(r3)
    BY <1>1, <1>8
  <2>2. Program(q4, D, C) /\ Program(r3, {}, F3)
    BY <1>1, <1>8
  <2> HIDE DEF D
  <2> QED  BY <1>b, <2>1, <2>2, Then
<1>10. Donate(p, d, to) = r4 \o Do("commit", p)
  BY <1>a DEF r2, r3
<1> QED  BY <1>9, <1>10, CommitLast DEF C

\* Whatever request arrives, its handler is a program.
LEMMA HandlersArePrograms ==
    ASSUME NEW r \in Requests, NEW todo \in Handlers(r)
    PROVE  Program(todo, {}, {}) /\ todo # <<>>
<1> DEFINE p == r[2]
<1>0. r \in RequestKinds
  BY Columns
<1>1. CASE r \in {"staff pay", "warga pay", "reject", "reverse", "undo"} \X PaymentIds \X {NoLocation}
  <2>0. p \in PaymentIds
    BY <1>1
  <2>1. CASE r[1] = "staff pay"
    <3>1. PICK order \in Sorted(Covers(p)) : todo = StaffPay(p, order)
      BY <2>1 DEF Handlers
    <3> QED  BY <2>0, <3>1, StaffPayProgram
  <2>2. CASE r[1] = "warga pay"
    <3>1. PICK order \in Sorted(Covers(p)) : todo = WargaPay(p, order)
      BY <2>2 DEF Handlers
    <3> QED  BY <2>0, <3>1, WargaPayProgram
  <2>3. CASE r[1] = "reject"
    <3>1. PICK order \in Unordered(Covers(p)) : todo = Reject(p, order)
      BY <2>3 DEF Handlers
    <3> QED  BY <2>0, <3>1, RejectProgram
  <2>4. CASE r[1] = "reverse"
    <3>1. PICK order \in Unordered(Covers(p)) : todo = ReverseApprovedPayment(p, order)
      BY <2>4 DEF Handlers
    <3> QED  BY <2>0, <3>1, ReverseProgram
  <2>5. CASE r[1] = "undo"
    <3>1. todo = ReverseTransaction(p)
      BY <2>5 DEF Handlers
    <3> QED  BY <2>0, <3>1, UndoProgram
  <2> QED  BY <1>1, <2>1, <2>2, <2>3, <2>4, <2>5
<1>2. CASE r \in {"donate"} \X {q \in PaymentIds : Covers(q) = {}} \X Dues
  <2>0. p \in PaymentIds /\ Covers(p) = {} /\ r[3] \in Dues
    BY <1>2
  <2>1. PICK to \in {"PENDING", "APPROVED"} : todo = Donate(p, r[3], to)
    BY <1>2 DEF Handlers
  <2> QED  BY <2>0, <2>1, DonateProgram
<1>3. CASE r \in {"approve"} \X PaymentIds \X Places
  <2>0. p \in PaymentIds /\ r[3] \in Places
    BY <1>3
  <2>1. PICK order \in Sorted(Covers(p)) : todo = Approve(p, r[3], order)
    BY <1>3 DEF Handlers
  <2> QED  BY <2>0, <2>1, ApproveProgram
<1>4. CASE r \in {"cancel"} \X Bills \X {NoLocation}
  <2>1. p \in Bills /\ todo = CancelBill(p)
    BY <1>4 DEF Handlers
  <2> QED  BY <2>1, CancelProgram
<1>5. CASE r \in {"pay out"} \X Locations \X {NoLocation}
  <2>1. p \in Locations /\ todo = PayOut(p)
    BY <1>5 DEF Handlers
  <2> QED  BY <2>1, PayOutProgram
<1>6. \/ r \in {"staff pay", "warga pay", "reject", "reverse", "undo"} \X PaymentIds \X {NoLocation}
      \/ r \in {"donate"} \X {q \in PaymentIds : Covers(q) = {}} \X Dues
      \/ r \in {"approve"} \X PaymentIds \X Places
      \/ r \in {"cancel"} \X Bills \X {NoLocation}
      \/ r \in {"pay out"} \X Locations \X {NoLocation}
  BY <1>0 DEF RequestKinds
<1> QED  BY <1>1, <1>2, <1>3, <1>4, <1>5, <1>6
-----------------------------------------------------------------------------
(* Types. *)

\* The types of what a session holds.
LEMMA RowTypes ==
    ASSUME TypeOK, NEW s \in Sessions
    PROVE  /\ session[s] \in SessionRow
           /\ session[s].todo \in Seq(Statements) /\ session[s].held \subseteq Rows \X Modes
           /\ session[s].seen \in [Bills -> Nat] /\ session[s].next \in Nat
           /\ session[s].draft \in DraftRow
           /\ session[s].draft.pay \in [PaymentIds -> PaymentStatuses \cup {"-"}]
           /\ session[s].draft.bill \in [Bills -> BillStatuses \cup {"-"}]
           /\ session[s].draft.number \in [PaymentIds -> Nat]
           /\ session[s].draft.post \in Postings \cup {NoPosting}
<1>1. session[s] \in SessionRow
  BY DEF TypeOK
<1>2. /\ session[s].todo \in Seq(Statements) /\ session[s].held \subseteq Rows \X Modes
      /\ session[s].seen \in [Bills -> Nat] /\ session[s].next \in Nat
      /\ session[s].draft \in DraftRow
  BY <1>1 DEF SessionRow
<1> QED  BY <1>1, <1>2 DEF DraftRow

\* What a statement is about.
LEMMA ArgIs ==
    ASSUME NEW x \in Statements
    PROVE  /\ x = St(x.do, x.arg)
           /\ x.do = "lock" => x.arg \in Rows \X Modes
           /\ x.do \in {"open", "free", "payable"} =>
                x.arg = <<x.arg[1], x.arg[2]>> /\ x.arg[1] \in PaymentIds /\ x.arg[2] \in Bills
           /\ x.do \in {"expect", "insert", "set"} =>
                /\ x.arg = <<x.arg[1], x.arg[2]>>
                /\ x.arg[1] \in PaymentIds /\ x.arg[2] \in PaymentStatuses
           /\ x.do \in {"number", "settle", "unreversed"} => x.arg \in PaymentIds
           /\ x.do \in {"reconcile", "cancel"} => x.arg \in Bills
           /\ x.do = "afford" =>
                x.arg = <<x.arg[1], x.arg[2]>> /\ x.arg[1] \in Locations /\ x.arg[2] \in Nat
           /\ x.do = "post" => x.arg \in Postings
<1>1. CASE x \in [do : {"lock"}, arg : Rows \X Modes]
  BY <1>1 DEF St
<1>2. CASE x \in [do : {"open", "free", "payable"}, arg : PaymentIds \X Bills]
  BY <1>2 DEF St
<1>3. CASE x \in [do : {"expect", "insert", "set"}, arg : PaymentIds \X PaymentStatuses]
  BY <1>3 DEF St
<1>4. CASE x \in [do : {"number", "settle", "unreversed"}, arg : PaymentIds]
  BY <1>4 DEF St
<1>5. CASE x \in [do : {"reconcile", "cancel"}, arg : Bills]
  BY <1>5 DEF St
<1>6. CASE x \in [do : {"afford"}, arg : Locations \X Nat]
  BY <1>6 DEF St
<1>7. CASE x \in [do : {"post"}, arg : Postings]
  BY <1>7 DEF St
<1>8. CASE x \in [do : {"commit"}, arg : PaymentIds \cup Bills \cup Locations]
  BY <1>8 DEF St
<1> QED  BY <1>1, <1>2, <1>3, <1>4, <1>5, <1>6, <1>7, <1>8 DEF Statements

\* A row of transactions.
LEMMA PostingIs ==
    ASSUME NEW row \in Postings
    PROVE  /\ row = <<row[1], row[2], row[3]>>
           /\ row[1] \in {"income", "payment", "hand", "expense"}
           /\ row[1] # "expense" => row[2] \in PaymentIds /\ row[3] \in Places
           /\ row[1] = "expense" => row[3] \in Locations
           /\ row # NoPosting
<1>1. CASE row \in {"income", "payment", "hand"} \X PaymentIds \X Places
  BY <1>1 DEF NoPosting
<1>2. CASE row \in {"expense"} \X Locations \X Locations
  BY <1>2 DEF NoPosting
<1> QED  BY <1>1, <1>2 DEF Postings

\* The posting of a session that has posted nothing.
LEMMA NoPostingIs == NoPosting[1] = "none" /\ NoPosting[3] = NoLocation
BY DEF NoPosting

\* Income is worth something, nothing posted is worth nothing.
LEMMA WorthInt ==
    ASSUME NEW row \in Postings \cup {NoPosting}
    PROVE  /\ Worth(row) \in Int
           /\ row[1] = "income" => Worth(row) >= 0
           /\ row = NoPosting => Worth(row) = 0
<1>1. CASE row = NoPosting
  BY <1>1, NoPostingIs DEF Worth
<1>2. CASE row \in Postings /\ row[1] = "expense"
  <2>1. Worth(row) = -1
    BY <1>2 DEF Worth
  <2> QED  BY <1>2, <2>1, PostingIs
<1>3. CASE row \in Postings /\ row[1] # "expense"
  <2>1. row[2] \in PaymentIds /\ row[1] \in {"income", "payment", "hand"} /\ row # NoPosting
    BY <1>3, PostingIs
  <2>2. Total[row[2]] \in Nat
    BY <2>1, TotalNat
  <2>3. CASE row[1] = "income"
    <3>1. Worth(row) = Total[row[2]]
      BY <2>3 DEF Worth
    <3> QED  BY <2>1, <2>2, <3>1
  <2>4. CASE row[1] \in {"payment", "hand"}
    <3>1. Worth(row) = -Total[row[2]]
      BY <2>4 DEF Worth
    <3> QED  BY <2>1, <2>2, <2>4, <3>1
  <2> QED  BY <2>1, <2>3, <2>4
<1> QED  BY <1>1, <1>2, <1>3

\* Allocations and amounts are natural numbers.
LEMMA AllocNat == \A p \in PaymentIds, b \in Bills : Alloc[p][b] \in Nat /\ Amount[b] \in Nat
BY Columns

\* The bills a payment covers.
LEMMA CoversIs == \A p, b : b \in Covers(p) <=> b \in Bills /\ Alloc[p][b] > 0
BY DEF Covers

\* What the payments of a status p are worth on a bill.
LEMMA TotalsNat ==
    ASSUME NEW b \in Bills
    PROVE  /\ ApprovedTotal(b) \in Nat
           /\ \A s \in Sessions : \A st : TotalSeen(s, b, st) \in Nat
<1>1. ASSUME NEW f, f = [p \in PaymentIds |-> f[p]], \A p \in PaymentIds : f[p] = Alloc[p][b] \/ f[p] = 0
      PROVE  Sum(f) \in Nat
  <2>1. f \in [PaymentIds -> Nat]
    BY <1>1, AllocNat
  <2> QED  BY <2>1, FiniteTables, SumNat
<1>2. ApprovedTotal(b) \in Nat
  BY <1>1 DEF ApprovedTotal
<1>3. \A s \in Sessions : \A st : TotalSeen(s, b, st) \in Nat
  BY <1>1 DEF TotalSeen
<1> QED  BY <1>2, <1>3

\* A session that is idle has no locks and no drafts.
LEMMA IdleIs ==
    /\ Idle \in SessionRow /\ Idle.todo = <<>> /\ Idle.held = {}
    /\ \A p \in PaymentIds : Idle.draft.pay[p] = "-"
    /\ \A b \in Bills : Idle.draft.bill[b] = "-"
    /\ Idle.draft.post = NoPosting
BY DEF Idle, NoDraft, SessionRow, DraftRow

\* A statement is done and others are left.
LEMMA AdvanceIs ==
    ASSUME TypeOK, NEW s \in Sessions, NEW rest \in SessionRow, Advance(s, rest)
    PROVE  /\ session'[s].todo = Tail(rest.todo) /\ session'[s].held = rest.held
           /\ session'[s].seen = rest.seen /\ session'[s].next = rest.next
           /\ session'[s].draft = rest.draft
           /\ rest.todo # <<>> => session'[s] \in SessionRow
           /\ \A o \in Sessions \ {s} : session'[o] = session[o]
           /\ DOMAIN session' = Sessions
           /\ session' = [session EXCEPT ![s] = session'[s]]
           /\ UNCHANGED tables /\ requests' = requests
<1> DEFINE row == [rest EXCEPT !.todo = Tail(@)]
<1>1. session' = [session EXCEPT ![s] = row] /\ UNCHANGED tables /\ requests' = requests
  BY DEF Advance
<1>2. /\ row.todo = Tail(rest.todo) /\ row.held = rest.held /\ row.seen = rest.seen
      /\ row.next = rest.next /\ row.draft = rest.draft
  <2>1. DOMAIN rest = {"todo", "held", "seen", "next", "draft"}
    BY DEF SessionRow
  <2>2. row = [f \in DOMAIN rest |-> IF f = "todo" THEN Tail(rest.todo) ELSE rest[f]]
    BY <2>1
  <2> QED  BY <2>1, <2>2
<1>3. rest.todo # <<>> => row \in SessionRow
  <2> SUFFICES ASSUME rest.todo # <<>>
               PROVE  row \in SessionRow
    OBVIOUS
  <2>1. rest.todo \in Seq(Statements)
    BY DEF SessionRow
  <2>2. Tail(rest.todo) \in Seq(Statements)
    BY <2>1
  <2> DEFINE t == Tail(rest.todo)
  <2>3. row = [rest EXCEPT !.todo = t]
    BY DEF SessionRow
  <2> HIDE DEF t, row
  <2>4. t \in Seq(Statements)
    BY <2>2 DEF t
  <2> QED  BY <2>3, <2>4 DEF SessionRow
<1> HIDE DEF row
<1>4. session'[s] = row /\ DOMAIN session' = Sessions /\ \A o \in Sessions \ {s} : session'[o] = session[o]
  BY <1>1 DEF TypeOK
<1> QED  BY <1>1, <1>2, <1>3, <1>4
-----------------------------------------------------------------------------
(* What a session sees, and what others leave alone. *)

\* A session sees the committed totals and its own draft.
LEMMA SeenTotals ==
    ASSUME TypeOK, NEW s \in Sessions, NEW b \in Bills,
           OneDraft(s), \A p \in PaymentIds : DraftPayment(s, p)
    PROVE  /\ (\A p \in PaymentIds : session[s].draft.pay[p] = "-")
                => TotalSeen(s, b, "APPROVED") = ApprovedTotal(b)
           /\ \A p \in PaymentIds :
                /\ session[s].draft.pay[p] = "APPROVED"
                     => TotalSeen(s, b, "APPROVED") = ApprovedTotal(b) + Alloc[p][b]
                /\ session[s].draft.pay[p] = "REVERSED"
                     => TotalSeen(s, b, "APPROVED") = ApprovedTotal(b) - Alloc[p][b]
                /\ session[s].draft.pay[p] \in {"PENDING", "REJECTED"}
                     => TotalSeen(s, b, "APPROVED") = ApprovedTotal(b)
<1> DEFINE f == [p \in PaymentIds |-> IF status[p] = "APPROVED" THEN Alloc[p][b] ELSE 0]
           g == [p \in PaymentIds |-> IF StatusSeen(s, p) = "APPROVED" THEN Alloc[p][b] ELSE 0]
           pay == session[s].draft.pay
<1>1. ApprovedTotal(b) = Sum(f) /\ TotalSeen(s, b, "APPROVED") = Sum(g)
  BY DEF ApprovedTotal, TotalSeen
<1>2. f \in [PaymentIds -> Nat] /\ g \in [PaymentIds -> Nat]
  BY AllocNat
<1>3. \A p \in PaymentIds : /\ pay[p] = "-" => g[p] = f[p]
                            /\ pay[p] # "-" =>
                                 /\ f[p] = IF status[p] = "APPROVED" THEN Alloc[p][b] ELSE 0
                                 /\ g[p] = IF pay[p] = "APPROVED" THEN Alloc[p][b] ELSE 0
  BY DEF StatusSeen
<1>4. f = [p \in PaymentIds |-> f[p]] /\ g = [p \in PaymentIds |-> g[p]]
  OBVIOUS
<1>a. \A p \in PaymentIds : /\ pay[p] = "APPROVED" => status[p] \in {"none", "PENDING"}
                            /\ pay[p] = "REVERSED" => status[p] = "APPROVED"
                            /\ pay[p] \in {"PENDING", "REJECTED"} => status[p] \in {"none", "PENDING"}
  BY DEF DraftPayment
<1>b. \A p, q \in PaymentIds : pay[p] # "-" /\ pay[q] # "-" => p = q
  BY DEF OneDraft
<1> HIDE DEF f, g, pay
<1>5. ASSUME \A p \in PaymentIds : pay[p] = "-"
      PROVE  Sum(g) = Sum(f)
  <2>1. \A p \in PaymentIds : g[p] = f[p]
    BY <1>3, <1>5
  <2>2. g = f
    BY <1>4, <2>1
  <2> QED  BY <2>2
<1>6. ASSUME NEW p \in PaymentIds, pay[p] # "-"
      PROVE  /\ Sum(f) \in Nat /\ Sum(g) = Sum(f) - f[p] + g[p]
             /\ f[p] = IF status[p] = "APPROVED" THEN Alloc[p][b] ELSE 0
             /\ g[p] = IF pay[p] = "APPROVED" THEN Alloc[p][b] ELSE 0
  <2>1. \A q \in PaymentIds : q # p => g[q] = f[q]
    BY <1>3, <1>6, <1>b
  <2>2. Sum(f) \in Nat /\ Sum(g) = Sum(f) - f[p] + g[p]
    BY <1>2, <2>1, FiniteTables, SumChange
  <2> QED  BY <1>3, <1>6, <2>2
<1>7. ASSUME NEW p \in PaymentIds, pay[p] = "APPROVED"
      PROVE  Sum(g) = Sum(f) + Alloc[p][b]
  <2>1. f[p] = 0 /\ g[p] = Alloc[p][b] /\ Alloc[p][b] \in Nat
    BY <1>6, <1>7, <1>a, AllocNat
  <2>2. Sum(f) \in Nat /\ Sum(g) = Sum(f) - f[p] + g[p]
    BY <1>6, <1>7
  <2> QED  BY <2>1, <2>2
<1>8. ASSUME NEW p \in PaymentIds, pay[p] = "REVERSED"
      PROVE  Sum(g) = Sum(f) - Alloc[p][b]
  <2>1. g[p] = 0 /\ f[p] = Alloc[p][b] /\ Alloc[p][b] \in Nat
    BY <1>6, <1>8, <1>a, AllocNat
  <2>2. Sum(f) \in Nat /\ Sum(g) = Sum(f) - f[p] + g[p]
    BY <1>6, <1>8
  <2> QED  BY <2>1, <2>2
<1>9. ASSUME NEW p \in PaymentIds, pay[p] \in {"PENDING", "REJECTED"}
      PROVE  Sum(g) = Sum(f)
  <2>1. g[p] = 0 /\ f[p] = 0
    BY <1>6, <1>9, <1>a
  <2>2. Sum(f) \in Nat /\ Sum(g) = Sum(f) - f[p] + g[p]
    BY <1>6, <1>9
  <2> QED  BY <2>1, <2>2
<1> QED  BY <1>1, <1>5, <1>7, <1>8, <1>9 DEF pay

\* The totals depend on the statuses and the drafts.
LEMMA SameTotals ==
    ASSUME NEW b, status' = status
    PROVE  /\ ApprovedTotal(b)' = ApprovedTotal(b)
           /\ \A s \in Sessions : \A st :
                 (\A p \in PaymentIds : session'[s].draft.pay[p] = session[s].draft.pay[p])
                   => TotalSeen(s, b, st)' = TotalSeen(s, b, st)
<1>1. ApprovedTotal(b)' = ApprovedTotal(b)
  BY DEF ApprovedTotal
<1>2. ASSUME NEW s \in Sessions, NEW st,
             \A p \in PaymentIds : session'[s].draft.pay[p] = session[s].draft.pay[p]
      PROVE  TotalSeen(s, b, st)' = TotalSeen(s, b, st)
  <2>1. \A p \in PaymentIds : StatusSeen(s, p)' = StatusSeen(s, p)
    BY <1>2 DEF StatusSeen
  <2>2. [p \in PaymentIds |-> IF StatusSeen(s, p)' = st THEN Alloc[p][b] ELSE 0]
        = [p \in PaymentIds |-> IF StatusSeen(s, p) = st THEN Alloc[p][b] ELSE 0]
    BY <2>1
  <2> QED  BY <2>2 DEF TotalSeen
<1> QED  BY <1>1, <1>2

\* Exclusion is mutual.
LEMMA ExclusiveSymmetric ==
    \A s, o : Exclusive(s, o) => Exclusive(o, s)
BY DEF Exclusive, Conflict

\* A session that does nothing keeps its part of the invariant.
LEMMA OtherStays ==
    ASSUME NEW o \in Sessions, session'[o] = session[o], UNCHANGED tables, OnTrack(o), Drafted(o)
    PROVE  OnTrack(o)' /\ Drafted(o)'
<1>0. status' = status /\ bill' = bill /\ balance' = balance
  BY DEF tables
<1>1. /\ \A b : ApprovedTotal(b)' = ApprovedTotal(b)
      /\ \A b, st : TotalSeen(o, b, st)' = TotalSeen(o, b, st)
  BY <1>0, SameTotals
<1>2. /\ \A kind, id : HasLock(o, kind, id)' = HasLock(o, kind, id)
      /\ \A p, b : Reserved(o, p, b)' = Reserved(o, p, b)
      /\ \A x : Left(o, x)' = Left(o, x)
  BY <1>1 DEF HasLock, Reserved, Left
<1>3. \A x : Holds(o, x)' = Holds(o, x)
  BY <1>0, <1>2 DEF Holds
<1>4. OnTrack(o)'
  BY <1>3 DEF OnTrack, Busy
<1>5. InOrder(o)' /\ OneDraft(o)'
  BY DEF Drafted, InOrder, OneDraft
<1>6. MoneyFollows(o)'
  BY <1>2 DEF Drafted, MoneyFollows
<1>7. Covered(o)'
  BY <1>0, <1>2 DEF Drafted, Covered
<1>8. ASSUME NEW p \in PaymentIds
      PROVE  DraftPayment(o, p)' /\ BillsFollow(o, p)'
  <2>1. DraftPayment(o, p) /\ BillsFollow(o, p)
    BY DEF Drafted
  <2>2. DraftPayment(o, p)'
    BY <1>0, <1>2, <2>1 DEF DraftPayment
  <2>3. BillsFollow(o, p)'
    BY <1>2, <2>1 DEF BillsFollow
  <2> QED  BY <2>2, <2>3
<1>9. ASSUME NEW b \in Bills
      PROVE  DraftBill(o, b)'
  <2>1. DraftBill(o, b)
    BY DEF Drafted
  <2> QED  BY <1>1, <1>2, <2>1 DEF DraftBill, Agrees, Reconciled
<1> QED  BY <1>4, <1>5, <1>6, <1>7, <1>8, <1>9 DEF Drafted

\* A step of s that commits nothing need only be right for s.
LEMMA LocalStep ==
    ASSUME Inv, NEW s \in Sessions, UNCHANGED tables,
           \A o \in Sessions \ {s} : session'[o] = session[o],
           TypeOK', OnTrack(s)', Drafted(s)', \A o \in Sessions \ {s} : Exclusive(s, o)'
    PROVE  Inv'
<1>0. status' = status /\ bill' = bill /\ balance' = balance
  BY DEF tables
<1>1. \A b : ApprovedTotal(b)' = ApprovedTotal(b)
  BY <1>0, SameTotals
<1>2. NoOverpayment' /\ NoOverdraft'
  BY <1>0, <1>1 DEF Inv, NoOverpayment, NoOverdraft
<1>3. StatusAgrees'
  BY <1>0, <1>1 DEF Inv, StatusAgrees, Reconciled
<1>4. \A o \in Sessions : OnTrack(o)' /\ Drafted(o)'
  <2> SUFFICES ASSUME NEW o \in Sessions \ {s}
               PROVE  OnTrack(o)' /\ Drafted(o)'
    OBVIOUS
  <2> QED  BY OtherStays DEF Inv
<1>5. ASSUME NEW o \in Sessions, NEW c \in Sessions, o # c
      PROVE  Exclusive(o, c)'
  <2>1. CASE o = s
    BY <1>5, <2>1
  <2>2. CASE c = s
    <3>1. Exclusive(s, o)'
      BY <1>5, <2>2
    <3>2. \A u, v : Exclusive(u, v)' => Exclusive(v, u)'
      BY DEF Exclusive, Conflict
    <3> QED  BY <2>2, <3>1, <3>2
  <2>3. CASE o # s /\ c # s
    <3>1. Exclusive(o, c)
      BY <1>5 DEF Inv
    <3>2. session'[o] = session[o] /\ session'[c] = session[c]
      BY <2>3
    <3> QED  BY <3>1, <3>2 DEF Exclusive
  <2> QED  BY <2>1, <2>2, <2>3
<1> QED  BY <1>2, <1>3, <1>4, <1>5 DEF Inv
-----------------------------------------------------------------------------
(* One statement of a session. *)

\* What is known when a session is at a statement.
LEMMA StatementAt ==
    ASSUME Inv, NEW s \in Sessions, Busy(s)
    PROVE  /\ Statement(s) \in Statements
           /\ session[s].todo # <<>> /\ session[s].todo \in Seq(Statements)
           /\ Elements(session[s].todo) = {Statement(s)} \cup Elements(Tail(session[s].todo))
           /\ Followed(Statement(s), Elements(Tail(session[s].todo)))
           /\ \E done \in SUBSET Statements :
                 /\ Supported(Statement(s), done) /\ \A x \in done : Holds(s, x)
                 /\ Program(Tail(session[s].todo), done \cup {Statement(s)}, {})
<1> DEFINE todo == session[s].todo
<1>1. todo # <<>>
  BY DEF Busy
<1>2. PICK done \in SUBSET Statements : Program(todo, done, {}) /\ \A x \in done : Holds(s, x)
  BY DEF Inv, OnTrack
<1>3. todo \in Seq(Statements)
  BY RowTypes DEF Inv
<1> HIDE DEF todo
<1>4. /\ Head(todo) \in Statements /\ Supported(Head(todo), done)
      /\ Followed(Head(todo), Elements(Tail(todo)) \cup {})
      /\ Program(Tail(todo), done \cup {Head(todo)}, {})
      /\ Elements(todo) = {Head(todo)} \cup Elements(Tail(todo))
  BY <1>1, <1>2, RestProgram
<1>5. Elements(Tail(todo)) \cup {} = Elements(Tail(todo))
  OBVIOUS
<1>6. Followed(Head(todo), Elements(Tail(todo)))
  BY <1>4, <1>5
<1> QED  BY <1>1, <1>2, <1>3, <1>4, <1>6 DEF Statement, todo

\* Something is left to do unless this commits.
LEMMA SomethingLeft ==
    ASSUME NEW q, NEW x, Followed(x, Elements(q)), x.do # "commit"
    PROVE  q # <<>>
<1>1. Elements(<<>>) = {}
  BY DEF Elements
<1> QED  BY <1>1 DEF Followed

\* Types after a statement.
LEMMA AdvanceType ==
    ASSUME Inv, NEW s \in Sessions, Busy(s), Statement(s).do # "commit",
           NEW rest \in SessionRow, rest.todo = session[s].todo, Advance(s, rest)
    PROVE  TypeOK'
<1>1. TypeOK
  BY DEF Inv
<1>2. /\ session'[s] \in SessionRow /\ session'[s].todo = Tail(session[s].todo)
      /\ \A o \in Sessions \ {s} : session'[o] = session[o]
      /\ DOMAIN session' = Sessions /\ session' = [session EXCEPT ![s] = session'[s]]
      /\ UNCHANGED tables /\ requests' = requests
  BY <1>1, AdvanceIs, StatementAt
<1>3. session'[s].todo # <<>>
  BY <1>2, StatementAt, SomethingLeft
<1>4. session' \in [Sessions -> SessionRow]
  BY <1>1, <1>2 DEF TypeOK
<1>5. \A o \in Sessions : session'[o].todo = <<>> => session'[o] = Idle
  BY <1>1, <1>2, <1>3 DEF TypeOK, Busy
<1> QED  BY <1>1, <1>2, <1>4, <1>5 DEF TypeOK, tables, Busy

\* What s forgets nothing of.
Keeps(s) ==
    /\ status' = status /\ bill' = bill /\ balance' = balance
    /\ session[s].held \subseteq session'[s].held
    /\ \A b \in Bills : session'[s].seen[b] = session[s].seen[b]
                        \/ session'[s].seen[b] = ApprovedTotal(b)
    /\ \A p \in PaymentIds : session[s].draft.pay[p] = "-"
                             \/ session'[s].draft.pay[p] = session[s].draft.pay[p]
    /\ session[s].draft.post = NoPosting \/ session'[s].draft.post = session[s].draft.post

\* What was locked or reserved is so still.
LEMMA LockKept ==
    ASSUME NEW s \in Sessions, Keeps(s)
    PROVE  /\ \A kind, id : HasLock(s, kind, id) => HasLock(s, kind, id)'
           /\ \A p, b : b \in Bills /\ Reserved(s, p, b) => Reserved(s, p, b)'
<1>1. \A kind, id : HasLock(s, kind, id) => HasLock(s, kind, id)'
  BY DEF Keeps, HasLock
<1>2. \A b : ApprovedTotal(b)' = ApprovedTotal(b)
  BY SameTotals DEF Keeps
<1>3. ASSUME NEW p, NEW b \in Bills, Reserved(s, p, b)
      PROVE  Reserved(s, p, b)'
  <2>1. session'[s].seen[b] = ApprovedTotal(b)
    BY <1>3 DEF Keeps, Reserved
  <2> QED  BY <1>1, <1>2, <1>3, <2>1 DEF Reserved
<1> QED  BY <1>1, <1>3

\* What was known is known still.
LEMMA HoldsKept ==
    ASSUME NEW s \in Sessions, Keeps(s), NEW x \in Statements, Holds(s, x)
    PROVE  Holds(s, x)'
<1>1. /\ x.do \in {"open", "payable"} => x.arg[2] \in Bills
      /\ x.do \in {"insert", "set"} => x.arg[1] \in PaymentIds /\ x.arg[2] \in PaymentStatuses
      /\ x.do = "post" => x.arg \in Postings
  BY ArgIs
<1>2. x.do = "lock" => x.arg \in session'[s].held
  BY DEF Holds, Keeps
<1>3. x.do = "expect" => /\ HasLock(s, "payment", x.arg[1])'
                         /\ status'[x.arg[1]] = x.arg[2] /\ x.arg[2] # "none"
  BY LockKept DEF Holds, Keeps
<1>4. x.do \in {"open", "payable"} => Reserved(s, x.arg[1], x.arg[2])'
  BY <1>1, LockKept DEF Holds
<1>5. x.do \in {"insert", "set"} => session'[s].draft.pay[x.arg[1]] = x.arg[2]
  <2>1. "-" \notin PaymentStatuses
    BY DEF PaymentStatuses
  <2> QED  BY <1>1, <2>1 DEF Holds, Keeps
<1>6. x.do = "afford" => HasLock(s, "location", x.arg[1])' /\ balance'[x.arg[1]] >= x.arg[2]
  BY LockKept DEF Holds, Keeps
<1>7. x.do = "post" => session'[s].draft.post = x.arg
  <2>1. x.do = "post" => x.arg # NoPosting
    BY <1>1, PostingIs
  <2> QED  BY <2>1 DEF Holds, Keeps
<1> QED  BY <1>2, <1>3, <1>4, <1>5, <1>6, <1>7 DEF Holds

\* The statement done is one more that was done.
LEMMA StillOnTrack ==
    ASSUME Inv, NEW s \in Sessions, Busy(s), Keeps(s),
           session'[s].todo = Tail(session[s].todo), \A x \in {Statement(s)} : Holds(s, x)'
    PROVE  OnTrack(s)'
<1>1. PICK done \in SUBSET Statements :
         /\ \A x \in done : Holds(s, x)
         /\ Program(Tail(session[s].todo), done \cup {Statement(s)}, {})
  BY StatementAt
<1> DEFINE more == done \cup {Statement(s)}
<1>2. more \in SUBSET Statements
  BY StatementAt
<1>3. \A x \in more : Holds(s, x)'
  BY <1>1, HoldsKept
<1>4. Program(session'[s].todo, more, {})
  BY <1>1
<1> HIDE DEF more
<1> QED  BY <1>2, <1>3, <1>4 DEF OnTrack, Busy

\* A statement that drafts nothing.
LEMMA DraftStays ==
    ASSUME Inv, NEW s \in Sessions, Busy(s), Keeps(s),
           session'[s].todo = Tail(session[s].todo), session'[s].draft = session[s].draft,
           Statement(s).do \notin {"set", "settle", "reconcile", "post"}
    PROVE  Drafted(s)'
<1>0. Drafted(s) /\ status' = status /\ bill' = bill /\ balance' = balance
  BY DEF Inv, Keeps
<1>1. Elements(session[s].todo) = {Statement(s)} \cup Elements(session'[s].todo)
  BY StatementAt
<1>2. \A x : x.do \in {"set", "settle", "reconcile", "post"} /\ Left(s, x) => Left(s, x)'
  BY <1>1 DEF Left
<1>3. InOrder(s)'
  <2>1. InOrder(s) /\ Elements(session'[s].todo) \subseteq Elements(session[s].todo)
    BY <1>0, <1>1 DEF Drafted
  <2> QED  BY <2>1 DEF InOrder
<1>4. MoneyFollows(s)'
  <2>1. MoneyFollows(s)
    BY <1>0 DEF Drafted
  <2>2. \A row : Left(s, St("post", row)) => Left(s, St("post", row))'
    BY <1>2, StIs
  <2>3. \A row : Left(s, St("set", row)) => Left(s, St("set", row))'
    BY <1>2, StIs
  <2> QED  BY <2>1, <2>2, <2>3 DEF MoneyFollows
<1>5. Covered(s)'
  <2>1. Covered(s)
    BY <1>0 DEF Drafted
  <2> QED  BY <1>0, <2>1, LockKept DEF Covered
<1>6. OneDraft(s)'
  BY <1>0 DEF Drafted, OneDraft
<1>7. ASSUME NEW p \in PaymentIds
      PROVE  DraftPayment(s, p)' /\ BillsFollow(s, p)'
  <2>1. DraftPayment(s, p) /\ BillsFollow(s, p)
    BY <1>0 DEF Drafted
  <2>2. \A b \in Covers(p) : b \in Bills
    BY CoversIs
  <2>3. DraftPayment(s, p)'
    BY <1>0, <2>1, <2>2, LockKept DEF DraftPayment
  <2>4. \A q : Left(s, St("settle", q)) => Left(s, St("settle", q))'
    BY <1>2, StIs
  <2>5. \A b : Left(s, St("reconcile", b)) => Left(s, St("reconcile", b))'
    BY <1>2, StIs
  <2>6. BillsFollow(s, p)'
    BY <2>1, <2>4, <2>5 DEF BillsFollow
  <2> QED  BY <2>3, <2>6
<1>8. ASSUME NEW b \in Bills
      PROVE  DraftBill(s, b)'
  <2>1. DraftBill(s, b)
    BY <1>0 DEF Drafted
  <2>2. TotalSeen(s, b, "APPROVED")' = TotalSeen(s, b, "APPROVED")
    BY <1>0, SameTotals
  <2>3. \A st, n : Agrees(b, st, n)' = Agrees(b, st, n)
    BY DEF Agrees, Reconciled
  <2> QED  BY <1>0, <2>1, <2>2, <2>3, LockKept DEF DraftBill
<1> QED  BY <1>3, <1>4, <1>5, <1>6, <1>7, <1>8 DEF Drafted

\* A statement that drafts nothing, a lock or a read.
LEMMA QuietStep ==
    ASSUME Inv, NEW s \in Sessions, Busy(s),
           Statement(s).do \notin {"set", "settle", "reconcile", "post", "commit"},
           NEW rest \in SessionRow, rest.todo = session[s].todo, Advance(s, rest),
           rest.draft = session[s].draft, session[s].held \subseteq rest.held,
           \A b \in Bills : rest.seen[b] = session[s].seen[b] \/ rest.seen[b] = ApprovedTotal(b),
           \A x \in {Statement(s)} : Holds(s, x)',
           \A o \in Sessions \ {s} : Exclusive(s, o)'
    PROVE  Inv'
<1>1. /\ session'[s].todo = Tail(session[s].todo) /\ session'[s].held = rest.held
      /\ session'[s].seen = rest.seen /\ session'[s].draft = session[s].draft
      /\ \A o \in Sessions \ {s} : session'[o] = session[o]
      /\ UNCHANGED tables
  BY AdvanceIs DEF Inv
<1>2. Keeps(s)
  BY <1>1 DEF Keeps, tables
<1>3. TypeOK'
  BY AdvanceType
<1>4. OnTrack(s)'
  BY <1>1, <1>2, StillOnTrack
<1>5. Drafted(s)'
  BY <1>1, <1>2, DraftStays
<1> QED  BY <1>1, <1>3, <1>4, <1>5, LocalStep

\* Nothing that is locked or drafted is new.
LEMMA StillExclusive ==
    ASSUME Inv, NEW s \in Sessions, session'[s].held = session[s].held,
           \A p \in PaymentIds : session'[s].draft.pay[p] = session[s].draft.pay[p],
           \A o \in Sessions \ {s} : session'[o] = session[o]
    PROVE  \A o \in Sessions \ {s} : Exclusive(s, o)'
<1> SUFFICES ASSUME NEW o \in Sessions \ {s}
             PROVE  Exclusive(s, o)'
  OBVIOUS
<1>1. Exclusive(s, o)
  BY DEF Inv
<1> QED  BY <1>1 DEF Exclusive

\* A session without anything to do has drafted nothing.
LEMMA IdleDrafts ==
    ASSUME NEW s \in Sessions, session'[s] = Idle
    PROVE  Drafted(s)'
<1>1. Elements(session'[s].todo) = {}
  BY IdleIs DEF Elements
<1>2. /\ \A p \in PaymentIds : session'[s].draft.pay[p] = "-"
      /\ \A b \in Bills : session'[s].draft.bill[b] = "-"
      /\ session'[s].draft.post = NoPosting
  BY IdleIs
<1>3. InOrder(s)'
  BY <1>1 DEF InOrder
<1>4. MoneyFollows(s)' /\ Covered(s)'
  BY <1>2, NoPostingIs DEF MoneyFollows, Covered
<1>5. OneDraft(s)' /\ \A p \in PaymentIds : DraftPayment(s, p)' /\ BillsFollow(s, p)'
  BY <1>2 DEF OneDraft, DraftPayment, BillsFollow
<1>6. \A b \in Bills : DraftBill(s, b)'
  BY <1>2 DEF DraftBill
<1> QED  BY <1>3, <1>4, <1>5, <1>6 DEF Drafted

\* A rollback forgets everything the session had.
LEMMA RollbackStep ==
    ASSUME Inv, NEW s \in Sessions, Rollback(s)
    PROVE  Inv'
<1>0. TypeOK
  BY DEF Inv
<1>1. /\ session'[s] = Idle /\ \A o \in Sessions \ {s} : session'[o] = session[o]
      /\ session' \in [Sessions -> SessionRow]
      /\ UNCHANGED tables /\ requests' = requests
  BY <1>0, IdleIs DEF Rollback, TypeOK
<1>2. TypeOK'
  BY <1>0, <1>1 DEF TypeOK, tables, Busy
<1>3. OnTrack(s)'
  BY <1>1, IdleIs DEF OnTrack, Busy
<1>4. Drafted(s)'
  BY <1>1, IdleDrafts
<1>5. ASSUME NEW o \in Sessions \ {s}
      PROVE  Exclusive(s, o)'
  <2>1. session'[s].held = {} /\ \A p \in PaymentIds : session'[s].draft.pay[p] = "-"
    BY <1>1, IdleIs
  <2> QED  BY <2>1 DEF Exclusive
<1> QED  BY <1>1, <1>2, <1>3, <1>4, <1>5, LocalStep

\* A request arrives: a session starts one of its handler's programs.
LEMMA ArriveStep ==
    ASSUME Inv, NEW s \in Sessions, Arrive(s)
    PROVE  Inv'
<1>0. TypeOK /\ ~Busy(s) /\ requests' = requests + 1 /\ requests < MaxRequests /\ UNCHANGED tables
  BY DEF Inv, Arrive
<1>1. PICK r \in Requests : \E todo \in Handlers(r) :
          session' = [session EXCEPT ![s] = [Idle EXCEPT !.todo = todo]]
  BY DEF Arrive
<1>2. PICK todo \in Handlers(r) : session' = [session EXCEPT ![s] = [Idle EXCEPT !.todo = todo]]
  BY <1>1
<1>3. Program(todo, {}, {}) /\ todo # <<>>
  BY HandlersArePrograms
<1>4. todo \in Seq(Statements)
  BY <1>3 DEF Program
<1> DEFINE row == [Idle EXCEPT !.todo = todo]
<1>5. /\ row \in SessionRow /\ row.todo = todo /\ row.held = {}
      /\ row.draft = Idle.draft
  <2>1. Idle \in SessionRow /\ Idle.held = {}
    BY IdleIs
  <2> HIDE DEF row
  <2>2. row = [Idle EXCEPT !.todo = todo]
    BY DEF row
  <2> QED  BY <1>4, <2>1, <2>2 DEF SessionRow
<1>6. session' = [session EXCEPT ![s] = row]
  BY <1>2
<1> HIDE DEF row
<1>7. /\ session'[s] = row /\ \A o \in Sessions \ {s} : session'[o] = session[o]
      /\ session' \in [Sessions -> SessionRow]
  BY <1>0, <1>5, <1>6 DEF TypeOK
<1>8. TypeOK'
  <2>1. requests' \in 0 .. MaxRequests
    BY <1>0, Columns DEF TypeOK
  <2>2. \A o \in Sessions : session'[o].todo = <<>> => session'[o] = Idle
    BY <1>0, <1>3, <1>5, <1>7 DEF TypeOK, Busy
  <2> QED  BY <1>0, <1>7, <2>1, <2>2 DEF TypeOK, tables, Busy
<1>9. OnTrack(s)'
  BY <1>3, <1>5, <1>7 DEF OnTrack, Busy
<1>10. Drafted(s)'
  <2>2. /\ \A p \in PaymentIds : session'[s].draft.pay[p] = "-"
        /\ \A b \in Bills : session'[s].draft.bill[b] = "-"
        /\ session'[s].draft.post = NoPosting
    BY <1>5, <1>7, IdleIs
  <2>3. InOrder(s)'
    BY <2>2 DEF InOrder
  <2>4. MoneyFollows(s)' /\ Covered(s)'
    BY <2>2, NoPostingIs DEF MoneyFollows, Covered
  <2>5. OneDraft(s)' /\ \A p \in PaymentIds : DraftPayment(s, p)' /\ BillsFollow(s, p)'
    BY <2>2 DEF OneDraft, DraftPayment, BillsFollow
  <2>6. \A b \in Bills : DraftBill(s, b)'
    BY <2>2 DEF DraftBill
  <2> QED  BY <2>3, <2>4, <2>5, <2>6 DEF Drafted
<1>11. ASSUME NEW o \in Sessions \ {s}
       PROVE  Exclusive(s, o)'
  <2>1. session'[s].held = {} /\ \A p \in PaymentIds : session'[s].draft.pay[p] = "-"
    BY <1>5, <1>7, IdleIs
  <2> QED  BY <2>1 DEF Exclusive
<1> QED  BY <1>0, <1>7, <1>8, <1>9, <1>10, <1>11, LocalStep

\* A lock is granted when no other session holds one that conflicts.
LEMMA LockStep ==
    ASSUME Inv, NEW s \in Sessions, Lock(s)
    PROVE  Inv'
<1> DEFINE x == Statement(s)
           rest == [session[s] EXCEPT !.held = @ \cup {x.arg}]
<1>1. Busy(s) /\ x.do = "lock" /\ Blockers(s) = {} /\ Advance(s, rest)
  BY DEF Lock, At, Arg
<1>2. x.arg \in Rows \X Modes
  BY <1>1, StatementAt, ArgIs
<1>3. session[s] \in SessionRow
  BY RowTypes DEF Inv
<1>4. /\ rest \in SessionRow /\ rest.held = session[s].held \cup {x.arg}
      /\ rest.todo = session[s].todo /\ rest.draft = session[s].draft
      /\ rest.seen = session[s].seen
  BY <1>2, <1>3 DEF SessionRow
<1> HIDE DEF rest
<1>5. /\ session'[s].held = session[s].held \cup {x.arg}
      /\ session'[s].draft = session[s].draft
      /\ \A o \in Sessions \ {s} : session'[o] = session[o]
  BY <1>1, <1>4, AdvanceIs DEF Inv
<1>6. \A y \in {x} : Holds(s, y)'
  BY <1>1, <1>5 DEF Holds
<1>7. ASSUME NEW o \in Sessions \ {s}
      PROVE  Exclusive(s, o)'
  <2>1. Exclusive(s, o)
    BY DEF Inv
  <2>2. \A have \in session[o].held : x.arg[1] = have[1] => ~Conflict(x.arg[2], have[2])
    <3>1. Wanted(s) = {x.arg}
      BY <1>1 DEF Wanted, At, Arg
    <3> QED  BY <1>1, <3>1 DEF Blockers
  <2>3. session'[o] = session[o]
    BY <1>5
  <2> HIDE DEF x
  <2> QED  BY <1>5, <2>1, <2>2, <2>3 DEF Exclusive
<1> QED  BY <1>1, <1>4, <1>6, <1>7, QuietStep

\* While something is still to be decided nothing is drafted.
LEMMA NothingDrafted ==
    ASSUME Inv, NEW s \in Sessions, Busy(s), Statement(s).do \in Early
    PROVE  /\ \A p \in PaymentIds : session[s].draft.pay[p] = "-"
           /\ \A b \in Bills : /\ session[s].draft.bill[b] = "-"
                               /\ TotalSeen(s, b, "APPROVED") = ApprovedTotal(b)
<1>1. /\ TypeOK /\ InOrder(s) /\ OneDraft(s)
      /\ \A p \in PaymentIds : DraftPayment(s, p)
  BY DEF Inv, Drafted
<1>2. Statement(s) \in Elements(session[s].todo)
  BY StatementAt
<1>3. /\ \A p \in PaymentIds : session[s].draft.pay[p] = "-"
      /\ \A b \in Bills : session[s].draft.bill[b] = "-"
  BY <1>1, <1>2 DEF InOrder
<1> QED  BY <1>1, <1>3, SeenTotals

\* A row that the statement builds on is locked.
LEMMA LockHeld ==
    ASSUME NEW s \in Sessions, NEW kind, NEW id, Holds(s, LockOf(kind, id))
    PROVE  HasLock(s, kind, id)
BY LockSt DEF Holds, HasLock

\* A statement that reads, and remembers what it has read.
LEMMA ReadStep ==
    ASSUME Inv, NEW s \in Sessions, Busy(s),
           Statement(s).do \in {"expect", "open", "free", "payable", "unreversed", "afford", "number"},
           NEW rest \in SessionRow, rest.todo = session[s].todo, Advance(s, rest),
           rest.draft = session[s].draft, rest.held = session[s].held,
           \A b \in Bills : rest.seen[b] = session[s].seen[b] \/ rest.seen[b] = ApprovedTotal(b),
           \A x \in {Statement(s)} : Holds(s, x)'
    PROVE  Inv'
<1>1. /\ session'[s].held = session[s].held /\ session'[s].draft = session[s].draft
      /\ \A o \in Sessions \ {s} : session'[o] = session[o]
  BY AdvanceIs DEF Inv
<1>2. \A o \in Sessions \ {s} : Exclusive(s, o)'
  BY <1>1, StillExclusive
<1>3. session[s].held \subseteq rest.held
  OBVIOUS
<1> QED  BY <1>2, <1>3, QuietStep

\* A session is well formed.
LEMMA RowIs == ASSUME Inv, NEW s \in Sessions
               PROVE  session[s] \in SessionRow
BY RowTypes DEF Inv

\* The status of a locked payment is read.
LEMMA ExpectStep ==
    ASSUME Inv, NEW s \in Sessions, ExpectStatus(s)
    PROVE  Inv'
<1> DEFINE x == Statement(s)
<1>1. Busy(s) /\ x.do = "expect" /\ Check(s, status[x.arg[1]] = x.arg[2], session[s])
  BY DEF ExpectStatus, At, Arg
<1>2. CASE Rollback(s)
  BY <1>2, RollbackStep
<1>3. CASE status[x.arg[1]] = x.arg[2] /\ Advance(s, session[s])
  <2>1. PICK done \in SUBSET Statements : Supported(x, done) /\ \A y \in done : Holds(s, y)
    BY <1>1, StatementAt
  <2>2. HasLock(s, "payment", x.arg[1]) /\ x.arg[2] # "none"
    BY <1>1, <2>1, LockHeld DEF Supported
  <2>3. session'[s].held = session[s].held /\ status' = status
    BY <1>3, RowIs, AdvanceIs DEF Inv, tables
  <2>4. \A y \in {x} : Holds(s, y)'
    BY <1>1, <1>3, <2>2, <2>3 DEF Holds, HasLock
  <2> QED  BY <1>1, <1>3, <2>4, RowIs, ReadStep
<1> QED  BY <1>1, <1>2, <1>3 DEF Check

\* A bill of a payment is read under its lock.
LEMMA SeenRow ==
    ASSUME Inv, NEW s \in Sessions, Busy(s), Statement(s).do \in {"open", "free", "payable"}
    PROVE  LET p == Arg(s)[1]
               b == Arg(s)[2]
           IN  /\ p \in PaymentIds /\ b \in Bills /\ HasLock(s, "bill", b)
               /\ TotalSeen(s, b, "APPROVED") = ApprovedTotal(b)
               /\ Seen(s, b) \in SessionRow /\ Seen(s, b).todo = session[s].todo
               /\ Seen(s, b).draft = session[s].draft /\ Seen(s, b).held = session[s].held
               /\ Seen(s, b).seen[b] = ApprovedTotal(b)
               /\ \A c \in Bills : Seen(s, b).seen[c] = session[s].seen[c]
                                   \/ Seen(s, b).seen[c] = ApprovedTotal(c)
<1> DEFINE x == Statement(s)
           p == x.arg[1]
           b == x.arg[2]
<1>1. p \in PaymentIds /\ b \in Bills
  BY StatementAt, ArgIs
<1>2. PICK done \in SUBSET Statements : Supported(x, done) /\ \A y \in done : Holds(s, y)
  BY StatementAt
<1>3. HasLock(s, "bill", b)
  BY <1>2, LockHeld DEF Supported
<1>4. TotalSeen(s, b, "APPROVED") = ApprovedTotal(b) /\ ApprovedTotal(b) \in Nat
  BY <1>1, NothingDrafted, TotalsNat DEF Early
<1>5. session[s] \in SessionRow /\ session[s].seen \in [Bills -> Nat]
  BY RowTypes DEF Inv
<1> HIDE DEF b
<1> DEFINE seen == [session[s].seen EXCEPT ![b] = ApprovedTotal(b)]
<1>6. /\ seen \in [Bills -> Nat] /\ seen[b] = ApprovedTotal(b)
      /\ \A c \in Bills : seen[c] = session[s].seen[c] \/ seen[c] = ApprovedTotal(c)
  BY <1>1, <1>4, <1>5
<1>7. Seen(s, b) = [session[s] EXCEPT !.seen = seen]
  BY <1>4, <1>5 DEF Seen
<1> HIDE DEF seen
<1>8. /\ Seen(s, b) \in SessionRow /\ Seen(s, b).seen = seen
      /\ Seen(s, b).todo = session[s].todo
      /\ Seen(s, b).draft = session[s].draft /\ Seen(s, b).held = session[s].held
  BY <1>5, <1>6, <1>7 DEF SessionRow
<1> QED  BY <1>1, <1>3, <1>4, <1>6, <1>8 DEF Arg, b

\* What fits, if nothing else is reserved.
LEMMA FitsIs ==
    ASSUME Inv, NEW s \in Sessions, NEW p \in PaymentIds, NEW b \in Bills,
           TotalSeen(s, b, "APPROVED") = ApprovedTotal(b)
    PROVE  Fits(s, p, b, 0) <=> ApprovedTotal(b) + Alloc[p][b] <= Amount[b]
<1>1. ApprovedTotal(b) \in Nat /\ Alloc[p][b] \in Nat /\ Amount[b] \in Nat
  BY TotalsNat, AllocNat
<1> QED  BY <1>1 DEF Fits

\* What is open on a locked bill is read; it stays open while the lock is held.
LEMMA CheckStep ==
    ASSUME Inv, NEW s \in Sessions, CheckOpen(s) \/ CheckFree(s) \/ CheckPayable(s)
    PROVE  Inv'
<1> DEFINE x == Statement(s)
           p == Arg(s)[1]
           b == Arg(s)[2]
<1>1. Busy(s) /\ x.do \in {"open", "free", "payable"} /\ x.arg = Arg(s)
  BY DEF CheckOpen, CheckFree, CheckPayable, At, Arg
<1>2. /\ p \in PaymentIds /\ b \in Bills /\ HasLock(s, "bill", b)
      /\ TotalSeen(s, b, "APPROVED") = ApprovedTotal(b)
      /\ Seen(s, b) \in SessionRow /\ Seen(s, b).todo = session[s].todo
      /\ Seen(s, b).draft = session[s].draft /\ Seen(s, b).held = session[s].held
      /\ Seen(s, b).seen[b] = ApprovedTotal(b)
      /\ \A c \in Bills : Seen(s, b).seen[c] = session[s].seen[c]
                          \/ Seen(s, b).seen[c] = ApprovedTotal(c)
  BY <1>1, SeenRow
<1>3. \/ Rollback(s)
      \/ Advance(s, Seen(s, b)) /\ (x.do # "free" => Fits(s, p, b, 0))
  BY DEF CheckOpen, CheckFree, CheckPayable, Check, At
<1>4. CASE Rollback(s)
  BY <1>4, RollbackStep
<1>5. CASE Advance(s, Seen(s, b)) /\ (x.do # "free" => Fits(s, p, b, 0))
  <2>1. session'[s].held = session[s].held /\ session'[s].seen[b] = ApprovedTotal(b)
        /\ status' = status
    BY <1>2, <1>5, AdvanceIs DEF Inv, tables
  <2>2. \A c : ApprovedTotal(c)' = ApprovedTotal(c)
    BY <2>1, SameTotals
  <2>3. x.do # "free" => ApprovedTotal(b) + Alloc[p][b] <= Amount[b]
    BY <1>2, <1>5, FitsIs
  <2>4. \A u, v : u = p /\ v = b /\ x.do # "free" => Reserved(s, u, v)'
    BY <1>2, <2>1, <2>2, <2>3 DEF Reserved, HasLock
  <2>5. \A y \in {x} : Holds(s, y)'
    <3> SUFFICES ASSUME NEW y \in {x}
                 PROVE  Holds(s, y)'
      OBVIOUS
    <3>1. y.arg[1] = p /\ y.arg[2] = b /\ y.do = x.do
      BY <1>1
    <3> HIDE DEF x, p, b
    <3> QED  BY <1>1, <2>4, <3>1 DEF Holds
  <2> QED  BY <1>1, <1>2, <1>5, <2>5, ReadStep
<1> QED  BY <1>3, <1>4, <1>5

\* That an income is not reversed is read, without a lock.
LEMMA UnreversedStep ==
    ASSUME Inv, NEW s \in Sessions, CheckUnreversed(s)
    PROVE  Inv'
<1> DEFINE x == Statement(s)
<1>1. Busy(s) /\ x.do = "unreversed" /\ (Rollback(s) \/ Advance(s, session[s]))
  BY DEF CheckUnreversed, At, Check
<1>2. \A y \in {x} : Holds(s, y)'
  BY <1>1 DEF Holds
<1> QED  BY <1>1, <1>2, RowIs, ReadStep, RollbackStep

\* The balance of a locked location is read.
LEMMA BalanceStep ==
    ASSUME Inv, NEW s \in Sessions, CheckBalance(s)
    PROVE  Inv'
<1> DEFINE x == Statement(s)
<1>1. Busy(s) /\ x.do = "afford" /\ Check(s, balance[x.arg[1]] >= x.arg[2], session[s])
  BY DEF CheckBalance, At, Arg
<1>2. CASE Rollback(s)
  BY <1>2, RollbackStep
<1>3. CASE balance[x.arg[1]] >= x.arg[2] /\ Advance(s, session[s])
  <2>1. PICK done \in SUBSET Statements : Supported(x, done) /\ \A y \in done : Holds(s, y)
    BY <1>1, StatementAt
  <2>2. HasLock(s, "location", x.arg[1])
    BY <1>1, <2>1, LockHeld DEF Supported
  <2>3. session'[s].held = session[s].held /\ balance' = balance
    BY <1>3, RowIs, AdvanceIs DEF Inv, tables
  <2>4. \A y \in {x} : Holds(s, y)'
    BY <1>1, <1>3, <2>2, <2>3 DEF Holds, HasLock
  <2> QED  BY <1>1, <1>3, <2>4, RowIs, ReadStep
<1> QED  BY <1>1, <1>2, <1>3 DEF Check

\* The next payment number is read.
LEMMA NumberStep ==
    ASSUME Inv, NEW s \in Sessions, NextNumber(s)
    PROVE  Inv'
<1> DEFINE x == Statement(s)
<1>1. Busy(s) /\ x.do = "number"
  BY DEF NextNumber, At
<1>2. PICK p \in PaymentIds : Advance(s, [session[s] EXCEPT !.next = 1 + number[p]])
  BY DEF NextNumber
<1> DEFINE n == 1 + number[p]
           rest == [session[s] EXCEPT !.next = n]
<1>3. n \in Nat
  BY DEF Inv, TypeOK
<1>a. Advance(s, rest)
  BY <1>2
<1> HIDE DEF n
<1>4. /\ rest \in SessionRow /\ rest.todo = session[s].todo /\ rest.seen = session[s].seen
      /\ rest.draft = session[s].draft /\ rest.held = session[s].held
  BY <1>3, RowIs DEF SessionRow
<1>5. \A y \in {x} : Holds(s, y)'
  BY <1>1 DEF Holds
<1> HIDE DEF rest
<1> QED  BY <1>1, <1>4, <1>5, <1>a, ReadStep

\* The sequence that is left when a statement is put in front and done.
LEMMA TailIs ==
    ASSUME NEW x \in Statements, NEW q \in Seq(Statements), NEW r \in Seq(Statements)
    PROVE  /\ (<<x>> \o q) \o r \in Seq(Statements) /\ Tail((<<x>> \o q) \o r) = q \o r
           /\ (<<x>> \o q) \o r # <<>>
<1> DEFINE one == <<x>>
           m == Len(q)
           n == Len(r)
           u == one \o q
           w == u \o r
           t == q \o r
<1>1. one \in Seq(Statements) /\ Len(one) = 1 /\ one[1] = x
  OBVIOUS
<1>2. /\ t \in Seq(Statements) /\ Len(t) = m + n /\ m \in Nat /\ n \in Nat
      /\ \A i \in 1 .. m : t[i] = q[i]
      /\ \A i \in 1 .. n : t[m + i] = r[i]
  BY Joined
<1> HIDE DEF one, t
<1>3. /\ u \in Seq(Statements) /\ Len(u) = 1 + m
      /\ \A i \in 1 .. m : u[1 + i] = q[i]
  <2>1. /\ u \in Seq(Statements) /\ Len(u) = Len(one) + m
        /\ \A i \in 1 .. m : u[Len(one) + i] = q[i]
    BY <1>1, Joined
  <2> HIDE DEF u, m
  <2> QED  BY <1>1, <2>1
<1> HIDE DEF u
<1>4. /\ w \in Seq(Statements) /\ Len(w) = (1 + m) + n
      /\ \A i \in 1 .. (1 + m) : w[i] = u[i]
      /\ \A i \in 1 .. n : w[(1 + m) + i] = r[i]
  <2>1. /\ w \in Seq(Statements) /\ Len(w) = Len(u) + n
        /\ \A i \in 1 .. Len(u) : w[i] = u[i]
        /\ \A i \in 1 .. n : w[Len(u) + i] = r[i]
    BY <1>3, Joined
  <2> HIDE DEF w, n, m
  <2> QED  BY <1>3, <2>1
<1> HIDE DEF w, m, n
<1>5. w # <<>>
  BY <1>2, <1>4
<1>6. /\ Tail(w) \in Seq(Statements) /\ Len(Tail(w)) = m + n
      /\ \A i \in 1 .. (m + n) : Tail(w)[i] = w[i + 1]
  BY <1>2, <1>4, <1>5
<1>7. ASSUME NEW i \in 1 .. (m + n)
      PROVE  Tail(w)[i] = t[i]
  <2>1. CASE i \in 1 .. m
    <3>1. 1 + i \in 1 .. (1 + m) /\ i + 1 = 1 + i
      BY <1>2, <2>1
    <3> QED  BY <1>2, <1>3, <1>4, <1>6, <2>1, <3>1
  <2>2. CASE i \notin 1 .. m
    <3> DEFINE j == i - m
    <3>1. j \in 1 .. n /\ i = m + j /\ i + 1 = (1 + m) + j
      BY <1>2, <2>2
    <3> HIDE DEF j
    <3>2. Tail(w)[i] = w[(1 + m) + j]
      BY <1>6, <3>1
    <3> QED  BY <1>2, <1>4, <3>1, <3>2
  <2> QED  BY <2>1, <2>2
<1>8. Tail(w) = t
  <2>1. DOMAIN Tail(w) = 1 .. (m + n) /\ DOMAIN t = 1 .. (m + n)
    BY <1>2, <1>6
  <2> DEFINE v == Tail(w)
  <2>3. \A i \in 1 .. (m + n) : v[i] = t[i]
    BY <1>7
  <2>a. v \in Seq(Statements) /\ Len(v) = m + n
    BY <1>6
  <2> HIDE DEF v
  <2>b. ASSUME NEW z \in Seq(Statements), Len(z) = m + n
        PROVE  z = [i \in 1 .. (m + n) |-> z[i]]
    BY <2>b
  <2>2. v = [i \in 1 .. (m + n) |-> v[i]] /\ t = [i \in 1 .. (m + n) |-> t[i]]
    BY <1>2, <2>a, <2>b
  <2>4. v = t
    BY <2>2, <2>3
  <2> QED  BY <2>4 DEF v
<1> QED  BY <1>4, <1>5, <1>8 DEF w, u, one, t

\* What is left of a one-bill approval that becomes a rejection.
LEMMA RejectionProgram ==
    ASSUME NEW p \in PaymentIds, NEW D, St("expect", <<p, "PENDING">>) \in D
    PROVE  LET q == PaymentVerify(p, "REJECTED") \o Do("commit", p)
           IN  /\ Program(q, D, {}) /\ q # <<>>
               /\ Elements(q) = {St("number", p), St("set", <<p, "REJECTED">>), St("commit", p)}
               /\ PaymentVerify(p, "REJECTED") \in Seq(Statements) /\ Do("commit", p) \in Seq(Statements)
<1> DEFINE x == St("set", <<p, "REJECTED">>)
           y == St("commit", p)
           q1 == PaymentVerify(p, "REJECTED")
           q2 == Do("commit", p)
           C == {y}
<1>1. x.do = "set" /\ x.arg = <<p, "REJECTED">> /\ y.do = "commit" /\ y \in Statements
  BY StIs, StatementKinds
<1>2. x.arg[1] = p /\ x.arg[2] = "REJECTED"
  BY <1>1
<1>3. Supported(y, D) /\ Followed(y, {})
  <2> HIDE DEF y
  <2> QED  BY <1>1 DEF Supported, Followed
<1>4. Supported(x, D) /\ Followed(x, C)
  <2>1. C # {} /\ \A z \in C : z.do \notin Early
    BY <1>1 DEF Early
  <2> HIDE DEF x, C
  <2> QED  BY <1>1, <1>2, <2>1 DEF Supported, Followed
<1>5. Program(q2, D, {}) /\ Elements(q2) = {y}
  BY <1>1, <1>3, OneStatement
<1>6. Program(q1, D, C) /\ Elements(q1) = {St("number", p), x}
  BY <1>4, VerifyBlock DEF PaymentStatuses
<1>9. q1 \in Seq(Statements) /\ q2 \in Seq(Statements)
  BY <1>5, <1>6 DEF Program
<1> HIDE DEF x, y, q1, q2
<1>7. Program(q1 \o q2, D, {}) /\ Elements(q1 \o q2) = Elements(q1) \cup Elements(q2)
  <2>1. Program(q2, D \cup Elements(q1), {})
    BY <1>5, MonotoneProgram
  <2>2. C = Elements(q2) \cup {}
    BY <1>5
  <2>3. Program(q1, D, Elements(q2) \cup {})
    BY <1>6, <2>2
  <2> QED  BY <2>1, <2>3, JoinPrograms
<1>8. q1 \o q2 # <<>>
  <2>1. Elements(<<>>) = {}
    BY DEF Elements
  <2>2. Elements(q1 \o q2) # {}
    BY <1>5, <1>7
  <2> QED  BY <2>1, <2>2
<1>10. Elements(q1 \o q2) = {St("number", p), x, y}
  BY <1>5, <1>6, <1>7
<1> QED  BY <1>7, <1>8, <1>9, <1>10 DEF x, y, q1, q2

\* The handler goes on with the rejection of the payment.
LEMMA RejectInsteadStep ==
    ASSUME Inv, NEW s \in Sessions, RejectInstead(s)
    PROVE  Inv'
<1> DEFINE x == Statement(s)
           p == x.arg[1]
           q == (<<x>> \o PaymentVerify(p, "REJECTED")) \o Do("commit", p)
           t == PaymentVerify(p, "REJECTED") \o Do("commit", p)
           rest == [session[s] EXCEPT !.todo = q]
<1>1. /\ Busy(s) /\ x.do = "payable" /\ (Rollback(s) \/ Advance(s, rest))
  BY DEF RejectInstead, Check, At, Arg
<1>2. CASE Rollback(s)
  BY <1>2, RollbackStep
<1>3. CASE Advance(s, rest)
  <2>1. p \in PaymentIds /\ x \in Statements
    BY <1>1, StatementAt, ArgIs
  <2>2. PICK done \in SUBSET Statements : Supported(x, done) /\ \A y \in done : Holds(s, y)
    BY <1>1, StatementAt
  <2>3. St("expect", <<p, "PENDING">>) \in done
    BY <1>1, <2>2 DEF Supported
  <2> HIDE DEF p, x
  <2>4. /\ Program(t, done, {}) /\ t # <<>>
        /\ Elements(t) = {St("number", p), St("set", <<p, "REJECTED">>), St("commit", p)}
        /\ PaymentVerify(p, "REJECTED") \in Seq(Statements) /\ Do("commit", p) \in Seq(Statements)
    BY <2>1, <2>3, RejectionProgram
  <2>5. q \in Seq(Statements) /\ Tail(q) = t /\ q # <<>>
    BY <2>1, <2>4, TailIs
  <2> HIDE DEF q, t
  <2>6. /\ rest \in SessionRow /\ rest.todo = q /\ rest.held = session[s].held
        /\ rest.seen = session[s].seen /\ rest.draft = session[s].draft
    BY <2>5, RowIs DEF SessionRow
  <2> HIDE DEF rest
  <2>7. /\ session'[s].todo = t /\ session'[s].held = session[s].held
        /\ session'[s].seen = session[s].seen /\ session'[s].draft = session[s].draft
        /\ session'[s] \in SessionRow
        /\ \A o \in Sessions \ {s} : session'[o] = session[o]
        /\ DOMAIN session' = Sessions /\ session' = [session EXCEPT ![s] = session'[s]]
        /\ UNCHANGED tables /\ requests' = requests
    BY <1>3, <2>5, <2>6, AdvanceIs DEF Inv
  <2>8. TypeOK'
    <3>1. TypeOK
      BY DEF Inv
    <3>2. session' \in [Sessions -> SessionRow]
      BY <2>7, <3>1 DEF TypeOK
    <3>3. \A o \in Sessions : session'[o].todo = <<>> => session'[o] = Idle
      BY <2>4, <2>7, <3>1 DEF TypeOK, Busy
    <3> QED  BY <2>7, <3>1, <3>2, <3>3 DEF TypeOK, tables, Busy
  <2>9. Keeps(s)
    BY <2>7 DEF Keeps, tables
  <2>10. OnTrack(s)'
    <3>1. \A y \in done : Holds(s, y)'
      BY <2>2, <2>9, HoldsKept
    <3> QED  BY <2>4, <2>7, <3>1 DEF OnTrack, Busy
  <2>11. /\ \A u \in PaymentIds : session'[s].draft.pay[u] = "-"
         /\ \A b \in Bills : session'[s].draft.bill[b] = "-"
         /\ session'[s].draft.post = NoPosting
    <3>1. /\ \A u \in PaymentIds : session[s].draft.pay[u] = "-"
          /\ \A b \in Bills : session[s].draft.bill[b] = "-"
      BY <1>1, NothingDrafted DEF Early, x
    <3>2. session[s].draft.post = NoPosting
      <4>1. x \in Elements(session[s].todo) /\ InOrder(s)
        BY <1>1, StatementAt DEF x, Inv, Drafted
      <4>2. x.do \in Unposted
        BY <1>1 DEF Unposted
      <4> QED  BY <4>1, <4>2 DEF InOrder
    <3> QED  BY <2>7, <3>1, <3>2
  <2>12. Drafted(s)'
    <3>3. InOrder(s)'
      BY <2>11 DEF InOrder
    <3>4. MoneyFollows(s)' /\ Covered(s)'
      BY <2>11, NoPostingIs DEF MoneyFollows, Covered
    <3>5. OneDraft(s)' /\ \A u \in PaymentIds : DraftPayment(s, u)' /\ BillsFollow(s, u)'
      BY <2>11 DEF OneDraft, DraftPayment, BillsFollow
    <3>6. \A b \in Bills : DraftBill(s, b)'
      BY <2>11 DEF DraftBill
    <3> QED  BY <3>3, <3>4, <3>5, <3>6 DEF Drafted
  <2>13. \A o \in Sessions \ {s} : Exclusive(s, o)'
    BY <2>7, StillExclusive
  <2> QED  BY <2>7, <2>8, <2>10, <2>12, <2>13, LocalStep
<1> QED  BY <1>1, <1>2, <1>3
-----------------------------------------------------------------------------
(* Drafts. *)

\* A row is locked for an update by one session.
LEMMA OneHolder ==
    ASSUME Inv, NEW s \in Sessions, NEW o \in Sessions, s # o, NEW kind, NEW id,
           HasLock(s, kind, id)
    PROVE  ~HasLock(o, kind, id)
<1>1. Exclusive(s, o)
  BY DEF Inv
<1>2. Update(kind, id)[1] = Update(kind, id)[1] /\ Conflict(Update(kind, id)[2], Update(kind, id)[2])
  BY DEF Update, Conflict
<1> QED  BY <1>1, <1>2 DEF Exclusive, HasLock

\* Nobody else decides on a payment that is locked.
LEMMA LockedPayment ==
    ASSUME Inv, NEW s \in Sessions, NEW o \in Sessions, s # o, NEW p \in PaymentIds,
           HasLock(s, "payment", p), status[p] # "none"
    PROVE  session[o].draft.pay[p] = "-"
<1>1. ~HasLock(o, "payment", p)
  BY OneHolder
<1>2. DraftPayment(o, p)
  BY DEF Inv, Drafted
<1>3. session[o].draft.pay[p] \in PaymentStatuses \cup {"-"}
  BY RowTypes DEF Inv
<1> QED  BY <1>1, <1>2, <1>3 DEF DraftPayment, PaymentStatuses

\* A statement that writes.
LEMMA WriteStep ==
    ASSUME Inv, NEW s \in Sessions, Busy(s), Statement(s).do # "commit",
           NEW rest \in SessionRow, rest.todo = session[s].todo, Advance(s, rest),
           Keeps(s), \A x \in {Statement(s)} : Holds(s, x)', Drafted(s)',
           \A o \in Sessions \ {s} : Exclusive(s, o)'
    PROVE  Inv'
<1>1. /\ session'[s].todo = Tail(session[s].todo)
      /\ \A o \in Sessions \ {s} : session'[o] = session[o]
      /\ UNCHANGED tables
  BY AdvanceIs DEF Inv
<1>2. TypeOK'
  BY AdvanceType
<1>3. OnTrack(s)'
  BY <1>1, StillOnTrack
<1> QED  BY <1>1, <1>2, <1>3, LocalStep

\* What an insert or an update of a payment builds on.
LEMMA PaymentKnown ==
    ASSUME Inv, NEW s \in Sessions, Busy(s), Statement(s).do \in {"insert", "set"},
           Statement(s).do = "insert" => status[Arg(s)[1]] = "none"
    PROVE  LET p == Arg(s)[1]
               to == Arg(s)[2]
           IN  /\ p \in PaymentIds /\ to \in {"PENDING", "APPROVED", "REJECTED", "REVERSED"}
               /\ to = "PENDING" => status[p] = "none"
               /\ to = "APPROVED" => \/ status[p] = "none"
                                     \/ status[p] = "PENDING" /\ HasLock(s, "payment", p)
               /\ to = "REJECTED" => status[p] = "PENDING" /\ HasLock(s, "payment", p)
               /\ to = "REVERSED" => /\ status[p] = "APPROVED" /\ HasLock(s, "payment", p)
                                     /\ \E l \in Places : session[s].draft.post = <<"payment", p, l>>
               /\ to = "APPROVED" => \A b \in Covers(p) : Reserved(s, p, b)
               /\ Statement(s).do = "set" => status[p] # "none" /\ HasLock(s, "payment", p)
<1> DEFINE x == Statement(s)
           p == x.arg[1]
           to == x.arg[2]
<1>1. PICK done \in SUBSET Statements : Supported(x, done) /\ \A y \in done : Holds(s, y)
  BY StatementAt
<1>2. p \in PaymentIds /\ to \in PaymentStatuses
  BY StatementAt, ArgIs
<1> HIDE DEF p, to
<1>3. ASSUME NEW st, St("expect", <<p, st>>) \in done
      PROVE  status[p] = st /\ HasLock(s, "payment", p) /\ st # "none"
  <2> DEFINE y == St("expect", <<p, st>>)
  <2>1. y.do = "expect" /\ y.arg[1] = p /\ y.arg[2] = st /\ Holds(s, y)
    BY <1>1, <1>3, StIs
  <2> HIDE DEF y
  <2> QED  BY <2>1 DEF Holds
<1>4. ASSUME NEW do \in {"open", "payable"}, NEW b, St(do, <<p, b>>) \in done
      PROVE  Reserved(s, p, b)
  <2> DEFINE y == St(do, <<p, b>>)
  <2>1. y.do = do /\ y.arg[1] = p /\ y.arg[2] = b /\ Holds(s, y)
    BY <1>1, <1>4, StIs
  <2> HIDE DEF y
  <2> QED  BY <2>1 DEF Holds
<1>5. ASSUME NEW row, St("post", row) \in done
      PROVE  session[s].draft.post = row
  <2> DEFINE y == St("post", row)
  <2>1. y.do = "post" /\ y.arg = row /\ Holds(s, y)
    BY <1>1, <1>5, StIs
  <2> HIDE DEF y
  <2> QED  BY <2>1 DEF Holds
<1>6. CASE x.do = "insert"
  <2>1. \/ to = "PENDING"
        \/ to = "APPROVED" /\ \A b \in Covers(p) : St("open", <<p, b>>) \in done
    BY <1>1, <1>6 DEF Supported, p, to
  <2>2. status[p] = "none"
    BY <1>6 DEF Arg, p
  <2> QED  BY <1>2, <1>4, <1>6, <2>1, <2>2 DEF Arg, p, to
<1>7. CASE x.do = "set"
  <2>1. \/ to = "REJECTED" /\ St("expect", <<p, "PENDING">>) \in done
        \/ /\ to = "APPROVED" /\ St("expect", <<p, "PENDING">>) \in done
           /\ \A b \in Covers(p) : St("payable", <<p, b>>) \in done
        \/ /\ to = "REVERSED" /\ St("expect", <<p, "APPROVED">>) \in done
           /\ \E l \in Places : St("post", <<"payment", p, l>>) \in done
    BY <1>1, <1>7 DEF Supported, p, to
  <2>2. CASE to = "REJECTED" /\ St("expect", <<p, "PENDING">>) \in done
    <3>1. status[p] = "PENDING" /\ HasLock(s, "payment", p)
      BY <1>3, <2>2
    <3> QED  BY <1>2, <1>7, <2>2, <3>1 DEF Arg, p, to
  <2>3. CASE /\ to = "APPROVED" /\ St("expect", <<p, "PENDING">>) \in done
             /\ \A b \in Covers(p) : St("payable", <<p, b>>) \in done
    <3>1. status[p] = "PENDING" /\ HasLock(s, "payment", p)
      BY <1>3, <2>3
    <3>2. \A b \in Covers(p) : Reserved(s, p, b)
      BY <1>4, <2>3
    <3> QED  BY <1>2, <1>7, <2>3, <3>1, <3>2 DEF Arg, p, to
  <2>4. CASE /\ to = "REVERSED" /\ St("expect", <<p, "APPROVED">>) \in done
             /\ \E l \in Places : St("post", <<"payment", p, l>>) \in done
    <3>1. status[p] = "APPROVED" /\ HasLock(s, "payment", p)
      BY <1>3, <2>4
    <3>2. \E l \in Places : session[s].draft.post = <<"payment", p, l>>
      BY <1>5, <2>4
    <3> QED  BY <1>2, <1>7, <2>4, <3>1, <3>2 DEF Arg, p, to
  <2> QED  BY <2>1, <2>2, <2>3, <2>4
<1> QED  BY <1>6, <1>7

\* The status of a payment is drafted.
LEMMA PayStep ==
    ASSUME Inv, NEW s \in Sessions, Busy(s), Statement(s).do \in {"insert", "set"},
           NEW p, p = Arg(s)[1], NEW to, to = Arg(s)[2],
           Statement(s).do = "insert" =>
             status[p] = "none" /\ \A o \in Sessions \ {s} : session[o].draft.pay[p] = "-",
           NEW rest \in SessionRow, rest.todo = session[s].todo, Advance(s, rest),
           rest.seen = session[s].seen, session[s].held \subseteq rest.held,
           rest.draft.pay = [session[s].draft.pay EXCEPT ![p] = to],
           rest.draft.bill = session[s].draft.bill, rest.draft.post = session[s].draft.post,
           \A o \in Sessions \ {s} : \A mine \in rest.held, other \in session[o].held :
              mine[1] = other[1] => ~Conflict(mine[2], other[2])
    PROVE  Inv'
<1> DEFINE x == Statement(s)
           pay == session[s].draft.pay
           new == session'[s].draft.pay
<1>1. /\ session'[s].todo = Tail(session[s].todo)
      /\ session'[s].held = rest.held /\ session'[s].seen = session[s].seen
      /\ new = [pay EXCEPT ![p] = to]
      /\ session'[s].draft.bill = session[s].draft.bill
      /\ session'[s].draft.post = session[s].draft.post
      /\ \A o \in Sessions \ {s} : session'[o] = session[o]
      /\ status' = status /\ bill' = bill /\ balance' = balance
  BY AdvanceIs DEF Inv, tables
<1>2. /\ p \in PaymentIds /\ to \in {"PENDING", "APPROVED", "REJECTED", "REVERSED"}
      /\ to = "PENDING" => status[p] = "none"
      /\ to = "APPROVED" => \/ status[p] = "none"
                            \/ status[p] = "PENDING" /\ HasLock(s, "payment", p)
      /\ to = "REJECTED" => status[p] = "PENDING" /\ HasLock(s, "payment", p)
      /\ to = "REVERSED" => /\ status[p] = "APPROVED" /\ HasLock(s, "payment", p)
                            /\ \E l \in Places : session[s].draft.post = <<"payment", p, l>>
      /\ to = "APPROVED" => \A b \in Covers(p) : Reserved(s, p, b)
      /\ x.do = "set" => status[p] # "none" /\ HasLock(s, "payment", p)
  BY PaymentKnown
<1>3. /\ \A q \in PaymentIds : pay[q] = "-"
      /\ \A b \in Bills : session[s].draft.bill[b] = "-"
  BY NothingDrafted DEF Early
<1>4. new[p] = to /\ \A q \in PaymentIds \ {p} : new[q] = "-"
  <2>1. pay \in [PaymentIds -> PaymentStatuses \cup {"-"}]
    BY RowTypes DEF Inv
  <2> HIDE DEF pay, new
  <2> QED  BY <1>1, <1>2, <1>3, <2>1
<1>5. Keeps(s)
  BY <1>1, <1>3 DEF Keeps
<1>6. x \in Statements /\ x.arg[1] = p /\ x.arg[2] = to
  BY StatementAt DEF Arg
<1>7. /\ Elements(session[s].todo) = {x} \cup Elements(session'[s].todo)
      /\ Followed(x, Elements(session'[s].todo))
  BY <1>1, StatementAt
<1>a. Drafted(s)
  BY DEF Inv
<1> HIDE DEF pay, x, new
<1>8. \A y \in {x} : Holds(s, y)'
  <2>1. x.do \in {"insert", "set"}
    BY DEF x
  <2>2. session'[s].draft.pay[x.arg[1]] = x.arg[2]
    BY <1>4, <1>6 DEF new
  <2> QED  BY <2>1, <2>2 DEF Holds
<1>b. \A y : y.do \notin {"insert", "set"} /\ Left(s, y) => Left(s, y)'
  BY <1>7 DEF Left, x
<1>c. \A y \in Elements(session'[s].todo) : y.do \notin Early
  BY <1>7 DEF Followed, x
<1>9. InOrder(s)'
  <2>1. InOrder(s)
    BY <1>a DEF Drafted
  <2>2. (\E y \in Elements(session'[s].todo) : y.do \in Unposted) => session'[s].draft.post = NoPosting
    BY <1>1, <1>7, <2>1 DEF InOrder
  <2> QED  BY <1>c, <2>2 DEF InOrder
<1>10. MoneyFollows(s)'
  <2>0. MoneyFollows(s)
    BY <1>a DEF Drafted
  <2>1. to = "APPROVED" => \E l \in Places : Left(s, St("post", <<"income", p, l>>))'
    <3> SUFFICES ASSUME to = "APPROVED"
                 PROVE  \E l \in Places : Left(s, St("post", <<"income", p, l>>))'
      OBVIOUS
    <3>1. PICK l \in Places : St("post", <<"income", p, l>>) \in Elements(session'[s].todo)
      BY <1>6, <1>7 DEF Followed, x
    <3> QED  BY <3>1 DEF Left
  <2>2. session'[s].draft.post[1] # "income"
    <3>1. session[s].draft.post[1] = "income" => /\ session[s].draft.post \in Postings
                                                 /\ pay[session[s].draft.post[2]] = "APPROVED"
      BY <2>0, RowTypes, NoPostingIs DEF MoneyFollows, pay, Inv
    <3>2. session[s].draft.post[1] = "income" => session[s].draft.post[2] \in PaymentIds
      BY <3>1, PostingIs
    <3> QED  BY <1>1, <1>3, <3>1, <3>2
  <2>3. session'[s].draft.post[1] = "payment" => new[session'[s].draft.post[2]] = "REVERSED"
    <3> SUFFICES ASSUME session[s].draft.post[1] = "payment"
                 PROVE  new[session[s].draft.post[2]] = "REVERSED"
      BY <1>1
    <3> DEFINE q == session[s].draft.post[2]
    <3>1. session[s].draft.post \in Postings
      BY RowTypes, NoPostingIs DEF Inv
    <3>2. q \in PaymentIds
      BY <3>1, PostingIs
    <3> HIDE DEF q
    <3>3. pay[q] = "-"
      BY <1>3, <3>2
    <3>4. Left(s, St("set", <<q, "REVERSED">>))
      BY <2>0, <3>3 DEF MoneyFollows, pay, q
    <3>5. St("set", <<q, "REVERSED">>).do \in Early
      BY StIs DEF Early
    <3>6. St("set", <<q, "REVERSED">>) \notin Elements(session'[s].todo)
      BY <1>c, <3>5
    <3>7. St("set", <<q, "REVERSED">>) = x
      BY <1>7, <3>4, <3>6 DEF Left
    <3>8. p = q /\ to = "REVERSED"
      BY <1>6, <3>7, StIs
    <3> QED  BY <1>4, <3>8 DEF q
  <2>4. \A q \in PaymentIds : q # p => new[q] \notin {"APPROVED", "REVERSED"}
    BY <1>4
  <2>5. to = "REVERSED" => \E l \in Places : session'[s].draft.post = <<"payment", p, l>>
    BY <1>1, <1>2
  <2> QED  BY <1>4, <2>1, <2>2, <2>3, <2>4, <2>5 DEF MoneyFollows, new
<1>11. Covered(s)'
  <2>1. Covered(s)
    BY <1>a DEF Drafted
  <2> QED  BY <1>1, <1>5, <2>1, LockKept DEF Covered
<1>12. OneDraft(s)'
  BY <1>4 DEF OneDraft, new
<1>13. ASSUME NEW q \in PaymentIds
       PROVE  DraftPayment(s, q)' /\ BillsFollow(s, q)'
  <2>1. CASE q # p
    BY <1>4, <2>1 DEF DraftPayment, BillsFollow, new
  <2>2. CASE q = p
    <3>1. \A b \in Covers(p) : b \in Bills
      BY CoversIs
    <3>2. HasLock(s, "payment", p) => HasLock(s, "payment", p)'
      BY <1>5, LockKept
    <3>3. to = "APPROVED" => \A b \in Covers(p) : Reserved(s, p, b)'
      BY <1>2, <1>5, <3>1, LockKept
    <3>4. session'[s].draft.pay[p] = to
      BY <1>4 DEF new
    <3>5. DraftPayment(s, p)'
      BY <1>1, <1>2, <3>2, <3>3, <3>4 DEF DraftPayment
    <3>6. to = "APPROVED" => \A b \in Covers(p) : St("settle", p) \in Elements(session'[s].todo)
      BY <1>6, <1>7 DEF Followed, x
    <3>7. to = "REVERSED" => \A b \in Covers(p) : St("reconcile", b) \in Elements(session'[s].todo)
      <4>1. to = "REVERSED" => x.do = "set"
        BY <1>2 DEF x
      <4> QED  BY <1>6, <1>7, <4>1 DEF Followed
    <3>8. BillsFollow(s, p)'
      BY <3>4, <3>6, <3>7 DEF BillsFollow, Left
    <3> QED  BY <2>2, <3>5, <3>8
  <2> QED  BY <2>1, <2>2
<1>14. \A b \in Bills : DraftBill(s, b)'
  BY <1>1, <1>3 DEF DraftBill
<1>15. Drafted(s)'
  BY <1>9, <1>10, <1>11, <1>12, <1>13, <1>14 DEF Drafted
<1>16. ASSUME NEW o \in Sessions \ {s}
       PROVE  Exclusive(s, o)'
  <2>1. session[o].draft.pay[p] = "-"
    <3>1. x.do = "insert" \/ x.do = "set"
      BY DEF x
    <3>2. CASE x.do = "insert"
      BY <3>2 DEF x
    <3>3. CASE x.do = "set"
      BY <1>2, <3>3, LockedPayment
    <3> QED  BY <3>1, <3>2, <3>3
  <2>2. \A q \in PaymentIds : new[q] = "-" \/ session[o].draft.pay[q] = "-"
    BY <1>4, <2>1
  <2>3. session'[o] = session[o]
    BY <1>1
  <2> QED  BY <1>1, <2>2, <2>3 DEF Exclusive, new
<1>17. x.do # "commit"
  BY DEF x
<1> QED  BY <1>5, <1>8, <1>15, <1>16, <1>17, WriteStep DEF x

\* A session row with another draft.
LEMMA DraftRowIs ==
    ASSUME NEW row \in SessionRow, NEW draft \in DraftRow, NEW rest, rest = [row EXCEPT !.draft = draft]
    PROVE  /\ rest \in SessionRow /\ rest.todo = row.todo /\ rest.held = row.held
           /\ rest.seen = row.seen /\ rest.next = row.next /\ rest.draft = draft
BY DEF SessionRow

\* A payment is inserted; its id is new.
LEMMA InsertStep ==
    ASSUME Inv, NEW s \in Sessions, Insert(s)
    PROVE  Inv'
<1> DEFINE p == Arg(s)[1]
           to == Arg(s)[2]
           free == \A o \in Sessions : StatusSeen(o, p) = "none"
           rest == [session[s] EXCEPT !.draft.pay[p] = to]
<1>1. Busy(s) /\ Statement(s).do = "insert" /\ (Rollback(s) \/ (free /\ Advance(s, rest)))
  <2>1. At(s, "insert") /\ Check(s, free, rest)
    BY DEF Insert
  <2> HIDE DEF free, rest
  <2> QED  BY <2>1 DEF Check, At
<1>2. CASE Rollback(s)
  BY <1>2, RollbackStep
<1>3. CASE free /\ Advance(s, rest)
  <2>1. p \in PaymentIds /\ to \in PaymentStatuses
    BY <1>1, StatementAt, ArgIs DEF Arg
  <2>2. status[p] = "none"
    <3>1. session[s].draft.pay[p] = "-"
      BY <1>1, <2>1, NothingDrafted DEF Early
    <3> QED  BY <1>3, <3>1 DEF StatusSeen
  <2>3. ASSUME NEW o \in Sessions \ {s}
        PROVE  session[o].draft.pay[p] = "-"
    <3>1. DraftPayment(o, p)
      BY <2>1 DEF Inv, Drafted
    <3>2. StatusSeen(o, p) = "none"
      BY <1>3
    <3> QED  BY <3>1, <3>2 DEF StatusSeen, DraftPayment
  <2> HIDE DEF p, to
  <2> DEFINE draft == [session[s].draft EXCEPT !.pay = [session[s].draft.pay EXCEPT ![p] = to]]
  <2>4. /\ draft \in DraftRow /\ draft.pay = [session[s].draft.pay EXCEPT ![p] = to]
        /\ draft.bill = session[s].draft.bill /\ draft.post = session[s].draft.post
    <3>1. session[s].draft \in DraftRow
      BY RowTypes DEF Inv
    <3> QED  BY <2>1, <3>1 DEF DraftRow
  <2>5. rest = [session[s] EXCEPT !.draft = draft]
    BY RowIs DEF SessionRow, DraftRow
  <2> HIDE DEF draft, rest
  <2>6. /\ rest \in SessionRow /\ rest.todo = session[s].todo /\ rest.held = session[s].held
        /\ rest.seen = session[s].seen /\ rest.draft = draft
    BY <2>4, <2>5, RowIs, DraftRowIs
  <2>7. \A o \in Sessions \ {s} : \A mine \in rest.held, other \in session[o].held :
           mine[1] = other[1] => ~Conflict(mine[2], other[2])
    BY <2>6 DEF Inv, Exclusive
  <2>8. /\ rest.draft.pay = [session[s].draft.pay EXCEPT ![p] = to]
        /\ rest.draft.bill = session[s].draft.bill /\ rest.draft.post = session[s].draft.post
    BY <2>4, <2>6
  <2>9. p = Arg(s)[1] /\ to = Arg(s)[2]
    BY DEF p, to
  <2> QED  BY <1>1, <1>3, <2>2, <2>3, <2>6, <2>7, <2>8, <2>9, PayStep
<1> QED  BY <1>1, <1>2, <1>3

\* A payment becomes reversed.
LEMMA ReversedStep ==
    ASSUME Inv, NEW s \in Sessions, SetReversed(s)
    PROVE  Inv'
<1> DEFINE p == Arg(s)[1]
           to == Arg(s)[2]
           rest == [session[s] EXCEPT !.draft.pay[p] = to]
<1>1. Busy(s) /\ Statement(s).do = "set" /\ Advance(s, rest)
  BY DEF SetReversed, At
<1>2. p \in PaymentIds /\ to \in PaymentStatuses
  BY <1>1, StatementAt, ArgIs DEF Arg
<1> HIDE DEF p, to
<1> DEFINE draft == [session[s].draft EXCEPT !.pay = [session[s].draft.pay EXCEPT ![p] = to]]
<1>4. /\ draft \in DraftRow /\ draft.pay = [session[s].draft.pay EXCEPT ![p] = to]
      /\ draft.bill = session[s].draft.bill /\ draft.post = session[s].draft.post
  <2>1. session[s].draft \in DraftRow
    BY RowTypes DEF Inv
  <2> QED  BY <1>2, <2>1 DEF DraftRow
<1>5. rest = [session[s] EXCEPT !.draft = draft]
  BY RowIs DEF SessionRow, DraftRow
<1> HIDE DEF draft, rest
<1>6. /\ rest \in SessionRow /\ rest.todo = session[s].todo /\ rest.held = session[s].held
      /\ rest.seen = session[s].seen /\ rest.draft = draft
  BY <1>4, <1>5, RowIs, DraftRowIs
<1>7. \A o \in Sessions \ {s} : \A mine \in rest.held, other \in session[o].held :
         mine[1] = other[1] => ~Conflict(mine[2], other[2])
  BY <1>6 DEF Inv, Exclusive
<1>8. /\ rest.draft.pay = [session[s].draft.pay EXCEPT ![p] = to]
      /\ rest.draft.bill = session[s].draft.bill /\ rest.draft.post = session[s].draft.post
  BY <1>4, <1>6
<1>9. p = Arg(s)[1] /\ to = Arg(s)[2]
  BY DEF p, to
<1> QED  BY <1>1, <1>6, <1>7, <1>8, <1>9, PayStep

\* A payment is approved or rejected, under a number that no other session
\* writes.
LEMMA VerifiedStep ==
    ASSUME Inv, NEW s \in Sessions, SetVerified(s)
    PROVE  Inv'
<1> DEFINE p == Arg(s)[1]
           to == Arg(s)[2]
           rest == [session[s] EXCEPT !.draft.pay[p] = to,
                                      !.draft.number[p] = session[s].next,
                                      !.held = @ \cup Wanted(s)]
<1>1. Busy(s) /\ Statement(s).do = "set" /\ Blockers(s) = {} /\ WritesNumber(s)
      /\ (Rollback(s) \/ Advance(s, rest))
  BY DEF SetVerified, Check, WritesNumber, At
<1>2. CASE Rollback(s)
  BY <1>2, RollbackStep
<1>3. CASE Advance(s, rest)
  <2>1. p \in PaymentIds /\ to \in PaymentStatuses
    BY <1>1, StatementAt, ArgIs DEF Arg
  <2>2. Wanted(s) = {<<<<"payment_no", session[s].next>>, "update">>}
    BY <1>1 DEF Wanted, At
  <2>3. /\ session[s].next \in Nat /\ session[s].draft \in DraftRow /\ session[s] \in SessionRow
        /\ session[s].held \subseteq Rows \X Modes
    BY RowTypes DEF Inv
  <2>4. Wanted(s) \subseteq Rows \X Modes
    <3>1. <<"payment_no", session[s].next>> \in Rows /\ "update" \in Modes
      BY <2>3, RowKinds
    <3> HIDE DEF p, to
    <3> QED  BY <2>2, <3>1
  <2> HIDE DEF p, to
  <2> DEFINE new == [session[s].draft.pay EXCEPT ![p] = to]
             numbers == [session[s].draft.number EXCEPT ![p] = session[s].next]
             draft == [session[s].draft EXCEPT !.pay = new, !.number = numbers]
             held == session[s].held \cup Wanted(s)
  <2>5. new \in [PaymentIds -> PaymentStatuses \cup {"-"}] /\ numbers \in [PaymentIds -> Nat]
    BY <2>1, <2>3 DEF DraftRow
  <2>6. rest = [session[s] EXCEPT !.draft = draft, !.held = held]
    BY <2>3 DEF SessionRow, DraftRow
  <2>7. held \subseteq Rows \X Modes /\ session[s].held \subseteq held
    BY <2>3, <2>4
  <2>8. \A o \in Sessions \ {s} : \A mine \in held, other \in session[o].held :
           mine[1] = other[1] => ~Conflict(mine[2], other[2])
    <3> SUFFICES ASSUME NEW o \in Sessions \ {s}, NEW mine \in held, NEW other \in session[o].held,
                        mine[1] = other[1]
                 PROVE  ~Conflict(mine[2], other[2])
      OBVIOUS
    <3>1. CASE mine \in session[s].held
      BY <3>1 DEF Inv, Exclusive
    <3>2. CASE mine \in Wanted(s)
      BY <1>1, <3>2 DEF Blockers
    <3> QED  BY <3>1, <3>2
  <2> HIDE DEF new, numbers, rest, held
  <2>9. /\ draft \in DraftRow /\ draft.pay = new
        /\ draft.bill = session[s].draft.bill /\ draft.post = session[s].draft.post
    BY <2>3, <2>5 DEF DraftRow
  <2> HIDE DEF draft
  <2>10. /\ rest \in SessionRow /\ rest.todo = session[s].todo /\ rest.held = held
         /\ rest.seen = session[s].seen /\ rest.draft = draft
    BY <2>3, <2>6, <2>7, <2>9 DEF SessionRow
  <2>11. /\ rest.draft.pay = [session[s].draft.pay EXCEPT ![p] = to]
         /\ rest.draft.bill = session[s].draft.bill /\ rest.draft.post = session[s].draft.post
    BY <2>9, <2>10 DEF new
  <2>12. p = Arg(s)[1] /\ to = Arg(s)[2] /\ session[s].held \subseteq rest.held
    BY <2>7, <2>10 DEF p, to
  <2>13. \A o \in Sessions \ {s} : \A mine \in rest.held, other \in session[o].held :
           mine[1] = other[1] => ~Conflict(mine[2], other[2])
    BY <2>8, <2>10
  <2> QED  BY <1>1, <1>3, <2>10, <2>11, <2>12, <2>13, PayStep
<1> QED  BY <1>1, <1>2, <1>3

\* The status of bills is drafted.
LEMMA BillsStep ==
    ASSUME Inv, NEW s \in Sessions, Busy(s), Statement(s).do \in {"settle", "reconcile", "cancel"},
           NEW rest \in SessionRow, rest.todo = session[s].todo, Advance(s, rest),
           rest.seen = session[s].seen, rest.held = session[s].held,
           rest.draft.pay = session[s].draft.pay, rest.draft.post = session[s].draft.post,
           \A b \in Bills : rest.draft.bill[b] # "-" =>
              HasLock(s, "bill", b) /\ Agrees(b, rest.draft.bill[b], TotalSeen(s, b, "APPROVED")),
           \A p \in PaymentIds : session[s].draft.pay[p] \in {"APPROVED", "REVERSED"} =>
              \A b \in Covers(p) : \/ rest.draft.bill[b] # "-"
                                   \/ St("settle", p) \in Elements(Tail(session[s].todo))
                                   \/ St("reconcile", b) \in Elements(Tail(session[s].todo))
    PROVE  Inv'
<1> DEFINE x == Statement(s)
<1>1. /\ session'[s].todo = Tail(session[s].todo)
      /\ session'[s].held = session[s].held /\ session'[s].seen = session[s].seen
      /\ session'[s].draft = rest.draft
      /\ \A o \in Sessions \ {s} : session'[o] = session[o]
      /\ status' = status /\ bill' = bill /\ balance' = balance
  BY AdvanceIs DEF Inv, tables
<1>2. /\ Elements(session[s].todo) = {x} \cup Elements(session'[s].todo)
      /\ \A y \in Elements(session'[s].todo) : y.do \notin Early
  BY <1>1, StatementAt DEF Followed
<1>3. Keeps(s)
  BY <1>1 DEF Keeps
<1>4. Drafted(s)
  BY DEF Inv
<1>5. \A y \in {x} : Holds(s, y)'
  BY DEF Holds
<1>6. \A y : y.do \notin {"settle", "reconcile", "cancel"} /\ Left(s, y) => Left(s, y)'
  BY <1>2 DEF Left
<1>7. InOrder(s)'
  <2>1. InOrder(s)
    BY <1>4 DEF Drafted
  <2>2. (\E y \in Elements(session'[s].todo) : y.do \in Unposted) => session'[s].draft.post = NoPosting
    BY <1>1, <1>2, <2>1 DEF InOrder
  <2> QED  BY <1>2, <2>2 DEF InOrder
<1>8. MoneyFollows(s)'
  <2>1. MoneyFollows(s)
    BY <1>4 DEF Drafted
  <2>2. \A row : Left(s, St("post", row)) => Left(s, St("post", row))'
    BY <1>6, StIs
  <2>3. \A row : Left(s, St("set", row)) => Left(s, St("set", row))'
    BY <1>6, StIs
  <2> QED  BY <1>1, <2>1, <2>2, <2>3 DEF MoneyFollows
<1>9. Covered(s)'
  <2>1. Covered(s)
    BY <1>4 DEF Drafted
  <2> QED  BY <1>1, <1>3, <2>1, LockKept DEF Covered
<1>10. OneDraft(s)'
  BY <1>1, <1>4 DEF Drafted, OneDraft
<1>11. ASSUME NEW p \in PaymentIds
       PROVE  DraftPayment(s, p)' /\ BillsFollow(s, p)'
  <2>1. DraftPayment(s, p)
    BY <1>4 DEF Drafted
  <2>2. \A b \in Covers(p) : b \in Bills
    BY CoversIs
  <2>3. DraftPayment(s, p)'
    BY <1>1, <1>3, <2>1, <2>2, LockKept DEF DraftPayment
  <2>4. BillsFollow(s, p)'
    BY <1>1 DEF BillsFollow, Left
  <2> QED  BY <2>3, <2>4
<1>12. ASSUME NEW b \in Bills
       PROVE  DraftBill(s, b)'
  <2>1. TotalSeen(s, b, "APPROVED")' = TotalSeen(s, b, "APPROVED")
    BY <1>1, SameTotals
  <2>2. HasLock(s, "bill", b) => HasLock(s, "bill", b)'
    BY <1>3, LockKept
  <2>3. \A st, n : Agrees(b, st, n) => Agrees(b, st, n)'
    BY DEF Agrees, Reconciled
  <2> QED  BY <1>1, <2>1, <2>2, <2>3 DEF DraftBill
<1>13. Drafted(s)'
  BY <1>7, <1>8, <1>9, <1>10, <1>11, <1>12 DEF Drafted
<1>14. \A o \in Sessions \ {s} : Exclusive(s, o)'
  BY <1>1, StillExclusive
<1> QED  BY <1>3, <1>5, <1>13, <1>14, WriteStep

\* A settled or reconciled bill is right about its total.
LEMMA SettledAgrees ==
    ASSUME NEW b \in Bills, NEW n \in Nat, 0 < n, n <= Amount[b]
    PROVE  /\ Agrees(b, Settled(b, n), n) /\ Settled(b, n) # "-"
           /\ Settled(b, n) \in BillStatuses
<1>1. Amount[b] \in Nat
  BY Columns
<1> QED  BY <1>1 DEF Agrees, Settled, Reconciled, BillStatuses

\* The same for a reconciled bill.
LEMMA ReconciledAgrees ==
    ASSUME NEW b \in Bills, NEW n \in Nat, NEW was \in BillStatuses, was = "cancelled" => n = 0
    PROVE  /\ Agrees(b, Reconciled(b, was, n), n) /\ Reconciled(b, was, n) # "-"
           /\ Reconciled(b, was, n) \in BillStatuses
<1>1. Amount[b] \in Nat
  BY Columns
<1>2. CASE was = "cancelled"
  BY <1>2 DEF Agrees, Reconciled, BillStatuses
<1>3. CASE was # "cancelled"
  BY <1>1, <1>3 DEF Agrees, Reconciled, BillStatuses
<1> QED  BY <1>2, <1>3

\* A payment is drafted once its insert or its update is done.
LEMMA DraftDone ==
    ASSUME NEW s \in Sessions, NEW done, \A y \in done : Holds(s, y),
           NEW p, NEW st
    PROVE  /\ Drafts(done, p, st) => session[s].draft.pay[p] = st
           /\ St("set", <<p, st>>) \in done => session[s].draft.pay[p] = st
<1>1. ASSUME NEW do \in {"insert", "set"}, St(do, <<p, st>>) \in done
      PROVE  session[s].draft.pay[p] = st
  <2> DEFINE y == St(do, <<p, st>>)
  <2>1. y.do = do /\ y.arg[1] = p /\ y.arg[2] = st /\ Holds(s, y)
    BY <1>1, StIs
  <2> HIDE DEF y
  <2> QED  BY <2>1 DEF Holds
<1> QED  BY <1>1 DEF Drafts

\* The bills of an approved payment get their status from the totals read under
\* their locks.
LEMMA SettleStep ==
    ASSUME Inv, NEW s \in Sessions, Settle(s)
    PROVE  Inv'
<1> DEFINE x == Statement(s)
           p == Arg(s)
           settled(b) == IF b \in Covers(p) THEN Settled(b, session[s].seen[b] + Alloc[p][b]) ELSE "-"
           bills == [b \in Bills |-> settled(b)]
           rest == [session[s] EXCEPT !.draft.bill = bills]
           draft == [session[s].draft EXCEPT !.bill = bills]
<1>1. Busy(s) /\ x.do = "settle" /\ Advance(s, rest) /\ x.arg = p
  BY DEF Settle, At, Arg
<1>2. p \in PaymentIds
  BY <1>1, StatementAt, ArgIs
<1>3. session[s].draft.pay[p] = "APPROVED"
  <2>1. PICK done \in SUBSET Statements : Supported(x, done) /\ \A y \in done : Holds(s, y)
    BY <1>1, StatementAt
  <2>2. Drafts(done, p, "APPROVED")
    BY <1>1, <2>1 DEF Supported
  <2> QED  BY <2>1, <2>2, DraftDone
<1>4. TypeOK /\ OneDraft(s) /\ \A q \in PaymentIds : DraftPayment(s, q)
  BY DEF Inv, Drafted
<1>5. ASSUME NEW b \in Covers(p)
      PROVE  /\ b \in Bills /\ HasLock(s, "bill", b)
             /\ bills[b] # "-" /\ bills[b] \in BillStatuses
             /\ Agrees(b, bills[b], TotalSeen(s, b, "APPROVED"))
  <2>1. b \in Bills /\ Alloc[p][b] > 0 /\ Alloc[p][b] \in Nat
    BY <1>2, CoversIs, AllocNat
  <2>2. Reserved(s, p, b)
    BY <1>2, <1>3, <1>4 DEF DraftPayment
  <2>3. ApprovedTotal(b) \in Nat /\ Amount[b] \in Nat
    BY <2>1, TotalsNat, AllocNat, <1>2
  <2>4. TotalSeen(s, b, "APPROVED") = ApprovedTotal(b) + Alloc[p][b]
    BY <1>2, <1>3, <1>4, <2>1, SeenTotals
  <2> DEFINE n == ApprovedTotal(b) + Alloc[p][b]
  <2>5. n \in Nat /\ 0 < n /\ n <= Amount[b]
    BY <2>1, <2>2, <2>3 DEF Reserved
  <2>6. bills[b] = Settled(b, n)
    BY <2>1, <2>2 DEF Reserved
  <2> HIDE DEF n, bills
  <2>7. Agrees(b, Settled(b, n), n) /\ Settled(b, n) # "-" /\ Settled(b, n) \in BillStatuses
    BY <2>1, <2>5, SettledAgrees
  <2>8. TotalSeen(s, b, "APPROVED") = n
    BY <2>4 DEF n
  <2> QED  BY <2>1, <2>2, <2>6, <2>7, <2>8 DEF Reserved
<1>6. \A b \in Bills : b \notin Covers(p) => bills[b] = "-"
  OBVIOUS
<1>7. bills = [b \in Bills |-> bills[b]]
  OBVIOUS
<1>8. rest = [session[s] EXCEPT !.draft = draft]
  BY RowIs DEF SessionRow, DraftRow
<1> HIDE DEF bills, rest, x
<1>9. bills \in [Bills -> BillStatuses \cup {"-"}]
  <2>1. \A b \in Bills : bills[b] \in BillStatuses \cup {"-"}
    BY <1>5, <1>6
  <2> QED  BY <1>7, <2>1
<1>10. /\ draft \in DraftRow /\ draft.bill = bills
       /\ draft.pay = session[s].draft.pay /\ draft.post = session[s].draft.post
  <2>1. session[s].draft \in DraftRow
    BY RowTypes DEF Inv
  <2> QED  BY <1>9, <2>1 DEF DraftRow
<1> HIDE DEF draft
<1>11. /\ rest \in SessionRow /\ rest.todo = session[s].todo /\ rest.held = session[s].held
       /\ rest.seen = session[s].seen /\ rest.draft = draft
  BY <1>8, <1>10, RowIs, DraftRowIs
<1>12. \A b \in Bills : rest.draft.bill[b] # "-" =>
          HasLock(s, "bill", b) /\ Agrees(b, rest.draft.bill[b], TotalSeen(s, b, "APPROVED"))
  BY <1>5, <1>6, <1>10, <1>11
<1>13. ASSUME NEW q \in PaymentIds, session[s].draft.pay[q] \in {"APPROVED", "REVERSED"}, NEW b \in Covers(q)
       PROVE  rest.draft.bill[b] # "-"
  <2>1. q = p
    BY <1>2, <1>3, <1>4, <1>13 DEF OneDraft
  <2> QED  BY <1>5, <1>10, <1>11, <1>13, <2>1
<1>14. rest.draft.pay = session[s].draft.pay /\ rest.draft.post = session[s].draft.post
  BY <1>10, <1>11
<1>15. Statement(s).do \in {"settle", "reconcile", "cancel"}
  BY <1>1 DEF x
<1> QED  BY <1>1, <1>11, <1>12, <1>13, <1>14, <1>15, BillsStep

\* The status of one bill is drafted.
LEMMA OneBillStep ==
    ASSUME Inv, NEW s \in Sessions, Busy(s), Statement(s).do \in {"reconcile", "cancel"},
           NEW b \in Bills, b = Arg(s), NEW st \in BillStatuses,
           Advance(s, [session[s] EXCEPT !.draft.bill[b] = st]),
           Agrees(b, st, TotalSeen(s, b, "APPROVED"))
    PROVE  Inv'
<1> DEFINE x == Statement(s)
           bills == [session[s].draft.bill EXCEPT ![b] = st]
           draft == [session[s].draft EXCEPT !.bill = bills]
           rest == [session[s] EXCEPT !.draft.bill[b] = st]
<1>0. Drafted(s) /\ session[s].draft \in DraftRow
  BY RowTypes DEF Inv
<1>1. PICK done \in SUBSET Statements : Supported(x, done) /\ \A y \in done : Holds(s, y)
  BY StatementAt
<1>2. HasLock(s, "bill", b)
  BY <1>1, LockHeld DEF Supported, Arg
<1>3. /\ bills \in [Bills -> BillStatuses \cup {"-"}] /\ bills[b] = st
      /\ \A c \in Bills \ {b} : bills[c] = session[s].draft.bill[c]
  BY <1>0 DEF DraftRow
<1>4. rest = [session[s] EXCEPT !.draft = draft]
  BY RowIs DEF SessionRow, DraftRow
<1>a. Advance(s, rest)
  OBVIOUS
<1> HIDE DEF rest, bills
<1>5. /\ draft \in DraftRow /\ draft.bill = bills
      /\ draft.pay = session[s].draft.pay /\ draft.post = session[s].draft.post
  BY <1>0, <1>3 DEF DraftRow
<1> HIDE DEF draft
<1>6. /\ rest \in SessionRow /\ rest.todo = session[s].todo /\ rest.held = session[s].held
      /\ rest.seen = session[s].seen /\ rest.draft = draft
  BY <1>4, <1>5, RowIs, DraftRowIs
<1>7. ASSUME NEW c \in Bills, rest.draft.bill[c] # "-"
      PROVE  HasLock(s, "bill", c) /\ Agrees(c, rest.draft.bill[c], TotalSeen(s, c, "APPROVED"))
  <2>1. CASE c = b
    BY <1>2, <1>3, <1>5, <1>6, <2>1
  <2>2. CASE c # b
    <3>1. DraftBill(s, c)
      BY <1>0 DEF Drafted
    <3>2. rest.draft.bill[c] = session[s].draft.bill[c]
      BY <1>3, <1>5, <1>6, <2>2
    <3> QED  BY <1>7, <3>1, <3>2 DEF DraftBill
  <2> QED  BY <2>1, <2>2
<1>8. st # "-"
  BY DEF BillStatuses
<1>9. /\ Elements(session[s].todo) = {x} \cup Elements(Tail(session[s].todo))
      /\ x \in Statements
  BY StatementAt
<1>10. ASSUME NEW p \in PaymentIds, session[s].draft.pay[p] \in {"APPROVED", "REVERSED"},
              NEW c \in Covers(p)
       PROVE  \/ rest.draft.bill[c] # "-"
              \/ St("settle", p) \in Elements(Tail(session[s].todo))
              \/ St("reconcile", c) \in Elements(Tail(session[s].todo))
  <2>1. c \in Bills /\ BillsFollow(s, p)
    BY <1>0, CoversIs DEF Drafted
  <2>2. CASE c = b
    BY <1>3, <1>5, <1>6, <1>8, <2>2
  <2>3. CASE c # b
    <3>1. rest.draft.bill[c] = session[s].draft.bill[c]
      BY <1>3, <1>5, <1>6, <2>1, <2>3
    <3>2. St("settle", p) # x
      <4>1. St("settle", p).do = "settle"
        BY StIs
      <4> QED  BY <4>1
    <3>3. St("reconcile", c) # x
      <4>1. St("reconcile", c).arg = c /\ x.arg = b
        BY StIs DEF Arg
      <4> QED  BY <2>3, <4>1
    <3> QED  BY <1>9, <1>10, <2>1, <3>1, <3>2, <3>3 DEF BillsFollow, Left
  <2> QED  BY <2>2, <2>3
<1>11. rest.draft.pay = session[s].draft.pay /\ rest.draft.post = session[s].draft.post
  BY <1>5, <1>6
<1> HIDE DEF x
<1> QED  BY <1>6, <1>7, <1>10, <1>11, <1>a, BillsStep

\* A bill is computed anew from the total under its lock.
LEMMA ReconcileStep ==
    ASSUME Inv, NEW s \in Sessions, SetReconciled(s)
    PROVE  Inv'
<1> DEFINE x == Statement(s)
           b == Arg(s)
           n == TotalSeen(s, b, "APPROVED")
           st == Reconciled(b, bill[b], n)
<1>1. Busy(s) /\ x.do = "reconcile" /\ x.arg = b
      /\ Advance(s, [session[s] EXCEPT !.draft.bill[b] = st])
  BY DEF SetReconciled, At, Arg
<1>2. b \in Bills
  BY <1>1, StatementAt, ArgIs
<1>3. bill[b] \in BillStatuses /\ n \in Nat /\ ApprovedTotal(b) \in Nat
  BY <1>2, TotalsNat DEF Inv, TypeOK
<1>4. bill[b] = "cancelled" => n = 0
  <2> SUFFICES ASSUME bill[b] = "cancelled"
               PROVE  n = 0
    OBVIOUS
  <2>1. ApprovedTotal(b) = 0
    BY <1>2 DEF Inv, StatusAgrees
  <2>2. PICK done \in SUBSET Statements : Supported(x, done) /\ \A y \in done : Holds(s, y)
    BY <1>1, StatementAt
  <2>3. PICK p \in PaymentIds, to \in {"REJECTED", "REVERSED"} : St("set", <<p, to>>) \in done
    BY <1>1, <2>2 DEF Supported
  <2>4. session[s].draft.pay[p] = to
    BY <2>2, <2>3, DraftDone
  <2>5. TypeOK /\ OneDraft(s) /\ \A q \in PaymentIds : DraftPayment(s, q)
    BY DEF Inv, Drafted
  <2>6. Alloc[p][b] \in Nat
    BY <1>2, AllocNat
  <2>7. n = ApprovedTotal(b) \/ n = ApprovedTotal(b) - Alloc[p][b]
    <3>1. CASE to = "REJECTED"
      BY <1>2, <2>4, <2>5, <3>1, SeenTotals
    <3>2. CASE to = "REVERSED"
      BY <1>2, <2>4, <2>5, <3>2, SeenTotals
    <3> QED  BY <3>1, <3>2
  <2> HIDE DEF n
  <2> QED  BY <1>3, <2>1, <2>6, <2>7
<1> HIDE DEF n
<1>5. Agrees(b, st, n) /\ st \in BillStatuses
  BY <1>2, <1>3, <1>4, ReconciledAgrees
<1> HIDE DEF st, b
<1>6. b = Arg(s)
  BY DEF b
<1> QED  BY <1>1, <1>2, <1>5, <1>6, OneBillStep DEF n

\* A bill without approved money is cancelled.
LEMMA CancelStep ==
    ASSUME Inv, NEW s \in Sessions, SetCancelled(s)
    PROVE  Inv'
<1> DEFINE x == Statement(s)
           b == Arg(s)
           unused == /\ bill[b] = "unpaid"
                     /\ ~\E p \in PaymentIds : status[p] = "APPROVED" /\ Alloc[p][b] > 0
           rest == [session[s] EXCEPT !.draft.bill[b] = "cancelled"]
<1>1. Busy(s) /\ x.do = "cancel" /\ x.arg = b /\ (Rollback(s) \/ (unused /\ Advance(s, rest)))
  <2>1. At(s, "cancel") /\ Check(s, unused, rest)
    BY DEF SetCancelled
  <2> HIDE DEF unused, rest
  <2> QED  BY <2>1 DEF Check, At, Arg
<1>2. CASE Rollback(s)
  BY <1>2, RollbackStep
<1>3. CASE unused /\ Advance(s, rest)
  <2>1. b \in Bills
    BY <1>1, StatementAt, ArgIs
  <2>2. ApprovedTotal(b) = 0
    <3> DEFINE f == [p \in PaymentIds |-> IF status[p] = "APPROVED" THEN Alloc[p][b] ELSE 0]
    <3>1. f \in [PaymentIds -> Nat]
      BY <2>1, AllocNat
    <3>2. \A p \in PaymentIds : f[p] = 0
      BY <1>3, <2>1, AllocNat
    <3>3. ApprovedTotal(b) = Sum(f)
      BY DEF ApprovedTotal
    <3> HIDE DEF f
    <3> QED  BY <3>1, <3>2, <3>3, SumOfNothing
  <2>3. TotalSeen(s, b, "APPROVED") = 0
    BY <1>1, <2>1, <2>2, NothingDrafted DEF Early
  <2>4. Agrees(b, "cancelled", TotalSeen(s, b, "APPROVED"))
    BY <2>3 DEF Agrees, Reconciled
  <2>5. "cancelled" \in BillStatuses
    BY DEF BillStatuses
  <2> HIDE DEF b
  <2>6. b = Arg(s)
    BY DEF b
  <2> QED  BY <1>1, <1>3, <2>1, <2>4, <2>5, <2>6, OneBillStep
<1> QED  BY <1>1, <1>2, <1>3

\* A row of transactions is posted.
LEMMA PostStep ==
    ASSUME Inv, NEW s \in Sessions, Post(s)
    PROVE  Inv'
<1> DEFINE x == Statement(s)
           row == Arg(s)
           draft == [session[s].draft EXCEPT !.post = row]
           rest == [session[s] EXCEPT !.draft.post = row]
<1>1. Busy(s) /\ x.do = "post" /\ Advance(s, rest) /\ x.arg = row
  BY DEF Post, At, Arg
<1>2. row \in Postings /\ x = St("post", row)
  BY <1>1, StatementAt, ArgIs
<1>3. rest = [session[s] EXCEPT !.draft = draft]
  BY RowIs DEF SessionRow, DraftRow
<1>4. /\ draft \in DraftRow /\ draft.post = row
      /\ draft.pay = session[s].draft.pay /\ draft.bill = session[s].draft.bill
  <2>1. session[s].draft \in DraftRow
    BY RowTypes DEF Inv
  <2> HIDE DEF row
  <2> QED  BY <1>2, <2>1 DEF DraftRow
<1> HIDE DEF draft, rest
<1>5. /\ rest \in SessionRow /\ rest.todo = session[s].todo /\ rest.held = session[s].held
      /\ rest.seen = session[s].seen /\ rest.draft = draft
  BY <1>3, <1>4, RowIs, DraftRowIs
<1>6. /\ session'[s].todo = Tail(session[s].todo)
      /\ session'[s].held = session[s].held /\ session'[s].seen = session[s].seen
      /\ session'[s].draft = draft
      /\ \A o \in Sessions \ {s} : session'[o] = session[o]
      /\ status' = status /\ bill' = bill /\ balance' = balance
  BY <1>1, <1>5, AdvanceIs DEF Inv, tables
<1>7. Drafted(s) /\ InOrder(s) /\ MoneyFollows(s)
  BY DEF Inv, Drafted
<1>8. /\ Elements(session[s].todo) = {x} \cup Elements(session'[s].todo)
      /\ Followed(x, Elements(session'[s].todo))
  BY <1>1, <1>6, StatementAt
<1>9. session[s].draft.post = NoPosting
  <2>1. x \in Elements(session[s].todo) /\ x.do \in Unposted
    BY <1>1, <1>8 DEF Unposted
  <2> QED  BY <1>7, <2>1 DEF InOrder
<1>10. Keeps(s)
  BY <1>4, <1>6, <1>9 DEF Keeps
<1>11. \A y \in {x} : Holds(s, y)'
  BY <1>1, <1>4, <1>6 DEF Holds
<1>12. PICK done \in SUBSET Statements : Supported(x, done) /\ \A y \in done : Holds(s, y)
  BY <1>1, StatementAt
<1>13. InOrder(s)'
  <2>1. \A y \in Elements(session'[s].todo) : y.do \notin Unposted /\ y \in Elements(session[s].todo)
    BY <1>1, <1>8 DEF Followed
  <2> QED  BY <1>4, <1>6, <1>7, <2>1 DEF InOrder
<1>14. \A y : y.do # "post" /\ Left(s, y) => Left(s, y)'
  BY <1>1, <1>8 DEF Left
<1>15. MoneyFollows(s)'
  <2>1. ASSUME NEW p \in PaymentIds, session[s].draft.pay[p] = "APPROVED"
        PROVE  \E l \in Places : row = <<"income", p, l>>
                                 \/ St("post", <<"income", p, l>>) \in Elements(session'[s].todo)
    <3>1. PICK l \in Places : \/ session[s].draft.post = <<"income", p, l>>
                              \/ Left(s, St("post", <<"income", p, l>>))
      BY <1>7, <2>1 DEF MoneyFollows
    <3>2. Left(s, St("post", <<"income", p, l>>))
      BY <1>9, <3>1, NoPostingIs
    <3>3. St("post", <<"income", p, l>>) = x => row = <<"income", p, l>>
      BY <1>1, StIs
    <3> QED  BY <1>8, <3>2, <3>3 DEF Left
  <2>2. \A p \in PaymentIds : session[s].draft.pay[p] # "REVERSED"
    BY <1>7, <1>9, NoPostingIs DEF MoneyFollows
  <2>3. row[1] = "income" => session[s].draft.pay[row[2]] = "APPROVED"
    <3>1. row[1] = "income" => Drafts(done, row[2], "APPROVED")
      BY <1>1, <1>12 DEF Supported
    <3> QED  BY <1>12, <3>1, DraftDone
  <2>4. row[1] = "payment" => St("set", <<row[2], "REVERSED">>) \in Elements(session'[s].todo)
    BY <1>1, <1>8 DEF Followed
  <2> HIDE DEF row
  <2> QED  BY <1>4, <1>6, <2>1, <2>2, <2>3, <2>4 DEF MoneyFollows, Left
<1>16. Covered(s)'
  <2>1. ASSUME NEW l, NEW n, St("afford", <<l, n>>) \in done
        PROVE  HasLock(s, "location", l) /\ balance[l] >= n
    <3> DEFINE y == St("afford", <<l, n>>)
    <3>1. y.do = "afford" /\ y.arg[1] = l /\ y.arg[2] = n /\ Holds(s, y)
      BY <1>12, <2>1, StIs
    <3> HIDE DEF y
    <3> QED  BY <3>1 DEF Holds
  <2> HIDE DEF row
  <2>2. ASSUME row[1] \in {"payment", "hand", "expense"}, row[3] # NoLocation
        PROVE  HasLock(s, "location", row[3]) /\ balance[row[3]] + Worth(row) >= 0
    <3>1. row[3] \in Locations
      BY <1>2, <2>2, PostingIs DEF Places
    <3>2. balance[row[3]] \in Int
      BY <3>1 DEF Inv, TypeOK
    <3>3. CASE row[1] \in {"payment", "hand"}
      <4>1. row[2] \in PaymentIds
        BY <1>2, <3>3, PostingIs
      <4>2. St("afford", <<row[3], Total[row[2]]>>) \in done
        BY <1>1, <1>12, <2>2, <3>3 DEF Supported
      <4>3. Worth(row) = -Total[row[2]]
        BY <3>3 DEF Worth
      <4>4. HasLock(s, "location", row[3]) /\ balance[row[3]] >= Total[row[2]]
        BY <2>1, <4>2
      <4>5. Total[row[2]] \in Nat
        BY <4>1, TotalNat
      <4> QED  BY <3>2, <4>3, <4>4, <4>5
    <3>4. CASE row[1] = "expense"
      <4>2. St("afford", <<row[3], 1>>) \in done
        BY <1>1, <1>12, <3>4 DEF Supported
      <4>3. Worth(row) = -1
        BY <3>4 DEF Worth
      <4>4. HasLock(s, "location", row[3]) /\ balance[row[3]] >= 1
        BY <2>1, <4>2
      <4> QED  BY <3>2, <4>3, <4>4
    <3> QED  BY <2>2, <3>3, <3>4
  <2>3. session'[s].draft.post = row
    BY <1>4, <1>6
  <2>4. Worth(session'[s].draft.post) = Worth(row)
    BY <2>3
  <2>5. \A u : Worth(u)' = Worth(u)
    BY DEF Worth
  <2> QED  BY <1>6, <2>2, <2>3, <2>4, <2>5 DEF Covered, HasLock
<1>17. OneDraft(s)'
  BY <1>4, <1>6, <1>7 DEF Drafted, OneDraft
<1>18. ASSUME NEW p \in PaymentIds
       PROVE  DraftPayment(s, p)' /\ BillsFollow(s, p)'
  <2>1. DraftPayment(s, p) /\ BillsFollow(s, p)
    BY <1>7 DEF Drafted
  <2>2. \A b \in Covers(p) : b \in Bills
    BY CoversIs
  <2>3. DraftPayment(s, p)'
    BY <1>4, <1>6, <1>10, <2>1, <2>2, LockKept DEF DraftPayment
  <2>4. \A q : Left(s, St("settle", q)) => Left(s, St("settle", q))'
    BY <1>14, StIs
  <2>5. \A b : Left(s, St("reconcile", b)) => Left(s, St("reconcile", b))'
    BY <1>14, StIs
  <2>6. BillsFollow(s, p)'
    BY <1>4, <1>6, <2>1, <2>4, <2>5 DEF BillsFollow
  <2> QED  BY <2>3, <2>6
<1>19. ASSUME NEW b \in Bills
       PROVE  DraftBill(s, b)'
  <2>1. DraftBill(s, b)
    BY <1>7 DEF Drafted
  <2>2. TotalSeen(s, b, "APPROVED")' = TotalSeen(s, b, "APPROVED")
    BY <1>4, <1>6, SameTotals
  <2>3. HasLock(s, "bill", b) => HasLock(s, "bill", b)'
    BY <1>10, LockKept
  <2>4. \A st, n : Agrees(b, st, n) => Agrees(b, st, n)'
    BY DEF Agrees, Reconciled
  <2> QED  BY <1>4, <1>6, <2>1, <2>2, <2>3, <2>4 DEF DraftBill
<1>20. Drafted(s)'
  BY <1>13, <1>15, <1>16, <1>17, <1>18, <1>19 DEF Drafted
<1>21. \A o \in Sessions \ {s} : Exclusive(s, o)'
  BY <1>4, <1>6, StillExclusive
<1>22. x.do # "commit"
  BY <1>1
<1> QED  BY <1>1, <1>5, <1>10, <1>11, <1>20, <1>21, <1>22, WriteStep
-----------------------------------------------------------------------------
(* The commit. *)

\* What a commit does to the tables and the sessions.
LEMMA CommitIs ==
    ASSUME Inv, NEW s \in Sessions, Commit(s)
    PROVE  /\ session'[s] = Idle /\ \A o \in Sessions \ {s} : session'[o] = session[o]
           /\ \A p \in PaymentIds : status'[p] = StatusSeen(s, p)
           /\ \A b \in Bills : bill'[b] = IF session[s].draft.bill[b] # "-"
                                          THEN session[s].draft.bill[b] ELSE bill[b]
           /\ \A l \in Locations :
                 balance'[l] = balance[l] + (IF session[s].draft.post[3] = l
                                             THEN Worth(session[s].draft.post) ELSE 0)
           /\ \A x : Left(s, x) => x.do = "commit"
           /\ TypeOK'
<1> DEFINE draft == session[s].draft
<1>1. TypeOK
  BY DEF Inv
<1>2. /\ draft.pay \in [PaymentIds -> PaymentStatuses \cup {"-"}]
      /\ draft.bill \in [Bills -> BillStatuses \cup {"-"}]
      /\ draft.number \in [PaymentIds -> Nat] /\ draft.post \in Postings \cup {NoPosting}
  BY <1>1, RowTypes
<1>3. /\ status' = [p \in PaymentIds |-> StatusSeen(s, p)]
      /\ bill' = [b \in Bills |-> IF draft.bill[b] # "-" THEN draft.bill[b] ELSE bill[b]]
      /\ number' = [p \in PaymentIds |-> IF draft.number[p] # 0 THEN draft.number[p] ELSE number[p]]
      /\ income' = [p \in PaymentIds |-> [l \in Places |-> income[p][l] + Posts(s, "income", p, l)]]
      /\ reversals' = [p \in PaymentIds |->
                         [payment |-> reversals[p].payment + Reverses(s, "payment", p),
                          hand |-> reversals[p].hand + Reverses(s, "hand", p)]]
      /\ balance' = [l \in Locations |->
                       balance[l] + (IF draft.post[3] = l THEN Worth(draft.post) ELSE 0)]
      /\ session' = [session EXCEPT ![s] = Idle]
      /\ requests' = requests /\ At(s, "commit")
  BY DEF Commit
<1>4. /\ session'[s] = Idle /\ \A o \in Sessions \ {s} : session'[o] = session[o]
      /\ session' \in [Sessions -> SessionRow]
  BY <1>1, <1>3, IdleIs DEF TypeOK
<1>5. \A x : Left(s, x) => x.do = "commit"
  <2>1. Busy(s) /\ Statement(s).do = "commit"
    BY <1>3 DEF At
  <2>2. Elements(Tail(session[s].todo)) = {}
    BY <2>1, StatementAt DEF Followed
  <2>3. Elements(session[s].todo) = {Statement(s)}
    BY <2>1, <2>2, StatementAt
  <2> QED  BY <2>1, <2>3 DEF Left
<1>6. TypeOK'
  <2>1. status' \in [PaymentIds -> PaymentStatuses]
    BY <1>1, <1>2, <1>3 DEF StatusSeen, TypeOK
  <2>2. bill' \in [Bills -> BillStatuses] /\ number' \in [PaymentIds -> Nat]
    BY <1>1, <1>2, <1>3 DEF TypeOK
  <2>3. income' \in [PaymentIds -> [Places -> Nat]]
    <3>1. \A p \in PaymentIds, l \in Places : Posts(s, "income", p, l) \in Nat
      BY DEF Posts
    <3>2. \A p \in PaymentIds, l \in Places : income[p][l] + Posts(s, "income", p, l) \in Nat
      BY <1>1, <3>1 DEF TypeOK
    <3> QED  BY <1>3, <3>2
  <2>4. reversals' \in [PaymentIds -> [payment : Nat, hand : Nat]]
    <3>1. \A p : Reverses(s, "payment", p) \in Nat /\ Reverses(s, "hand", p) \in Nat
      BY DEF Reverses
    <3>2. \A p \in PaymentIds : /\ reversals[p].payment + Reverses(s, "payment", p) \in Nat
                                /\ reversals[p].hand + Reverses(s, "hand", p) \in Nat
      BY <1>1, <3>1 DEF TypeOK
    <3> QED  BY <1>3, <3>2
  <2>5. balance' \in [Locations -> Int]
    <3>1. Worth(draft.post) \in Int
      BY <1>2, WorthInt
    <3>2. \A l \in Locations : balance[l] \in Int
      BY <1>1 DEF TypeOK
    <3> HIDE DEF draft
    <3> QED  BY <1>3, <3>1, <3>2
  <2>6. \A o \in Sessions : session'[o].todo = <<>> => session'[o] = Idle
    BY <1>1, <1>4 DEF TypeOK, Busy
  <2>7. requests' \in 0 .. MaxRequests
    BY <1>1, <1>3 DEF TypeOK
  <2> QED  BY <1>4, <2>1, <2>2, <2>3, <2>4, <2>5, <2>6, <2>7 DEF TypeOK, Busy
<1> QED  BY <1>3, <1>4, <1>5, <1>6

\* The totals become those the session saw.
LEMMA CommittedTotals ==
    ASSUME Inv, NEW s \in Sessions, Commit(s), NEW b \in Bills
    PROVE  ApprovedTotal(b)' = TotalSeen(s, b, "APPROVED")
<1>1. \A p \in PaymentIds : status'[p] = StatusSeen(s, p)
  BY CommitIs
<1>2. [p \in PaymentIds |-> IF status'[p] = "APPROVED" THEN Alloc[p][b] ELSE 0]
      = [p \in PaymentIds |-> IF StatusSeen(s, p) = "APPROVED" THEN Alloc[p][b] ELSE 0]
  BY <1>1
<1> QED  BY <1>2 DEF ApprovedTotal, TotalSeen

\* A bill without a draft gets no money, and none is taken off it.
LEMMA UntouchedBill ==
    ASSUME Inv, NEW s \in Sessions, Commit(s), NEW b \in Bills, session[s].draft.bill[b] = "-",
           NEW p \in PaymentIds, session[s].draft.pay[p] \in {"APPROVED", "REVERSED"}
    PROVE  Alloc[p][b] = 0
<1>1. BillsFollow(s, p)
  BY DEF Inv, Drafted
<1>2. ~Left(s, St("settle", p)) /\ ~Left(s, St("reconcile", b))
  <2>1. \A x : Left(s, x) => x.do = "commit"
    BY CommitIs
  <2> QED  BY <2>1, StIs
<1>3. b \notin Covers(p)
  BY <1>1, <1>2 DEF BillsFollow
<1> QED  BY <1>3, CoversIs, AllocNat

\* The bills after a commit.
LEMMA CommitBills ==
    ASSUME Inv, NEW s \in Sessions, Commit(s)
    PROVE  NoOverpayment' /\ StatusAgrees'
<1> DEFINE pay == session[s].draft.pay
<1>1. /\ TypeOK /\ NoOverpayment /\ StatusAgrees /\ OneDraft(s)
      /\ \A p \in PaymentIds : DraftPayment(s, p) /\ BillsFollow(s, p)
      /\ \A b \in Bills : DraftBill(s, b)
  BY DEF Inv, Drafted
<1>2. ASSUME NEW b \in Bills
      PROVE  TotalSeen(s, b, "APPROVED") <= Amount[b]
  <2>1. ApprovedTotal(b) \in Nat /\ Amount[b] \in Nat /\ ApprovedTotal(b) <= Amount[b]
    <3>1. ApprovedTotal(b) \in Nat
      BY TotalsNat
    <3>2. Amount[b] \in Nat
      BY Columns
    <3> QED  BY <1>1, <3>1, <3>2 DEF NoOverpayment
  <2>2. CASE \A p \in PaymentIds : pay[p] = "-"
    BY <1>1, <2>1, <2>2, SeenTotals
  <2>3. ASSUME NEW p \in PaymentIds, pay[p] # "-"
        PROVE  TotalSeen(s, b, "APPROVED") <= Amount[b]
    <3>1. Alloc[p][b] \in Nat
      BY AllocNat
    <3>2. pay[p] \in {"PENDING", "APPROVED", "REJECTED", "REVERSED"}
      BY <1>1, <2>3, RowTypes DEF DraftPayment, PaymentStatuses
    <3>3. CASE pay[p] = "APPROVED"
      <4>1. TotalSeen(s, b, "APPROVED") = ApprovedTotal(b) + Alloc[p][b]
        BY <1>1, <3>3, SeenTotals
      <4>2. Alloc[p][b] = 0 \/ ApprovedTotal(b) + Alloc[p][b] <= Amount[b]
        BY <1>1, <3>1, <3>3, CoversIs DEF DraftPayment, Reserved
      <4> QED  BY <2>1, <3>1, <4>1, <4>2
    <3>4. CASE pay[p] = "REVERSED"
      <4>1. TotalSeen(s, b, "APPROVED") = ApprovedTotal(b) - Alloc[p][b]
        BY <1>1, <3>4, SeenTotals
      <4> QED  BY <2>1, <3>1, <4>1
    <3>5. CASE pay[p] \in {"PENDING", "REJECTED"}
      <4>1. TotalSeen(s, b, "APPROVED") = ApprovedTotal(b)
        BY <1>1, <3>5, SeenTotals
      <4> QED  BY <2>1, <4>1
    <3> QED  BY <3>2, <3>3, <3>4, <3>5
  <2> QED  BY <2>2, <2>3
<1>3. NoOverpayment'
  BY <1>2, CommittedTotals DEF NoOverpayment
<1>4. ASSUME NEW b \in Bills
      PROVE  Agrees(b, bill'[b], TotalSeen(s, b, "APPROVED"))
  <2>1. CASE session[s].draft.bill[b] # "-"
    <3>1. bill'[b] = session[s].draft.bill[b]
      BY <2>1, CommitIs
    <3> QED  BY <1>1, <2>1, <3>1 DEF DraftBill
  <2>2. CASE session[s].draft.bill[b] = "-"
    <3>1. bill'[b] = bill[b]
      BY <2>2, CommitIs
    <3>2. Agrees(b, bill[b], ApprovedTotal(b))
      BY <1>1 DEF StatusAgrees, Agrees
    <3>3. TotalSeen(s, b, "APPROVED") = ApprovedTotal(b)
      <4>1. CASE \A p \in PaymentIds : pay[p] = "-"
        BY <1>1, <4>1, SeenTotals
      <4>2. ASSUME NEW p \in PaymentIds, pay[p] # "-"
            PROVE  TotalSeen(s, b, "APPROVED") = ApprovedTotal(b)
        <5>1. pay[p] \in {"PENDING", "APPROVED", "REJECTED", "REVERSED"}
          BY <1>1, <4>2, RowTypes DEF DraftPayment, PaymentStatuses
        <5>2. CASE pay[p] \in {"PENDING", "REJECTED"}
          BY <1>1, <5>2, SeenTotals
        <5>3. CASE pay[p] \in {"APPROVED", "REVERSED"}
          <6>1. Alloc[p][b] = 0 /\ ApprovedTotal(b) \in Nat
            BY <2>2, <5>3, UntouchedBill, TotalsNat
          <6>2. \/ TotalSeen(s, b, "APPROVED") = ApprovedTotal(b) + Alloc[p][b]
                \/ TotalSeen(s, b, "APPROVED") = ApprovedTotal(b) - Alloc[p][b]
            BY <1>1, <5>3, SeenTotals
          <6> QED  BY <6>1, <6>2
        <5> QED  BY <5>1, <5>2, <5>3
      <4> QED  BY <4>1, <4>2
    <3> QED  BY <3>1, <3>2, <3>3
  <2> QED  BY <2>1, <2>2
<1>5. StatusAgrees'
  <2> SUFFICES ASSUME NEW b \in Bills
               PROVE  Agrees(b, bill'[b], ApprovedTotal(b)')
    BY DEF StatusAgrees, Agrees, Reconciled
  <2>1. ApprovedTotal(b)' = TotalSeen(s, b, "APPROVED")
    BY CommittedTotals
  <2> QED  BY <1>4, <2>1
<1> QED  BY <1>3, <1>5

\* A session takes from a location only what that can pay.
LEMMA CommitBalance ==
    ASSUME Inv, NEW s \in Sessions, Commit(s)
    PROVE  /\ NoOverdraft'
           /\ \A l \in Locations : ~HasLock(s, "location", l) => balance'[l] >= balance[l]
<1> DEFINE row == session[s].draft.post
<1>1. /\ TypeOK /\ NoOverdraft /\ Covered(s) /\ row \in Postings \cup {NoPosting}
  BY RowTypes DEF Inv, Drafted
<1>2. ASSUME NEW l \in Locations
      PROVE  /\ balance'[l] >= 0
             /\ ~HasLock(s, "location", l) => balance'[l] >= balance[l]
  <2>1. balance[l] \in Int /\ balance[l] >= 0 /\ l # NoLocation
    BY <1>1, Columns DEF TypeOK, NoOverdraft
  <2>2. CASE row[3] # l
    <3>1. balance'[l] = balance[l] + 0
      BY <2>2, CommitIs
    <3> QED  BY <2>1, <3>1
  <2>3. CASE row[3] = l
    <3>1. balance'[l] = balance[l] + Worth(row) /\ Worth(row) \in Int
      BY <1>1, <2>3, CommitIs, WorthInt
    <3>2. row \in Postings
      BY <1>1, <2>1, <2>3, NoPostingIs
    <3>3. row[1] \in {"income", "payment", "hand", "expense"}
      BY <3>2, PostingIs
    <3>4. CASE row[1] = "income"
      <4>1. Worth(row) >= 0
        BY <1>1, <3>4, WorthInt
      <4> QED  BY <2>1, <3>1, <4>1
    <3>5. CASE row[1] \in {"payment", "hand", "expense"}
      <4>1. HasLock(s, "location", l) /\ balance[l] + Worth(row) >= 0
        BY <1>1, <2>1, <2>3, <3>5 DEF Covered
      <4> QED  BY <3>1, <4>1
    <3> QED  BY <3>3, <3>4, <3>5
  <2> QED  BY <2>2, <2>3
<1> QED  BY <1>2 DEF NoOverdraft

\* What another session has locked, a commit leaves alone.
LEMMA CommitSpares ==
    ASSUME Inv, NEW s \in Sessions, Commit(s), NEW o \in Sessions \ {s}
    PROVE  /\ \A p \in PaymentIds : session[s].draft.pay[p] = "-" => status'[p] = status[p]
           /\ \A p \in PaymentIds : HasLock(o, "payment", p) /\ status[p] # "none"
                                       => status'[p] = status[p]
           /\ \A b \in Bills : HasLock(o, "bill", b) =>
                /\ ApprovedTotal(b)' = ApprovedTotal(b)
                /\ TotalSeen(o, b, "APPROVED")' = TotalSeen(o, b, "APPROVED")
           /\ \A l \in Locations : HasLock(o, "location", l) => balance'[l] >= balance[l]
<1>1. \A p \in PaymentIds : session[s].draft.pay[p] = "-" => status'[p] = status[p]
  BY CommitIs DEF StatusSeen
<1>2. ASSUME NEW p \in PaymentIds, HasLock(o, "payment", p), status[p] # "none"
      PROVE  status'[p] = status[p]
  <2>1. session[s].draft.pay[p] = "-"
    BY <1>2, LockedPayment
  <2> QED  BY <1>1, <2>1
<1>3. ASSUME NEW b \in Bills, HasLock(o, "bill", b)
      PROVE  /\ ApprovedTotal(b)' = ApprovedTotal(b)
             /\ TotalSeen(o, b, "APPROVED")' = TotalSeen(o, b, "APPROVED")
  <2>1. session[s].draft.bill[b] = "-"
    <3>1. ~HasLock(s, "bill", b)
      BY <1>3, OneHolder
    <3>2. DraftBill(s, b)
      BY DEF Inv, Drafted
    <3> QED  BY <3>1, <3>2 DEF DraftBill
  <2>2. ASSUME NEW p \in PaymentIds
        PROVE  Alloc[p][b] = 0 \/ (status'[p] = "APPROVED" <=> status[p] = "APPROVED")
    <3>1. CASE session[s].draft.pay[p] = "-"
      BY <1>1, <3>1
    <3>2. CASE session[s].draft.pay[p] \in {"APPROVED", "REVERSED"}
      BY <2>1, <3>2, UntouchedBill
    <3>3. CASE session[s].draft.pay[p] \notin {"-", "APPROVED", "REVERSED"}
      <4>1. status'[p] = session[s].draft.pay[p]
        BY <3>3, CommitIs DEF StatusSeen
      <4>2. DraftPayment(s, p) /\ session[s].draft.pay[p] \in {"none", "PENDING", "REJECTED"}
        BY <3>3, RowTypes DEF Inv, Drafted, PaymentStatuses
      <4>3. status[p] # "APPROVED"
        BY <4>2 DEF DraftPayment
      <4> QED  BY <3>3, <4>1, <4>3
    <3> QED  BY <3>1, <3>2, <3>3
  <2>3. ApprovedTotal(b)' = ApprovedTotal(b)
    <3>1. [p \in PaymentIds |-> IF status'[p] = "APPROVED" THEN Alloc[p][b] ELSE 0]
          = [p \in PaymentIds |-> IF status[p] = "APPROVED" THEN Alloc[p][b] ELSE 0]
      BY <2>2
    <3> QED  BY <3>1 DEF ApprovedTotal
  <2>4. TotalSeen(o, b, "APPROVED")' = TotalSeen(o, b, "APPROVED")
    <3>1. session'[o] = session[o]
      BY CommitIs
    <3>2. \A p \in PaymentIds : \/ StatusSeen(o, p)' = StatusSeen(o, p)
                                \/ /\ StatusSeen(o, p)' = status'[p]
                                   /\ StatusSeen(o, p) = status[p]
      BY <3>1 DEF StatusSeen
    <3>3. \A p \in PaymentIds : \/ Alloc[p][b] = 0
                                \/ StatusSeen(o, p)' = "APPROVED" <=> StatusSeen(o, p) = "APPROVED"
      BY <2>2, <3>2
    <3>4. [p \in PaymentIds |-> IF StatusSeen(o, p)' = "APPROVED" THEN Alloc[p][b] ELSE 0]
          = [p \in PaymentIds |-> IF StatusSeen(o, p) = "APPROVED" THEN Alloc[p][b] ELSE 0]
      BY <3>3
    <3> QED  BY <3>4 DEF TotalSeen
  <2> QED  BY <2>3, <2>4
<1>4. ASSUME NEW l \in Locations, HasLock(o, "location", l)
      PROVE  balance'[l] >= balance[l]
  <2>1. ~HasLock(s, "location", l)
    BY <1>4, OneHolder
  <2> QED  BY <2>1, CommitBalance
<1> QED  BY <1>1, <1>2, <1>3, <1>4

\* What another session knows is still so after a commit.
LEMMA CommitOther ==
    ASSUME Inv, NEW s \in Sessions, Commit(s), NEW o \in Sessions \ {s}
    PROVE  OnTrack(o)' /\ Drafted(o)'
<1>0. session'[o] = session[o] /\ OnTrack(o) /\ Drafted(o) /\ Exclusive(s, o) /\ TypeOK /\ TypeOK'
  BY CommitIs DEF Inv
<1>1. /\ \A kind, id : HasLock(o, kind, id)' = HasLock(o, kind, id)
      /\ \A x : Left(o, x)' = Left(o, x)
  BY <1>0 DEF HasLock, Left
<1>2. \A p, b : b \in Bills /\ Reserved(o, p, b) => Reserved(o, p, b)'
  BY <1>0, <1>1, CommitSpares DEF Reserved
<1>3. ASSUME NEW x \in Statements, Holds(o, x)
      PROVE  Holds(o, x)'
  <2>1. /\ x.do \in {"open", "payable"} => x.arg[2] \in Bills
        /\ x.do = "expect" => x.arg[1] \in PaymentIds
        /\ x.do = "afford" => x.arg[1] \in Locations /\ x.arg[2] \in Nat
    BY ArgIs
  <2>2. x.do = "lock" => x.arg \in session'[o].held
    BY <1>0, <1>3 DEF Holds
  <2>3. x.do = "expect" => /\ HasLock(o, "payment", x.arg[1])'
                           /\ status'[x.arg[1]] = x.arg[2] /\ x.arg[2] # "none"
    BY <1>1, <1>3, <2>1, CommitSpares DEF Holds
  <2>4. x.do \in {"open", "payable"} => Reserved(o, x.arg[1], x.arg[2])'
    BY <1>2, <1>3, <2>1 DEF Holds
  <2>5. x.do \in {"insert", "set"} => session'[o].draft.pay[x.arg[1]] = x.arg[2]
    BY <1>0, <1>3 DEF Holds
  <2>6. x.do = "afford" => HasLock(o, "location", x.arg[1])' /\ balance'[x.arg[1]] >= x.arg[2]
    <3> SUFFICES ASSUME x.do = "afford"
                 PROVE  HasLock(o, "location", x.arg[1])' /\ balance'[x.arg[1]] >= x.arg[2]
      OBVIOUS
    <3>1. HasLock(o, "location", x.arg[1]) /\ balance[x.arg[1]] >= x.arg[2]
      BY <1>3 DEF Holds
    <3>2. balance'[x.arg[1]] >= balance[x.arg[1]]
      BY <2>1, <3>1, CommitSpares
    <3>3. balance'[x.arg[1]] \in Int /\ balance[x.arg[1]] \in Int /\ x.arg[2] \in Nat
      BY <1>0, <2>1 DEF TypeOK
    <3> QED  BY <1>1, <3>1, <3>2, <3>3
  <2>7. x.do = "post" => session'[o].draft.post = x.arg
    BY <1>0, <1>3 DEF Holds
  <2> QED  BY <2>2, <2>3, <2>4, <2>5, <2>6, <2>7 DEF Holds
<1>4. OnTrack(o)'
  <2>1. Busy(o)' => Busy(o)
    BY <1>0 DEF Busy
  <2>2. ASSUME Busy(o)
        PROVE  \E done \in SUBSET Statements : /\ Program(session'[o].todo, done, {})
                                               /\ \A x \in done : Holds(o, x)'
    <3>1. PICK done \in SUBSET Statements : /\ Program(session[o].todo, done, {})
                                            /\ \A x \in done : Holds(o, x)
      BY <1>0, <2>2 DEF OnTrack
    <3>2. \A x \in done : Holds(o, x)'
      BY <1>3, <3>1
    <3> QED  BY <1>0, <3>1, <3>2
  <2> QED  BY <2>1, <2>2 DEF OnTrack
<1>5. InOrder(o)' /\ OneDraft(o)'
  BY <1>0 DEF Drafted, InOrder, OneDraft
<1>6. MoneyFollows(o)'
  BY <1>0, <1>1 DEF Drafted, MoneyFollows
<1>7. Covered(o)'
  <2> DEFINE row == session[o].draft.post
  <2>1. ASSUME row[1] \in {"payment", "hand", "expense"}, row[3] # NoLocation
        PROVE  HasLock(o, "location", row[3]) /\ balance'[row[3]] + Worth(row) >= 0
    <3>1. HasLock(o, "location", row[3]) /\ balance[row[3]] + Worth(row) >= 0
      BY <1>0, <2>1 DEF Drafted, Covered
    <3>2. row \in Postings
      BY <1>0, <2>1, RowTypes, NoPostingIs
    <3>3. row[3] \in Locations
      BY <2>1, <3>2, PostingIs DEF Places
    <3>4. balance'[row[3]] >= balance[row[3]]
      BY <3>1, <3>3, CommitSpares
    <3>5. balance'[row[3]] \in Int /\ balance[row[3]] \in Int /\ Worth(row) \in Int
      BY <1>0, <3>2, <3>3, WorthInt DEF TypeOK
    <3> HIDE DEF row
    <3> QED  BY <3>1, <3>4, <3>5
  <2>2. session'[o].draft.post = row
    BY <1>0
  <2>3. \A u : Worth(u)' = Worth(u)
    BY DEF Worth
  <2> HIDE DEF row
  <2> QED  BY <1>1, <2>1, <2>2, <2>3 DEF Covered
<1>8. ASSUME NEW p \in PaymentIds
      PROVE  DraftPayment(o, p)' /\ BillsFollow(o, p)'
  <2>1. DraftPayment(o, p) /\ BillsFollow(o, p)
    BY <1>0 DEF Drafted
  <2>2. session[o].draft.pay[p] # "-" => status'[p] = status[p]
    BY <1>0, CommitSpares DEF Exclusive
  <2>3. \A b \in Covers(p) : b \in Bills
    BY CoversIs
  <2>4. DraftPayment(o, p)'
    BY <1>0, <1>1, <1>2, <2>1, <2>2, <2>3 DEF DraftPayment
  <2>5. BillsFollow(o, p)'
    BY <1>0, <1>1, <2>1 DEF BillsFollow
  <2> QED  BY <2>4, <2>5
<1>9. ASSUME NEW b \in Bills
      PROVE  DraftBill(o, b)'
  <2>1. DraftBill(o, b)
    BY <1>0 DEF Drafted
  <2>2. \A st, n : Agrees(b, st, n) => Agrees(b, st, n)'
    BY DEF Agrees, Reconciled
  <2>3. HasLock(o, "bill", b) => TotalSeen(o, b, "APPROVED")' = TotalSeen(o, b, "APPROVED")
    BY CommitSpares
  <2> QED  BY <1>0, <1>1, <2>1, <2>2, <2>3 DEF DraftBill
<1> QED  BY <1>4, <1>5, <1>6, <1>7, <1>8, <1>9 DEF Drafted

\* A commit makes the drafts visible and releases the locks.
LEMMA CommitStep ==
    ASSUME Inv, NEW s \in Sessions, Commit(s)
    PROVE  Inv'
<1>1. /\ session'[s] = Idle /\ \A o \in Sessions \ {s} : session'[o] = session[o]
      /\ TypeOK'
  BY CommitIs
<1>2. NoOverpayment' /\ StatusAgrees' /\ NoOverdraft'
  BY CommitBills, CommitBalance
<1>3. OnTrack(s)'
  BY <1>1, IdleIs DEF OnTrack, Busy
<1>4. Drafted(s)'
  BY <1>1, IdleDrafts
<1>5. \A o \in Sessions : OnTrack(o)' /\ Drafted(o)'
  BY <1>3, <1>4, CommitOther
<1>6. ASSUME NEW o \in Sessions, NEW c \in Sessions, o # c
      PROVE  Exclusive(o, c)'
  <2>1. \A u \in {o, c} : u = s => session'[u].held = {} /\ \A p \in PaymentIds : session'[u].draft.pay[p] = "-"
    BY <1>1, IdleIs
  <2>2. CASE o = s \/ c = s
    BY <2>1, <2>2 DEF Exclusive
  <2>3. CASE o # s /\ c # s
    <3>1. Exclusive(o, c)
      BY <1>6 DEF Inv
    <3>2. session'[o] = session[o] /\ session'[c] = session[c]
      BY <1>1, <2>3
    <3> QED  BY <3>1, <3>2 DEF Exclusive
  <2> QED  BY <2>2, <2>3
<1> QED  BY <1>1, <1>2, <1>5, <1>6 DEF Inv
-----------------------------------------------------------------------------
(* The theorems. *)

\* The requests served before leave a state that satisfies the invariant.
LEMMA InitInv == Init => Inv
<1> SUFFICES ASSUME Init
             PROVE  Inv
  OBVIOUS
<1>0. /\ status \in [PaymentIds -> {"none", "PENDING", "APPROVED"}]
      /\ \A b \in Bills : ApprovedTotal(b) <= Amount[b]
      /\ bill = [b \in Bills |-> Reconciled(b, "unpaid", ApprovedTotal(b))]
      /\ number = [p \in PaymentIds |-> 0]
      /\ income \in [PaymentIds -> [Places -> {0, 1}]]
      /\ reversals = [p \in PaymentIds |-> NotReversed]
      /\ balance = [l \in Locations |->
                      Opening[l] + Sum([p \in PaymentIds |-> Total[p] * income[p][l]])]
      /\ session = [s \in Sessions |-> Idle]
      /\ requests = 0
  BY DEF Init
<1>1. ASSUME NEW b \in Bills
      PROVE  Agrees(b, bill[b], ApprovedTotal(b)) /\ bill[b] \in BillStatuses
  <2> DEFINE n == ApprovedTotal(b)
  <2>1. n \in Nat
    BY TotalsNat
  <2>2. bill[b] = Reconciled(b, "unpaid", n)
    BY <1>0
  <2> HIDE DEF n
  <2>3. Agrees(b, Reconciled(b, "unpaid", n), n) /\ Reconciled(b, "unpaid", n) \in BillStatuses
    BY <2>1, ReconciledAgrees DEF BillStatuses
  <2> QED  BY <2>2, <2>3 DEF n
<1>2. ASSUME NEW l \in Locations
      PROVE  balance[l] \in Nat
  <2> DEFINE f == [p \in PaymentIds |-> Total[p] * income[p][l]]
  <2>1. l \in Places
    BY DEF Places
  <2>2. ASSUME NEW p \in PaymentIds
        PROVE  f[p] \in Nat
    <3>1. income[p][l] = 0 \/ income[p][l] = 1
      BY <1>0, <2>1
    <3>2. Total[p] \in Nat
      BY TotalNat
    <3>3. f[p] = Total[p] * income[p][l]
      OBVIOUS
    <3>4. \A n \in Nat : n * 0 \in Nat /\ n * 1 \in Nat
      OBVIOUS
    <3> QED  BY <3>1, <3>2, <3>3, <3>4
  <2>3. f = [p \in PaymentIds |-> f[p]]
    OBVIOUS
  <2>4. balance[l] = Opening[l] + Sum(f)
    BY <1>0
  <2> HIDE DEF f
  <2>5. f \in [PaymentIds -> Nat]
    BY <2>2, <2>3
  <2>6. Sum(f) \in Nat
    BY <2>5, FiniteTables, SumNat
  <2>7. Opening[l] \in Nat
    BY Columns
  <2> QED  BY <2>4, <2>6, <2>7
<1>3. TypeOK
  <2>1. bill \in [Bills -> BillStatuses]
    BY <1>0, <1>1
  <2>2. status \in [PaymentIds -> PaymentStatuses]
    BY <1>0 DEF PaymentStatuses
  <2>3. number \in [PaymentIds -> Nat] /\ income \in [PaymentIds -> [Places -> Nat]]
    BY <1>0
  <2>4. reversals \in [PaymentIds -> [payment : Nat, hand : Nat]]
    BY <1>0 DEF NotReversed
  <2>5. balance \in [Locations -> Int]
    <3>1. balance = [l \in Locations |-> balance[l]]
      BY <1>0
    <3>2. \A l \in Locations : balance[l] \in Int
      BY <1>2
    <3> QED  BY <3>1, <3>2
  <2>6. session \in [Sessions -> SessionRow] /\ \A s \in Sessions : session[s] = Idle
    BY <1>0, IdleIs
  <2>7. requests \in 0 .. MaxRequests
    BY <1>0, Columns
  <2> QED  BY <2>1, <2>2, <2>3, <2>4, <2>5, <2>6, <2>7 DEF TypeOK
<1>4. NoOverpayment /\ StatusAgrees /\ NoOverdraft
  <2>1. NoOverpayment
    BY <1>0 DEF NoOverpayment
  <2>2. StatusAgrees
    BY <1>1 DEF StatusAgrees, Agrees
  <2>3. NoOverdraft
    BY <1>2 DEF NoOverdraft
  <2> QED  BY <2>1, <2>2, <2>3
<1>5. ASSUME NEW s \in Sessions
      PROVE  OnTrack(s) /\ Drafted(s)
  <2>1. session[s] = Idle
    BY <1>0
  <2>2. Elements(session[s].todo) = {}
    BY <2>1, IdleIs DEF Elements
  <2>3. /\ \A p \in PaymentIds : session[s].draft.pay[p] = "-"
        /\ \A b \in Bills : session[s].draft.bill[b] = "-"
        /\ session[s].draft.post = NoPosting
    BY <2>1, IdleIs
  <2>4. OnTrack(s)
    BY <2>1, IdleIs DEF OnTrack, Busy
  <2>5. InOrder(s)
    BY <2>2 DEF InOrder
  <2>6. MoneyFollows(s) /\ Covered(s)
    BY <2>3, NoPostingIs DEF MoneyFollows, Covered
  <2>7. OneDraft(s) /\ \A p \in PaymentIds : DraftPayment(s, p) /\ BillsFollow(s, p)
    BY <2>3 DEF OneDraft, DraftPayment, BillsFollow
  <2>8. \A b \in Bills : DraftBill(s, b)
    BY <2>3 DEF DraftBill
  <2> QED  BY <2>4, <2>5, <2>6, <2>7, <2>8 DEF Drafted
<1>6. \A s, o \in Sessions : Exclusive(s, o)
  BY <1>0, IdleIs DEF Exclusive
<1> QED  BY <1>3, <1>4, <1>5, <1>6 DEF Inv

\* Every step keeps the invariant.
LEMMA StepInv ==
    ASSUME Inv, [Next]_vars
    PROVE  Inv'
<1>1. CASE UNCHANGED vars
  <2>1. /\ status' = status /\ bill' = bill /\ number' = number /\ income' = income
        /\ reversals' = reversals /\ balance' = balance /\ session' = session
        /\ requests' = requests
    BY <1>1 DEF vars
  <2>2. UNCHANGED tables
    BY <2>1 DEF tables
  <2>3. /\ \A b : ApprovedTotal(b)' = ApprovedTotal(b)
        /\ \A u, v : Exclusive(u, v)' = Exclusive(u, v)
    BY <2>1 DEF ApprovedTotal, Exclusive
  <2>4. TypeOK'
    BY <2>1 DEF Inv, TypeOK, Busy
  <2>5. NoOverpayment' /\ NoOverdraft'
    BY <2>1, <2>3 DEF Inv, NoOverpayment, NoOverdraft
  <2>6. StatusAgrees'
    BY <2>1, <2>3 DEF Inv, StatusAgrees, Reconciled
  <2>7. \A s \in Sessions : OnTrack(s)' /\ Drafted(s)'
    BY <2>1, <2>2, OtherStays DEF Inv
  <2> QED  BY <2>3, <2>4, <2>5, <2>6, <2>7 DEF Inv
<1>2. ASSUME NEW s \in Sessions, Arrive(s) \/ Step(s) \/ Abort(s)
      PROVE  Inv'
  <2>1. CASE Arrive(s)
    BY <2>1, ArriveStep
  <2>2. CASE Abort(s) \/ BreakDeadlock(s)
    BY <2>2, RollbackStep DEF Abort, BreakDeadlock
  <2>3. CASE Lock(s)
    BY <2>3, LockStep
  <2>4. CASE Read(s)
    BY <2>4, ExpectStep, CheckStep, RejectInsteadStep, UnreversedStep, BalanceStep, NumberStep DEF Read
  <2>5. CASE Write(s)
    BY <2>5, InsertStep, ReversedStep, VerifiedStep, SettleStep, ReconcileStep, CancelStep, PostStep
       DEF Write
  <2>6. CASE Commit(s)
    BY <2>6, CommitStep
  <2> QED  BY <1>2, <2>1, <2>2, <2>3, <2>4, <2>5, <2>6 DEF Step
<1> QED  BY <1>1, <1>2 DEF Next

\* The sessions of the server, whatever they do, keep the whole invariant.
THEOREM Invariant == Spec => []Inv
<1>1. Inv /\ [Next]_vars => Inv'
  BY StepInv
<1> QED  BY <1>1, InitInv, PTL DEF Spec

\* Tables and sessions stay well formed, and an idle session holds nothing.
THEOREM TypesOK == Spec => []TypeOK
<1>1. Inv => TypeOK
  BY DEF Inv
<1> QED  BY <1>1, Invariant, PTL

\* However the statements of the handlers interleave, no bill gets more
\* approved money than was billed.
THEOREM NeverOverpaid == Spec => []NoOverpayment
<1>1. Inv => NoOverpayment
  BY DEF Inv
<1> QED  BY <1>1, Invariant, PTL

\* The committed status of every bill says how much approved money is on it.
THEOREM StatusesAgree == Spec => []StatusAgrees
<1>1. Inv => StatusAgrees
  BY DEF Inv
<1> QED  BY <1>1, Invariant, PTL

\* No location pays out more than it took in.
THEOREM NeverOverdrawn == Spec => []NoOverdraft
<1>1. Inv => NoOverdraft
  BY DEF Inv
<1> QED  BY <1>1, Invariant, PTL
-----------------------------------------------------------------------------
(* The refinement: a commit is a step of the contract. *)

IncomeRows == [row \in PaymentIds \X Places |-> Total[row[1]] * income[row[1]][row[2]]]
ReversalRows == [p \in PaymentIds |-> Total[p] * reversals[p].payment]

\* The money in the KAS for payments, less what reversals took back.
Cash == Sum(IncomeRows) - Sum(ReversalRows)

\* What is posted is for the payment that is drafted.
LEMMA CommitPosts ==
    ASSUME Inv, NEW s \in Sessions, Commit(s)
    PROVE  /\ session[s].draft.post \in Postings \cup {NoPosting}
           /\ \A p \in PaymentIds :
                /\ session[s].draft.pay[p] = "APPROVED" =>
                     \E l \in Places : session[s].draft.post = <<"income", p, l>>
                /\ session[s].draft.pay[p] = "REVERSED" =>
                     \E l \in Places : session[s].draft.post = <<"payment", p, l>>
           /\ session[s].draft.post[1] = "income" =>
                \E p \in PaymentIds : session[s].draft.pay[p] = "APPROVED"
           /\ session[s].draft.post[1] = "payment" =>
                \E p \in PaymentIds : session[s].draft.pay[p] = "REVERSED"
<1>1. MoneyFollows(s) /\ session[s].draft.post \in Postings \cup {NoPosting}
  BY RowTypes DEF Inv, Drafted
<1>2. \A row : ~Left(s, St("post", row)) /\ ~Left(s, St("set", row))
  <2>1. \A x : Left(s, x) => x.do = "commit"
    BY CommitIs
  <2> QED  BY <2>1, StIs
<1>3. session[s].draft.post[1] \in {"income", "payment"} => session[s].draft.post[2] \in PaymentIds
  BY <1>1, PostingIs, NoPostingIs
<1> QED  BY <1>1, <1>2, <1>3 DEF MoneyFollows

\* The rows of the KAS after a commit.
LEMMA RowsAre ==
    ASSUME TypeOK
    PROVE  /\ IncomeRows \in [PaymentIds \X Places -> Nat]
           /\ ReversalRows \in [PaymentIds -> Nat]
           /\ IsFiniteSet(PaymentIds \X Places) /\ IsFiniteSet(PaymentIds)
           /\ \A p \in PaymentIds, l \in Places :
                 Total[p] \in Nat /\ income[p][l] \in Nat /\ reversals[p].payment \in Nat
<1>1. \A m, n \in Nat : m * n \in Nat
  OBVIOUS
<1>2. \A p \in PaymentIds, l \in Places :
         Total[p] \in Nat /\ income[p][l] \in Nat /\ reversals[p].payment \in Nat
  BY TotalNat DEF TypeOK
<1>3. \A row \in PaymentIds \X Places : IncomeRows[row] \in Nat
  <2> SUFFICES ASSUME NEW p \in PaymentIds, NEW l \in Places
               PROVE  IncomeRows[<<p, l>>] \in Nat
    OBVIOUS
  <2>1. IncomeRows[<<p, l>>] = Total[p] * income[p][l]
    BY DEF IncomeRows
  <2> QED  BY <1>1, <1>2, <2>1
<1>4. \A p \in PaymentIds : ReversalRows[p] \in Nat
  <2> SUFFICES ASSUME NEW p \in PaymentIds
               PROVE  ReversalRows[p] \in Nat
    OBVIOUS
  <2>1. ReversalRows[p] = Total[p] * reversals[p].payment
    BY DEF ReversalRows
  <2>2. Total[p] \in Nat /\ reversals[p].payment \in Nat
    BY TotalNat DEF TypeOK
  <2> QED  BY <1>1, <2>1, <2>2
<1>5. IsFiniteSet(PaymentIds \X Places)
  <2>1. IsFiniteSet({NoLocation})
    BY FS_Singleton
  <2>2. IsFiniteSet(Places)
    BY <2>1, FiniteTables, FS_Union DEF Places
  <2> QED  BY <2>2, FiniteTables, FS_Product
<1>6. /\ IncomeRows = [row \in PaymentIds \X Places |-> IncomeRows[row]]
      /\ ReversalRows = [p \in PaymentIds |-> ReversalRows[p]]
  BY DEF IncomeRows, ReversalRows
<1> QED  BY <1>2, <1>3, <1>4, <1>5, <1>6, FiniteTables

\* What a commit does to the money in the KAS is what it posts.
LEMMA CashPosted ==
    ASSUME Inv, NEW s \in Sessions, Commit(s)
    PROVE  /\ Cash \in Int
           /\ session[s].draft.post[1] \notin {"income", "payment"} => Cash' = Cash
           /\ \A p \in PaymentIds, l \in Places :
                /\ session[s].draft.post = <<"income", p, l>> => Cash' = Cash + Total[p]
                /\ session[s].draft.post = <<"payment", p, l>> => Cash' = Cash - Total[p]
<1> DEFINE post == session[s].draft.post
           f == IncomeRows
           g == IncomeRows'
           u == ReversalRows
           v == ReversalRows'
<1>1. TypeOK /\ TypeOK'
  BY CommitIs DEF Inv
<1>2. /\ f \in [PaymentIds \X Places -> Nat] /\ u \in [PaymentIds -> Nat]
      /\ IsFiniteSet(PaymentIds \X Places) /\ IsFiniteSet(PaymentIds)
  BY <1>1, RowsAre
<1>3. g \in [PaymentIds \X Places -> Nat] /\ v \in [PaymentIds -> Nat]
  <2>1. \A m, n \in Nat : m * n \in Nat
    OBVIOUS
  <2>2. ASSUME NEW p \in PaymentIds, NEW l \in Places
        PROVE  g[<<p, l>>] \in Nat
    <3>1. g[<<p, l>>] = Total[p] * income'[p][l]
      BY DEF IncomeRows
    <3>2. Total[p] \in Nat /\ income'[p][l] \in Nat
      BY <1>1, TotalNat DEF TypeOK
    <3> QED  BY <2>1, <3>1, <3>2
  <2>3. ASSUME NEW p \in PaymentIds
        PROVE  v[p] \in Nat
    <3>1. v[p] = Total[p] * reversals'[p].payment
      BY DEF ReversalRows
    <3>2. Total[p] \in Nat /\ reversals'[p].payment \in Nat
      BY <1>1, TotalNat DEF TypeOK
    <3> QED  BY <2>1, <3>1, <3>2
  <2>4. g = [row \in PaymentIds \X Places |-> g[row]] /\ v = [p \in PaymentIds |-> v[p]]
    BY DEF IncomeRows, ReversalRows
  <2> QED  BY <2>2, <2>3, <2>4
<1>4. ASSUME NEW p \in PaymentIds, NEW l \in Places
      PROVE  /\ post # <<"income", p, l>> => g[<<p, l>>] = f[<<p, l>>]
             /\ post = <<"income", p, l>> => g[<<p, l>>] = f[<<p, l>>] + Total[p]
  <2>1. income'[p][l] = income[p][l] + Posts(s, "income", p, l)
    BY DEF Commit
  <2>2. /\ f[<<p, l>>] = Total[p] * income[p][l]
        /\ g[<<p, l>>] = Total[p] * income'[p][l]
    BY DEF IncomeRows
  <2>3. Total[p] \in Nat /\ income[p][l] \in Nat
    BY <1>1, RowsAre
  <2>4. \A m, n \in Nat : n + 0 = n /\ m * (n + 1) = m * n + m
    OBVIOUS
  <2>5. CASE post # <<"income", p, l>>
    <3>1. Posts(s, "income", p, l) = 0
      BY <2>5 DEF Posts
    <3>2. income'[p][l] = income[p][l]
      BY <2>1, <2>3, <2>4, <3>1
    <3> QED  BY <2>2, <2>5, <3>2
  <2>6. CASE post = <<"income", p, l>>
    <3>1. Posts(s, "income", p, l) = 1
      BY <2>6 DEF Posts
    <3>2. income'[p][l] = income[p][l] + 1
      BY <2>1, <3>1
    <3> QED  BY <2>2, <2>3, <2>4, <2>6, <3>2
  <2> QED  BY <2>5, <2>6
<1>5. ASSUME NEW p \in PaymentIds
      PROVE  /\ ~(\E l \in Places : post = <<"payment", p, l>>) => v[p] = u[p]
             /\ (\E l \in Places : post = <<"payment", p, l>>) => v[p] = u[p] + Total[p]
  <2>1. reversals'[p].payment = reversals[p].payment + Reverses(s, "payment", p)
    BY DEF Commit
  <2>2. /\ u[p] = Total[p] * reversals[p].payment
        /\ v[p] = Total[p] * reversals'[p].payment
    BY DEF ReversalRows
  <2>3. Total[p] \in Nat /\ reversals[p].payment \in Nat
    BY <1>1, TotalNat DEF TypeOK
  <2>4. \A m, n \in Nat : n + 0 = n /\ m * (n + 1) = m * n + m
    OBVIOUS
  <2>5. CASE ~(\E l \in Places : post = <<"payment", p, l>>)
    <3>1. Reverses(s, "payment", p) = 0
      BY <2>5 DEF Reverses
    <3>2. reversals'[p].payment = reversals[p].payment
      BY <2>1, <2>3, <2>4, <3>1
    <3> QED  BY <2>2, <2>5, <3>2
  <2>6. CASE \E l \in Places : post = <<"payment", p, l>>
    <3>1. Reverses(s, "payment", p) = 1
      BY <2>6 DEF Reverses
    <3>2. reversals'[p].payment = reversals[p].payment + 1
      BY <2>1, <3>1
    <3> QED  BY <2>2, <2>3, <2>4, <2>6, <3>2
  <2> QED  BY <2>5, <2>6
<1>6. /\ Cash = Sum(f) - Sum(u) /\ Cash' = Sum(g) - Sum(v)
      /\ f = [row \in PaymentIds \X Places |-> f[row]] /\ g = [row \in PaymentIds \X Places |-> g[row]]
      /\ u = [p \in PaymentIds |-> u[p]] /\ v = [p \in PaymentIds |-> v[p]]
  BY DEF Cash, IncomeRows, ReversalRows
<1>7. Sum(f) \in Nat /\ Sum(u) \in Nat
  BY <1>2, SumNat
<1> HIDE DEF post, f, g, u, v
<1>8. post[1] # "income" => Sum(g) = Sum(f)
  <2> SUFFICES ASSUME post[1] # "income"
               PROVE  g = f
    OBVIOUS
  <2>1. ASSUME NEW p \in PaymentIds, NEW l \in Places
        PROVE  g[<<p, l>>] = f[<<p, l>>]
    <3>1. <<"income", p, l>>[1] = "income"
      OBVIOUS
    <3>2. post # <<"income", p, l>>
      BY <3>1
    <3> QED  BY <1>4, <3>2
  <2>2. \A row \in PaymentIds \X Places : g[row] = f[row]
    BY <2>1
  <2>3. [row \in PaymentIds \X Places |-> g[row]] = [row \in PaymentIds \X Places |-> f[row]]
    BY <2>2
  <2> QED  BY <1>6, <2>3
<1>9. post[1] # "payment" => Sum(v) = Sum(u)
  <2> SUFFICES ASSUME post[1] # "payment"
               PROVE  v = u
    OBVIOUS
  <2>1. \A p \in PaymentIds : v[p] = u[p]
    BY <1>5
  <2> QED  BY <1>6, <2>1
<1>10. ASSUME NEW p \in PaymentIds, NEW l \in Places, post = <<"income", p, l>>
       PROVE  Cash' = Cash + Total[p]
  <2> DEFINE x == <<p, l>>
  <2>1. x \in PaymentIds \X Places /\ g[x] = f[x] + Total[p]
    BY <1>4, <1>10
  <2>2. \A y \in PaymentIds \X Places : y # x => g[y] = f[y]
    <3> SUFFICES ASSUME NEW q \in PaymentIds, NEW m \in Places, <<q, m>> # x
                 PROVE  g[<<q, m>>] = f[<<q, m>>]
      OBVIOUS
    <3>1. post # <<"income", q, m>>
      BY <1>10
    <3> QED  BY <1>4, <3>1
  <2> HIDE DEF x
  <2>3. Sum(g) \in Nat /\ Sum(g) = Sum(f) - f[x] + g[x]
    BY <1>2, <1>3, <2>1, <2>2, SumChange
  <2>4. f[x] \in Nat /\ Total[p] \in Nat
    BY <1>2, <2>1, TotalNat
  <2>5. Sum(v) = Sum(u)
    BY <1>9, <1>10
  <2> QED  BY <1>6, <1>7, <2>1, <2>3, <2>4, <2>5
<1>11. ASSUME NEW p \in PaymentIds, NEW l \in Places, post = <<"payment", p, l>>
       PROVE  Cash' = Cash - Total[p]
  <2>1. v[p] = u[p] + Total[p]
    BY <1>5, <1>11
  <2>2. \A q \in PaymentIds : q # p => v[q] = u[q]
    <3> SUFFICES ASSUME NEW q \in PaymentIds, q # p
                 PROVE  v[q] = u[q]
      OBVIOUS
    <3>1. ~\E m \in Places : post = <<"payment", q, m>>
      BY <1>11
    <3> QED  BY <1>5, <3>1
  <2>3. Sum(v) \in Nat /\ Sum(v) = Sum(u) - u[p] + v[p]
    BY <1>2, <1>3, <2>2, SumChange
  <2>4. u[p] \in Nat /\ Total[p] \in Nat
    BY <1>2, TotalNat
  <2>5. Sum(g) = Sum(f)
    BY <1>8, <1>11
  <2> QED  BY <1>6, <1>7, <2>1, <2>3, <2>4, <2>5
<1>12. post[1] \notin {"income", "payment"} => Cash' = Cash
  BY <1>6, <1>8, <1>9
<1>13. Cash \in Int
  BY <1>6, <1>7
<1> QED  BY <1>10, <1>11, <1>12, <1>13 DEF post

\* What the contract sees of a payment.
AllocOf == [p \in PaymentIds |-> IF status[p] = "none" THEN [b \in Bills |-> 0] ELSE Alloc[p]]
AmountOf == [p \in PaymentIds |-> IF status[p] = "none" THEN 0 ELSE Total[p]]
Credit == [b \in Bills |-> ApprovedTotal(b)]

\* A payment is worth its bills, or it is a donation.
LEMMA TotalIs ==
    ASSUME NEW p \in PaymentIds
    PROVE  /\ Alloc[p] \in [Bills -> Nat] /\ Total[p] \in Nat
           /\ Alloc[p] = Contract!NothingPaid \/ Total[p] = Contract!Total(Alloc[p])
<1>1. Alloc[p] \in [Bills -> Nat] /\ Total[p] \in Nat
  BY Columns, TotalNat
<1>2. CASE Covers(p) = {}
  <2>1. \A b \in Bills : Alloc[p][b] = 0
    BY <1>1, <1>2, CoversIs
  <2>2. Alloc[p] = [b \in Bills |-> 0]
    BY <1>1, <2>1
  <2> QED  BY <1>1, <2>2 DEF Contract!NothingPaid
<1>3. CASE Covers(p) # {}
  <2>1. Total[p] = Sum(Alloc[p])
    BY <1>3 DEF Total
  <2>2. DOMAIN Alloc[p] = Bills
    BY <1>1
  <2>3. Sum(Alloc[p]) = Cardinality(UNION {{b} \X (1 .. Alloc[p][b]) : b \in Bills})
    BY <2>2 DEF Sum
  <2>4. \A S : Contract!Cardinality(S) = Cardinality(S)
    BY DEF Contract!Cardinality, Cardinality
  <2>5. Contract!Total(Alloc[p]) = Cardinality(UNION {{b} \X (1 .. Alloc[p][b]) : b \in Bills})
    BY <2>4 DEF Contract!Total
  <2> QED  BY <1>1, <2>1, <2>3, <2>5
<1> QED  BY <1>2, <1>3

\* A commit with a drafted payment, as the contract sees it.
LEMMA CommitSeen ==
    ASSUME Inv, NEW s \in Sessions, Commit(s), NEW p \in PaymentIds,
           session[s].draft.pay[p] \in {"PENDING", "APPROVED", "REJECTED", "REVERSED"}
    PROVE  LET to == session[s].draft.pay[p]
               sign == IF to = "APPROVED" THEN 1 ELSE IF to = "REVERSED" THEN -1 ELSE 0
           IN  /\ status' = [status EXCEPT ![p] = to]
               /\ status' \in [PaymentIds -> PaymentStatuses]
               /\ \A b \in Bills : ApprovedTotal(b)' = ApprovedTotal(b) + sign * Alloc[p][b]
               /\ \A b \in Bills : sign = 0 => ApprovedTotal(b)' = ApprovedTotal(b)
               /\ Cash' = Cash + sign * Total[p]
               /\ sign = 0 => Cash' = Cash
<1> DEFINE to == session[s].draft.pay[p]
           post == session[s].draft.post
<1>1. /\ OneDraft(s) /\ TypeOK /\ \A q \in PaymentIds : DraftPayment(s, q)
      /\ TypeOK'
  BY CommitIs DEF Inv, Drafted
<1>2. \A q \in PaymentIds : q # p => session[s].draft.pay[q] = "-"
  BY <1>1 DEF OneDraft
<1>3. status' = [status EXCEPT ![p] = to] /\ status' \in [PaymentIds -> PaymentStatuses]
  <2>1. status'[p] = to /\ \A q \in PaymentIds : q # p => status'[q] = status[q]
    BY <1>2, CommitIs DEF StatusSeen
  <2>2. status \in [PaymentIds -> PaymentStatuses] /\ status' \in [PaymentIds -> PaymentStatuses]
    BY <1>1 DEF TypeOK
  <2> HIDE DEF to
  <2> QED  BY <2>1, <2>2
<1>4. ASSUME NEW b \in Bills
      PROVE  /\ to = "APPROVED" => ApprovedTotal(b)' = ApprovedTotal(b) + 1 * Alloc[p][b]
             /\ to = "REVERSED" => ApprovedTotal(b)' = ApprovedTotal(b) + (-1) * Alloc[p][b]
             /\ to \in {"PENDING", "REJECTED"} => /\ ApprovedTotal(b)' = ApprovedTotal(b)
                                                  /\ ApprovedTotal(b)' = ApprovedTotal(b) + 0 * Alloc[p][b]
  <2>1. ApprovedTotal(b) \in Nat /\ Alloc[p][b] \in Nat
    BY TotalsNat, AllocNat
  <2>2. ApprovedTotal(b)' = TotalSeen(s, b, "APPROVED")
    BY CommittedTotals
  <2>3. /\ to = "APPROVED" => TotalSeen(s, b, "APPROVED") = ApprovedTotal(b) + Alloc[p][b]
        /\ to = "REVERSED" => TotalSeen(s, b, "APPROVED") = ApprovedTotal(b) - Alloc[p][b]
        /\ to \in {"PENDING", "REJECTED"} => TotalSeen(s, b, "APPROVED") = ApprovedTotal(b)
    BY <1>1, SeenTotals
  <2> HIDE DEF to
  <2> QED  BY <2>1, <2>2, <2>3
<1>5. /\ to = "APPROVED" => Cash' = Cash + 1 * Total[p]
      /\ to = "REVERSED" => Cash' = Cash + (-1) * Total[p]
      /\ to \in {"PENDING", "REJECTED"} => Cash' = Cash /\ Cash' = Cash + 0 * Total[p]
  <2>1. Cash \in Int /\ Total[p] \in Nat
    BY CashPosted, TotalNat
  <2>2. to = "APPROVED" => Cash' = Cash + Total[p]
    BY CommitPosts, CashPosted
  <2>3. to = "REVERSED" => Cash' = Cash - Total[p]
    BY CommitPosts, CashPosted
  <2>4. to \in {"PENDING", "REJECTED"} => Cash' = Cash
    <3>1. to \in {"PENDING", "REJECTED"} => \A q \in PaymentIds : session[s].draft.pay[q] \notin {"APPROVED", "REVERSED"}
      BY <1>2
    <3>2. to \in {"PENDING", "REJECTED"} => post[1] \notin {"income", "payment"}
      BY <3>1, CommitPosts
    <3> QED  BY <3>2, CashPosted
  <2> HIDE DEF to
  <2> QED  BY <2>1, <2>2, <2>3, <2>4
<1> HIDE DEF to
<1>6. CASE to = "APPROVED"
  BY <1>3, <1>4, <1>5, <1>6 DEF to
<1>7. CASE to = "REVERSED"
  BY <1>3, <1>4, <1>5, <1>7 DEF to
<1>8. CASE to \in {"PENDING", "REJECTED"}
  BY <1>3, <1>4, <1>5, <1>8 DEF to
<1> QED  BY <1>6, <1>7, <1>8 DEF to

\* A commit is a step of the contract, or none.
LEMMA CommitContract ==
    ASSUME Inv, NEW s \in Sessions, Commit(s)
    PROVE  [Contract!Next]_(Contract!contract)
<1> DEFINE pay == session[s].draft.pay
<1>1. /\ TypeOK /\ TypeOK' /\ \A q \in PaymentIds : DraftPayment(s, q)
      /\ OneDraft(s)
  BY CommitIs DEF Inv, Drafted
<1>2. CASE \A p \in PaymentIds : pay[p] = "-"
  <2>1. status' = status
    <3>1. \A p \in PaymentIds : status'[p] = status[p]
      BY <1>2, CommitIs DEF StatusSeen
    <3> QED  BY <1>1, <3>1 DEF TypeOK
  <2>2. \A b \in Bills : ApprovedTotal(b)' = ApprovedTotal(b)
    BY <2>1, SameTotals
  <2>3. Cash' = Cash
    <3>1. session[s].draft.post[1] \notin {"income", "payment"}
      BY <1>2, CommitPosts
    <3> QED  BY <3>1, CashPosted
  <2>4. UNCHANGED <<AllocOf, AmountOf, Credit>>
    BY <2>1, <2>2 DEF AllocOf, AmountOf, Credit
  <2> QED  BY <2>1, <2>3, <2>4
           DEF Contract!contract, AllocOf, AmountOf, Credit, Cash, IncomeRows, ReversalRows
<1>3. ASSUME NEW p \in PaymentIds, pay[p] # "-"
      PROVE  Contract!Next
  <2> DEFINE to == pay[p]
  <2>1. to \in {"PENDING", "APPROVED", "REJECTED", "REVERSED"}
    BY <1>1, <1>3, RowTypes DEF DraftPayment, PaymentStatuses
  <2>2. /\ status' = [status EXCEPT ![p] = to]
        /\ status \in [PaymentIds -> PaymentStatuses]
    BY <1>1, <2>1, CommitSeen DEF TypeOK
  <2>3. status'[p] = to /\ to # "none" /\ \A q \in PaymentIds : q # p => status'[q] = status[q]
    BY <2>1, <2>2
  <2>4. /\ to = "PENDING" => status[p] = "none"
        /\ to = "APPROVED" => status[p] \in {"none", "PENDING"}
        /\ to = "REJECTED" => status[p] = "PENDING"
        /\ to = "REVERSED" => status[p] = "APPROVED"
    BY <1>1 DEF DraftPayment
  <2>5. /\ to = "APPROVED" => /\ Credit' = [b \in Bills |-> Credit[b] + 1 * Alloc[p][b]]
                              /\ Cash' = Cash + 1 * Total[p]
        /\ to = "REVERSED" => /\ Credit' = [b \in Bills |-> Credit[b] + (-1) * Alloc[p][b]]
                              /\ Cash' = Cash + (-1) * Total[p]
        /\ to \in {"PENDING", "REJECTED"} => Credit' = Credit /\ Cash' = Cash
    <3>1. \A b \in Bills : Credit[b] = ApprovedTotal(b)
      BY DEF Credit
    <3>2. Credit' = [b \in Bills |-> ApprovedTotal(b)'] /\ Credit = [b \in Bills |-> ApprovedTotal(b)]
      BY DEF Credit
    <3>3. CASE to = "APPROVED"
      BY <2>1, <3>1, <3>2, <3>3, CommitSeen
    <3>4. CASE to = "REVERSED"
      BY <2>1, <3>1, <3>2, <3>4, CommitSeen
    <3>5. CASE to \in {"PENDING", "REJECTED"}
      BY <2>1, <3>1, <3>2, <3>5, CommitSeen
    <3> QED  BY <2>1, <3>3, <3>4, <3>5
  <2> HIDE DEF to
  <2>6. AllocOf'[p] = Alloc[p] /\ AmountOf'[p] = Total[p]
    BY <2>3 DEF AllocOf, AmountOf
  <2>7. status[p] # "none" => AllocOf' = AllocOf /\ AmountOf' = AmountOf
    <3> SUFFICES ASSUME status[p] # "none"
                 PROVE  AllocOf' = AllocOf /\ AmountOf' = AmountOf
      OBVIOUS
    <3>1. \A q \in PaymentIds : status'[q] = "none" <=> status[q] = "none"
      BY <2>3
    <3> QED  BY <3>1 DEF AllocOf, AmountOf
  <2>8. /\ AllocOf' = [AllocOf EXCEPT ![p] = AllocOf'[p]]
        /\ AmountOf' = [AmountOf EXCEPT ![p] = AmountOf'[p]]
    <3>1. \A q \in PaymentIds : q # p => AllocOf'[q] = AllocOf[q] /\ AmountOf'[q] = AmountOf[q]
      BY <2>3 DEF AllocOf, AmountOf
    <3>2. /\ AllocOf = [q \in PaymentIds |-> AllocOf[q]] /\ AllocOf' = [q \in PaymentIds |-> AllocOf'[q]]
          /\ AmountOf = [q \in PaymentIds |-> AmountOf[q]]
          /\ AmountOf' = [q \in PaymentIds |-> AmountOf'[q]]
      BY DEF AllocOf, AmountOf
    <3> QED  BY <3>1, <3>2
  <2>9. status[p] # "none" => AllocOf[p] = Alloc[p] /\ AmountOf[p] = Total[p]
    BY DEF AllocOf, AmountOf
  <2>10. CASE to = "PENDING"
    <3>1. Contract!Enter(p, "PENDING")
      <4>1. status' = [status EXCEPT ![p] = "PENDING"] /\ status[p] = "none"
        BY <2>2, <2>4, <2>10
      <4> QED  BY <2>6, <2>8, <4>1, TotalIs DEF Contract!Enter, AllocOf, AmountOf
    <3>2. Contract!Submit(p)
      BY <2>5, <2>10, <3>1 DEF Contract!Submit, Credit, Cash, IncomeRows, ReversalRows
    <3> QED  BY <3>2 DEF Contract!Next
  <2>11. CASE to = "APPROVED" /\ status[p] = "none"
    <3>1. Contract!Enter(p, "APPROVED")
      <4>1. status' = [status EXCEPT ![p] = "APPROVED"] /\ status[p] = "none"
        BY <2>2, <2>11
      <4> QED  BY <2>6, <2>8, <4>1, TotalIs DEF Contract!Enter, AllocOf, AmountOf
    <3>2. Contract!Record(p)
      BY <2>5, <2>6, <2>11, <3>1
         DEF Contract!Record, Contract!Recognise, AllocOf, AmountOf, Credit, Cash, IncomeRows, ReversalRows
    <3> QED  BY <3>2 DEF Contract!Next
  <2>12. CASE to = "APPROVED" /\ status[p] = "PENDING"
    <3>1. Contract!Approve(p)
      BY <2>2, <2>5, <2>7, <2>9, <2>12
         DEF Contract!Approve, Contract!Recognise, AllocOf, AmountOf, Credit, Cash, IncomeRows, ReversalRows
    <3> QED  BY <3>1 DEF Contract!Next
  <2>13. CASE to = "REJECTED"
    <3>1. Contract!Reject(p)
      BY <2>2, <2>4, <2>5, <2>7, <2>13
         DEF Contract!Reject, AllocOf, AmountOf, Credit, Cash, IncomeRows, ReversalRows
    <3> QED  BY <3>1 DEF Contract!Next
  <2>14. CASE to = "REVERSED"
    <3>1. Contract!Reverse(p)
      BY <2>2, <2>4, <2>5, <2>7, <2>9, <2>14
         DEF Contract!Reverse, Contract!Recognise, AllocOf, AmountOf, Credit, Cash, IncomeRows, ReversalRows
    <3> QED  BY <3>1 DEF Contract!Next
  <2> QED  BY <2>1, <2>4, <2>10, <2>11, <2>12, <2>13, <2>14
<1> QED  BY <1>2, <1>3

\* Everything but a commit leaves the tables as they are.
LEMMA OnlyCommits ==
    ASSUME [Next]_vars
    PROVE  (\E s \in Sessions : Commit(s)) \/ UNCHANGED tables
<1>1. ASSUME NEW s \in Sessions, NEW rest, Advance(s, rest) \/ Rollback(s)
      PROVE  UNCHANGED tables
  BY <1>1 DEF Advance, Rollback, tables
<1>2. ASSUME NEW s \in Sessions, NEW rest, NEW c, Check(s, c, rest)
      PROVE  UNCHANGED tables
  BY <1>1, <1>2 DEF Check
<1>3. CASE UNCHANGED vars
  BY <1>3 DEF vars, tables
<1>4. ASSUME NEW s \in Sessions, Arrive(s) \/ Abort(s) \/ BreakDeadlock(s)
      PROVE  UNCHANGED tables
  BY <1>1, <1>4 DEF Arrive, Abort, BreakDeadlock
<1>5. ASSUME NEW s \in Sessions, Lock(s)
      PROVE  UNCHANGED tables
  BY <1>1, <1>5 DEF Lock
<1>6. ASSUME NEW s \in Sessions, Read(s)
      PROVE  UNCHANGED tables
  <2>1. CASE ExpectStatus(s)
    BY <1>2, <2>1 DEF ExpectStatus
  <2>2. CASE CheckOpen(s)
    BY <1>2, <2>2 DEF CheckOpen
  <2>3. CASE CheckFree(s)
    BY <1>2, <2>3 DEF CheckFree
  <2>4. CASE CheckPayable(s)
    BY <1>2, <2>4 DEF CheckPayable
  <2>5. CASE RejectInstead(s)
    BY <1>2, <2>5 DEF RejectInstead
  <2>6. CASE CheckUnreversed(s)
    BY <1>2, <2>6 DEF CheckUnreversed
  <2>7. CASE CheckBalance(s)
    BY <1>2, <2>7 DEF CheckBalance
  <2>8. CASE NextNumber(s)
    BY <1>1, <2>8 DEF NextNumber
  <2> QED  BY <1>6, <2>1, <2>2, <2>3, <2>4, <2>5, <2>6, <2>7, <2>8 DEF Read
<1>7. ASSUME NEW s \in Sessions, Write(s)
      PROVE  UNCHANGED tables
  <2>1. CASE Insert(s)
    BY <1>2, <2>1 DEF Insert
  <2>2. CASE SetReversed(s)
    BY <1>1, <2>2 DEF SetReversed
  <2>3. CASE SetVerified(s)
    BY <1>2, <2>3 DEF SetVerified
  <2>4. CASE Settle(s)
    BY <1>1, <2>4 DEF Settle
  <2>5. CASE SetReconciled(s)
    BY <1>1, <2>5 DEF SetReconciled
  <2>6. CASE SetCancelled(s)
    BY <1>2, <2>6 DEF SetCancelled
  <2>7. CASE Post(s)
    BY <1>1, <2>7 DEF Post
  <2> QED  BY <1>7, <2>1, <2>2, <2>3, <2>4, <2>5, <2>6, <2>7 DEF Write
<1> QED  BY <1>3, <1>4, <1>5, <1>6, <1>7 DEF Next, Step

\* Every commit is one step of the payment contract, and no other step of a
\* session shows: each handler takes effect at once or not at all.
THEOREM SessionsImplementContract == Spec => ImplementsContract
<1>1. Inv /\ [Next]_vars => [Contract!Next]_(Contract!contract)
  <2> SUFFICES ASSUME Inv, [Next]_vars
               PROVE  [Contract!Next]_(Contract!contract)
    OBVIOUS
  <2>1. CASE \E s \in Sessions : Commit(s)
    BY <2>1, CommitContract
  <2>2. CASE UNCHANGED tables
    <3>1. status' = status /\ income' = income /\ reversals' = reversals
      BY <2>2 DEF tables
    <3>2. UNCHANGED <<AllocOf, AmountOf, Credit, Cash>>
      BY <3>1 DEF AllocOf, AmountOf, Credit, ApprovedTotal, Cash, IncomeRows, ReversalRows
    <3> QED  BY <3>1, <3>2
             DEF Contract!contract, AllocOf, AmountOf, Credit, Cash, IncomeRows, ReversalRows
  <2> QED  BY <2>1, <2>2, OnlyCommits
<1> QED  BY <1>1, Invariant, PTL DEF Spec, ImplementsContract

\* The income and reversal rows of p are those of its status.
IncomeOf(p) ==
    /\ Sum(income[p]) = IF status[p] \in {"APPROVED", "REVERSED"} THEN 1 ELSE 0
    /\ reversals[p].payment = IF status[p] = "REVERSED" THEN 1 ELSE 0

\* A commit adds the rows that the new status of a payment asks for.
LEMMA CommitIncome ==
    ASSUME Inv, NEW s \in Sessions, Commit(s), NEW p \in PaymentIds, IncomeOf(p)
    PROVE  IncomeOf(p)'
<1> DEFINE to == session[s].draft.pay[p]
           post == session[s].draft.post
           f == income[p]
           g == income'[p]
<1>1. /\ TypeOK /\ OneDraft(s) /\ DraftPayment(s, p) /\ MoneyFollows(s)
      /\ f \in [Places -> Nat] /\ reversals[p].payment \in Nat
  BY DEF Inv, Drafted, TypeOK
<1>2. IsFiniteSet(Places)
  <2>1. IsFiniteSet({NoLocation})
    BY FS_Singleton
  <2> QED  BY <2>1, FiniteTables, FS_Union DEF Places
<1>3. /\ g = [l \in Places |-> f[l] + Posts(s, "income", p, l)]
      /\ reversals'[p].payment = reversals[p].payment + Reverses(s, "payment", p)
  BY DEF Commit
<1>4. g \in [Places -> Nat]
  BY <1>1, <1>3 DEF Posts
<1>5. /\ status'[p] = IF to # "-" THEN to ELSE status[p]
      /\ to \in PaymentStatuses \cup {"-"}
  BY <1>1, CommitIs, RowTypes DEF StatusSeen
<1>6. /\ to = "APPROVED" <=> \E l \in Places : post = <<"income", p, l>>
      /\ to = "REVERSED" <=> \E l \in Places : post = <<"payment", p, l>>
  <2>1. \A l \in Places : post = <<"income", p, l>> => post[1] = "income" /\ post[2] = p
    OBVIOUS
  <2>2. \A l \in Places : post = <<"payment", p, l>> => post[1] = "payment" /\ post[2] = p
    OBVIOUS
  <2>3. ~Left(s, St("set", <<post[2], "REVERSED">>))
    <3>1. \A x : Left(s, x) => x.do = "commit"
      BY CommitIs
    <3> QED  BY <3>1, StIs
  <2>4. /\ post[1] = "income" => session[s].draft.pay[post[2]] = "APPROVED"
        /\ post[1] = "payment" => session[s].draft.pay[post[2]] = "REVERSED"
    BY <1>1, <2>3 DEF MoneyFollows
  <2>5. /\ to = "APPROVED" => \E l \in Places : post = <<"income", p, l>>
        /\ to = "REVERSED" => \E l \in Places : post = <<"payment", p, l>>
    BY CommitPosts
  <2> QED  BY <2>1, <2>2, <2>4, <2>5
<1> HIDE DEF to, post, f, g
<1>7. Sum(g) = IF to = "APPROVED" THEN Sum(f) + 1 ELSE Sum(f)
  <2>1. CASE to = "APPROVED"
    <3>1. PICK l \in Places : post = <<"income", p, l>>
      BY <1>6, <2>1
    <3>2. /\ g[l] = f[l] + 1
          /\ \A m \in Places : m # l => g[m] = f[m] + 0
      <4>1. Posts(s, "income", p, l) = 1
        BY <3>1 DEF Posts, post
      <4>2. \A m \in Places : m # l => Posts(s, "income", p, m) = 0
        BY <3>1 DEF Posts, post
      <4> QED  BY <1>3, <4>1, <4>2
    <3>3. \A m \in Places : f[m] \in Nat
      BY <1>1
    <3>4. \A m \in Places : m # l => g[m] = f[m]
      BY <3>2, <3>3
    <3>5. Sum(f) \in Nat /\ Sum(g) = Sum(f) - f[l] + g[l]
      BY <1>1, <1>2, <1>4, <3>4, SumChange
    <3>6. Sum(g) = Sum(f) + 1
      BY <3>2, <3>3, <3>5
    <3> QED  BY <2>1, <3>6
  <2>2. CASE to # "APPROVED"
    <3>1. \A l \in Places : Posts(s, "income", p, l) = 0
      BY <1>6, <2>2 DEF Posts, post
    <3>2. \A l \in Places : g[l] = f[l]
      BY <1>1, <1>3, <3>1
    <3>3. g = f
      BY <1>1, <1>4, <3>2
    <3> QED  BY <2>2, <3>3
  <2> QED  BY <2>1, <2>2
<1>8. reversals'[p].payment = IF to = "REVERSED" THEN reversals[p].payment + 1 ELSE reversals[p].payment
  <2>1. Reverses(s, "payment", p) = IF to = "REVERSED" THEN 1 ELSE 0
    BY <1>6 DEF Reverses, post
  <2>2. reversals[p].payment + 0 = reversals[p].payment
    BY <1>1
  <2> QED  BY <1>3, <2>1, <2>2
<1>9. /\ to = "PENDING" => status[p] = "none"
      /\ to = "APPROVED" => status[p] \in {"none", "PENDING"}
      /\ to = "REJECTED" => status[p] = "PENDING"
      /\ to = "REVERSED" => status[p] = "APPROVED"
      /\ to \in {"-", "PENDING", "APPROVED", "REJECTED", "REVERSED"}
  BY <1>1, <1>5 DEF DraftPayment, PaymentStatuses, to
<1>10. /\ Sum(f) = IF status[p] \in {"APPROVED", "REVERSED"} THEN 1 ELSE 0
       /\ reversals[p].payment = IF status[p] = "REVERSED" THEN 1 ELSE 0
  BY DEF IncomeOf, f
<1>11. /\ Sum(g) = IF status'[p] \in {"APPROVED", "REVERSED"} THEN 1 ELSE 0
       /\ reversals'[p].payment = IF status'[p] = "REVERSED" THEN 1 ELSE 0
  <2>1. CASE to = "-" \/ to \in {"PENDING", "REJECTED"}
    BY <1>5, <1>7, <1>8, <1>9, <1>10, <2>1
  <2>2. CASE to = "APPROVED"
    BY <1>5, <1>7, <1>8, <1>9, <1>10, <2>2
  <2>3. CASE to = "REVERSED"
    BY <1>5, <1>7, <1>8, <1>9, <1>10, <2>3
  <2> QED  BY <1>9, <2>1, <2>2, <2>3
<1> QED  BY <1>11 DEF IncomeOf, g

\* Officers who decide on the same payment at the same time do not both
\* succeed: a payment has one income row if it was approved and one reversal
\* row if it was taken back, and none otherwise.
THEOREM OneIncome == Spec => []OneIncomePerPayment
<1>1. Init => OneIncomePerPayment
  <2> SUFFICES ASSUME Init, NEW p \in PaymentIds
               PROVE  IncomeOf(p)
    BY DEF OneIncomePerPayment, IncomeOf
  <2>1. status[p] \in {"none", "PENDING", "APPROVED"}
    BY DEF Init
  <2>2. Sum(income[p]) = IF status[p] = "APPROVED" THEN 1 ELSE 0
    BY DEF Init
  <2>3. reversals[p].payment = 0
    BY DEF Init, NotReversed
  <2> QED  BY <2>1, <2>2, <2>3 DEF IncomeOf
<1>2. Inv /\ OneIncomePerPayment /\ [Next]_vars => OneIncomePerPayment'
  <2> SUFFICES ASSUME Inv, OneIncomePerPayment, [Next]_vars, NEW p \in PaymentIds
               PROVE  IncomeOf(p)'
    BY DEF OneIncomePerPayment, IncomeOf
  <2>1. IncomeOf(p)
    BY DEF OneIncomePerPayment, IncomeOf
  <2>2. CASE \E s \in Sessions : Commit(s)
    BY <2>1, <2>2, CommitIncome
  <2>3. CASE UNCHANGED tables
    <3>1. status' = status /\ income' = income /\ reversals' = reversals
      BY <2>3 DEF tables
    <3> QED  BY <2>1, <3>1 DEF IncomeOf
  <2> QED  BY <2>2, <2>3, OnlyCommits
<1> QED  BY <1>1, <1>2, Invariant, PTL DEF Spec
=============================================================================
