---------------------------- MODULE FundSessions ----------------------------
(***************************************************************************)
(* The fund locations of an RT (internal/fund_location) as PostgreSQL runs *)
(* their handlers, together with the KAS handlers of internal/finance that *)
(* move money in and out of a location: several sessions at READ           *)
(* COMMITTED, each in one transaction.                                     *)
(*                                                                         *)
(* A request <<handler, row>> reads what it reads without a lock, takes    *)
(* its early locks, decides under them, takes the locks its inserts need   *)
(* (foreign keys, unique indexes, the KAS number), and commits.  All that  *)
(* tells the handlers apart is what they lock, what they check and what    *)
(* they move.                                                              *)
(***************************************************************************)
EXTENDS Integers, Sequences, FiniteSets

CONSTANTS
    Sessions,         \* database sessions (one per HTTP request in flight)
    Locations,        \* rows of fund_locations that can exist
    Rank,             \* Rank[l]: place of l in the order of the ids
    NoLocation,       \* location_id NULL
    Share,            \* Share[l]: what a request allocates to l as its opening balance
    Transfers,        \* rows of fund_transfers that can exist, with their columns:
    From, To, Sum,
    Entries,          \* rows of transactions that can exist, with their columns:
    Type,             \* "income", "expense", or "payment": the income of an approval
    Place, Amount,
    Opening,          \* Opening[l]: balance of a location before the first request
    Kas,              \* closing balance of the KAS before the first request
    Requests,         \* requests that may arrive
    MaxRequests       \* bound: how many requests arrive

Handlers == {"create", "update", "deactivate", "allocate"} \X Locations
            \cup {"transfer", "return"} \X Transfers
            \cup {"post", "undo"} \X Entries

ASSUME Columns ==
    /\ Rank \in [Locations -> Nat]
    /\ \A l, m \in Locations : Rank[l] = Rank[m] => l = m
    /\ NoLocation \notin Locations
    /\ Share \in [Locations -> Nat \ {0}]
    /\ From \in [Transfers -> Locations] /\ To \in [Transfers -> Locations]
    /\ \A t \in Transfers : From[t] # To[t]
    /\ Sum \in [Transfers -> Nat \ {0}]
    /\ Type \in [Entries -> {"income", "expense", "payment"}]
    /\ Place \in [Entries -> Locations \cup {NoLocation}]
    /\ Amount \in [Entries -> Nat \ {0}]
    /\ Opening \in [Locations -> Nat] /\ Kas \in Int
    /\ Requests \subseteq Handlers /\ MaxRequests \in Nat

ASSUME FiniteTable == IsFiniteSet(Locations)

VARIABLES
    state,     \* committed rows of fund_locations: absent, active or inactive
    balance,   \* committed SUM(amount_delta) of each location
    kas,       \* committed closing balance of the KAS
    made,      \* the transfers made
    returned,  \* returned[t]: committed rows with reverses_transfer_id = t
    posted,    \* the entries posted
    undone,    \* undone[e]: committed rows that reverse e
    session,   \* request of each session, how far it is, and the locks it has
    requests,  \* requests that arrived so far
    stretched  \* history: the KAS was short at first, money left it without a
               \* location, or an allocation was decided on totals that had changed

tables == <<state, balance, kas, made, returned, posted, undone>>
vars == <<tables, session, requests, stretched>>

States == {"absent", "active", "inactive"}

\* What a handler locks, and how: a row, a number, or a key of a unique index.
Modes == {"update", "no key update", "key share"}
Rt == <<"rts", "rt">>
KasRef == <<"advisory", "kas_ref">>
Row(l) == <<"location", l>>
Name(l) == <<"name", l>>
ReversalOf(t) == <<"reverses", t>>

\* No two of these modes go together, but a key share is stopped by FOR UPDATE only.
Conflict(mode, other) == "update" \in {mode, other} \/ "key share" \notin {mode, other}
-----------------------------------------------------------------------------
(* What the handlers move, lock and check. *)

Handler(r) == r[1]
Of(r) == r[2]

IsTransfer(r) == Handler(r) \in {"transfer", "return"}
IsIncome(e) == Type[e] \in {"income", "payment"}

\* The location a request takes money from, and the one it brings money to.
Source(r) ==
    CASE Handler(r) = "transfer" -> From[Of(r)]
      [] Handler(r) = "return"   -> To[Of(r)]
      [] Handler(r) = "post" /\ ~IsIncome(Of(r)) -> Place[Of(r)]
      [] Handler(r) = "undo" /\ IsIncome(Of(r))  -> Place[Of(r)]
      [] OTHER -> NoLocation

Target(r) ==
    CASE Handler(r) = "transfer" -> To[Of(r)]
      [] Handler(r) = "return"   -> From[Of(r)]
      [] Handler(r) = "allocate" -> Of(r)
      [] Handler(r) = "post" /\ IsIncome(Of(r))  -> Place[Of(r)]
      [] Handler(r) = "undo" /\ ~IsIncome(Of(r)) -> Place[Of(r)]
      [] OTHER -> NoLocation

Worth(r) == CASE IsTransfer(r) -> Sum[Of(r)]
              [] Handler(r) = "allocate" -> Share[Of(r)]
              [] Handler(r) \in {"post", "undo"} -> Amount[Of(r)]
              [] OTHER -> 0

\* What it adds to the closing balance of the KAS.
ToKas(r) == IF Handler(r) \notin {"post", "undo"} THEN 0
            ELSE IF (Handler(r) = "post") = IsIncome(Of(r)) THEN Worth(r) ELSE -Worth(r)

\* Faulty: locks the sender first.
SenderFirst(l, m) == <<l, m>>

\* ORDER BY id
Ordered(l, m) == IF Rank[l] < Rank[m] THEN <<l, m>> ELSE <<m, l>>

ForUpdate(l) == <<Row(l), "update">>

\* Faulty: the balance is read without a lock.
BalanceUnlocked(l) == <<>>

\* The lock under which an expense or a reversal reads the balance.
BalanceLock(l) == <<ForUpdate(l)>>

\* The locks taken before the handler decides.  An approval has locked its
\* bill, and with it the RT.
Early(r) ==
    CASE IsTransfer(r) -> LET q == Ordered(From[Of(r)], To[Of(r)])
                          IN <<ForUpdate(q[1]), ForUpdate(q[2])>>
      [] Handler(r) = "allocate" -> <<ForUpdate(Of(r))>>
      [] Handler(r) \in {"update", "deactivate"} -> <<<<Row(Of(r)), "no key update">>>>
      [] Handler(r) \in {"post", "undo"} /\ Source(r) # NoLocation -> BalanceLock(Source(r))
      [] Handler(r) = "post" /\ Type[Of(r)] = "payment" -> <<<<Rt, "update">>>>
      [] OTHER -> <<>>

\* The locks the inserts take: unique indexes, the KAS number, foreign keys.
Late(r) ==
    CASE Handler(r) = "create" -> <<<<Name(Of(r)), "update">>, <<Rt, "key share">>>>
      [] Handler(r) = "return" -> <<<<ReversalOf(Of(r)), "update">>, <<Rt, "key share">>>>
      [] Handler(r) \in {"post", "undo"} ->
            (IF Handler(r) = "post" /\ Type[Of(r)] = "payment" THEN <<>>
             ELSE <<<<KasRef, "update">>>>)
            \o <<<<Rt, "key share">>>>
            \o (IF Place[Of(r)] = NoLocation THEN <<>> ELSE <<<<Row(Place[Of(r)]), "key share">>>>)
      [] OTHER -> <<<<Rt, "key share">>>>

Asks(r) == Early(r) \o Late(r)

\* Faulty: nothing but the count read before the locks prevents a second reversal.
NameTaken(row) == \E l \in Locations : row = Name(l) /\ state[l] # "absent"

\* A key that is in the index already: the INSERT fails.
Taken(row) == \/ \E l \in Locations : row = Name(l) /\ state[l] # "absent"
              \/ \E t \in Transfers : row = ReversalOf(t) /\ returned[t] > 0

Active(l) == l # NoLocation => state[l] = "active"

\* What a handler reads before it locks anything, and goes on from.
Sees(r) ==
    CASE Handler(r) = "update" -> state[Of(r)] # "absent"
      [] Handler(r) = "deactivate" -> state[Of(r)] # "absent" /\ balance[Of(r)] <= 0
      [] Handler(r) = "return" -> Of(r) \in made /\ returned[Of(r)] = 0
      [] Handler(r) = "post" -> Active(Place[Of(r)])
      [] Handler(r) = "undo" -> Of(r) \in posted /\ undone[Of(r)] = 0
      [] OTHER -> TRUE

\* Faulty: a transfer does not look whether its locations are active.
AnyEnds(r) == TRUE

ActiveEnds(r) ==
    Handler(r) = "transfer" => state[From[Of(r)]] = "active" /\ state[To[Of(r)]] = "active"

\* L: what all locations hold, counted unit by unit (no balance is negative).
InLocations == Cardinality(UNION {{l} \X (1 .. balance[l]) : l \in Locations})

\* K - L: the part of the KAS that is in no location.
Unallocated(cash) == cash - InLocations

\* Faulty: compares an allocation with the whole KAS.
CoveredByAll(r, cash) ==
    Handler(r) = "allocate" => state[Of(r)] # "absent" /\ cash >= Worth(r)

Covered(r, cash) ==
    Handler(r) = "allocate" => state[Of(r)] # "absent" /\ Unallocated(cash) >= Worth(r)

\* What it decides under its early locks; cash is the K it has read.
Allows(r, cash) == /\ Source(r) # NoLocation => balance[Source(r)] >= Worth(r)
                   /\ ActiveEnds(r) /\ Covered(r, cash)
-----------------------------------------------------------------------------
NoRequest == <<"none", NoLocation>>
Idle == [req |-> NoRequest, at |-> "idle", got |-> 0, cash |-> 0]

Busy(s) == session[s].at # "idle"
Req(s) == session[s].req

\* The locks a session has: the first it asked for.
Held(s) == {Asks(Req(s))[i] : i \in 1 .. session[s].got}

\* A location that does not exist has no money and no rows that name it.
Init ==
    /\ state \in [Locations -> States]
    /\ balance = [l \in Locations |-> IF state[l] = "active" THEN Opening[l] ELSE 0]
    /\ kas = Kas
    /\ made \in SUBSET {t \in Transfers : "absent" \notin {state[From[t]], state[To[t]]}}
    /\ returned = [t \in Transfers |-> 0]
    /\ posted \in SUBSET {e \in Entries : Place[e] = NoLocation \/ state[Place[e]] # "absent"}
    /\ undone = [e \in Entries |-> 0]
    /\ session = [s \in Sessions |-> Idle]
    /\ requests = 0
    /\ stretched = (Unallocated(kas) < 0)

\* The id of an inserted row is new: nothing else inserts it.
New(r) == \/ Handler(r) \notin {"transfer", "post"}
          \/ /\ Of(r) \notin made \cup posted
             /\ \A s \in Sessions : Req(s) # r

Arrive(s) ==
    /\ ~Busy(s) /\ requests < MaxRequests
    /\ \E r \in Requests :
          /\ New(r)
          /\ session' = [session EXCEPT ![s] = [Idle EXCEPT !.req = r, !.at = "read"]]
    /\ requests' = requests + 1
    /\ UNCHANGED <<tables, stretched>>

Become(s, next) ==
    /\ session' = [session EXCEPT ![s] = next]
    /\ UNCHANGED <<tables, requests, stretched>>

\* Faulty: the handler returns without a ROLLBACK and its locks stay.
LeftOpen(s) == Become(s, [Idle EXCEPT !.got = session[s].got])

\* The handler returns an error: ROLLBACK.
Rollback(s) == Become(s, Idle)

\* The statements before the first lock.
Read(s) ==
    /\ session[s].at = "read"
    /\ \/ Sees(Req(s)) /\ Become(s, [session[s] EXCEPT !.at = "lock"])
       \/ ~Sees(Req(s)) /\ Rollback(s)

\* How many locks a session takes before its next decision.
Goal(s) == IF session[s].at = "write" THEN Len(Asks(Req(s))) ELSE Len(Early(Req(s)))

Waiting(s) == session[s].at \in {"lock", "write"} /\ session[s].got < Goal(s)
Wanted(s) == Asks(Req(s))[session[s].got + 1]

\* The sessions that hold a lock that conflicts with what s asks for.
Blockers(s) ==
    {o \in Sessions \ {s} : /\ Waiting(s)
                            /\ \E have \in Held(o) : /\ have[1] = Wanted(s)[1]
                                                     /\ Conflict(have[2], Wanted(s)[2])}

Lock(s) ==
    /\ Waiting(s) /\ Blockers(s) = {}
    /\ \/ Taken(Wanted(s)[1]) /\ Rollback(s)
       \/ ~Taken(Wanted(s)[1]) /\ Become(s, [session[s] EXCEPT !.got = @ + 1])

\* CalculatePeriodBalance: an allocation reads K, and L with its next statement.
ReadKas(s) ==
    /\ session[s].at = "lock" /\ ~Waiting(s) /\ Handler(Req(s)) = "allocate"
    /\ Become(s, [session[s] EXCEPT !.at = "sum", !.cash = kas])

Decide(s) ==
    /\ ~Waiting(s)
    /\ session[s].at = IF Handler(Req(s)) = "allocate" THEN "sum" ELSE "lock"
    /\ \/ Allows(Req(s), session[s].cash) /\ Become(s, [session[s] EXCEPT !.at = "write"])
       \/ ~Allows(Req(s), session[s].cash) /\ Rollback(s)

\* Another session has read K, or decided, and what r changes would have
\* changed its decision.
Overtakes(r, s) ==
    \E o \in Sessions \ {s} :
       /\ Handler(Req(o)) = "allocate"
       /\ \/ session[o].at = "sum" /\ ToKas(r) < 0
          \/ session[o].at = "write" /\ Handler(r) = "allocate"

Commit(s) ==
    LET r == Req(s) IN
    /\ session[s].at = "write" /\ ~Waiting(s)
    /\ state' = [l \in Locations |->
                   IF r = <<"create", l>> THEN "active"
                   ELSE IF r = <<"deactivate", l>> THEN "inactive" ELSE state[l]]
    /\ balance' = [l \in Locations |-> balance[l]
                     - (IF l = Source(r) THEN Worth(r) ELSE 0)
                     + (IF l = Target(r) THEN Worth(r) ELSE 0)]
    /\ kas' = kas + ToKas(r)
    /\ made' = made \cup {t \in Transfers : r = <<"transfer", t>>}
    /\ returned' = [t \in Transfers |-> returned[t] + (IF r = <<"return", t>> THEN 1 ELSE 0)]
    /\ posted' = posted \cup {e \in Entries : r = <<"post", e>>}
    /\ undone' = [e \in Entries |-> undone[e] + (IF r = <<"undo", e>> THEN 1 ELSE 0)]
    /\ session' = [session EXCEPT ![s] = Idle]
    /\ stretched' = (stretched \/ (ToKas(r) < 0 /\ Source(r) = NoLocation) \/ Overtakes(r, s))
    /\ UNCHANGED requests

\* A set of sessions each of which waits for another of them.
Deadlocked(S) == S # {} /\ \A s \in S : Blockers(s) \cap S # {}

\* PostgreSQL cancels one of them; the handler reports the error and rolls back.
BreakDeadlock(s) == /\ \E S \in SUBSET Sessions : s \in S /\ Deadlocked(S)
                    /\ Rollback(s)

\* The client gives up, its connection or the server fails.
Abort(s) == Busy(s) /\ Rollback(s)

Next == \E s \in Sessions : \/ Arrive(s) \/ Read(s) \/ Lock(s) \/ ReadKas(s) \/ Decide(s)
                            \/ Commit(s) \/ BreakDeadlock(s) \/ Abort(s)

Spec == Init /\ [][Next]_vars
-----------------------------------------------------------------------------
(* Properties. *)

\* Rows and sessions are well formed; nobody has more locks than it asked for,
\* and who writes has all its early ones.
TypeOK ==
    /\ state \in [Locations -> States] /\ balance \in [Locations -> Int] /\ kas \in Int
    /\ made \subseteq Transfers /\ posted \subseteq Entries
    /\ returned \in [Transfers -> Nat] /\ undone \in [Entries -> Nat]
    /\ session \in [Sessions -> [req : Requests \cup {NoRequest},
                                 at : {"idle", "read", "lock", "sum", "write"},
                                 got : Nat, cash : Int]]
    /\ \A s \in Sessions :
          /\ ~Busy(s) <=> Req(s) = NoRequest
          /\ session[s].at \in {"idle", "read"} => session[s].got = 0
          /\ session[s].at = "lock" => session[s].got <= Len(Early(Req(s)))
          /\ session[s].at = "sum" => session[s].got = Len(Early(Req(s)))
          /\ session[s].at = "write" => session[s].got \in Len(Early(Req(s))) .. Len(Asks(Req(s)))
    /\ requests \in 0 .. MaxRequests /\ stretched \in BOOLEAN

\* Transfers, their reversals, expenses and reversals of income read a balance
\* and take money later; whatever commits in between, no location pays out
\* more than it has.
NoOverdraft == \A l \in Locations : balance[l] >= 0

\* ReverseTransfer counts reversals before it locks anything; two treasurers
\* who reverse the same transfer at once still return it once.
TransferReturnedOnce == \A t \in Transfers : returned[t] <= 1

\* A transfer takes effect only between two locations that are active then,
\* although a deactivation may be under way.
TransfersBetweenActive ==
    [][\A t \in made' \ made : {state'[From[t]], state'[To[t]]} = {"active"}]_vars

\* "circular wait condition mustahil terjadi": transfers and their reversals,
\* in whatever direction, never wait for each other in a circle.
TransfersDoNotDeadlock ==
    \A S \in SUBSET Sessions : Deadlocked(S) => \E s \in S : ~IsTransfer(Req(s))

\* The locations never hold more than the KAS.  Two things break it, and the
\* code prevents neither: money that leaves the KAS without a location, and
\* two allocations, or an allocation and an expense, that overlap, since an
\* allocation locks its own location only.
AllocationsCovered == ~stretched => Unallocated(kas) >= 0
=============================================================================
