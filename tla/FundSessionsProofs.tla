------------------------- MODULE FundSessionsProofs -------------------------
(***************************************************************************)
(* For any number of sessions, locations, transfers and entries, whatever  *)
(* the order of their statements: no location is overdrawn, no transfer is *)
(* returned twice, a transfer joins two active locations, and the KAS      *)
(* covers what is allocated.                                               *)
(*                                                                         *)
(* The invariant says what a decision is worth until its session commits:  *)
(* what it read is still true because the rows it read are locked, and two *)
(* sessions never hold conflicting locks.  A second invariant, Funded, does *)
(* without locks: it says what an allocation under way has read of the KAS *)
(* and what it may still count on.                                         *)
(***************************************************************************)
EXTENDS FundSessions, FiniteSetTheorems, TLAPS

Lockable == {Rt, KasRef} \cup {Row(l) : l \in Locations} \cup {Name(l) : l \in Locations}
            \cup {ReversalOf(t) : t \in Transfers}
Locks == Lockable \X Modes

\* What a row of session may be.
SessionRow(q) ==
    /\ q \in [req : Requests \cup {NoRequest}, at : {"idle", "read", "lock", "sum", "write"},
              got : Nat, cash : Int]
    /\ q.at = "idle" <=> q.req = NoRequest
    /\ q.at \in {"idle", "read"} => q.got = 0
    /\ q.at = "lock" => q.got <= Len(Early(q.req))
    /\ q.at = "sum" => q.got = Len(Early(q.req))
    /\ q.at = "write" => q.got \in Len(Early(q.req)) .. Len(Asks(q.req))

LockedBy(q) == {Asks(q.req)[i] : i \in 1 .. q.got}

\* No two sessions hold conflicting locks.
Compatible ==
    \A s, o \in Sessions : s # o =>
        \A a \in Held(s), b \in Held(o) : a[1] = b[1] => ~Conflict(a[2], b[2])

\* Who is going to write can still pay, and a transfer still has active ends.
Decided(q) == q.at = "write" => /\ Source(q.req) # NoLocation => balance[Source(q.req)] >= Worth(q.req)
                                /\ ActiveEnds(q.req)
StillAllowed == \A s \in Sessions : Decided(session[s])

\* Who has the key of a reversal is the first to insert it.
FirstReversal ==
    \A s \in Sessions : \A t \in Transfers :
        <<ReversalOf(t), "update">> \in Held(s) => returned[t] = 0

Inv == TypeOK /\ Compatible /\ StillAllowed /\ FirstReversal /\ NoOverdraft /\ TransferReturnedOnce
-----------------------------------------------------------------------------
(* What a request locks. *)

\* A request names a handler and a row of its table.
LEMMA RequestKinds ==
    ASSUME NEW r \in Requests \cup {NoRequest}
    PROVE  \/ r = NoRequest
           \/ Handler(r) \in {"create", "update", "deactivate", "allocate"} /\ Of(r) \in Locations
           \/ Handler(r) \in {"transfer", "return"} /\ Of(r) \in Transfers
           \/ Handler(r) \in {"post", "undo"} /\ Of(r) \in Entries
<1> QED  BY Columns DEF Handlers, Handler, Of

\* No request is the empty one.
LEMMA NoRequestIsNone == NoRequest \notin Requests
<1> QED  BY Columns DEF Handlers, NoRequest

\* Money comes from a location, in an amount that is not negative.
LEMMA SourceType ==
    ASSUME NEW r \in Requests \cup {NoRequest}
    PROVE  /\ Source(r) \in Locations \cup {NoLocation}
           /\ Worth(r) \in Nat
<1>1. CASE r = NoRequest
  BY <1>1 DEF NoRequest, Source, Worth, Handler, Of, IsTransfer
<1>2. CASE Handler(r) \in {"create", "update", "deactivate", "allocate"} /\ Of(r) \in Locations
  BY <1>2, Columns DEF Source, Worth, IsTransfer
<1>3. CASE Handler(r) \in {"transfer", "return"} /\ Of(r) \in Transfers
  BY <1>3, Columns DEF Source, Worth, IsTransfer
<1>4. CASE Handler(r) \in {"post", "undo"} /\ Of(r) \in Entries
  BY <1>4, Columns DEF Source, Worth, IsTransfer
<1> QED  BY <1>1, <1>2, <1>3, <1>4, RequestKinds

\* Sequences of one and of two elements, and of none.
LEMMA Singles ==
    ASSUME NEW S, NEW a \in S
    PROVE  <<a>> \in Seq(S) /\ Len(<<a>>) = 1 /\ <<a>>[1] = a
<1> QED  OBVIOUS

LEMMA Pairs ==
    ASSUME NEW S, NEW a \in S, NEW b \in S
    PROVE  <<a, b>> \in Seq(S) /\ Len(<<a, b>>) = 2 /\ <<a, b>>[1] = a /\ <<a, b>>[2] = b
<1> QED  OBVIOUS

LEMMA Empty ==
    ASSUME NEW S
    PROVE  << >> \in Seq(S) /\ Len(<< >>) = 0
<1> QED  OBVIOUS

\* Rows of locations can be locked in every mode.
LEMMA RowLocks ==
    ASSUME NEW l \in Locations, NEW m \in Modes
    PROVE  <<Row(l), m>> \in Locks
<1> QED  BY DEF Locks, Lockable

\* An expense and a reversal of income lock the location they take from.
LEMMA SpenderLocks ==
    ASSUME NEW r \in Requests \cup {NoRequest}, Handler(r) \in {"post", "undo"},
           Source(r) # NoLocation
    PROVE  Early(r) = <<ForUpdate(Source(r))>>
<1>1. ~(Handler(r) = "post" /\ Type[Of(r)] = "payment")
  BY DEF Source, IsIncome
<1> QED  BY <1>1 DEF Early, IsTransfer, BalanceLock

\* A transfer and its reversal lock both locations.
LEMMA TransferLocks ==
    ASSUME NEW r \in Requests \cup {NoRequest}, Handler(r) \in {"transfer", "return"}
    PROVE  \/ Early(r) = <<ForUpdate(From[Of(r)]), ForUpdate(To[Of(r)])>>
           \/ Early(r) = <<ForUpdate(To[Of(r)]), ForUpdate(From[Of(r)])>>
<1> QED  BY DEF Early, IsTransfer, Ordered

\* Early locks are locks.
LEMMA EarlyType ==
    ASSUME NEW r \in Requests \cup {NoRequest}
    PROVE  Early(r) \in Seq(Locks)
<1> DEFINE H == Handler(r)
<1>1. CASE r = NoRequest
  BY <1>1 DEF NoRequest, Early, Handler, Of, IsTransfer
<1>2. CASE H \in {"create", "update", "deactivate", "allocate"} /\ Of(r) \in Locations
  <2>1. <<Row(Of(r)), "update">> \in Locks /\ <<Row(Of(r)), "no key update">> \in Locks
    BY <1>2, RowLocks DEF Modes
  <2>2. /\ H = "allocate" => Early(r) = <<<<Row(Of(r)), "update">>>>
        /\ H \in {"update", "deactivate"} => Early(r) = <<<<Row(Of(r)), "no key update">>>>
        /\ H = "create" => Early(r) = << >>
    BY <1>2 DEF Early, IsTransfer, ForUpdate
  <2> QED  BY <1>2, <2>1, <2>2, Singles, Empty
<1>3. CASE H \in {"transfer", "return"} /\ Of(r) \in Transfers
  <2>1. From[Of(r)] \in Locations /\ To[Of(r)] \in Locations
    BY <1>3, Columns
  <2>2. ForUpdate(From[Of(r)]) \in Locks /\ ForUpdate(To[Of(r)]) \in Locks
    BY <2>1, RowLocks DEF ForUpdate, Modes
  <2>3. \/ Early(r) = <<ForUpdate(From[Of(r)]), ForUpdate(To[Of(r)])>>
        \/ Early(r) = <<ForUpdate(To[Of(r)]), ForUpdate(From[Of(r)])>>
    BY <1>3, TransferLocks
  <2> DEFINE a == ForUpdate(From[Of(r)])
             b == ForUpdate(To[Of(r)])
  <2> HIDE DEF a, b
  <2>4. <<a, b>> \in Seq(Locks) /\ <<b, a>> \in Seq(Locks)
    BY <2>2, Pairs DEF a, b
  <2> QED  BY <2>3, <2>4 DEF a, b
<1>4. CASE H \in {"post", "undo"} /\ Of(r) \in Entries
  <2>1. CASE Source(r) # NoLocation
    <3>1. ForUpdate(Source(r)) \in Locks
      BY <2>1, SourceType, RowLocks DEF ForUpdate, Modes
    <3>2. Early(r) = <<ForUpdate(Source(r))>>
      BY <1>4, <2>1, SpenderLocks
    <3> QED  BY <3>1, <3>2, Singles, Empty
  <2>2. CASE Source(r) = NoLocation
    <3>1. Early(r) = << >> \/ Early(r) = <<<<Rt, "update">>>>
      BY <1>4, <2>2 DEF Early, IsTransfer
    <3>2. <<Rt, "update">> \in Locks
      BY DEF Locks, Lockable, Modes
    <3> QED  BY <3>1, <3>2, Singles, Empty
  <2> QED  BY <2>1, <2>2
<1> QED  BY <1>1, <1>2, <1>3, <1>4, RequestKinds

\* Late locks are locks.
LEMMA LateType ==
    ASSUME NEW r \in Requests \cup {NoRequest}
    PROVE  Late(r) \in Seq(Locks)
<1> DEFINE H == Handler(r)
           Rts == <<Rt, "key share">>
<1>0. Rts \in Locks /\ <<KasRef, "update">> \in Locks
  BY DEF Locks, Lockable, Modes
<1>1. CASE H \notin {"create", "return", "post", "undo"}
  <2>1. Late(r) = <<Rts>>
    BY <1>1 DEF Late
  <2> QED  BY <2>1, <1>0, Singles
<1>2. CASE H = "create" /\ Of(r) \in Locations
  <2>1. <<Name(Of(r)), "update">> \in Locks
    BY <1>2 DEF Locks, Lockable, Modes
  <2> DEFINE key == <<Name(Of(r)), "update">>
  <2>2. Late(r) = <<key, Rts>>
    BY <1>2 DEF Late
  <2> HIDE DEF key, Rts
  <2>3. <<key, Rts>> \in Seq(Locks)
    BY <2>1, <1>0, Pairs DEF key
  <2> QED  BY <2>2, <2>3
<1>3. CASE H = "return" /\ Of(r) \in Transfers
  <2>1. <<ReversalOf(Of(r)), "update">> \in Locks
    BY <1>3 DEF Locks, Lockable, Modes
  <2> DEFINE key == <<ReversalOf(Of(r)), "update">>
  <2>2. Late(r) = <<key, Rts>>
    BY <1>3 DEF Late
  <2> HIDE DEF key, Rts
  <2>3. <<key, Rts>> \in Seq(Locks)
    BY <2>1, <1>0, Pairs DEF key
  <2> QED  BY <2>2, <2>3
<1>4. CASE H \in {"post", "undo"} /\ Of(r) \in Entries
  <2> DEFINE A == IF H = "post" /\ Type[Of(r)] = "payment" THEN <<>>
                  ELSE <<<<KasRef, "update">>>>
             B == <<Rts>>
             C == IF Place[Of(r)] = NoLocation THEN <<>>
                  ELSE <<<<Row(Place[Of(r)]), "key share">>>>
  <2>1. Late(r) = A \o B \o C
    BY <1>4 DEF Late
  <2>2. A \in Seq(Locks) /\ B \in Seq(Locks)
    BY <1>0, Singles, Empty
  <2>3. Place[Of(r)] # NoLocation => <<Row(Place[Of(r)]), "key share">> \in Locks
    BY <1>4, Columns, RowLocks DEF Modes
  <2>4. C \in Seq(Locks)
    BY <2>3, Singles, Empty
  <2> HIDE DEF A, B, C
  <2> QED  BY <2>1, <2>2, <2>4
<1> QED  BY <1>1, <1>2, <1>3, <1>4, RequestKinds DEF NoRequest, Handler

\* A request asks for its early locks first, then for its late ones.
LEMMA AsksType ==
    ASSUME NEW r \in Requests \cup {NoRequest}
    PROVE  /\ Asks(r) \in Seq(Locks)
           /\ Len(Early(r)) \in Nat /\ Len(Late(r)) \in Nat
           /\ Len(Asks(r)) = Len(Early(r)) + Len(Late(r))
           /\ \A i \in 1 .. Len(Early(r)) : Asks(r)[i] = Early(r)[i]
           /\ \A i \in 1 .. Len(Late(r)) : Asks(r)[Len(Early(r)) + i] = Late(r)[i]
<1>1. Early(r) \in Seq(Locks) /\ Late(r) \in Seq(Locks)
  BY EarlyType, LateType
<1> QED  BY <1>1 DEF Asks

\* Whoever has the early locks of a request has the row of its source.
LEMMA SourceLocked ==
    ASSUME NEW r \in Requests \cup {NoRequest}, Source(r) # NoLocation
    PROVE  \E i \in 1 .. Len(Early(r)) : Early(r)[i] = <<Row(Source(r)), "update">>
<1>1. CASE Handler(r) \in {"transfer", "return"} /\ Of(r) \in Transfers
  <2>1. \/ Early(r) = <<ForUpdate(From[Of(r)]), ForUpdate(To[Of(r)])>>
        \/ Early(r) = <<ForUpdate(To[Of(r)]), ForUpdate(From[Of(r)])>>
    BY <1>1, TransferLocks
  <2>2. Source(r) \in {From[Of(r)], To[Of(r)]}
    BY <1>1 DEF Source
  <2>3. Len(Early(r)) = 2 /\ \E i \in {1, 2} : Early(r)[i] = ForUpdate(Source(r))
    BY <2>1, <2>2
  <2> QED  BY <2>3 DEF ForUpdate
<1>2. CASE Handler(r) \in {"post", "undo"} /\ Of(r) \in Entries
  <2>1. Early(r) = <<ForUpdate(Source(r))>>
    BY <1>2, SpenderLocks
  <2> QED  BY <2>1, Singles DEF ForUpdate
<1>3. CASE r = NoRequest
  BY <1>3 DEF Source, NoRequest, Handler
<1>4. CASE Handler(r) \in {"create", "update", "deactivate", "allocate"}
  BY <1>4 DEF Source
<1> QED  BY <1>1, <1>2, <1>3, <1>4, RequestKinds

\* A transfer locks both its locations.
LEMMA EndsLocked ==
    ASSUME NEW r \in Requests \cup {NoRequest}, Handler(r) = "transfer",
           NEW l \in {From[Of(r)], To[Of(r)]}
    PROVE  \E i \in 1 .. Len(Early(r)) : Early(r)[i] = <<Row(l), "update">>
<1>1. \/ Early(r) = <<ForUpdate(From[Of(r)]), ForUpdate(To[Of(r)])>>
      \/ Early(r) = <<ForUpdate(To[Of(r)]), ForUpdate(From[Of(r)])>>
  BY TransferLocks
<1>2. Len(Early(r)) = 2 /\ \E i \in {1, 2} : Early(r)[i] = ForUpdate(l)
  BY <1>1
<1> QED  BY <1>2 DEF ForUpdate

\* A reversal of a transfer takes the key of the unique index, and keeps it.
LEMMA KeyAsked ==
    ASSUME NEW t \in Transfers, <<"return", t>> \in Requests
    PROVE  \E i \in 1 .. Len(Asks(<<"return", t>>)) :
              Asks(<<"return", t>>)[i] = <<ReversalOf(t), "update">>
<1> DEFINE r == <<"return", t>>
           key == <<ReversalOf(t), "update">>
           rts == <<Rt, "key share">>
<1>1. Handler(r) = "return" /\ Of(r) = t /\ r \in Requests \cup {NoRequest}
  BY DEF Handler, Of
<1> HIDE DEF r
<1>2. Late(r) = <<key, rts>>
  BY <1>1 DEF Late
<1> HIDE DEF key, rts
<1>3. Len(Late(r)) = 2 /\ Late(r)[1] = key
  BY <1>2
<1>4. /\ Len(Early(r)) \in Nat /\ Len(Asks(r)) = Len(Early(r)) + 2
      /\ Asks(r)[Len(Early(r)) + 1] = Late(r)[1]
  <2>1. /\ Len(Early(r)) \in Nat /\ Len(Asks(r)) = Len(Early(r)) + Len(Late(r))
        /\ \A i \in 1 .. Len(Late(r)) : Asks(r)[Len(Early(r)) + i] = Late(r)[i]
    BY <1>1, AsksType
  <2> QED  BY <1>3, <2>1
<1>5. Asks(r)[Len(Early(r)) + 1] = key /\ Len(Early(r)) + 1 \in 1 .. Len(Asks(r))
  BY <1>3, <1>4
<1> QED  BY <1>5 DEF r, key

\* A deactivation asks for its row first.
LEMMA DeactivationAsks ==
    ASSUME NEW l \in Locations, <<"deactivate", l>> \in Requests
    PROVE  /\ Len(Early(<<"deactivate", l>>)) = 1
           /\ Early(<<"deactivate", l>>)[1] = <<Row(l), "no key update">>
<1> DEFINE r == <<"deactivate", l>>
           lock == <<Row(l), "no key update">>
<1>1. Handler(r) = "deactivate" /\ Of(r) = l
  BY DEF Handler, Of
<1> HIDE DEF r
<1>2. Early(r) = <<lock>>
  BY <1>1 DEF Early, IsTransfer
<1> HIDE DEF lock
<1>3. Len(Early(r)) = 1 /\ Early(r)[1] = lock
  BY <1>2
<1> QED  BY <1>3 DEF r, lock
-----------------------------------------------------------------------------
(* The invariant. *)

\* TypeOK, row of session by row of session.
LEMMA TypeByRows ==
    TypeOK <=> /\ state \in [Locations -> States] /\ balance \in [Locations -> Int] /\ kas \in Int
               /\ made \subseteq Transfers /\ posted \subseteq Entries
               /\ returned \in [Transfers -> Nat] /\ undone \in [Entries -> Nat]
               /\ session = [s \in Sessions |-> session[s]]
               /\ \A s \in Sessions : SessionRow(session[s])
               /\ requests \in 0 .. MaxRequests /\ stretched \in BOOLEAN
<1> QED  BY DEF TypeOK, SessionRow, Busy, Req

\* A row of session names a request and its first locks.
LEMMA RowFacts ==
    ASSUME NEW q, SessionRow(q)
    PROVE  /\ q.req \in Requests \cup {NoRequest}
           /\ q.got \in Nat /\ q.got <= Len(Asks(q.req))
           /\ q.at = "write" => q.got >= Len(Early(q.req))
           /\ LockedBy(q) \subseteq Locks
<1>1. q.req \in Requests \cup {NoRequest} /\ q.got \in Nat
  BY DEF SessionRow
<1>2. /\ Asks(q.req) \in Seq(Locks) /\ Len(Asks(q.req)) \in Nat
      /\ Len(Early(q.req)) \in Nat /\ Len(Early(q.req)) <= Len(Asks(q.req))
  BY <1>1, AsksType
<1>3. q.got <= Len(Asks(q.req)) /\ (q.at = "write" => q.got >= Len(Early(q.req)))
  BY <1>1, <1>2 DEF SessionRow
<1>4. LockedBy(q) \subseteq Locks
  BY <1>1, <1>2, <1>3 DEF LockedBy
<1> QED  BY <1>1, <1>3, <1>4

\* Who may write has its early locks.
LEMMA WriterLocks ==
    ASSUME NEW q, SessionRow(q), q.at = "write", NEW lock,
           \E i \in 1 .. Len(Early(q.req)) : Early(q.req)[i] = lock
    PROVE  lock \in LockedBy(q)
<1>1. PICK i \in 1 .. Len(Early(q.req)) : Early(q.req)[i] = lock
  OBVIOUS
<1>2. Asks(q.req)[i] = lock
  BY <1>1, RowFacts, AsksType
<1>3. i \in 1 .. q.got
  BY RowFacts, AsksType
<1> QED  BY <1>2, <1>3 DEF LockedBy

\* Who may write holds the row it takes money from,
LEMMA SourceHeld ==
    ASSUME NEW q, SessionRow(q), q.at = "write", Source(q.req) # NoLocation
    PROVE  <<Row(Source(q.req)), "update">> \in LockedBy(q)
<1>1. q.req \in Requests \cup {NoRequest}
  BY RowFacts
<1> DEFINE lock == <<Row(Source(q.req)), "update">>
<1>2. \E i \in 1 .. Len(Early(q.req)) : Early(q.req)[i] = lock
  BY <1>1, SourceLocked
<1> HIDE DEF lock
<1>3. lock \in LockedBy(q)
  BY <1>2, WriterLocks
<1> QED  BY <1>3 DEF lock

\* both ends of its transfer,
LEMMA EndsHeld ==
    ASSUME NEW q, SessionRow(q), q.at = "write", Handler(q.req) = "transfer",
           NEW l \in {From[Of(q.req)], To[Of(q.req)]}
    PROVE  <<Row(l), "update">> \in LockedBy(q)
<1>1. q.req \in Requests \cup {NoRequest}
  BY RowFacts
<1> DEFINE lock == <<Row(l), "update">>
<1>2. \E i \in 1 .. Len(Early(q.req)) : Early(q.req)[i] = lock
  BY <1>1, EndsLocked
<1> HIDE DEF lock
<1>3. lock \in LockedBy(q)
  BY <1>2, WriterLocks
<1> QED  BY <1>3 DEF lock

\* and the row it deactivates.
LEMMA DeactivationHeld ==
    ASSUME NEW q, SessionRow(q), q.at = "write", NEW l \in Locations, q.req = <<"deactivate", l>>
    PROVE  <<Row(l), "no key update">> \in LockedBy(q)
<1>1. <<"deactivate", l>> \in Requests
  BY RowFacts DEF NoRequest
<1> DEFINE lock == <<Row(l), "no key update">>
<1>2. Len(Early(q.req)) = 1 /\ Early(q.req)[1] = lock
  BY <1>1, DeactivationAsks
<1> HIDE DEF lock
<1>3. \E i \in 1 .. Len(Early(q.req)) : Early(q.req)[i] = lock
  BY <1>2
<1>4. lock \in LockedBy(q)
  BY <1>3, WriterLocks
<1> QED  BY <1>4 DEF lock

\* Two conflicting locks of two sessions cannot be.
LEMMA Exclusion ==
    ASSUME Compatible, NEW s \in Sessions, NEW o \in Sessions,
           NEW x, NEW m, NEW n, <<x, m>> \in Held(s), <<x, n>> \in Held(o), Conflict(m, n)
    PROVE  s = o
<1> QED  BY DEF Compatible

\* A step of session s that changes no table and takes no lock: its row
\* becomes q, which has no locks or those s had.
LEMMA QuietStep ==
    ASSUME Inv, NEW s \in Sessions, NEW q,
           session' = [session EXCEPT ![s] = q],
           UNCHANGED tables, requests' \in 0 .. MaxRequests, stretched' \in BOOLEAN,
           SessionRow(q), Decided(q),
           q.got = 0 \/ (q.req = Req(s) /\ q.got = session[s].got)
    PROVE  Inv'
<1> USE DEF tables
<1>1. TypeOK'
  BY DEF Inv, TypeOK, SessionRow, Busy, Req
<1>2. \A o \in Sessions : session'[o] = IF o = s THEN q ELSE session[o]
  BY DEF Inv, TypeOK
<1>3. \A o \in Sessions : Held(o)' \subseteq Held(o)
  <2>1. \A o \in Sessions \ {s} : Held(o)' = Held(o)
    BY <1>2 DEF Held, Req
  <2>2. Held(s)' = LockedBy(q)
    BY <1>2 DEF Held, Req, LockedBy
  <2>3. CASE q.got = 0
    BY <2>1, <2>2, <2>3 DEF LockedBy
  <2>4. CASE q.req = Req(s) /\ q.got = session[s].got
    BY <2>1, <2>2, <2>4 DEF LockedBy, Held
  <2> QED  BY <2>3, <2>4
<1>4. Compatible'
  BY <1>3 DEF Inv, Compatible
<1>5. StillAllowed'
  BY <1>2 DEF Inv, StillAllowed, Decided, ActiveEnds
<1>6. FirstReversal'
  BY <1>3 DEF Inv, FirstReversal
<1>7. NoOverdraft' /\ TransferReturnedOnce'
  BY DEF Inv, NoOverdraft, TransferReturnedOnce
<1> QED  BY <1>1, <1>4, <1>5, <1>6, <1>7 DEF Inv

\* The row of a session after a rollback.
LEMMA IdleRow == SessionRow(Idle) /\ Decided(Idle) /\ Idle.got = 0
<1>1. Idle.req = NoRequest /\ Idle.at = "idle" /\ Idle.got = 0 /\ Idle.cash = 0
  BY DEF Idle
<1>2. Idle \in [req : Requests \cup {NoRequest}, at : {"idle", "read", "lock", "sum", "write"},
                got : Nat, cash : Int]
  BY DEF Idle
<1>3. SessionRow(Idle)
  BY <1>1, <1>2 DEF SessionRow
<1>4. Decided(Idle)
  BY <1>1 DEF Decided
<1> QED  BY <1>1, <1>3, <1>4

\* The row of session s, from the invariant.
LEMMA RowOf ==
    ASSUME Inv, NEW s \in Sessions
    PROVE  /\ SessionRow(session[s]) /\ Decided(session[s])
           /\ Held(s) = LockedBy(session[s]) /\ Req(s) \in Requests \cup {NoRequest}
<1>1. SessionRow(session[s])
  BY TypeByRows DEF Inv
<1> QED  BY <1>1 DEF Inv, StillAllowed, Held, LockedBy, Req, SessionRow

\* A rollback frees the locks and touches nothing else.
LEMMA RollbackKeeps ==
    ASSUME Inv, NEW s \in Sessions, Rollback(s)
    PROVE  Inv'
<1>1. requests \in 0 .. MaxRequests /\ stretched \in BOOLEAN
  BY DEF Inv, TypeOK
<1>2. session' = [session EXCEPT ![s] = Idle] /\ UNCHANGED <<tables, requests, stretched>>
  BY DEF Rollback, Become
<1> QED  BY <1>1, <1>2, IdleRow, QuietStep

\* A step on which session s goes on, with the locks it has.
LEMMA AdvanceKeeps ==
    ASSUME Inv, NEW s \in Sessions, NEW q, Become(s, q), SessionRow(q), Decided(q),
           q.req = Req(s), q.got = session[s].got
    PROVE  Inv'
<1>1. requests \in 0 .. MaxRequests /\ stretched \in BOOLEAN
  BY DEF Inv, TypeOK
<1>2. session' = [session EXCEPT ![s] = q] /\ UNCHANGED <<tables, requests, stretched>>
  BY DEF Become
<1> QED  BY <1>1, <1>2, QuietStep

\* A new request starts without locks.
LEMMA ArriveKeeps ==
    ASSUME Inv, NEW s \in Sessions, Arrive(s)
    PROVE  Inv'
<1>1. PICK r \in Requests : session' = [session EXCEPT ![s] = [Idle EXCEPT !.req = r, !.at = "read"]]
  BY DEF Arrive
<1> DEFINE q == [Idle EXCEPT !.req = r, !.at = "read"]
<1>2. /\ q.req = r /\ q.at = "read" /\ q.got = 0
      /\ q \in [req : Requests \cup {NoRequest}, at : {"idle", "read", "lock", "sum", "write"},
                got : Nat, cash : Int]
  BY IdleRow DEF SessionRow
<1>3. SessionRow(q) /\ Decided(q) /\ q.got = 0
  BY <1>2, NoRequestIsNone DEF SessionRow, Decided
<1>4. /\ UNCHANGED tables /\ stretched' \in BOOLEAN /\ requests' \in 0 .. MaxRequests
  BY Columns DEF Arrive, Inv, TypeOK
<1> QED  BY <1>1, <1>3, <1>4, QuietStep

\* The statements before the first lock.
LEMMA ReadKeeps ==
    ASSUME Inv, NEW s \in Sessions, Read(s)
    PROVE  Inv'
<1> DEFINE q == [session[s] EXCEPT !.at = "lock"]
<1>1. CASE Become(s, q)
  <2>1. SessionRow(session[s]) /\ session[s].at = "read"
    BY RowOf DEF Read
  <2>2. /\ q.req = Req(s) /\ q.got = session[s].got /\ q.at = "lock"
        /\ q \in [req : Requests \cup {NoRequest}, at : {"idle", "read", "lock", "sum", "write"},
                  got : Nat, cash : Int]
    BY <2>1 DEF SessionRow, Req
  <2>3. Len(Early(q.req)) \in Nat
    BY <2>1, <2>2, AsksType DEF SessionRow
  <2>4. SessionRow(q) /\ Decided(q)
    BY <2>1, <2>2, <2>3 DEF SessionRow, Decided, Req
  <2> HIDE DEF q
  <2> QED  BY <1>1, <2>2, <2>4, AdvanceKeeps
<1>2. CASE Rollback(s)
  BY <1>2, RollbackKeeps
<1> QED  BY <1>1, <1>2 DEF Read

\* An allocation reads the closing balance.
LEMMA ReadKasKeeps ==
    ASSUME Inv, NEW s \in Sessions, ReadKas(s)
    PROVE  Inv'
<1> DEFINE q == [session[s] EXCEPT !.at = "sum", !.cash = kas]
<1>1. SessionRow(session[s]) /\ session[s].at = "lock" /\ Become(s, q) /\ ~Waiting(s)
  BY RowOf DEF ReadKas
<1>2. Len(Early(session[s].req)) \in Nat
  BY <1>1, AsksType DEF SessionRow
<1>3. session[s].got = Len(Early(session[s].req))
  BY <1>1, <1>2 DEF SessionRow, Waiting, Goal, Req
<1>4. /\ q.req = Req(s) /\ q.got = session[s].got /\ q.at = "sum"
      /\ q \in [req : Requests \cup {NoRequest}, at : {"idle", "read", "lock", "sum", "write"},
                got : Nat, cash : Int]
  BY <1>1 DEF SessionRow, Req, Inv, TypeOK
<1>5. SessionRow(q) /\ Decided(q)
  BY <1>1, <1>3, <1>4 DEF SessionRow, Decided, Req
<1> HIDE DEF q
<1> QED  BY <1>1, <1>4, <1>5, AdvanceKeeps

\* The decision: what it found is what Decided says.
LEMMA DecideKeeps ==
    ASSUME Inv, NEW s \in Sessions, Decide(s)
    PROVE  Inv'
<1> DEFINE q == [session[s] EXCEPT !.at = "write"]
<1>1. CASE Allows(Req(s), session[s].cash) /\ Become(s, q)
  <2>1. SessionRow(session[s]) /\ session[s].at \in {"lock", "sum"} /\ ~Waiting(s)
    BY RowOf DEF Decide
  <2>2. /\ Len(Early(session[s].req)) \in Nat
        /\ Len(Early(session[s].req)) <= Len(Asks(session[s].req))
        /\ Len(Asks(session[s].req)) \in Nat
    BY <2>1, AsksType DEF SessionRow
  <2>3. session[s].got = Len(Early(session[s].req))
    BY <2>1, <2>2 DEF SessionRow, Waiting, Goal, Req
  <2>4. /\ q.req = Req(s) /\ q.got = session[s].got /\ q.at = "write"
        /\ q \in [req : Requests \cup {NoRequest}, at : {"idle", "read", "lock", "sum", "write"},
                  got : Nat, cash : Int]
    BY <2>1 DEF SessionRow, Req
  <2>5. SessionRow(q)
    BY <2>1, <2>2, <2>3, <2>4 DEF SessionRow, Req
  <2>6. Decided(q)
    BY <1>1, <2>4 DEF Decided, Allows
  <2> HIDE DEF q
  <2> QED  BY <1>1, <2>4, <2>5, <2>6, AdvanceKeeps
<1>2. CASE Rollback(s)
  BY <1>2, RollbackKeeps
<1> QED  BY <1>1, <1>2 DEF Decide

\* A lock is taken when nobody holds a conflicting one; a key of a unique
\* index, when no row has it.
LEMMA LockKeeps ==
    ASSUME Inv, NEW s \in Sessions, Lock(s)
    PROVE  Inv'
<1> DEFINE q == [session[s] EXCEPT !.got = @ + 1]
<1>1. CASE ~Taken(Wanted(s)[1]) /\ Become(s, q)
  <2>1. SessionRow(session[s]) /\ Waiting(s) /\ Blockers(s) = {}
    BY RowOf DEF Lock
  <2>2. /\ Len(Early(session[s].req)) \in Nat
        /\ Len(Early(session[s].req)) <= Len(Asks(session[s].req))
        /\ Len(Asks(session[s].req)) \in Nat /\ session[s].got \in Nat
    BY <2>1, AsksType DEF SessionRow
  <2>3. /\ q.req = Req(s) /\ q.got = session[s].got + 1 /\ q.at = session[s].at
        /\ q \in [req : Requests \cup {NoRequest}, at : {"idle", "read", "lock", "sum", "write"},
                  got : Nat, cash : Int]
    BY <2>1 DEF SessionRow, Req
  <2>4. SessionRow(q) /\ Decided(q)
    <3>1. session[s].at \in {"lock", "write"} /\ session[s].got < Goal(s)
      BY <2>1 DEF Waiting
    <3>2. SessionRow(q)
      BY <2>1, <2>2, <2>3, <3>1 DEF SessionRow, Req, Goal
    <3>3. Decided(q)
      BY <2>3, RowOf DEF Decided, Req
    <3> QED  BY <3>2, <3>3
  <2>5. session' = [session EXCEPT ![s] = q] /\ UNCHANGED <<tables, requests, stretched>>
    BY <1>1 DEF Become
  <2>6. \A o \in Sessions : session'[o] = IF o = s THEN q ELSE session[o]
    BY <2>5 DEF Inv, TypeOK
  <2>7. Held(s)' = Held(s) \cup {Wanted(s)}
    <3>1. Held(s)' = LockedBy(q)
      BY <2>6 DEF Held, LockedBy, Req
    <3>2. 1 .. q.got = (1 .. session[s].got) \cup {session[s].got + 1}
      BY <2>2, <2>3
    <3> QED  BY <2>3, <3>1, <3>2 DEF Held, LockedBy, Wanted
  <2>8. \A o \in Sessions \ {s} : Held(o)' = Held(o)
    BY <2>6 DEF Held, Req
  <2> HIDE DEF q
  <2>9. TypeOK'
    BY <2>4, <2>5 DEF Inv, TypeOK, SessionRow, Busy, Req, tables
  <2>10. Compatible'
    <3>1. \A o \in Sessions \ {s} : \A b \in Held(o) :
             b[1] = Wanted(s)[1] => ~Conflict(b[2], Wanted(s)[2]) /\ ~Conflict(Wanted(s)[2], b[2])
      BY <2>1 DEF Blockers, Conflict
    <3> SUFFICES ASSUME NEW x \in Sessions, NEW y \in Sessions, x # y,
                        NEW a \in Held(x)', NEW b \in Held(y)', a[1] = b[1]
                 PROVE  ~Conflict(a[2], b[2])
      BY DEF Compatible, Conflict
    <3>2. a \in Held(x) \/ (x = s /\ a = Wanted(s))
      BY <2>7, <2>8
    <3>3. b \in Held(y) \/ (y = s /\ b = Wanted(s))
      BY <2>7, <2>8
    <3>4. CASE a \in Held(x) /\ b \in Held(y)
      BY <3>4 DEF Inv, Compatible
    <3>5. CASE x = s /\ a = Wanted(s)
      BY <3>1, <3>3, <3>5
    <3>6. CASE y = s /\ b = Wanted(s)
      BY <3>1, <3>2, <3>6
    <3> QED  BY <3>2, <3>3, <3>4, <3>5, <3>6
  <2>11. StillAllowed'
    BY <2>4, <2>5, <2>6 DEF Inv, StillAllowed, Decided, ActiveEnds, tables
  <2>12. FirstReversal'
    <3> SUFFICES ASSUME NEW o \in Sessions, NEW t \in Transfers,
                        <<ReversalOf(t), "update">> \in Held(o)'
                 PROVE  returned[t] = 0
      BY <2>5 DEF FirstReversal, tables
    <3>1. CASE <<ReversalOf(t), "update">> \in Held(o)
      BY <3>1 DEF Inv, FirstReversal
    <3>2. CASE <<ReversalOf(t), "update">> = Wanted(s)
      <4>1. Wanted(s)[1] = ReversalOf(t)
        BY <3>2
      <4>2. ~(returned[t] > 0) /\ returned[t] \in Nat
        BY <1>1, <4>1 DEF Taken, Inv, TypeOK
      <4> QED  BY <4>2
    <3> QED  BY <2>7, <2>8, <3>1, <3>2
  <2>13. NoOverdraft' /\ TransferReturnedOnce'
    BY <2>5 DEF Inv, NoOverdraft, TransferReturnedOnce, tables
  <2> QED  BY <2>9, <2>10, <2>11, <2>12, <2>13 DEF Inv
<1>2. CASE Rollback(s)
  BY <1>2, RollbackKeeps
<1> QED  BY <1>1, <1>2 DEF Lock

\* A commit: what the session does, from the locks it has.  Nobody else can
\* pay from the same location, return the same transfer, or rely on the
\* location it deactivates.
LEMMA CommitKeeps ==
    ASSUME Inv, NEW s \in Sessions, Commit(s)
    PROVE  Inv'
<1> DEFINE r == Req(s)
           src == Source(r)
<1>1. /\ SessionRow(session[s]) /\ Decided(session[s]) /\ Held(s) = LockedBy(session[s])
      /\ r \in Requests \cup {NoRequest} /\ session[s].req = r /\ session[s].at = "write"
  BY RowOf DEF Commit, Req
<1>2. src \in Locations \cup {NoLocation} /\ Worth(r) \in Nat
  BY <1>1, SourceType
<1>3. \A o \in Sessions : session'[o] = IF o = s THEN Idle ELSE session[o]
  BY DEF Commit, Inv, TypeOK
<1>4. Held(s)' = {} /\ \A o \in Sessions \ {s} : Held(o)' = Held(o)
  BY <1>3 DEF Held, Req, Idle
<1>5. Held(s) = {Asks(r)[i] : i \in 1 .. Len(Asks(r))}
  <2>1. Len(Asks(r)) \in Nat
    BY <1>1, AsksType
  <2>2. session[s].got = Len(Asks(r))
    BY <1>1, <2>1, RowFacts DEF Commit, Waiting, Goal, Req
  <2> QED  BY <1>1, <2>2 DEF LockedBy
<1>6. src # NoLocation => <<Row(src), "update">> \in Held(s) /\ balance[src] >= Worth(r)
  BY <1>1, SourceHeld DEF Decided
<1>7. \A o \in Sessions \ {s}, l \in Locations : <<Row(l), "update">> \in Held(o) => l # src
  <2> SUFFICES ASSUME NEW o \in Sessions \ {s}, src \in Locations,
                      <<Row(src), "update">> \in Held(o)
               PROVE  FALSE
    OBVIOUS
  <2>1. <<Row(src), "update">> \in Held(s)
    BY <1>6, Columns
  <2> QED  BY <2>1, Exclusion DEF Inv, Conflict
<1>8. \A l \in Locations : /\ balance'[l] \in Int
                           /\ l # src => balance'[l] >= balance[l]
                           /\ balance'[l] >= 0
  <2> SUFFICES ASSUME NEW l \in Locations
               PROVE  /\ balance'[l] \in Int
                      /\ l # src => balance'[l] >= balance[l]
                      /\ balance'[l] >= 0
    OBVIOUS
  <2>1. balance'[l] = balance[l] - (IF l = src THEN Worth(r) ELSE 0)
                                 + (IF l = Target(r) THEN Worth(r) ELSE 0)
    BY DEF Commit
  <2>2. balance[l] \in Int /\ balance[l] >= 0
    BY DEF Inv, TypeOK, NoOverdraft
  <2>3. l = src => balance[l] >= Worth(r)
    BY <1>6, Columns
  <2> HIDE DEF r, src
  <2> QED  BY <1>2, <2>1, <2>2, <2>3
<1>9. TypeOK'
  <2>1. state' \in [Locations -> States]
    BY DEF Commit, Inv, TypeOK, States
  <2>2. balance' \in [Locations -> Int]
    BY <1>8 DEF Commit
  <2>3. kas' \in Int
    <3>1. ToKas(r) \in Int
      BY <1>2 DEF ToKas
    <3> QED  BY <3>1 DEF Commit, Inv, TypeOK
  <2>4. made' \subseteq Transfers /\ posted' \subseteq Entries
    BY DEF Commit, Inv, TypeOK
  <2>5. returned' \in [Transfers -> Nat]
    BY DEF Commit, Inv, TypeOK
  <2>6. undone' \in [Entries -> Nat]
    BY DEF Commit, Inv, TypeOK
  <2>7. requests' \in 0 .. MaxRequests /\ stretched' \in BOOLEAN
    BY DEF Commit, Inv, TypeOK
  <2>8. session' = [o \in Sessions |-> session'[o]] /\ \A o \in Sessions : SessionRow(session'[o])
    BY <1>3, RowOf, IdleRow DEF Commit, Inv, TypeOK
  <2> QED  BY <2>1, <2>2, <2>3, <2>4, <2>5, <2>6, <2>7, <2>8 DEF TypeOK, SessionRow, Busy, Req
<1>10. Compatible'
  BY <1>4 DEF Inv, Compatible
<1>11. StillAllowed'
  <2> SUFFICES ASSUME NEW o \in Sessions \ {s}, session[o].at = "write"
               PROVE  Decided(session[o])'
    BY <1>3, IdleRow DEF StillAllowed, Decided, Idle
  <2>1. /\ SessionRow(session[o]) /\ Decided(session[o]) /\ Held(o) = LockedBy(session[o])
        /\ session[o].req \in Requests \cup {NoRequest}
    BY RowOf DEF Req
  <2>2. ASSUME Source(session[o].req) # NoLocation
        PROVE  balance'[Source(session[o].req)] >= Worth(session[o].req)
    <3> DEFINE from == Source(session[o].req)
               worth == Worth(session[o].req)
    <3>1. from \in Locations /\ worth \in Nat
      BY <2>1, <2>2, SourceType
    <3>2. <<Row(from), "update">> \in Held(o) /\ balance[from] >= worth
      BY <2>1, <2>2, SourceHeld DEF Decided
    <3> HIDE DEF from, worth
    <3>3. balance'[from] >= balance[from]
      BY <1>7, <1>8, <3>1, <3>2
    <3>4. balance[from] \in Int /\ balance'[from] \in Int
      BY <1>8, <3>1 DEF Inv, TypeOK
    <3>5. balance'[from] >= worth
      BY <3>1, <3>2, <3>3, <3>4
    <3> QED  BY <3>5 DEF from, worth
  <2>3. ASSUME Handler(session[o].req) = "transfer",
               NEW l \in {From[Of(session[o].req)], To[Of(session[o].req)]}
        PROVE  state'[l] = "active"
    <3>1. l \in Locations /\ state[l] = "active"
      BY <2>1, <2>3, RequestKinds, Columns DEF Decided, ActiveEnds, NoRequest, Handler
    <3>2. <<Row(l), "update">> \in Held(o)
      BY <2>1, <2>3, EndsHeld
    <3>3. r # <<"deactivate", l>>
      <4> SUFFICES ASSUME r = <<"deactivate", l>>
                   PROVE  FALSE
        OBVIOUS
      <4>1. <<Row(l), "no key update">> \in Held(s)
        BY <1>1, <3>1, DeactivationHeld
      <4> QED  BY <3>2, <4>1, Exclusion DEF Inv, Conflict
    <3> QED  BY <3>1, <3>3 DEF Commit
  <2>4. session'[o] = session[o]
    BY <1>3
  <2> QED  BY <2>2, <2>3, <2>4 DEF Decided, ActiveEnds
<1>12. \A t \in Transfers : r = <<"return", t>> => <<ReversalOf(t), "update">> \in Held(s)
  <2> SUFFICES ASSUME NEW t \in Transfers, r = <<"return", t>>
               PROVE  <<ReversalOf(t), "update">> \in Held(s)
    OBVIOUS
  <2>1. <<"return", t>> \in Requests
    BY <1>1 DEF NoRequest
  <2> QED  BY <1>5, <2>1, KeyAsked
<1>13. \A t \in Transfers : returned'[t] = returned[t] + (IF r = <<"return", t>> THEN 1 ELSE 0)
  BY DEF Commit
<1>14. FirstReversal'
  <2> SUFFICES ASSUME NEW o \in Sessions \ {s}, NEW t \in Transfers,
                      <<ReversalOf(t), "update">> \in Held(o)
               PROVE  returned'[t] = 0
    BY <1>4 DEF FirstReversal
  <2>1. r # <<"return", t>>
    BY <1>12, Exclusion DEF Inv, Conflict
  <2>2. returned[t] = 0
    BY DEF Inv, FirstReversal
  <2> QED  BY <1>13, <2>1, <2>2
<1>15. TransferReturnedOnce'
  <2> SUFFICES ASSUME NEW t \in Transfers
               PROVE  returned'[t] <= 1
    BY DEF TransferReturnedOnce
  <2>1. returned[t] \in Nat /\ returned[t] <= 1
    BY DEF Inv, TypeOK, TransferReturnedOnce
  <2>2. r = <<"return", t>> => returned[t] = 0
    BY <1>12 DEF Inv, FirstReversal
  <2> HIDE DEF r
  <2> QED  BY <1>13, <2>1, <2>2
<1>16. NoOverdraft'
  BY <1>8 DEF NoOverdraft
<1> QED  BY <1>9, <1>10, <1>11, <1>14, <1>15, <1>16 DEF Inv

\* The first state: nobody has a lock, nothing is overdrawn or returned.
LEMMA InitInv == Init => Inv
<1> SUFFICES ASSUME Init
             PROVE  Inv
  OBVIOUS
<1>1. \A s \in Sessions : session[s] = Idle /\ Held(s) = {}
  BY DEF Init, Held, Idle
<1>2. balance \in [Locations -> Nat]
  BY Columns DEF Init
<1>3. TypeOK
  <2>1. \A s \in Sessions : SessionRow(session[s])
    BY <1>1, IdleRow
  <2>2. state \in [Locations -> States] /\ kas \in Int /\ stretched \in BOOLEAN
    BY Columns DEF Init
  <2>3. returned \in [Transfers -> Nat] /\ undone \in [Entries -> Nat]
    BY DEF Init
  <2>4. requests \in 0 .. MaxRequests
    BY Columns DEF Init
  <2>5. made \subseteq Transfers /\ posted \subseteq Entries
    BY DEF Init
  <2>6. session = [s \in Sessions |-> session[s]]
    BY DEF Init
  <2> QED  BY <1>2, <2>1, <2>2, <2>3, <2>4, <2>5, <2>6, TypeByRows
<1>4. Compatible /\ FirstReversal
  BY <1>1 DEF Compatible, FirstReversal
<1>5. StillAllowed
  BY <1>1, IdleRow DEF StillAllowed
<1>6. NoOverdraft /\ TransferReturnedOnce
  BY <1>2 DEF NoOverdraft, TransferReturnedOnce, Init
<1> QED  BY <1>3, <1>4, <1>5, <1>6 DEF Inv

\* Every step keeps the invariant.
LEMMA NextInv == Inv /\ [Next]_vars => Inv'
<1> SUFFICES ASSUME Inv, [Next]_vars
             PROVE  Inv'
  OBVIOUS
<1>1. CASE UNCHANGED vars
  BY <1>1 DEF vars, tables, Inv, TypeOK, Compatible, StillAllowed, FirstReversal, NoOverdraft,
              TransferReturnedOnce, Busy, Req, Held, Decided, ActiveEnds
<1>2. CASE Next
  <2>1. PICK s \in Sessions : \/ Arrive(s) \/ Read(s) \/ Lock(s) \/ ReadKas(s) \/ Decide(s)
                             \/ Commit(s) \/ BreakDeadlock(s) \/ Abort(s)
    BY <1>2 DEF Next
  <2>2. CASE Arrive(s)
    BY <2>2, ArriveKeeps
  <2>3. CASE Read(s)
    BY <2>3, ReadKeeps
  <2>4. CASE Lock(s)
    BY <2>4, LockKeeps
  <2>5. CASE ReadKas(s)
    BY <2>5, ReadKasKeeps
  <2>6. CASE Decide(s)
    BY <2>6, DecideKeeps
  <2>7. CASE Commit(s)
    BY <2>7, CommitKeeps
  <2>8. CASE BreakDeadlock(s) \/ Abort(s)
    BY <2>8, RollbackKeeps DEF BreakDeadlock, Abort
  <2> QED  BY <2>1, <2>2, <2>3, <2>4, <2>5, <2>6, <2>7, <2>8
<1> QED  BY <1>1, <1>2
-----------------------------------------------------------------------------
(* What the locations hold together. *)

\* The units of money that f counts, and how many there are.
Units(f, S) == UNION {{x} \X (1 .. f[x]) : x \in S}
Total(f, S) == Cardinality(Units(f, S))

\* The units of a function on a finite set are finitely many.
LEMMA UnitsFinite ==
    ASSUME NEW S, IsFiniteSet(S), NEW f \in [S -> Nat]
    PROVE  IsFiniteSet(Units(f, S))
<1>1. IsFiniteSet({{x} \X (1 .. f[x]) : x \in S})
  <2> DEFINE T == {{x} \X (1 .. f[x]) : x \in S}
             g == [x \in S |-> {x} \X (1 .. f[x])]
  <2>1. g \in [S -> T] /\ \A t \in T : \E x \in S : g[x] = t
    OBVIOUS
  <2>2. g \in Surjection(S, T)
    <3> HIDE DEF T, g
    <3> QED  BY <2>1 DEF Surjection
  <2> QED  BY <2>2, FS_Surjection DEF ExistsSurjection
<1>2. \A T \in {{x} \X (1 .. f[x]) : x \in S} : IsFiniteSet(T)
  <2> SUFFICES ASSUME NEW x \in S
               PROVE  IsFiniteSet({x} \X (1 .. f[x]))
    OBVIOUS
  <2>1. IsFiniteSet({x}) /\ IsFiniteSet(1 .. f[x])
    <3>1. f[x] \in Int /\ 1 \in Int
      OBVIOUS
    <3>2. IsFiniteSet(1 .. f[x])
      BY <3>1, FS_Interval
    <3> QED  BY <3>2, FS_Singleton
  <2> QED  BY <2>1, FS_Product
<1> QED  BY <1>1, <1>2, FS_UNION DEF Units

\* A total is a natural number.
LEMMA TotalNat ==
    ASSUME NEW S, IsFiniteSet(S), NEW f \in [S -> Nat]
    PROVE  Total(f, S) \in Nat
<1> QED  BY UnitsFinite, FS_CardinalityType DEF Total

\* The total without one element, and what the element adds.
LEMMA TotalSplit ==
    ASSUME NEW S, IsFiniteSet(S), NEW f \in [S -> Nat], NEW x \in S
    PROVE  /\ Total(f, S \ {x}) \in Nat
           /\ Total(f, S) = Total(f, S \ {x}) + f[x]
<1> DEFINE mine == {x} \X (1 .. f[x])
           others == Units(f, S \ {x})
<1>1. IsFiniteSet(others)
  <2>1. IsFiniteSet(Units(f, S))
    BY UnitsFinite
  <2>2. others \subseteq Units(f, S)
    BY DEF Units
  <2> QED  BY <2>1, <2>2, FS_Subset
<1>2. f[x] \in Nat /\ f[x] \in Int /\ 1 \in Int
  OBVIOUS
<1>3. IsFiniteSet(mine) /\ Cardinality(mine) = f[x]
  <2>1. IsFiniteSet({x}) /\ Cardinality({x}) = 1
    BY FS_Singleton
  <2>2. IsFiniteSet(1 .. f[x]) /\ Cardinality(1 .. f[x]) = f[x]
    BY <1>2, FS_Interval
  <2>3. IsFiniteSet(mine) /\ Cardinality(mine) = 1 * f[x]
    BY <2>1, <2>2, FS_Product
  <2> QED  BY <1>2, <2>3
<1>4. Units(f, S) = others \cup mine
  BY DEF Units
<1>5. others \cap mine = {}
  BY DEF Units
<1>6. Cardinality(others) \in Nat
  BY <1>1, FS_CardinalityType
<1>7. Cardinality(others \cup mine) = Cardinality(others) + Cardinality(mine) - Cardinality(others \cap mine)
  <2> HIDE DEF others, mine
  <2> QED  BY <1>1, <1>3, FS_Union
<1>8. Cardinality(others \cap mine) = 0
  BY <1>5, FS_EmptySet
<1>9. Total(f, S) = Cardinality(others \cup mine)
  BY <1>4 DEF Total
<1> HIDE DEF others, mine
<1>10. Total(f, S) = Cardinality(others) + f[x]
  BY <1>2, <1>3, <1>6, <1>7, <1>8, <1>9
<1> QED  BY <1>6, <1>10 DEF others, Total

\* A total changes by what one element changes.
LEMMA TotalChange ==
    ASSUME NEW S, IsFiniteSet(S), NEW f \in [S -> Nat], NEW g \in [S -> Nat], NEW x \in S,
           \A y \in S : y # x => g[y] = f[y]
    PROVE  /\ Total(f, S) \in Nat /\ Total(g, S) \in Nat
           /\ Total(g, S) = Total(f, S) - f[x] + g[x]
<1>1. Total(g, S \ {x}) = Total(f, S \ {x})
  BY DEF Total, Units
<1> DEFINE n == Total(f, S \ {x})
<1>2. n \in Nat /\ Total(f, S) = n + f[x]
  BY TotalSplit
<1>3. Total(g, S) = n + g[x]
  BY <1>1, TotalSplit
<1>4. f[x] \in Nat /\ g[x] \in Nat
  OBVIOUS
<1> HIDE DEF n
<1> QED  BY <1>2, <1>3, <1>4

\* What a request brings into the locations, and what it takes out of them.
Inflow(r) == IF Target(r) = NoLocation THEN 0 ELSE Worth(r)
Outflow(r) == IF Source(r) = NoLocation THEN 0 ELSE Worth(r)

\* Only an allocation moves money into a location that the KAS does not gain,
\* and only an outflow without a location takes money from the KAS that the
\* locations keep.
LEMMA Flows ==
    ASSUME NEW r \in Requests \cup {NoRequest}
    PROVE  /\ Target(r) \in Locations \cup {NoLocation}
           /\ ToKas(r) \in Int
           /\ \/ Handler(r) = "allocate" /\ ToKas(r) = 0 /\ Inflow(r) = Worth(r) /\ Outflow(r) = 0
              \/ Handler(r) # "allocate" /\ ToKas(r) >= Inflow(r) - Outflow(r)
              \/ ToKas(r) < 0 /\ Source(r) = NoLocation
<1>0. Worth(r) \in Nat
  BY SourceType
<1>1. CASE r = NoRequest
  BY <1>1 DEF NoRequest, Source, Target, Worth, Handler, Of, IsTransfer, ToKas, Inflow, Outflow
<1>2. CASE Handler(r) = "allocate" /\ Of(r) \in Locations
  BY <1>0, <1>2, Columns DEF Source, Target, ToKas, Inflow, Outflow
<1>3. CASE Handler(r) \in {"create", "update", "deactivate"} /\ Of(r) \in Locations
  BY <1>3, Columns DEF Source, Target, Worth, IsTransfer, ToKas, Inflow, Outflow
<1>4. CASE Handler(r) \in {"transfer", "return"} /\ Of(r) \in Transfers
  <2>1. From[Of(r)] \in Locations /\ To[Of(r)] \in Locations
    BY <1>4, Columns
  <2>2. Source(r) \in Locations /\ Target(r) \in Locations
    BY <1>4, <2>1 DEF Source, Target
  <2>3. ToKas(r) = 0 /\ Handler(r) # "allocate"
    BY <1>4 DEF ToKas
  <2> QED  BY <1>0, <2>2, <2>3, Columns DEF Inflow, Outflow
<1>5. CASE Handler(r) \in {"post", "undo"} /\ Of(r) \in Entries
  <2>1. Place[Of(r)] \in Locations \cup {NoLocation} /\ Amount[Of(r)] \in Nat \ {0}
    BY <1>5, Columns
  <2>2. Worth(r) = Amount[Of(r)]
    BY <1>5 DEF Worth, IsTransfer
  <2>3. CASE (Handler(r) = "post") = IsIncome(Of(r))
    <3>1. Source(r) = NoLocation /\ Target(r) = Place[Of(r)] /\ ToKas(r) = Worth(r)
      BY <1>5, <2>3 DEF Source, Target, ToKas, IsIncome
    <3> QED  BY <1>0, <1>5, <2>1, <3>1 DEF Inflow, Outflow
  <2>4. CASE (Handler(r) = "post") # IsIncome(Of(r))
    <3>1. Target(r) = NoLocation /\ Source(r) = Place[Of(r)] /\ ToKas(r) = -Worth(r)
      BY <1>5, <2>4 DEF Source, Target, ToKas, IsIncome
    <3> QED  BY <1>0, <1>5, <2>1, <2>2, <3>1 DEF Inflow, Outflow
  <2> QED  BY <2>3, <2>4
<1> QED  BY <1>1, <1>2, <1>3, <1>4, <1>5, RequestKinds

\* Balances are natural numbers, so their total is one.
LEMMA HeldMoney ==
    ASSUME Inv
    PROVE  balance \in [Locations -> Nat] /\ InLocations = Total(balance, Locations) /\ InLocations \in Nat
<1>1. balance \in [Locations -> Nat]
  BY DEF Inv, TypeOK, NoOverdraft
<1> QED  BY <1>1, TotalNat, FiniteTable DEF InLocations, Total, Units

\* A commit changes what the locations hold by what its request moves.
LEMMA MoneyMoves ==
    ASSUME Inv, NEW s \in Sessions, Commit(s)
    PROVE  InLocations' = InLocations - Outflow(Req(s)) + Inflow(Req(s))
<1> DEFINE r == Req(s)
           src == Source(r)
           dst == Target(r)
           w == Worth(r)
           out == [l \in Locations |-> balance[l] - (IF l = src THEN w ELSE 0)]
<1>1. /\ SessionRow(session[s]) /\ Decided(session[s]) /\ r \in Requests \cup {NoRequest}
      /\ session[s].req = r /\ session[s].at = "write"
  BY RowOf DEF Commit, Req
<1>2. src \in Locations \cup {NoLocation} /\ dst \in Locations \cup {NoLocation} /\ w \in Nat
  BY <1>1, SourceType, Flows
<1>3. balance \in [Locations -> Nat] /\ InLocations = Total(balance, Locations)
  BY HeldMoney
<1>4. src # NoLocation => balance[src] >= w
  BY <1>1 DEF Decided
<1>5. balance' = [l \in Locations |-> out[l] + (IF l = dst THEN w ELSE 0)]
  BY DEF Commit
<1>6. InLocations' = Total(balance', Locations)
  BY DEF InLocations, Total, Units
<1>7. NoLocation \notin Locations /\ IsFiniteSet(Locations)
  BY Columns, FiniteTable
<1>8. Outflow(r) = IF src = NoLocation THEN 0 ELSE w
  BY DEF Outflow
<1>9. Inflow(r) = IF dst = NoLocation THEN 0 ELSE w
  BY DEF Inflow
<1> HIDE DEF r, src, dst, w
<1>10. out \in [Locations -> Nat]
  BY <1>2, <1>3, <1>4, <1>7
<1>11. Total(balance, Locations) \in Nat /\ Total(out, Locations) \in Nat
  <2> HIDE DEF out
  <2> QED  BY <1>3, <1>7, <1>10, TotalNat
<1>12. Total(out, Locations) = Total(balance, Locations) - Outflow(r)
  <2>1. CASE src = NoLocation
    <3>1. out = balance
      BY <1>3, <1>7, <2>1
    <3> QED  BY <1>8, <1>11, <2>1, <3>1
  <2>2. CASE src \in Locations
    <3>1. /\ \A l \in Locations : l # src => out[l] = balance[l]
          /\ out[src] = balance[src] - w /\ balance[src] \in Nat
      BY <1>2, <1>3, <2>2
    <3> HIDE DEF out
    <3>2. Total(out, Locations) = Total(balance, Locations) - balance[src] + out[src]
      BY <1>3, <1>7, <1>10, <2>2, <3>1, TotalChange
    <3>3. Outflow(r) = w
      BY <1>7, <1>8, <2>2
    <3> QED  BY <1>2, <1>11, <3>1, <3>2, <3>3
  <2> QED  BY <1>2, <2>1, <2>2
<1> HIDE DEF out
<1>13. balance' \in [Locations -> Nat]
  BY <1>2, <1>5, <1>10
<1>14. Total(balance', Locations) = Total(out, Locations) + Inflow(r)
  <2>1. CASE dst = NoLocation
    <3>1. balance' = out
      <4>1. balance' = [l \in Locations |-> out[l] + 0]
        BY <1>5, <1>7, <2>1
      <4>2. \A l \in Locations : out[l] + 0 = out[l]
        BY <1>10
      <4> QED  BY <1>10, <4>1, <4>2
    <3> QED  BY <1>9, <1>11, <2>1, <3>1
  <2>2. CASE dst \in Locations
    <3> DEFINE new == balance'
    <3>1. /\ \A l \in Locations : l # dst => new[l] = out[l]
          /\ new[dst] = out[dst] + w /\ out[dst] \in Nat /\ new \in [Locations -> Nat]
      BY <1>2, <1>5, <1>10, <1>13, <2>2
    <3> HIDE DEF new
    <3>2. Total(new, Locations) = Total(out, Locations) - out[dst] + new[dst]
      BY <1>7, <1>10, <2>2, <3>1, TotalChange
    <3>3. Inflow(r) = w
      BY <1>7, <1>9, <2>2
    <3>4. Total(new, Locations) = Total(out, Locations) + Inflow(r)
      BY <1>2, <1>11, <3>1, <3>2, <3>3
    <3> QED  BY <3>4 DEF new
  <2> QED  BY <1>2, <2>1, <2>2
<1>15. Outflow(r) \in Nat /\ Inflow(r) \in Nat
  BY <1>2, <1>8, <1>9
<1>16. InLocations' = InLocations - Outflow(r) + Inflow(r)
  BY <1>3, <1>6, <1>11, <1>12, <1>14, <1>15
<1> QED  BY <1>16 DEF r
-----------------------------------------------------------------------------
(* Allocations. *)

\* What an allocation under way has read and decided: the K it has read is no
\* more than the KAS has, and what it decided to allocate is still free.
Earmarked(q) ==
    Handler(q.req) = "allocate" => /\ q.at = "sum" => q.cash <= kas
                                   /\ q.at = "write" => Unallocated(kas) >= Worth(q.req)

\* As long as nothing stretched the KAS, it covers the locations, and every
\* allocation under way.
Funded == ~stretched => Unallocated(kas) >= 0 /\ \A s \in Sessions : Earmarked(session[s])

\* A step of session s that moves no money: its row becomes q.
LEMMA QuietFunds ==
    ASSUME Inv, Funded, NEW s \in Sessions, NEW q, Become(s, q), ~stretched => Earmarked(q)
    PROVE  Funded'
<1>1. session' = [session EXCEPT ![s] = q] /\ UNCHANGED <<tables, requests, stretched>>
  BY DEF Become
<1>2. UNCHANGED <<balance, kas, stretched>>
  BY <1>1 DEF tables
<1>3. \A o \in Sessions : session'[o] = IF o = s THEN q ELSE session[o]
  BY <1>1 DEF Inv, TypeOK
<1>4. Unallocated(kas)' = Unallocated(kas)
  BY <1>2 DEF Unallocated, InLocations
<1> QED  BY <1>2, <1>3, <1>4 DEF Funded, Earmarked

\* A rollback asks for nothing.
LEMMA RollbackFunds ==
    ASSUME Inv, Funded, NEW s \in Sessions, Rollback(s)
    PROVE  Funded'
<1>1. Earmarked(Idle)
  BY DEF Earmarked, Idle
<1> QED  BY <1>1, QuietFunds DEF Rollback

\* A new request has decided nothing.
LEMMA ArriveFunds ==
    ASSUME Inv, Funded, NEW s \in Sessions, Arrive(s)
    PROVE  Funded'
<1>1. PICK r \in Requests : session' = [session EXCEPT ![s] = [Idle EXCEPT !.req = r, !.at = "read"]]
  BY DEF Arrive
<1> DEFINE q == [Idle EXCEPT !.req = r, !.at = "read"]
<1>2. q.at = "read"
  BY DEF Idle
<1>3. Earmarked(q)
  BY <1>2 DEF Earmarked
<1>4. UNCHANGED <<balance, kas, stretched>>
  BY DEF Arrive, tables
<1>5. \A o \in Sessions : session'[o] = IF o = s THEN q ELSE session[o]
  BY <1>1 DEF Inv, TypeOK
<1>6. Unallocated(kas)' = Unallocated(kas)
  BY <1>4 DEF Unallocated, InLocations
<1> HIDE DEF q
<1> QED  BY <1>3, <1>4, <1>5, <1>6 DEF Funded, Earmarked

\* Reads, locks and the decision: an allocation that goes on to write has
\* compared itself with what is free of the KAS it has read.
LEMMA StatementFunds ==
    ASSUME Inv, Funded, NEW s \in Sessions, Read(s) \/ Lock(s) \/ ReadKas(s) \/ Decide(s)
    PROVE  Funded'
<1>1. CASE Rollback(s)
  BY <1>1, RollbackFunds
<1>2. SessionRow(session[s]) /\ session[s].req = Req(s) /\ kas \in Int /\ Worth(Req(s)) \in Nat
  BY RowOf, SourceType DEF Inv, TypeOK, Req
<1>3. /\ DOMAIN session[s] = {"req", "at", "got", "cash"} /\ session[s].cash \in Int
  BY <1>2 DEF SessionRow
<1>4. CASE Become(s, [session[s] EXCEPT !.at = "lock"])
  <2> DEFINE q == [session[s] EXCEPT !.at = "lock"]
  <2>1. q.at = "lock"
    BY <1>2 DEF SessionRow
  <2>2. Earmarked(q)
    BY <2>1 DEF Earmarked
  <2> HIDE DEF q
  <2> QED  BY <1>4, <2>2, QuietFunds DEF q
<1>5. CASE Become(s, [session[s] EXCEPT !.got = @ + 1])
  <2> DEFINE q == [session[s] EXCEPT !.got = @ + 1]
  <2>1. q.at = session[s].at /\ q.req = session[s].req /\ q.cash = session[s].cash
    BY <1>2 DEF SessionRow
  <2>2. ~stretched => Earmarked(q)
    BY <2>1 DEF Earmarked, Funded
  <2> HIDE DEF q
  <2> QED  BY <1>5, <2>2, QuietFunds DEF q
<1>6. CASE Become(s, [session[s] EXCEPT !.at = "sum", !.cash = kas])
  <2> DEFINE q == [session[s] EXCEPT !.at = "sum", !.cash = kas]
  <2>1. q.at = "sum" /\ q.cash = kas
    BY <1>2 DEF SessionRow
  <2>2. Earmarked(q)
    BY <1>2, <2>1 DEF Earmarked
  <2> HIDE DEF q
  <2> QED  BY <1>6, <2>2, QuietFunds DEF q
<1>7. CASE Decide(s) /\ Allows(Req(s), session[s].cash) /\ Become(s, [session[s] EXCEPT !.at = "write"])
  <2> DEFINE q == [session[s] EXCEPT !.at = "write"]
             c == session[s].cash
             w == Worth(Req(s))
  <2>1. q.at = "write" /\ q.req = Req(s)
    BY <1>2 DEF SessionRow
  <2>2. ASSUME ~stretched, Handler(Req(s)) = "allocate"
        PROVE  Unallocated(kas) >= w
    <3>1. c <= kas
      BY <1>2, <1>7, <2>2 DEF Decide, Funded, Earmarked
    <3>2. Unallocated(c) >= w
      BY <1>7, <2>2 DEF Allows, Covered
    <3>3. c \in Int /\ kas \in Int /\ InLocations \in Nat /\ w \in Nat
      BY <1>2, <1>3, HeldMoney
    <3> HIDE DEF c, w
    <3> QED  BY <3>1, <3>2, <3>3 DEF Unallocated
  <2>3. ~stretched => Earmarked(q)
    BY <2>1, <2>2 DEF Earmarked
  <2> HIDE DEF q
  <2> QED  BY <1>7, <2>3, QuietFunds DEF q
<1> QED  BY <1>1, <1>4, <1>5, <1>6, <1>7 DEF Read, Lock, ReadKas, Decide

\* A commit that stretches nothing leaves what the others have read and
\* decided true: it takes from the KAS what it takes from a location.
LEMMA CommitFunds ==
    ASSUME Inv, Funded, NEW s \in Sessions, Commit(s)
    PROVE  Funded'
<1> SUFFICES ASSUME ~stretched'
             PROVE  Unallocated(kas)' >= 0 /\ \A o \in Sessions : Earmarked(session[o])'
  BY DEF Funded
<1> DEFINE r == Req(s)
<1>1. ~stretched /\ ~(ToKas(r) < 0 /\ Source(r) = NoLocation) /\ ~Overtakes(r, s)
  BY DEF Commit
<1>2. /\ r \in Requests \cup {NoRequest} /\ session[s].req = r /\ session[s].at = "write"
      /\ SessionRow(session[s])
  BY RowOf DEF Commit, Req
<1>3. /\ kas \in Int /\ InLocations \in Nat /\ Worth(r) \in Nat /\ ToKas(r) \in Int
      /\ Inflow(r) \in Nat /\ Outflow(r) \in Nat
  BY <1>2, HeldMoney, SourceType, Flows DEF Inv, TypeOK, Inflow, Outflow
<1>4. kas' = kas + ToKas(r) /\ InLocations' = InLocations - Outflow(r) + Inflow(r)
  BY MoneyMoves DEF Commit
<1>5. Unallocated(kas)' = kas' - InLocations' /\ Unallocated(kas) = kas - InLocations
  BY DEF Unallocated
<1>6. Unallocated(kas) >= 0 /\ \A o \in Sessions : Earmarked(session[o])
  BY <1>1 DEF Funded
<1>7. /\ Handler(r) # "allocate" => Unallocated(kas)' >= Unallocated(kas)
      /\ Handler(r) = "allocate" => Unallocated(kas)' = Unallocated(kas) - Worth(r)
  <2>1. \/ Handler(r) = "allocate" /\ ToKas(r) = 0 /\ Inflow(r) = Worth(r) /\ Outflow(r) = 0
        \/ Handler(r) # "allocate" /\ ToKas(r) >= Inflow(r) - Outflow(r)
    BY <1>1, <1>2, Flows
  <2> HIDE DEF r
  <2> QED  BY <1>3, <1>4, <1>5, <2>1
<1>8. Unallocated(kas) \in Int /\ Unallocated(kas)' \in Int /\ kas' \in Int
  <2> HIDE DEF r
  <2> QED  BY <1>3, <1>4, <1>5
<1>9. Unallocated(kas)' >= 0
  <2>1. Handler(r) = "allocate" => Unallocated(kas) >= Worth(r)
    BY <1>2, <1>6 DEF Earmarked
  <2> HIDE DEF r
  <2> QED  BY <1>3, <1>6, <1>7, <1>8, <2>1
<1>10. ASSUME NEW o \in Sessions
       PROVE  Earmarked(session[o])'
  <2>1. session'[o] = IF o = s THEN Idle ELSE session[o]
    BY DEF Commit, Inv, TypeOK
  <2>2. CASE o = s
    BY <2>1, <2>2 DEF Earmarked, Idle
  <2>3. CASE o # s
    <3> DEFINE q == session[o]
    <3>1. session'[o] = q /\ q.cash \in Int /\ Worth(q.req) \in Nat /\ q.req = Req(o)
      BY <2>1, <2>3, RowOf, SourceType DEF SessionRow, Req
    <3>2. ASSUME Handler(q.req) = "allocate", q.at = "sum"
          PROVE  q.cash <= kas'
      <4>1. ~(ToKas(r) < 0)
        BY <1>1, <2>3, <3>1, <3>2 DEF Overtakes
      <4>2. q.cash <= kas
        BY <1>6, <3>2 DEF Earmarked
      <4> HIDE DEF r, q
      <4> QED  BY <1>3, <1>4, <3>1, <4>1, <4>2
    <3>3. ASSUME Handler(q.req) = "allocate", q.at = "write"
          PROVE  Unallocated(kas)' >= Worth(q.req)
      <4>1. Handler(r) # "allocate"
        BY <1>1, <2>3, <3>1, <3>3 DEF Overtakes
      <4>2. Unallocated(kas) >= Worth(q.req)
        BY <1>6, <3>3 DEF Earmarked
      <4> HIDE DEF r, q
      <4> QED  BY <1>7, <1>8, <3>1, <4>1, <4>2
    <3> QED  BY <3>1, <3>2, <3>3 DEF Earmarked
  <2> QED  BY <2>2, <2>3
<1> QED  BY <1>9, <1>10

\* Every step keeps the allocations funded.
LEMMA NextFunds == Inv /\ Funded /\ [Next]_vars => Funded'
<1> SUFFICES ASSUME Inv, Funded, [Next]_vars
             PROVE  Funded'
  OBVIOUS
<1>1. CASE UNCHANGED vars
  BY <1>1 DEF vars, tables, Funded, Earmarked, Unallocated, InLocations
<1>2. CASE Next
  <2>1. PICK s \in Sessions : \/ Arrive(s) \/ Read(s) \/ Lock(s) \/ ReadKas(s) \/ Decide(s)
                             \/ Commit(s) \/ BreakDeadlock(s) \/ Abort(s)
    BY <1>2 DEF Next
  <2>2. CASE Arrive(s)
    BY <2>2, ArriveFunds
  <2>3. CASE Read(s) \/ Lock(s) \/ ReadKas(s) \/ Decide(s)
    BY <2>3, StatementFunds
  <2>4. CASE Commit(s)
    BY <2>4, CommitFunds
  <2>5. CASE BreakDeadlock(s) \/ Abort(s)
    BY <2>5, RollbackFunds DEF BreakDeadlock, Abort
  <2> QED  BY <2>1, <2>2, <2>3, <2>4, <2>5
<1> QED  BY <1>1, <1>2

\* At first nobody allocates, and stretched tells whether the KAS is short.
LEMMA InitFunds == Init => Funded
<1> SUFFICES ASSUME Init
             PROVE  Funded
  OBVIOUS
<1>1. \A s \in Sessions : session[s] = Idle
  BY DEF Init
<1>2. ~stretched => ~(Unallocated(kas) < 0)
  BY DEF Init
<1>3. kas \in Int /\ InLocations \in Nat
  BY InitInv, HeldMoney DEF Inv, TypeOK
<1> QED  BY <1>1, <1>2, <1>3 DEF Funded, Earmarked, Idle, Unallocated
-----------------------------------------------------------------------------
(* Transfers and their reversals never wait for each other in a circle. *)

\* A set of bounded numbers has a largest one.
LEMMA LargestNumber ==
    ASSUME NEW N \in Nat, NEW T, T \subseteq 0 .. N, T # {}
    PROVE  \E x \in T : \A y \in T : y <= x
<1> DEFINE U == {u \in Nat : \E x \in T : u = N - x}
           R == OpToRel(<, Nat)
<1>1. \A x \in T : x \in Nat /\ N - x \in U
  OBVIOUS
<1>2. U \subseteq Nat /\ U # {}
  BY <1>1
<1>3. IsWellFoundedOn(R, Nat)
  BY NatLessThanWellFounded
<1>4. \A u, v \in Nat : <<u, v>> \in R <=> u < v
  BY DEF OpToRel
<1>5. PICK u \in U : \A v \in U : ~(<<v, u>> \in R)
  <2> HIDE DEF R, U
  <2> QED  BY <1>2, <1>3, WFMin
<1>6. PICK x \in T : u = N - x
  OBVIOUS
<1>7. ASSUME NEW y \in T
      PROVE  y <= x
  <2>1. ~(N - y < N - x) /\ x \in Nat /\ y \in Nat
    <3> HIDE DEF R
    <3> QED  BY <1>1, <1>2, <1>4, <1>5, <1>6
  <2> QED  BY <2>1
<1> QED  BY <1>7

\* The two locations of a transfer in the order of their ids.
Lower(r) == IF Rank[From[Of(r)]] < Rank[To[Of(r)]] THEN From[Of(r)] ELSE To[Of(r)]
Upper(r) == IF Rank[From[Of(r)]] < Rank[To[Of(r)]] THEN To[Of(r)] ELSE From[Of(r)]

RtShare == <<Rt, "key share">>
KeyLock(t) == <<ReversalOf(t), "update">>

\* Which locks stop each other.
LEMMA LockParts ==
    /\ \A l : ForUpdate(l)[1] = Row(l) /\ ForUpdate(l)[2] = "update"
    /\ RtShare[1] = Rt /\ RtShare[2] = "key share"
    /\ \A t : KeyLock(t)[1] = ReversalOf(t) /\ KeyLock(t)[2] = "update"
    /\ \A l, t : Row(l) # Rt /\ ReversalOf(t) # Rt /\ Row(l) # ReversalOf(t)
    /\ \A l, m : Row(l) = Row(m) => l = m
    /\ \A t, u : ReversalOf(t) = ReversalOf(u) => t = u
    /\ ~Conflict("key share", "key share") /\ Conflict("update", "update")
<1> QED  BY DEF ForUpdate, RtShare, KeyLock, Row, Rt, ReversalOf, Conflict

\* What a transfer or its reversal locks: the lower row, the upper one, the
\* key of the reversal, and the RT.
LEMMA TransferAsks ==
    ASSUME NEW r \in Requests \cup {NoRequest}, IsTransfer(r)
    PROVE  /\ Lower(r) \in Locations /\ Upper(r) \in Locations /\ Rank[Lower(r)] < Rank[Upper(r)]
           /\ Len(Early(r)) = 2 /\ Len(Asks(r)) \in {3, 4}
           /\ Asks(r)[1] = ForUpdate(Lower(r)) /\ Asks(r)[2] = ForUpdate(Upper(r))
           /\ \A i \in 3 .. Len(Asks(r)) : Asks(r)[i] \in {RtShare, KeyLock(Of(r))}
<1>1. Of(r) \in Transfers /\ Handler(r) \in {"transfer", "return"}
  BY RequestKinds DEF IsTransfer, NoRequest, Handler
<1>2. /\ From[Of(r)] \in Locations /\ To[Of(r)] \in Locations
      /\ Rank[From[Of(r)]] \in Nat /\ Rank[To[Of(r)]] \in Nat
      /\ Rank[From[Of(r)]] # Rank[To[Of(r)]]
  BY <1>1, Columns
<1>3. Lower(r) \in Locations /\ Upper(r) \in Locations /\ Rank[Lower(r)] < Rank[Upper(r)]
  BY <1>2 DEF Lower, Upper
<1>4. Early(r) = <<ForUpdate(Lower(r)), ForUpdate(Upper(r))>>
  <2>1. CASE Rank[From[Of(r)]] < Rank[To[Of(r)]]
    BY <1>1, <2>1 DEF Early, Ordered, Lower, Upper
  <2>2. CASE ~(Rank[From[Of(r)]] < Rank[To[Of(r)]])
    BY <1>1, <2>2 DEF Early, Ordered, Lower, Upper
  <2> QED  BY <2>1, <2>2
<1>5. Late(r) = <<RtShare>> \/ Late(r) = <<KeyLock(Of(r)), RtShare>>
  BY <1>1 DEF Late, RtShare, KeyLock
<1>6. Len(Early(r)) = 2 /\ Early(r)[1] = ForUpdate(Lower(r)) /\ Early(r)[2] = ForUpdate(Upper(r))
  BY <1>4
<1>7. Len(Late(r)) \in {1, 2} /\ \A i \in 1 .. Len(Late(r)) : Late(r)[i] \in {RtShare, KeyLock(Of(r))}
  BY <1>5
<1>8. /\ Len(Asks(r)) = 2 + Len(Late(r))
      /\ \A i \in 1 .. 2 : Asks(r)[i] = Early(r)[i]
      /\ \A i \in 1 .. Len(Late(r)) : Asks(r)[2 + i] = Late(r)[i]
  <2>1. /\ Len(Asks(r)) = Len(Early(r)) + Len(Late(r))
        /\ \A i \in 1 .. Len(Early(r)) : Asks(r)[i] = Early(r)[i]
        /\ \A i \in 1 .. Len(Late(r)) : Asks(r)[Len(Early(r)) + i] = Late(r)[i]
    BY AsksType
  <2> QED  BY <1>6, <2>1
<1>9. \A i \in 3 .. Len(Asks(r)) : Asks(r)[i] \in {RtShare, KeyLock(Of(r))}
  <2> SUFFICES ASSUME NEW i \in 3 .. Len(Asks(r))
               PROVE  Asks(r)[i] \in {RtShare, KeyLock(Of(r))}
    OBVIOUS
  <2>1. i - 2 \in 1 .. Len(Late(r)) /\ 2 + (i - 2) = i
    BY <1>7, <1>8
  <2> QED  BY <1>7, <1>8, <2>1
<1>10. Asks(r)[1] = Early(r)[1] /\ Asks(r)[2] = Early(r)[2]
  <2>1. 1 \in 1 .. 2 /\ 2 \in 1 .. 2
    OBVIOUS
  <2> QED  BY <1>8, <2>1
<1>11. Len(Asks(r)) \in {3, 4}
  <2>1. Len(Asks(r)) = 2 + Len(Late(r))
    BY <1>8
  <2>2. Len(Late(r)) = 1 \/ Len(Late(r)) = 2
    BY <1>7
  <2>3. CASE Len(Late(r)) = 1
    BY <2>1, <2>3
  <2>4. CASE Len(Late(r)) = 2
    BY <2>1, <2>4
  <2> QED  BY <2>2, <2>3, <2>4
<1>12. Asks(r)[1] = ForUpdate(Lower(r)) /\ Asks(r)[2] = ForUpdate(Upper(r))
  BY <1>6, <1>10
<1>13. Len(Early(r)) = 2
  BY <1>6
<1> QED  BY <1>3, <1>9, <1>11, <1>12, <1>13

\* A transfer in a circle waits for one of its rows: a reversal that waits for
\* its key would have to wait for another reversal of the same transfer,
\* which has the rows it has itself.
LEMMA WaitsForRow ==
    ASSUME Inv, NEW s \in Sessions, NEW o \in Blockers(s), IsTransfer(Req(s)), IsTransfer(Req(o))
    PROVE  /\ session[s].got \in {0, 1}
           /\ \/ session[o].got = 1 /\ Wanted(s)[1] = Row(Lower(Req(o)))
              \/ session[o].got > 1
<1>1. /\ o \in Sessions /\ o # s /\ Waiting(s)
      /\ SessionRow(session[s]) /\ Held(s) = LockedBy(session[s])
      /\ SessionRow(session[o]) /\ Held(o) = LockedBy(session[o])
      /\ Req(s) \in Requests \cup {NoRequest} /\ Req(o) \in Requests \cup {NoRequest}
  BY RowOf DEF Blockers
<1>2. PICK have \in Held(o) : have[1] = Wanted(s)[1] /\ Conflict(have[2], Wanted(s)[2])
  BY DEF Blockers
<1>3. PICK i \in 1 .. session[o].got : have = Asks(Req(o))[i]
  BY <1>1 DEF LockedBy, Req
<1>4. /\ Len(Early(Req(s))) = 2 /\ Len(Asks(Req(s))) \in {3, 4}
      /\ Asks(Req(s))[1] = ForUpdate(Lower(Req(s)))
      /\ \A j \in 3 .. Len(Asks(Req(s))) : Asks(Req(s))[j] \in {RtShare, KeyLock(Of(Req(s)))}
  BY <1>1, TransferAsks
<1>5. /\ Len(Asks(Req(o))) \in {3, 4}
      /\ Asks(Req(o))[1] = ForUpdate(Lower(Req(o))) /\ Asks(Req(o))[2] = ForUpdate(Upper(Req(o)))
      /\ \A j \in 3 .. Len(Asks(Req(o))) : Asks(Req(o))[j] \in {RtShare, KeyLock(Of(Req(o)))}
  BY <1>1, TransferAsks
<1>6. /\ session[s].got \in Nat /\ session[s].got < Len(Asks(Req(s)))
      /\ session[o].got \in Nat /\ session[o].got <= Len(Asks(Req(o)))
  <2>1. session[s].got \in Nat /\ session[o].got \in Nat
    BY <1>1 DEF SessionRow
  <2>2. session[o].got <= Len(Asks(session[o].req))
    BY <1>1, RowFacts
  <2>3. session[s].got < Goal(s)
    BY <1>1 DEF Waiting
  <2>4. Goal(s) \in {Len(Asks(Req(s))), Len(Early(Req(s)))}
    BY DEF Goal
  <2>5. session[s].got < Len(Asks(Req(s)))
    <3> DEFINE a == Len(Asks(Req(s)))
               e == Len(Early(Req(s)))
    <3>1. e = 2 /\ a \in {3, 4} /\ session[s].got \in Nat /\ session[s].got < Goal(s) /\ Goal(s) \in {a, e}
      BY <1>4, <2>1, <2>3, <2>4
    <3> HIDE DEF a, e
    <3>2. session[s].got < a
      BY <3>1
    <3> QED  BY <3>2 DEF a
  <2> QED  BY <2>1, <2>2, <2>5 DEF Req
<1>7. CASE session[s].got >= 2
  <2>1. Wanted(s) \in {RtShare, KeyLock(Of(Req(s)))}
    BY <1>4, <1>6, <1>7 DEF Wanted
  <2>2. \/ have = ForUpdate(Lower(Req(o))) \/ have = ForUpdate(Upper(Req(o)))
        \/ i >= 3 /\ have \in {RtShare, KeyLock(Of(Req(o)))}
    BY <1>3, <1>5, <1>6
  <2>3. i >= 3 /\ have = KeyLock(Of(Req(o))) /\ Of(Req(o)) = Of(Req(s))
    BY <1>2, <2>1, <2>2, LockParts
  <2>4. Lower(Req(o)) = Lower(Req(s))
    BY <2>3 DEF Lower
  <2>5. ForUpdate(Lower(Req(s))) \in Held(s)
    BY <1>1, <1>4, <1>6, <1>7 DEF LockedBy, Req
  <2>6. ForUpdate(Lower(Req(s))) \in Held(o)
    BY <1>1, <1>5, <1>6, <2>3, <2>4 DEF LockedBy, Req
  <2>7. ~Conflict("update", "update")
    <3> DEFINE lock == ForUpdate(Lower(Req(s)))
    <3>1. lock \in Held(s) /\ lock \in Held(o) /\ lock[2] = "update"
      BY <2>5, <2>6, LockParts
    <3> HIDE DEF lock
    <3>2. ~Conflict(lock[2], lock[2])
      BY <1>1, <3>1 DEF Inv, Compatible
    <3> QED  BY <3>1, <3>2
  <2> QED  BY <2>7, LockParts
<1>8. CASE session[s].got < 2
  <2>1. session[s].got \in {0, 1}
    BY <1>6, <1>8
  <2>2. CASE session[o].got = 1
    <3>1. i = 1
      BY <2>2
    <3>2. have = ForUpdate(Lower(Req(o)))
      BY <1>3, <1>5, <3>1
    <3>3. have[1] = Row(Lower(Req(o)))
      BY <3>2, LockParts
    <3> QED  BY <1>2, <2>1, <2>2, <3>3
  <2> QED  BY <1>3, <1>6, <2>1, <2>2
<1> QED  BY <1>6, <1>7, <1>8
-----------------------------------------------------------------------------
(* The theorems. *)

THEOREM Invariant == Spec => []Inv
<1> QED  BY InitInv, NextInv, PTL DEF Spec

\* Rows of the tables and of the sessions are well formed, and who writes has
\* the locks its handler takes (internal/fund_location/repository.go).
THEOREM FundTypes == Spec => []TypeOK
<1>1. Inv => TypeOK
  BY DEF Inv
<1> QED  BY <1>1, Invariant, PTL

\* No location pays out more than it has, however transfers, reversals and
\* expenses cross (CreateTransfer, ReverseTransfer, CreateManualTransaction,
\* ReverseTransaction).
THEOREM NeverOverdrawn == Spec => []NoOverdraft
<1>1. Inv => NoOverdraft
  BY DEF Inv
<1> QED  BY <1>1, Invariant, PTL

\* A transfer is returned at most once, although ReverseTransfer counts the
\* reversals before it locks anything.
THEOREM ReturnedOnce == Spec => []TransferReturnedOnce
<1>1. Inv => TransferReturnedOnce
  BY DEF Inv
<1> QED  BY <1>1, Invariant, PTL

\* SetOpeningBalance reads K, then L, under the lock of its own location: as
\* long as no money leaves the KAS without a location and no two allocations,
\* or an allocation and an expense, overlap, the locations never hold more
\* than the KAS, however everything else crosses.
THEOREM AllocationsStayCovered == Spec => []AllocationsCovered
<1>1. Funded => AllocationsCovered
  BY DEF Funded, AllocationsCovered
<1> QED  BY <1>1, Invariant, InitFunds, NextFunds, PTL DEF Spec

\* A transfer takes effect between two locations that are active then:
\* DeactivateLocation cannot come between its check and its commit.
THEOREM JoinsActive == Spec => TransfersBetweenActive
<1>1. Inv /\ [Next]_vars =>
         [\A t \in made' \ made : {state'[From[t]], state'[To[t]]} = {"active"}]_vars
  <2> SUFFICES ASSUME Inv, Next, NEW t \in made' \ made
               PROVE  {state'[From[t]], state'[To[t]]} = {"active"}
    OBVIOUS
  <2>1. PICK s \in Sessions : Commit(s)
    BY DEF Next, Arrive, Read, Lock, ReadKas, Decide, BreakDeadlock, Abort, Rollback, Become, tables
  <2>2. Req(s) = <<"transfer", t>> /\ t \in Transfers
    BY <2>1 DEF Commit
  <2>3. state[From[t]] = "active" /\ state[To[t]] = "active"
    BY <2>1, <2>2, RowOf DEF Commit, Decided, ActiveEnds, Req, Handler, Of
  <2>4. From[t] \in Locations /\ To[t] \in Locations
    BY <2>2, Columns
  <2>5. state' = [l \in Locations |-> state[l]]
    BY <2>1, <2>2 DEF Commit
  <2> QED  BY <2>3, <2>4, <2>5
<1> QED  BY <1>1, Invariant, PTL DEF Spec, TransfersBetweenActive

\* "circular wait condition mustahil terjadi" (docs/lokasi-dana-design.md):
\* transfers and their reversals lock their two rows in the order of the ids
\* and so never deadlock among themselves; the ids have an upper bound N.
THEOREM TransfersNeverDeadlock ==
    ASSUME NEW N \in Nat, \A l \in Locations : Rank[l] <= N
    PROVE  Spec => []TransfersDoNotDeadlock
<1>1. Inv => TransfersDoNotDeadlock
  <2> SUFFICES ASSUME Inv, NEW S \in SUBSET Sessions, Deadlocked(S),
                      \A s \in S : IsTransfer(Req(s))
               PROVE  FALSE
    BY DEF TransfersDoNotDeadlock
  <2>1. \A s \in S : \E o \in S : o \in Blockers(s)
    BY DEF Deadlocked
  <2>2. \A s \in S : session[s].got \in {0, 1} /\ Req(s) \in Requests \cup {NoRequest}
    BY <2>1, WaitsForRow, RowOf
  <2> DEFINE want(s) == IF session[s].got = 0 THEN Lower(Req(s)) ELSE Upper(Req(s))
             T == {Rank[want(s)] : s \in S}
  <2>3. \A s \in S : want(s) \in Locations /\ Wanted(s)[1] = Row(want(s))
    <3> SUFFICES ASSUME NEW s \in S
                 PROVE  want(s) \in Locations /\ Wanted(s)[1] = Row(want(s))
      OBVIOUS
    <3>1. IsTransfer(Req(s)) /\ Req(s) \in Requests \cup {NoRequest} /\ session[s].got \in {0, 1}
      BY <2>2
    <3>2. /\ Lower(Req(s)) \in Locations /\ Upper(Req(s)) \in Locations
          /\ Asks(Req(s))[1] = ForUpdate(Lower(Req(s))) /\ Asks(Req(s))[2] = ForUpdate(Upper(Req(s)))
      BY <3>1, TransferAsks
    <3>3. CASE session[s].got = 0
      <4>1. Wanted(s) = ForUpdate(Lower(Req(s)))
        BY <3>2, <3>3 DEF Wanted
      <4> QED  BY <3>2, <3>3, <4>1, LockParts
    <3>4. CASE session[s].got = 1
      <4>1. Wanted(s) = ForUpdate(Upper(Req(s)))
        BY <3>2, <3>4 DEF Wanted
      <4> QED  BY <3>2, <3>4, <4>1, LockParts
    <3> QED  BY <3>1, <3>3, <3>4
  <2>4. \A s \in S : \E o \in S : Rank[want(s)] < Rank[want(o)]
    <3> SUFFICES ASSUME NEW s \in S
                 PROVE  \E o \in S : Rank[want(s)] < Rank[want(o)]
      OBVIOUS
    <3>1. PICK o \in S : o \in Blockers(s)
      BY <2>1
    <3>2. session[o].got = 1 /\ Wanted(s)[1] = Row(Lower(Req(o)))
      BY <2>2, <3>1, WaitsForRow
    <3>3. want(s) = Lower(Req(o)) /\ want(o) = Upper(Req(o))
      BY <2>3, <3>2 DEF Row
    <3>4. Rank[Lower(Req(o))] < Rank[Upper(Req(o))]
      BY <2>2, TransferAsks
    <3> QED  BY <3>3, <3>4
  <2> HIDE DEF want
  <2>5. T \subseteq 0 .. N /\ T # {}
    BY <2>3, Columns DEF Deadlocked
  <2>6. PICK x \in T : \A y \in T : y <= x
    <3> HIDE DEF T
    <3> QED  BY <2>5, LargestNumber
  <2>7. PICK s \in S : x = Rank[want(s)]
    OBVIOUS
  <2>8. PICK o \in S : Rank[want(s)] < Rank[want(o)]
    BY <2>4
  <2>9. Rank[want(o)] <= Rank[want(s)]
    BY <2>6, <2>7
  <2>10. Rank[want(s)] \in Nat /\ Rank[want(o)] \in Nat
    BY <2>3, Columns
  <2> QED  BY <2>8, <2>9, <2>10
<1> QED  BY <1>1, Invariant, PTL
=============================================================================
