----------------------------- MODULE Idempotency -----------------------------
(***************************************************************************)
(* Idempotency keys (internal/finance/idempotency.go): a client repeats a  *)
(* request under one key, several API instances may get the copies at the  *)
(* same time, instances crash and connections break.                       *)
(*                                                                         *)
(* A call takes a connection of its instance's pool and polls a session    *)
(* advisory lock for the key; under the lock it looks for a stored         *)
(* response, and otherwise runs the handler.  The handler of               *)
(* POST /payments (requests InTx) runs on the same connection and stores   *)
(* the response in its own transaction; the other handlers take a second   *)
(* connection and leave the storing to Finish, after their commit.         *)
(***************************************************************************)
EXTENDS Integers, FiniteSets, Functions

CONSTANTS
    Calls,       \* HTTP calls that can be made
    Requests,    \* what clients ask for (user, path and body)
    InTx,        \* the requests whose handler calls session.Save
    Keys, KeyOf, \* the key each request is sent under
    Instances,   \* API processes
    Connections, \* SetMaxOpenConns: connections per instance
    Nobody

ASSUME FiniteCalls == IsFiniteSet(Calls)

ASSUME Setting == /\ InTx \subseteq Requests /\ KeyOf \in [Requests -> Keys]
                  /\ Connections \in Nat \ {0} /\ Nobody \notin Calls

VARIABLES
    call,   \* where each call is
    lock,   \* lock[k]: the call whose session holds the advisory lock of k
    stored, \* idempotency_keys: stored[k].of is Nobody if there is no row
    done    \* done[r]: how often the work of request r has been committed

vars == <<call, lock, stored, done>>

Codes == {"none", "ok", "refused", "conflict", "error"}
Steps == {"new", "connect", "try", "lookup", "begin", "work", "commit",
          "persist", "flush", "end"}

NotStored == [of |-> Nobody, code |-> "none"]
Blank(r, i) == [step |-> "connect", req |-> r, at |-> i, code |-> "none",
                saved |-> FALSE, alive |-> TRUE, answer |-> "none"]

Key(c) == KeyOf[call[c].req]
OnOwnConnection(c) == call[c].req \in InTx

\* Connections a call holds: one for the lock, one for the handler's transaction.
Held(c) == IF call[c].step \in {"new", "connect", "end"} THEN 0
           ELSE IF call[c].step \in {"work", "commit"} /\ ~OnOwnConnection(c) THEN 2 ELSE 1

\* The connections of an instance that are in use: the first, or the second, of a call.
InUse(i) == {use \in Calls \X {1, 2} : call[use[1]].at = i /\ use[2] <= Held(use[1])}

Free(i) == Connections - Cardinality(InUse(i))

\* The session of c ends or unlocks.
Unlock(c) == [k \in Keys |-> IF lock[k] = c THEN Nobody ELSE lock[k]]

Goto(c, s) == call' = [call EXCEPT ![c].step = s]
GotoWith(c, s, code) == call' = [call EXCEPT ![c] = [@ EXCEPT !.step = s, !.code = code]]

Init ==
    /\ \E r \in Requests, i \in Instances :
          call = [c \in Calls |-> [Blank(r, i) EXCEPT !.step = "new"]]
    /\ lock = [k \in Keys |-> Nobody]
    /\ stored = [k \in Keys |-> NotStored]
    /\ done = [r \in Requests |-> 0]

Send(c) ==
    /\ call[c].step = "new"
    /\ \E r \in Requests, i \in Instances : call' = [call EXCEPT ![c] = Blank(r, i)]
    /\ UNCHANGED <<lock, stored, done>>

\* Faulty: the call ends with the key locked.
AnswerLocked(c, code) ==
    /\ call' = [call EXCEPT ![c] = [@ EXCEPT !.step = "end", !.answer = code]]
    /\ UNCHANGED <<lock, stored, done>>

\* c is answered, unlocks and gives its connection back.
Answer(c, code) ==
    /\ call' = [call EXCEPT ![c] = [@ EXCEPT !.step = "end", !.answer = code]]
    /\ lock' = Unlock(c)
    /\ UNCHANGED <<stored, done>>

\* Faulty: the handler begins its transaction with a context of its own.
GiveUpConnecting(c) == call[c].step = "connect" /\ Answer(c, "error")

\* The client is gone and r.Context() is done: whoever waits for a connection
\* on its behalf, for the lock or for a transaction under it, stops.
GiveUp(c) ==
    \/ call[c].step = "connect" /\ Answer(c, "error")
    \/ /\ call[c].step = "begin"
       /\ GotoWith(c, "persist", "error")
       /\ UNCHANGED <<lock, stored, done>>

Connect(c) ==
    /\ call[c].step = "connect" /\ Free(call[c].at) > 0
    /\ Goto(c, "try")
    /\ UNCHANGED <<lock, stored, done>>

\* pg_try_advisory_lock; without success, give the connection back and retry.
TryLock(c) ==
    /\ call[c].step = "try"
    /\ \/ /\ lock[Key(c)] = Nobody
          /\ lock' = [lock EXCEPT ![Key(c)] = c]
          /\ Goto(c, "lookup")
       \/ /\ lock[Key(c)] # Nobody
          /\ Goto(c, "connect")
          /\ UNCHANGED lock
    /\ UNCHANGED <<stored, done>>

\* Faulty: the stored response is replayed whatever was asked.
ReplayAny(c) ==
    /\ call[c].step = "lookup"
    /\ \/ /\ stored[Key(c)] = NotStored
          /\ Goto(c, "begin")
          /\ UNCHANGED <<lock, stored, done>>
       \/ stored[Key(c)] # NotStored /\ Answer(c, stored[Key(c)].code)

Lookup(c) ==
    /\ call[c].step = "lookup"
    /\ \/ /\ stored[Key(c)] = NotStored
          /\ Goto(c, "begin")
          /\ UNCHANGED <<lock, stored, done>>
       \/ stored[Key(c)].of = call[c].req /\ Answer(c, stored[Key(c)].code)
       \/ stored[Key(c)].of \notin {call[c].req, Nobody} /\ Answer(c, "conflict")

\* The lock or the lookup fails, or the session was lost: 500.
Fail(c) == /\ call[c].step \in {"try", "lookup"}
           /\ Answer(c, "error")

Begin(c) ==
    /\ call[c].step = "begin"
    /\ OnOwnConnection(c) \/ Free(call[c].at) > 0
    /\ Goto(c, "work")
    /\ UNCHANGED <<lock, stored, done>>

\* The service runs inside the transaction; session.Save adds the response.
\* An error of the service, one of the database included, is a 400: the
\* transaction is rolled back.  Begin and Save fail with a 500.
Work(c) ==
    /\ call[c].step = "work"
    /\ \/ call' = [call EXCEPT ![c] = [@ EXCEPT !.step = "commit", !.code = "ok",
                                        !.saved = OnOwnConnection(c)]]
       \/ \E code \in {"refused", "error"} :
             GotoWith(c, "persist", code)
    /\ UNCHANGED <<lock, stored, done>>

Store(c, code) == [stored EXCEPT ![Key(c)] = [of |-> call[c].req, code |-> code]]

\* Faulty: the handler's transaction does not carry the response.
CommitWithoutSave(c) ==
    /\ call[c].step = "commit"
    /\ done' = [done EXCEPT ![call[c].req] = @ + 1]
    /\ call' = [call EXCEPT ![c] = [@ EXCEPT !.step = "persist", !.saved = FALSE]]
    /\ UNCHANGED <<lock, stored>>

\* tx.Commit: done; done but the reply is lost; or not done.  A transaction
\* on a connection that broke is rolled back.
Commit(c) ==
    /\ call[c].step = "commit"
    /\ \/ /\ call[c].alive \/ ~OnOwnConnection(c)
          /\ done' = [done EXCEPT ![call[c].req] = @ + 1]
          /\ stored' = IF call[c].saved THEN Store(c, "ok") ELSE stored
          /\ \E code \in {"ok", "error"} :
                GotoWith(c, "persist", code)
       \/ /\ GotoWith(c, "persist", "error")
          /\ UNCHANGED <<stored, done>>
    /\ UNCHANGED lock

\* Faulty: the response is given out even if it could not be stored.
PersistOrNot(c) ==
    /\ call[c].step = "persist"
    /\ stored' \in {stored, Store(c, call[c].code)}
    /\ Goto(c, "flush")
    /\ UNCHANGED <<lock, done>>

\* Finish, first half: store what Save has not stored, unless it is a 500; a
\* response that cannot be stored becomes a 500.
Persist(c) ==
    /\ call[c].step = "persist"
    /\ \/ (call[c].saved \/ call[c].code = "error") /\ Goto(c, "flush") /\ UNCHANGED stored
       \/ /\ ~call[c].saved /\ call[c].code # "error"
          /\ call[c].alive /\ stored[Key(c)] = NotStored
          /\ stored' = Store(c, call[c].code)
          /\ Goto(c, "flush")
       \/ /\ ~call[c].saved /\ call[c].code # "error"
          /\ GotoWith(c, "flush", "error")
          /\ UNCHANGED stored
    /\ UNCHANGED <<lock, done>>

\* Finish, second half: answer, unlock, close.  The answer may get lost.
Flush(c) ==
    /\ call[c].step = "flush"
    /\ \E code \in {call[c].code, "none"} : Answer(c, code)

\* The connection of a call breaks: its session, and the lock, are gone, while
\* the handler goes on.
LoseSession(c) ==
    /\ call[c].step \in {"begin", "work", "commit", "persist"} /\ call[c].alive
    /\ call' = [call EXCEPT ![c].alive = FALSE]
    /\ lock' = Unlock(c)
    /\ UNCHANGED <<stored, done>>

\* An instance crashes and restarts: its calls are never answered, its
\* transactions are rolled back and its locks are free.
Crash(i) ==
    LET lost == {c \in Calls : call[c].at = i /\ call[c].step \notin {"new", "end"}} IN
    /\ lost # {}
    /\ call' = [c \in Calls |-> IF c \in lost THEN [call[c] EXCEPT !.step = "end"] ELSE call[c]]
    /\ lock' = [k \in Keys |-> IF lock[k] \in lost THEN Nobody ELSE lock[k]]
    /\ UNCHANGED <<stored, done>>

Serve(c) == Connect(c) \/ TryLock(c) \/ Lookup(c) \/ Begin(c) \/ Work(c) \/ Commit(c)
            \/ Persist(c) \/ Flush(c)

Next == \/ \E c \in Calls : Send(c) \/ Serve(c) \/ GiveUp(c) \/ Fail(c) \/ LoseSession(c)
        \/ \E i \in Instances : Crash(i)

\* Goroutines run; the pool passes over nobody who waits for a connection again
\* and again; and a client whose answer does not come gives up: the web client
\* after TIMEOUT_MS, the mobile one after ApiConfig.receiveTimeout.
Fairness == \A c \in Calls : /\ WF_vars(Serve(c)) /\ WF_vars(GiveUp(c))
                             /\ SF_vars(Connect(c)) /\ SF_vars(Begin(c))

Spec == Init /\ [][Next]_vars /\ Fairness
-----------------------------------------------------------------------------
(* Properties. *)

CallStates == [step : Steps, req : Requests, at : Instances, code : Codes,
               saved : BOOLEAN, alive : BOOLEAN, answer : Codes]

\* Every call is at one of its steps, and a lock is held by a call that needs it.
TypeOK ==
    /\ call \in [Calls -> CallStates]
    /\ lock \in [Keys -> Calls \cup {Nobody}]
    /\ stored \in [Keys -> [of : Requests \cup {Nobody}, code : Codes]]
    /\ done \in [Requests -> Nat]
    /\ \A i \in Instances : Free(i) >= 0
    /\ \A k \in Keys : lock[k] # Nobody => Key(lock[k]) = k /\ Held(lock[k]) > 0

\* However often a payment is sent, to however many instances, with crashes and
\* broken connections in between, at most one is made per key.
PaidOncePerKey ==
    \A r \in InTx : /\ done[r] <= 1
                    /\ \A q \in InTx \ {r} :
                          KeyOf[q] = KeyOf[r] => done[q] = 0 \/ done[r] = 0

\* A client that is told "created" has its own payment, and one that is told
\* "refused" has none, whichever of its copies was carried out.
AnswersAreTrue ==
    \A c \in Calls : LET r == call[c].req IN
       r \in InTx => /\ call[c].answer = "ok" => done[r] = 1
                     /\ call[c].answer = "refused" => done[r] = 0

\* Copies of one request never get different final answers.
CopiesAgree ==
    \A c, d \in Calls :
       call[c].req = call[d].req /\ {call[c].answer, call[d].answer} \subseteq {"ok", "refused"}
       => call[c].answer = call[d].answer

\* Every call ends, although calls that hold a lock, and a connection for it,
\* wait for a second connection: one that the calls polling for the lock keep
\* taking, or, once such calls are as many as the pool has connections, one that
\* nobody can give back.  Then it is only the clients' giving up that ends them.
EveryCallEnds == \A c \in Calls : call[c].step = "connect" ~> call[c].step = "end"

\* "Duplicate payment requests (via Idempotency-Key header or same payment ID)
\* MUST NOT create duplicate KAS income records."
NoDuplicateIncome ==
    \A k \in Keys : SumFunctionOnSet(done, {r \in Requests : KeyOf[r] = k}) <= 1
=============================================================================
