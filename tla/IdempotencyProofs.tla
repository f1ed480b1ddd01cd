-------------------------- MODULE IdempotencyProofs --------------------------
(***************************************************************************)
(* Theorems about Idempotency, for any number of calls, requests, keys and *)
(* instances: what a stored response says is what was done, and nobody is  *)
(* answered anything else; no pool gives out more connections than it has, *)
(* and a lock is held by a call that uses it.                              *)
(***************************************************************************)
EXTENDS Idempotency, FiniteSetTheorems, TLAPS

-----------------------------------------------------------------------------
(* The invariants. *)

Typed ==
    /\ call \in [Calls -> CallStates]
    /\ lock \in [Keys -> Calls \cup {Nobody}]
    /\ stored \in [Keys -> [of : Requests \cup {Nobody}, code : Codes]]
    /\ done \in [Requests -> Nat]

(* A call whose session lives holds the lock from its lookup to its end.   *)
Holding == {"lookup", "begin", "work", "commit", "persist", "flush"}
Locked ==
    \A c \in Calls : call[c].step \in Holding /\ call[c].alive => lock[Key(c)] = c

(* What it found - no response - is still so when it writes one.           *)
Looking == {"begin", "work", "commit"}
StillNone ==
    \A c \in Calls : call[c].step \in Looking /\ call[c].alive => stored[Key(c)] = NotStored

(* What was saved with the transaction, and what is given out, is stored.  *)
Says(c, code) == stored[Key(c)].of = call[c].req /\ stored[Key(c)].code = code
Truthful(c) ==
    /\ call[c].saved => call[c].step \in {"commit", "persist", "flush", "end"}
    /\ call[c].step = "commit" =>
          call[c].code = "ok" /\ (call[c].saved <=> call[c].req \in InTx)
    /\ call[c].step \in {"persist", "flush"} => call[c].code \in {"ok", "refused", "error"}
    /\ call[c].step = "persist" /\ call[c].code = "ok" /\ call[c].req \in InTx => call[c].saved
    /\ call[c].step = "persist" /\ call[c].saved /\ call[c].code # "error"
          => Says(c, call[c].code)
    /\ call[c].step = "flush" /\ call[c].code \in {"ok", "refused"} => Says(c, call[c].code)
    /\ call[c].answer \in {"ok", "refused"} => Says(c, call[c].answer)
SavedFirst == \A c \in Calls : Truthful(c)

(* A payment that was made has its response stored, and the other way.     *)
Recorded ==
    \A r \in InTx :
        /\ done[r] = 0 \/ done[r] = 1
        /\ done[r] = 1 <=> stored[KeyOf[r]].of = r /\ stored[KeyOf[r]].code = "ok"

KeyInv == Typed /\ Locked /\ StillNone /\ SavedFirst /\ Recorded

-----------------------------------------------------------------------------
(* What becomes of a call. *)

Others(c) == \A d \in Calls \ {c} : call'[d] = call[d]
Kept(c) == /\ call'[c].req = call[c].req /\ call'[c].at = call[c].at
           /\ call'[c].alive = call[c].alive

\* A call that moves on, or loses its session, is a call.
LEMMA Moved ==
    ASSUME NEW v \in CallStates
    PROVE  /\ \A s \in Steps : [v EXCEPT !.step = s] \in CallStates
           /\ [v EXCEPT !.alive = FALSE] \in CallStates
    BY DEF CallStates

\* So is one that moves on with a code, or an answer.
LEMMA MovedWith ==
    ASSUME NEW v \in CallStates, NEW s \in Steps, NEW code \in Codes
    PROVE  /\ [v EXCEPT !.step = s, !.code = code] \in CallStates
           /\ [v EXCEPT !.step = s, !.answer = code] \in CallStates
           /\ \A b \in BOOLEAN :
                 [v EXCEPT !.step = s, !.code = code, !.saved = b] \in CallStates
    BY DEF CallStates

\* Moving on changes the step of one call.
LEMMA GotoMoves ==
    ASSUME Typed, NEW c \in Calls, NEW s \in Steps, Goto(c, s)
    PROVE  /\ call' \in [Calls -> CallStates] /\ Others(c) /\ Kept(c)
           /\ call'[c].step = s /\ call'[c].code = call[c].code
           /\ call'[c].saved = call[c].saved /\ call'[c].answer = call[c].answer
<1> DEFINE v == [call[c] EXCEPT !.step = s]
<1>1. call[c] \in CallStates /\ call' = [call EXCEPT ![c] = v]
    BY DEF Typed, Goto
<1>2. v \in CallStates
    BY <1>1, Moved, Zenon
<1>3. call' \in [Calls -> CallStates] /\ Others(c) /\ call'[c] = v
    BY <1>1, <1>2 DEF Typed, Others
<1>4. /\ v.step = s /\ v.code = call[c].code /\ v.answer = call[c].answer
      /\ v.req = call[c].req /\ v.at = call[c].at /\ v.alive = call[c].alive /\ v.saved = call[c].saved
    BY <1>1 DEF CallStates
<1> QED
    BY <1>3, <1>4 DEF Kept

\* Moving on with a code changes its step and code.
LEMMA GotoWithMoves ==
    ASSUME Typed, NEW c \in Calls, NEW s \in Steps, NEW code \in Codes, GotoWith(c, s, code)
    PROVE  /\ call' \in [Calls -> CallStates] /\ Others(c) /\ Kept(c)
           /\ call'[c].step = s /\ call'[c].code = code
           /\ call'[c].saved = call[c].saved /\ call'[c].answer = call[c].answer
<1> DEFINE v == [call[c] EXCEPT !.step = s, !.code = code]
<1>1. call[c] \in CallStates /\ call' = [call EXCEPT ![c] = v]
    BY DEF Typed, GotoWith
<1>2. v \in CallStates
    BY <1>1, MovedWith, Zenon
<1>3. call' \in [Calls -> CallStates] /\ Others(c) /\ call'[c] = v
    BY <1>1, <1>2 DEF Typed, Others
<1>4. /\ v.step = s /\ v.code = code /\ v.answer = call[c].answer
      /\ v.req = call[c].req /\ v.at = call[c].at /\ v.alive = call[c].alive /\ v.saved = call[c].saved
    BY <1>1 DEF CallStates
<1> QED
    BY <1>3, <1>4 DEF Kept

\* Answering ends the call, releases its lock and stores nothing.
LEMMA AnswerMoves ==
    ASSUME Typed, NEW c \in Calls, NEW code \in Codes, Answer(c, code)
    PROVE  /\ call' \in [Calls -> CallStates] /\ Others(c) /\ Kept(c)
           /\ call'[c].step = "end" /\ call'[c].code = call[c].code
           /\ call'[c].saved = call[c].saved /\ call'[c].answer = code
           /\ lock' = Unlock(c) /\ stored' = stored /\ done' = done
<1> DEFINE v == [call[c] EXCEPT !.step = "end", !.answer = code]
<1>1. call[c] \in CallStates /\ call' = [call EXCEPT ![c] = v]
    BY DEF Typed, Answer
<1>2. v \in CallStates
    BY <1>1, MovedWith, Zenon DEF Steps
<1>3. call' \in [Calls -> CallStates] /\ Others(c) /\ call'[c] = v
    BY <1>1, <1>2 DEF Typed, Others
<1>4. /\ v.step = "end" /\ v.code = call[c].code /\ v.answer = code
      /\ v.req = call[c].req /\ v.at = call[c].at /\ v.alive = call[c].alive /\ v.saved = call[c].saved
    BY <1>1 DEF CallStates
<1> QED
    BY <1>3, <1>4 DEF Kept, Answer

\* Sending starts a call with nothing saved and nothing answered.
LEMMA SendMoves ==
    ASSUME Typed, NEW c \in Calls, Send(c)
    PROVE  /\ call' \in [Calls -> CallStates] /\ Others(c)
           /\ call[c].step = "new" /\ call'[c].step = "connect" /\ call'[c].alive
           /\ call'[c].saved = FALSE /\ call'[c].answer = "none"
<1>1. PICK r \in Requests, i \in Instances : call' = [call EXCEPT ![c] = Blank(r, i)]
    BY DEF Send
<1>2. Blank(r, i) \in CallStates
    BY DEF Blank, CallStates, Steps, Codes
<1>3. call' \in [Calls -> CallStates] /\ Others(c) /\ call'[c] = Blank(r, i)
    BY <1>1, <1>2 DEF Typed, Others
<1> QED
    BY <1>3 DEF Blank, Send

\* Work that succeeded leads to a commit, with or without the response in it.
LEMMA CommitMoves ==
    ASSUME Typed, NEW c \in Calls, NEW b \in BOOLEAN,
           call' = [call EXCEPT ![c] = [@ EXCEPT !.step = "commit", !.code = "ok", !.saved = b]]
    PROVE  /\ call' \in [Calls -> CallStates] /\ Others(c) /\ Kept(c)
           /\ call'[c].step = "commit" /\ call'[c].code = "ok"
           /\ call'[c].saved = b /\ call'[c].answer = call[c].answer
<1> DEFINE v == [call[c] EXCEPT !.step = "commit", !.code = "ok", !.saved = b]
<1>1. call[c] \in CallStates /\ call' = [call EXCEPT ![c] = v]
    BY DEF Typed
<1>2. v \in CallStates
    BY <1>1, MovedWith, Zenon DEF Steps, Codes
<1>3. call' \in [Calls -> CallStates] /\ Others(c) /\ call'[c] = v
    BY <1>1, <1>2 DEF Typed, Others
<1>4. /\ v.step = "commit" /\ v.code = "ok" /\ v.answer = call[c].answer
      /\ v.req = call[c].req /\ v.at = call[c].at /\ v.alive = call[c].alive
    BY <1>1 DEF CallStates
<1>5. v.saved = b
    BY <1>1 DEF CallStates
<1> QED
    BY <1>3, <1>4, <1>5 DEF Kept

\* A lost session changes nothing else of its call.
LEMMA LoseMoves ==
    ASSUME Typed, NEW c \in Calls, LoseSession(c)
    PROVE  /\ call' \in [Calls -> CallStates] /\ Others(c)
           /\ call'[c].step = call[c].step /\ call'[c].code = call[c].code
           /\ call'[c].saved = call[c].saved /\ call'[c].answer = call[c].answer
           /\ call'[c].req = call[c].req /\ call'[c].at = call[c].at /\ ~call'[c].alive
<1> DEFINE v == [call[c] EXCEPT !.alive = FALSE]
<1>1. call[c] \in CallStates /\ call' = [call EXCEPT ![c] = v]
    BY DEF Typed, LoseSession
<1>2. v \in CallStates
    BY <1>1, Moved, Zenon
<1>3. call' \in [Calls -> CallStates] /\ Others(c) /\ call'[c] = v
    BY <1>1, <1>2 DEF Typed, Others
<1>4. /\ v.step = call[c].step /\ v.code = call[c].code /\ v.answer = call[c].answer
      /\ v.req = call[c].req /\ v.at = call[c].at /\ v.saved = call[c].saved /\ ~v.alive
    BY <1>1 DEF CallStates
<1> QED
    BY <1>3, <1>4

\* A crash ends the calls of its instance and takes no lock from the others.
LEMMA CrashMoves ==
    ASSUME Typed, NEW i \in Instances, Crash(i)
    PROVE  /\ call' \in [Calls -> CallStates]
           /\ \A c \in Calls :
                 \/ call'[c] = call[c] /\ \A k \in Keys : lock[k] = c => lock'[k] = c
                 \/ /\ call'[c].step = "end" /\ call'[c].code = call[c].code
                    /\ call'[c].saved = call[c].saved /\ call'[c].answer = call[c].answer
                    /\ call'[c].req = call[c].req /\ call'[c].at = call[c].at
<1> DEFINE lost == {c \in Calls : call[c].at = i /\ call[c].step \notin {"new", "end"}}
<1>1. /\ call' = [c \in Calls |->
                     IF c \in lost THEN [call[c] EXCEPT !.step = "end"] ELSE call[c]]
      /\ lock' = [k \in Keys |-> IF lock[k] \in lost THEN Nobody ELSE lock[k]]
    BY DEF Crash
<1>2. ASSUME NEW c \in Calls
      PROVE  /\ call[c] \in CallStates /\ [call[c] EXCEPT !.step = "end"] \in CallStates
    BY Moved, Zenon DEF Typed, Steps
<1>3. call' \in [Calls -> CallStates]
    BY <1>1, <1>2
<1>4. ASSUME NEW c \in Calls, c \notin lost
      PROVE  call'[c] = call[c] /\ \A k \in Keys : lock[k] = c => lock'[k] = c
    BY <1>1, <1>4 DEF Typed
<1>5. ASSUME NEW c \in Calls, c \in lost
      PROVE  /\ call'[c].step = "end" /\ call'[c].code = call[c].code
             /\ call'[c].saved = call[c].saved /\ call'[c].answer = call[c].answer
             /\ call'[c].req = call[c].req /\ call'[c].at = call[c].at
  <2>1. call'[c] = [call[c] EXCEPT !.step = "end"]
    BY <1>1, <1>5
  <2> QED
    BY <1>2, <2>1 DEF CallStates
<1> QED
    BY <1>3, <1>4, <1>5

\* The tables written by a call stay well formed.
LEMMA Tables ==
    ASSUME Typed, NEW c \in Calls
    PROVE  /\ Key(c) \in Keys
           /\ Unlock(c) \in [Keys -> Calls \cup {Nobody}]
           /\ \A code \in Codes :
                 Store(c, code) \in [Keys -> [of : Requests \cup {Nobody}, code : Codes]]
           /\ [done EXCEPT ![call[c].req] = @ + 1] \in [Requests -> Nat]
<1>1. call[c].req \in Requests /\ Key(c) \in Keys
    BY Setting DEF Typed, CallStates, Key
<1> QED
    BY <1>1 DEF Typed, Unlock, Store

-----------------------------------------------------------------------------
(* Each step keeps each invariant: one step of the proof per action. *)

\* Every step keeps the state well formed.
LEMMA TypedStep ==
    ASSUME Typed, [Next]_vars
    PROVE  Typed'
<1>Send. ASSUME NEW c \in Calls, Send(c)
      PROVE  Typed'
    BY SendMoves, <1>Send DEF Typed, Send
<1>Connect. ASSUME NEW c \in Calls, Connect(c)
      PROVE  Typed'
    BY GotoMoves, <1>Connect DEF Typed, Connect, Steps
<1>TryLock. ASSUME NEW c \in Calls, TryLock(c)
      PROVE  Typed'
    BY GotoMoves, Tables, <1>TryLock DEF Typed, TryLock, Steps
<1>Lookup. ASSUME NEW c \in Calls, Lookup(c)
      PROVE  Typed'
  <2>1. stored[Key(c)].code \in Codes
    BY Tables DEF Typed
  <2> QED
    BY GotoMoves, AnswerMoves, Tables, <1>Lookup, <2>1
       DEF Typed, Lookup, Steps, Codes
<1>Begin. ASSUME NEW c \in Calls, Begin(c)
      PROVE  Typed'
    BY GotoMoves, <1>Begin DEF Typed, Begin, Steps
<1>Work. ASSUME NEW c \in Calls, Work(c)
      PROVE  Typed'
  <2>1. OnOwnConnection(c) \in BOOLEAN
    BY DEF OnOwnConnection
  <2>2. call' \in [Calls -> CallStates]
    BY CommitMoves, GotoWithMoves, <1>Work, <2>1 DEF Work, Steps, Codes
  <2> QED
    BY <1>Work, <2>2 DEF Typed, Work
<1>Commit. ASSUME NEW c \in Calls, Commit(c)
      PROVE  Typed'
    BY GotoWithMoves, Tables, <1>Commit DEF Typed, Commit, Steps, Codes
<1>Persist. ASSUME NEW c \in Calls, Persist(c)
      PROVE  Typed'
  <2>1. call[c].code \in Codes
    BY DEF Typed, CallStates
  <2> QED
    BY GotoMoves, GotoWithMoves, Tables, <1>Persist, <2>1
       DEF Typed, Persist, Steps, Codes
<1>Flush. ASSUME NEW c \in Calls, Flush(c)
      PROVE  Typed'
  <2>1. call[c].code \in Codes /\ "none" \in Codes
    BY DEF Typed, CallStates, Codes
  <2> QED
    BY AnswerMoves, Tables, <1>Flush, <2>1 DEF Typed, Flush
<1>GiveUp. ASSUME NEW c \in Calls, GiveUp(c)
      PROVE  Typed'
    BY AnswerMoves, GotoWithMoves, Tables, <1>GiveUp
       DEF Typed, GiveUp, Steps, Codes
<1>Fail. ASSUME NEW c \in Calls, Fail(c)
      PROVE  Typed'
    BY AnswerMoves, Tables, <1>Fail DEF Typed, Fail, Codes
<1>LoseSession. ASSUME NEW c \in Calls, LoseSession(c)
      PROVE  Typed'
    BY LoseMoves, Tables, <1>LoseSession DEF Typed, LoseSession
<1>Crash. ASSUME NEW i \in Instances, Crash(i)
      PROVE  Typed'
    BY CrashMoves, <1>Crash DEF Typed, Crash
<1>Stutter. CASE UNCHANGED vars
    BY <1>Stutter DEF vars, Typed
<1> QED
    BY <1>Send, <1>Connect, <1>TryLock, <1>Lookup, <1>Begin, <1>Work,
          <1>Commit, <1>Persist, <1>Flush, <1>GiveUp, <1>Fail, <1>LoseSession,
          <1>Crash, <1>Stutter
       DEF Next, Serve

(* Locked survives a step of c that takes no lock from others.             *)
LEMMA OthersHold ==
    ASSUME Typed, Locked, NEW c \in Calls, Others(c),
           \A d \in Calls \ {c}, k \in Keys : lock[k] = d => lock'[k] = d,
           call'[c].step \in Holding /\ call'[c].alive => lock'[Key(c)'] = c
    PROVE  Locked'
<1> SUFFICES ASSUME NEW d \in Calls, call'[d].step \in Holding, call'[d].alive
             PROVE  lock'[Key(d)'] = d
    BY DEF Locked
<1>1. CASE d = c
    BY <1>1
<1>2. CASE d # c
  <2>1. call'[d] = call[d] /\ Key(d)' = Key(d) /\ Key(d) \in Keys
    BY <1>2, Tables DEF Others, Key
  <2> QED
    BY <1>2, <2>1 DEF Locked
<1> QED
    BY <1>1, <1>2

\* Releasing a lock takes none from the others.
LEMMA UnlockSpares ==
    ASSUME Typed, NEW c \in Calls, lock' = Unlock(c)
    PROVE  \A d \in Calls \ {c}, k \in Keys : lock[k] = d => lock'[k] = d
    BY DEF Unlock

(* Lock and unlock come before and after everything else a call does.      *)
LEMMA LockedStep ==
    ASSUME Typed, Locked, [Next]_vars
    PROVE  Locked'
<1>Send. ASSUME NEW c \in Calls, Send(c)
      PROVE  Locked'
  <2>1. \A d \in Calls \ {c}, k \in Keys : lock[k] = d => lock'[k] = d
    BY <1>Send DEF Send
  <2>2. Others(c) /\ (call'[c].step \in Holding /\ call'[c].alive => lock'[Key(c)'] = c)
    BY SendMoves, <1>Send DEF Locked, Holding, Key, Send
  <2> QED
    BY OthersHold, <2>1, <2>2, Zenon
<1>Connect. ASSUME NEW c \in Calls, Connect(c)
      PROVE  Locked'
  <2>1. \A d \in Calls \ {c}, k \in Keys : lock[k] = d => lock'[k] = d
    BY <1>Connect DEF Connect
  <2>2. Others(c) /\ (call'[c].step \in Holding /\ call'[c].alive => lock'[Key(c)'] = c)
    BY GotoMoves, <1>Connect DEF Locked, Holding, Key, Connect, Steps
  <2> QED
    BY OthersHold, <2>1, <2>2, Zenon
<1>TryLock. ASSUME NEW c \in Calls, TryLock(c)
      PROVE  Locked'
  <2>1. \A d \in Calls \ {c}, k \in Keys : lock[k] = d => lock'[k] = d
    BY Setting, Tables, <1>TryLock DEF TryLock, Typed
  <2>2. Others(c) /\ Kept(c)
    BY GotoMoves, <1>TryLock DEF TryLock, Steps
  <2>3. call'[c].step \in Holding => lock'[Key(c)'] = c
    BY GotoMoves, Tables, <1>TryLock, <2>2
       DEF TryLock, Steps, Holding, Kept, Key, Typed
  <2> QED
    BY OthersHold, <2>1, <2>2, <2>3, Zenon
<1>Lookup. ASSUME NEW c \in Calls, Lookup(c)
      PROVE  Locked'
  <2>1. stored[Key(c)].code \in Codes
    BY Tables DEF Typed
  <2>2. CASE Goto(c, "begin") /\ UNCHANGED lock
  <3>1. \A d \in Calls \ {c}, k \in Keys : lock[k] = d => lock'[k] = d
    BY <2>2
  <3>2. Others(c) /\ (call'[c].step \in Holding /\ call'[c].alive => lock'[Key(c)'] = c)
    BY GotoMoves, <1>Lookup, <2>2 DEF Lookup, Locked, Holding, Key, Steps, Kept
  <3> QED
    BY OthersHold, <3>1, <3>2, Zenon
  <2>3. CASE \E code \in Codes : Answer(c, code)
  <3>1. \A d \in Calls \ {c}, k \in Keys : lock[k] = d => lock'[k] = d
    BY UnlockSpares, AnswerMoves, <2>3
  <3>2. Others(c) /\ (call'[c].step \in Holding /\ call'[c].alive => lock'[Key(c)'] = c)
    BY AnswerMoves, <2>3 DEF Holding
  <3> QED
    BY OthersHold, <3>1, <3>2, Zenon
  <2> QED
    BY <1>Lookup, <2>1, <2>2, <2>3 DEF Lookup, Codes
<1>Begin. ASSUME NEW c \in Calls, Begin(c)
      PROVE  Locked'
  <2>1. \A d \in Calls \ {c}, k \in Keys : lock[k] = d => lock'[k] = d
    BY <1>Begin DEF Begin
  <2>2. Others(c) /\ (call'[c].step \in Holding /\ call'[c].alive => lock'[Key(c)'] = c)
    BY GotoMoves, <1>Begin DEF Locked, Holding, Key, Begin, Kept, Steps
  <2> QED
    BY OthersHold, <2>1, <2>2, Zenon
<1>Work. ASSUME NEW c \in Calls, Work(c)
      PROVE  Locked'
  <2>1. OnOwnConnection(c) \in BOOLEAN
    BY DEF OnOwnConnection
  <2>2. Others(c) /\ Kept(c) /\ lock' = lock /\ call[c].step = "work"
    BY CommitMoves, GotoWithMoves, <1>Work, <2>1 DEF Work, Steps, Codes
  <2>3. call'[c].step \in Holding /\ call'[c].alive => lock'[Key(c)'] = c
    BY <2>2 DEF Kept, Key, Locked, Holding
  <2>4. \A d \in Calls \ {c}, k \in Keys : lock[k] = d => lock'[k] = d
    BY <2>2
  <2> QED
    BY OthersHold, <2>2, <2>3, <2>4, Zenon
<1>Commit. ASSUME NEW c \in Calls, Commit(c)
      PROVE  Locked'
  <2>2. Others(c) /\ Kept(c) /\ lock' = lock /\ call[c].step = "commit"
    BY GotoWithMoves, <1>Commit DEF Commit, Steps, Codes
  <2>3. call'[c].step \in Holding /\ call'[c].alive => lock'[Key(c)'] = c
    BY <2>2 DEF Kept, Key, Locked, Holding
  <2>4. \A d \in Calls \ {c}, k \in Keys : lock[k] = d => lock'[k] = d
    BY <2>2
  <2> QED
    BY OthersHold, <2>2, <2>3, <2>4, Zenon
<1>Persist. ASSUME NEW c \in Calls, Persist(c)
      PROVE  Locked'
  <2>2. Others(c) /\ Kept(c) /\ lock' = lock /\ call[c].step = "persist"
    BY GotoMoves, GotoWithMoves, <1>Persist DEF Persist, Steps, Codes
  <2>3. call'[c].step \in Holding /\ call'[c].alive => lock'[Key(c)'] = c
    BY <2>2 DEF Kept, Key, Locked, Holding
  <2>4. \A d \in Calls \ {c}, k \in Keys : lock[k] = d => lock'[k] = d
    BY <2>2
  <2> QED
    BY OthersHold, <2>2, <2>3, <2>4, Zenon
<1>Flush. ASSUME NEW c \in Calls, Flush(c)
      PROVE  Locked'
  <2>1. call[c].code \in Codes /\ "none" \in Codes
    BY DEF Typed, CallStates, Codes
  <2>2. PICK code \in Codes : Answer(c, code)
    BY <1>Flush, <2>1 DEF Flush
  <2>3. \A d \in Calls \ {c}, k \in Keys : lock[k] = d => lock'[k] = d
    BY UnlockSpares, AnswerMoves, <2>2
  <2>4. Others(c) /\ call'[c].step \notin Holding
    BY AnswerMoves, <2>2 DEF Holding
  <2> QED
    BY OthersHold, <2>3, <2>4, Zenon
<1>GiveUp. ASSUME NEW c \in Calls, GiveUp(c)
      PROVE  Locked'
  <2>1. CASE call[c].step = "connect" /\ Answer(c, "error")
    <3>1. \A d \in Calls \ {c}, k \in Keys : lock[k] = d => lock'[k] = d
      BY UnlockSpares, AnswerMoves, <2>1 DEF Codes
    <3>2. Others(c) /\ call'[c].step \notin Holding
      BY AnswerMoves, <2>1 DEF Holding, Codes
    <3> QED
      BY OthersHold, <3>1, <3>2, Zenon
  <2>2. CASE call[c].step = "begin" /\ GotoWith(c, "persist", "error") /\ lock' = lock
    <3>1. Others(c) /\ Kept(c)
      BY GotoWithMoves, <2>2 DEF Steps, Codes
    <3>2. call'[c].step \in Holding /\ call'[c].alive => lock'[Key(c)'] = c
      BY <2>2, <3>1 DEF Kept, Key, Locked, Holding
    <3>3. \A d \in Calls \ {c}, k \in Keys : lock[k] = d => lock'[k] = d
      BY <2>2
    <3> QED
      BY OthersHold, <3>1, <3>2, <3>3, Zenon
  <2> QED
    BY <1>GiveUp, <2>1, <2>2 DEF GiveUp
<1>Fail. ASSUME NEW c \in Calls, Fail(c)
      PROVE  Locked'
  <2>1. \A d \in Calls \ {c}, k \in Keys : lock[k] = d => lock'[k] = d
    BY UnlockSpares, AnswerMoves, <1>Fail DEF Fail, Codes
  <2>2. Others(c) /\ call'[c].step \notin Holding
    BY AnswerMoves, <1>Fail DEF Fail, Holding, Codes
  <2> QED
    BY OthersHold, <2>1, <2>2, Zenon
<1>LoseSession. ASSUME NEW c \in Calls, LoseSession(c)
      PROVE  Locked'
  <2>1. \A d \in Calls \ {c}, k \in Keys : lock[k] = d => lock'[k] = d
    BY UnlockSpares, <1>LoseSession DEF LoseSession
  <2>2. Others(c) /\ ~call'[c].alive
    BY LoseMoves, <1>LoseSession
  <2> QED
    BY OthersHold, <2>1, <2>2, Zenon
<1>Crash. ASSUME NEW i \in Instances, Crash(i)
      PROVE  Locked'
  <2> SUFFICES ASSUME NEW d \in Calls, call'[d].step \in Holding, call'[d].alive
               PROVE  lock'[Key(d)'] = d
    BY DEF Locked
  <2>1. call'[d] = call[d] /\ \A k \in Keys : lock[k] = d => lock'[k] = d
    BY CrashMoves, <1>Crash DEF Holding
  <2> QED
    BY <2>1, Tables DEF Locked, Key
<1>Stutter. CASE UNCHANGED vars
    BY <1>Stutter DEF vars, Locked, Key
<1> QED
    BY <1>Send, <1>Connect, <1>TryLock, <1>Lookup, <1>Begin, <1>Work,
          <1>Commit, <1>Persist, <1>Flush, <1>GiveUp, <1>Fail, <1>LoseSession,
          <1>Crash, <1>Stutter
       DEF Next, Serve

(* Whoever stores a response holds the lock and has found none: this is    *)
(* where the lock, the lookup and the transaction meet.                    *)
LEMMA WriterAlone ==
    ASSUME KeyInv, NEW c \in Calls, Commit(c) \/ Persist(c)
    PROVE  \/ stored' = stored
           \/ /\ stored[Key(c)] = NotStored /\ lock[Key(c)] = c
              /\ \E code \in Codes \ {"none"} : stored' = Store(c, code)
<1>1. CASE Commit(c)
  <2>1. CASE call[c].saved
    <3>1. call[c].req \in InTx /\ call[c].step = "commit"
      BY <1>1, <2>1 DEF KeyInv, SavedFirst, Truthful, Commit
    <3>2. CASE call[c].alive
      <4>1. stored[Key(c)] = NotStored /\ lock[Key(c)] = c
        BY <3>1, <3>2 DEF KeyInv, Locked, StillNone, Holding, Looking
      <4> QED
        BY <1>1, <4>1 DEF Commit, Codes
    <3>3. CASE ~call[c].alive
      BY <1>1, <3>1, <3>3 DEF Commit, OnOwnConnection
    <3> QED
      BY <3>2, <3>3
  <2>2. CASE ~call[c].saved
    BY <1>1, <2>2 DEF Commit
  <2> QED
    BY <2>1, <2>2
<1>2. CASE Persist(c)
  <2>1. CASE stored' # stored
    <3>1. /\ call[c].step = "persist" /\ call[c].alive /\ stored[Key(c)] = NotStored
          /\ stored' = Store(c, call[c].code)
      BY <1>2, <2>1 DEF Persist
    <3>2. lock[Key(c)] = c /\ call[c].code \in Codes \ {"none"}
      BY <3>1 DEF KeyInv, Locked, SavedFirst, Truthful, Holding, Codes
    <3> QED
      BY <3>1, <3>2
  <2> QED
    BY <2>1
<1> QED
    BY <1>1, <1>2

\* Responses are written by commits and by Finish only.
LEMMA StoredByWriters ==
    ASSUME KeyInv, [Next]_vars
    PROVE  \/ stored' = stored
           \/ \E c \in Calls : Commit(c) \/ Persist(c)
    BY
       DEF Next, vars, Send, Serve, Connect, TryLock, Lookup, Begin, Work, Flush,
           GiveUp, Fail,
           LoseSession, Crash, Answer

(* A stored response is never overwritten.                                 *)
LEMMA WrittenOnce ==
    ASSUME KeyInv, [Next]_vars, NEW k \in Keys, stored[k] # NotStored
    PROVE  stored'[k] = stored[k]
<1>1. CASE stored' = stored
    BY <1>1
<1>2. CASE stored' # stored
  <2>1. PICK c \in Calls : Commit(c) \/ Persist(c)
    BY <1>2, StoredByWriters
  <2>2. /\ stored[Key(c)] = NotStored
        /\ \E code \in Codes \ {"none"} : stored' = Store(c, code)
    BY <1>2, <2>1, WriterAlone
  <2>3. k # Key(c)
    BY <2>2
  <2> QED
    BY <2>2, <2>3 DEF Store, KeyInv, Typed
<1> QED
    BY <1>1, <1>2

(* What was said of a call stays said.                                     *)
LEMMA StillSays ==
    ASSUME KeyInv, [Next]_vars, NEW c \in Calls, call'[c].req = call[c].req,
           NEW code \in {"ok", "refused"}, Says(c, code)
    PROVE  Says(c, code)'
<1>1. Key(c) \in Keys /\ Key(c)' = Key(c)
    BY Tables DEF Key, KeyInv
<1>2. stored[Key(c)] # NotStored
    BY DEF Says, NotStored
<1>3. stored'[Key(c)] = stored[Key(c)]
    BY <1>1, <1>2, WrittenOnce
<1> QED
    BY <1>1, <1>3 DEF Says

(* StillNone for the calls that a step leaves where they are.              *)
LEMMA NoneForOthers ==
    ASSUME KeyInv, NEW c \in Calls, Commit(c) \/ Persist(c) \/ stored' = stored,
           NEW d \in Calls, call[d].step \in Looking, call[d].alive,
           call'[d].req = call[d].req, d # c
    PROVE  stored'[Key(d)'] = NotStored
<1>1. Key(d) \in Keys /\ Key(d)' = Key(d) /\ Key(c) \in Keys
    BY Tables DEF Key, KeyInv
<1>2. stored[Key(d)] = NotStored /\ lock[Key(d)] = d
    BY DEF KeyInv, StillNone, Locked, Looking, Holding
<1>3. CASE stored' = stored
    BY <1>1, <1>2, <1>3
<1>4. CASE stored' # stored
  <2>1. lock[Key(c)] = c /\ \E code \in Codes \ {"none"} : stored' = Store(c, code)
    BY <1>4, WriterAlone
  <2>2. Key(c) # Key(d)
    BY <1>2, <2>1
  <2> QED
    BY <1>1, <1>2, <2>1, <2>2 DEF Store, KeyInv, Typed
<1> QED
    BY <1>3, <1>4

\* What other calls found still holds if one call with the lock writes.
LEMMA NoneIfStill ==
    ASSUME KeyInv, NEW c \in Calls, Others(c), Commit(c) \/ Persist(c) \/ stored' = stored,
           call'[c].step \in Looking /\ call'[c].alive => stored'[Key(c)'] = NotStored
    PROVE  StillNone'
<1> SUFFICES ASSUME NEW d \in Calls, call'[d].step \in Looking, call'[d].alive
             PROVE  stored'[Key(d)'] = NotStored
    BY DEF StillNone
<1>1. CASE d = c
    BY <1>1
<1>2. CASE d # c
  <2>1. call'[d] = call[d]
    BY <1>2 DEF Others
  <2> QED
    BY <1>2, <2>1, NoneForOthers
<1> QED
    BY <1>1, <1>2

(* Nobody but the holder of the lock may come between a lookup and a write. *)
LEMMA StillNoneStep ==
    ASSUME KeyInv, [Next]_vars
    PROVE  StillNone'
<1>Send. ASSUME NEW c \in Calls, Send(c)
      PROVE  StillNone'
  <2>1. Others(c) /\ (Commit(c) \/ Persist(c) \/ stored' = stored)
    BY SendMoves, <1>Send DEF Send, KeyInv
  <2>2. call'[c].step \in Looking /\ call'[c].alive => stored'[Key(c)'] = NotStored
    BY SendMoves, <1>Send DEF Looking, KeyInv
  <2> QED
    BY NoneIfStill, <2>1, <2>2, Zenon
<1>Connect. ASSUME NEW c \in Calls, Connect(c)
      PROVE  StillNone'
  <2>1. Others(c) /\ (Commit(c) \/ Persist(c) \/ stored' = stored)
    BY GotoMoves, <1>Connect DEF Connect, Steps, KeyInv
  <2>2. call'[c].step \in Looking /\ call'[c].alive => stored'[Key(c)'] = NotStored
    BY GotoMoves, <1>Connect DEF Connect, Steps, Looking, KeyInv
  <2> QED
    BY NoneIfStill, <2>1, <2>2, Zenon
<1>TryLock. ASSUME NEW c \in Calls, TryLock(c)
      PROVE  StillNone'
  <2>1. Others(c) /\ (Commit(c) \/ Persist(c) \/ stored' = stored)
    BY GotoMoves, <1>TryLock DEF TryLock, Steps, KeyInv
  <2>2. call'[c].step \in Looking /\ call'[c].alive => stored'[Key(c)'] = NotStored
    BY GotoMoves, <1>TryLock DEF TryLock, Steps, Looking, KeyInv
  <2> QED
    BY NoneIfStill, <2>1, <2>2, Zenon
<1>Lookup. ASSUME NEW c \in Calls, Lookup(c)
      PROVE  StillNone'
  <2>1. stored[Key(c)].code \in Codes
    BY Tables DEF Typed, KeyInv
  <2>2. CASE Goto(c, "begin") /\ stored[Key(c)] = NotStored /\ stored' = stored
    <3>1. Others(c) /\ Kept(c)
      BY GotoMoves, <2>2 DEF Steps, KeyInv
    <3>2. stored'[Key(c)'] = NotStored
      BY <2>2, <3>1 DEF Kept, Key
    <3> QED
      BY NoneIfStill, <2>2, <3>1, <3>2, Zenon
  <2>3. CASE \E code \in Codes : Answer(c, code)
    <3>1. Others(c) /\ stored' = stored /\ call'[c].step \notin Looking
      BY AnswerMoves, <2>3 DEF Looking, KeyInv
    <3> QED
      BY NoneIfStill, <3>1, Zenon
  <2> QED
    BY <1>Lookup, <2>1, <2>2, <2>3 DEF Lookup, Codes
<1>Begin. ASSUME NEW c \in Calls, Begin(c)
      PROVE  StillNone'
  <2>1. Others(c) /\ (Commit(c) \/ Persist(c) \/ stored' = stored)
    BY GotoMoves, <1>Begin DEF Begin, Steps, KeyInv
  <2>2. call'[c].step \in Looking /\ call'[c].alive => stored'[Key(c)'] = NotStored
    BY GotoMoves, <1>Begin DEF Begin, Steps, Looking, KeyInv, Kept, StillNone, Key
  <2> QED
    BY NoneIfStill, <2>1, <2>2, Zenon
<1>Work. ASSUME NEW c \in Calls, Work(c)
      PROVE  StillNone'
  <2>1. OnOwnConnection(c) \in BOOLEAN
    BY DEF OnOwnConnection
  <2>2. Others(c) /\ Kept(c) /\ stored' = stored /\ call[c].step = "work"
    BY CommitMoves, GotoWithMoves, <1>Work, <2>1 DEF Work, Steps, Codes, KeyInv
  <2>3. call'[c].step \in Looking /\ call'[c].alive => stored'[Key(c)'] = NotStored
    BY <2>2 DEF Kept, Key, StillNone, Looking, KeyInv
  <2> QED
    BY NoneIfStill, <2>2, <2>3, Zenon
<1>Commit. ASSUME NEW c \in Calls, Commit(c)
      PROVE  StillNone'
  <2>1. Others(c) /\ (Commit(c) \/ Persist(c) \/ stored' = stored)
    BY GotoWithMoves, <1>Commit DEF Commit, Steps, Codes, KeyInv
  <2>2. call'[c].step \in Looking /\ call'[c].alive => stored'[Key(c)'] = NotStored
    BY GotoWithMoves, <1>Commit DEF Commit, Steps, Codes, Looking, KeyInv
  <2> QED
    BY NoneIfStill, <2>1, <2>2, Zenon
<1>Persist. ASSUME NEW c \in Calls, Persist(c)
      PROVE  StillNone'
  <2>1. Others(c) /\ (Commit(c) \/ Persist(c) \/ stored' = stored)
    BY GotoMoves, GotoWithMoves, <1>Persist DEF Persist, Steps, Codes, KeyInv
  <2>2. call'[c].step \in Looking /\ call'[c].alive => stored'[Key(c)'] = NotStored
    BY GotoMoves, GotoWithMoves, <1>Persist
       DEF Persist, Steps, Codes, Looking, KeyInv
  <2> QED
    BY NoneIfStill, <2>1, <2>2, Zenon
<1>Flush. ASSUME NEW c \in Calls, Flush(c)
      PROVE  StillNone'
  <2>1. call[c].code \in Codes /\ "none" \in Codes
    BY DEF Typed, CallStates, Codes, KeyInv
  <2>2. PICK code \in Codes : Answer(c, code)
    BY <1>Flush, <2>1 DEF Flush
  <2>3. Others(c) /\ stored' = stored /\ call'[c].step \notin Looking
    BY AnswerMoves, <2>2 DEF Looking, KeyInv
  <2> QED
    BY NoneIfStill, <2>3, Zenon
<1>GiveUp. ASSUME NEW c \in Calls, GiveUp(c)
      PROVE  StillNone'
  <2>1. Others(c) /\ stored' = stored /\ call'[c].step \notin Looking
    BY AnswerMoves, GotoWithMoves, <1>GiveUp
       DEF GiveUp, Looking, KeyInv, Steps, Codes
  <2> QED
    BY NoneIfStill, <2>1, Zenon
<1>Fail. ASSUME NEW c \in Calls, Fail(c)
      PROVE  StillNone'
  <2>1. Others(c) /\ stored' = stored /\ call'[c].step \notin Looking
    BY AnswerMoves, <1>Fail DEF Fail, Looking, KeyInv, Codes
  <2> QED
    BY NoneIfStill, <2>1, Zenon
<1>LoseSession. ASSUME NEW c \in Calls, LoseSession(c)
      PROVE  StillNone'
  <2>1. Others(c) /\ stored' = stored /\ ~call'[c].alive
    BY LoseMoves, <1>LoseSession DEF LoseSession, KeyInv
  <2> QED
    BY NoneIfStill, <2>1, Zenon
<1>Crash. ASSUME NEW i \in Instances, Crash(i)
      PROVE  StillNone'
  <2> SUFFICES ASSUME NEW d \in Calls, call'[d].step \in Looking, call'[d].alive
               PROVE  stored'[Key(d)'] = NotStored
    BY DEF StillNone
  <2>1. call'[d] = call[d] /\ stored' = stored
    BY CrashMoves, <1>Crash DEF Looking, Crash, KeyInv
  <2> QED
    BY <2>1 DEF StillNone, Key, KeyInv
<1>Stutter. CASE UNCHANGED vars
    BY <1>Stutter DEF vars, StillNone, Key, KeyInv
<1> QED
    BY <1>Send, <1>Connect, <1>TryLock, <1>Lookup, <1>Begin, <1>Work,
          <1>Commit, <1>Persist, <1>Flush, <1>GiveUp, <1>Fail, <1>LoseSession,
          <1>Crash, <1>Stutter
       DEF Next, Serve

\* If the call that moves stays truthful, all do.
LEMMA OneTruthful ==
    ASSUME KeyInv, [Next]_vars, NEW c \in Calls, Others(c), Truthful(c)'
    PROVE  SavedFirst'
<1> SUFFICES ASSUME NEW d \in Calls
             PROVE  Truthful(d)'
    BY DEF SavedFirst
<1>1. CASE d = c
    BY <1>1
<1>2. CASE d # c
  <2>1. call'[d] = call[d] /\ Truthful(d)
    BY <1>2 DEF Others, KeyInv, SavedFirst
  <2>2. \A code \in {"ok", "refused"} : Says(d, code) => Says(d, code)'
    BY <2>1, StillSays
  <2> QED
    BY <2>1, <2>2 DEF Truthful
<1> QED
    BY <1>1, <1>2

(* What stays said of the call that moves.                                 *)
LEMMA KeptTruth ==
    ASSUME KeyInv, [Next]_vars, NEW c \in Calls, call'[c].req = call[c].req
    PROVE  /\ Truthful(c)
           /\ \A code \in {"ok", "refused"} : Says(c, code) => Says(c, code)'
    BY StillSays DEF KeyInv, SavedFirst

(* A response is stored with the transaction or before it is given out.    *)
LEMMA SavedFirstStep ==
    ASSUME KeyInv, [Next]_vars
    PROVE  SavedFirst'
<1>Send. ASSUME NEW c \in Calls, Send(c)
      PROVE  SavedFirst'
  <2>1. Others(c) /\ Truthful(c)'
    BY SendMoves, <1>Send DEF Truthful, KeyInv
  <2> QED
    BY OneTruthful, <2>1, Zenon
<1>Connect. ASSUME NEW c \in Calls, Connect(c)
      PROVE  SavedFirst'
  <2>1. Others(c) /\ Kept(c) /\ call[c].step = "connect" /\ call'[c].step = "try"
      /\ call'[c].code = call[c].code /\ call'[c].saved = call[c].saved
      /\ call'[c].answer = call[c].answer
    BY GotoMoves, <1>Connect DEF Connect, Steps, KeyInv
  <2>2. Truthful(c)'
    BY KeptTruth, <2>1 DEF Truthful, Kept
  <2> QED
    BY OneTruthful, <2>1, <2>2, Zenon
<1>TryLock. ASSUME NEW c \in Calls, TryLock(c)
      PROVE  SavedFirst'
  <2>1. Others(c) /\ Kept(c) /\ call[c].step = "try" /\ call'[c].step \in {"lookup", "connect"}
      /\ call'[c].code = call[c].code /\ call'[c].saved = call[c].saved
      /\ call'[c].answer = call[c].answer
    BY GotoMoves, <1>TryLock DEF TryLock, Steps, KeyInv
  <2>2. Truthful(c)'
    BY KeptTruth, <2>1 DEF Truthful, Kept
  <2> QED
    BY OneTruthful, <2>1, <2>2, Zenon
<1>Lookup. ASSUME NEW c \in Calls, Lookup(c)
      PROVE  SavedFirst'
  <2>1. stored[Key(c)].code \in Codes
    BY Tables DEF Typed, KeyInv
  <2>2. CASE Goto(c, "begin")
    <3>1. Others(c) /\ Kept(c) /\ call[c].step = "lookup" /\ call'[c].step = "begin"
        /\ call'[c].code = call[c].code /\ call'[c].saved = call[c].saved
        /\ call'[c].answer = call[c].answer
      BY GotoMoves, <1>Lookup, <2>2 DEF Lookup, Steps, KeyInv
    <3>2. Truthful(c)'
      BY KeptTruth, <3>1 DEF Truthful, Kept
    <3> QED
      BY OneTruthful, <3>1, <3>2, Zenon
  <2>3. CASE Answer(c, "conflict")
    <3>1. Others(c) /\ Kept(c) /\ call[c].step = "lookup" /\ call'[c].step = "end"
        /\ call'[c].saved = call[c].saved /\ call'[c].answer = "conflict"
      BY AnswerMoves, <1>Lookup, <2>3 DEF Lookup, Codes, KeyInv
    <3>2. Truthful(c)'
      BY KeptTruth, <3>1 DEF Truthful, Kept
    <3> QED
      BY OneTruthful, <3>1, <3>2, Zenon
  <2>4. CASE stored[Key(c)].of = call[c].req /\ Answer(c, stored[Key(c)].code)
    <3>1. Others(c) /\ Kept(c) /\ call[c].step = "lookup" /\ call'[c].step = "end"
        /\ call'[c].saved = call[c].saved /\ call'[c].answer = stored[Key(c)].code
        /\ Says(c, stored[Key(c)].code)
      BY AnswerMoves, <1>Lookup, <2>1, <2>4 DEF Lookup, KeyInv, Says
    <3>2. Truthful(c)'
      BY KeptTruth, <3>1 DEF Truthful, Kept
    <3> QED
      BY OneTruthful, <3>1, <3>2, Zenon
  <2> QED
    BY <1>Lookup, <2>2, <2>3, <2>4 DEF Lookup
<1>Begin. ASSUME NEW c \in Calls, Begin(c)
      PROVE  SavedFirst'
  <2>1. Others(c) /\ Kept(c) /\ call[c].step = "begin" /\ call'[c].step = "work"
      /\ call'[c].code = call[c].code /\ call'[c].saved = call[c].saved
      /\ call'[c].answer = call[c].answer
    BY GotoMoves, <1>Begin DEF Begin, Steps, KeyInv
  <2>2. Truthful(c)'
    BY KeptTruth, <2>1 DEF Truthful, Kept
  <2> QED
    BY OneTruthful, <2>1, <2>2, Zenon
<1>Work. ASSUME NEW c \in Calls, Work(c)
      PROVE  SavedFirst'
  <2>1. OnOwnConnection(c) \in BOOLEAN
    BY DEF OnOwnConnection
  <2>2. Others(c) /\ Kept(c) /\ call[c].step = "work" /\ call'[c].answer = call[c].answer
    BY CommitMoves, GotoWithMoves, <1>Work, <2>1 DEF Work, Steps, Codes, KeyInv
  <2>3. \/ /\ call'[c].step = "commit" /\ call'[c].code = "ok"
           /\ call'[c].saved <=> call[c].req \in InTx
        \/ /\ call'[c].step = "persist" /\ call'[c].code \in {"refused", "error"}
           /\ call'[c].saved = call[c].saved
    BY CommitMoves, GotoWithMoves, <1>Work, <2>1
       DEF Work, Steps, Codes, KeyInv, OnOwnConnection
  <2>4. Truthful(c)'
    BY KeptTruth, <2>2, <2>3 DEF Truthful, Kept
  <2> QED
    BY OneTruthful, <2>2, <2>4, Zenon
<1>Commit. ASSUME NEW c \in Calls, Commit(c)
      PROVE  SavedFirst'
  <2>1. /\ Others(c) /\ Kept(c) /\ call[c].step = "commit" /\ call'[c].step = "persist"
        /\ call'[c].answer = call[c].answer /\ call'[c].saved = call[c].saved
        /\ call'[c].code \in {"ok", "error"}
    BY GotoWithMoves, <1>Commit DEF Commit, Steps, Codes, KeyInv
  <2>2. call'[c].code = "ok" /\ call[c].saved => stored' = Store(c, "ok")
    BY GotoWithMoves, <1>Commit DEF Commit, Steps, Codes, KeyInv
  <2>3. stored' = Store(c, "ok") => Says(c, "ok")'
    BY Tables, <2>1 DEF Store, Says, Kept, Key, KeyInv, Typed
  <2>4. Truthful(c)'
    BY KeptTruth, <2>1, <2>2, <2>3 DEF Truthful, Kept
  <2> QED
    BY OneTruthful, <2>1, <2>4, Zenon
<1>Persist. ASSUME NEW c \in Calls, Persist(c)
      PROVE  SavedFirst'
  <2>1. /\ Others(c) /\ Kept(c) /\ call[c].step = "persist" /\ call'[c].step = "flush"
        /\ call'[c].answer = call[c].answer /\ call'[c].saved = call[c].saved
        /\ call'[c].code \in {call[c].code, "error"}
    BY GotoMoves, GotoWithMoves, <1>Persist DEF Persist, Steps, Codes, KeyInv
  <2>2. call'[c].code # "error" =>
           \/ call[c].saved /\ call'[c].code = call[c].code
           \/ stored' = Store(c, call[c].code) /\ call'[c].code = call[c].code
    BY GotoMoves, GotoWithMoves, <1>Persist DEF Persist, Steps, Codes, KeyInv
  <2>3. call[c].req \in Requests /\ call[c].code \in {"ok", "refused", "error"}
        /\ Key(c) \in Keys /\ Key(c)' = Key(c)
    BY Tables, KeptTruth, <2>1 DEF KeyInv, Typed, CallStates, Kept, Key, Truthful
  <2>4. ASSUME call'[c].code # "error"
        PROVE  stored'[Key(c)'].of = call'[c].req /\ stored'[Key(c)'].code = call'[c].code
    <3>1. CASE call[c].saved /\ call'[c].code = call[c].code
      <4>1. call[c].code \in {"ok", "refused"} /\ Says(c, call[c].code)
        BY KeptTruth, <2>1, <2>3, <2>4, <3>1 DEF Truthful, Kept
      <4>2. stored'[Key(c)] = stored[Key(c)]
        BY <2>3, <4>1, WrittenOnce DEF Says, NotStored
      <4> QED
        BY <2>1, <2>3, <3>1, <4>1, <4>2 DEF Says, Kept
    <3>2. CASE stored' = Store(c, call[c].code) /\ call'[c].code = call[c].code
      <4>1. stored'[Key(c)] = [of |-> call[c].req, code |-> call[c].code]
        BY <2>3, <3>2 DEF Store, KeyInv, Typed
      <4> QED
        BY <2>1, <2>3, <3>2, <4>1 DEF Kept
    <3> QED
      BY <2>2, <2>4, <3>1, <3>2
  <2>5. Truthful(c)'
    BY KeptTruth, <2>1, <2>3, <2>4 DEF Truthful, Kept, Says
  <2> QED
    BY OneTruthful, <2>1, <2>5, Zenon
<1>Flush. ASSUME NEW c \in Calls, Flush(c)
      PROVE  SavedFirst'
  <2>1. call[c].code \in Codes /\ "none" \in Codes
    BY DEF Typed, CallStates, Codes, KeyInv
  <2>2. PICK code \in {call[c].code, "none"} : Answer(c, code)
    BY <1>Flush DEF Flush
  <2>3. /\ Others(c) /\ Kept(c) /\ call[c].step = "flush" /\ call'[c].step = "end"
        /\ call'[c].saved = call[c].saved /\ call'[c].answer = code
    BY AnswerMoves, <1>Flush, <2>1, <2>2 DEF Flush, KeyInv
  <2>4. Truthful(c)'
    BY KeptTruth, <2>3 DEF Truthful, Kept
  <2> QED
    BY OneTruthful, <2>3, <2>4, Zenon
<1>GiveUp. ASSUME NEW c \in Calls, GiveUp(c)
      PROVE  SavedFirst'
  <2>1. CASE call[c].step = "connect" /\ Answer(c, "error")
    <3>1. Others(c) /\ Kept(c) /\ call'[c].step = "end"
          /\ call'[c].saved = call[c].saved /\ call'[c].answer = "error"
      BY AnswerMoves, <2>1 DEF Codes, KeyInv
    <3>2. Truthful(c)'
      BY KeptTruth, <2>1, <3>1 DEF Truthful, Kept
    <3> QED
      BY OneTruthful, <3>1, <3>2, Zenon
  <2>2. CASE call[c].step = "begin" /\ GotoWith(c, "persist", "error")
    <3>1. Others(c) /\ Kept(c) /\ call'[c].step = "persist" /\ call'[c].code = "error"
          /\ call'[c].saved = call[c].saved /\ call'[c].answer = call[c].answer
      BY GotoWithMoves, <2>2 DEF Steps, Codes, KeyInv
    <3>2. Truthful(c)'
      BY KeptTruth, <2>2, <3>1 DEF Truthful, Kept
    <3> QED
      BY OneTruthful, <3>1, <3>2, Zenon
  <2> QED
    BY <1>GiveUp, <2>1, <2>2 DEF GiveUp
<1>Fail. ASSUME NEW c \in Calls, Fail(c)
      PROVE  SavedFirst'
  <2>1. Others(c) /\ Kept(c) /\ call[c].step \in {"try", "lookup"} /\ call'[c].step = "end"
      /\ call'[c].saved = call[c].saved /\ call'[c].answer = "error"
    BY AnswerMoves, <1>Fail DEF Fail, Codes, KeyInv
  <2>2. Truthful(c)'
    BY KeptTruth, <2>1 DEF Truthful, Kept
  <2> QED
    BY OneTruthful, <2>1, <2>2, Zenon
<1>LoseSession. ASSUME NEW c \in Calls, LoseSession(c)
      PROVE  SavedFirst'
  <2>1. Others(c) /\ call'[c].req = call[c].req /\ call'[c].step = call[c].step
      /\ call'[c].code = call[c].code /\ call'[c].saved = call[c].saved
      /\ call'[c].answer = call[c].answer
    BY LoseMoves, <1>LoseSession DEF KeyInv
  <2>2. Truthful(c)'
    BY KeptTruth, <2>1 DEF Truthful, Kept
  <2> QED
    BY OneTruthful, <2>1, <2>2, Zenon
<1>Crash. ASSUME NEW i \in Instances, Crash(i)
      PROVE  SavedFirst'
  <2> SUFFICES ASSUME NEW d \in Calls
               PROVE  Truthful(d)'
    BY DEF SavedFirst
  <2>1. \/ call'[d] = call[d]
        \/ /\ call'[d].step = "end" /\ call'[d].code = call[d].code
           /\ call'[d].saved = call[d].saved /\ call'[d].answer = call[d].answer
           /\ call'[d].req = call[d].req
    BY CrashMoves, <1>Crash DEF KeyInv
  <2> QED
    BY KeptTruth, <2>1 DEF Truthful
<1>Stutter. CASE UNCHANGED vars
  <2> SUFFICES ASSUME NEW d \in Calls
               PROVE  Truthful(d)'
    BY DEF SavedFirst
  <2>1. call' = call
    BY <1>Stutter DEF vars
  <2> QED
    BY KeptTruth, <2>1 DEF Truthful
<1> QED
    BY <1>Send, <1>Connect, <1>TryLock, <1>Lookup, <1>Begin, <1>Work,
          <1>Commit, <1>Persist, <1>Flush, <1>GiveUp, <1>Fail, <1>LoseSession,
          <1>Crash, <1>Stutter
       DEF Next, Serve

\* Payments are made by commits only.
LEMMA DoneByCommits ==
    ASSUME [Next]_vars
    PROVE  \/ done' = done
           \/ \E c \in Calls : Commit(c)
    BY
       DEF Next, vars, Send, Serve, Connect, TryLock, Lookup, Begin, Work,
           Persist, Flush,
           GiveUp, Fail, LoseSession, Crash, Answer

(* The row of the response and the payment are committed together.         *)
LEMMA RecordedStep ==
    ASSUME KeyInv, [Next]_vars
    PROVE  Recorded'
<1> SUFFICES ASSUME NEW r \in InTx
             PROVE  /\ done'[r] = 0 \/ done'[r] = 1
                    /\ done'[r] = 1 <=> stored'[KeyOf[r]].of = r /\ stored'[KeyOf[r]].code = "ok"
    BY DEF Recorded
<1>1. r \in Requests /\ KeyOf[r] \in Keys
    BY Setting
<1>2. /\ done[r] = 0 \/ done[r] = 1
      /\ done[r] = 1 <=> stored[KeyOf[r]].of = r /\ stored[KeyOf[r]].code = "ok"
    BY DEF KeyInv, Recorded
<1>3. CASE done' = done /\ stored' = stored
    BY <1>2, <1>3
<1>4. ASSUME NEW c \in Calls, Commit(c)
      PROVE  /\ done'[r] = 0 \/ done'[r] = 1
             /\ done'[r] = 1 <=> stored'[KeyOf[r]].of = r /\ stored'[KeyOf[r]].code = "ok"
  <2>1. call[c].saved <=> call[c].req \in InTx
    BY <1>4 DEF KeyInv, SavedFirst, Truthful, Commit
  <2>2. CASE call[c].req \notin InTx
    BY <1>1, <1>2, <1>4, <2>1, <2>2 DEF Commit, KeyInv, Typed
  <2>3. CASE call[c].req \in InTx
    <3>1. CASE done' = done /\ stored' = stored
      BY <1>2, <3>1
    <3>2. CASE /\ call[c].alive /\ stored' = Store(c, "ok")
               /\ done' = [done EXCEPT ![call[c].req] = @ + 1]
      <4>1. stored[Key(c)] = NotStored
        BY <1>4, <3>2 DEF Commit, KeyInv, StillNone, Looking
      <4>2. CASE call[c].req = r
        <5>1. Key(c) = KeyOf[r] /\ stored[KeyOf[r]].code # "ok"
          BY <4>1, <4>2 DEF Key, NotStored
        <5>2. done[r] = 0 /\ done'[r] = 1
          BY <1>1, <1>2, <3>2, <4>2, <5>1 DEF KeyInv, Typed
        <5>3. stored'[KeyOf[r]] = [of |-> r, code |-> "ok"]
          BY <1>1, <3>2, <4>2, <5>1 DEF Store, KeyInv, Typed
        <5> QED
          BY <5>2, <5>3
      <4>3. CASE call[c].req # r
        <5>1. done'[r] = done[r]
          BY <1>1, <3>2, <4>3 DEF KeyInv, Typed
        <5>2. CASE Key(c) = KeyOf[r]
          <6>1. done[r] = 0
            BY <1>2, <4>1, <5>2 DEF NotStored
          <6>2. stored'[KeyOf[r]].of = call[c].req
            BY <1>1, <3>2, <5>2 DEF Store, KeyInv, Typed
          <6> QED
            BY <4>3, <5>1, <6>1, <6>2
        <5>3. CASE Key(c) # KeyOf[r]
          <6>1. stored'[KeyOf[r]] = stored[KeyOf[r]]
            BY <1>1, <3>2, <5>3 DEF Store, KeyInv, Typed
          <6> QED
            BY <1>2, <5>1, <6>1
        <5> QED
          BY <5>2, <5>3
      <4> QED
        BY <4>2, <4>3
    <3> QED
      BY <1>4, <2>1, <2>3, <3>1, <3>2 DEF Commit, OnOwnConnection
  <2> QED
    BY <2>2, <2>3
<1>5. ASSUME NEW c \in Calls, Persist(c)
      PROVE  /\ done'[r] = 0 \/ done'[r] = 1
             /\ done'[r] = 1 <=> stored'[KeyOf[r]].of = r /\ stored'[KeyOf[r]].code = "ok"
  <2>1. done' = done
    BY <1>5 DEF Persist
  <2>2. CASE stored' = stored
    BY <1>3, <2>1, <2>2
  <2>3. CASE stored' # stored
    <3>1. /\ call[c].step = "persist" /\ ~call[c].saved /\ stored[Key(c)] = NotStored
          /\ stored' = Store(c, call[c].code)
      BY <1>5, <2>3 DEF Persist
    <3>2. ~(call[c].code = "ok" /\ call[c].req \in InTx)
      BY <3>1 DEF KeyInv, SavedFirst, Truthful
    <3>3. CASE Key(c) = KeyOf[r]
      <4>1. done[r] = 0
        BY <1>2, <3>1, <3>3 DEF NotStored
      <4>2. stored'[KeyOf[r]] = [of |-> call[c].req, code |-> call[c].code]
        BY <1>1, <3>1, <3>3 DEF Store, KeyInv, Typed
      <4> QED
        BY <2>1, <3>2, <4>1, <4>2
    <3>4. CASE Key(c) # KeyOf[r]
      <4>1. stored'[KeyOf[r]] = stored[KeyOf[r]]
        BY <1>1, <3>1, <3>4 DEF Store, KeyInv, Typed
      <4> QED
        BY <1>2, <2>1, <4>1
    <3> QED
      BY <3>3, <3>4
  <2> QED
    BY <2>2, <2>3
<1> QED
    BY <1>3, <1>4, <1>5, StoredByWriters, DoneByCommits

\* The invariant holds at the start.
LEMMA StartsKeyed == Init => KeyInv
<1> SUFFICES ASSUME Init
             PROVE  KeyInv
    OBVIOUS
<1>1. PICK r \in Requests, i \in Instances :
         call = [c \in Calls |-> [Blank(r, i) EXCEPT !.step = "new"]]
    BY DEF Init
<1>2. [Blank(r, i) EXCEPT !.step = "new"] \in CallStates
    BY DEF Blank, CallStates, Steps, Codes
<1>3. \A c \in Calls : call[c].step = "new" /\ ~call[c].saved /\ call[c].answer = "none"
    BY <1>1 DEF Blank
<1>4. Typed
    BY <1>1, <1>2 DEF Init, Typed, NotStored, Codes
<1>5. Locked /\ StillNone
    BY <1>3 DEF Locked, Holding, StillNone, Looking
<1>6. SavedFirst
    BY <1>3 DEF SavedFirst, Truthful
<1>7. Recorded
    BY Setting DEF Init, Recorded, NotStored
<1> QED
    BY <1>4, <1>5, <1>6, <1>7 DEF KeyInv

\* The invariant always holds.
LEMMA Keyed == Spec => []KeyInv
<1>1. KeyInv /\ [Next]_vars => KeyInv'
    BY TypedStep, LockedStep, StillNoneStep, SavedFirstStep, RecordedStep
       DEF KeyInv
<1> QED
    BY StartsKeyed, <1>1, PTL DEF Spec

-----------------------------------------------------------------------------
(* Connections and locks. *)

\* No instance has more connections in use than its pool has.
Pooled == \A i \in Instances : Free(i) >= 0

\* A lock is held by a call that is past its lookup and has the key.
HeldByUser ==
    \A k \in Keys : lock[k] # Nobody => Key(lock[k]) = k /\ call[lock[k]].step \in Holding

\* A call has none, one or two connections.
LEMMA HeldType ==
    ASSUME NEW c \in Calls
    PROVE  Held(c) \in {0, 1, 2}
    BY DEF Held

\* The connections in use are finitely many.
LEMMA UsesFinite ==
    ASSUME NEW i \in Instances
    PROVE  IsFiniteSet(InUse(i)) /\ Cardinality(InUse(i)) \in Nat
<1>1. IsFiniteSet({1, 2})
  <2>1. {1, 2} = 1 .. 2
    OBVIOUS
  <2>2. IsFiniteSet(1 .. 2)
    <3>1. 1 \in Int /\ 2 \in Int
      OBVIOUS
    <3> QED
      BY <3>1, FS_Interval
  <2> QED
    BY <2>1, <2>2
<1>2. IsFiniteSet(Calls \X {1, 2})
    BY <1>1, FiniteCalls, FS_Product
<1>3. InUse(i) \subseteq Calls \X {1, 2}
    BY DEF InUse
<1> QED
    BY <1>2, <1>3, FS_Subset, FS_CardinalityType

\* If none is added, there are no fewer free ones than before;
LEMMA NoFewerFree ==
    ASSUME NEW i \in Instances, Free(i) >= 0, InUse(i)' \subseteq InUse(i)
    PROVE  Free(i)' >= 0
<1> DEFINE old == InUse(i)
           new == InUse(i)'
<1>1. IsFiniteSet(old) /\ Cardinality(old) \in Nat /\ new \subseteq old
    BY UsesFinite
<1>2. Free(i) = Connections - Cardinality(old) /\ Free(i)' = Connections - Cardinality(new)
    BY DEF Free
<1> HIDE DEF old, new
<1>3. Cardinality(new) \in Nat /\ Cardinality(new) <= Cardinality(old)
    BY <1>1, FS_Subset, FS_CardinalityType
<1> QED
    BY <1>1, <1>2, <1>3, Setting

\* if one is added, there was a free one.
LEMMA OneFewerFree ==
    ASSUME NEW i \in Instances, Free(i) > 0, NEW x, InUse(i)' \subseteq InUse(i) \cup {x}
    PROVE  Free(i)' >= 0
<1> DEFINE old == InUse(i)
           new == InUse(i)'
<1>1. IsFiniteSet(old) /\ Cardinality(old) \in Nat /\ new \subseteq old \cup {x}
    BY UsesFinite
<1>2. Free(i) = Connections - Cardinality(old) /\ Free(i)' = Connections - Cardinality(new)
    BY DEF Free
<1> HIDE DEF old, new
<1>3. /\ IsFiniteSet(old \cup {x}) /\ Cardinality(old \cup {x}) \in Nat
      /\ Cardinality(old \cup {x}) <= Cardinality(old) + 1
  <2>1. /\ IsFiniteSet(old \cup {x})
        /\ Cardinality(old \cup {x}) \in {Cardinality(old), Cardinality(old) + 1}
    BY <1>1, FS_AddElement
  <2> QED
    BY <1>1, <2>1
<1>4. Cardinality(new) \in Nat /\ Cardinality(new) <= Cardinality(old \cup {x})
    BY <1>1, <1>3, FS_Subset, FS_CardinalityType
<1> QED
    BY <1>1, <1>2, <1>3, <1>4, Setting

\* A call that others leave alone keeps its connections.
LEMMA OthersUse ==
    ASSUME NEW c \in Calls, Others(c), NEW d \in Calls \ {c}
    PROVE  Held(d)' = Held(d) /\ call'[d].at = call[d].at
    BY DEF Others, Held, OnOwnConnection

\* A step of one call after which it has no more connections than before.
LEMMA PoolSpared ==
    ASSUME Pooled, NEW c \in Calls, Others(c), Held(c)' <= Held(c),
           Held(c)' = 0 \/ call'[c].at = call[c].at
    PROVE  Pooled'
<1> SUFFICES ASSUME NEW i \in Instances
             PROVE  Free(i)' >= 0
    BY DEF Pooled
<1>1. ASSUME NEW d \in Calls, NEW n \in {1, 2}, <<d, n>> \in InUse(i)'
      PROVE  <<d, n>> \in InUse(i)
  <2>1. call'[d].at = i /\ n <= Held(d)'
    BY <1>1 DEF InUse
  <2>2. Held(d) \in {0, 1, 2} /\ Held(c) \in {0, 1, 2} /\ Held(c)' \in {0, 1, 2}
    <3>1. \A e \in Calls : Held(e) \in {0, 1, 2}
      BY HeldType
    <3>2. Held(c)' \in {0, 1, 2}
      BY DEF Held
    <3> QED
      BY <3>1, <3>2
  <2>3. call[d].at = i /\ n <= Held(d)
    BY <2>1, <2>2, OthersUse
  <2> QED
    BY <2>3 DEF InUse
<1>2. InUse(i)' \subseteq InUse(i)
  <2>1. \A use \in InUse(i)' : \E d \in Calls, n \in {1, 2} : use = <<d, n>>
    BY DEF InUse
  <2> QED
    BY <1>1, <2>1
<1> QED
    BY <1>2, NoFewerFree DEF Pooled

\* A step of one call that takes one connection from the pool of its instance.
LEMMA PoolTaken ==
    ASSUME Pooled, NEW c \in Calls, Others(c), Held(c)' = Held(c) + 1,
           call'[c].at = call[c].at, Free(call[c].at) > 0
    PROVE  Pooled'
<1> SUFFICES ASSUME NEW i \in Instances
             PROVE  Free(i)' >= 0
    BY DEF Pooled
<1>1. ASSUME NEW d \in Calls, NEW n \in {1, 2}, <<d, n>> \in InUse(i)', <<d, n>> \notin InUse(i)
      PROVE  d = c /\ n = Held(c) + 1 /\ i = call[c].at
  <2>1. call'[d].at = i /\ n <= Held(d)'
    BY <1>1 DEF InUse
  <2>2. ~(call[d].at = i /\ n <= Held(d))
    BY <1>1 DEF InUse
  <2>3. d = c
    BY <2>1, <2>2, OthersUse
  <2>4. Held(c) \in {0, 1, 2}
    BY HeldType
  <2> QED
    BY <2>1, <2>2, <2>3, <2>4
<1>2. \A use \in InUse(i)' : \E d \in Calls, n \in {1, 2} : use = <<d, n>>
    BY DEF InUse
<1>3. CASE i = call[c].at
  <2> DEFINE x == <<c, Held(c) + 1>>
  <2>1. InUse(i)' \subseteq InUse(i) \cup {x}
    <3> SUFFICES ASSUME NEW use \in InUse(i)', use \notin InUse(i)
                 PROVE  use = x
      OBVIOUS
    <3>1. PICK d \in Calls, n \in {1, 2} : use = <<d, n>>
      BY <1>2
    <3>2. d = c /\ n = Held(c) + 1
      BY <1>1, <3>1
    <3> QED
      BY <3>1, <3>2
  <2> HIDE DEF x
  <2> QED
    BY <1>3, <2>1, OneFewerFree
<1>4. CASE i # call[c].at
  <2>1. InUse(i)' \subseteq InUse(i)
    BY <1>1, <1>2, <1>4
  <2> QED
    BY <2>1, NoFewerFree DEF Pooled
<1> QED
    BY <1>3, <1>4

\* Connections are taken by Connect and Begin only, when there is a free one.
LEMMA PooledStep ==
    ASSUME Typed, Pooled, [Next]_vars
    PROVE  Pooled'
<1>Send. ASSUME NEW c \in Calls, Send(c)
      PROVE  Pooled'
  <2>1. Others(c) /\ call[c].step = "new" /\ call'[c].step = "connect"
    BY SendMoves, <1>Send
  <2>2. Held(c)' = 0 /\ Held(c) = 0
    BY <2>1 DEF Held
  <2> QED
    BY PoolSpared, <2>1, <2>2
<1>Connect. ASSUME NEW c \in Calls, Connect(c)
      PROVE  Pooled'
  <2>1. /\ Others(c) /\ Kept(c) /\ call[c].step = "connect" /\ call'[c].step = "try"
        /\ Free(call[c].at) > 0
    BY GotoMoves, <1>Connect DEF Connect, Steps
  <2>2. Held(c)' = 1 /\ Held(c) = 0
    BY <2>1 DEF Held
  <2> QED
    BY PoolTaken, <2>1, <2>2 DEF Kept
<1>TryLock. ASSUME NEW c \in Calls, TryLock(c)
      PROVE  Pooled'
  <2>1. Others(c) /\ Kept(c) /\ call[c].step = "try" /\ call'[c].step \in {"lookup", "connect"}
    BY GotoMoves, <1>TryLock DEF TryLock, Steps
  <2>2. Held(c)' \in {0, 1} /\ Held(c) = 1
    BY <2>1 DEF Held
  <2> QED
    BY PoolSpared, <2>1, <2>2 DEF Kept
<1>Lookup. ASSUME NEW c \in Calls, Lookup(c)
      PROVE  Pooled'
  <2>1. stored[Key(c)].code \in Codes
    BY Tables DEF Typed
  <2>2. Others(c) /\ Kept(c) /\ call[c].step = "lookup" /\ call'[c].step \in {"begin", "end"}
    BY GotoMoves, AnswerMoves, <1>Lookup, <2>1 DEF Lookup, Steps, Codes
  <2>3. Held(c)' \in {0, 1} /\ Held(c) = 1
    BY <2>2 DEF Held
  <2> QED
    BY PoolSpared, <2>2, <2>3 DEF Kept
<1>Begin. ASSUME NEW c \in Calls, Begin(c)
      PROVE  Pooled'
  <2>1. /\ Others(c) /\ Kept(c) /\ call[c].step = "begin" /\ call'[c].step = "work"
        /\ OnOwnConnection(c) \/ Free(call[c].at) > 0
    BY GotoMoves, <1>Begin DEF Begin, Steps
  <2>2. OnOwnConnection(c)' <=> OnOwnConnection(c)
    BY <2>1 DEF Kept, OnOwnConnection
  <2>3. CASE OnOwnConnection(c)
    <3>1. Held(c)' = 1 /\ Held(c) = 1
      BY <2>1, <2>2, <2>3 DEF Held
    <3> QED
      BY PoolSpared, <2>1, <3>1 DEF Kept
  <2>4. CASE ~OnOwnConnection(c)
    <3>1. Held(c)' = 2 /\ Held(c) = 1
      BY <2>1, <2>2, <2>4 DEF Held
    <3> QED
      BY PoolTaken, <2>1, <2>4, <3>1 DEF Kept
  <2> QED
    BY <2>3, <2>4
<1>Work. ASSUME NEW c \in Calls, Work(c)
      PROVE  Pooled'
  <2>1. OnOwnConnection(c) \in BOOLEAN
    BY DEF OnOwnConnection
  <2>2. Others(c) /\ Kept(c) /\ call[c].step = "work" /\ call'[c].step \in {"commit", "persist"}
    BY CommitMoves, GotoWithMoves, <1>Work, <2>1 DEF Work, Steps, Codes
  <2>3. OnOwnConnection(c)' <=> OnOwnConnection(c)
    BY <2>2 DEF Kept, OnOwnConnection
  <2>4. Held(c)' \in {1, Held(c)} /\ Held(c) \in {1, 2}
    BY <2>2, <2>3 DEF Held
  <2> QED
    BY PoolSpared, <2>2, <2>4 DEF Kept
<1>Commit. ASSUME NEW c \in Calls, Commit(c)
      PROVE  Pooled'
  <2>1. Others(c) /\ Kept(c) /\ call[c].step = "commit" /\ call'[c].step = "persist"
    BY GotoWithMoves, <1>Commit DEF Commit, Steps, Codes
  <2>2. Held(c)' = 1 /\ Held(c) \in {1, 2}
    BY <2>1 DEF Held
  <2> QED
    BY PoolSpared, <2>1, <2>2 DEF Kept
<1>Persist. ASSUME NEW c \in Calls, Persist(c)
      PROVE  Pooled'
  <2>1. Others(c) /\ Kept(c) /\ call[c].step = "persist" /\ call'[c].step = "flush"
    BY GotoMoves, GotoWithMoves, <1>Persist DEF Persist, Steps, Codes
  <2>2. Held(c)' = 1 /\ Held(c) = 1
    BY <2>1 DEF Held
  <2> QED
    BY PoolSpared, <2>1, <2>2 DEF Kept
<1>Flush. ASSUME NEW c \in Calls, Flush(c)
      PROVE  Pooled'
  <2>1. call[c].code \in Codes /\ "none" \in Codes
    BY DEF Typed, CallStates, Codes
  <2>2. PICK code \in Codes : Answer(c, code)
    BY <1>Flush, <2>1 DEF Flush
  <2>3. Others(c) /\ call'[c].step = "end"
    BY AnswerMoves, <2>2
  <2>4. Held(c)' = 0 /\ Held(c) \in {0, 1, 2}
    BY <2>3, HeldType DEF Held
  <2> QED
    BY PoolSpared, <2>3, <2>4
<1>GiveUp. ASSUME NEW c \in Calls, GiveUp(c)
      PROVE  Pooled'
  <2>1. /\ Others(c) /\ Kept(c)
        /\ \/ call'[c].step = "end"
           \/ call[c].step = "begin" /\ call'[c].step = "persist"
    BY AnswerMoves, GotoWithMoves, <1>GiveUp DEF GiveUp, Steps, Codes
  <2>2. Held(c)' \in {0, Held(c)} /\ Held(c) \in {0, 1, 2}
    BY <2>1, HeldType DEF Held
  <2> QED
    BY PoolSpared, <2>1, <2>2 DEF Kept
<1>Fail. ASSUME NEW c \in Calls, Fail(c)
      PROVE  Pooled'
  <2>1. Others(c) /\ call'[c].step = "end"
    BY AnswerMoves, <1>Fail DEF Fail, Codes
  <2>2. Held(c)' = 0 /\ Held(c) \in {0, 1, 2}
    BY <2>1, HeldType DEF Held
  <2> QED
    BY PoolSpared, <2>1, <2>2
<1>LoseSession. ASSUME NEW c \in Calls, LoseSession(c)
      PROVE  Pooled'
  <2>1. /\ Others(c) /\ call'[c].step = call[c].step /\ call'[c].req = call[c].req
        /\ call'[c].at = call[c].at
    BY LoseMoves, <1>LoseSession
  <2>2. Held(c)' = Held(c) /\ Held(c) \in {0, 1, 2}
    BY <2>1, HeldType DEF Held, OnOwnConnection
  <2> QED
    BY PoolSpared, <2>1, <2>2
<1>Crash. ASSUME NEW j \in Instances, Crash(j)
      PROVE  Pooled'
  <2> SUFFICES ASSUME NEW i \in Instances
               PROVE  Free(i)' >= 0
    BY DEF Pooled
  <2>1. ASSUME NEW d \in Calls, NEW n \in {1, 2}, <<d, n>> \in InUse(i)'
        PROVE  <<d, n>> \in InUse(i)
    <3>1. call'[d].at = i /\ n <= Held(d)'
      BY <2>1 DEF InUse
    <3>2. call'[d].step # "end"
      BY <3>1 DEF Held
    <3>3. call'[d] = call[d]
      BY CrashMoves, <1>Crash, <3>2
    <3>4. Held(d)' = Held(d)
      BY <3>3 DEF Held, OnOwnConnection
    <3> QED
      BY <3>1, <3>3, <3>4 DEF InUse
  <2>2. \A use \in InUse(i)' : \E d \in Calls, n \in {1, 2} : use = <<d, n>>
    BY DEF InUse
  <2>3. InUse(i)' \subseteq InUse(i)
    BY <2>1, <2>2
  <2> QED
    BY <2>3, NoFewerFree DEF Pooled
<1>Stutter. CASE UNCHANGED vars
    BY <1>Stutter DEF vars, Pooled, Free, InUse, Held, OnOwnConnection
<1> QED
    BY <1>Send, <1>Connect, <1>TryLock, <1>Lookup, <1>Begin, <1>Work,
          <1>Commit, <1>Persist, <1>Flush, <1>GiveUp, <1>Fail, <1>LoseSession,
          <1>Crash, <1>Stutter
       DEF Next, Serve

\* A step of a call that takes no lock, and keeps those it has only if it
\* goes on to use them.
LEMMA UserKeeps ==
    ASSUME Typed, HeldByUser, NEW c \in Calls, Others(c),
           \A k \in Keys : lock'[k] = lock[k] \/ lock'[k] = Nobody,
           \/ \A k \in Keys : lock'[k] # c
           \/ call'[c].req = call[c].req /\ call'[c].step \in Holding
    PROVE  HeldByUser'
<1> SUFFICES ASSUME NEW k \in Keys, lock'[k] # Nobody
             PROVE  KeyOf[call'[lock'[k]].req] = k /\ call'[lock'[k]].step \in Holding
    BY DEF HeldByUser, Key
<1> DEFINE d == lock[k]
<1>1. lock'[k] = d /\ d \in Calls /\ Key(d) = k /\ call[d].step \in Holding
    BY DEF Typed, HeldByUser
<1> HIDE DEF d
<1>2. call'[d].req = call[d].req /\ call'[d].step \in Holding
    BY <1>1 DEF Others
<1>3. KeyOf[call'[d].req] = k
    BY <1>1, <1>2 DEF Key
<1> QED
    BY <1>1, <1>2, <1>3 DEF Key

\* Whoever unlocks has no lock left.
LEMMA Unlocked ==
    ASSUME Typed, NEW c \in Calls, lock' = Unlock(c)
    PROVE  /\ \A k \in Keys : lock'[k] = lock[k] \/ lock'[k] = Nobody
           /\ \A k \in Keys : lock'[k] # c
    BY Setting DEF Unlock

\* Whoever has not come past its lookup holds no lock.
LEMMA NoLockYet ==
    ASSUME Typed, HeldByUser, NEW c \in Calls, call[c].step \notin Holding
    PROVE  \A k \in Keys : lock[k] # c
    BY Setting DEF HeldByUser

\* A lock is taken for the key of the call, and given back with its last step.
LEMMA HeldByUserStep ==
    ASSUME Typed, HeldByUser, [Next]_vars
    PROVE  HeldByUser'
<1>Send. ASSUME NEW c \in Calls, Send(c)
      PROVE  HeldByUser'
  <2>1. Others(c) /\ lock' = lock /\ call[c].step \notin Holding
    BY SendMoves, <1>Send DEF Send, Holding
  <2> QED
    BY UserKeeps, NoLockYet, <2>1
<1>Connect. ASSUME NEW c \in Calls, Connect(c)
      PROVE  HeldByUser'
  <2>1. Others(c) /\ lock' = lock /\ call[c].step \notin Holding
    BY GotoMoves, <1>Connect DEF Connect, Steps, Holding
  <2> QED
    BY UserKeeps, NoLockYet, <2>1
<1>TryLock. ASSUME NEW c \in Calls, TryLock(c)
      PROVE  HeldByUser'
  <2>1. Others(c) /\ Kept(c) /\ call[c].step = "try" /\ call[c].step \notin Holding
    BY GotoMoves, <1>TryLock DEF TryLock, Steps, Holding
  <2>2. CASE lock' = lock
    BY UserKeeps, NoLockYet, <2>1, <2>2
  <2>3. CASE lock' = [lock EXCEPT ![Key(c)] = c] /\ Goto(c, "lookup")
    <3>1. call'[c].step \in Holding /\ Key(c)' = Key(c) /\ Key(c) \in Keys
      BY GotoMoves, Tables, <2>1, <2>3 DEF Steps, Holding, Kept, Key
    <3> SUFFICES ASSUME NEW k \in Keys, lock'[k] # Nobody
                 PROVE  KeyOf[call'[lock'[k]].req] = k /\ call'[lock'[k]].step \in Holding
      BY DEF HeldByUser, Key
    <3>2. CASE k = Key(c)
      <4>1. lock'[k] = c
        BY <2>3, <3>1, <3>2 DEF Typed
      <4> QED
        BY <3>1, <3>2, <4>1 DEF Key
    <3>3. CASE k # Key(c)
      <4> DEFINE d == lock[k]
      <4>1. lock'[k] = d
        BY <2>3, <3>3 DEF Typed
      <4>2. d \in Calls /\ d # c /\ Key(d) = k /\ call[d].step \in Holding
        BY <2>1, <4>1, NoLockYet DEF Typed, HeldByUser
      <4> HIDE DEF d
      <4>3. call'[d] = call[d]
        BY <2>1, <4>2 DEF Others
      <4> QED
        BY <4>1, <4>2, <4>3 DEF Key
    <3> QED
      BY <3>2, <3>3
  <2> QED
    BY <1>TryLock, <2>2, <2>3 DEF TryLock
<1>Lookup. ASSUME NEW c \in Calls, Lookup(c)
      PROVE  HeldByUser'
  <2>1. stored[Key(c)].code \in Codes
    BY Tables DEF Typed
  <2>2. CASE Goto(c, "begin") /\ lock' = lock
    <3>1. Others(c) /\ Kept(c) /\ call'[c].step \in Holding
      BY GotoMoves, <2>2 DEF Steps, Holding
    <3> QED
      BY UserKeeps, <2>2, <3>1 DEF Kept
  <2>3. CASE \E code \in Codes : Answer(c, code)
    <3>1. Others(c) /\ lock' = Unlock(c)
      BY AnswerMoves, <2>3
    <3> QED
      BY UserKeeps, Unlocked, <3>1
  <2> QED
    BY <1>Lookup, <2>1, <2>2, <2>3 DEF Lookup, Codes
<1>Begin. ASSUME NEW c \in Calls, Begin(c)
      PROVE  HeldByUser'
  <2>1. Others(c) /\ Kept(c) /\ lock' = lock /\ call'[c].step \in Holding
    BY GotoMoves, <1>Begin DEF Begin, Steps, Holding
  <2> QED
    BY UserKeeps, <2>1 DEF Kept
<1>Work. ASSUME NEW c \in Calls, Work(c)
      PROVE  HeldByUser'
  <2>1. OnOwnConnection(c) \in BOOLEAN
    BY DEF OnOwnConnection
  <2>2. Others(c) /\ Kept(c) /\ lock' = lock /\ call'[c].step \in Holding
    BY CommitMoves, GotoWithMoves, <1>Work, <2>1 DEF Work, Steps, Codes, Holding
  <2> QED
    BY UserKeeps, <2>2 DEF Kept
<1>Commit. ASSUME NEW c \in Calls, Commit(c)
      PROVE  HeldByUser'
  <2>1. Others(c) /\ Kept(c) /\ lock' = lock /\ call'[c].step \in Holding
    BY GotoWithMoves, <1>Commit DEF Commit, Steps, Codes, Holding
  <2> QED
    BY UserKeeps, <2>1 DEF Kept
<1>Persist. ASSUME NEW c \in Calls, Persist(c)
      PROVE  HeldByUser'
  <2>1. Others(c) /\ Kept(c) /\ lock' = lock /\ call'[c].step \in Holding
    BY GotoMoves, GotoWithMoves, <1>Persist DEF Persist, Steps, Codes, Holding
  <2> QED
    BY UserKeeps, <2>1 DEF Kept
<1>Flush. ASSUME NEW c \in Calls, Flush(c)
      PROVE  HeldByUser'
  <2>1. call[c].code \in Codes /\ "none" \in Codes
    BY DEF Typed, CallStates, Codes
  <2>2. PICK code \in Codes : Answer(c, code)
    BY <1>Flush, <2>1 DEF Flush
  <2>3. Others(c) /\ lock' = Unlock(c)
    BY AnswerMoves, <2>2
  <2> QED
    BY UserKeeps, Unlocked, <2>3
<1>GiveUp. ASSUME NEW c \in Calls, GiveUp(c)
      PROVE  HeldByUser'
  <2>1. CASE Answer(c, "error")
    <3>1. Others(c) /\ lock' = Unlock(c)
      BY AnswerMoves, <2>1 DEF Codes
    <3> QED
      BY UserKeeps, Unlocked, <3>1
  <2>2. CASE GotoWith(c, "persist", "error") /\ lock' = lock
    <3>1. Others(c) /\ Kept(c) /\ call'[c].step \in Holding
      BY GotoWithMoves, <2>2 DEF Steps, Codes, Holding
    <3> QED
      BY UserKeeps, <2>2, <3>1 DEF Kept
  <2> QED
    BY <1>GiveUp, <2>1, <2>2 DEF GiveUp
<1>Fail. ASSUME NEW c \in Calls, Fail(c)
      PROVE  HeldByUser'
  <2>1. Others(c) /\ lock' = Unlock(c)
    BY AnswerMoves, <1>Fail DEF Fail, Codes
  <2> QED
    BY UserKeeps, Unlocked, <2>1
<1>LoseSession. ASSUME NEW c \in Calls, LoseSession(c)
      PROVE  HeldByUser'
  <2>1. Others(c) /\ lock' = Unlock(c)
    BY LoseMoves, <1>LoseSession DEF LoseSession
  <2> QED
    BY UserKeeps, Unlocked, <2>1
<1>Crash. ASSUME NEW i \in Instances, Crash(i)
      PROVE  HeldByUser'
  <2> DEFINE lost == {c \in Calls : call[c].at = i /\ call[c].step \notin {"new", "end"}}
  <2> SUFFICES ASSUME NEW k \in Keys, lock'[k] # Nobody
               PROVE  KeyOf[call'[lock'[k]].req] = k /\ call'[lock'[k]].step \in Holding
    BY DEF HeldByUser, Key
  <2>1. /\ call' = [c \in Calls |-> IF c \in lost THEN [call[c] EXCEPT !.step = "end"] ELSE call[c]]
        /\ lock' = [j \in Keys |-> IF lock[j] \in lost THEN Nobody ELSE lock[j]]
    BY <1>Crash DEF Crash
  <2> DEFINE d == lock[k]
  <2>2. lock'[k] = d /\ d \notin lost
    BY <2>1
  <2>3. d \in Calls /\ Key(d) = k /\ call[d].step \in Holding
    BY <2>2 DEF Typed, HeldByUser
  <2> HIDE DEF d
  <2>4. call'[d] = call[d]
    BY <2>1, <2>2, <2>3
  <2> QED
    BY <2>2, <2>3, <2>4 DEF Key
<1>Stutter. CASE UNCHANGED vars
    BY <1>Stutter DEF vars, HeldByUser, Key
<1> QED
    BY <1>Send, <1>Connect, <1>TryLock, <1>Lookup, <1>Begin, <1>Work,
          <1>Commit, <1>Persist, <1>Flush, <1>GiveUp, <1>Fail, <1>LoseSession,
          <1>Crash, <1>Stutter
       DEF Next, Serve

\* At first no call has a connection or a lock.
LEMMA StartsFree == Init => Pooled /\ HeldByUser
<1> SUFFICES ASSUME Init
             PROVE  Pooled /\ HeldByUser
    OBVIOUS
<1>1. \A c \in Calls : call[c].step = "new"
    BY DEF Init, Blank
<1>2. \A c \in Calls : Held(c) = 0
    BY <1>1 DEF Held
<1>3. ASSUME NEW i \in Instances
      PROVE  Free(i) >= 0
  <2>1. InUse(i) = {}
    BY <1>2 DEF InUse
  <2> QED
    BY <2>1, FS_EmptySet, Setting DEF Free
<1>4. HeldByUser
    BY DEF Init, HeldByUser
<1> QED
    BY <1>3, <1>4 DEF Pooled

-----------------------------------------------------------------------------
(* The theorems. *)

(* However often a payment is sent under a key, to however many instances, *)
(* with crashes, lost connections and lost answers in between, Save and    *)
(* the advisory lock let at most one payment per key be made.              *)
THEOREM PaysOnce == Spec => []PaidOncePerKey
<1>1. KeyInv => PaidOncePerKey
  <2> SUFFICES ASSUME KeyInv, NEW r \in InTx
               PROVE  /\ done[r] <= 1
                      /\ \A q \in InTx \ {r} :
                            KeyOf[q] = KeyOf[r] => done[q] = 0 \/ done[r] = 0
    BY DEF PaidOncePerKey
  <2>1. done[r] = 0 \/ done[r] = 1
    BY DEF KeyInv, Recorded
  <2>2. ASSUME NEW q \in InTx \ {r}, KeyOf[q] = KeyOf[r]
        PROVE  done[q] = 0 \/ done[r] = 0
    BY <2>2 DEF KeyInv, Recorded
  <2> QED
    BY <2>1, <2>2
<1> QED
    BY Keyed, <1>1, PTL

(* Whoever is told that the payment was created has it, and whoever is     *)
(* told that it was refused has none: a response is given out only when it *)
(* is the one stored under the key, and "ok" is stored only by the         *)
(* transaction that pays.                                                  *)
THEOREM TellsTruth == Spec => []AnswersAreTrue
<1>1. KeyInv => AnswersAreTrue
  <2> SUFFICES ASSUME KeyInv, NEW c \in Calls, call[c].req \in InTx
               PROVE  /\ call[c].answer = "ok" => done[call[c].req] = 1
                      /\ call[c].answer = "refused" => done[call[c].req] = 0
    BY DEF AnswersAreTrue
  <2> DEFINE r == call[c].req
  <2>1. /\ done[r] = 0 \/ done[r] = 1
        /\ done[r] = 1 <=> stored[KeyOf[r]].of = r /\ stored[KeyOf[r]].code = "ok"
    BY DEF KeyInv, Recorded
  <2>2. call[c].answer \in {"ok", "refused"} =>
           stored[KeyOf[r]].of = r /\ stored[KeyOf[r]].code = call[c].answer
    BY DEF KeyInv, SavedFirst, Truthful, Says, Key
  <2> QED
    BY <2>1, <2>2
<1> QED
    BY Keyed, <1>1, PTL

(* Two copies of a request are never told different outcomes: both answers *)
(* are the one stored under their key, which is written once.              *)
THEOREM Agree == Spec => []CopiesAgree
<1>1. KeyInv => CopiesAgree
  <2> SUFFICES ASSUME KeyInv, NEW c \in Calls, NEW d \in Calls, call[c].req = call[d].req,
                      {call[c].answer, call[d].answer} \subseteq {"ok", "refused"}
               PROVE  call[c].answer = call[d].answer
    BY DEF CopiesAgree
  <2>1. Says(c, call[c].answer) /\ Says(d, call[d].answer)
    BY DEF KeyInv, SavedFirst, Truthful
  <2> QED
    BY <2>1 DEF Says, Key
<1> QED
    BY Keyed, <1>1, PTL

(* No call takes more connections than the pool of its instance has, and   *)
(* an advisory lock is held by a call that is past its lookup, has a       *)
(* connection, and was sent under that very key.                           *)
THEOREM KeyTypes == Spec => []TypeOK
<1>1. Typed /\ Pooled /\ HeldByUser => TypeOK
  <2> SUFFICES ASSUME Typed, Pooled, HeldByUser, NEW k \in Keys, lock[k] # Nobody
               PROVE  Key(lock[k]) = k /\ Held(lock[k]) > 0
    BY DEF TypeOK, Typed, Pooled
  <2>1. Key(lock[k]) = k /\ call[lock[k]].step \in Holding
    BY DEF HeldByUser
  <2>2. Held(lock[k]) \in {1, 2}
    BY <2>1 DEF Held, Holding
  <2> QED
    BY <2>1, <2>2
<1>2. KeyInv => Typed
    BY DEF KeyInv
<1> QED
    BY Keyed, StartsFree, PooledStep, HeldByUserStep, <1>1, <1>2, PTL DEF Spec

==============================================================================
