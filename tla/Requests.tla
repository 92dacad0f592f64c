------------------------------ MODULE Requests ------------------------------
(***************************************************************************)
(* The life of a request to the API: it arrives, runs one handler step by  *)
(* step, and is answered.  A step is at most one statement sent to the     *)
(* database or one call to Stripe, so that two requests interleave the way *)
(* two handlers of a Node process (or of two processes) do.                *)
(*                                                                         *)
(* Authentication, roles and DTO validation run before the handler and     *)
(* keep no state that the handler uses: Arrivals holds only requests that  *)
(* pass them.                                                              *)
(***************************************************************************)
EXTENDS Postgres

CONSTANTS
    Arrivals,     \* Arrivals[t]: what request t may turn out to ask for
    MaxFailures   \* bound: transactions lost to timeouts and crashes

VARIABLES
    pc,           \* pc[t]: the next step of t's handler, or how it was answered
    req,          \* req[t]: what t asks for
    seen,         \* seen[t]: what t's handler has read and holds in a local
    failures      \* transactions lost so far

ASSUME RequestAssumption == MaxFailures \in Nat

requestVars == <<pc, req, seen, failures>>

Answers == {"done", "rejected", "failed"}

NoRequest == [op |-> "none"]

\* An amount that a handler has read; Blank when it holds nothing.
Amount(n) == [amount |-> n]

Blank == Amount(0)

RequestInit ==
    /\ pc = [t \in Tx |-> "idle"]
    /\ req = [t \in Tx |-> NoRequest]
    /\ seen = [t \in Tx |-> Blank]
    /\ failures = 0

\* t's handler is between its arrival and its answer.
Running(t) == pc[t] \notin Answers \cup {"idle"}

-----------------------------------------------------------------------------
(* What the steps of every handler have in common.                         *)

Goto(t, step) ==
    /\ pc' = [pc EXCEPT ![t] = step]
    /\ UNCHANGED <<req, seen, failures>>

Arrive(t, r, step) ==
    /\ pc[t] = "idle"
    /\ req' = [req EXCEPT ![t] = r]
    /\ pc' = [pc EXCEPT ![t] = step]
    /\ UNCHANGED <<seen, failures>>

\* The handler keeps what it has read in a local variable.
Remember(t, what, step) ==
    /\ pc' = [pc EXCEPT ![t] = step]
    /\ seen' = [seen EXCEPT ![t] = what]
    /\ UNCHANGED <<req, failures>>

\* Return or throw: the handler's locals are gone.
Answer(t, answer) ==
    /\ pc' = [pc EXCEPT ![t] = answer]
    /\ seen' = [seen EXCEPT ![t] = Blank]
    /\ UNCHANGED <<req, failures>>

\* A business exception: inside $transaction it rolls back.
Reject(t) == Rollback(t) /\ Answer(t, "rejected")

\* Mutant of Fail: the statements that came before the error stay.
FailKeepingWrites(t) == Commit(t) /\ Answer(t, "failed")

\* An exception nobody foresaw: the exception filter answers 500.
Fail(t) == Rollback(t) /\ Answer(t, "failed")

\* The callback of $transaction has returned.
CommitRequest(t) == pc[t] = "commit" /\ Commit(t) /\ Answer(t, "done")

\* Mutant of Abort: the statements run on the client, not on the transaction.
AbortKeepingWrites(t) ==
    /\ Running(t)
    /\ failures < MaxFailures
    /\ failures' = failures + 1
    /\ pc' = [pc EXCEPT ![t] = "failed"]
    /\ seen' = [seen EXCEPT ![t] = Blank]
    /\ Commit(t)
    /\ UNCHANGED req

\* The transaction timeout, a lost connection or a crash of the server takes
\* the request at any step before it commits.
Abort(t) ==
    /\ Running(t)
    /\ failures < MaxFailures
    /\ failures' = failures + 1
    /\ pc' = [pc EXCEPT ![t] = "failed"]
    /\ seen' = [seen EXCEPT ![t] = Blank]
    /\ Rollback(t)
    /\ UNCHANGED req

\* The server or the connection is lost after COMMIT took effect and before
\* the answer left: the caller takes it for a failure.
LoseAnswer(t) ==
    /\ pc[t] = "commit"
    /\ failures < MaxFailures
    /\ failures' = failures + 1
    /\ pc' = [pc EXCEPT ![t] = "failed"]
    /\ seen' = [seen EXCEPT ![t] = Blank]
    /\ Commit(t)
    /\ UNCHANGED req
=============================================================================
