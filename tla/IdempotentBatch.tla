--------------------------- MODULE IdempotentBatch ---------------------------
(***************************************************************************)
(* Requests that carry one requestId, in any number of API processes: the  *)
(* pending-marker lock of pipeline/idempotency.ts and runBatchBody of      *)
(* pipeline/dispatch-batch.ts, which runs the commands of the request that *)
(* takes the lock and stores its result for the others.                    *)
(*                                                                         *)
(* A step is a Redis command, the outcome of the transaction, or the work  *)
(* in between.  Commands, results and error texts are not told apart.      *)
(***************************************************************************)
EXTENDS Integers, FiniteSets

CONSTANTS
    Requests,  \* the request and its retries
    NoRequest

ASSUME IdempotentBatchAssumption == NoRequest \notin Requests

VARIABLES
    key,        \* the Redis key of the requestId
    req,        \* req[r]: where request r is
    lostTo,     \* lostTo[r]: the value of the key that r began to wait on
    withTx,     \* the batch runs in one transaction
    applied,    \* requests whose commands took effect, or some of them
    answer,     \* answer[r]: the request whose result r returned, unless that
                \* is a failure that a retry may repeat
    expired,    \* history: requests whose pending marker expired
    forgotten,  \* history: a stored result reached its TTL
    waitedBehind  \* history: waitedBehind[r]: the requests whose marker or
                  \* result was in the key while r waited, until r gets further

vars == <<key, req, lostTo, withTx, applied, answer, expired, forgotten, waitedBehind>>

-----------------------------------------------------------------------------
(* State.                                                                  *)

Absent     == [tag |-> "absent", by |-> NoRequest]
Pending(r) == [tag |-> "pending", by |-> r]
Result(r)  == [tag |-> "result", by |-> r]

KeyValues == {Absent} \cup {Pending(r) : r \in Requests} \cup {Result(r) : r \in Requests}

Running  == {"reserving", "running", "committing", "hooks", "storing", "releasing"}
Checking == {"polling", "reclaiming", "late", "lastResort"}
Ended    == {"answered", "gaveUp", "crashed"}

TypeOK ==
    /\ key \in KeyValues
    /\ req \in [Requests -> {"idle"} \cup Checking \cup Running \cup Ended]
    /\ lostTo \in [Requests -> KeyValues]
    /\ withTx \in BOOLEAN
    /\ applied \in SUBSET Requests
    /\ answer \in [Requests -> Requests \cup {NoRequest}]
    /\ expired \in SUBSET Requests
    /\ forgotten \in BOOLEAN
    /\ waitedBehind \in [Requests -> SUBSET Requests]

Init ==
    /\ key = Absent
    /\ req = [r \in Requests |-> "idle"]
    /\ lostTo = [r \in Requests |-> Absent]
    /\ withTx \in BOOLEAN
    /\ applied = {}
    /\ answer = [r \in Requests |-> NoRequest]
    /\ expired = {}
    /\ forgotten = FALSE
    /\ waitedBehind = [r \in Requests |-> {}]

-----------------------------------------------------------------------------
(* check().                                                                *)

(* tryAcquire: SET NX EX.  Whoever does not get the key goes to otherwise, *)
(* behind the request that has it; whoever gets it is in front of all that *)
(* wait.                                                                   *)
TryAcquire(r, otherwise) ==
    IF key = Absent
    THEN /\ key' = Pending(r)
         /\ req' = [req EXCEPT ![r] = "reserving"]
         /\ waitedBehind' =
                [q \in Requests |-> CASE q = r -> {}
                                     [] q # r /\ req[q] \in Checking -> waitedBehind[q] \cup {r}
                                     [] OTHER -> waitedBehind[q]]
    ELSE /\ req' = [req EXCEPT ![r] = otherwise]
         /\ waitedBehind' = [waitedBehind EXCEPT ![r] = @ \cup {key.by}]
         /\ UNCHANGED key

ReturnCached(r) ==
    /\ answer' = [answer EXCEPT ![r] = key.by]
    /\ req' = [req EXCEPT ![r] = "answered"]
    /\ lostTo' = [lostTo EXCEPT ![r] = Absent]
    /\ waitedBehind' = [waitedBehind EXCEPT ![r] = {}]

Check(r) ==
    /\ req[r] = "idle"
    /\ TryAcquire(r, "polling")
    /\ lostTo' = [lostTo EXCEPT ![r] = key]
    /\ UNCHANGED <<withTx, applied, answer, expired, forgotten>>

(* A GET that finds a pending marker changes nothing: the loop sleeps.     *)
Poll(r) ==
    /\ req[r] = "polling"
    /\ \/ key.tag = "result" /\ ReturnCached(r)
       \/ /\ key = Absent
          /\ req' = [req EXCEPT ![r] = "reclaiming"]
          /\ UNCHANGED <<answer, lostTo, waitedBehind>>
    /\ UNCHANGED <<key, withTx, applied, expired, forgotten>>

Reclaim(r) ==
    /\ req[r] = "reclaiming"
    /\ TryAcquire(r, "polling")
    /\ lostTo' = [lostTo EXCEPT ![r] = IF key = Absent THEN Absent ELSE @]
    /\ UNCHANGED <<withTx, applied, answer, expired, forgotten>>

(* Mutant of WaitTimeout: waitTimeoutMs is not clamped above pendingTtl.   *)
WaitTimeoutUnclamped(r) == req[r] = "polling"

(* waitTimeoutMs > pendingTtl: a marker that was there when the wait began *)
(* is gone when it ends.                                                   *)
WaitTimeout(r) == req[r] = "polling" /\ key # lostTo[r]

GiveUpWaiting(r) ==
    /\ WaitTimeout(r)
    /\ req' = [req EXCEPT ![r] = "late"]
    /\ lostTo' = [lostTo EXCEPT ![r] = Absent]
    /\ UNCHANGED <<key, withTx, applied, answer, expired, forgotten, waitedBehind>>

FinalGet(r) ==
    /\ req[r] = "late"
    /\ IF key.tag = "result"
       THEN ReturnCached(r)
       ELSE req' = [req EXCEPT ![r] = "lastResort"] /\ UNCHANGED <<answer, lostTo, waitedBehind>>
    /\ UNCHANGED <<key, withTx, applied, expired, forgotten>>

LastResort(r) ==
    /\ req[r] = "lastResort"
    /\ TryAcquire(r, "gaveUp")
    /\ UNCHANGED <<lostTo, withTx, applied, answer, expired, forgotten>>

-----------------------------------------------------------------------------
(* runBatchBody, once the lock is held.  A failure of 500 and above that   *)
(* is known to be rolled back releases the key, every other outcome is     *)
(* stored (releaseOrFinalize).                                             *)

(* reserveBeforeTransaction; a 4xx, perCommandBatchRejection too, is       *)
(* stored.                                                                 *)
Reserve(r) ==
    /\ req[r] = "reserving"
    /\ \E next \in {"running", "storing", "releasing"} : req' = [req EXCEPT ![r] = next]
    /\ UNCHANGED <<key, lostTo, withTx, applied, answer, expired, forgotten, waitedBehind>>

(* The transaction callback: completes, or throws and is rolled back.      *)
RunCommands(r) ==
    /\ req[r] = "running"
    /\ withTx
    /\ \E next \in {"committing", "storing", "releasing"} : req' = [req EXCEPT ![r] = next]
    /\ UNCHANGED <<key, lostTo, withTx, applied, answer, expired, forgotten, waitedBehind>>

(* Without a transaction the commands before the one that fails stay.      *)
RunCommandsWithoutTransaction(r) ==
    /\ req[r] = "running"
    /\ ~withTx
    /\ \E next \in {"hooks", "storing"} : req' = [req EXCEPT ![r] = next]
    /\ applied' = applied \cup {r}
    /\ UNCHANGED <<key, lostTo, withTx, answer, expired, forgotten, waitedBehind>>

Commit(r) ==
    /\ req[r] = "committing"
    /\ applied' = applied \cup {r}
    /\ req' = [req EXCEPT ![r] = "hooks"]
    /\ UNCHANGED <<key, lostTo, withTx, answer, expired, forgotten, waitedBehind>>

(* Mutant of AfterFailedCommit: every failure of the transaction is taken  *)
(* for a rollback.                                                         *)
AfterFailedCommitRetryable == "releasing"

(* transactionCallbackCompleted: the throw came from COMMIT.               *)
AfterFailedCommit == "storing"

(* COMMIT throws: whether it took effect is not known.                     *)
CommitFails(r) ==
    /\ req[r] = "committing"
    /\ applied' \in {applied, applied \cup {r}}
    /\ req' = [req EXCEPT ![r] = AfterFailedCommit]
    /\ UNCHANGED <<key, lostTo, withTx, answer, expired, forgotten, waitedBehind>>

(* flushAfterCommit and flushBatchHooks: their errors are logged only.     *)
FlushHooks(r) ==
    /\ req[r] = "hooks"
    /\ req' = [req EXCEPT ![r] = "storing"]
    /\ UNCHANGED <<key, lostTo, withTx, applied, answer, expired, forgotten, waitedBehind>>

(* Mutant of StoredKey: an unconditional SET.                              *)
StoredKeyAlways(r) == Result(r)

(* storeScript: the result replaces the marker of the run that stores it.  *)
StoredKey(r) == IF key = Pending(r) THEN Result(r) ELSE key

Store(r) ==
    /\ req[r] = "storing"
    /\ key' = StoredKey(r)
    /\ req' = [req EXCEPT ![r] = "answered"]
    /\ answer' = [answer EXCEPT ![r] = r]
    /\ UNCHANGED <<lostTo, withTx, applied, expired, forgotten, waitedBehind>>

(* Mutant of ReleasedKey: an unconditional DEL.                            *)
ReleasedKeyAlways(r) == Absent

(* releaseScript.                                                          *)
ReleasedKey(r) == IF key = Pending(r) THEN Absent ELSE key

Release(r) ==
    /\ req[r] = "releasing"
    /\ key' = ReleasedKey(r)
    /\ req' = [req EXCEPT ![r] = "answered"]
    /\ UNCHANGED <<lostTo, withTx, applied, answer, expired, forgotten, waitedBehind>>

-----------------------------------------------------------------------------
(* The environment.                                                        *)

(* The process dies, or Redis fails a command; a COMMIT on its way may     *)
(* have taken effect, and so may commands without a transaction.  A        *)
(* request that dies while it waits leaves nothing behind.                 *)
Crash(r) ==
    /\ req[r] \in Running
    /\ req' = [req EXCEPT ![r] = "crashed"]
    /\ \/ UNCHANGED applied
       \/ /\ req[r] = "committing" \/ (req[r] = "running" /\ ~withTx)
          /\ applied' = applied \cup {r}
    /\ UNCHANGED <<key, lostTo, withTx, answer, expired, forgotten, waitedBehind>>

(* Mutant of PendingExpires: SET NX without EX.                            *)
PendingNeverExpires == FALSE

(* "EX", pendingTtl.                                                       *)
PendingExpires == key.tag = "pending"

(* The pending TTL ends, its holder dead or merely slow.                   *)
ExpirePending ==
    /\ PendingExpires
    /\ key' = Absent
    /\ expired' = expired \cup {key.by}
    /\ UNCHANGED <<req, lostTo, withTx, applied, answer, forgotten, waitedBehind>>

ExpireResult ==
    /\ key.tag = "result"
    /\ key' = Absent
    /\ forgotten' = TRUE
    /\ UNCHANGED <<req, lostTo, withTx, applied, answer, expired, waitedBehind>>

-----------------------------------------------------------------------------

CheckStep(r) == Poll(r) \/ Reclaim(r) \/ GiveUpWaiting(r) \/ FinalGet(r) \/ LastResort(r)

BodyStep(r) ==
    \/ Reserve(r) \/ RunCommands(r) \/ RunCommandsWithoutTransaction(r)
    \/ Commit(r) \/ CommitFails(r) \/ FlushHooks(r)
    \/ Store(r) \/ Release(r)

Next ==
    \/ \E r \in Requests : Check(r) \/ CheckStep(r) \/ BodyStep(r) \/ Crash(r)
    \/ ExpirePending
    \/ ExpireResult

Spec == Init /\ [][Next]_vars

(* A request that polls does so again and again, handlers end, and Redis   *)
(* expires a marker that nobody renews.                                    *)
Fairness ==
    /\ \A r \in Requests : WF_vars(CheckStep(r)) /\ WF_vars(BodyStep(r))
    /\ WF_vars(ExpirePending)

FairSpec == Spec /\ Fairness

-----------------------------------------------------------------------------
(* Properties.                                                             *)

(* A run keeps the key from tryAcquire to store() or release() unless its  *)
(* own marker expires: no late store, release or claim of another request  *)
(* takes it away.                                                          *)
OwnerUndisturbed ==
    \A r \in Requests : req[r] \in Running /\ r \notin expired => key = Pending(r)

(* Of the requests with one requestId a second one takes effect only after *)
(* the marker of the first or its own has expired, or the stored result    *)
(* has: whatever crashes, and also when the outcome of a COMMIT is         *)
(* unknown.                                                                *)
AppliedOnce ==
    forgotten \/ \A r1, r2 \in applied : r1 = r2 \/ r1 \in expired \/ r2 \in expired

(* Retries get the same answer: two requests return the results of two     *)
(* runs only if the marker of one of those runs has expired, or the stored *)
(* result has, or one of the results is a rolled-back failure.             *)
SameAnswer ==
    forgotten \/ \A r1, r2 \in Requests :
        \/ answer[r1] = answer[r2]
        \/ {answer[r1], answer[r2]} \cap (expired \cup {NoRequest}) # {}

(* A stored result is never replaced: a run whose marker expired does not  *)
(* put its stale result over that of the run that reclaimed the key.       *)
ResultStays == [][key.tag = "result" => key' \in {key, Absent}]_vars

(* "If even that loses the race, fail loudly": a request gives up without  *)
(* having run only when, while it waited, the markers or results of two    *)
(* others were in the key.  One slow or dead holder is always outwaited;   *)
(* a holder that was done before the wait began does not count.            *)
GivesUpBehindTwoHolders ==
    \A r \in Requests : req[r] = "gaveUp" =>
        \E r1, r2 \in waitedBehind[r] : r1 # r2 /\ r \notin {r1, r2}

(* Every request that does not crash is answered or gives up, whoever      *)
(* holds the lock and crashes.                                             *)
EveryRequestEnds == \A r \in Requests : req[r] \in Checking \cup Running ~> req[r] \in Ended
=============================================================================
