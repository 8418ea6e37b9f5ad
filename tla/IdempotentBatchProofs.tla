------------------------- MODULE IdempotentBatchProofs -------------------------
(***************************************************************************)
(* What the pending-marker lock guarantees, for any number of requests.    *)
(* The argument: a request acquires at most once, so a marker that expired *)
(* never comes back; until then nobody but its owner touches the key.      *)
(* What took effect, or was answered, is therefore still on record in the  *)
(* key when the next request looks at it, unless a TTL ended.              *)
(***************************************************************************)
EXTENDS IdempotentBatch, TLAPS

-----------------------------------------------------------------------------
(* The inductive invariant.                                                *)

Waiting == {"idle"} \cup Checking

(* A request past its wait does not come back to it: it acquires no more.  *)
Held == {r \in Requests : req[r] \notin Waiting}

(* A request that waits has not held the key; a marker on the key is that  *)
(* of a request whose marker has not expired.                              *)
MarkerInv ==
    /\ expired \subseteq Held
    /\ \A r \in Requests : key = Pending(r) => r \in Held /\ r \notin expired

(* Up to the COMMIT, and when it releases, a request has had no effect.    *)
NoEffectYet ==
    \A r \in Requests :
        req[r] \in Waiting \cup {"reserving", "running", "committing", "releasing"}
            => r \notin applied

(* The key is the record of what took effect and of what was answered.     *)
EffectOnRecord ==
    forgotten \/ \A r \in applied : r \in expired \/ key = Pending(r) \/ key = Result(r)

AnswerOnRecord ==
    forgotten \/ \A r \in Requests :
        answer[r] = NoRequest \/ answer[r] \in expired \/ key = Result(answer[r])

IInv == TypeOK /\ MarkerInv /\ OwnerUndisturbed /\ NoEffectYet /\ EffectOnRecord /\ AnswerOnRecord

-----------------------------------------------------------------------------

(* The values of the key are told apart.                                   *)
LEMMA KeysDiffer ==
    /\ \A r : Absent # Pending(r) /\ Absent # Result(r)
    /\ \A r, s : Pending(r) # Result(s)
    /\ \A r, s : Pending(r) = Pending(s) => r = s
    /\ \A r, s : Result(r) = Result(s) => r = s
    /\ Absent.tag = "absent"
    /\ \A r : Pending(r).tag = "pending" /\ Pending(r).by = r
    /\ \A r : Result(r).tag = "result" /\ Result(r).by = r
BY DEF Absent, Pending, Result

(* What a key of a given tag is.                                           *)
LEMMA KeyCases ==
    ASSUME key \in KeyValues
    PROVE  /\ key.tag = "pending" => key.by \in Requests /\ key = Pending(key.by)
           /\ key.tag = "result" => key.by \in Requests /\ key = Result(key.by)
BY KeysDiffer DEF KeyValues

(* Initially nobody has the key.                                           *)
LEMMA InitIInv == Init => IInv
BY KeysDiffer DEF Init, IInv, TypeOK, MarkerInv, OwnerUndisturbed, NoEffectYet, EffectOnRecord,
   AnswerOnRecord, KeyValues, Held, Waiting, Checking, Running, Ended

(* SET NX, from any of the three places that try it.                       *)
LEMMA AcquireIInv ==
    ASSUME IInv, NEW r \in Requests, NEW o \in {"polling", "gaveUp"},
           req[r] \in Waiting, TryAcquire(r, o),
           lostTo' \in [Requests -> KeyValues],
           UNCHANGED <<withTx, applied, answer, expired, forgotten>>
    PROVE  IInv'
<1> USE KeysDiffer DEF Held, Waiting, Checking, Running, Ended
<1>1. TypeOK'
  BY DEF IInv, TypeOK, TryAcquire, KeyValues
<1>2. MarkerInv'
  BY DEF IInv, TypeOK, MarkerInv, TryAcquire
<1>3. OwnerUndisturbed'
  BY DEF IInv, TypeOK, MarkerInv, OwnerUndisturbed, TryAcquire
<1>4. NoEffectYet'
  BY DEF IInv, TypeOK, NoEffectYet, TryAcquire
<1>5. EffectOnRecord' /\ AnswerOnRecord'
  BY DEF IInv, TypeOK, EffectOnRecord, AnswerOnRecord, TryAcquire
<1> QED
  BY <1>1, <1>2, <1>3, <1>4, <1>5 DEF IInv

(* A request looks at the key and leaves it alone.                         *)
LEMMA LookIInv ==
    ASSUME IInv, NEW r \in Requests, Poll(r) \/ GiveUpWaiting(r) \/ FinalGet(r)
    PROVE  IInv'
<1> USE KeysDiffer, KeyCases DEF Held, Waiting, Checking, Running, Ended
<1>1. req[r] \in Checking
  BY DEF Poll, GiveUpWaiting, WaitTimeout, FinalGet
<1>2. \E s \in Checking \cup {"answered"} : req' = [req EXCEPT ![r] = s]
  BY DEF Poll, GiveUpWaiting, FinalGet, ReturnCached
<1>3. /\ UNCHANGED <<key, withTx, applied, expired, forgotten>>
      /\ lostTo' \in [Requests -> KeyValues]
      /\ waitedBehind' \in [Requests -> SUBSET Requests]
  BY DEF Poll, GiveUpWaiting, FinalGet, ReturnCached, IInv, TypeOK, KeyValues
<1>4. \/ UNCHANGED answer
      \/ key.tag = "result" /\ answer' = [answer EXCEPT ![r] = key.by]
  BY DEF Poll, GiveUpWaiting, FinalGet, ReturnCached
<1>5. TypeOK'
  <2>1. key \in KeyValues /\ answer \in [Requests -> Requests \cup {NoRequest}]
    BY DEF IInv, TypeOK
  <2>2. key.tag = "result" => key.by \in Requests
    BY <2>1, KeyCases
  <2>3. answer' \in [Requests -> Requests \cup {NoRequest}]
    BY <1>4, <2>1, <2>2
  <2>4. req' \in [Requests -> {"idle"} \cup Checking \cup Running \cup Ended]
    BY <1>2 DEF IInv, TypeOK
  <2> QED
    BY <1>3, <2>3, <2>4 DEF IInv, TypeOK
<1>6. MarkerInv' /\ NoEffectYet'
  BY <1>1, <1>2, <1>3 DEF IInv, TypeOK, MarkerInv, NoEffectYet
<1>7. OwnerUndisturbed' /\ EffectOnRecord'
  BY <1>1, <1>2, <1>3 DEF IInv, TypeOK, OwnerUndisturbed, EffectOnRecord
<1>8. AnswerOnRecord'
  BY <1>3, <1>4 DEF IInv, TypeOK, AnswerOnRecord
<1> QED
  BY <1>5, <1>6, <1>7, <1>8 DEF IInv

(* The run of the commands: the key stays, an effect is that of a request  *)
(* that still has its marker or has lost it.                               *)
LEMMA RunIInv ==
    ASSUME IInv, NEW r \in Requests,
           \/ Reserve(r) \/ RunCommands(r) \/ RunCommandsWithoutTransaction(r)
           \/ Commit(r) \/ CommitFails(r) \/ FlushHooks(r) \/ Crash(r)
    PROVE  IInv'
<1> USE KeysDiffer DEF Held, Waiting, Checking, Running, Ended
<1> DEFINE NewStates == {"running", "committing", "hooks", "storing", "releasing", "crashed"}
<1>1. /\ req[r] \in Running
      /\ UNCHANGED <<key, lostTo, withTx, answer, expired, forgotten, waitedBehind>>
  BY DEF Reserve, RunCommands, RunCommandsWithoutTransaction, Commit, CommitFails, FlushHooks, Crash
<1>2. \E s \in NewStates :
         /\ req' = [req EXCEPT ![r] = s]
         /\ s \in {"running", "committing", "releasing"} =>
               UNCHANGED applied /\ req[r] \in {"reserving", "running"}
  BY DEF Reserve, RunCommands, RunCommandsWithoutTransaction, Commit, CommitFails,
         AfterFailedCommit, FlushHooks, Crash
<1>3. applied' = applied \/ applied' = applied \cup {r}
  BY DEF Reserve, RunCommands, RunCommandsWithoutTransaction, Commit, CommitFails, FlushHooks, Crash
<1>4. TypeOK'
  BY <1>1, <1>2, <1>3 DEF IInv, TypeOK
<1>5. MarkerInv'
  BY <1>1, <1>2 DEF IInv, TypeOK, MarkerInv
<1>6. OwnerUndisturbed'
  BY <1>1, <1>2 DEF IInv, TypeOK, OwnerUndisturbed
<1>7. NoEffectYet'
  BY <1>1, <1>2, <1>3 DEF IInv, TypeOK, NoEffectYet
<1>8. EffectOnRecord'
  BY <1>1, <1>3 DEF IInv, TypeOK, OwnerUndisturbed, EffectOnRecord
<1>9. AnswerOnRecord'
  BY <1>1 DEF IInv, AnswerOnRecord
<1> QED
  BY <1>4, <1>5, <1>6, <1>7, <1>8, <1>9 DEF IInv

(* store() and release(): compare-and-swap.                                *)
LEMMA StoreIInv ==
    ASSUME IInv, NEW r \in Requests, Store(r)
    PROVE  IInv'
<1> USE KeysDiffer DEF Held, Waiting, Checking, Running, Ended
<1>1. TypeOK'
  BY DEF IInv, TypeOK, Store, StoredKey, KeyValues
<1>2. MarkerInv' /\ NoEffectYet'
  BY DEF IInv, TypeOK, MarkerInv, NoEffectYet, Store, StoredKey
<1>3. OwnerUndisturbed'
  BY DEF IInv, TypeOK, OwnerUndisturbed, Store, StoredKey
<1>4. EffectOnRecord'
  BY DEF IInv, TypeOK, EffectOnRecord, Store, StoredKey
<1>5. AnswerOnRecord'
  BY DEF IInv, TypeOK, OwnerUndisturbed, AnswerOnRecord, Store, StoredKey
<1> QED
  BY <1>1, <1>2, <1>3, <1>4, <1>5 DEF IInv

LEMMA ReleaseIInv ==
    ASSUME IInv, NEW r \in Requests, Release(r)
    PROVE  IInv'
<1> USE KeysDiffer DEF Held, Waiting, Checking, Running, Ended
<1>1. TypeOK'
  BY DEF IInv, TypeOK, Release, ReleasedKey, KeyValues
<1>2. MarkerInv' /\ NoEffectYet'
  BY DEF IInv, TypeOK, MarkerInv, NoEffectYet, Release, ReleasedKey
<1>3. OwnerUndisturbed'
  BY DEF IInv, TypeOK, OwnerUndisturbed, Release, ReleasedKey
<1>4. EffectOnRecord' /\ AnswerOnRecord'
  BY DEF IInv, TypeOK, NoEffectYet, EffectOnRecord, AnswerOnRecord, Release, ReleasedKey
<1> QED
  BY <1>1, <1>2, <1>3, <1>4 DEF IInv

(* The end of a TTL.                                                       *)
LEMMA ExpireIInv ==
    ASSUME IInv, ExpirePending \/ ExpireResult
    PROVE  IInv'
<1> USE KeysDiffer, KeyCases DEF Held, Waiting, Checking, Running, Ended
<1>1. TypeOK'
  BY DEF IInv, TypeOK, ExpirePending, PendingExpires, ExpireResult, KeyValues
<1>2. MarkerInv' /\ NoEffectYet'
  BY DEF IInv, TypeOK, MarkerInv, NoEffectYet, ExpirePending, PendingExpires, ExpireResult
<1>3. OwnerUndisturbed'
  BY DEF IInv, TypeOK, OwnerUndisturbed, ExpirePending, PendingExpires, ExpireResult
<1>4. EffectOnRecord' /\ AnswerOnRecord'
  BY DEF IInv, TypeOK, EffectOnRecord, AnswerOnRecord, ExpirePending, PendingExpires, ExpireResult
<1> QED
  BY <1>1, <1>2, <1>3, <1>4 DEF IInv

(* Every step preserves the invariant.                                     *)
LEMMA NextIInv == IInv /\ [Next]_vars => IInv'
<1> SUFFICES ASSUME IInv, [Next]_vars PROVE IInv'
  OBVIOUS
<1>1. ASSUME NEW r \in Requests, Check(r) PROVE IInv'
  <2>1. TryAcquire(r, "polling") /\ UNCHANGED <<withTx, applied, answer, expired, forgotten>>
    BY <1>1 DEF Check
  <2>2. req[r] \in Waiting /\ lostTo' \in [Requests -> KeyValues]
    BY <1>1 DEF Check, Waiting, IInv, TypeOK
  <2> QED
    BY <2>1, <2>2, AcquireIInv
<1>2. ASSUME NEW r \in Requests, Reclaim(r) PROVE IInv'
  <2>1. TryAcquire(r, "polling") /\ UNCHANGED <<withTx, applied, answer, expired, forgotten>>
    BY <1>2 DEF Reclaim
  <2>2. req[r] \in Waiting /\ lostTo' \in [Requests -> KeyValues]
    BY <1>2 DEF Reclaim, Waiting, Checking, IInv, TypeOK
  <2> QED
    BY <2>1, <2>2, AcquireIInv
<1>3. ASSUME NEW r \in Requests, LastResort(r) PROVE IInv'
  <2>1. TryAcquire(r, "gaveUp") /\ UNCHANGED <<withTx, applied, answer, expired, forgotten>>
    BY <1>3 DEF LastResort
  <2>2. req[r] \in Waiting /\ lostTo' \in [Requests -> KeyValues]
    BY <1>3 DEF LastResort, Waiting, Checking, IInv, TypeOK
  <2> QED
    BY <2>1, <2>2, AcquireIInv
<1>4. CASE UNCHANGED vars
  BY <1>4 DEF vars, IInv, TypeOK, MarkerInv, OwnerUndisturbed, NoEffectYet, EffectOnRecord,
              AnswerOnRecord, Held
<1> QED
  BY <1>1, <1>2, <1>3, <1>4, LookIInv, RunIInv, StoreIInv, ReleaseIInv, ExpireIInv
  DEF Next, CheckStep, BodyStep

-----------------------------------------------------------------------------
(* The theorems.                                                           *)

(* The invariant holds in every reachable state.                           *)
LEMMA AlwaysIInv == Spec => []IInv
BY InitIInv, NextIInv, PTL DEF Spec

(* States, key values and histories keep their ranges, for any number of   *)
(* requests with one requestId (check, store, release, runBatchBody).      *)
THEOREM BatchTypeCorrect == Spec => []TypeOK
<1>1. IInv => TypeOK
  BY DEF IInv
<1> QED
  BY <1>1, AlwaysIInv, PTL

(* A run keeps its key until it is done or its marker expires, however     *)
(* many others wait, crash or come back late with store() and release().   *)
THEOREM LockIsOwned == Spec => []OwnerUndisturbed
<1>1. IInv => OwnerUndisturbed
  BY DEF IInv
<1> QED
  BY <1>1, AlwaysIInv, PTL

(* The commands of one requestId take effect once, unless a TTL ends in    *)
(* between (releaseOrFinalize keeps the key when the outcome of COMMIT is  *)
(* unknown).                                                               *)
THEOREM EffectOnce == Spec => []AppliedOnce
<1>1. IInv => AppliedOnce
  BY KeysDiffer DEF IInv, TypeOK, EffectOnRecord, AppliedOnce
<1> QED
  BY <1>1, AlwaysIInv, PTL

(* Retries get the answer of the run that took effect, unless a TTL ends   *)
(* in between.                                                             *)
THEOREM AnswerOnce == Spec => []SameAnswer
<1>1. IInv => SameAnswer
  BY KeysDiffer DEF IInv, TypeOK, AnswerOnRecord, SameAnswer
<1> QED
  BY <1>1, AlwaysIInv, PTL

(* No step puts a result over another one (storeScript).                   *)
THEOREM ResultKept == Spec => ResultStays
<1>1. IInv /\ [Next]_vars => [key.tag = "result" => key' \in {key, Absent}]_vars
  <2> SUFFICES ASSUME IInv, Next, key.tag = "result" PROVE key' \in {key, Absent}
    OBVIOUS
  <2>1. key # Absent /\ \A r \in Requests : key # Pending(r)
    BY KeysDiffer
  <2> QED
    BY <2>1 DEF Next, CheckStep, BodyStep, Check, Poll, Reclaim, GiveUpWaiting, FinalGet,
       LastResort, TryAcquire, ReturnCached, Reserve, RunCommands, RunCommandsWithoutTransaction,
       Commit, CommitFails, FlushHooks, Store, StoredKey, Release, ReleasedKey, Crash,
       ExpirePending, PendingExpires, ExpireResult
<1> QED
  BY <1>1, AlwaysIInv, PTL DEF Spec, ResultStays

-----------------------------------------------------------------------------
(* Who held the key while a request waited.                                *)

(* A request waits behind others, none of which acquires again, and behind *)
(* all whose marker or result is in the key.                               *)
Behind(r) ==
    /\ r \notin waitedBehind[r]
    /\ waitedBehind[r] \subseteq Held
    /\ req[r] \in Checking =>
          \A x \in Requests : key \in {Pending(x), Result(x)} => x \in waitedBehind[r]

(* A request that polls lost to a holder; once its wait has ended one      *)
(* holder's marker is gone for good, and after the final GET its result,   *)
(* too, is not what the key holds.                                         *)
LostToHolder(r) ==
    /\ req[r] \in {"polling", "reclaiming"} =>
          /\ lostTo[r] # Absent
          /\ \A x \in Requests :
                /\ lostTo[r] = Pending(x) => x \in waitedBehind[r]
                /\ lostTo[r] = Result(x) => x \in waitedBehind[r] /\ key # Pending(x)
    /\ req[r] = "late" => \E x \in waitedBehind[r] : key # Pending(x)
    /\ req[r] = "lastResort" => \E x \in waitedBehind[r] : key # Pending(x) /\ key # Result(x)

TwoInFront(r) ==
    req[r] = "gaveUp" => \E r1, r2 \in waitedBehind[r] : r1 # r2 /\ r \notin {r1, r2}

HolderInv ==
    /\ \A x \in Requests : key = Result(x) => x \in Held
    /\ \A r \in Requests : Behind(r) /\ LostToHolder(r) /\ TwoInFront(r)

(* A marker that was once there comes back on no step, and a result only   *)
(* follows its marker; whoever takes the key is in front of all that wait. *)
LEMMA HoldersStay ==
    ASSUME IInv, Next
    PROVE  /\ Held \subseteq Held'
           /\ \A x \in Held : key' = Pending(x) => key = Pending(x)
           /\ \A x \in Held : key' = Result(x) => key \in {Pending(x), Result(x)}
           /\ \A x \in Requests : key' = Pending(x) => x \in Held'
           /\ \A x \in Requests : key' = Result(x) => key \in {Pending(x), Result(x)}
<1> USE KeysDiffer
<1>0. req \in [Requests -> {"idle"} \cup Checking \cup Running \cup Ended]
  BY DEF IInv, TypeOK
<1>1. ASSUME NEW r \in Requests, NEW o \in {"polling", "gaveUp"}, TryAcquire(r, o),
             req[r] \in Waiting
      PROVE  /\ Held \subseteq Held' /\ r \notin Held
             /\ key' = key \/ (key' = Pending(r) /\ r \in Held')
  BY <1>0, <1>1 DEF TryAcquire, Held, Waiting, Checking
<1>2. ASSUME NEW r \in Requests, Check(r) \/ Reclaim(r) \/ LastResort(r)
      PROVE  /\ Held \subseteq Held' /\ r \notin Held
             /\ key' = key \/ (key' = Pending(r) /\ r \in Held')
  BY <1>1, <1>2 DEF Check, Reclaim, LastResort, Waiting, Checking
<1>3. ASSUME NEW r \in Requests, Poll(r) \/ GiveUpWaiting(r) \/ FinalGet(r)
      PROVE  Held \subseteq Held' /\ key' = key
  BY <1>0, <1>3 DEF Poll, GiveUpWaiting, WaitTimeout, FinalGet, ReturnCached, Held, Waiting,
     Checking
<1>4. ASSUME NEW r \in Requests, BodyStep(r) \/ Crash(r)
      PROVE  /\ Held \subseteq Held'
             /\ key' \in {key, Absent} \/ (key = Pending(r) /\ key' = Result(r))
  <2>1. /\ \E n \in Running \cup {"answered", "crashed"} : req' = [req EXCEPT ![r] = n]
        /\ key' \in {key, Absent} \/ (key = Pending(r) /\ key' = Result(r))
    BY <1>4 DEF BodyStep, Reserve, RunCommands, RunCommandsWithoutTransaction, Commit, CommitFails,
       AfterFailedCommit, FlushHooks, Store, StoredKey, Release, ReleasedKey, Crash, Running
  <2> QED
    BY <1>0, <2>1 DEF Held, Waiting, Checking, Running
<1>5. ASSUME ExpirePending \/ ExpireResult
      PROVE  Held' = Held /\ key' = Absent
  BY <1>5 DEF ExpirePending, ExpireResult, Held
<1>6. Held \subseteq Requests /\ \A x \in Requests : key = Pending(x) => x \in Held
  BY DEF IInv, MarkerInv, Held
<1> QED
  BY <1>2, <1>3, <1>4, <1>5, <1>6 DEF Next, CheckStep

(* tryAcquire: a request that does not get the key is behind its holder.   *)
LEMMA AcquireBehind ==
    ASSUME IInv, HolderInv, NEW r \in Requests, NEW o \in {"polling", "gaveUp"},
           TryAcquire(r, o), req[r] \in Waiting
    PROVE  /\ \A q \in Requests : q # r =>
                 /\ req'[q] = req[q]
                 /\ waitedBehind[q] \subseteq waitedBehind'[q]
                 /\ Behind(q)'
           /\ Behind(r)'
           /\ req'[r] = o =>
                 /\ key # Absent /\ key' = key
                 /\ waitedBehind[r] \subseteq waitedBehind'[r]
                 /\ \A x \in Requests : key \in {Pending(x), Result(x)} => x \in waitedBehind'[r]
           /\ req'[r] \in {o, "reserving"}
<1> USE KeysDiffer
<1>1. /\ req \in [Requests -> {"idle"} \cup Checking \cup Running \cup Ended]
      /\ waitedBehind \in [Requests -> SUBSET Requests]
      /\ key = Absent \/ \E x \in Requests : key \in {Pending(x), Result(x)}
      /\ \A x \in Requests : key \in {Pending(x), Result(x)} => x \in Held
  BY DEF IInv, TypeOK, KeyValues, MarkerInv, HolderInv
<1>2. \A q \in Requests : Behind(q)
  BY DEF HolderInv
<1>3. Held \subseteq Held' /\ r \notin Held
  BY <1>1 DEF TryAcquire, Held, Waiting, Checking
<1>4. CASE key = Absent
  <2>1. /\ key' = Pending(r) /\ r \in Held'
        /\ req'[r] = "reserving" /\ \A q \in Requests : q # r => req'[q] = req[q]
    BY <1>1, <1>4 DEF TryAcquire, Held, Waiting, Checking
  <2>2. /\ waitedBehind'[r] = {}
        /\ \A q \in Requests : q # r =>
              waitedBehind'[q] = IF req[q] \in Checking THEN waitedBehind[q] \cup {r}
                                 ELSE waitedBehind[q]
    BY <1>4 DEF TryAcquire
  <2>3. Behind(r)'
    BY <2>1, <2>2 DEF Behind, Checking
  <2>4. ASSUME NEW q \in Requests, q # r PROVE Behind(q)'
    <3>1. /\ Behind(q) /\ req'[q] = req[q]
          /\ \A x \in Requests : key' \in {Pending(x), Result(x)} => x = r
      BY <1>2, <2>1, <2>4
    <3>2. CASE req[q] \in Checking
      <4>1. waitedBehind'[q] = waitedBehind[q] \cup {r}
        BY <2>2, <2>4, <3>2
      <4> QED
        BY <1>3, <2>1, <2>4, <3>1, <4>1 DEF Behind
    <3>3. CASE req[q] \notin Checking
      <4>1. waitedBehind'[q] = waitedBehind[q]
        BY <2>2, <2>4, <3>3
      <4> QED
        BY <1>3, <3>1, <3>3, <4>1 DEF Behind
    <3> QED
      BY <3>2, <3>3
  <2> QED
    BY <2>1, <2>2, <2>3, <2>4
<1>5. CASE key # Absent
  <2>1. PICK x \in Requests : key \in {Pending(x), Result(x)}
    BY <1>1, <1>5
  <2>2. key.by = x /\ x \in Held /\ x # r
    BY <1>1, <1>3, <2>1
  <2>3. /\ key' = key
        /\ req'[r] = o /\ \A q \in Requests : q # r => req'[q] = req[q]
        /\ waitedBehind'[r] = waitedBehind[r] \cup {x}
        /\ \A q \in Requests : q # r => waitedBehind'[q] = waitedBehind[q]
    BY <1>1, <1>5, <2>2 DEF TryAcquire
  <2>4. \A y \in Requests : key \in {Pending(y), Result(y)} => y = x
    BY <2>1
  <2>5. Behind(r)'
    BY <1>2, <1>3, <2>2, <2>3, <2>4 DEF Behind
  <2>6. ASSUME NEW q \in Requests, q # r PROVE Behind(q)'
    BY <1>2, <1>3, <2>3, <2>6 DEF Behind
  <2> QED
    BY <1>5, <2>3, <2>4, <2>5, <2>6
<1> QED
  BY <1>4, <1>5

(* Every step preserves what is known of the holders.                      *)
LEMMA NextHolderInv == IInv /\ HolderInv /\ [Next]_vars => HolderInv'
<1> SUFFICES ASSUME IInv, HolderInv, [Next]_vars PROVE HolderInv'
  OBVIOUS
<1>1. CASE UNCHANGED vars
  BY <1>1 DEF vars, HolderInv, Behind, LostToHolder, TwoInFront, Held
<1>2. CASE Next
  <2> USE KeysDiffer
  <2>1. /\ Held \subseteq Held' /\ Held \subseteq Requests
        /\ \A x \in Held : key' = Pending(x) => key = Pending(x)
        /\ \A x \in Held : key' = Result(x) => key \in {Pending(x), Result(x)}
        /\ \A x \in Requests : key' = Pending(x) => x \in Held'
        /\ \A x \in Requests : key' = Result(x) => key \in {Pending(x), Result(x)}
        /\ \A x \in Requests : key \in {Pending(x), Result(x)} => x \in Held
    BY <1>2, HoldersStay DEF IInv, MarkerInv, HolderInv, Held
  <2>2. /\ key \in KeyValues
        /\ key = Absent \/ \E x \in Requests : key \in {Pending(x), Result(x)}
        /\ req \in [Requests -> {"idle"} \cup Checking \cup Running \cup Ended]
        /\ lostTo \in [Requests -> KeyValues]
        /\ waitedBehind \in [Requests -> SUBSET Requests]
    BY DEF IInv, TypeOK, KeyValues
  <2>3. ASSUME NEW q \in Requests, req'[q] = req[q], lostTo'[q] = lostTo[q],
               waitedBehind[q] \subseteq waitedBehind'[q]
        PROVE  LostToHolder(q)' /\ TwoInFront(q)'
    <3>1. Behind(q) /\ LostToHolder(q) /\ TwoInFront(q)
      BY DEF HolderInv
    <3>2. LostToHolder(q)'
      BY <2>1, <2>3, <3>1 DEF Behind, LostToHolder
    <3>3. TwoInFront(q)'
      BY <2>3, <3>1 DEF TwoInFront
    <3> QED
      BY <3>2, <3>3
  <2>4. ASSUME NEW q \in Requests, req'[q] \notin Checking \cup {"gaveUp"}
        PROVE  LostToHolder(q)' /\ TwoInFront(q)'
    BY <2>4 DEF LostToHolder, TwoInFront, Checking
  <2>5. ASSUME NEW q \in Requests, UNCHANGED <<req[q], waitedBehind[q]>>,
               \A x \in Requests : key' = Pending(x) => key = Pending(x)
        PROVE  Behind(q)'
    <3>1. Behind(q)
      BY DEF HolderInv
    <3>2. req[q] \in Checking => \A x \in Requests : key' \in {Pending(x), Result(x)}
                                     => x \in waitedBehind[q]
      BY <2>1, <2>5, <3>1 DEF Behind
    <3> QED
      BY <2>1, <2>5, <3>1, <3>2 DEF Behind
  <2>6. \A x \in Requests : key' = Result(x) => x \in Held'
    BY <2>1
  <2>7. ASSUME NEW r \in Requests, NEW o \in {"polling", "gaveUp"}, TryAcquire(r, o),
               req[r] \in Waiting,
               \A q \in Requests : q # r => lostTo'[q] = lostTo[q],
               req'[r] = o => LostToHolder(r)' /\ TwoInFront(r)'
        PROVE  HolderInv'
    <3>1. /\ \A q \in Requests : q # r => /\ req'[q] = req[q]
                                          /\ waitedBehind[q] \subseteq waitedBehind'[q]
                                          /\ Behind(q)'
          /\ Behind(r)' /\ req'[r] \in {o, "reserving"}
      BY <2>7, AcquireBehind
    <3>2. \A q \in Requests : q # r => LostToHolder(q)' /\ TwoInFront(q)'
      BY <2>3, <2>7, <3>1
    <3>3. req'[r] = "reserving" => LostToHolder(r)' /\ TwoInFront(r)'
      BY <2>4 DEF Checking
    <3> QED
      BY <2>6, <2>7, <3>1, <3>2, <3>3 DEF HolderInv
  <2>8. ASSUME NEW r \in Requests, key' = key,
               \A q \in Requests : q # r => UNCHANGED <<req[q], lostTo[q], waitedBehind[q]>>,
               Behind(r)', LostToHolder(r)', TwoInFront(r)'
        PROVE  HolderInv'
    <3>1. \A q \in Requests : q # r => Behind(q)' /\ LostToHolder(q)' /\ TwoInFront(q)'
      BY <2>3, <2>5, <2>8
    <3> QED
      BY <2>6, <2>8, <3>1 DEF HolderInv
  <2>9. ASSUME NEW r \in Requests, Check(r) PROVE HolderInv'
    <3>1. /\ TryAcquire(r, "polling") /\ req[r] \in Waiting
          /\ lostTo'[r] = key /\ \A q \in Requests : q # r => lostTo'[q] = lostTo[q]
      BY <2>2, <2>9 DEF Check, Waiting
    <3>2. ASSUME req'[r] = "polling" PROVE LostToHolder(r)' /\ TwoInFront(r)'
      <4>1. /\ key # Absent /\ key' = key
            /\ \A x \in Requests : key \in {Pending(x), Result(x)} => x \in waitedBehind'[r]
        BY <3>1, <3>2, AcquireBehind
      <4> QED
        BY <3>1, <3>2, <4>1 DEF LostToHolder, TwoInFront
    <3> QED
      BY <2>7, <3>1, <3>2
  <2>10. ASSUME NEW r \in Requests, Reclaim(r) PROVE HolderInv'
    <3>1. /\ TryAcquire(r, "polling") /\ req[r] \in Waiting /\ req[r] = "reclaiming"
          /\ \A q \in Requests : q # r => lostTo'[q] = lostTo[q]
          /\ key # Absent => lostTo'[r] = lostTo[r]
      BY <2>2, <2>10 DEF Reclaim, Waiting, Checking
    <3>2. ASSUME req'[r] = "polling" PROVE LostToHolder(r)' /\ TwoInFront(r)'
      <4>1. key # Absent /\ key' = key /\ waitedBehind[r] \subseteq waitedBehind'[r]
        BY <3>1, <3>2, AcquireBehind
      <4> QED
        BY <3>1, <3>2, <4>1 DEF HolderInv, LostToHolder, TwoInFront
    <3> QED
      BY <2>7, <3>1, <3>2
  <2>11. ASSUME NEW r \in Requests, LastResort(r) PROVE HolderInv'
    <3>1. /\ TryAcquire(r, "gaveUp") /\ req[r] \in Waiting /\ req[r] = "lastResort"
          /\ \A q \in Requests : q # r => lostTo'[q] = lostTo[q]
      BY <2>2, <2>11 DEF LastResort, Waiting, Checking
    <3>2. ASSUME req'[r] = "gaveUp" PROVE LostToHolder(r)' /\ TwoInFront(r)'
      <4>1. /\ key # Absent /\ waitedBehind[r] \subseteq waitedBehind'[r]
            /\ \A x \in Requests : key \in {Pending(x), Result(x)} => x \in waitedBehind'[r]
            /\ Behind(r)'
        BY <3>1, <3>2, AcquireBehind
      <4>2. PICK x \in waitedBehind[r] : key # Pending(x) /\ key # Result(x)
        BY <3>1 DEF HolderInv, LostToHolder
      <4>3. PICK y \in Requests : key \in {Pending(y), Result(y)}
        BY <2>2, <4>1
      <4>4. x \in waitedBehind'[r] /\ y \in waitedBehind'[r] /\ x # y /\ r \notin {x, y}
        BY <4>1, <4>2, <4>3 DEF Behind
      <4> QED
        BY <3>2, <4>4 DEF LostToHolder, TwoInFront
    <3> QED
      BY <2>7, <3>1, <3>2
  <2>12. ASSUME NEW r \in Requests, Poll(r) \/ FinalGet(r) \/ GiveUpWaiting(r) PROVE HolderInv'
    <3>1. /\ key' = key /\ req[r] \in Checking
          /\ \A q \in Requests : q # r => UNCHANGED <<req[q], lostTo[q], waitedBehind[q]>>
          /\ \/ req'[r] = "answered" /\ waitedBehind'[r] = {}
             \/ req'[r] \in Checking /\ waitedBehind'[r] = waitedBehind[r]
      BY <2>2, <2>12 DEF Poll, FinalGet, GiveUpWaiting, WaitTimeout, ReturnCached, Checking
    <3>2. Behind(r)'
      BY <2>1, <3>1 DEF HolderInv, Behind, Checking
    <3>3. Behind(r) /\ LostToHolder(r)
      BY DEF HolderInv
    <3>4. CASE req'[r] = "answered"
      BY <2>4, <2>8, <3>1, <3>2, <3>4 DEF Checking
    <3>5. CASE req'[r] = "reclaiming"
      <4>1. req[r] = "polling" /\ lostTo' = lostTo
        BY <2>2, <2>12, <3>5 DEF Poll, FinalGet, GiveUpWaiting, ReturnCached
      <4>2. LostToHolder(r)' /\ TwoInFront(r)'
        BY <3>1, <3>3, <3>5, <4>1 DEF LostToHolder, TwoInFront
      <4> QED
        BY <2>8, <3>1, <3>2, <4>2
    <3>6. CASE req'[r] = "lastResort"
      <4>1. req[r] = "late" /\ key.tag # "result"
        BY <2>2, <2>12, <3>6 DEF Poll, FinalGet, GiveUpWaiting, ReturnCached
      <4>2. \A x : key # Result(x)
        BY <4>1
      <4>3. LostToHolder(r)' /\ TwoInFront(r)'
        BY <3>1, <3>3, <3>6, <4>1, <4>2 DEF LostToHolder, TwoInFront
      <4> QED
        BY <2>8, <3>1, <3>2, <4>3
    <3>7. CASE req'[r] = "late"
      <4>1. req[r] = "polling" /\ key # lostTo[r]
        BY <2>2, <2>12, <3>7 DEF Poll, FinalGet, GiveUpWaiting, WaitTimeout, ReturnCached
      <4>2. PICK x \in Requests : lostTo[r] \in {Pending(x), Result(x)}
        BY <2>2, <3>3, <4>1 DEF LostToHolder, KeyValues
      <4>3. x \in waitedBehind[r] /\ key # Pending(x)
        BY <3>3, <4>1, <4>2 DEF LostToHolder
      <4>4. LostToHolder(r)' /\ TwoInFront(r)'
        BY <3>1, <3>7, <4>3 DEF LostToHolder, TwoInFront
      <4> QED
        BY <2>8, <3>1, <3>2, <4>4
    <3>8. req'[r] \in {"answered", "reclaiming", "lastResort", "late"}
      BY <2>2, <2>12 DEF Poll, FinalGet, GiveUpWaiting, ReturnCached
    <3> QED
      BY <3>4, <3>5, <3>6, <3>7, <3>8
  <2>13. ASSUME NEW r \in Requests, BodyStep(r) \/ Crash(r) PROVE HolderInv'
    <3>1. /\ req'[r] \in Running \cup {"answered", "crashed"}
          /\ \A q \in Requests : q # r => req'[q] = req[q]
          /\ UNCHANGED <<lostTo, waitedBehind>>
          /\ key' \in {key, Absent} \/ (key = Pending(r) /\ key' = Result(r))
      BY <2>2, <2>13 DEF BodyStep, Reserve, RunCommands, RunCommandsWithoutTransaction, Commit,
         CommitFails, AfterFailedCommit, FlushHooks, Store, StoredKey, Release, ReleasedKey, Crash,
         Running
    <3>2. \A q \in Requests : q # r => Behind(q)' /\ LostToHolder(q)' /\ TwoInFront(q)'
      BY <2>3, <2>5, <3>1
    <3>3. Behind(r)'
      BY <2>1, <3>1 DEF HolderInv, Behind, Running, Checking
    <3>4. LostToHolder(r)' /\ TwoInFront(r)'
      BY <2>4, <3>1 DEF Running, Checking
    <3> QED
      BY <2>6, <3>2, <3>3, <3>4 DEF HolderInv
  <2>14. ASSUME ExpirePending \/ ExpireResult PROVE HolderInv'
    <3>1. UNCHANGED <<req, lostTo, waitedBehind>> /\ key' = Absent
      BY <2>14 DEF ExpirePending, ExpireResult
    <3> QED
      BY <2>3, <2>5, <2>6, <3>1 DEF HolderInv
  <2> QED
    BY <1>2, <2>9, <2>10, <2>11, <2>12, <2>13, <2>14 DEF Next, CheckStep
<1> QED
  BY <1>1, <1>2

(* A request gives up only when the markers or results of two others were  *)
(* in the key while it waited (the last tryAcquire of check()): the clamp  *)
(* of waitTimeoutMs above the pending TTL outlives the first.              *)
THEOREM GivesUpLast == Spec => []GivesUpBehindTwoHolders
<1>1. Init => HolderInv
  BY KeysDiffer DEF Init, HolderInv, Behind, LostToHolder, TwoInFront, Checking
<1>2. HolderInv => GivesUpBehindTwoHolders
  BY DEF HolderInv, TwoInFront, GivesUpBehindTwoHolders
<1> QED
  BY <1>1, <1>2, AlwaysIInv, NextHolderInv, PTL DEF Spec
=============================================================================
