------------------------------ MODULE JobRunner ------------------------------
(***************************************************************************)
(* One job name of the job runner (jobs/job-runner.ts and its parts): its  *)
(* queue entries, the workers that run them (handleJobInScope), the gate   *)
(* of maxPerTenant with onLimit "defer", the lock of concurrency           *)
(* "sequential" (pipeline/distributed-lock.ts), retries and deferrals by   *)
(* the handler.  All entries belong to one tenant.                         *)
(*                                                                         *)
(* BullMQ is external: it hands waiting entries to workers, counts failed  *)
(* attempts, and puts the entry of a dead worker back.  An entry that is   *)
(* delayed is waiting here: when a delay ends is not told.                 *)
(***************************************************************************)
EXTENDS Integers, FiniteSets, SequencesExt

CONSTANTS
    Jobs,        \* dispatched jobs
    NoJob,
    Slots,       \* bound: queue entries at any time, numbered
    Tokens,      \* bound: lock tokens in use at any time
    NoToken,
    JobDefs      \* the declarations to consider, see JobDefType

(* sequential: concurrency "sequential"; limit: maxPerTenant.limit with    *)
(* onLimit "defer", 0 for none; attempts: retries + 1; maxDefers.  The     *)
(* last two fields are bounds: workers that die, and entries whose         *)
(* processedOn is not the latest when they are fetched.                    *)
JobDefType ==
    [sequential : BOOLEAN, limit : Nat, attempts : Nat \ {0}, maxDefers : Nat,
     maxCrashes : Nat, maxSkews : Nat]

ASSUME JobRunnerAssumption ==
    /\ NoJob \notin Jobs
    /\ NoToken \notin Tokens
    /\ IsFiniteSet(Slots) /\ Slots \subseteq Nat
    /\ JobDefs \subseteq JobDefType

VARIABLES
    def,         \* the job's declaration
    entry,       \* entry[i]: the queue entry in slot i
    order,       \* the active entries by (processedOn, id), if def.limit asks for it
    ahead,       \* history: slots of the active entries whose processedOn sorted
                 \* before that of an entry fetched earlier
    skews,       \* how often that has happened so far
    run,         \* run[i]: where the worker is with entry i
    token,       \* token[i]: the sequential lock token of that run
    lock,        \* the value of the sequential lock key
    releasing,   \* tokens of deferred runs whose lock is still to release
    dispatched,  \* jobs that were dispatched
    settled,     \* history: jobs whose handler returned, or that failed for good
    failures,    \* history: failures[j]: attempts of j that threw
    lapsed,      \* history: slots of runs whose lock expired
    crashes,     \* workers that died so far
    doubled      \* history: jobs whose worker died between the re-enqueue and
                 \* the end of the entry it replaces

orderVars == <<order, ahead, skews>>
queueVars == <<entry, orderVars>>
lockVars  == <<token, lock, releasing, lapsed>>
histVars  == <<settled, failures, crashes, doubled>>
vars == <<def, queueVars, run, lockVars, dispatched, histVars>>

-----------------------------------------------------------------------------
(* State.                                                                  *)

(* made: attemptsMade; prior: _priorAttempts; attempts: opts.attempts;     *)
(* defers: _handlerDeferCount; stalls: stalledCounter.                     *)
Entry(j, prior, attempts, defers) ==
    [job |-> j, state |-> "waiting", made |-> 0, prior |-> prior,
     attempts |-> attempts, defers |-> defers, stalls |-> 0]

Free == [Entry(NoJob, 0, 1, 0) EXCEPT !.state = "free"]

EntryType ==
    [job : Jobs \cup {NoJob}, state : {"free", "waiting", "active"},
     made : 0 .. def.attempts - 1, prior : 0 .. def.attempts - 1,
     attempts : 1 .. def.attempts, defers : 0 .. def.maxDefers, stalls : 0 .. 1]

TypeOK ==
    /\ def \in JobDefs
    /\ entry \in [Slots -> EntryType]
    /\ order \in Seq(Slots)
    /\ ahead \subseteq Slots
    /\ skews \in 0 .. def.maxSkews
    /\ run \in [Slots -> {"none", "picked", "claiming", "running", "ok", "threw",
                          "unrecoverable", "requeued", "released", "failing",
                          "unrecovered", "dead"}]
    /\ token \in [Slots -> Tokens \cup {NoToken}]
    /\ lock \in Tokens \cup {NoToken}
    /\ releasing \subseteq Tokens
    /\ lapsed \subseteq Slots
    /\ dispatched \subseteq Jobs
    /\ settled \subseteq Jobs
    /\ failures \in [Jobs -> Nat]
    /\ crashes \in 0 .. def.maxCrashes
    /\ doubled \subseteq Jobs

Init ==
    /\ def \in JobDefs
    /\ entry = [i \in Slots |-> Free]
    /\ order = <<>>
    /\ ahead = {}
    /\ skews = 0
    /\ run = [i \in Slots |-> "none"]
    /\ token = [i \in Slots |-> NoToken]
    /\ lock = NoToken
    /\ releasing = {}
    /\ lapsed = {}
    /\ dispatched = {}
    /\ settled = {}
    /\ failures = [j \in Jobs |-> 0]
    /\ crashes = 0
    /\ doubled = {}

-----------------------------------------------------------------------------
(* The queue.                                                              *)

FreeSlots == {i \in Slots : entry[i].state = "free"}

(* queue.add, into the first slot that is free.                            *)
Add(e) ==
    /\ FreeSlots # {}
    /\ entry' = [entry EXCEPT ![Min(FreeSlots)] = e]

Dispatch(j) ==
    /\ j \notin dispatched
    /\ Add(Entry(j, 0, def.attempts, 0))
    /\ dispatched' = dispatched \cup {j}
    /\ UNCHANGED <<def, orderVars, run, lockVars, histVars>>

(* processedOn is read from the clock of the worker that fetches, in       *)
(* milliseconds, and equal values are told apart by the ids as strings.    *)
(* The entry can sort before some that other workers fetched earlier.      *)
SetProcessedOn(i) ==
    \E n \in 1 .. Len(order) + 1 :
        /\ order' = InsertAt(order, n, i)
        /\ \/ n = Len(order) + 1 /\ UNCHANGED <<ahead, skews>>
           \/ /\ n <= Len(order)
              /\ skews < def.maxSkews
              /\ skews' = skews + 1
              /\ ahead' = ahead \cup {i}

(* A worker fetches the entry: it is active as of now.                     *)
PickUp(i) ==
    /\ entry[i].state = "waiting"
    /\ run[i] = "none"
    /\ entry' = [entry EXCEPT ![i].state = "active"]
    /\ IF def.limit > 0 THEN SetProcessedOn(i) ELSE UNCHANGED orderVars
    /\ run' = [run EXCEPT ![i] = "picked"]
    /\ UNCHANGED <<def, lockVars, dispatched, histVars>>

(* The entry leaves the active list, and its run is over.                  *)
Leave(i, e) ==
    /\ entry' = [entry EXCEPT ![i] = e]
    /\ order' = RemoveFirst(order, i)
    /\ ahead' = ahead \ {i}
    /\ UNCHANGED skews
    /\ run' = [run EXCEPT ![i] = "none"]
    /\ token' = [token EXCEPT ![i] = NoToken]
    /\ lapsed' = lapsed \ {i}

-----------------------------------------------------------------------------
(* deferOverTenantLimit.                                                   *)

(* Mutant of ActiveBefore: every other active entry counts.                *)
ActiveBeforeOrAfter(i) == ToSet(order) \ {i}

(* Mutant of ActiveBefore: entries with a later processedOn count instead. *)
ActiveAfter(i) ==
    {j \in ToSet(order) : \E m, n \in DOMAIN order : m > n /\ order[m] = j /\ order[n] = i}

(* isActiveBefore: only the active entries with a smaller processedOn      *)
(* count, and those with the same one and a smaller id.                    *)
ActiveBefore(i) ==
    {j \in ToSet(order) : \E m, n \in DOMAIN order : m < n /\ order[m] = j /\ order[n] = i}

IsOverPerTenantLimit(i) == def.limit > 0 /\ Cardinality(ActiveBefore(i)) >= def.limit

(* moveToDelayed and DelayedError: no attempt is spent.                    *)
DeferOverTenantLimit(i) ==
    /\ run[i] = "picked"
    /\ IsOverPerTenantLimit(i)
    /\ Leave(i, [entry[i] EXCEPT !.state = "waiting"])
    /\ UNCHANGED <<def, lock, releasing, dispatched, histVars>>

PassTenantLimit(i) ==
    /\ run[i] = "picked"
    /\ ~IsOverPerTenantLimit(i)
    /\ run' = [run EXCEPT ![i] = "claiming"]
    /\ UNCHANGED <<def, queueVars, lockVars, dispatched, histVars>>

-----------------------------------------------------------------------------
(* claimSequentialSlot.                                                    *)

RunInParallel(i) ==
    /\ run[i] = "claiming"
    /\ ~def.sequential
    /\ run' = [run EXCEPT ![i] = "running"]
    /\ UNCHANGED <<def, queueVars, lockVars, dispatched, histVars>>

TokensInUse == {lock} \cup releasing \cup {token[i] : i \in Slots}

(* acquire: SET NX EX with a new token.                                    *)
ClaimSequentialSlot(i) ==
    /\ run[i] = "claiming"
    /\ def.sequential
    /\ lock = NoToken
    /\ Tokens \ TokensInUse # {}
    /\ lock' = CHOOSE t \in Tokens : t \notin TokensInUse
    /\ token' = [token EXCEPT ![i] = lock']
    /\ run' = [run EXCEPT ![i] = "running"]
    /\ UNCHANGED <<def, queueVars, releasing, lapsed, dispatched, histVars>>

(* Mutant of Requeued: the budget starts afresh.                           *)
RequeuedWithFreshBudget(e) == Entry(e.job, 0, def.attempts, e.defers)

(* Mutant of Requeued: opts.attempts does not shrink with the attempts     *)
(* spent.                                                                  *)
RequeuedWithAllAttempts(e) == Entry(e.job, e.prior + e.made, def.attempts, e.defers)

(* The attempts already spent travel with the new entry.                   *)
Requeued(e) ==
    LET prior == e.prior + e.made
        left  == def.attempts - prior
    IN  Entry(e.job, prior, IF left > 1 THEN left ELSE 1, e.defers)

(* The lock is taken: a new entry, and this one ends well.                 *)
RequeueBehindSequentialLock(i) ==
    /\ run[i] = "claiming"
    /\ def.sequential
    /\ lock # NoToken
    /\ Add(Requeued(entry[i]))
    /\ run' = [run EXCEPT ![i] = "requeued"]
    /\ UNCHANGED <<def, orderVars, lockVars, dispatched, histVars>>

-----------------------------------------------------------------------------
(* startJobRun, executeJobInSpan, applyHandlerDeferral.                    *)

HandlerReturns(i) ==
    /\ run[i] = "running"
    /\ run' = [run EXCEPT ![i] = "ok"]
    /\ settled' = settled \cup {entry[i].job}
    /\ UNCHANGED <<def, queueVars, lockVars, dispatched, failures, crashes, doubled>>

(* The handler, or a hook around it (onJobStart, onJobComplete), throws.   *)
HandlerThrows(i) ==
    /\ run[i] = "running"
    /\ run' = [run EXCEPT ![i] = "threw"]
    /\ UNCHANGED <<def, queueVars, lockVars, dispatched, histVars>>

HasDeferBudgetLeft(e) == e.defers < def.maxDefers

(* ctx.defer(): the entry is delayed before the finally block gets to      *)
(* release the lock.                                                       *)
HandlerDefers(i) ==
    /\ run[i] = "running"
    /\ HasDeferBudgetLeft(entry[i])
    /\ Leave(i, [entry[i] EXCEPT !.state = "waiting", !.defers = @ + 1])
    /\ releasing' = releasing \cup ({token[i]} \ {NoToken})
    /\ UNCHANGED <<def, lock, dispatched, histVars>>

(* assertDeferBudget throws an UnrecoverableError.                         *)
HandlerDefersTooOften(i) ==
    /\ run[i] = "running"
    /\ ~HasDeferBudgetLeft(entry[i])
    /\ run' = [run EXCEPT ![i] = "unrecoverable"]
    /\ UNCHANGED <<def, queueVars, lockVars, dispatched, histVars>>

(* isFinalAttempt, which recordJobFailure reports to the run log.          *)
IsFinalAttempt(e) == e.made + 1 + e.prior >= def.attempts

-----------------------------------------------------------------------------
(* releaseSequentialSlot.                                                  *)

(* Mutant of LockAfterRelease: an unconditional DEL.                       *)
LockAfterAnyRelease(t) == IF t = NoToken THEN lock ELSE NoToken

(* releaseScript: only the holder's own lock is deleted.                   *)
LockAfterRelease(t) == IF lock = t THEN NoToken ELSE lock

AfterRelease(r) ==
    CASE r = "ok" -> "released" [] r = "threw" -> "failing" [] r = "unrecoverable" -> "unrecovered"

ReleaseSequentialSlot(i) ==
    /\ run[i] \in {"ok", "threw", "unrecoverable"}
    /\ run' = [run EXCEPT ![i] = AfterRelease(run[i])]
    /\ lock' = LockAfterRelease(token[i])
    /\ token' = [token EXCEPT ![i] = NoToken]
    /\ UNCHANGED <<def, queueVars, releasing, lapsed, dispatched, histVars>>

ReleaseAfterDeferral(t) ==
    /\ t \in releasing
    /\ lock' = LockAfterRelease(t)
    /\ releasing' = releasing \ {t}
    /\ UNCHANGED <<def, queueVars, run, token, lapsed, dispatched, histVars>>

-----------------------------------------------------------------------------
(* BullMQ, Redis and crashes.                                              *)

(* The processor has returned.                                             *)
Complete(i) ==
    /\ run[i] \in {"released", "requeued"}
    /\ Leave(i, Free)
    /\ UNCHANGED <<def, lock, releasing, dispatched, histVars>>

(* The processor has thrown: retry while attempts are left, unless it      *)
(* threw an UnrecoverableError.                                            *)
RetriesLeft(e) == e.made + 1 < e.attempts

Retry(i) ==
    /\ run[i] = "failing"
    /\ RetriesLeft(entry[i])
    /\ failures' = [failures EXCEPT ![entry[i].job] = @ + 1]
    /\ Leave(i, [entry[i] EXCEPT !.state = "waiting", !.made = @ + 1])
    /\ UNCHANGED <<def, lock, releasing, dispatched, settled, crashes, doubled>>

FailForGood(i) ==
    /\ run[i] = "unrecovered" \/ (run[i] = "failing" /\ ~RetriesLeft(entry[i]))
    /\ failures' = [failures EXCEPT ![entry[i].job] = @ + 1]
    /\ settled' = settled \cup {entry[i].job}
    /\ Leave(i, Free)
    /\ UNCHANGED <<def, lock, releasing, dispatched, crashes, doubled>>

ExpireLock ==
    /\ lock # NoToken
    /\ lapsed' = lapsed \cup {i \in Slots : token[i] = lock}
    /\ lock' = NoToken
    /\ UNCHANGED <<def, queueVars, run, token, releasing, dispatched, histVars>>

(* The worker dies.  Its token is never released.                          *)
Crash(i) ==
    /\ crashes < def.maxCrashes
    /\ run[i] \notin {"none", "dead"}
    /\ crashes' = crashes + 1
    /\ run' = [run EXCEPT ![i] = "dead"]
    /\ token' = [token EXCEPT ![i] = NoToken]
    /\ lapsed' = lapsed \ {i}
    /\ doubled' = IF run[i] = "requeued" THEN doubled \cup {entry[i].job} ELSE doubled
    /\ UNCHANGED <<def, queueVars, lock, releasing, dispatched, settled, failures>>

(* The stalled check puts the entry back once, and then fails it.          *)
Stalled(i) ==
    /\ run[i] = "dead"
    /\ IF entry[i].stalls = 0
       THEN /\ Leave(i, [entry[i] EXCEPT !.state = "waiting", !.stalls = 1])
            /\ UNCHANGED settled
       ELSE /\ Leave(i, Free)
            /\ settled' = settled \cup {entry[i].job}
    /\ UNCHANGED <<def, lock, releasing, dispatched, failures, crashes, doubled>>

-----------------------------------------------------------------------------

WorkerStep(i) ==
    \/ PickUp(i) \/ DeferOverTenantLimit(i) \/ PassTenantLimit(i)
    \/ RunInParallel(i) \/ ClaimSequentialSlot(i) \/ RequeueBehindSequentialLock(i)
    \/ HandlerReturns(i) \/ HandlerThrows(i) \/ HandlerDefers(i) \/ HandlerDefersTooOften(i)
    \/ ReleaseSequentialSlot(i)
    \/ Complete(i) \/ Retry(i) \/ FailForGood(i) \/ Stalled(i)

Next ==
    \/ \E j \in Jobs : Dispatch(j)
    \/ \E i \in Slots : WorkerStep(i) \/ Crash(i)
    \/ \E t \in Tokens : ReleaseAfterDeferral(t)
    \/ ExpireLock

Spec == Init /\ [][Next]_vars

(* Workers go on and handlers end; a waiting entry is fetched; a lock that *)
(* nobody releases expires.                                                *)
Fairness ==
    /\ \A i \in Slots : WF_vars(WorkerStep(i))
    /\ \A t \in Tokens : WF_vars(ReleaseAfterDeferral(t))
    /\ WF_vars(ExpireLock)

FairSpec == Spec /\ Fairness

-----------------------------------------------------------------------------
(* Properties.                                                             *)

RunningSlots == {i \in Slots : run[i] = "running"}

(* Handlers of a sequential job run one at a time, unless the lock expired *)
(* under one of them: a run whose lock expired does not release the lock   *)
(* of the next one, however crashes and deferrals interleave.              *)
SequentialUnlessLapsed ==
    def.sequential => \A i, k \in RunningSlots : i = k \/ i \in lapsed \/ k \in lapsed

(* "Pick-up order (`processedOn`) keeps the cap; only clock skew between   *)
(* workers can briefly let one job more through": although the check is    *)
(* not atomic with the run, handlers run past the limit only by as many as *)
(* there are among them whose processedOn, on another worker's clock or in *)
(* the same millisecond, sorted before that of an entry fetched earlier.   *)
AtMostLimitRun == def.limit > 0 => Cardinality(RunningSlots \ ahead) <= def.limit

(* "A lock conflict on a retry cannot hand out a fresh budget and exceed   *)
(* retries", unless a worker died with its job enqueued twice.             *)
AttemptsWithinBudget == \A j \in Jobs : failures[j] > def.attempts => j \in doubled

(* A failure is reported to the run log and the tenant as final exactly    *)
(* when BullMQ will not retry it, also for an entry that was re-enqueued   *)
(* between two attempts.                                                   *)
FinalMeansFinal ==
    \A i \in Slots : run[i] = "threw" => (IsFinalAttempt(entry[i]) <=> ~RetriesLeft(entry[i]))

(* Every dispatched job runs to its end or fails for good: entries that    *)
(* are picked up together do not defer one another for ever.               *)
EveryJobSettles == \A j \in Jobs : j \in dispatched ~> j \in settled
=============================================================================
