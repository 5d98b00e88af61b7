-------------------------------- MODULE Jobs --------------------------------
(***************************************************************************)
(* The background-job service (backend/internal/jobs): ExecuteJob with its *)
(* in-memory history and its map of active idempotency keys, both guarded  *)
(* by the mutex mu.                                                        *)
(*                                                                         *)
(* A request w is in jobPc[w]: "lock" waits for mu; "check" and "claim"    *)
(* hold mu and look at the history and at the active map; "run" executes   *)
(* the job without mu; "relock" has read the completion time and waits for *)
(* mu again; "record" and "append" hold mu.  Job bodies cannot fail (the   *)
(* code's err is never set), so FAILED never occurs.                       *)
(***************************************************************************)
EXTENDS Integers, Sequences

CONSTANTS
    Triggers,       \* requests that can be in flight at the same time
    NoTrigger,      \* mu is free
    Keys,           \* idempotency keys
    SeedKey,        \* the key of the seeded history (the second seed is alike)
    Window,         \* the deduplication window: 5 minutes, in clock ticks
    MaxTime,        \* bound: the last clock tick
    MaxHistory      \* bound: executions in the history

ASSUME JobsAssumption ==
    /\ NoTrigger \notin Triggers
    /\ SeedKey \in Keys
    /\ Window \in Nat \ {0}
    /\ MaxTime \in Nat
    /\ MaxHistory \in Nat

VARIABLES
    mu,             \* who holds the mutex
    history,        \* s.history, latest first
    activeKeys,     \* s.active
    now,            \* the clock
    jobPc, execution

jobVars == <<mu, history, activeKeys, now, jobPc, execution>>

-----------------------------------------------------------------------------
\* A successful JobExecution; SKIPPED results are answered, not recorded.  A
\* request in flight builds its own.
JobExecution == [key : Keys, started : Nat, completed : Nat]

JobPC == {"idle", "lock", "check", "claim", "run", "relock", "record", "append"}

\* The request w is between Lock and Unlock.
Holds(w) == jobPc[w] \in {"check", "claim", "record", "append"}

\* The request w is executing its job: its key is in the active map.
Executing(w) == jobPc[w] \in {"run", "relock", "record"}

JobTypeOK ==
    /\ mu \in Triggers \cup {NoTrigger}
    /\ history \in Seq(JobExecution)
    /\ activeKeys \in SUBSET Keys
    /\ now \in Nat
    /\ jobPc \in [Triggers -> JobPC]
    /\ execution \in [Triggers -> JobExecution]

\* seedDefaultHistory: an execution long ago (a day, more than the window).
JobInit ==
    /\ mu = NoTrigger
    /\ history = <<[key |-> SeedKey, started |-> 0, completed |-> 0]>>
    /\ activeKeys = {}
    /\ now = Window
    /\ jobPc = [w \in Triggers |-> "idle"]
    /\ execution = [w \in Triggers |-> [key |-> SeedKey, started |-> 0, completed |-> 0]]

-----------------------------------------------------------------------------
\* HandleTriggerJob calls ExecuteJob.
Trigger(w, k) ==
    /\ jobPc[w] = "idle"
    /\ Len(history) < MaxHistory
    /\ execution' = [execution EXCEPT ![w].key = k]
    /\ jobPc' = [jobPc EXCEPT ![w] = "lock"]
    /\ UNCHANGED <<mu, history, activeKeys, now>>

\* Mutant: the mutex does not exclude anyone.
LockUnguarded(w) ==
    /\ jobPc[w] \in {"lock", "relock"}
    /\ mu' = w
    /\ jobPc' = [jobPc EXCEPT ![w] = IF jobPc[w] = "lock" THEN "check" ELSE "record"]
    /\ UNCHANGED <<history, activeKeys, now, execution>>

\* s.mu.Lock(), before the check and before the result is recorded.
Lock(w) ==
    /\ mu = NoTrigger
    /\ jobPc[w] \in {"lock", "relock"}
    /\ mu' = w
    /\ jobPc' = [jobPc EXCEPT ![w] = IF jobPc[w] = "lock" THEN "check" ELSE "record"]
    /\ UNCHANGED <<history, activeKeys, now, execution>>

\* Unlock and answer the request.
Unlock(w) ==
    /\ mu' = NoTrigger
    /\ jobPc' = [jobPc EXCEPT ![w] = "idle"]

\* Some execution of the key completed less than the window ago.
Recent(k) ==
    \E i \in DOMAIN history :
        history[i].key = k /\ now - history[i].completed < Window

\* Mutant: the early return forgets to unlock.
CheckHistoryLocked(w) ==
    /\ jobPc[w] = "check"
    /\ jobPc' = [jobPc EXCEPT ![w] = IF Recent(execution[w].key) THEN "idle" ELSE "claim"]
    /\ UNCHANGED <<mu, history, activeKeys, now, execution>>

\* The loop over the history: a recent execution of the key is answered with
\* SKIPPED.
CheckHistory(w) ==
    /\ jobPc[w] = "check"
    /\ \/ Recent(execution[w].key) /\ Unlock(w)
       \/ /\ ~Recent(execution[w].key)
          /\ jobPc' = [jobPc EXCEPT ![w] = "claim"]
          /\ UNCHANGED mu
    /\ UNCHANGED <<history, activeKeys, now, execution>>

\* The key is being executed: unlock, answer with an error.
Refuse(w) ==
    /\ jobPc[w] = "claim"
    /\ execution[w].key \in activeKeys
    /\ Unlock(w)
    /\ UNCHANGED <<history, activeKeys, now, execution>>

\* Mutant: the check of the active map is missing.
StartUnchecked(w) ==
    /\ jobPc[w] = "claim"
    /\ activeKeys' = activeKeys \cup {execution[w].key}
    /\ execution' = [execution EXCEPT ![w].started = now]
    /\ mu' = NoTrigger
    /\ jobPc' = [jobPc EXCEPT ![w] = "run"]
    /\ UNCHANGED <<history, now>>

\* Claim the key, unlock and execute.
Start(w) ==
    /\ jobPc[w] = "claim"
    /\ execution[w].key \notin activeKeys
    /\ activeKeys' = activeKeys \cup {execution[w].key}
    /\ execution' = [execution EXCEPT ![w].started = now]
    /\ mu' = NoTrigger
    /\ jobPc' = [jobPc EXCEPT ![w] = "run"]
    /\ UNCHANGED <<history, now>>

\* Mutant: the operands of the subtraction that gives the duration are swapped
\* and the result is stored as the completion time.
FinishSwapped(w) ==
    /\ jobPc[w] = "run"
    /\ execution' = [execution EXCEPT ![w].completed = execution[w].started - now]
    /\ jobPc' = [jobPc EXCEPT ![w] = "relock"]
    /\ UNCHANGED <<mu, history, activeKeys, now>>

\* The job body, and completedTime := time.Now(), read without the mutex.
Finish(w) ==
    /\ jobPc[w] = "run"
    /\ execution' = [execution EXCEPT ![w].completed = now]
    /\ jobPc' = [jobPc EXCEPT ![w] = "relock"]
    /\ UNCHANGED <<mu, history, activeKeys, now>>

\* delete(s.active, idempotencyKey).
Release(w) ==
    /\ jobPc[w] = "record"
    /\ activeKeys' = activeKeys \ {execution[w].key}
    /\ jobPc' = [jobPc EXCEPT ![w] = "append"]
    /\ UNCHANGED <<mu, history, now, execution>>

\* Prepend the execution to the history, unlock and answer SUCCESS.
Record(w) ==
    /\ jobPc[w] = "append"
    /\ history' = <<execution[w]>> \o history
    /\ Unlock(w)
    /\ UNCHANGED <<activeKeys, now, execution>>

\* The clock.
Tick ==
    /\ now < MaxTime
    /\ now' = now + 1
    /\ UNCHANGED <<mu, history, activeKeys, jobPc, execution>>

JobStep(w) ==
    \/ CheckHistory(w) \/ Refuse(w) \/ Start(w) \/ Finish(w) \/ Release(w) \/ Record(w)

JobNext ==
    \/ \E w \in Triggers : JobStep(w) \/ Lock(w) \/ \E k \in Keys : Trigger(w, k)
    \/ Tick

JobSpec == JobInit /\ [][JobNext]_jobVars

\* Goroutines keep running, and sync.Mutex is starvation-free: a goroutine that
\* waits for mu gets it although others lock it again and again.
JobFairSpec ==
    JobSpec /\ \A w \in Triggers : WF_jobVars(JobStep(w)) /\ SF_jobVars(Lock(w))

-----------------------------------------------------------------------------
\* Properties

\* Two recorded executions of one idempotency key are at least the window
\* apart, from the completion of the earlier (the later one in the history)
\* to the start of the later: what the idempotency check of ExecuteJob is for.
HistorySpaced ==
    \A i, j \in DOMAIN history :
        i < j /\ history[i].key = history[j].key =>
            history[i].started - history[j].completed >= Window

\* The active map holds exactly the keys of the requests that execute a job,
\* one request per key: no key is executed twice at the same time, and none
\* stays blocked once its execution is over.
ActiveIsExecuting ==
    /\ activeKeys = {execution[w].key : w \in {v \in Triggers : Executing(v)}}
    /\ \A v, w \in Triggers :
         Executing(v) /\ Executing(w) /\ execution[v].key = execution[w].key => v = w

\* Every triggered job is answered: ExecuteJob unlocks mu on each of its paths.
TriggerAnswered == \A w \in Triggers : jobPc[w] # "idle" ~> jobPc[w] = "idle"
=============================================================================
