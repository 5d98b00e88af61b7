----------------------------- MODULE JobsProofs -----------------------------
(***************************************************************************)
(* Proofs about the background-job service, for any sets of requests and   *)
(* keys, any window and any bounds.                                        *)
(*                                                                         *)
(* HistorySpaced is not inductive.  Its strengthening JobsInv follows a    *)
(* key through ExecuteJob: the mutex is held by the request that is in a   *)
(* critical section (MutexHeld); the key a request may claim has no recent *)
(* execution, a fact mu protects from the check to the claim (Checked);    *)
(* what a request will record starts late enough (Spaced), because at most *)
(* one request at a time is between the claim and the record of a key      *)
(* (OnePerKey).                                                            *)
(***************************************************************************)
EXTENDS Jobs, SequenceTheorems, TLAPS

\* The request has claimed its key and has not recorded its execution yet.
Running(w) == Executing(w) \/ jobPc[w] = "append"

MutexHeld == \A w \in Triggers : Holds(w) <=> mu = w

ActiveKeys ==
    \A k \in Keys :
        k \in activeKeys <=> \E w \in Triggers : Executing(w) /\ execution[w].key = k

OnePerKey ==
    \A v, w \in Triggers : Running(v) /\ Running(w) /\ execution[v].key = execution[w].key => v = w

Checked ==
    \A w \in Triggers : jobPc[w] = "claim" =>
        \A i \in DOMAIN history :
            history[i].key = execution[w].key => now - history[i].completed >= Window

Spaced ==
    \A w \in Triggers : Running(w) =>
        \A i \in DOMAIN history :
            history[i].key = execution[w].key =>
                execution[w].started - history[i].completed >= Window

JobsInv ==
    JobTypeOK /\ MutexHeld /\ ActiveKeys /\ OnePerKey /\ Checked /\ Spaced /\ HistorySpaced

-----------------------------------------------------------------------------
\* Prepending to the history, as ExecuteJob does, shifts the older executions
\* by one.
LEMMA PrependShifts ==
    ASSUME NEW S, NEW s \in Seq(S), NEW e \in S
    PROVE  /\ <<e>> \o s \in Seq(S)
           /\ \A i \in DOMAIN (<<e>> \o s) :
                \/ i = 1 /\ (<<e>> \o s)[i] = e
                \/ i > 1 /\ i - 1 \in DOMAIN s /\ (<<e>> \o s)[i] = s[i - 1]
<1>1. <<e>> \in Seq(S) /\ Len(<<e>>) = 1 /\ <<e>>[1] = e
  OBVIOUS
<1>2. Len(s) \in Nat /\ DOMAIN s = 1 .. Len(s)
  OBVIOUS
<1>3. <<e>> \o s \in Seq(S) /\ Len(<<e>> \o s) = 1 + Len(s)
  BY <1>1
<1>4. DOMAIN (<<e>> \o s) = 1 .. 1 + Len(s)
  BY <1>3
<1>5. ASSUME NEW i \in 1 .. 1 + Len(s)
      PROVE  \/ i = 1 /\ (<<e>> \o s)[i] = e
             \/ i > 1 /\ i - 1 \in DOMAIN s /\ (<<e>> \o s)[i] = s[i - 1]
  BY <1>1, <1>2, <1>5
<1> QED
  BY <1>3, <1>4, <1>5

-----------------------------------------------------------------------------
\* The service starts with the seeded history and no request.
LEMMA InitJobsInv == JobInit => JobsInv
<1> SUFFICES ASSUME JobInit PROVE JobsInv
  OBVIOUS
<1> USE JobsAssumption
<1>1. JobTypeOK
  <2>1. [key |-> SeedKey, started |-> 0, completed |-> 0] \in JobExecution
    BY DEF JobExecution
  <2>2. history \in Seq(JobExecution)
    BY <2>1 DEF JobInit
  <2> QED
    BY <2>1, <2>2 DEF JobInit, JobTypeOK, JobPC, JobExecution, JobExecution
<1>2. \A w \in Triggers : jobPc[w] = "idle"
  BY DEF JobInit
<1>3. MutexHeld /\ ActiveKeys /\ OnePerKey /\ Checked /\ Spaced
  BY <1>2 DEF JobInit, MutexHeld, ActiveKeys, OnePerKey, Checked, Spaced, Running, Executing, Holds
<1>4. HistorySpaced
  BY DEF JobInit, HistorySpaced
<1> QED
  BY <1>1, <1>3, <1>4 DEF JobsInv

\* One lemma per part of ExecuteJob.  Trigger: the request only waits for mu.
LEMMA TriggerPreserves ==
    ASSUME JobsInv, NEW w \in Triggers, NEW k \in Keys, Trigger(w, k)
    PROVE  JobsInv'
<1> USE JobsAssumption
<1>1. JobTypeOK'
  BY DEF JobsInv, JobTypeOK, Trigger, JobPC, JobExecution
<1>2. /\ jobPc[w] = "idle" /\ jobPc'[w] = "lock"
      /\ \A v \in Triggers \ {w} : jobPc'[v] = jobPc[v] /\ execution'[v] = execution[v]
  BY DEF JobsInv, JobTypeOK, Trigger
<1>3. UNCHANGED <<mu, history, activeKeys, now>>
  BY DEF Trigger
<1>4. MutexHeld'
  BY <1>2, <1>3 DEF JobsInv, MutexHeld, Holds
<1>5. ActiveKeys' /\ OnePerKey'
  BY <1>2, <1>3 DEF JobsInv, ActiveKeys, OnePerKey, Running, Executing
<1>6. Checked' /\ Spaced' /\ HistorySpaced'
  BY <1>2, <1>3 DEF JobsInv, Checked, Spaced, HistorySpaced, Running, Executing
<1> QED
  BY <1>1, <1>4, <1>5, <1>6 DEF JobsInv

\* Lock: mu was free, so no other request is in a critical section.
LEMMA LockPreserves ==
    ASSUME JobsInv, NEW w \in Triggers, Lock(w)
    PROVE  JobsInv'
<1> USE JobsAssumption
<1>1. JobTypeOK'
  BY DEF JobsInv, JobTypeOK, Lock, JobPC
<1>2. /\ \/ jobPc[w] = "lock" /\ jobPc'[w] = "check"
         \/ jobPc[w] = "relock" /\ jobPc'[w] = "record"
      /\ \A v \in Triggers \ {w} : jobPc'[v] = jobPc[v]
  BY DEF JobsInv, JobTypeOK, Lock
<1>3. mu = NoTrigger /\ mu' = w /\ UNCHANGED <<history, activeKeys, now, execution>>
  BY DEF Lock
<1>4. MutexHeld'
  BY <1>2, <1>3 DEF JobsInv, MutexHeld, Holds
<1>5. ActiveKeys' /\ OnePerKey'
  BY <1>2, <1>3 DEF JobsInv, ActiveKeys, OnePerKey, Running, Executing
<1>6. Checked' /\ Spaced' /\ HistorySpaced'
  BY <1>2, <1>3 DEF JobsInv, Checked, Spaced, HistorySpaced, Running, Executing
<1> QED
  BY <1>1, <1>4, <1>5, <1>6 DEF JobsInv

\* CheckHistory and Refuse: the early returns unlock, and the request that goes
\* on has seen no recent execution of its key.
LEMMA CheckPreserves ==
    ASSUME JobsInv, NEW w \in Triggers, CheckHistory(w) \/ Refuse(w)
    PROVE  JobsInv'
<1> USE JobsAssumption
<1>1. JobTypeOK'
  BY DEF JobsInv, JobTypeOK, CheckHistory, Refuse, Unlock, JobPC
<1>2. /\ jobPc[w] \in {"check", "claim"}
      /\ \/ jobPc'[w] = "idle" /\ mu' = NoTrigger
         \/ jobPc[w] = "check" /\ jobPc'[w] = "claim" /\ mu' = mu /\ ~Recent(execution[w].key)
      /\ \A v \in Triggers \ {w} : jobPc'[v] = jobPc[v]
  BY DEF JobsInv, JobTypeOK, CheckHistory, Refuse, Unlock
<1>3. UNCHANGED <<history, activeKeys, now, execution>>
  BY DEF CheckHistory, Refuse
<1>4. MutexHeld'
  BY <1>2 DEF JobsInv, MutexHeld, Holds
<1>5. ActiveKeys' /\ OnePerKey'
  BY <1>2, <1>3 DEF JobsInv, ActiveKeys, OnePerKey, Running, Executing
<1>6. Spaced' /\ HistorySpaced'
  BY <1>2, <1>3 DEF JobsInv, Spaced, HistorySpaced, Running, Executing
<1>7. ASSUME ~Recent(execution[w].key), NEW i \in DOMAIN history, history[i].key = execution[w].key
      PROVE  now - history[i].completed >= Window
  <2>1. history[i] \in JobExecution
    BY DEF JobsInv, JobTypeOK
  <2>2. history[i].completed \in Nat
    BY <2>1 DEF JobExecution
  <2>3. now \in Nat /\ Window \in Nat
    BY JobsAssumption DEF JobsInv, JobTypeOK
  <2>4. ~(now - history[i].completed < Window)
    BY <1>7 DEF Recent
  <2> QED
    BY <2>2, <2>3, <2>4
<1>8. Checked'
  BY <1>2, <1>3, <1>7 DEF JobsInv, Checked
<1> QED
  BY <1>1, <1>4, <1>5, <1>6, <1>8 DEF JobsInv

\* Start: the key is not active, and mu keeps the other requests from being
\* between Release and Record of the same key.
LEMMA StartPreserves ==
    ASSUME JobsInv, NEW w \in Triggers, Start(w)
    PROVE  JobsInv'
<1> USE JobsAssumption
<1>1. /\ jobPc[w] = "claim" /\ jobPc'[w] = "run" /\ mu' = NoTrigger
      /\ execution[w].key \in Keys /\ execution'[w].key = execution[w].key /\ execution'[w].started = now
      /\ \A v \in Triggers \ {w} : jobPc'[v] = jobPc[v] /\ execution'[v] = execution[v]
  BY DEF JobsInv, JobTypeOK, Start, JobExecution
<1>2. /\ execution[w].key \notin activeKeys /\ activeKeys' = activeKeys \cup {execution[w].key}
      /\ UNCHANGED <<history, now>>
  BY DEF Start
<1>3. JobTypeOK'
  <2>1. jobPc' \in [Triggers -> JobPC] /\ execution' \in [Triggers -> JobExecution]
    BY DEF JobsInv, JobTypeOK, Start, JobPC, JobExecution
  <2> QED
    BY <1>1, <1>2, <2>1 DEF JobsInv, JobTypeOK
<1>4. MutexHeld'
  BY <1>1 DEF JobsInv, MutexHeld, Holds
<1>5. ActiveKeys'
  BY <1>1, <1>2 DEF JobsInv, ActiveKeys, Executing
<1>6. OnePerKey'
  <2>1. ASSUME NEW v \in Triggers \ {w}, Running(v) PROVE execution[v].key # execution[w].key
    <3>1. jobPc[v] # "append"
      BY <1>1 DEF JobsInv, MutexHeld, Holds
    <3> QED
      BY <1>1, <1>2, <2>1, <3>1 DEF JobsInv, ActiveKeys, Running, Executing
  <2> QED
    BY <1>1, <2>1 DEF JobsInv, OnePerKey, Running, Executing
<1>7. Checked' /\ HistorySpaced'
  BY <1>1, <1>2 DEF JobsInv, Checked, HistorySpaced
<1>8. Spaced'
  BY <1>1, <1>2 DEF JobsInv, Checked, Spaced, Running, Executing
<1> QED
  BY <1>3, <1>4, <1>5, <1>6, <1>7, <1>8 DEF JobsInv

\* Finish: only the completion time of the request changes.
LEMMA FinishPreserves ==
    ASSUME JobsInv, NEW w \in Triggers, Finish(w)
    PROVE  JobsInv'
<1> USE JobsAssumption
<1>1. /\ jobPc[w] = "run" /\ jobPc'[w] = "relock"
      /\ execution'[w].key = execution[w].key /\ execution'[w].started = execution[w].started
      /\ \A v \in Triggers \ {w} : jobPc'[v] = jobPc[v] /\ execution'[v] = execution[v]
  BY DEF JobsInv, JobTypeOK, Finish, JobExecution
<1>2. UNCHANGED <<mu, history, activeKeys, now>>
  BY DEF Finish
<1>3. JobTypeOK'
  <2>1. jobPc' \in [Triggers -> JobPC] /\ execution' \in [Triggers -> JobExecution]
    BY DEF JobsInv, JobTypeOK, Finish, JobPC, JobExecution
  <2> QED
    BY <1>2, <2>1 DEF JobsInv, JobTypeOK
<1>4. MutexHeld'
  BY <1>1, <1>2 DEF JobsInv, MutexHeld, Holds
<1>5. ActiveKeys' /\ OnePerKey'
  BY <1>1, <1>2 DEF JobsInv, ActiveKeys, OnePerKey, Running, Executing
<1>6. Checked' /\ Spaced' /\ HistorySpaced'
  BY <1>1, <1>2 DEF JobsInv, Checked, Spaced, HistorySpaced, Running, Executing
<1> QED
  BY <1>3, <1>4, <1>5, <1>6 DEF JobsInv

\* Release: the key leaves the active map; the request still counts as running.
LEMMA ReleasePreserves ==
    ASSUME JobsInv, NEW w \in Triggers, Release(w)
    PROVE  JobsInv'
<1> USE JobsAssumption
<1>1. /\ jobPc[w] = "record" /\ jobPc'[w] = "append" /\ execution[w].key \in Keys
      /\ \A v \in Triggers \ {w} : jobPc'[v] = jobPc[v]
  BY DEF JobsInv, JobTypeOK, Release, JobExecution
<1>2. activeKeys' = activeKeys \ {execution[w].key} /\ UNCHANGED <<mu, history, now, execution>>
  BY DEF Release
<1>3. JobTypeOK'
  BY DEF JobsInv, JobTypeOK, Release, JobPC
<1>4. MutexHeld'
  BY <1>1, <1>2 DEF JobsInv, MutexHeld, Holds
<1>5. ActiveKeys'
  BY <1>1, <1>2 DEF JobsInv, ActiveKeys, OnePerKey, Running, Executing
<1>6. OnePerKey'
  BY <1>1, <1>2 DEF JobsInv, OnePerKey, Running, Executing
<1>7. Checked' /\ Spaced' /\ HistorySpaced'
  BY <1>1, <1>2 DEF JobsInv, Checked, Spaced, HistorySpaced, Running, Executing
<1> QED
  BY <1>3, <1>4, <1>5, <1>6, <1>7 DEF JobsInv

\* Record: the new execution is spaced from the older ones by Spaced, and no
\* other request runs, or has checked, its key.
LEMMA RecordPreserves ==
    ASSUME JobsInv, NEW w \in Triggers, Record(w)
    PROVE  JobsInv'
<1> USE JobsAssumption
<1>1. /\ jobPc[w] = "append" /\ jobPc'[w] = "idle" /\ mu' = NoTrigger
      /\ \A v \in Triggers \ {w} : jobPc'[v] = jobPc[v]
  BY DEF JobsInv, JobTypeOK, Record, Unlock
<1>2. UNCHANGED <<activeKeys, now, execution>>
  BY DEF Record
<1>3. /\ history' \in Seq(JobExecution)
      /\ \A i \in DOMAIN history' :
           \/ i = 1 /\ history'[i] = execution[w]
           \/ i > 1 /\ i - 1 \in DOMAIN history /\ history'[i] = history[i - 1]
  <2>1. execution[w] \in JobExecution /\ history \in Seq(JobExecution)
    BY DEF JobsInv, JobTypeOK, JobExecution, JobExecution
  <2>2. history' = <<execution[w]>> \o history
    BY DEF Record
  <2> QED
    BY <2>1, <2>2, PrependShifts
<1>4. JobTypeOK'
  <2>1. jobPc' \in [Triggers -> JobPC]
    BY DEF JobsInv, JobTypeOK, Record, Unlock, JobPC
  <2> QED
    BY <1>1, <1>2, <1>3, <2>1 DEF JobsInv, JobTypeOK
<1>5. MutexHeld'
  BY <1>1 DEF JobsInv, MutexHeld, Holds
<1>6. ActiveKeys' /\ OnePerKey'
  BY <1>1, <1>2 DEF JobsInv, ActiveKeys, OnePerKey, Running, Executing
<1>7. Checked'
  BY <1>1 DEF JobsInv, MutexHeld, Holds, Checked
<1>8. Spaced'
  <2>1. SUFFICES ASSUME NEW v \in Triggers, Running(v)', NEW i \in DOMAIN history',
                        history'[i].key = execution[v].key
                 PROVE  execution[v].started - history'[i].completed >= Window
    BY <1>2 DEF Spaced
  <2>2. v # w /\ Running(v)
    BY <1>1, <2>1 DEF Running, Executing
  <2>3. execution[v].key # execution[w].key
    BY <1>1, <2>2 DEF JobsInv, OnePerKey, Running
  <2>4. i - 1 \in DOMAIN history /\ history'[i] = history[i - 1]
    BY <1>3, <2>1, <2>3
  <2> QED
    BY <2>1, <2>2, <2>4 DEF JobsInv, Spaced
<1>9. HistorySpaced'
  <2>1. SUFFICES ASSUME NEW i \in DOMAIN history', NEW j \in DOMAIN history',
                        i < j, history'[i].key = history'[j].key
                 PROVE  history'[i].started - history'[j].completed >= Window
    BY DEF HistorySpaced
  <2>2. i \in Nat /\ j \in Nat /\ DOMAIN history \subseteq Nat
    BY <1>3 DEF JobsInv, JobTypeOK
  <2>3. j - 1 \in DOMAIN history /\ history'[j] = history[j - 1]
    BY <1>3, <2>1, <2>2
  <2>4. CASE i = 1
    <3>1. history'[i] = execution[w]
      BY <1>3, <2>4
    <3> QED
      BY <1>1, <2>1, <2>3, <3>1 DEF JobsInv, Spaced, Running
  <2>5. CASE i # 1
    <3>1. i - 1 \in DOMAIN history /\ history'[i] = history[i - 1] /\ i - 1 < j - 1
      BY <1>3, <2>1, <2>2, <2>5
    <3> QED
      BY <2>1, <2>3, <3>1 DEF JobsInv, HistorySpaced
  <2> QED
    BY <2>4, <2>5
<1> QED
  BY <1>4, <1>5, <1>6, <1>7, <1>8, <1>9 DEF JobsInv

\* Tick: time only takes an execution out of the window.
LEMMA TickPreserves ==
    ASSUME JobsInv, Tick
    PROVE  JobsInv'
<1> USE JobsAssumption
<1>1. now \in Nat /\ now' = now + 1 /\ UNCHANGED <<mu, history, activeKeys, jobPc, execution>>
  BY DEF JobsInv, JobTypeOK, Tick
<1>2. JobTypeOK'
  BY <1>1 DEF JobsInv, JobTypeOK
<1>3. MutexHeld' /\ ActiveKeys' /\ OnePerKey' /\ Spaced' /\ HistorySpaced'
  BY <1>1 DEF JobsInv, MutexHeld, ActiveKeys, OnePerKey, Spaced, HistorySpaced,
              Holds, Running, Executing
<1>4. \A i \in DOMAIN history : history[i].completed \in Nat
  <2>1. \A i \in DOMAIN history : history[i] \in JobExecution
    BY DEF JobsInv, JobTypeOK
  <2> QED
    BY <2>1 DEF JobExecution
<1>5. Checked'
  BY <1>1, <1>4 DEF JobsInv, Checked
<1> QED
  BY <1>2, <1>3, <1>5 DEF JobsInv

LEMMA JobsInvInvariant == JobSpec => []JobsInv
<1>1. JobsInv /\ [JobNext]_jobVars => JobsInv'
  <2> SUFFICES ASSUME JobsInv, [JobNext]_jobVars PROVE JobsInv'
    OBVIOUS
  <2>1. ASSUME NEW w \in Triggers, JobStep(w) PROVE JobsInv'
    BY <2>1, CheckPreserves, StartPreserves, FinishPreserves, ReleasePreserves,
       RecordPreserves DEF JobStep
  <2>2. CASE UNCHANGED jobVars
    BY <2>2 DEF jobVars, JobsInv, JobTypeOK, MutexHeld, ActiveKeys, OnePerKey, Checked, Spaced,
                HistorySpaced, Holds, Running, Executing
  <2> QED
    BY <2>1, <2>2, TriggerPreserves, LockPreserves, TickPreserves DEF JobNext
<1> QED
  BY <1>1, InitJobsInv, PTL DEF JobSpec

-----------------------------------------------------------------------------
\* The state of the job service keeps its types, whatever the interleaving of
\* triggered jobs.
THEOREM JobsTypeCorrect == JobSpec => []JobTypeOK
<1>1. JobsInv => JobTypeOK
  BY DEF JobsInv
<1> QED
  BY <1>1, JobsInvInvariant, PTL

\* ExecuteJob is idempotent within the window: executions of one key that are
\* recorded are spaced, for any number of concurrent requests.
THEOREM IdempotentWithinWindow == JobSpec => []HistorySpaced
<1>1. JobsInv => HistorySpaced
  BY DEF JobsInv
<1> QED
  BY <1>1, JobsInvInvariant, PTL

\* The active map is exactly the keys being executed, one request per key.
THEOREM ActiveMapExact == JobSpec => []ActiveIsExecuting
<1>1. JobsInv => ActiveIsExecuting
  <2> SUFFICES ASSUME JobsInv PROVE ActiveIsExecuting
    OBVIOUS
  <2>1. \A w \in Triggers : execution[w].key \in Keys
    BY DEF JobsInv, JobTypeOK, JobExecution
  <2>2. activeKeys \subseteq Keys
    BY DEF JobsInv, JobTypeOK
  <2>3. activeKeys = {execution[w].key : w \in {v \in Triggers : Executing(v)}}
    BY <2>1, <2>2 DEF JobsInv, ActiveKeys
  <2> QED
    BY <2>3 DEF JobsInv, OnePerKey, Running, ActiveIsExecuting
<1> QED
  BY <1>1, JobsInvInvariant, PTL
=============================================================================
