----------------------------- MODULE Diagnosis -----------------------------
(***************************************************************************)
(* The diagnosis of events: diag_tick of sentinel/app.py in the process,   *)
(* or host/diag_orchestrator.py, which cron starts on the host and which   *)
(* works through the routes of sentinel/api.py.  The documentation has one *)
(* or the other: "driver".                                                 *)
(*                                                                         *)
(* A diagnosis is the number of the call of the model that gave it.        *)
(***************************************************************************)
EXTENDS LlmConfig, Sequences

CONSTANTS
  MaxEvents,    \* bound: events that need a diagnosis, in the order of their ts
  MaxPerTick,   \* _DIAG_MAX_PER_TICK and MAX_EVENTS
  Attempts,     \* _DIAG_ATTEMPTS, and the attempts of the orchestrator
  Runs,         \* processes cron starts
  NoRun,        \* nobody holds the lock file
  MaxFaults     \* bound: kills and posts that fail

ASSUME DiagnosisAssumption ==
  /\ {MaxEvents, MaxPerTick, Attempts} \subseteq Nat \ {0} /\ MaxFaults \in Nat
  /\ NoRun \notin Runs

Events == 1..MaxEvents

VARIABLES
  driver,     \* who diagnoses: "container" or "host"
  status,     \* diagnosis_status; "none" before the event
  stored,     \* diagnosis_json, 0 for none
  registered, \* the job was registered when the process started
  job,        \* diag_tick: where it is, its events, its attempts, a fallback
  runs,       \* the processes of the orchestrator, likewise
  lock,       \* the one that holds the lock file
  cards,      \* diagnosis cards the API has under way
  sentCards,  \* history: the cards sent
  calls,      \* history: diagnoses asked of a model, by event
  faults      \* counted for their bound

diagnosisVars == <<llmVars, driver, status, stored, registered, job, runs, lock, cards, sentCards,
                   calls, faults>>

process == <<driver, registered>>
table == <<status, stored>>
host == <<runs, lock, cards>>

NoTick == [pc |-> "idle", batch |-> <<>>, tried |-> 0, spare |-> FALSE]
NoWork == [pc |-> "idle", batch |-> <<>>, tried |-> 0]

Batches == UNION {[1..n -> Events] : n \in 0..MaxPerTick}

DiagnosisTypeOK ==
  /\ LlmTypeOK
  /\ driver \in {"container", "host"} /\ registered \in BOOLEAN
  /\ status \in [Events -> {"none", "pending", "done", "failed"}]
  /\ {stored, calls} \subseteq [Events -> Nat]
  /\ job \in [pc : {"idle", "current", "currentRead", "fallback", "fallbackRead", "ask", "tell"},
              batch : Batches, tried : 0..Attempts, spare : BOOLEAN]
  /\ runs \in [Runs -> [pc : {"idle", "ask", "done", "failed"}, batch : Batches,
                        tried : 0..Attempts]]
  /\ lock \in Runs \cup {NoRun}
  /\ {cards, sentCards} \subseteq SUBSET (Events \X Nat) /\ faults \in 0..MaxFaults

DiagnosisInit ==
  /\ LlmInit
  /\ driver \in {"container", "host"} /\ registered = (lastGood.active # NoProfile)
  /\ status = [e \in Events |-> "none"] /\ stored = [e \in Events |-> 0]
  /\ job = NoTick /\ runs = [r \in Runs |-> NoWork] /\ lock = NoRun
  /\ cards = {} /\ sentCards = {} /\ calls = [e \in Events |-> 0] /\ faults = 0

(* An alert is stored whose finding needs a diagnosis.                      *)
Raised ==
  \E e \in Events :
    /\ status[e] = "none" /\ \A d \in 1..(e - 1) : status[d] # "none"
    /\ status' = [status EXCEPT ![e] = "pending"]
    /\ UNCHANGED <<llmVars, process, stored, job, host, sentCards, calls, faults>>

Edited ==
  /\ driver = "container" /\ (MoveAway \/ MoveBack \/ \E c \in Contents : Write(c))
  /\ UNCHANGED <<process, table, job, host, sentCards, calls, faults>>

Pending == {e \in Events : status[e] = "pending"}

(* get_pending_diagnosis_events, ORDER BY ts, and the cap.                  *)
Oldest(b) ==
  /\ \A i, k \in DOMAIN b : i < k => b[i] < b[k]
  /\ {b[i] : i \in DOMAIN b} \subseteq Pending
  /\ \A e \in Pending \ {b[i] : i \in DOMAIN b} :
       Len(b) = MaxPerTick /\ \A i \in DOMAIN b : b[i] < e

-----------------------------------------------------------------------------
(* diag_tick.                                                               *)

Tick ==
  /\ driver = "container" /\ registered /\ job.pc = "idle"
  /\ job' = [NoTick EXCEPT !.pc = "current"]
  /\ UNCHANGED <<llmVars, process, table, host, sentCards, calls, faults>>

(* The active profile, then the fallback: two looks at the file.            *)
Reloaded(at, reading) ==
  \/ job.pc = at /\ (Absent \/ Current)
  \/ job.pc = reading /\ Read

Looks ==
  /\ job.pc \in {"current", "fallback"} /\ Stat
  /\ job' = [job EXCEPT !.pc = IF @ = "current" THEN "currentRead" ELSE "fallbackRead"]
  /\ UNCHANGED <<process, table, host, sentCards, calls, faults>>

ActiveKnown ==
  /\ Reloaded("current", "currentRead")
  /\ job' = IF lastGood'.active = NoProfile THEN NoTick ELSE [job EXCEPT !.pc = "fallback"]
  /\ UNCHANGED <<process, table, host, sentCards, calls, faults>>

Selects ==
  /\ Reloaded("fallback", "fallbackRead")
  /\ \/ Pending = {} /\ job' = NoTick
     \/ /\ Pending # {}
        /\ \E b \in Batches :
             /\ Oldest(b)
             /\ job' = [pc |-> "ask", batch |-> b, tried |-> 0,
                        spare |-> lastGood'.fallback # NoProfile]
  /\ UNCHANGED <<process, table, host, sentCards, calls, faults>>

Turn(work) ==
  IF Len(work.batch) = 1 THEN [work EXCEPT !.pc = "idle", !.batch = <<>>, !.tried = 0]
  ELSE [work EXCEPT !.pc = "ask", !.batch = Tail(@), !.tried = 0]

JobTurn == IF Len(job.batch) = 1 THEN NoTick ELSE Turn(job)

Asked(e) == calls' = [calls EXCEPT ![e] = @ + 1]
SetDiagnosis(e, s, v) ==
  status' = [status EXCEPT ![e] = s] /\ stored' = [stored EXCEPT ![e] = v]

LastTry == job.tried + 1 = Attempts + (IF job.spare THEN 1 ELSE 0)

(* The answer is stored before its card is sent.                            *)
Diagnosed ==
  /\ job.pc = "ask" /\ Asked(Head(job.batch))
  /\ SetDiagnosis(Head(job.batch), "done", calls'[Head(job.batch)])
  /\ job' = [job EXCEPT !.pc = "tell"]
  /\ UNCHANGED <<llmVars, process, host, sentCards, faults>>

Undecided ==
  /\ job.pc = "ask" /\ ~LastTry /\ Asked(Head(job.batch))
  /\ job' = [job EXCEPT !.tried = @ + 1]
  /\ UNCHANGED <<llmVars, process, table, host, sentCards, faults>>

(* Mutant: an event without a diagnosis is left for the next tick.          *)
GivesUpUnstored ==
  /\ job.pc = "ask" /\ LastTry /\ Asked(Head(job.batch))
  /\ job' = JobTurn
  /\ UNCHANGED <<llmVars, process, table, host, sentCards, faults>>

GivesUp ==
  /\ job.pc = "ask" /\ LastTry /\ Asked(Head(job.batch))
  /\ SetDiagnosis(Head(job.batch), "failed", 0)
  /\ job' = JobTurn
  /\ UNCHANGED <<llmVars, process, host, sentCards, faults>>

(* Whether the card reaches anybody makes no difference.                    *)
Told ==
  /\ job.pc = "tell" /\ job' = JobTurn
  /\ sentCards' = sentCards \cup {<<Head(job.batch), stored[Head(job.batch)]>>}
  /\ UNCHANGED <<llmVars, process, table, host, calls, faults>>

-----------------------------------------------------------------------------
(* The orchestrator: a process at a time, kept apart by the lock file.      *)

(* Mutant: no lock.                                                         *)
FreeAlways == TRUE
Free == lock = NoRun

RunStarts(r) ==
  /\ driver = "host" /\ runs[r] = NoWork /\ Free /\ Pending # {}
  /\ lock' = r
  /\ \E b \in Batches :
       Oldest(b) /\ runs' = [runs EXCEPT ![r] = [pc |-> "ask", batch |-> b, tried |-> 0]]
  /\ UNCHANGED <<llmVars, process, table, job, cards, sentCards, calls, faults>>

RunTurn(r) ==
  /\ runs' = [runs EXCEPT ![r] = Turn(@)]
  /\ lock' = IF Len(runs[r].batch) = 1 /\ lock = r THEN NoRun ELSE lock

RunAsks(r) ==
  /\ runs[r].pc = "ask" /\ Asked(Head(runs[r].batch))
  /\ \/ runs' = [runs EXCEPT ![r].pc = "done"]
     \/ runs' = [runs EXCEPT ![r].tried = @ + 1,
                             ![r].pc = IF runs[r].tried + 1 = Attempts THEN "failed" ELSE @]
  /\ UNCHANGED <<llmVars, process, table, job, lock, cards, sentCards, faults>>

(* post_diagnosis: stored, then the card; the run does not wait for it      *)
(* longer than its timeout, and goes on with the next event either way.     *)
Posted(r) ==
  LET e == Head(runs[r].batch) IN
  /\ runs[r].pc \in {"done", "failed"} /\ RunTurn(r)
  /\ IF runs[r].pc = "done"
     THEN SetDiagnosis(e, "done", calls[e]) /\ cards' = cards \cup {<<e, calls[e]>>}
     ELSE SetDiagnosis(e, "failed", 0) /\ UNCHANGED cards
  /\ UNCHANGED <<llmVars, process, job, sentCards, calls, faults>>

(* The post is refused or does not arrive: the event stays pending.         *)
PostFails(r) ==
  /\ runs[r].pc \in {"done", "failed"} /\ RunTurn(r)
  /\ faults < MaxFaults /\ faults' = faults + 1
  /\ UNCHANGED <<llmVars, process, table, job, cards, sentCards, calls>>

CardSent(c) ==
  /\ cards' = cards \ {c} /\ sentCards' = sentCards \cup {c}
  /\ UNCHANGED <<llmVars, process, table, job, runs, lock, calls, faults>>

RunKilled(r) ==
  /\ runs[r] # NoWork /\ faults < MaxFaults /\ faults' = faults + 1
  /\ runs' = [runs EXCEPT ![r] = NoWork] /\ lock' = IF lock = r THEN NoRun ELSE lock
  /\ UNCHANGED <<llmVars, process, table, job, cards, sentCards, calls>>

-----------------------------------------------------------------------------
(* The process stops and starts again: the job is registered only if a      *)
(* model is configured at that moment.                                      *)
Restarted ==
  /\ faults < MaxFaults /\ faults' = faults + 1
  /\ \E good \in Registries \cup {Env, Off}, new \in BOOLEAN :
       Loaded(good, new) /\ lastGood' = good /\ changed' = new /\ unread' = FALSE
  /\ registered' = (lastGood'.active # NoProfile)
  /\ job' = NoTick /\ cards' = {}
  /\ UNCHANGED <<file, aside, driver, table, runs, lock, sentCards, calls>>

JobStep == Looks \/ ActiveKnown \/ Selects \/ Diagnosed \/ Undecided \/ GivesUp \/ Told
RunStep(r) == RunAsks(r) \/ Posted(r)

DiagnosisNext ==
  \/ Raised \/ Edited \/ Tick \/ JobStep \/ Restarted
  \/ \E r \in Runs : RunStarts(r) \/ RunStep(r) \/ PostFails(r) \/ RunKilled(r)
  \/ \E c \in cards : CardSent(c)

-----------------------------------------------------------------------------
(* A card that was sent says what is stored, for good: no later answer *)
(* and no later failure takes the place of a diagnosis the readers know.    *)
CardIsStored == \A c \in sentCards : status[c[1]] = "done" /\ stored[c[1]] = c[2]

(* "Keeps a storm of events from making the calls of the model run away":   *)
(* an event is diagnosed in one go, again only after a kill or a lost post. *)
CallsAreBounded == \A e \in Events : calls[e] <= (Attempts + 1) * (1 + faults)

(* No event stays pending while a model is configured: with a usable file,  *)
(* edited or not, moved away and back, and a process that started with one, *)
(* each event gets its diagnosis or its failure; unless the file was away   *)
(* just when its content was to be read, after its time was.                *)
NobodyToAsk ==
  driver = "container" /\ (~registered \/ file.is = "broken" \/ Resolve(file).active = NoProfile)
PendingIsSettled == []<>(Pending = {} \/ NobodyToAsk \/ unread)
=============================================================================
