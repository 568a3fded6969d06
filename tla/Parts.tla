------------------------------- MODULE Parts -------------------------------
(***************************************************************************)
(* The parts of the sentinel that keep their state to themselves: the      *)
(* detectors, which infer a change from readings taken one after the       *)
(* other with gaps between them, the diagnosis of events, the notification *)
(* of finished turns, the answers of models the reset monitor keeps, its   *)
(* source of last resort, and the broadcaster.  A behaviour follows one.   *)
(***************************************************************************)
EXTENDS CrashLoop, BankedBalance, ProbeRules, ErrorScan, OomHandover, Diagnosis, TurnDelivery,
        ModelCache, ResetFallback, Channels

VARIABLE followed

quiet == <<crashVars, bankedVars, probeVars, errorVars, oomVars, diagnosisVars,
           turnVars, cacheVars, fallbackVars, channelVars>>
partsVars == <<followed, quiet>>

Init ==
  /\ followed \in {"crash", "banked", "probe", "errors", "oom", "diagnosis", "turns",
                    "cache", "fallback", "channels"}
  /\ CrashInit /\ BankedInit /\ ProbeInit /\ ErrorInit /\ OomInit /\ DiagnosisInit /\ TurnInit
  /\ CacheInit /\ FallbackInit /\ ChannelsInit
  \* The others rest in one of their initial states.
  /\ followed # "banked" => balance = 0
  /\ followed # "diagnosis" => driver = "host" /\ file.is = "missing"
  /\ followed # "channels" => channels = {}

Follow(part, A, others) == followed = part /\ A /\ UNCHANGED <<followed, others>>

Crash(A) ==
  Follow("crash", A, <<bankedVars, probeVars, errorVars, oomVars, diagnosisVars,
                       turnVars, cacheVars, fallbackVars, channelVars>>)
Banked(A) ==
  Follow("banked", A, <<crashVars, probeVars, errorVars, oomVars, diagnosisVars,
                        turnVars, cacheVars, fallbackVars, channelVars>>)
Probe(A) ==
  Follow("probe", A, <<crashVars, bankedVars, errorVars, oomVars, diagnosisVars,
                       turnVars, cacheVars, fallbackVars, channelVars>>)
Errors(A) ==
  Follow("errors", A, <<crashVars, bankedVars, probeVars, oomVars, diagnosisVars,
                        turnVars, cacheVars, fallbackVars, channelVars>>)
Oom(A) ==
  Follow("oom", A, <<crashVars, bankedVars, probeVars, errorVars, diagnosisVars,
                     turnVars, cacheVars, fallbackVars, channelVars>>)
Diagnosing(A) ==
  Follow("diagnosis", A, <<crashVars, bankedVars, probeVars, errorVars, oomVars,
                           turnVars, cacheVars, fallbackVars, channelVars>>)
Turning(A) ==
  Follow("turns", A, <<crashVars, bankedVars, probeVars, errorVars, oomVars,
                       diagnosisVars, cacheVars, fallbackVars, channelVars>>)
Caching(A) ==
  Follow("cache", A, <<crashVars, bankedVars, probeVars, errorVars, oomVars,
                       diagnosisVars, turnVars, fallbackVars, channelVars>>)
FallingBack(A) ==
  Follow("fallback", A, <<crashVars, bankedVars, probeVars, errorVars, oomVars,
                          diagnosisVars, turnVars, cacheVars, channelVars>>)
Sending(A) ==
  Follow("channels", A, <<crashVars, bankedVars, probeVars, errorVars, oomVars,
                          diagnosisVars, turnVars, cacheVars, fallbackVars>>)

Next ==
  \/ Crash(CrashNext) \/ Banked(BankedNext) \/ Probe(ProbeNext) \/ Errors(ErrorNext)
  \/ Oom(OomNext) \/ Diagnosing(DiagnosisNext) \/ Turning(TurnNext)
  \/ Caching(CacheNext) \/ FallingBack(FallbackNext) \/ Sending(ChannelsNext)

(* The reset monitor reads the balance again every minute.  The diagnosis   *)
(* job comes every SENTINEL_DIAG_INTERVAL, cron every five minutes; a call  *)
(* of a model ends, by its answer or its timeout.                           *)
Fairness ==
  /\ WF_partsVars(Banked(Reading \/ Filed))
  /\ WF_partsVars(Diagnosing(Tick)) /\ WF_partsVars(Diagnosing(JobStep))
  /\ WF_partsVars(Diagnosing(\E r \in Runs : RunStarts(r)))
  /\ \A r \in Runs : WF_partsVars(Diagnosing(RunStep(r)))

Spec == Init /\ [][Next]_partsVars /\ Fairness

-----------------------------------------------------------------------------
(* Every variable has its type.                                             *)
TypeOK ==
  /\ CrashTypeOK /\ BankedTypeOK /\ ProbeTypeOK /\ ErrorTypeOK
  /\ OomTypeOK /\ DiagnosisTypeOK /\ TurnTypeOK
  /\ CacheTypeOK /\ FallbackTypeOK /\ ChannelsTypeOK

(* Followed by the reset monitor, a balance that stays is stored.           *)
BalanceIsStored == followed = "banked" => BalanceIsFollowed

(* Followed with its fairness, the diagnosis settles every event.           *)
EventsAreSettled == followed = "diagnosis" => PendingIsSettled
=============================================================================
