----------------------------- MODULE LlmConfig -----------------------------
(***************************************************************************)
(* The registry of language models: class LLMConfig of                     *)
(* sentinel/llm_config.py, which follows the modification time of          *)
(* llm.yaml, and the people and the CLI that edit the file.                *)
(*                                                                         *)
(* A file is what it resolves to.  Every write is taken to give the file a *)
(* modification time of its own.                                           *)
(***************************************************************************)
EXTENDS Integers

CONSTANTS
  Profiles,   \* the providers of llm.yaml
  NoProfile,  \* no provider
  EnvProfile, \* what LLM_BASE_URL and LLM_MODEL make, or NoProfile
  Contents    \* what the file may hold, of AnyContent

Registries == [active : Profiles, fallback : Profiles \cup {NoProfile}]

(* "missing" is also a directory that docker made of the mount.             *)
AnyContent == [is : {"missing", "empty", "broken"}] \cup [is : {"valid"}, says : Registries]

Env == [active |-> EnvProfile, fallback |-> NoProfile]
Off == [active |-> NoProfile, fallback |-> NoProfile]

ASSUME LlmAssumption ==
  /\ Contents \subseteq AnyContent
  /\ NoProfile \notin Profiles /\ EnvProfile \notin Profiles

VARIABLES
  file,     \* what llm.yaml holds
  aside,    \* what was moved away from there
  changed,  \* its modification time is not the one last seen
  lastGood, \* _last_good
  unread    \* history: its time was seen, but it was away when its content was read

llmVars == <<file, aside, changed, lastGood, unread>>

(* _resolve_registry is strict about the active provider and drops a bad    *)
(* fallback; an empty file counts as no file.                               *)
Resolve(c) == IF c.is = "valid" THEN c.says ELSE Env
Kept(c) == IF c.is \in {"broken", "missing"} THEN lastGood ELSE Resolve(c)

LlmTypeOK ==
  /\ {file, aside} \subseteq Contents \cup {[is |-> "missing"]}
  /\ {changed, unread} \subseteq BOOLEAN
  /\ lastGood \in Registries \cup {Env, Off}

(* A process loads the file when it starts, with nothing to fall back to.   *)
Loaded(good, new) ==
  /\ good = IF file.is = "broken" THEN Off ELSE Resolve(file)
  /\ new = (file.is = "missing")

LlmInit ==
  /\ file \in Contents /\ aside = [is |-> "missing"] /\ unread = FALSE
  /\ Loaded(lastGood, changed)

(* An editor or the switch command: the file is truncated, then written.    *)
Write(c) ==
  /\ c.is # "missing"
  /\ file' = c /\ changed' = TRUE
  /\ UNCHANGED <<aside, lastGood, unread>>

(* A file that is moved away, and perhaps back, keeps its time.             *)
MoveAway ==
  /\ file.is # "missing"
  /\ file' = [is |-> "missing"] /\ aside' = file
  /\ UNCHANGED <<changed, lastGood, unread>>

MoveBack ==
  /\ file.is = "missing" /\ aside.is # "missing"
  /\ file' = aside /\ aside' = [is |-> "missing"]
  /\ UNCHANGED <<changed, lastGood, unread>>

-----------------------------------------------------------------------------
(* _reload_if_changed: the time of the file, then, if it is new, its        *)
(* content; the file may be written in between.                             *)
Unseen == file.is # "missing" /\ changed

(* Mutant: the time last seen is not forgotten.                             *)
AbsentKeepsTime ==
  /\ file.is = "missing" /\ lastGood' = Env
  /\ UNCHANGED <<file, aside, changed, unread>>

Absent ==
  /\ file.is = "missing" /\ lastGood' = Env /\ changed' = TRUE /\ unread' = FALSE
  /\ UNCHANGED <<file, aside>>

Current == file.is # "missing" /\ ~changed /\ UNCHANGED llmVars

Stat == Unseen /\ changed' = FALSE /\ UNCHANGED <<file, aside, lastGood, unread>>

(* A file that vanished after the first look keeps the last registry, and   *)
(* moved back with the time it had it is not looked at again.               *)
Read ==
  /\ lastGood' = Kept(file) /\ unread' = (file.is = "missing")
  /\ UNCHANGED <<file, aside, changed>>
=============================================================================
