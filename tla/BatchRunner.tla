---------------------------- MODULE BatchRunner ----------------------------
(***************************************************************************)
(* evaluation/batch_runner.py: an ablation batch runs every client so many *)
(* times under every configuration. A configuration is written to .env and *)
(* the services are restarted with it; each run is launched through the    *)
(* API and polled; the manifest is saved after every run so that a batch   *)
(* that was interrupted or killed can be resumed. The settings that a      *)
(* configuration overrides are of three kinds: those the user's .env has,  *)
(* those it lacks, and the ones that inject failures.                      *)
(***************************************************************************)
EXTENDS Integers, FiniteSets, Sequences

CONSTANTS
  BatchConfigs, \* the configurations in the order of the command line
  Clients,      \* the clients, in order
  Reps,         \* repetitions of a client under a configuration
  MaxBatchStarts \* bound: starts of the runner

ASSUME BatchAssumption ==
  Reps \in Nat /\ MaxBatchStarts \in Nat /\ BatchConfigs \in Seq(STRING) /\ Clients \in Seq(STRING)

VARIABLES
  step,      \* where run_batch is
  manifest,  \* the manifest file: batch id, status and the last record of every run
  completed, \* completed_keys of the running process
  config,    \* index of the configuration at work
  key,       \* the run at work
  env,       \* the overridden settings in the .env file
  original,  \* what apply_config returned
  running,   \* the settings the services run with, and whether the last restart worked
  rows,      \* run_results.csv
  batches,   \* starts of the runner
  lost       \* a kill, or an interrupt inside apply_config, left .env as it was

batchVars == <<step, manifest, completed, config, key, env, original, running, rows, batches, lost>>

(* A run is a configuration, a client (its index) and a repetition.         *)
RunKeys == {[config |-> BatchConfigs[i], client |-> d, rep |-> r] :
              i \in DOMAIN BatchConfigs, d \in DOMAIN Clients, r \in 1..Reps}
NoKey == [config |-> "none", client |-> 0, rep |-> 0]
NoManifest == [batch |-> 0, status |-> "none", runs |-> [k \in RunKeys |-> "none"]]

UsersEnv == [had |-> "orig", lacked |-> "absent", inject |-> "orig"]
ConfigEnv(c) == [had |-> c, lacked |-> c, inject |-> c]

-----------------------------------------------------------------------------
FaultyCompletedRunKeys(man) == {}
CompletedRunKeys(man) == {k \in RunKeys : man.runs[k] = "COMPLETED"}

(* run_batch up to its loop. Without --resume, or without a manifest that   *)
(* can be read, a new one replaces the old.                                 *)
StartBatch(resume) ==
  /\ step = "down" /\ batches < MaxBatchStarts
  /\ batches' = batches + 1
  /\ manifest' = IF resume /\ manifest # NoManifest THEN [manifest EXCEPT !.status = "RUNNING"]
                 ELSE [NoManifest EXCEPT !.batch = batches + 1, !.status = "RUNNING"]
  /\ completed' = CompletedRunKeys(manifest')
  /\ step' = "config" /\ config' = 1
  /\ UNCHANGED <<key, env, original, running, rows, lost>>

Pending == {k \in RunKeys \ completed : k.config = BatchConfigs[config]}

SkipConfig ==
  /\ step = "config" /\ config <= Len(BatchConfigs) /\ Pending = {}
  /\ config' = config + 1
  /\ UNCHANGED <<step, manifest, completed, key, env, original, running, rows, batches, lost>>

(* docker compose may fail; the batch goes on with a warning.               *)
Restarted(ok, e) == IF ok THEN [env |-> e, ok |-> TRUE] ELSE [running EXCEPT !.ok = FALSE]

(* A setting that the file lacks is remembered with its default.            *)
OriginalEnv == [env EXCEPT !.lacked = IF @ = "absent" THEN "default" ELSE @]

(* apply_config: every setting is overridden, whatever the file held. Its   *)
(* waits for the API, the registry and the listeners end in warnings.       *)
ApplyConfig(ok) ==
  /\ step = "config" /\ config <= Len(BatchConfigs) /\ Pending # {}
  /\ original' = OriginalEnv /\ env' = ConfigEnv(BatchConfigs[config])
  /\ running' = Restarted(ok, env')
  /\ step' = "applying"
  /\ UNCHANGED <<manifest, completed, config, key, rows, batches, lost>>

Applied ==
  /\ step = "applying" /\ step' = "loop"
  /\ UNCHANGED <<manifest, completed, config, key, env, original, running, rows, batches, lost>>

(* The loops over clients and repetitions skip what is complete and try     *)
(* everything else once.                                                    *)
Precedes(k, l) == k.client < l.client \/ (k.client = l.client /\ k.rep < l.rep)
Ahead == {k \in Pending : Precedes(key, k)}
LaunchRun(k) ==
  /\ step = "loop" /\ k \in Ahead /\ ~\E l \in Ahead : Precedes(l, k)
  /\ key' = k /\ step' = "polling"
  /\ UNCHANGED <<manifest, completed, config, env, original, running, rows, batches, lost>>

UpsertManifestRun(man, k, status) == [man EXCEPT !.runs[k] = status]

(* launch_and_wait returns; FAILED stands for a run that failed, a poll     *)
(* that timed out and a launch that failed. The record is saved at once.    *)
RecordRun(status) ==
  /\ step = "polling"
  /\ manifest' = UpsertManifestRun(manifest, key, status)
  /\ completed' = IF status = "COMPLETED" THEN completed \cup {key} ELSE completed
  /\ step' = IF status = "COMPLETED" THEN "export" ELSE "loop"
  /\ UNCHANGED <<config, key, env, original, running, rows, batches, lost>>

(* The row is appended; a failure to collect or to write it is ignored.     *)
ExportRow(ok) ==
  /\ step = "export" /\ step' = "loop"
  /\ rows' = IF ~ok THEN rows
             ELSE Append(rows, [key |-> key, batch |-> manifest.batch,
                                under |-> running.env, restarted |-> running.ok])
  /\ UNCHANGED <<manifest, completed, config, key, env, original, running, batches, lost>>

(* The finally of the inner try. Failure injection is switched off, whatever *)
(* the user had.                                                             *)
RestoreConfig(ok, next) ==
  /\ env' = [original EXCEPT !.inject = "off"] /\ running' = Restarted(ok, env')
  /\ step' = next /\ config' = config + 1 /\ key' = NoKey
  /\ UNCHANGED <<completed, original, rows, batches, lost>>

EndConfig(ok) ==
  /\ step = "loop" /\ Ahead = {}
  /\ RestoreConfig(ok, "config") /\ UNCHANGED manifest

EndBatch ==
  /\ step = "config" /\ config > Len(BatchConfigs)
  /\ manifest' = [manifest EXCEPT !.status = "COMPLETED"] /\ step' = "down"
  /\ UNCHANGED <<completed, config, key, env, original, running, rows, batches, lost>>

(* Ctrl-C in the loop restores the environment, then marks the manifest.    *)
Interrupt(ok) ==
  /\ step \in {"loop", "polling", "export"}
  /\ RestoreConfig(ok, "down") /\ manifest' = [manifest EXCEPT !.status = "INTERRUPTED"]

(* apply_config is called before the try: nothing restores what it wrote.   *)
InterruptApply ==
  /\ step = "applying"
  /\ step' = "down" /\ lost' = TRUE /\ key' = NoKey
  /\ manifest' = [manifest EXCEPT !.status = "INTERRUPTED"]
  /\ UNCHANGED <<completed, config, env, original, running, rows, batches>>

(* The process is killed; inside _save_manifest this leaves a file that     *)
(* does not parse.                                                          *)
Kill(torn) ==
  /\ step # "down" /\ step' = "down" /\ key' = NoKey
  /\ torn => step \in {"config", "polling"}
  /\ manifest' = IF torn THEN NoManifest ELSE manifest
  /\ lost' = (lost \/ step # "config")
  /\ UNCHANGED <<completed, config, env, original, running, rows, batches>>

BatchInit ==
  /\ step = "down" /\ manifest = NoManifest /\ completed = {} /\ config = 1 /\ key = NoKey
  /\ env = UsersEnv /\ original = UsersEnv /\ running = [env |-> UsersEnv, ok |-> TRUE]
  /\ rows = <<>> /\ batches = 0 /\ lost = FALSE

BatchNext ==
  \/ SkipConfig \/ Applied \/ EndBatch \/ InterruptApply
  \/ \E b \in BOOLEAN : \/ StartBatch(b) \/ ApplyConfig(b) \/ ExportRow(b)
                        \/ EndConfig(b) \/ Interrupt(b) \/ Kill(b)
  \/ \E k \in RunKeys : LaunchRun(k)
  \/ \E s \in {"COMPLETED", "FAILED"} : RecordRun(s)

BatchSpec == BatchInit /\ [][BatchNext]_batchVars

-----------------------------------------------------------------------------
(* However often a batch is killed, interrupted and resumed: the results    *)
(* hold a run of a batch at most once; a row was measured under its own     *)
(* configuration, in every setting, unless the restart failed; and when the *)
(* runner is down, unless it was killed or stopped inside apply_config, the *)
(* settings of the user's .env are back, those it lacked are absent or at   *)
(* their defaults, and no configuration goes on injecting failures.         *)
BatchSound ==
  /\ \A i, j \in DOMAIN rows :
       (rows[i].key = rows[j].key /\ rows[i].batch = rows[j].batch) => i = j
  /\ \A i \in DOMAIN rows : rows[i].restarted => rows[i].under = ConfigEnv(rows[i].key.config)
  /\ (step = "down" /\ ~lost) =>
       env \in {UsersEnv, [had |-> "orig", lacked |-> "default", inject |-> "off"]}
=============================================================================
