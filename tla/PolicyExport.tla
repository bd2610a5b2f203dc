---------------------------- MODULE PolicyExport ---------------------------
(***************************************************************************)
(* From a checkpoint to the policy that the sim2sim program runs: train.py *)
(* saves model_N.pt, play.py exports one of them to exported/policy.onnx   *)
(* and writes export_manifest.json, and prepare_policy of                  *)
(* andy_height_mujoco_rl_sar.py copies the ONNX of the checkpoint it has   *)
(* selected to the deployment directory.  The processes share only files   *)
(* and may be killed between any two steps.                                *)
(*                                                                         *)
(* A checkpoint is its N, the network exported from it the same number: a  *)
(* SHA256 stands for the content it was taken of.  One play.py at a time   *)
(* exports in a training directory, but the operator's may run while a     *)
(* deployment is under way.                                                *)
(***************************************************************************)
EXTENDS Integers

CONSTANTS
  Last,       \* the number of checkpoints that training saves
  MaxPlays,   \* bound: exports the operator starts on his own
  MaxFaults   \* bound: kills of play.py and of the deployment
ASSUME ExportAssumption == Last \in Nat \ {0} /\ MaxPlays \in Nat /\ MaxFaults \in Nat

VARIABLES
  file,      \* the model_N.pt: absent, being written, complete
  trainer,   \* train.py is running, or was killed
  play,      \* the play.py that exports: its next step, checkpoint and task
  onnx,      \* content of exported/policy.onnx
  manifest,  \* export_manifest.json
  dep,       \* prepare_policy: its next step, checkpoint, fingerprint, payload
  dest,      \* content of the deployed policy.onnx
  source,    \* the checkpoint named in policy_source.json
  meddled,   \* history: the operator's export ran during this deployment
  plays, faults  \* how many there have been

trainVars == <<file, trainer>>
exportVars == <<play, onnx, manifest>>
destVars == <<dest, source>>
vars == <<trainVars, exportVars, dep, destVars, meddled, plays, faults>>

Checkpoint == 1..Last
Nothing == 0   \* no file, or one of before these runs
Torn == -1     \* a file in the middle of being written
Content == {Torn, Nothing} \union Checkpoint

Idle == [pc |-> "idle", ck |-> Nothing, task |-> TRUE, sub |-> FALSE]
Rest == [pc |-> "idle", ck |-> Nothing, sum |-> "none", payload |-> Nothing]

Init ==
  /\ file = [c \in Checkpoint |-> "none"] /\ trainer = "on"
  /\ play = Idle /\ onnx = Nothing
  /\ manifest = [ck |-> Nothing, sum |-> "none", task |-> TRUE, onnx |-> Nothing]
  /\ dep = Rest /\ dest = Nothing /\ source = Nothing
  /\ meddled = FALSE /\ plays = 0 /\ faults = 0
-----------------------------------------------------------------------------
(* train.py: OnConstraintPolicyRunner.save writes in place, N after N. *)

Save(c) ==
  /\ trainer = "on" /\ file[c] # "full" /\ \A b \in Checkpoint : b < c => file[b] = "full"
  /\ file' = [file EXCEPT ![c] = IF @ = "none" THEN "part" ELSE "full"]
  /\ UNCHANGED <<trainer, exportVars, dep, destVars, meddled, plays, faults>>

TrainKilled ==
  /\ trainer = "on" /\ trainer' = "killed"
  /\ UNCHANGED <<file, exportVars, dep, destVars, meddled, plays, faults>>
-----------------------------------------------------------------------------
(* play.py. *)

\* It loads checkpoint c, for the deployment's task or another one.
Load(c, t, s) ==
  /\ play.pc = "idle" /\ file[c] = "full"
  /\ play' = [pc |-> "export", ck |-> c, task |-> t, sub |-> s]

\* The operator exports by hand.
UserPlay(c, t) ==
  /\ plays < MaxPlays /\ plays' = plays + 1
  /\ Load(c, t, FALSE) /\ meddled' = TRUE
  /\ UNCHANGED <<trainVars, onnx, manifest, dep, destVars, faults>>

\* torch.onnx.export opens the file, then completes it.
ExportBegin ==
  /\ play.pc = "export" /\ onnx' = Torn /\ play' = [play EXCEPT !.pc = "exporting"]
  /\ UNCHANGED <<trainVars, manifest, dep, destVars, meddled, plays, faults>>
ExportEnd ==
  /\ play.pc = "exporting" /\ onnx' = play.ck /\ play' = [play EXCEPT !.pc = "record"]
  /\ UNCHANGED <<trainVars, manifest, dep, destVars, meddled, plays, faults>>

\* Only after the export has succeeded is the manifest written, aside, and put
\* in place at once.
WriteManifest ==
  /\ play.pc = "record"
  /\ manifest' = [ck |-> play.ck, sum |-> file[play.ck], task |-> play.task, onnx |-> onnx]
  /\ play' = [play EXCEPT !.pc = "done"]
  /\ UNCHANGED <<trainVars, onnx, dep, destVars, meddled, plays, faults>>

\* The operator's play.py leaves the export; the files stay.
PlayEnd ==
  /\ play.pc = "done" /\ ~play.sub /\ play' = Idle
  /\ UNCHANGED <<trainVars, onnx, manifest, dep, destVars, meddled, plays, faults>>
-----------------------------------------------------------------------------
(* prepare_policy. *)

Deploying(s) == dep' = [dep EXCEPT !.pc = s]
\* An exception ends the program; the deployment is unchanged.
Fail == dep' = Rest

\* Mutant: the names are compared, model_9 after model_10.
NewestByName ==
  {c \in Checkpoint : file[c] # "none" /\ \A b \in Checkpoint : b < c => file[b] = "none"}
\* select_checkpoint of a training directory: the largest N there is.
Newest == {c \in Checkpoint : file[c] # "none" /\ \A b \in Checkpoint : b > c => file[b] = "none"}

Select(c) ==
  /\ dep.pc = "idle" /\ file[c] # "none"
  /\ dep' = [pc |-> "check", ck |-> c, sum |-> file[c], payload |-> Nothing]
  /\ meddled' = (play.pc # "idle")
  /\ UNCHANGED <<trainVars, exportVars, destVars, plays, faults>>
SelectNewest == \E c \in Newest : Select(c)

\* Mutant: the manifest may be about another checkpoint.
ValidAnyCheckpoint == manifest.sum = dep.sum /\ manifest.task /\ manifest.onnx = onnx
\* valid_export.
Valid == /\ manifest.ck = dep.ck /\ manifest.sum = dep.sum /\ manifest.task
         /\ manifest.onnx = onnx

Check ==
  /\ dep.pc = "check" /\ Deploying(IF Valid THEN "verify" ELSE "launch")
  /\ UNCHANGED <<trainVars, exportVars, destVars, meddled, plays, faults>>

\* subprocess.run: play.py cannot load a checkpoint that is not complete.
Launch ==
  /\ dep.pc = "launch" /\ play.pc = "idle"
  /\ IF file[dep.ck] = "full" THEN Load(dep.ck, TRUE, TRUE) /\ Deploying("wait")
                              ELSE Fail /\ UNCHANGED play
  /\ UNCHANGED <<trainVars, onnx, manifest, destVars, meddled, plays, faults>>

\* play.py has returned.
Launched ==
  /\ dep.pc = "wait" /\ play.pc = "done" /\ play' = Idle
  /\ IF Valid THEN Deploying("verify") ELSE Fail
  /\ UNCHANGED <<trainVars, onnx, manifest, destVars, meddled, plays, faults>>

\* The checkpoint must not have changed since it was fingerprinted.
Verify ==
  /\ dep.pc = "verify"
  /\ IF file[dep.ck] = dep.sum THEN Deploying("validate") ELSE Fail
  /\ UNCHANGED <<trainVars, exportVars, destVars, meddled, plays, faults>>

\* onnxruntime loads the export (all networks of one training directory have
\* the interface that is asked for).
Validate ==
  /\ dep.pc = "validate"
  /\ IF onnx \in Checkpoint THEN Deploying("read") ELSE Fail
  /\ UNCHANGED <<trainVars, exportVars, destVars, meddled, plays, faults>>

\* Mutant: the payload is not compared.
AnyPayload == TRUE
\* The payload is compared with the manifest, which is read again.
PayloadMatches == onnx = manifest.onnx
Read ==
  /\ dep.pc = "read"
  /\ IF PayloadMatches THEN dep' = [dep EXCEPT !.pc = "replace", !.payload = onnx] ELSE Fail
  /\ UNCHANGED <<trainVars, exportVars, destVars, meddled, plays, faults>>

\* os.replace of a temporary file.
Replace ==
  /\ dep.pc = "replace" /\ dest' = dep.payload /\ Deploying("source")
  /\ UNCHANGED <<trainVars, exportVars, source, meddled, plays, faults>>

\* policy_source.json repeats the manifest, read once more; the program then
\* runs the policy, and the operator may start it again.
WriteSource ==
  /\ dep.pc = "source" /\ source' = manifest.ck /\ dep' = Rest
  /\ UNCHANGED <<trainVars, exportVars, dest, meddled, plays, faults>>

PlayKilled ==
  /\ play.pc # "idle" /\ faults < MaxFaults /\ faults' = faults + 1
  /\ play' = Idle /\ (IF play.sub /\ dep.pc = "wait" THEN Fail ELSE UNCHANGED dep)
  /\ UNCHANGED <<trainVars, onnx, manifest, destVars, meddled, plays>>

\* A play.py it has started goes on alone.
DeployKilled ==
  /\ dep.pc # "idle" /\ faults < MaxFaults /\ faults' = faults + 1 /\ Fail
  /\ play' = [play EXCEPT !.sub = FALSE]
  /\ UNCHANGED <<trainVars, onnx, manifest, destVars, meddled, plays>>

PlayStep == ExportBegin \/ ExportEnd \/ WriteManifest \/ PlayEnd
DeployStep == Check \/ Launch \/ Launched \/ Verify \/ Validate \/ Read \/ Replace \/ WriteSource

Next ==
  \/ \E c \in Checkpoint : Save(c) \/ Select(c) \/ \E t \in BOOLEAN : UserPlay(c, t)
  \/ TrainKilled \/ PlayStep \/ DeployStep \/ PlayKilled \/ DeployKilled

Spec == Init /\ [][Next]_vars

\* Training goes on, started programs go on, and the operator keeps deploying
\* the training directory.
FairSpec ==
  /\ Spec /\ \A c \in Checkpoint : WF_vars(Save(c))
  /\ WF_vars(PlayStep) /\ WF_vars(DeployStep) /\ SF_vars(SelectNewest)
-----------------------------------------------------------------------------
(* Properties. *)

\* Types of all variables.
TypeOK ==
  /\ file \in [Checkpoint -> {"none", "part", "full"}] /\ trainer \in {"on", "killed"}
  /\ play \in [pc : {"idle", "export", "exporting", "record", "done"},
               ck : {Nothing} \union Checkpoint, task : BOOLEAN, sub : BOOLEAN]
  /\ onnx \in Content
  /\ manifest \in [ck : {Nothing} \union Checkpoint, sum : {"none", "part", "full"},
                   task : BOOLEAN, onnx : Content]
  /\ dep \in [pc : {"idle", "check", "launch", "wait", "verify", "validate", "read",
                    "replace", "source"},
              ck : {Nothing} \union Checkpoint, sum : {"none", "part", "full"},
              payload : Content]
  /\ dest \in Content /\ source \in {Nothing} \union Checkpoint
  /\ meddled \in BOOLEAN /\ plays \in 0..MaxPlays /\ faults \in 0..MaxFaults

\* The manifest never names another checkpoint than the one its ONNX was
\* exported from, whatever was killed in between.
ManifestTruthful == manifest.onnx = manifest.ck

\* The deployed file is a whole network at any time, also while the operator
\* exports into the directory it is copied from.
DestWhole == dest # Torn

\* A deployment that no other export runs into replaces the policy only by the
\* network of the checkpoint it has selected, and says so.
DeploysSelected ==
  [][~meddled => /\ (dest' # dest => dest' = dep.ck)
                 /\ (source' # source => source' = dest)]_vars

\* If training is not killed, the operator who deploys its directory again and
\* again gets the last checkpoint, however many programs were killed.
NewestDeployed == []<>(trainer = "killed" \/ (dest = Last /\ source = Last))
=============================================================================
