------------------------ MODULE PolicyExport_proofs ------------------------
(***************************************************************************)
(* Proofs about PolicyExport: its types, that a manifest is true, that the *)
(* deployed file is whole and that an undisturbed deployment replaces it   *)
(* by the selected network only, for any number of checkpoints, exports    *)
(* and kills; and that the last checkpoint is deployed in the end.         *)
(***************************************************************************)
EXTENDS PolicyExport, TLAPS

\* After the validity check a deployment relies on the manifest.
Relying == {"verify", "validate", "read", "replace", "source"}

\* The export that play.py records is in place.
Exported ==
  /\ play.pc # "idle" => play.ck \in Checkpoint
  /\ play.pc = "record" => onnx = play.ck

\* What an undisturbed deployment can rely on: no other export runs, so the
\* manifest and the payload stay those of its checkpoint.
Undisturbed ==
  /\ dep.pc \in {"check", "launch"} \union Relying => play.pc = "idle"
  /\ dep.pc \in Relying => manifest.ck = dep.ck
  /\ dep.pc \in {"replace", "source"} => dep.payload = dep.ck
  /\ dep.pc = "source" => dest = dep.ck

IInv ==
  /\ TypeOK /\ Exported /\ ManifestTruthful
  /\ dep.pc # "idle" => dep.ck \in Checkpoint
  /\ dep.pc = "wait" => play.sub /\ play.pc # "idle"
  /\ dep.payload # Torn /\ DestWhole
  /\ ~meddled => Undisturbed

\* The marks of a file that is missing or torn are no checkpoints.
LEMMA Numbers == Torn \notin {Nothing} \union Checkpoint /\ Nothing \notin Checkpoint
BY ExportAssumption DEF Torn, Nothing, Checkpoint

\* The invariant holds before anything has been saved.
LEMMA InitIInv == Init => IInv
<1> SUFFICES ASSUME Init PROVE IInv
  OBVIOUS
<1>1. file \in [Checkpoint -> {"none", "part", "full"}]
  BY DEF Init
<1>2. TypeOK
  <2>1. Idle \in [pc : {"idle", "export", "exporting", "record", "done"},
                  ck : {Nothing} \union Checkpoint, task : BOOLEAN, sub : BOOLEAN]
    BY DEF Idle
  <2>2. [ck |-> Nothing, sum |-> "none", task |-> TRUE, onnx |-> Nothing]
        \in [ck : {Nothing} \union Checkpoint, sum : {"none", "part", "full"},
             task : BOOLEAN, onnx : Content]
    BY DEF Content
  <2>3. Rest \in [pc : {"idle", "check", "launch", "wait", "verify", "validate", "read",
                       "replace", "source"},
                  ck : {Nothing} \union Checkpoint, sum : {"none", "part", "full"},
                  payload : Content]
    BY DEF Rest, Content
  <2>4. 0 \in 0..MaxPlays /\ 0 \in 0..MaxFaults
    BY ExportAssumption
  <2>5. Nothing \in Content
    BY DEF Content
  <2> QED
    BY <1>1, <2>1, <2>2, <2>3, <2>4, <2>5 DEF Init, TypeOK
<1>3. Exported /\ ManifestTruthful /\ DestWhole
  BY Numbers DEF Init, Exported, ManifestTruthful, DestWhole, Idle
<1>4. dep.pc = "idle" /\ dep.payload # Torn
  BY Numbers DEF Init, Rest
<1>5. Undisturbed
  BY <1>4 DEF Undisturbed, Relying
<1> QED
  BY <1>2, <1>3, <1>4, <1>5 DEF IInv

\* Training changes nothing that the others have read.
LEMMA TrainIInv ==
  ASSUME IInv, (\E c \in Checkpoint : Save(c)) \/ TrainKilled
  PROVE  IInv' /\ UNCHANGED <<dest, source>>
<1>1. CASE TrainKilled
  BY <1>1 DEF TrainKilled, exportVars, destVars, IInv, TypeOK, Exported, ManifestTruthful,
              DestWhole, Undisturbed, Relying
<1>2. ASSUME NEW c \in Checkpoint, Save(c) PROVE IInv' /\ UNCHANGED <<dest, source>>
  BY <1>2 DEF Save, exportVars, destVars, IInv, TypeOK, Exported, ManifestTruthful,
              DestWhole, Undisturbed, Relying
<1> QED
  BY <1>1, <1>2

\* The operator's export disturbs the deployment.
LEMMA UserPlayIInv ==
  ASSUME IInv, NEW c \in Checkpoint, NEW t \in BOOLEAN, UserPlay(c, t)
  PROVE  IInv' /\ UNCHANGED <<dest, source>>
BY ExportAssumption DEF UserPlay, Load, trainVars, destVars, IInv, TypeOK, Exported,
       ManifestTruthful, DestWhole

\* A step of play.py: the manifest is written of what has been exported.
LEMMA PlayIInv ==
  ASSUME IInv, PlayStep
  PROVE  IInv' /\ UNCHANGED <<dest, source>>
<1> USE DEF IInv, TypeOK, Exported, ManifestTruthful, DestWhole, Undisturbed, Relying,
            trainVars, destVars, Content
<1>1. CASE ExportBegin
  BY <1>1 DEF ExportBegin
<1>2. CASE ExportEnd
  BY <1>2 DEF ExportEnd
<1>3. CASE WriteManifest
  BY <1>3 DEF WriteManifest
<1>4. CASE PlayEnd
  BY <1>4 DEF PlayEnd, Idle
<1> QED
  BY <1>1, <1>2, <1>3, <1>4 DEF PlayStep

\* A deployment begins.
LEMMA SelectIInv ==
  ASSUME IInv, NEW c \in Checkpoint, Select(c)
  PROVE  IInv' /\ UNCHANGED <<dest, source>>
<1>1. /\ dep' = [pc |-> "check", ck |-> c, sum |-> file[c], payload |-> Nothing]
      /\ meddled' = (play.pc # "idle")
      /\ UNCHANGED <<file, trainer, play, onnx, manifest, dest, source, plays, faults>>
  BY DEF Select, exportVars, trainVars, destVars
<1>2. file[c] \in {"none", "part", "full"}
  BY DEF IInv, TypeOK
<1>3. TypeOK'
  BY <1>1, <1>2 DEF IInv, TypeOK, Content
<1>4. dep'.pc = "check" /\ dep'.ck = c /\ dep'.payload # Torn
  BY <1>1, Numbers
<1>5. ~meddled' => Undisturbed'
  BY <1>1, <1>4 DEF Undisturbed, Relying
<1>6. (Exported /\ ManifestTruthful /\ DestWhole)'
  BY <1>1 DEF IInv, Exported, ManifestTruthful, DestWhole
<1> QED
  BY <1>1, <1>3, <1>4, <1>5, <1>6 DEF IInv

\* A step of a deployment: the payload is what a true manifest names.
LEMMA DeployIInv ==
  ASSUME IInv, DeployStep
  PROVE  /\ IInv'
         /\ ~meddled => /\ (dest' # dest => dest' = dep.ck)
                        /\ (source' # source => source' = dest)
<1> USE DEF IInv, TypeOK, Exported, ManifestTruthful, DestWhole, Undisturbed, Relying,
            trainVars, exportVars, destVars, Deploying, Fail, Rest, Content
<1>1. CASE Check
  BY <1>1 DEF Check, Valid
<1>2. CASE Launch
  <2>1. CASE file[dep.ck] = "full"
    <3>1. /\ play' = [pc |-> "export", ck |-> dep.ck, task |-> TRUE, sub |-> TRUE]
          /\ dep' = [dep EXCEPT !.pc = "wait"] /\ dep.pc = "launch"
          /\ UNCHANGED <<file, trainer, onnx, manifest, dest, source, meddled, plays, faults>>
      BY <1>2, <2>1 DEF Launch, Load
    <3>2. dep.ck \in Checkpoint
      BY <3>1
    <3>3. /\ TypeOK' /\ dep'.pc = "wait" /\ dep'.ck = dep.ck /\ dep'.payload = dep.payload
          /\ play'.pc = "export" /\ play'.ck = dep.ck /\ play'.sub = TRUE
      BY <3>1, <3>2
    <3>4. (Exported /\ ManifestTruthful /\ DestWhole /\ Undisturbed)'
      BY <3>1, <3>2, <3>3
    <3> QED
      BY <3>1, <3>2, <3>3, <3>4
  <2>2. CASE file[dep.ck] # "full"
    BY <1>2, <2>2, Numbers DEF Launch
  <2> QED
    BY <2>1, <2>2
<1>3. CASE Launched
  BY <1>3, Numbers DEF Launched, Valid, Idle
<1>4. CASE Verify
  BY <1>4, Numbers DEF Verify
<1>5. CASE Validate
  BY <1>5, Numbers DEF Validate
<1>6. CASE Read
  <2>1. CASE PayloadMatches
    <3>1. /\ dep' = [dep EXCEPT !.pc = "replace", !.payload = onnx] /\ dep.pc = "read"
          /\ UNCHANGED <<file, trainer, play, onnx, manifest, dest, source, meddled, plays, faults>>
      BY <1>6, <2>1 DEF Read
    <3>2. onnx = manifest.ck /\ onnx # Torn
      BY <2>1, Numbers DEF PayloadMatches
    <3>0. dep' \in [pc : {"idle", "check", "launch", "wait", "verify", "validate", "read",
                         "replace", "source"},
                    ck : {Nothing} \union Checkpoint, sum : {"none", "part", "full"},
                    payload : Content]
      BY <3>1
    <3>3. /\ TypeOK' /\ dep'.pc = "replace" /\ dep'.ck = dep.ck /\ dep'.payload = onnx
      BY <3>0, <3>1
    <3>4. ~meddled => play.pc = "idle" /\ manifest.ck = dep.ck
      <4>1. dep.pc = "read" /\ (~meddled => Undisturbed)
        BY <3>1 DEF IInv
      <4> QED
        BY <4>1
    <3>5. (Exported /\ ManifestTruthful /\ DestWhole)'
      BY <3>1
    <3>6. ~meddled' => Undisturbed'
      <4> SUFFICES ASSUME ~meddled PROVE Undisturbed'
        BY <3>1
      <4>1. dep'.payload = dep.ck /\ manifest'.ck = dep'.ck /\ play'.pc = "idle"
        BY <3>1, <3>2, <3>3, <3>4
      <4> QED
        BY <4>1, <3>3
    <3>7. dep'.ck \in Checkpoint /\ dep'.payload # Torn /\ dep'.pc # "wait"
      BY <3>1, <3>2, <3>3
    <3> QED
      BY <3>1, <3>3, <3>5, <3>6, <3>7
  <2>2. CASE ~PayloadMatches
    BY <1>6, <2>2, Numbers DEF Read
  <2> QED
    BY <2>1, <2>2
<1>7. CASE Replace
  BY <1>7 DEF Replace
<1>8. CASE WriteSource
  BY <1>8, Numbers DEF WriteSource
<1> QED
  BY <1>1, <1>2, <1>3, <1>4, <1>5, <1>6, <1>7, <1>8 DEF DeployStep

\* A kill loses the program, not what the files say.
LEMMA KilledIInv ==
  ASSUME IInv, PlayKilled \/ DeployKilled
  PROVE  IInv' /\ UNCHANGED <<dest, source>>
<1> USE Numbers, ExportAssumption
    DEF IInv, TypeOK, Exported, ManifestTruthful, DestWhole, Undisturbed, Relying,
            trainVars, destVars, Fail, Rest, Content
<1>1. CASE PlayKilled
  BY <1>1 DEF PlayKilled, Idle
<1>2. CASE DeployKilled
  <2>1. /\ dep' = Rest /\ faults' \in 0..MaxFaults /\ play' = [play EXCEPT !.sub = FALSE]
        /\ UNCHANGED <<file, trainer, onnx, manifest, dest, source, meddled, plays>>
    BY <1>2 DEF DeployKilled
  <2>2. /\ play' \in [pc : {"idle", "export", "exporting", "record", "done"},
                      ck : {Nothing} \union Checkpoint, task : BOOLEAN, sub : BOOLEAN]
        /\ play'.pc = play.pc /\ play'.ck = play.ck
    BY <2>1
  <2>3. TypeOK'
    BY <2>1, <2>2
  <2>4. dep'.pc = "idle" /\ dep'.payload # Torn
    BY <2>1
  <2> QED
    BY <2>1, <2>2, <2>3, <2>4
<1> QED
  BY <1>1, <1>2

\* All steps.
LEMMA StepIInv ==
  ASSUME IInv, [Next]_vars
  PROVE  /\ IInv'
         /\ ~meddled => /\ (dest' # dest => dest' = dep.ck)
                        /\ (source' # source => source' = dest)
<1>1. CASE UNCHANGED vars
  BY <1>1 DEF vars, trainVars, exportVars, destVars, IInv, TypeOK, Exported,
              ManifestTruthful, DestWhole, Undisturbed
<1>2. CASE Next
  BY <1>2, TrainIInv, UserPlayIInv, PlayIInv, SelectIInv, DeployIInv, KilledIInv DEF Next
<1> QED
  BY <1>1, <1>2
-----------------------------------------------------------------------------
\* The invariant, one step of a program after the other.
THEOREM Invariance == Spec => []IInv
<1>1. IInv /\ [Next]_vars => IInv'
  BY StepIInv
<1> QED
  BY <1>1, InitIInv, PTL DEF Spec

\* A manifest names the checkpoint its ONNX was exported from.
THEOREM TrueManifest == Spec => []ManifestTruthful
<1>1. IInv => ManifestTruthful
  BY DEF IInv
<1> QED
  BY <1>1, Invariance, PTL

\* The deployed file is whole, whoever exports meanwhile.
THEOREM WholeDeployment == Spec => []DestWhole
<1>1. IInv => DestWhole
  BY DEF IInv
<1> QED
  BY <1>1, Invariance, PTL

\* An undisturbed deployment deploys what it has selected.
THEOREM SelectedDeployment == Spec => DeploysSelected
<1>1. IInv /\ [Next]_vars
      => [~meddled => /\ (dest' # dest => dest' = dep.ck)
                      /\ (source' # source => source' = dest)]_vars
  BY StepIInv
<1> QED
  BY <1>1, Invariance, PTL DEF Spec, DeploysSelected
-----------------------------------------------------------------------------
(* The last checkpoint is deployed.  ENABLED is opaque to the prover, so   *)
(* what it says of the fair actions is stated by their guards; that a      *)
(* guard holds whenever it has to is proved.                               *)

\* play.py can go on.
PlayGuard == \/ play.pc \in {"export", "exporting", "record"}
             \/ play.pc = "done" /\ ~play.sub
\* prepare_policy can go on.
DeployGuard == \/ dep.pc \in {"check", "verify", "validate", "read", "replace", "source"}
               \/ dep.pc = "launch" /\ play.pc = "idle"
               \/ dep.pc = "wait" /\ play.pc = "done"
\* The operator can deploy the newest checkpoint.
SelectGuard == dep.pc = "idle" /\ Newest # {}

\* The guards say when the fair actions are enabled.
GuardsEnable ==
  /\ PlayGuard => ENABLED <<PlayStep>>_vars
  /\ DeployGuard => ENABLED <<DeployStep>>_vars
  /\ SelectGuard => ENABLED <<SelectNewest>>_vars

\* A kill, or an export that the operator starts on his own.
Disturbs == \/ PlayKilled \/ DeployKilled
            \/ \E c \in Checkpoint, t \in BOOLEAN : UserPlay(c, t)
\* A step of the system that is none of these.
Calm == [Next]_vars /\ [~Disturbs]_vars

\* All checkpoints are saved.
Trained == \A c \in Checkpoint : file[c] = "full"

\* A play.py that belongs to a deployment is waited for.
SubWaits == play.sub => dep.pc = "wait"

\* What a calm step can be.
LEMMA CalmStep ==
  ASSUME Calm
  PROVE  \/ \E c \in Checkpoint : Save(c)
         \/ \E c \in Checkpoint : Select(c)
         \/ TrainKilled \/ PlayStep \/ DeployStep \/ UNCHANGED vars
BY DEF Calm, Next, Disturbs

\* A deployment waits for the play.py it has started, or that one is on its own.
LEMMA SubWaitsAlways == Spec => []SubWaits
<1>1. Init => SubWaits
  <2> SUFFICES ASSUME Init PROVE SubWaits
    OBVIOUS
  <2>1. play = Idle
    BY Zenon DEF Init
  <2>2. Idle.sub = FALSE
    BY DEF Idle
  <2> QED
    BY <2>1, <2>2 DEF SubWaits
<1>2. IInv /\ SubWaits /\ [Next]_vars => SubWaits'
  <2> SUFFICES ASSUME IInv, SubWaits, [Next]_vars PROVE SubWaits'
    OBVIOUS
  <2> USE DEF SubWaits
  <2>1. CASE (\E c \in Checkpoint : Save(c)) \/ TrainKilled \/ UNCHANGED vars
    BY <2>1 DEF Save, TrainKilled, vars, trainVars, exportVars
  <2>2. CASE \E c \in Checkpoint : Select(c)
    BY <2>2 DEF Select, exportVars
  <2>3. CASE \E c \in Checkpoint, t \in BOOLEAN : UserPlay(c, t)
    BY <2>3 DEF UserPlay, Load
  <2>4. CASE PlayStep
    BY <2>4 DEF PlayStep, ExportBegin, ExportEnd, WriteManifest, PlayEnd, Idle, IInv, TypeOK
  <2>5. CASE DeployStep
    BY <2>5 DEF DeployStep, Check, Launch, Launched, Verify, Validate, Read, Replace,
                WriteSource, Load, Deploying, Fail, Idle, exportVars, IInv, TypeOK
  <2>6. CASE PlayKilled
    BY <2>6 DEF PlayKilled, Idle
  <2>7. CASE DeployKilled
    BY <2>7 DEF DeployKilled, IInv, TypeOK
  <2> QED
    BY <2>1, <2>2, <2>3, <2>4, <2>5, <2>6, <2>7 DEF Next
<1> QED
  BY <1>1, <1>2, Invariance, PTL DEF Spec

\* A play.py that no deployment waits for, at each of its steps.
Alone(s) == play.pc = s /\ ~play.sub
ToExport == Alone("export")
ToFinish == Alone("exporting")
ToRecord == Alone("record")
ToLeave  == Alone("done")
\* There is none.
NoneAlone == play.pc # "idle" => play.sub

\* A calm step leaves it at its step or moves it to the next one.
LEMMA AloneSteps ==
  ASSUME IInv, SubWaits, Calm
  PROVE  /\ ToExport => ToExport' \/ ToFinish'
         /\ ToFinish => ToFinish' \/ ToRecord'
         /\ ToRecord => ToRecord' \/ ToLeave'
         /\ ToLeave => ToLeave' \/ NoneAlone'
         /\ NoneAlone => NoneAlone'
<1> USE DEF ToExport, ToFinish, ToRecord, ToLeave, Alone, NoneAlone
<1>1. CASE (\E c \in Checkpoint : Save(c)) \/ TrainKilled \/ UNCHANGED vars
  BY <1>1 DEF Save, TrainKilled, vars, trainVars, exportVars
<1>2. CASE \E c \in Checkpoint : Select(c)
  BY <1>2 DEF Select, exportVars
<1>3. CASE PlayStep
  BY <1>3 DEF PlayStep, ExportBegin, ExportEnd, WriteManifest, PlayEnd, Idle, IInv, TypeOK
<1>4. CASE DeployStep
  BY <1>4 DEF DeployStep, Check, Launch, Launched, Verify, Validate, Read, Replace,
              WriteSource, Load, Deploying, Fail, Idle, exportVars, IInv, TypeOK
<1> QED
  BY <1>1, <1>2, <1>3, <1>4, CalmStep

\* A step of its own moves it.
LEMMA AlonePlaySteps ==
  ASSUME IInv, <<PlayStep>>_vars
  PROVE  /\ ToExport => ToFinish'
         /\ ToFinish => ToRecord'
         /\ ToRecord => ToLeave'
         /\ ToLeave => NoneAlone'
BY DEF ToExport, ToFinish, ToRecord, ToLeave, Alone, NoneAlone,
       PlayStep, ExportBegin, ExportEnd, WriteManifest, PlayEnd, Idle, IInv, TypeOK

\* A deployment at each of its steps; play.py runs only while one waits for it.
Deployment(s) == dep.pc = s
Export(s) == dep.pc = "wait" /\ play.pc = s
ToCheck   == Deployment("check")
ToLaunch  == Deployment("launch")
Starts    == Export("export")
Exports   == Export("exporting")
Records   == Export("record")
Returns   == Export("done")
ToVerify  == Deployment("verify")
ToValidate == Deployment("validate")
ToRead    == Deployment("read")
ToReplace == Deployment("replace")
ToName    == Deployment("source")
AtRest    == Deployment("idle")

\* What holds once no play.py is alone and training is complete.
Settled == IInv /\ SubWaits /\ NoneAlone /\ Trained

\* A step of prepare_policy takes a deployment to the next one, or ends it.
LEMMA DeployMoves ==
  ASSUME Settled, DeployStep
  PROVE  /\ ToCheck => ToLaunch' \/ ToVerify'
         /\ ToLaunch => Starts' \/ AtRest'
         /\ ~Starts /\ ~Exports /\ ~Records
         /\ Returns => ToVerify' \/ AtRest'
         /\ ToVerify => ToValidate' \/ AtRest'
         /\ ToValidate => ToRead' \/ AtRest'
         /\ ToRead => ToReplace' \/ AtRest'
         /\ ToReplace => ToName'
         /\ ToName => AtRest'
<1> USE DEF ToCheck, ToLaunch, Starts, Exports, Records, Returns, ToVerify, ToValidate, ToRead,
            ToReplace, ToName, AtRest, Deployment, Export, Deploying, Fail, Rest
<1>0. \A s : dep' = [dep EXCEPT !.pc = s] => dep'.pc = s
  BY DEF Settled, IInv, TypeOK
<1>1. CASE Check
  <2>1. dep.pc = "check" /\ dep'.pc \in {"verify", "launch"}
    BY <1>0, <1>1 DEF Check
  <2> QED
    BY <2>1
<1>2. CASE Launch
  <2>1. dep.pc = "launch"
    BY <1>2 DEF Launch
  <2>2. (dep'.pc = "wait" /\ play'.pc = "export") \/ dep'.pc = "idle"
    BY <1>0, <1>2 DEF Launch, Load
  <2> QED
    BY <2>1, <2>2
<1>3. CASE Launched
  <2>1. dep.pc = "wait" /\ play.pc = "done" /\ dep'.pc \in {"verify", "idle"}
    BY <1>0, <1>3 DEF Launched
  <2> QED
    BY <2>1
<1>4. CASE Verify
  <2>1. dep.pc = "verify" /\ dep'.pc \in {"validate", "idle"}
    BY <1>0, <1>4 DEF Verify
  <2> QED
    BY <2>1
<1>5. CASE Validate
  <2>1. dep.pc = "validate" /\ dep'.pc \in {"read", "idle"}
    BY <1>0, <1>5 DEF Validate
  <2> QED
    BY <2>1
<1>6. CASE Read
  <2>1. dep' = [dep EXCEPT !.pc = "replace", !.payload = onnx] => dep'.pc = "replace"
    BY DEF Settled, IInv, TypeOK
  <2>2. dep.pc = "read" /\ dep'.pc \in {"replace", "idle"}
    BY <2>1, <1>6 DEF Read
  <2> QED
    BY <2>2
<1>7. CASE Replace
  <2>1. dep.pc = "replace" /\ dep'.pc = "source"
    BY <1>0, <1>7 DEF Replace
  <2> QED
    BY <2>1
<1>8. CASE WriteSource
  <2>1. dep.pc = "source" /\ dep'.pc = "idle"
    BY <1>8 DEF WriteSource
  <2> QED
    BY <2>1
<1> QED
  BY <1>1, <1>2, <1>3, <1>4, <1>5, <1>6, <1>7, <1>8 DEF DeployStep

\* A calm step leaves a deployment where it is, moves it on, or ends it.
LEMMA DeploymentSteps ==
  ASSUME Settled, Calm
  PROVE  /\ ToCheck => ToCheck' \/ ToLaunch' \/ ToVerify'
         /\ ToLaunch => ToLaunch' \/ Starts' \/ AtRest'
         /\ Starts => Starts' \/ Exports'
         /\ Exports => Exports' \/ Records'
         /\ Records => Records' \/ Returns'
         /\ Returns => Returns' \/ ToVerify' \/ AtRest'
         /\ ToVerify => ToVerify' \/ ToValidate' \/ AtRest'
         /\ ToValidate => ToValidate' \/ ToRead' \/ AtRest'
         /\ ToRead => ToRead' \/ ToReplace' \/ AtRest'
         /\ ToReplace => ToReplace' \/ ToName'
         /\ ToName => ToName' \/ AtRest'
<1> USE DEF ToCheck, ToLaunch, Starts, Exports, Records, Returns, ToVerify, ToValidate, ToRead,
            ToReplace, ToName, AtRest, Deployment, Export
<1>1. CASE (\E c \in Checkpoint : Save(c)) \/ TrainKilled \/ UNCHANGED vars
  BY <1>1 DEF Save, TrainKilled, vars, trainVars, exportVars
<1>2. CASE \E c \in Checkpoint : Select(c)
  BY <1>2 DEF Select, exportVars
<1>3. CASE PlayStep
  BY <1>3 DEF PlayStep, ExportBegin, ExportEnd, WriteManifest, PlayEnd, Idle, Settled, IInv, TypeOK
<1>4. CASE DeployStep
  <2> HIDE DEF ToCheck, ToLaunch, Starts, Exports, Records, Returns, ToVerify, ToValidate, ToRead,
              ToReplace, ToName, AtRest
  <2> QED
    BY <1>4, DeployMoves
<1> QED
  BY <1>1, <1>2, <1>3, <1>4, CalmStep

\* While play.py exports for it, a step of play.py moves it on.
LEMMA ExportMoves ==
  ASSUME Settled, <<PlayStep>>_vars
  PROVE  /\ Starts => Exports'
         /\ Exports => Records'
         /\ Records => Returns'
BY DEF Starts, Exports, Records, Returns, Export,
       PlayStep, ExportBegin, ExportEnd, WriteManifest, PlayEnd, Idle, Settled, IInv, TypeOK

\* The deployment under way is one of the last checkpoint, complete, and what
\* it relies on at each of its steps is that checkpoint's.
Carries ==
  /\ dep.pc # "idle" /\ dep.ck = Last /\ dep.sum = "full"
  /\ dep.pc = "wait" => play.ck = Last /\ play.task /\ (play.pc = "done" => Valid)
  /\ dep.pc \in Relying => Valid
  /\ dep.pc \in {"replace", "source"} => dep.payload = Last
  /\ dep.pc = "source" => dest = Last
\* It has been deployed.
Delivered == dest = Last /\ source = Last

\* A calm step keeps what a deployment of the last checkpoint relies on, until
\* it has been delivered.
LEMMA CarriesOn ==
  ASSUME Settled, Settled', Calm, Carries
  PROVE  Carries' \/ Delivered'
<1> USE DEF Carries, Relying
<1>0. /\ dep.pc # "idle" /\ dep.ck = Last /\ dep.sum = "full" /\ Last \in Checkpoint
      /\ dep.pc # "wait" => play.pc = "idle"
      /\ \A c \in Checkpoint : file[c] = "full"
  BY ExportAssumption DEF Settled, SubWaits, NoneAlone, Trained, Checkpoint, IInv, TypeOK
<1>1. CASE TrainKilled \/ UNCHANGED vars
  BY <1>1 DEF TrainKilled, vars, trainVars, exportVars, destVars, Valid
<1>2. CASE (\E c \in Checkpoint : Save(c)) \/ \E c \in Checkpoint : Select(c)
  BY <1>0, <1>2 DEF Save, Select
<1>3. CASE PlayStep
  <2>1. dep.pc = "wait" /\ UNCHANGED <<dep, dest, source, file>>
    BY <1>0, <1>3 DEF PlayStep, ExportBegin, ExportEnd, WriteManifest, PlayEnd, destVars, trainVars
  <2>2. dep'.pc = "wait" /\ dep'.ck = Last /\ dep'.sum = "full"
    BY <1>0, <2>1
  <2>3. play' # Idle
    BY <2>2 DEF Settled, IInv, Idle
  <2>4. play'.ck = Last /\ play'.task
    BY <1>3, <2>1, <2>3 DEF PlayStep, ExportBegin, ExportEnd, WriteManifest, PlayEnd, Settled, IInv, TypeOK
  <2>5. ASSUME play'.pc = "done" PROVE Valid'
    <3>1. CASE WriteManifest
      <4>1. manifest'.ck = play.ck /\ manifest'.sum = file[play.ck] /\ manifest'.task = play.task
            /\ manifest'.onnx = onnx /\ onnx' = onnx
        BY <3>1 DEF WriteManifest
      <4>2. play.ck = Last /\ play.task
        BY <2>1
      <4> QED
        BY <1>0, <2>2, <4>1, <4>2 DEF Valid
    <3>2. CASE ExportBegin \/ ExportEnd
      BY <3>2, <2>5 DEF ExportBegin, ExportEnd, Settled, IInv, TypeOK
    <3>3. CASE PlayEnd
      BY <3>3, <2>3 DEF PlayEnd
    <3> QED
      BY <3>1, <3>2, <3>3, <1>3 DEF PlayStep
  <2> QED
    BY <2>2, <2>4, <2>5
<1>4. CASE DeployStep
  <2>0. \A s : dep' = [dep EXCEPT !.pc = s] =>
                 dep'.pc = s /\ dep'.ck = Last /\ dep'.sum = "full" /\ dep'.payload = dep.payload
    BY <1>0 DEF Settled, IInv, TypeOK
  <2>1. CASE Check
    <3>1. /\ dep'.pc = (IF Valid THEN "verify" ELSE "launch")
          /\ dep'.ck = Last /\ dep'.sum = "full" /\ UNCHANGED <<manifest, onnx>>
      BY <2>0, <2>1 DEF Check, Deploying, exportVars
    <3> QED
      BY <1>0, <3>1 DEF Valid
  <2>2. CASE Launch
    <3>1. /\ dep'.pc = "wait" /\ dep'.ck = Last /\ dep'.sum = "full"
          /\ play' = [pc |-> "export", ck |-> Last, task |-> TRUE, sub |-> TRUE]
      BY <1>0, <2>0, <2>2 DEF Launch, Load, Deploying
    <3> QED
      BY <3>1
  <2>3. CASE Launched
    <3>1. dep.pc = "wait" /\ play.pc = "done"
      BY <2>3 DEF Launched
    <3>2. Valid
      BY <3>1
    <3>3. /\ dep'.pc = "verify" /\ dep'.ck = Last /\ dep'.sum = "full"
          /\ UNCHANGED <<manifest, onnx>>
      BY <2>0, <2>3, <3>2 DEF Launched, Deploying
    <3> QED
      BY <1>0, <3>2, <3>3 DEF Valid
  <2>4. CASE Verify
    <3>1. dep.pc = "verify" /\ file[dep.ck] = dep.sum
      BY <1>0, <2>4 DEF Verify
    <3>2. /\ dep'.pc = "validate" /\ dep'.ck = Last /\ dep'.sum = "full"
          /\ UNCHANGED <<manifest, onnx>>
      BY <2>0, <2>4, <3>1 DEF Verify, Deploying, exportVars
    <3> QED
      BY <1>0, <3>1, <3>2 DEF Valid
  <2>5. CASE Validate
    <3>1. dep.pc = "validate" /\ onnx = Last
      BY <1>0, <2>5 DEF Validate, Valid, Settled, IInv, ManifestTruthful
    <3>2. /\ dep'.pc = "read" /\ dep'.ck = Last /\ dep'.sum = "full"
          /\ UNCHANGED <<manifest, onnx>>
      BY <1>0, <2>0, <2>5, <3>1 DEF Validate, Deploying, exportVars
    <3> QED
      BY <1>0, <3>1, <3>2 DEF Valid
  <2>6. CASE Read
    <3>1. dep.pc = "read" /\ onnx = Last /\ PayloadMatches
      BY <1>0, <2>6 DEF Read, Valid, PayloadMatches, Settled, IInv, ManifestTruthful
    <3>2. dep' = [dep EXCEPT !.pc = "replace", !.payload = onnx]
      BY <2>6, <3>1 DEF Read
    <3>3. dep'.pc = "replace" /\ dep'.ck = Last /\ dep'.sum = "full" /\ dep'.payload = Last
      BY <1>0, <3>1, <3>2 DEF Settled, IInv, TypeOK
    <3>4. UNCHANGED <<manifest, onnx>>
      BY <2>6 DEF Read, exportVars
    <3> QED
      BY <1>0, <3>1, <3>3, <3>4 DEF Valid
  <2>7. CASE Replace
    <3>1. dep.pc = "replace" /\ dest' = Last
      BY <2>7 DEF Replace
    <3>2. /\ dep'.pc = "source" /\ dep'.ck = Last /\ dep'.sum = "full" /\ dep'.payload = Last
          /\ UNCHANGED <<manifest, onnx>>
      BY <2>0, <2>7, <3>1 DEF Replace, Deploying, exportVars
    <3> QED
      BY <1>0, <3>1, <3>2 DEF Valid
  <2>8. CASE WriteSource
    <3>1. dep.pc = "source" /\ dest = Last /\ manifest.ck = Last
      BY <1>0, <2>8 DEF WriteSource, Valid
    <3> QED
      BY <2>8, <3>1 DEF WriteSource, Delivered
  <2> QED
    BY <1>4, <2>1, <2>2, <2>3, <2>4, <2>5, <2>6, <2>7, <2>8 DEF DeployStep
<1> QED
  BY <1>1, <1>2, <1>3, <1>4, CalmStep

\* The operator who deploys the newest checkpoint once all are saved deploys
\* the last one.
LEMMA NewestIsLast ==
  ASSUME Settled
  PROVE  /\ AtRest => SelectGuard
         /\ <<SelectNewest>>_vars => Carries'
<1>1. Last \in Checkpoint /\ \A c \in Checkpoint : c <= Last
  BY ExportAssumption DEF Checkpoint
<1>2. \A c \in Checkpoint : file[c] = "full"
  BY DEF Settled, Trained
<1>3. Last \in Newest /\ \A c \in Newest : c = Last
  BY <1>1, <1>2, ExportAssumption DEF Newest, Checkpoint
<1>4. AtRest => SelectGuard
  BY <1>3 DEF AtRest, Deployment, SelectGuard
<1>5. ASSUME SelectNewest PROVE Carries'
  <2>1. Select(Last)
    BY <1>3, <1>5 DEF SelectNewest
  <2>2. dep'.pc = "check" /\ dep'.ck = Last /\ dep'.sum = "full"
    BY <1>1, <1>2, <2>1 DEF Select
  <2> QED
    BY <2>2 DEF Carries, Relying
<1> QED
  BY <1>4, <1>5

\* Programs that nobody kills go on, and the operator keeps deploying.
GoOn == /\ [][Next]_vars /\ [][~Disturbs]_vars
        /\ WF_vars(PlayStep) /\ WF_vars(DeployStep) /\ SF_vars(SelectNewest)
        /\ [](IInv /\ SubWaits) /\ []GuardsEnable

\* A play.py that nobody waits for ends, and no other one comes.
LEMMA AloneEnds == GoOn => <>[]NoneAlone
<1>. DEFINE J == IInv /\ SubWaits
<1>1. /\ ToExport /\ GuardsEnable => ENABLED <<PlayStep>>_vars
      /\ ToFinish /\ GuardsEnable => ENABLED <<PlayStep>>_vars
      /\ ToRecord /\ GuardsEnable => ENABLED <<PlayStep>>_vars
      /\ ToLeave /\ GuardsEnable => ENABLED <<PlayStep>>_vars
  BY DEF GuardsEnable, PlayGuard, ToExport, ToFinish, ToRecord, ToLeave, Alone
<1>2. J => ToExport \/ ToFinish \/ ToRecord \/ ToLeave \/ NoneAlone
  BY DEF IInv, TypeOK, ToExport, ToFinish, ToRecord, ToLeave, Alone, NoneAlone
<1>3. J /\ [Next]_vars /\ [~Disturbs]_vars =>
        /\ ToExport => ToExport' \/ ToFinish'
        /\ ToFinish => ToFinish' \/ ToRecord'
        /\ ToRecord => ToRecord' \/ ToLeave'
        /\ ToLeave => ToLeave' \/ NoneAlone'
        /\ NoneAlone => NoneAlone'
  BY AloneSteps DEF Calm
<1>4. J /\ ToExport /\ <<PlayStep>>_vars => ToFinish'
  BY AlonePlaySteps
<1>5. J /\ ToFinish /\ <<PlayStep>>_vars => ToRecord'
  BY AlonePlaySteps
<1>6. J /\ ToRecord /\ <<PlayStep>>_vars => ToLeave'
  BY AlonePlaySteps
<1>7. J /\ ToLeave /\ <<PlayStep>>_vars => NoneAlone'
  BY AlonePlaySteps
<1>8. J <=> IInv /\ SubWaits
  OBVIOUS
<1>. HIDE DEF J
<1>9. GoOn => (ToExport ~> ToFinish)
  BY <1>1, <1>3, <1>4, <1>8, PTL DEF GoOn
<1>10. GoOn => (ToFinish ~> ToRecord)
  BY <1>1, <1>3, <1>5, <1>8, PTL DEF GoOn
<1>11. GoOn => (ToRecord ~> ToLeave)
  BY <1>1, <1>3, <1>6, <1>8, PTL DEF GoOn
<1>12. GoOn => (ToLeave ~> NoneAlone)
  BY <1>1, <1>3, <1>7, <1>8, PTL DEF GoOn
<1>. QED
  BY <1>2, <1>3, <1>8, <1>9, <1>10, <1>11, <1>12, PTL DEF GoOn

\* Every deployment ends.
LEMMA DeploymentsEnd == GoOn /\ []Settled => []<>AtRest
<1>1. /\ Starts /\ GuardsEnable => ENABLED <<PlayStep>>_vars
      /\ Exports /\ GuardsEnable => ENABLED <<PlayStep>>_vars
      /\ Records /\ GuardsEnable => ENABLED <<PlayStep>>_vars
  BY DEF GuardsEnable, PlayGuard, Starts, Exports, Records, Export
<1>2. Settled =>
        /\ ToCheck /\ GuardsEnable => ENABLED <<DeployStep>>_vars
        /\ ToLaunch /\ GuardsEnable => ENABLED <<DeployStep>>_vars
        /\ Returns /\ GuardsEnable => ENABLED <<DeployStep>>_vars
        /\ ToVerify /\ GuardsEnable => ENABLED <<DeployStep>>_vars
        /\ ToValidate /\ GuardsEnable => ENABLED <<DeployStep>>_vars
        /\ ToRead /\ GuardsEnable => ENABLED <<DeployStep>>_vars
        /\ ToReplace /\ GuardsEnable => ENABLED <<DeployStep>>_vars
        /\ ToName /\ GuardsEnable => ENABLED <<DeployStep>>_vars
  BY DEF GuardsEnable, DeployGuard, Settled, SubWaits, NoneAlone, ToCheck, ToLaunch, Returns,
         ToVerify, ToValidate, ToRead, ToReplace, ToName, Deployment, Export
<1>3. Settled => \/ ToCheck \/ ToLaunch \/ Starts \/ Exports \/ Records \/ Returns
                 \/ ToVerify \/ ToValidate \/ ToRead \/ ToReplace \/ ToName \/ AtRest
  BY DEF Settled, IInv, TypeOK, ToCheck, ToLaunch, Starts, Exports, Records, Returns,
         ToVerify, ToValidate, ToRead, ToReplace, ToName, AtRest, Deployment, Export
<1>4. Settled /\ [Next]_vars /\ [~Disturbs]_vars =>
        /\ ToCheck => ToCheck' \/ ToLaunch' \/ ToVerify'
        /\ ToLaunch => ToLaunch' \/ Starts' \/ AtRest'
        /\ Starts => Starts' \/ Exports'
        /\ Exports => Exports' \/ Records'
        /\ Records => Records' \/ Returns'
        /\ Returns => Returns' \/ ToVerify' \/ AtRest'
        /\ ToVerify => ToVerify' \/ ToValidate' \/ AtRest'
        /\ ToValidate => ToValidate' \/ ToRead' \/ AtRest'
        /\ ToRead => ToRead' \/ ToReplace' \/ AtRest'
        /\ ToReplace => ToReplace' \/ ToName'
        /\ ToName => ToName' \/ AtRest'
  BY DeploymentSteps DEF Calm
<1>5. /\ Settled /\ Starts /\ <<PlayStep>>_vars => Exports'
      /\ Settled /\ Exports /\ <<PlayStep>>_vars => Records'
      /\ Settled /\ Records /\ <<PlayStep>>_vars => Returns'
  BY ExportMoves
<1>6. /\ Settled /\ ToCheck /\ <<DeployStep>>_vars => ToLaunch' \/ ToVerify'
      /\ Settled /\ ToLaunch /\ <<DeployStep>>_vars => Starts' \/ AtRest'
      /\ Settled /\ Returns /\ <<DeployStep>>_vars => ToVerify' \/ AtRest'
      /\ Settled /\ ToVerify /\ <<DeployStep>>_vars => ToValidate' \/ AtRest'
      /\ Settled /\ ToValidate /\ <<DeployStep>>_vars => ToRead' \/ AtRest'
      /\ Settled /\ ToRead /\ <<DeployStep>>_vars => ToReplace' \/ AtRest'
      /\ Settled /\ ToReplace /\ <<DeployStep>>_vars => ToName'
      /\ Settled /\ ToName /\ <<DeployStep>>_vars => AtRest'
  BY DeployMoves
<1>7. GoOn /\ []Settled => /\ ToName ~> AtRest
                           /\ ToReplace ~> ToName
                           /\ ToRead ~> ToReplace \/ AtRest
                           /\ ToValidate ~> ToRead \/ AtRest
  BY <1>2, <1>4, <1>6, PTL DEF GoOn
<1>8. GoOn /\ []Settled => /\ ToVerify ~> ToValidate \/ AtRest
                           /\ Returns ~> ToVerify \/ AtRest
                           /\ ToLaunch ~> Starts \/ AtRest
                           /\ ToCheck ~> ToLaunch \/ ToVerify
  BY <1>2, <1>4, <1>6, PTL DEF GoOn
<1>9. GoOn /\ []Settled => /\ Starts ~> Exports
                           /\ Exports ~> Records
                           /\ Records ~> Returns
  BY <1>1, <1>4, <1>5, PTL DEF GoOn
<1>10. GoOn /\ []Settled => /\ ToRead ~> AtRest
                            /\ ToValidate ~> AtRest
                            /\ ToVerify ~> AtRest
  BY <1>7, <1>8, PTL
<1>11. GoOn /\ []Settled => /\ Starts ~> AtRest
                            /\ Exports ~> AtRest
                            /\ Records ~> AtRest
                            /\ Returns ~> AtRest
  BY <1>8, <1>9, <1>10, PTL
<1>12. GoOn /\ []Settled => /\ ToLaunch ~> AtRest
                            /\ ToCheck ~> AtRest
                            /\ ToReplace ~> AtRest
  BY <1>7, <1>8, <1>10, <1>11, PTL
<1>. QED
  BY <1>3, <1>7, <1>10, <1>11, <1>12, PTL DEF GoOn

\* Once training is complete and programs are left alone, the last checkpoint
\* is deployed, by name and content, again and again.
LEMMA LastIsDelivered == GoOn /\ []Trained => []<>Delivered
<1>1. IInv /\ SubWaits /\ NoneAlone /\ Trained => Settled
  BY DEF Settled
<1>2. Settled /\ AtRest /\ GuardsEnable => ENABLED <<SelectNewest>>_vars
  BY NewestIsLast DEF GuardsEnable
<1>3. Settled /\ <<SelectNewest>>_vars => Carries'
  BY NewestIsLast
<1>4. Settled /\ Settled' /\ [Next]_vars /\ [~Disturbs]_vars /\ Carries => Carries' \/ Delivered'
  BY CarriesOn DEF Calm
<1>5. Carries => ~AtRest
  BY DEF Carries, AtRest, Deployment
<1>6. GoOn /\ []Settled => []<>Carries
  BY <1>2, <1>3, DeploymentsEnd, PTL DEF GoOn
<1>7. GoOn /\ []Settled => (Carries ~> Delivered)
  BY <1>4, <1>5, DeploymentsEnd, PTL DEF GoOn
<1>8. GoOn /\ []Settled => []<>Delivered
  BY <1>6, <1>7, PTL
<1>9. GoOn /\ []Trained => <>[]Settled
  BY <1>1, AloneEnds, PTL DEF GoOn
<1>10. GoOn => []GoOn
  BY PTL DEF GoOn
<1>. QED
  BY <1>8, <1>9, <1>10, PTL

\* However many checkpoints there are and whatever has been killed before: once
\* training is over, killed or complete, and from some time on programs are
\* neither killed nor disturbed by an export of the operator's, a deployment
\* again and again leaves the last checkpoint in place, under its name, unless
\* training was killed.
THEOREM NewestIsDeployed ==
  FairSpec /\ []GuardsEnable /\ <>[](trainer = "killed" \/ Trained) /\ <>[][~Disturbs]_vars
    => NewestDeployed
<1>. DEFINE Killed == trainer = "killed"
<1>1. Killed /\ [Next]_vars => Killed'
  BY DEF Next, Save, TrainKilled, UserPlay, PlayStep, ExportBegin, ExportEnd, WriteManifest,
         PlayEnd, Select, DeployStep, Check, Launch, Launched, Verify, Validate, Read, Replace,
         WriteSource, PlayKilled, DeployKilled, vars, trainVars
<1>2. /\ Killed <=> trainer = "killed"
      /\ Delivered <=> dest = Last /\ source = Last
  BY DEF Delivered
<1>. HIDE DEF Killed
<1>3. FairSpec => [](IInv /\ SubWaits)
  BY Invariance, SubWaitsAlways, PTL DEF FairSpec
<1>4. FairSpec /\ []GuardsEnable /\ <>[](Killed \/ Trained) /\ <>[][~Disturbs]_vars
        => <>[]Killed \/ <>(GoOn /\ []Trained)
  BY <1>1, <1>3, PTL DEF FairSpec, Spec, GoOn
<1>5. <>(GoOn /\ []Trained) => []<>Delivered
  BY LastIsDelivered, PTL
<1>. QED
  BY <1>2, <1>4, <1>5, PTL DEF NewestDeployed
=============================================================================
