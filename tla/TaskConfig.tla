----------------------------- MODULE TaskConfig ----------------------------
(***************************************************************************)
(* A script builds the environment of one registered task: the configclass *)
(* machinery gives every group the terms of the last class that declares   *)
(* it, the __post_init__ methods run from the base class down, one         *)
(* statement per step, and then the managers of Isaac Lab resolve the      *)
(* terms and the runner's wrapper looks at the observations.               *)
(***************************************************************************)
EXTENDS TasksTita, TasksAndy, PlayTask, SequencesExt

CONSTANT Robots     \* the packages whose tasks are built
ASSUME RobotsAssumption == Robots \subseteq {"D1", "D1H", "Mini", "Tita", "Andy", "Pace"}

TasksOf(robot) ==
  CASE robot = "D1" -> D1Tasks \cup PlatformTasks
    [] robot = "D1H" -> D1HTasks [] robot = "Mini" -> MiniTasks
    [] robot = "Tita" -> TitaTasks [] robot = "Andy" -> AndyTasks [] robot = "Pace" -> PaceTasks
Tasks == UNION {TasksOf(robot) : robot \in Robots}

VARIABLES
  task,   \* the task that is built
  pc,     \* the next statement
  cfg     \* the configuration under construction
vars == <<task, pc, cfg>>

-----------------------------------------------------------------------------
\* The fields of a configclass: a group that a class declares replaces the
\* group of its bases, before any __post_init__ runs.
Inherited(part, groups) ==
  Part({t \in part.terms : t[1] \notin groups}, {t \in part.zero : t[1] \notin groups},
       {n \in part.needs : n[1][1] \notin groups})
Declared(chain) ==
  LET fields == FoldLeft(LAMBDA part, class : Join(Inherited(part, class.groups), class.part),
                         Plain({}), chain)
  IN [have |-> fields.terms, none |-> {}, zero |-> fields.zero, needs |-> fields.needs,
      history |-> 0, raised |-> FALSE, class |-> NameOf(chain)]
Statements(chain) == FlattenSeq([i \in DOMAIN chain |-> chain[i].post])

\* disable_zero_weight_rewards, called for this class or for every class.
Prunes(c, s) == s.do = "prune" /\ s.only \in {"", c.class}
\* A statement on an attribute of a term that is None or was never declared
\* raises AttributeError; so does reading the weight of a reward that is None.
Fails(c, s) ==
  \/ s.do \in {"use", "weigh", "silence", "point", "swap"} /\ ~(s.on \subseteq c.have)
  \/ Prunes(c, s) /\ ~s.safe /\ (\E t \in c.none : t[1] = "rewards")
Reselected(needs, s) ==
  LET lost(n) == n[1] \in s.on /\ (s.do = "point" \/ n[2] \in s.from)
  IN {n \in needs : ~lost(n)} \cup (s.on \X s.to)
\* What a statement does to the configuration.
Effect(c, s) ==
  CASE s.do = "drop" -> [c EXCEPT !.have = @ \ s.on, !.none = @ \cup s.on]
    [] s.do = "add" ->
         [c EXCEPT !.have = @ \cup s.part.terms, !.none = @ \ s.part.terms,
                   !.zero = (@ \ s.part.terms) \cup s.part.zero,
                   !.needs = {n \in @ : n[1] \notin s.part.terms} \cup s.part.needs]
    [] s.do = "weigh" -> [c EXCEPT !.zero = @ \ s.on]
    [] s.do = "silence" -> [c EXCEPT !.zero = @ \cup s.on]
    [] s.do \in {"point", "swap", "retarget"} -> [c EXCEPT !.needs = Reselected(@, s)]
    [] s.do = "stack" -> [c EXCEPT !.history = s.steps]
    [] Prunes(c, s) ->
         LET silent == c.zero \cap c.have
         IN [c EXCEPT !.have = @ \ silent, !.none = @ \cup silent]
    [] OTHER -> c
Execute(c, s) ==
  IF c.raised \/ Fails(c, s) THEN [c EXCEPT !.raised = TRUE] ELSE Effect(c, s)
Built(chain) == FoldLeft(Execute, Declared(chain), Statements(chain))

-----------------------------------------------------------------------------
Init ==
  /\ task \in Tasks
  /\ pc = 1
  /\ cfg = Declared(task.chain)

Done == pc > Len(Statements(task.chain))
PostInit ==
  /\ ~Done /\ ~cfg.raised
  /\ cfg' = Execute(cfg, Statements(task.chain)[pc])
  /\ pc' = pc + 1
  /\ UNCHANGED task
Next == PostInit
Spec == Init /\ [][Next]_vars

-----------------------------------------------------------------------------
\* No __post_init__ touches a term that a base class has removed, or that the
\* robot it inherits from never had (setattr on None, AttributeError).
Constructs == ~cfg.raised

\* Every term that is left finds what it looks up when its manager resolves
\* it: what is in the scene always, because RewardManager resolves rewards of
\* weight zero too; a command or a reward only if the term is evaluated.
\* Not so D1H: d1h/rough_env_cfg.py 301, 312 and 322 select ".*_base_link",
\* and the only link of that name is merged into base_link, which the pattern
\* does not match.  So exactly the randomisations of D1H's base that are left
\* fail, and none is left in Velocity-Flat-D1H-NP3O-Play alone.
Resolves(need) ==
  need[1] \in cfg.have /\ (need[1] \in cfg.zero => need[2][1] = "scene") => need[2] \in cfg.have
Unresolved == {need[1] : need \in {n \in cfg.needs : ~Resolves(n)}}
TermsResolve ==
  Done => /\ Unresolved = IF task \in D1HTasks THEN OnBase \cap cfg.have ELSE {}
          /\ task \in D1HTasks => (Unresolved = {} <=> task.id = "Velocity-Flat-D1H-NP3O-Play")

\* What the networks of a checkpoint are shaped by.
Shaping == {"policy", "critic", "priv", "scanner", "actions", "costs"}
Layout(c) == [terms |-> {t \in c.have : t[1] \in Shaping}, history |-> c.history]
\* Pairs <<class, class whose checkpoints it loads>> that the docs promise:
\* tita/recovery_env_cfg.py 131-150 and andy/pace/README.md 131-150.
Promised == {<<TitaRecoveryRoughEnvCfg, TitaRecoveryEnvCfg>>,
             <<AndyPaceRobustHeightFlatEnvCfg, AndyPaceHeightFlatEnvCfg>>}
\* A checkpoint of a Mini task is replayed under that task when it is asked
\* for, and one of the three flat tasks whichever task of play.py's table is.
\* (The critic's width that the table has for Stairs-Jump, 32, is not the 233
\* of its networks: play.py never switches to that task.)
Replayed(family, dims) ==
  LET flat == {"Velocity-Flat-Mini", "Recovery-Flat-Mini", "jump-Flat-Mini"}
  IN \A asked \in {family} \cup (IF family \in flat THEN DOMAIN KnownDims ELSE {}) :
       AutoSelect(asked, dims) = family
\* A play task loads the checkpoints of its training task, and a task that is
\* documented to continue from another one loads that one's: the observation
\* groups, actions, costs and history length are the same; play.py selects the
\* task and finds the widths of Mini's networks right.
CheckpointsFit ==
  Done => /\ \A chain \in {task.trained} \cup {p[2] : p \in {q \in Promised : q[1] = task.chain}} :
                Layout(cfg) = Layout(Built(chain))
          /\ task \in MiniTasks =>
               LET dims == Dims(Built(task.trained).have)
               IN Replayed(task.family, dims) /\ Validated(dims, Dims(cfg.have))

Group(group) == {t \in cfg.have : t[1] = group}
\* The wrapper of the runner that the task names accepts its observations
\* (np3o and dreamwaq: a policy history and a critic; dreamwaq: privileged
\* terms; stock PPO: no history), and the iterations that jump_cmd counts are
\* those of the runner.  Not so the platform tasks: they name the NP3O runner
\* and no class of theirs sets a history, so its wrapper raises ValueError.
Accepted ==
  /\ task.runner.kind \in {"np3o", "dreamwaq"} => cfg.history > 1 /\ Group("critic") # {}
  /\ task.runner.kind = "dreamwaq" => Group("priv") # {}
  /\ task.runner.kind = "ppo" => cfg.history = 0
  /\ JumpCmd \subseteq cfg.have => task.runner.steps = 24
RunnerAccepts == Done => (Accepted <=> task \notin PlatformTasks)
=============================================================================
