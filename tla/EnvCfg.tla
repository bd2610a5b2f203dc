------------------------------- MODULE EnvCfg ------------------------------
(***************************************************************************)
(* How the environment configurations of tasks/manager_based are built: a  *)
(* configclass declares the terms of its groups and then changes them in   *)
(* __post_init__, after the __post_init__ of its base classes.             *)
(*                                                                         *)
(* A term is a pair <<group, name>>.  What a term computes, its ranges and *)
(* its noise are left out; kept are that it exists, whether its weight is  *)
(* zero, and what it looks up by name when the managers resolve or call    *)
(* it: height scanners, cameras, terrain, links of the robot, commands and *)
(* rewards.  The links of the robot that terms select are terms of the     *)
(* scene: left and right ones count as one, the joint of a wheel as its    *)
(* link, alternatives of which any will do (".*_leg_(1|2)") as one of      *)
(* them, and patterns that match on every robot (".*", all but the feet)   *)
(* are left out.                                                           *)
(***************************************************************************)
EXTENDS Sequences, FiniteSets

\* The terms of a group.
Of(group, names) == {group} \X names
Rewards(names) == Of("rewards", names)
Events(names) == Of("events", names)
Scene(names) == Of("scene", names)

\* A piece of a configuration: its terms, the rewards of weight zero, and
\* the pairs <<term, term it looks up>>.
Part(terms, zero, needs) == [terms |-> terms, zero |-> zero, needs |-> needs]
Plain(terms) == Part(terms, {}, {})
\* Terms that look up every one of these sensors and links.
Selects(terms, names) == terms \X Scene(names)
Join(p, q) == Part(p.terms \cup q.terms, p.zero \cup q.zero, p.needs \cup q.needs)

\* Statements of __post_init__.
Use(terms) == [do |-> "use", on |-> terms]          \* reads or sets an attribute of a term
Drop(terms) == [do |-> "drop", on |-> terms]        \* term = None
Add(part) == [do |-> "add", part |-> part]          \* term = SomeTermCfg(...)
Weigh(terms) == [do |-> "weigh", on |-> terms]      \* term.weight = something not zero
Silence(terms) == [do |-> "silence", on |-> terms]  \* term.weight = 0
Point(terms, to) == [do |-> "point", on |-> terms, to |-> to]  \* term.params[...] = selectors
\* One selector of a term replaced by another; Retarget passes over the terms
\* that are None ("if term is not None").
Swap(terms, from, to) == [do |-> "swap", on |-> terms, from |-> from, to |-> to]
Retarget(terms, from, to) == [do |-> "retarget", on |-> terms, from |-> from, to |-> to]
Stack(n) == [do |-> "stack", steps |-> n]  \* history_length = n, flatten_history_dim = False

\* disable_zero_weight_rewards; a class that is not None-safe asks every
\* reward for its weight.  Prune(name) is called under
\* "if self.__class__.__name__ == name".
PruneAlways(safe) == [do |-> "prune", only |-> "", safe |-> safe]
Prune(name) == [do |-> "prune", only |-> name, safe |-> TRUE]

\* A class: the groups it declares anew, with their terms, and what its
\* __post_init__ does.  A chain lists a class behind all its base classes.
Class(name, groups, part, post) ==
  <<[name |-> name, groups |-> groups, part |-> part, post |-> post]>>
Inherits(base, name, post) == base \o Class(name, {}, Plain({}), post)
NameOf(chain) == chain[Len(chain)].name

\* The runner of a task's scripts, with num_steps_per_env.
Runner(kind, steps) == [kind |-> kind, steps |-> steps]
\* A task's training environment and the one that replays its checkpoints.
Pair(id, train, play, runner) ==
  {[id |-> id, family |-> id, chain |-> train, trained |-> train, runner |-> runner],
   [id |-> id \o "-Play", family |-> id, chain |-> play, trained |-> train, runner |-> runner]}
=============================================================================
