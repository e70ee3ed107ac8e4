----------------------------- MODULE Migration -----------------------------
(***************************************************************************)
(* A checkpoint that was saved by one version of a loop, resumed with      *)
(* another (checkpoint/migration.py): the compatibility policies, the      *)
(* shortest chain of registered migrations, and the steps they rename.     *)
(***************************************************************************)
EXTENDS Naturals, Sequences, FiniteSets

CONSTANTS
    Version,   \* <<major, minor, pre>>: pre is 1 for a pre-release
    StepName,  \* names of steps
    Executed,  \* the steps that ran before the checkpoint was saved, in order
    Raises,    \* what a migration function may do instead
    MaxEdges   \* bound: migrations registered

ASSUME MigrationAssumption == Executed \in Seq(StepName)

Policies == {"strict", "semver_compatible", "permissive"}

\* what a registered function does: rename one step, or raise
Effect == [old : StepName, new : StepName] \union {Raises}

Edge == {e \in [from : Version, to : Version, effect : Effect] : e.from # e.to}

VARIABLES
    edges,       \* the migrations of the loop
    target,      \* version of the loop, and whether its source hash is the checkpoint's or unknown
    policy,
    checkpoint,  \* the checkpoint that was loaded
    migrated,    \* the copy that migrates
    path,        \* the migrations that are left
    outcome      \* "checking", "migrating", "resumes" or "refused"

migrationVars == <<edges, target, policy, checkpoint, migrated, path, outcome>>

Checkpoint == [ version : Version, executed : Seq(StepName), results : SUBSET StepName,
                context : SUBSET StepName, index : Nat ]

MigrationTypeOK ==
    /\ edges \subseteq Edge
    /\ target \in [version : Version, same_hash : BOOLEAN] /\ policy \in Policies
    /\ checkpoint \in Checkpoint /\ migrated \in Checkpoint
    /\ path \in Seq(Edge)
    /\ outcome \in {"checking", "migrating", "resumes", "refused"}

Elements(s) == {s[i] : i \in DOMAIN s}

\* a checkpoint as the engine saves it: a result for every step that ran; in the
\* context a step's value is under its name, under keys of the step's own choice
\* (a dict or a StepOutput is merged), or nowhere (no output)
MigrationInit ==
    /\ edges = {} /\ path = <<>> /\ outcome = "checking"
    /\ policy \in Policies
    /\ target \in [version : Version, same_hash : BOOLEAN]
    /\ \E v \in Version, context \in SUBSET StepName :
          checkpoint = [ version |-> v, executed |-> Executed, results |-> Elements(Executed),
                         context |-> context, index |-> Len(Executed) ]
    /\ migrated = checkpoint

---------------------------------------------------------------------------
\* one function per pair of versions: registering again replaces it
register(e) ==
    /\ outcome = "checking" /\ Cardinality(edges) < MaxEdges
    /\ edges' = {d \in edges : <<d.from, d.to>> # <<e.from, e.to>>} \union {e}
    /\ UNCHANGED <<target, policy, checkpoint, migrated, path, outcome>>

\* the tuple order of SemVer: an empty pre-release sorts before any other
AtMost(v, w) ==
    \/ v[1] < w[1]
    \/ v[1] = w[1] /\ (v[2] < w[2] \/ (v[2] = w[2] /\ v[3] <= w[3]))

Compatible(v, w) ==
    /\ v[1] = w[1] /\ AtMost(v, w)
    /\ v[1] = 0 => v[2] = w[2]

IsPath(p, from, to) ==
    /\ p # <<>> /\ p[1].from = from /\ p[Len(p)].to = to
    /\ \A i \in 1..(Len(p) - 1) : p[i].to = p[i + 1].from

\* find_path: breadth first, so a shortest chain; which one depends on the order of registration
Paths(from, to) ==
    LET all == {p \in UNION {[1..n -> edges] : n \in 1..Cardinality(edges)} :
                   IsPath(p, from, to)}
    IN {p \in all : \A q \in all : Len(p) <= Len(q)}

Admitted ==
    CASE policy = "strict"            -> FALSE
      [] policy = "semver_compatible" -> Compatible(checkpoint.version, target.version)
      [] policy = "permissive"        -> TRUE

\* check_and_migrate_checkpoint
Check ==
    /\ outcome = "checking"
    /\ LET v == checkpoint.version
           w == target.version
       IN IF v = w /\ target.same_hash
          THEN outcome' = "resumes" /\ UNCHANGED path
          ELSE IF v # w /\ Paths(v, w) # {}
          THEN outcome' = "migrating" /\ path' \in Paths(v, w)
          ELSE outcome' = (IF Admitted THEN "resumes" ELSE "refused") /\ UNCHANGED path
    /\ UNCHANGED <<edges, target, policy, checkpoint, migrated>>

Moved(S, e) == IF e.old \in S THEN (S \ {e.old}) \union {e.new} ELSE S

\* Mutant: the results keep the old name.
RenamedOrder(c, e) ==
    [c EXCEPT !.executed = [i \in DOMAIN @ |-> IF @[i] = e.old THEN e.new ELSE @[i]]]

\* rename_checkpoint_step: the context's value moves only to a key that is free
Renamed(c, e) ==
    [c EXCEPT !.executed = [i \in DOMAIN @ |-> IF @[i] = e.old THEN e.new ELSE @[i]],
              !.results  = Moved(@, e),
              !.context  = IF e.new \in @ THEN @ ELSE Moved(@, e)]

\* migrate_checkpoint: a deep copy goes through the functions one after the other
Migrate ==
    /\ outcome = "migrating" /\ path # <<>>
    /\ LET e == Head(path)
       IN IF e.effect = Raises
          THEN outcome' = "refused" /\ UNCHANGED <<migrated, path>>
          ELSE /\ migrated' = [Renamed(migrated, e.effect) EXCEPT !.version = e.to]
               /\ path' = Tail(path)
               /\ UNCHANGED outcome
    /\ UNCHANGED <<edges, target, policy, checkpoint>>

Finish ==
    /\ outcome = "migrating" /\ path = <<>>
    /\ migrated' = [migrated EXCEPT !.version = target.version, !.index = Len(migrated.executed)]
    /\ outcome' = "resumes"
    /\ UNCHANGED <<edges, target, policy, checkpoint, path>>

MigrationNext == (\E e \in Edge : register(e)) \/ Check \/ Migrate \/ Finish

MigrationSpec == MigrationInit /\ [][MigrationNext]_migrationVars

---------------------------------------------------------------------------
\* What a run resumes from names as executed exactly the steps it has a result
\* for and counts them, and every step the saved context knew by its name is known
\* by its new one, after any chain of renames, one step renamed onto another
\* included; the engine skips by the first, reads the second and resolves
\* references with the third.
ResumeAgrees ==
    outcome = "resumes" =>
        /\ Elements(migrated.executed) = migrated.results
        /\ migrated.index = Len(migrated.executed)
        /\ \A i \in DOMAIN migrated.executed :
              checkpoint.executed[i] \in checkpoint.context =>
                  migrated.executed[i] \in migrated.context
=============================================================================
