-------------------------- MODULE TerraformRunner --------------------------
(***************************************************************************)
(* TerraformRunner (terraform_runner.py) and the files of the recovery kit *)
(* it works on: resources.tf, imports.tf, the state and the saved plan,    *)
(* together with the organization that a plan reads.  An object is named   *)
(* by its resource address; what it is configured as is a version number.  *)
(*                                                                         *)
(* A plan maps each address it reports on to what terraform would do.  An  *)
(* import whose configuration already says what the dashboard says is      *)
(* harmless; one that differs is an update.                                *)
(***************************************************************************)
EXTENDS Naturals, FiniteSets

CONSTANTS
  Objs,      \* resource addresses
  Rejected,  \* those whose own generated configuration the provider refuses
  MayBeRejected, \* those that a newer provider may refuse as well
  Phantom,   \* those whose generated configuration differs from the state
             \* only in ways that reconciliation can pin
  MaxVersion \* bound: versions of an object

ASSUME ObjsAssumption ==
  /\ IsFiniteSet(Objs)
  /\ Rejected \subseteq Objs /\ MayBeRejected \subseteq Objs /\ Phantom \subseteq Objs
  /\ MaxVersion \in Nat \ {0}

VARIABLES
  live,      \* the organization: version of each object, 0 when absent
  rejected,  \* addresses whose block the installed provider refuses
  state,     \* addresses the terraform state tracks
  config,    \* resources.tf: version its block says, 0 without a block
  pinned,    \* blocks that carry a remediation
  imports,   \* addresses with a block in imports.tf
  saved      \* the saved sync plan, NoPlan when there is no file

kit == <<config, pinned, imports, saved>>

NoPlan == <<>>
Actions == {"no-op", "import", "import update", "update", "create", "delete"}
Mutating == {"import update", "update", "create", "delete"}
Importing == {"import", "import update"}

-----------------------------------------------------------------------------
(* terraform plan, on the addresses "over".                                *)

\* An import block of an object that the state does not track yet.
Pending(over) == (over \cap imports) \ state

\* -generate-config-out: only import targets without a block get one.
Generated(over) ==
  [a \in Objs |-> IF a \in Pending(over) /\ config[a] = 0 THEN live[a] ELSE config[a]]

\* Diagnostics that name a resource: its block is refused, whether the state
\* tracks it or not, or no remote object answers its import.
Failing(over) ==
  {a \in over \cap rejected : Generated(over)[a] # 0} \cup {a \in Pending(over) : live[a] = 0}

\* What terraform reports on: with a block, or tracked and still there.
Planned(over) ==
  {a \in over : Generated(over)[a] # 0 \/ (a \in state /\ live[a] # 0)}

Differs(a, over) ==
  Generated(over)[a] # live[a] \/ a \in Phantom \ pinned

ActionOn(a, over) ==
  CASE a \in state /\ Generated(over)[a] = 0 -> "delete"
    [] a \in state /\ live[a] = 0            -> "create"
    [] a \in state                           -> IF Differs(a, over) THEN "update" ELSE "no-op"
    [] a \in Pending(over)                   -> IF Differs(a, over) THEN "import update"
                                                ELSE "import"
    [] OTHER                                 -> "create"

PlanOf(over) == [a \in Planned(over) |-> ActionOn(a, over)]

Mutations(plan) == {a \in DOMAIN plan : plan[a] \in Mutating}
Updates(plan) == {a \in DOMAIN plan : plan[a] \in {"update", "import update"}}
Imported(plan) == {a \in DOMAIN plan : plan[a] \in Importing}
HasChanges(plan) == \E a \in DOMAIN plan : plan[a] # "no-op"

\* classify_plan: updates whose every difference is provably a phantom.
Remediable(plan, over) ==
  {a \in Updates(plan) \ pinned : a \in Phantom /\ Generated(over)[a] = live[a]}

-----------------------------------------------------------------------------
(* Surgery on the kit's files.                                             *)

\* Mutant: a dropped block leaves the address without an entry.
WithoutEntry(blocks, gone) == [a \in Objs \ gone |-> blocks[a]]

Without(blocks, gone) == [a \in Objs |-> IF a \in gone THEN 0 ELSE blocks[a]]

\* drop_resource_blocks and drop_import_blocks, as _drop_unexpressible and
\* defer_resources call them, from these blocks.
DropFrom(blocks, gone) ==
  /\ config' = Without(blocks, gone)
  /\ pinned' = pinned \ gone
  /\ imports' = imports \ gone
DropFromKit(gone) == DropFrom(config, gone)

\* A plan that fails may have written generated blocks before it did.
LeftBehind(over) == {config, Generated(over)}

\* _prune_baseline: the first half of remove_resources.
PruneBaseline(gone) ==
  /\ config' = Without(config, gone)
  /\ pinned' = pinned \ gone
  /\ UNCHANGED <<live, state, imports, saved>>

\* state rm: the second half.
StateRm(gone) ==
  /\ state' = state \ gone
  /\ UNCHANGED <<live, kit>>

\* A plan that succeeded: what it generated is absorbed into resources.tf.
SavePlan(over) ==
  /\ config' = Generated(over)
  /\ saved' = PlanOf(over)
  /\ UNCHANGED <<live, state, imports>>

\* apply_import_plan verifies a private copy of the saved plan, and refuses
\* unless every action of it is harmless.
GuardHolds == saved # NoPlan /\ Mutations(saved) = {}

\* terraform apply, then both plan files are deleted.
ApplySaved ==
  /\ state' = state \cup Imported(saved)
  /\ saved' = NoPlan
  /\ UNCHANGED <<live, config, pinned, imports>>

\* What an interrupted apply or state rm leaves of the state.
HalfApplied == {state \cup part : part \in SUBSET Imported(saved)}
HalfRemoved(gone) == {state \ part : part \in SUBSET gone}

KitType ==
  /\ live \in [Objs -> 0 .. MaxVersion]
  /\ config \in [Objs -> 0 .. MaxVersion]
  /\ rejected \subseteq Objs /\ state \subseteq Objs /\ pinned \subseteq Objs /\ imports \subseteq Objs
  /\ DOMAIN saved \subseteq Objs
  /\ \A a \in DOMAIN saved : saved[a] \in Actions

=============================================================================
