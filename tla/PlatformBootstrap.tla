------------------------- MODULE PlatformBootstrap -------------------------
(***************************************************************************)
(* gateway-api/scripts/platform-bootstrap.ts: one transaction creates the  *)
(* administrator, its password and its grant, unless they exist, and       *)
(* upserts the manifest; a run that fails is made once more inside the     *)
(* container.  Nothing unique protects the password and the grant: runs    *)
(* that overlap are kept apart by the row of tenant 'platform', which each *)
(* upserts first.  Then operators enable modules (ModuleRegistry.tla).     *)
(***************************************************************************)
EXTENDS Naturals, PlatformManifest

CONSTANT Boots           \* runs of the script

VARIABLES
  boot,            \* each run: its attempt, step, and what it has read
  admin,           \* rows of the administrator: principal status, passwords, grants
  modulesOn        \* platform_modules.is_enabled; before the rows exist, Unseeded

bootVars == <<boot, admin, modulesOn>>

NoAdmin == [status |-> "none", passwords |-> 0, grants |-> 0]
Unseeded == {"unseeded"}
NotRunning == [step |-> "idle", attempt |-> 1]

(* The principal may have been there before, of whatever status. *)
BootInit ==
  /\ boot = [b \in Boots |-> NotRunning]
  /\ admin \in [status : {"none", "pending_verification", "active", "suspended"},
                passwords : {0}, grants : {0}]
  /\ modulesOn = Unseeded

Holds(b) == boot[b].step = "read"
-----------------------------------------------------------------------------
\* Mutant: the tenant is inserted with DO NOTHING, which locks no row that exists.
BootReadsUnlocked(b) ==
  /\ boot[b].step = "idle"
  /\ boot' = [boot EXCEPT ![b] = [step |-> "read", attempt |-> @.attempt, read |-> admin]]
  /\ UNCHANGED <<admin, modulesOn>>

(* BEGIN, the init SQL and the tenant's row, which waits for whoever holds it; then *)
(* the SELECTs, one snapshot each, that nobody else can change meanwhile.           *)
BootReads(b) ==
  /\ boot[b].step = "idle"
  /\ \A c \in Boots : ~Holds(c)
  /\ boot' = [boot EXCEPT ![b] = [step |-> "read", attempt |-> @.attempt, read |-> admin]]
  /\ UNCHANGED <<admin, modulesOn>>

Missing(n) == IF n = 0 THEN 1 ELSE 0
(* What the transaction adds to the rows, given what it has read. *)
Bootstrapped(read) ==
  [status |-> IF read.status \in {"none", "pending_verification"} THEN "active" ELSE admin.status,
   passwords |-> admin.passwords + Missing(read.passwords),
   grants |-> admin.grants + Missing(read.grants)]

(* The upsert of the modules keeps is_enabled of rows that exist. *)
Seeds(b) ==
  /\ admin' = Bootstrapped(boot[b].read)
  /\ modulesOn' = IF modulesOn = Unseeded THEN EnabledAtBootstrap ELSE modulesOn

(* main: the first failure is answered by a run in the container, a second ends it. *)
Again(b) ==
  boot' = [boot EXCEPT ![b] =
    IF @.attempt = 1 THEN [step |-> "idle", attempt |-> 2] ELSE [step |-> "failed", attempt |-> 2]]

BootCommits(b) ==
  /\ Holds(b)
  /\ boot' = [boot EXCEPT ![b] = [step |-> "done", attempt |-> @.attempt, read |-> @.read]]
  /\ Seeds(b)

(* COMMIT took effect but its acknowledgement was lost. *)
BootCommitLost(b) == Holds(b) /\ Again(b) /\ Seeds(b)

(* ROLLBACK, or no connection, or a deadlock while waiting. *)
BootFails(b) ==
  /\ boot[b].step \in {"idle", "read"}
  /\ Again(b)
  /\ UNCHANGED <<admin, modulesOn>>

(* One round of enabling whatever has its dependencies enabled. *)
EnabledAfterRound(on) == on \union {m \in DOMAIN Dependencies : Dependencies[m] \subseteq on}
OperatorsEnable ==
  /\ modulesOn # Unseeded
  /\ modulesOn' = EnabledAfterRound(modulesOn)
  /\ UNCHANGED <<boot, admin>>

BootNext ==
  \/ \E b \in Boots : BootReads(b) \/ BootCommits(b) \/ BootCommitLost(b) \/ BootFails(b)
  \/ OperatorsEnable
-----------------------------------------------------------------------------
(* However many runs overlap, fail or are repeated, the administrator has one      *)
(* password and one grant, both as soon as a run is done; and who was suspended is *)
(* not made active by a run.                                                       *)
OneAdministrator ==
  /\ admin.passwords <= 1 /\ admin.grants <= 1
  /\ \A b \in Boots : boot[b].step = "done" =>
       /\ admin.passwords = 1 /\ admin.grants = 1
       /\ boot[b].read.status = "suspended" => admin.status = "suspended"

(* The manifest can be worked with: enabling modules whose dependencies are enabled  *)
(* gets stuck only when all are (no cycle, no unknown key), and then themes and      *)
(* plugins have what they require; and a plugin a provider requires may be activated *)
(* only when the provider's module is enabled too, so that it is never of no use.    *)
ManifestWithinReach ==
  modulesOn # Unseeded =>
    /\ EnabledAfterRound(modulesOn) = modulesOn =>
         /\ modulesOn = DOMAIN Dependencies
         /\ \A needed \in ThemeRequirements \union {PluginRequirements[p] : p \in DOMAIN PluginNeeds} :
              needed \subseteq modulesOn
    /\ \A pair \in ProviderRequirements :
         pair[1] # "none" /\ PluginRequirements[pair[1]] \subseteq modulesOn => pair[2] \in modulesOn
=============================================================================
