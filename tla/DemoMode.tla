------------------------------ MODULE DemoMode ------------------------------
(***************************************************************************)
(* Demo mode over the registry: handleDemoSeed inserts a demo tenant with  *)
(* one row in each business table, marked demo = true, and enables the     *)
(* modules it shows; handleDemoCleanup deletes the marked rows and puts    *)
(* the modules back to what the latest seed had recorded.  Between them    *)
(* the ordinary handlers work on the demo rows like on any other.  The     *)
(* metadata of a body is stored as it is: it can drop the marker, put it   *)
(* back, or put it on a row that no seed inserted.                         *)
(***************************************************************************)
EXTENDS ModuleRegistry

CONSTANTS
  DemoTheme,     \* the theme the seed assigns: tenant_default
  Edited,        \* rows whose metadata a PATCH replaces in this instance
  Additions      \* rows an administrator adds in this instance

VARIABLES
  rows,          \* each row: "absent", "demo" (marked) or "plain"
  recorded       \* moduleStatesBefore of the latest completed seed that has it

demoVars == <<rows, recorded, regVars>>

DemoTenant == "demo-market"
DemoKeys == Modules \intersect {"marketplace", "seller_kyc", "themes", "catalog", "orders"}

(* The rows a seed inserts (the tenant's SQL schema among them), and those that an *)
(* administrator adds: to a demo row, from which they hang ON DELETE CASCADE, or   *)
(* apart from demo mode.  A return and a refund live like an item, a document of   *)
(* an ordinary application like another order, an isolation plan and a workspace   *)
(* like the tenant.                                                                *)
OrderRows == {"order", "item"}
OtherRows == {"tenant", "seller", "application", "document", "category", "product", "variant"}
Seeded == OrderRows \union OtherRows \union {"schema"}
Rows == Seeded \union Additions
OrderTables == OrderRows \union {"another order", "another item"}
OtherTables == OtherRows \union {"another variant"}

(* Rows whose metadata is a body's: the handlers of products and variants, sellers,    *)
(* applications, categories and tenants take none.                                     *)
Bodies == OrderTables \union {"document"}

(* Only orders, items and documents have a PATCH that replaces metadata.  The modules  *)
(* a seed enables come from the manifest: they, what they depend on and what the       *)
(* demo theme requires are core, and are enabled by a seed or were by the bootstrap,   *)
(* whose own choice is closed under dependencies.                                      *)
ASSUME DemoAssumption ==
  /\ Edited \subseteq OrderRows \union {"document"}
  /\ Additions \subseteq {"another order", "another item", "another variant"}
  /\ DemoKeys \union EnabledFirst \subseteq Core
  /\ \A m \in EnabledFirst : Requires[m] \subseteq EnabledFirst
  /\ \A m \in DemoKeys : Requires[m] \subseteq DemoKeys \union EnabledFirst
  /\ DemoTheme \in Themes /\ {"themes"} \union ThemeNeedsModules[DemoTheme] \subseteq DemoKeys

CascadesTo(x) ==
  CASE x = "order" -> {"item", "another item"}
    [] x = "product" -> {"variant", "another variant"}
    [] x = "application" -> {"document"}
    [] OTHER -> {}
Parent(x) == CHOOSE p \in Seeded : x \in CascadesTo(p)

\* Mutant: the category is forgotten.
MarkedButCategory(where) == {x \in (where \intersect Rows) \ {"category"} : rows[x] = "demo"}
Marked(where) == {x \in where \intersect Rows : rows[x] = "demo"}
WithCascades(gone) == (gone \union UNION {CascadesTo(x) : x \in gone}) \intersect Rows
(* Rows a cleanup has deleted and not committed are locked. *)
Locked == UNION {IF work[r].op = "cleanup" THEN work[r].doomed ELSE {} : r \in Requests}

DemoInit ==
  /\ RegistryInit
  /\ rows = [x \in Rows |-> "absent"]
  /\ recorded = [m \in {} |-> TRUE]
-----------------------------------------------------------------------------
(* handleDemoSeed without a demo tenant: records the flags of its modules and    *)
(* inserts.  With one it only logs a run, which changes nothing here.            *)
SeedBegin(r) ==
  /\ rows["tenant"] = "absent"
  /\ Begins(r, [op |-> "seed", before |-> [m \in DemoKeys |-> enabled[m]]])
  /\ UNCHANGED <<enabled, active, themeRows, rows, recorded>>

(* A row with one of the fixed ids makes an INSERT fail: the seed can only abort. *)
SeedCommit(r) ==
  /\ work[r].op = "seed"
  /\ \A x \in Seeded \ {"document", "schema"} : rows[x] = "absent"
  /\ rows' = [x \in Rows |-> IF x \in Seeded THEN "demo" ELSE rows[x]]
  /\ enabled' = [m \in Modules |-> enabled[m] \/ m \in DemoKeys]
  /\ theme' = [theme EXCEPT ![DemoTenant] = DemoTheme]
  /\ settings' = [settings EXCEPT ![DemoTenant] = DemoTheme]
  /\ recorded' = work[r].before
  /\ Ends(r)
  /\ UNCHANGED active

(* handleDemoCleanup: reads the latest record and deletes the marked orders first. *)
CleanupBegin(r) ==
  /\ Marked(OrderTables) \intersect Locked = {}
  /\ Begins(r, [op |-> "cleanup", before |-> recorded, doomed |-> WithCascades(Marked(OrderTables))])
  /\ UNCHANGED <<enabled, active, themeRows, rows, recorded>>

(* Then the other rows, as they are by now, the schema whoever created it, and the *)
(* flags; COMMIT.  A real tenant's assignment goes when its settings, a body's too, *)
(* carry the marker.                                                               *)
CleanupCommit(r) ==
  /\ work[r].op = "cleanup"
  /\ LET gone == work[r].doomed \union WithCascades(Marked(OtherTables)) \union {"schema"} IN
     /\ rows' = [x \in Rows |-> IF x \in gone THEN "absent" ELSE rows[x]]
     /\ \E unassigned \in {"tenant" \in gone, TRUE} :
          /\ theme' = IF unassigned THEN [theme EXCEPT ![DemoTenant] = NoTheme] ELSE theme
          /\ settings' = IF unassigned THEN [settings EXCEPT ![DemoTenant] = NoTheme] ELSE settings
  /\ enabled' = [m \in Modules |->
                   IF m \in DOMAIN work[r].before THEN work[r].before[m] ELSE enabled[m]]
  /\ Ends(r)
  /\ UNCHANGED <<active, recorded>>

(* The module whose flag the handlers of a row require. *)
Gate(x) ==
  CASE x \in OrderTables -> "orders"
    [] x = "document" -> "marketplace"
    [] OTHER -> "catalog"
GateOpen(x) == Gate(x) \in Modules => enabled[Gate(x)]

(* A PATCH with a metadata of its own (order, item, document). *)
MetadataReplaced(r, x, mark) ==
  /\ AtOnce(r)
  /\ GateOpen(x)
  /\ rows[x] # "absent" /\ x \notin Locked
  /\ rows' = [rows EXCEPT ![x] = mark]
  /\ UNCHANGED <<enabled, active, themeRows, recorded>>

(* An order is created, or a variant or an item under a demo row. *)
RowAdded(r, x, mark) ==
  /\ AtOnce(r)
  /\ GateOpen(x)
  /\ rows[x] = "absent"
  /\ x # "another order" => rows[Parent(x)] # "absent" /\ Parent(x) \notin Locked
  /\ mark = "demo" => x \in Bodies
  /\ rows' = [rows EXCEPT ![x] = mark]
  /\ UNCHANGED <<enabled, active, themeRows, recorded>>

(* handleTenantCreate with the slug demo-market, and its schema. *)
TenantReserved(r) ==
  /\ AtOnce(r)
  /\ rows["tenant"] = "absent"
  /\ rows' = [rows EXCEPT !["tenant"] = "plain",
                         !["schema"] = IF @ = "absent" THEN "plain" ELSE @]
  /\ UNCHANGED <<enabled, active, themeRows, recorded>>

(* A theme is assigned to a tenant that exists, when it is looked up and when the *)
(* row is written (a foreign key).                                                *)
DemoAssignBegin(r, t, th) ==
  /\ t = DemoTenant => rows["tenant"] # "absent"
  /\ AssignBegin(r, t, th)

DemoAssignCommit(r) ==
  /\ work[r].op = "assign" /\ work[r].tenant = DemoTenant => rows["tenant"] # "absent"
  /\ AssignCommit(r)
-----------------------------------------------------------------------------
RegistryStep(r) ==
  \/ \E m \in Modules : EnableBegin(r, m)
  \/ EnableCommit(r)
  \/ \E m \in Modules : Disable(r, m)
  \/ \E p \in Plugins : ActivateBegin(r, p)
  \/ ActivateCommit(r)
  \/ \E p \in Plugins : Deactivate(r, p)
  \/ \E t \in Tenants, th \in Themes : DemoAssignBegin(r, t, th)
  \/ DemoAssignCommit(r)
  \/ \E t \in Tenants : SettingsBegin(r, t)
  \/ SettingsCommit(r)
  \/ RegAbort(r)

DemoStep(r) ==
  \/ SeedBegin(r)
  \/ SeedCommit(r)
  \/ CleanupBegin(r)
  \/ CleanupCommit(r)
  \/ TenantReserved(r)
  \/ \E x \in Edited, mark \in {"demo", "plain"} : MetadataReplaced(r, x, mark)
  \/ \E x \in Additions, mark \in {"demo", "plain"} : RowAdded(r, x, mark)

DemoNext ==
  \E r \in Requests : DemoStep(r) \/ (RegistryStep(r) /\ UNCHANGED <<rows, recorded>>)

DemoSpec == DemoInit /\ [][DemoNext]_demoVars
-----------------------------------------------------------------------------
(* What a step switches on stands on enabled modules when the step is done: a     *)
(* module on its dependencies, a plugin and an assigned theme on the modules they *)
(* require, whoever switches it on: the handlers, the seed, or a cleanup that     *)
(* restores flags.  For requests one at a time; dependencies are checked before   *)
(* the write (OR:2246, 2553, 5751).                                               *)
ActivatedOnEnabledModules ==
  [][~overlap =>
       /\ \A m \in On' \ On : Requires[m] \subseteq On'
       /\ \A p \in Plugins : active'[p] /\ ~active[p] => PluginNeedsModules[p] \subseteq On'
       /\ \A t \in Tenants :
            theme'[t] \notin {theme[t], NoTheme} =>
              {"themes"} \union ThemeNeedsModules[theme'[t]] \subseteq On']_demoVars

(* The modules demo mode switches never stand on a disabled one, however seeds,    *)
(* cleanups (of an old record too) and enables alternate: a record is closed under *)
(* dependencies and a cleanup puts back all of it.  And a tenant's theme settings  *)
(* are settings of its theme.  Requests one at a time: settings that overlap an    *)
(* assignment may stay behind under the other theme.                               *)
RegistryAgrees ==
  ~overlap =>
    /\ \A m \in DemoKeys : enabled[m] => Requires[m] \subseteq On
    /\ \A t \in Tenants : settings[t] = theme[t]

(* Demo mode is there as a whole or not at all: the rows whose marker no body can   *)
(* set are marked exactly while the demo tenant is, through every order of seeds,   *)
(* cleanups, real tenants of that name and edits; and when it goes, nothing marked  *)
(* stays, the rows that clients marked included, so that what stands in the way of  *)
(* the next seed can only be a row that a body has marked or unmarked since, or a   *)
(* real tenant.  Requests one at a time.                                            *)
DemoIsWhole ==
  /\ [](~overlap => \A x \in Seeded \ Bodies : rows[x] = "demo" <=> rows["tenant"] = "demo")
  /\ [][~overlap /\ rows["tenant"] = "demo" /\ rows'["tenant"] # "demo" =>
           \A x \in Rows : rows'[x] # "demo"]_demoVars

(* docs/ui-reality-check.md:13 says that cleanup deletes only the records inside   *)
(* the marker's boundary.                                                          *)
CleanupDeletesOnlyDemo ==
  [][\A x \in Rows : rows[x] = "plain" => rows'[x] # "absent"]_demoVars
=============================================================================
