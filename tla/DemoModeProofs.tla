--------------------------- MODULE DemoModeProofs ---------------------------
(***************************************************************************)
(* Proofs about demo mode and the registry it switches.  Requests one at a *)
(* time are where its properties hold: whoever is at work is alone         *)
(* (Alone), so that what it has read is still so when it writes            *)
(* (ReadsStand).  Then the flags of the demo modules stay closed under     *)
(* dependencies, and so does each record of them (RecordClosed), which is  *)
(* why a cleanup may put back even an old one.                             *)
(***************************************************************************)
EXTENDS DemoMode, TLAPS

(* moduleStatesBefore: of no seed yet, or of one. *)
Records == [{} -> BOOLEAN] \union [DemoKeys -> BOOLEAN]

WorkRows ==
  {Idle}
  \union [op : {"enable"}, key : Modules]
  \union [op : {"activate"}, key : Plugins]
  \union [op : {"assign", "settings"}, tenant : Tenants, key : Themes]
  \union [op : {"seed"}, before : [DemoKeys -> BOOLEAN]]
  \union [op : {"cleanup"}, before : Records, doomed : SUBSET Rows]

TypeOK ==
  /\ work \in [Requests -> WorkRows]
  /\ overlap \in BOOLEAN
  /\ enabled \in [Modules -> BOOLEAN]
  /\ active \in [Plugins -> BOOLEAN]
  /\ theme \in [Tenants -> Themes \union {NoTheme}]
  /\ settings \in [Tenants -> Themes \union {NoTheme}]
  /\ rows \in [Rows -> {"absent", "demo", "plain"}]
  /\ recorded \in Records

-----------------------------------------------------------------------------
(* The invariant of requests one at a time. *)
Quiet == \A q \in Requests : work[q] = Idle
Alone == \A q, r \in Requests : work[q] # Idle /\ work[r] # Idle => q = r

(* What was recorded can be put back: closed under dependencies, and with all that *)
(* was enabled from the first.                                                     *)
RecordClosed(f) ==
  \A m \in DOMAIN f : (m \in EnabledFirst => f[m])
                      /\ (f[m] => \A d \in Requires[m] \intersect DemoKeys : f[d])

FlagsClosed ==
  /\ \A m \in EnabledFirst : enabled[m]
  /\ \A m \in DemoKeys : enabled[m] => Requires[m] \subseteq On

(* What a request has read is still so. *)
Stands(read) ==
  /\ read.op = "enable" => Requires[read.key] \subseteq On
  /\ read.op = "activate" => PluginNeedsModules[read.key] \subseteq On
  /\ read.op = "assign" => {"themes"} \union ThemeNeedsModules[read.key] \subseteq On
  /\ read.op = "settings" => read.key = theme[read.tenant]
  /\ read.op \in {"seed", "cleanup"} => RecordClosed(read.before)
  /\ read.op = "cleanup" => \A x \in OrderTables \intersect Rows : rows[x] = "demo" => x \in read.doomed

ReadsStand == \A r \in Requests : Stands(work[r])

SettingsFollow == \A t \in Tenants : settings[t] = theme[t]
TenantMarked == \A x \in Seeded \ Bodies : rows[x] = "demo" <=> rows["tenant"] = "demo"

SerialInv ==
  ~overlap => /\ Alone
              /\ FlagsClosed
              /\ RecordClosed(recorded)
              /\ ReadsStand
              /\ SettingsFollow
              /\ TenantMarked

(* What DemoIsWhole says of a step. *)
LeavesWhole ==
  rows["tenant"] = "demo" /\ rows'["tenant"] # "demo" => \A x \in Rows : rows'[x] # "demo"

(* What ActivatedOnEnabledModules says of a step. *)
ActivatedOnEnabled ==
  /\ \A m \in On' \ On : Requires[m] \subseteq On'
  /\ \A p \in Plugins : active'[p] /\ ~active[p] => PluginNeedsModules[p] \subseteq On'
  /\ \A t \in Tenants :
       theme'[t] \notin {theme[t], NoTheme} =>
         {"themes"} \union ThemeNeedsModules[theme'[t]] \subseteq On'

DemoInv == TypeOK /\ SerialInv
-----------------------------------------------------------------------------
(* What a request does to the table of work. *)
LEMMA Begun ==
  ASSUME TypeOK, NEW r \in Requests, NEW read \in WorkRows, Begins(r, read)
  PROVE  /\ work' \in [Requests -> WorkRows] /\ overlap' = overlap
         /\ work'[r] = read
         /\ ~overlap => Quiet /\ \A q \in Requests : q # r => work'[q] = Idle
  BY DEF TypeOK, Begins, Free, Quiet

LEMMA Ended ==
  ASSUME TypeOK, NEW r \in Requests, Ends(r)
  PROVE  /\ work' \in [Requests -> WorkRows] /\ overlap' = overlap
         /\ Alone /\ work[r] # Idle => \A q \in Requests : work'[q] = Idle
  <1>1. Idle \in WorkRows  BY DEF WorkRows
  <1> QED  BY <1>1 DEF TypeOK, Ends, Alone

LEMMA Rows4Idle ==
  \A r \in Requests : work[r].op # "idle" => work[r] # Idle
  BY DEF Idle

(* What each operation has read, as a row of work says it. *)
LEMMA WorkShapes ==
  ASSUME TypeOK, NEW r \in Requests
  PROVE  /\ work[r].op = "enable" => work[r].key \in Modules
         /\ work[r].op = "activate" => work[r].key \in Plugins
         /\ work[r].op \in {"assign", "settings"} => work[r].tenant \in Tenants /\ work[r].key \in Themes
         /\ work[r].op = "seed" => work[r].before \in [DemoKeys -> BOOLEAN]
         /\ work[r].op = "cleanup" => work[r].before \in Records /\ work[r].doomed \in SUBSET Rows
  <1>1. work[r] \in WorkRows  BY DEF TypeOK
  <1> QED  BY <1>1 DEF WorkRows, Idle

LEMMA SeedSets ==
  /\ DemoKeys \subseteq Modules /\ Seeded \subseteq Rows
  /\ "tenant" \in Seeded /\ "tenant" \notin OrderRows /\ "tenant" \in OtherRows
  /\ "tenant" \notin Edited /\ Edited \subseteq Rows
  /\ "schema" \in Seeded /\ "schema" # "tenant" /\ "schema" \notin Bodies
  /\ "tenant" \in Seeded \ Bodies /\ Edited \subseteq Bodies
  /\ Rows \subseteq OrderTables \union OtherTables \union {"schema"}
  /\ Additions \intersect Seeded = {}
  BY DemoAssumption
     DEF DemoKeys, Seeded, Rows, OrderRows, OtherRows, OrderTables, OtherTables, Bodies
-----------------------------------------------------------------------------
(* The disjuncts of the next-state relation, one level. *)
DemoCases(r) ==
  \/ \E m \in Modules : EnableBegin(r, m)
  \/ EnableCommit(r)
  \/ \E m \in Modules : Disable(r, m)
  \/ \E p \in Plugins : ActivateBegin(r, p)
  \/ ActivateCommit(r)
  \/ \E p \in Plugins : Deactivate(r, p)
  \/ \E t \in Tenants, th \in Themes : AssignBegin(r, t, th)
  \/ AssignCommit(r)
  \/ \E t \in Tenants : SettingsBegin(r, t)
  \/ SettingsCommit(r)
  \/ RegAbort(r)

(* A body sets the metadata of a row. *)
RowChanged(r) ==
  \/ \E x \in Edited, mark \in {"demo", "plain"} : MetadataReplaced(r, x, mark)
  \/ \E x \in Additions, mark \in {"demo", "plain"} : RowAdded(r, x, mark)

LEMMA DemoSteps ==
  ASSUME DemoNext
  PROVE  \E r \in Requests :
           \/ DemoCases(r) /\ UNCHANGED <<rows, recorded>>
           \/ SeedBegin(r) \/ SeedCommit(r) \/ CleanupBegin(r) \/ CleanupCommit(r)
           \/ TenantReserved(r)
           \/ RowChanged(r)
  <1>1. PICK r \in Requests : DemoStep(r) \/ (RegistryStep(r) /\ UNCHANGED <<rows, recorded>>)
    BY DEF DemoNext
  <1>2. RegistryStep(r) => DemoCases(r)
    BY DEF RegistryStep, DemoCases, DemoAssignBegin, DemoAssignCommit
  <1> QED  BY <1>1, <1>2 DEF DemoStep, RowChanged
-----------------------------------------------------------------------------
(* Types, for requests however they overlap. *)
LEMMA RegistryTypes ==
  ASSUME TypeOK, NEW r \in Requests, DemoCases(r), UNCHANGED <<rows, recorded>>
  PROVE  TypeOK'
<1> DEFINE Goal == TypeOK'
<1> SUFFICES Goal  OBVIOUS
<1>2. ASSUME Ends(r), enabled' \in [Modules -> BOOLEAN], active' \in [Plugins -> BOOLEAN],
             theme' \in [Tenants -> Themes \union {NoTheme}],
             settings' \in [Tenants -> Themes \union {NoTheme}]
      PROVE  Goal
  <2>1. work' \in [Requests -> WorkRows] /\ overlap' = overlap  BY <1>2, Ended
  <2> QED  BY <2>1, <1>2 DEF TypeOK
<1>3. ASSUME NEW read \in WorkRows, Begins(r, read), UNCHANGED <<enabled, active, themeRows>>
      PROVE  Goal
  <2>1. work' \in [Requests -> WorkRows] /\ overlap' = overlap  BY <1>3, Begun
  <2> QED  BY <2>1, <1>3 DEF TypeOK, themeRows
<1>4. ASSUME AtOnce(r), enabled' \in [Modules -> BOOLEAN], active' \in [Plugins -> BOOLEAN],
             UNCHANGED themeRows
      PROVE  Goal
  BY <1>4 DEF TypeOK, AtOnce, themeRows
<1>5. ASSUME NEW m \in Modules, EnableBegin(r, m)  PROVE Goal
  <2>1. [op |-> "enable", key |-> m] \in WorkRows  BY DEF WorkRows
  <2> QED  BY <2>1, <1>5, <1>3 DEF EnableBegin
<1>6. ASSUME EnableCommit(r)  PROVE Goal
  <2>1. enabled' \in [Modules -> BOOLEAN]  BY <1>6, Zenon DEF EnableCommit, TypeOK
  <2> QED  BY <2>1, <1>6, <1>2 DEF EnableCommit, TypeOK, themeRows
<1>7. ASSUME NEW m \in Modules, Disable(r, m)  PROVE Goal
  <2>1. enabled' \in [Modules -> BOOLEAN]  BY <1>7, Zenon DEF Disable, TypeOK
  <2> QED  BY <2>1, <1>7, <1>4 DEF Disable, TypeOK
<1>8. ASSUME NEW p \in Plugins, ActivateBegin(r, p)  PROVE Goal
  <2>1. [op |-> "activate", key |-> p] \in WorkRows  BY DEF WorkRows
  <2> QED  BY <2>1, <1>8, <1>3 DEF ActivateBegin
<1>9. ASSUME ActivateCommit(r)  PROVE Goal
  <2>1. active' \in [Plugins -> BOOLEAN]  BY <1>9, Zenon DEF ActivateCommit, TypeOK
  <2> QED  BY <2>1, <1>9, <1>2 DEF ActivateCommit, TypeOK, themeRows
<1>10. ASSUME NEW p \in Plugins, Deactivate(r, p)  PROVE Goal
  <2>1. active' \in [Plugins -> BOOLEAN]  BY <1>10, Zenon DEF Deactivate, TypeOK
  <2> QED  BY <2>1, <1>10, <1>4 DEF Deactivate, TypeOK, themeRows
<1>11. ASSUME NEW t \in Tenants, NEW th \in Themes, AssignBegin(r, t, th)  PROVE Goal
  <2>1. [op |-> "assign", tenant |-> t, key |-> th] \in WorkRows  BY DEF WorkRows
  <2> QED  BY <2>1, <1>11, <1>3 DEF AssignBegin
<1>12. ASSUME AssignCommit(r)  PROVE Goal
  <2>1. work[r].tenant \in Tenants /\ work[r].key \in Themes
    BY <1>12, WorkShapes DEF AssignCommit, Assigned
  <2> QED  BY <2>1, <1>12, <1>2 DEF AssignCommit, Assigned, TypeOK
<1>13. ASSUME NEW t \in Tenants, SettingsBegin(r, t)  PROVE Goal
  <2>1. theme[t] \in Themes  BY <1>13 DEF SettingsBegin, TypeOK
  <2>2. [op |-> "settings", tenant |-> t, key |-> theme[t]] \in WorkRows  BY <2>1 DEF WorkRows
  <2> QED  BY <2>2, <1>13, <1>3 DEF SettingsBegin
<1>14. ASSUME SettingsCommit(r)  PROVE Goal
  <2>1. work[r].tenant \in Tenants /\ work[r].key \in Themes
    BY <1>14, WorkShapes DEF SettingsCommit
  <2> QED  BY <2>1, <1>14, <1>2 DEF SettingsCommit, TypeOK
<1>15. ASSUME RegAbort(r)  PROVE Goal
  BY <1>15, <1>2 DEF RegAbort, Aborts, TypeOK, themeRows
<1> HIDE DEF Goal
<1> QED
  BY <1>5, <1>6, <1>7, <1>8, <1>9, <1>10, <1>11, <1>12, <1>13, <1>14, <1>15 DEF DemoCases

LEMMA SeedTypes ==
  ASSUME TypeOK, NEW r \in Requests, SeedCommit(r)
  PROVE  TypeOK'
<1>1. work' \in [Requests -> WorkRows] /\ overlap' = overlap  BY Ended DEF SeedCommit
<1>2. enabled' \in [Modules -> BOOLEAN] /\ active' \in [Plugins -> BOOLEAN]
  BY Zenon DEF SeedCommit, TypeOK
<1>3. theme' \in [Tenants -> Themes \union {NoTheme}] /\ settings' \in [Tenants -> Themes \union {NoTheme}]
  BY DemoAssumption DEF SeedCommit, TypeOK
<1>4. rows' \in [Rows -> {"absent", "demo", "plain"}]  BY DEF SeedCommit, TypeOK
<1>5. recorded' \in Records  BY WorkShapes DEF SeedCommit, Records
<1> QED  BY <1>1, <1>2, <1>3, <1>4, <1>5 DEF TypeOK

LEMMA CleanupTypes ==
  ASSUME TypeOK, NEW r \in Requests, CleanupCommit(r)
  PROVE  TypeOK'
<1>1. work' \in [Requests -> WorkRows] /\ overlap' = overlap  BY Ended DEF CleanupCommit
<1>2. active' \in [Plugins -> BOOLEAN] /\ recorded' \in Records  BY DEF CleanupCommit, TypeOK
<1>3. enabled' \in [Modules -> BOOLEAN]
  <2>1. work[r].before \in [{} -> BOOLEAN] \/ work[r].before \in [DemoKeys -> BOOLEAN]
    BY WorkShapes DEF CleanupCommit, Records
  <2>2. \A m \in DOMAIN work[r].before : work[r].before[m] \in BOOLEAN  BY <2>1
  <2> QED  BY <2>2, Zenon DEF CleanupCommit, TypeOK
<1>4. theme' \in [Tenants -> Themes \union {NoTheme}] /\ settings' \in [Tenants -> Themes \union {NoTheme}]
  BY DEF CleanupCommit, TypeOK
<1>5. rows' \in [Rows -> {"absent", "demo", "plain"}]  BY DEF CleanupCommit, TypeOK
<1> QED  BY <1>1, <1>2, <1>3, <1>4, <1>5 DEF TypeOK

(* Rows that change at once: the handlers change the marker of rows whose metadata  *)
(* is a body's, and a real tenant turns rows plain.                                 *)
LEMMA RowsChangeAtOnce ==
  ASSUME TypeOK, NEW r \in Requests, TenantReserved(r) \/ RowChanged(r)
  PROVE  /\ TypeOK' /\ AtOnce(r) /\ UNCHANGED <<enabled, active, themeRows, recorded>>
         /\ rows["tenant"] = "demo" => rows'["tenant"] = "demo"
         /\ TenantMarked => TenantMarked'
<1>0. /\ "tenant" \in Rows /\ "tenant" \notin Edited /\ "tenant" \notin Additions
      /\ "schema" \in Rows /\ "schema" # "tenant"
      /\ \A x \in Edited \union Additions : x \in Rows /\ x \notin Seeded \ Bodies
      /\ Seeded \subseteq Rows /\ "schema" \in Seeded \ Bodies
  BY SeedSets DEF Rows
<1> DEFINE Goal == /\ rows' \in [Rows -> {"absent", "demo", "plain"}]
                   /\ AtOnce(r) /\ UNCHANGED <<enabled, active, themeRows, recorded>>
                   /\ rows["tenant"] = "demo" => rows'["tenant"] = "demo"
                   /\ TenantMarked => TenantMarked'
<1>1. ASSUME TenantReserved(r)  PROVE Goal
  <2>1. /\ rows' \in [Rows -> {"absent", "demo", "plain"}]
        /\ rows["tenant"] = "absent" /\ rows'["tenant"] = "plain"
        /\ \A x \in Rows : x \notin {"tenant", "schema"} => rows'[x] = rows[x]
        /\ rows'["schema"] = IF rows["schema"] = "absent" THEN "plain" ELSE rows["schema"]
    BY <1>0, <1>1 DEF TenantReserved, TypeOK
  <2>2. TenantMarked => TenantMarked'
    BY <1>0, <2>1 DEF TenantMarked
  <2> QED  BY <1>1, <2>1, <2>2 DEF TenantReserved
<1>2. ASSUME NEW x \in Edited \union Additions, NEW mark \in {"demo", "plain"},
             AtOnce(r), UNCHANGED <<enabled, active, themeRows, recorded>>,
             rows' = [rows EXCEPT ![x] = mark]
      PROVE  Goal
  <2>1. /\ rows' \in [Rows -> {"absent", "demo", "plain"}] /\ x # "tenant"
        /\ \A y \in Rows : y # x => rows'[y] = rows[y]
    BY <1>0, <1>2 DEF TypeOK
  <2>2. TenantMarked => TenantMarked'
    BY <1>0, <2>1 DEF TenantMarked
  <2> QED  BY <1>0, <1>2, <2>1, <2>2
<1> HIDE DEF Goal
<1>3. ASSUME RowChanged(r)  PROVE Goal
  BY <1>2, <1>3 DEF RowChanged, MetadataReplaced, RowAdded
<1>4. Goal  BY <1>1, <1>3
<1> QED  BY <1>4 DEF Goal, TypeOK, AtOnce, themeRows

LEMMA TypeStep ==
  ASSUME TypeOK, [DemoNext]_demoVars
  PROVE  TypeOK'
<1>1. CASE UNCHANGED demoVars
  BY <1>1 DEF TypeOK, demoVars, regVars, themeRows
<1>2. ASSUME DemoNext  PROVE TypeOK'
  <2>1. PICK r \in Requests :
           \/ DemoCases(r) /\ UNCHANGED <<rows, recorded>>
           \/ SeedBegin(r) \/ SeedCommit(r) \/ CleanupBegin(r) \/ CleanupCommit(r)
           \/ TenantReserved(r)
           \/ RowChanged(r)
    BY <1>2, DemoSteps
  <2>2. ASSUME SeedBegin(r)  PROVE TypeOK'
    <3>1. [m \in DemoKeys |-> enabled[m]] \in [DemoKeys -> BOOLEAN]
      BY SeedSets, Zenon DEF TypeOK
    <3>2. [op |-> "seed", before |-> [m \in DemoKeys |-> enabled[m]]] \in WorkRows
      BY <3>1 DEF WorkRows
    <3>3. work' \in [Requests -> WorkRows] /\ overlap' = overlap  BY <2>2, <3>2, Begun DEF SeedBegin
    <3> QED  BY <3>3, <2>2 DEF SeedBegin, TypeOK, themeRows
  <2>3. ASSUME CleanupBegin(r)  PROVE TypeOK'
    <3>1. WithCascades(Marked(OrderTables)) \in SUBSET Rows  BY DEF WithCascades
    <3>2. [op |-> "cleanup", before |-> recorded, doomed |-> WithCascades(Marked(OrderTables))] \in WorkRows
      BY <3>1 DEF WorkRows, TypeOK
    <3>3. work' \in [Requests -> WorkRows] /\ overlap' = overlap  BY <2>3, <3>2, Begun DEF CleanupBegin
    <3> QED  BY <3>3, <2>3 DEF CleanupBegin, TypeOK, themeRows
  <2> QED  BY <2>1, <2>2, <2>3, RegistryTypes, SeedTypes, CleanupTypes, RowsChangeAtOnce
<1> QED  BY <1>1, <1>2
-----------------------------------------------------------------------------
(* Requests one at a time. *)
LEMMA QuietStands ==
  ASSUME \A q \in Requests : work'[q] = Idle
  PROVE  Alone' /\ ReadsStand'
  BY DEF Alone, ReadsStand, Stands, Idle

LEMMA SerialBegin ==
  ASSUME DemoInv, ~overlap, NEW r \in Requests, NEW read \in WorkRows, Begins(r, read),
         Stands(read), UNCHANGED <<enabled, active, themeRows, rows, recorded>>
  PROVE  SerialInv' /\ ActivatedOnEnabled
<1>1. /\ overlap' = overlap /\ work'[r] = read
      /\ \A q \in Requests : q # r => work'[q] = Idle
  BY Begun DEF DemoInv
<1>2. On' = On  BY DEF On
<1>3. Alone'  BY <1>1 DEF Alone
<1>4. ReadsStand'
  <2> SUFFICES ASSUME NEW q \in Requests  PROVE Stands(work[q])'  BY DEF ReadsStand
  <2>1. CASE q = r
    BY <1>1, <1>2, <2>1 DEF Stands, themeRows, RecordClosed
  <2>2. CASE q # r
    BY <1>1, <2>2 DEF Stands, Idle
  <2> QED  BY <2>1, <2>2
<1>5. ActivatedOnEnabled  BY <1>2 DEF ActivatedOnEnabled, themeRows
<1>6. (FlagsClosed /\ RecordClosed(recorded) /\ SettingsFollow /\ TenantMarked)'
  BY <1>2 DEF DemoInv, SerialInv, FlagsClosed, RecordClosed, SettingsFollow, TenantMarked, themeRows
<1> QED  BY <1>3, <1>4, <1>5, <1>6 DEF SerialInv

(* A step that leaves no request at work. *)
LEMMA SerialEnd ==
  ASSUME DemoInv, ~overlap, NEW r \in Requests, Ends(r), work[r] # Idle
  PROVE  Alone' /\ ReadsStand'
<1>1. Alone  BY DEF DemoInv, SerialInv
<1>2. \A q \in Requests : work'[q] = Idle  BY <1>1, Ended DEF DemoInv
<1> QED  BY <1>2, QuietStands

LEMMA SerialAtOnce ==
  ASSUME DemoInv, ~overlap, NEW r \in Requests, AtOnce(r)
  PROVE  Alone' /\ ReadsStand'
<1>1. \A q \in Requests : work'[q] = Idle  BY DEF AtOnce, Free
<1> QED  BY <1>1, QuietStands

(* What stands: rows and record are not touched by the registry. *)
LEMMA RowsKept ==
  ASSUME DemoInv, ~overlap, UNCHANGED <<rows, recorded>>
  PROVE  RecordClosed(recorded)' /\ TenantMarked'
  BY DEF DemoInv, SerialInv, RecordClosed, TenantMarked

(* More modules are on, and what came on stands on enabled ones. *)
LEMMA MoreOn ==
  ASSUME DemoInv, ~overlap, On \subseteq On', \A m \in On' \ On : Requires[m] \subseteq On'
  PROVE  FlagsClosed'
<1>1. \A m \in EnabledFirst : m \in Modules  BY RegistryAssumption
<1>2. \A m \in Modules : (m \in On <=> enabled[m]) /\ (m \in On' <=> enabled'[m])
  BY Zenon DEF On
<1>3. \A m \in EnabledFirst : enabled'[m]
  BY <1>1, <1>2 DEF DemoInv, SerialInv, FlagsClosed
<1>4. \A m \in DemoKeys : enabled'[m] => Requires[m] \subseteq On'
  BY <1>2, SeedSets DEF DemoInv, SerialInv, FlagsClosed
<1> QED  BY <1>3, <1>4 DEF FlagsClosed

LEMMA ModuleSteps ==
  ASSUME DemoInv, ~overlap, NEW r \in Requests, EnableCommit(r) \/ \E m \in Modules : Disable(r, m),
         UNCHANGED <<rows, recorded>>
  PROVE  SerialInv' /\ ActivatedOnEnabled
<1>1. RecordClosed(recorded)' /\ TenantMarked'  BY RowsKept
<1>2. CASE EnableCommit(r)
  <2> DEFINE k == work[r].key
  <2>1. k \in Modules /\ work[r].op = "enable" /\ work[r] # Idle
    BY <1>2, WorkShapes, Rows4Idle DEF EnableCommit, DemoInv
  <2>2. Requires[k] \subseteq On  BY <2>1 DEF DemoInv, SerialInv, ReadsStand, Stands
  <2>3. \A m \in Modules : enabled'[m] <=> enabled[m] \/ m = k
    BY <1>2, <2>1, Zenon DEF EnableCommit, DemoInv, TypeOK
  <2>4. On' = On \union {k}  BY <2>1, <2>3 DEF On
  <2>5. \A m \in On' \ On : Requires[m] \subseteq On'  BY <2>2, <2>4
  <2>6. FlagsClosed'  BY <2>4, <2>5, MoreOn
  <2>7. Alone' /\ ReadsStand'  BY <1>2, <2>1, SerialEnd DEF EnableCommit
  <2>8. SettingsFollow' /\ ActivatedOnEnabled
    BY <1>2, <2>5 DEF EnableCommit, themeRows, SettingsFollow, ActivatedOnEnabled, DemoInv, SerialInv
  <2> QED  BY <1>1, <2>6, <2>7, <2>8 DEF SerialInv
<1>3. ASSUME NEW k \in Modules, Disable(r, k)
      PROVE  SerialInv' /\ ActivatedOnEnabled
  <2>1. k \notin Core  BY <1>3 DEF Disable
  <2>2. \A m \in Modules : enabled'[m] <=> enabled[m] /\ m # k
    BY <1>3, Zenon DEF Disable, DemoInv, TypeOK
  <2>3. On' = On \ {k}  BY <2>2 DEF On
  <2>4. FlagsClosed'
    <3>1. \A m \in EnabledFirst : enabled'[m]
      BY <2>1, <2>2, DemoAssumption, RegistryAssumption DEF DemoInv, SerialInv, FlagsClosed
    <3>2. \A m \in DemoKeys : enabled'[m] => Requires[m] \subseteq On'
      BY <2>1, <2>2, <2>3, DemoAssumption, SeedSets DEF DemoInv, SerialInv, FlagsClosed
    <3> QED  BY <3>1, <3>2 DEF FlagsClosed
  <2>5. Alone' /\ ReadsStand'  BY <1>3, SerialAtOnce DEF Disable
  <2>6. SettingsFollow' /\ ActivatedOnEnabled
    BY <1>3, <2>3 DEF Disable, themeRows, SettingsFollow, ActivatedOnEnabled, DemoInv, SerialInv
  <2> QED  BY <1>1, <2>4, <2>5, <2>6 DEF SerialInv
<1> QED  BY <1>2, <1>3

(* Steps that switch no module. *)
LEMMA OtherFlagSteps ==
  ASSUME DemoInv, ~overlap, NEW r \in Requests,
         \/ ActivateCommit(r) \/ AssignCommit(r) \/ SettingsCommit(r) \/ RegAbort(r)
         \/ \E p \in Plugins : Deactivate(r, p),
         UNCHANGED <<rows, recorded>>
  PROVE  SerialInv' /\ ActivatedOnEnabled
<1>1. RecordClosed(recorded)' /\ TenantMarked'  BY RowsKept
<1>2. ASSUME enabled' = enabled, Alone', ReadsStand', SettingsFollow',
             \A p \in Plugins : active'[p] /\ ~active[p] => PluginNeedsModules[p] \subseteq On,
             \A t \in Tenants : theme'[t] \notin {theme[t], NoTheme} =>
                                 {"themes"} \union ThemeNeedsModules[theme'[t]] \subseteq On
      PROVE  SerialInv' /\ ActivatedOnEnabled
  <2>1. On' = On  BY <1>2 DEF On
  <2>2. FlagsClosed'  BY <2>1, MoreOn
  <2>3. ActivatedOnEnabled  BY <1>2, <2>1 DEF ActivatedOnEnabled
  <2> QED  BY <1>1, <1>2, <2>2, <2>3 DEF SerialInv
<1>3. CASE ActivateCommit(r)
  <2> DEFINE k == work[r].key
  <2>1. k \in Plugins /\ work[r].op = "activate" /\ work[r] # Idle
    BY <1>3, WorkShapes, Rows4Idle DEF ActivateCommit, DemoInv
  <2>2. PluginNeedsModules[k] \subseteq On  BY <2>1 DEF DemoInv, SerialInv, ReadsStand, Stands
  <2>3. \A p \in Plugins : active'[p] /\ ~active[p] => p = k
    BY <1>3, Zenon DEF ActivateCommit, DemoInv, TypeOK
  <2>4. Alone' /\ ReadsStand'  BY <1>3, <2>1, SerialEnd DEF ActivateCommit
  <2>5. SettingsFollow' /\ theme' = theme /\ enabled' = enabled
    BY <1>3 DEF ActivateCommit, themeRows, SettingsFollow, DemoInv, SerialInv
  <2> QED  BY <1>2, <2>2, <2>3, <2>4, <2>5
<1>4. CASE AssignCommit(r)
  <2> DEFINE k == work[r].key
             u == work[r].tenant
  <2>1. k \in Themes /\ u \in Tenants /\ work[r].op = "assign" /\ work[r] # Idle
    BY <1>4, WorkShapes, Rows4Idle DEF AssignCommit, Assigned, DemoInv
  <2>2. {"themes"} \union ThemeNeedsModules[k] \subseteq On
    BY <2>1 DEF DemoInv, SerialInv, ReadsStand, Stands
  <2>3. \A t \in Tenants : /\ theme'[t] = IF t = u THEN k ELSE theme[t]
                           /\ settings'[t] = IF t = u THEN k ELSE settings[t]
    BY <1>4, <2>1 DEF AssignCommit, Assigned, DemoInv, TypeOK
  <2>4. Alone' /\ ReadsStand'  BY <1>4, <2>1, SerialEnd DEF AssignCommit, Assigned
  <2>5. SettingsFollow'  BY <2>3 DEF SettingsFollow, DemoInv, SerialInv
  <2>6. active' = active /\ enabled' = enabled  BY <1>4 DEF AssignCommit, Assigned
  <2>7. \A t \in Tenants : theme'[t] \notin {theme[t], NoTheme} =>
                            {"themes"} \union ThemeNeedsModules[theme'[t]] \subseteq On
    BY <2>2, <2>3
  <2> QED  BY <1>2, <2>4, <2>5, <2>6, <2>7
<1>5. CASE SettingsCommit(r)
  <2> DEFINE u == work[r].tenant
  <2>1. u \in Tenants /\ work[r].op = "settings" /\ work[r] # Idle
    BY <1>5, WorkShapes, Rows4Idle DEF SettingsCommit, DemoInv
  <2>2. work[r].key = theme[u]  BY <2>1 DEF DemoInv, SerialInv, ReadsStand, Stands
  <2>3. SettingsFollow'
    BY <1>5, <2>1, <2>2 DEF SettingsCommit, SettingsFollow, DemoInv, SerialInv, TypeOK
  <2>4. Alone' /\ ReadsStand'  BY <1>5, <2>1, SerialEnd DEF SettingsCommit
  <2> QED  BY <1>2, <1>5, <2>3, <2>4 DEF SettingsCommit
<1>6. CASE RegAbort(r)
  <2>1. Alone' /\ ReadsStand'  BY <1>6, SerialEnd DEF RegAbort, Aborts
  <2>2. SettingsFollow'  BY <1>6 DEF RegAbort, themeRows, SettingsFollow, DemoInv, SerialInv
  <2> QED  BY <1>2, <1>6, <2>1, <2>2 DEF RegAbort, themeRows
<1>7. ASSUME NEW k \in Plugins, Deactivate(r, k)
      PROVE  SerialInv' /\ ActivatedOnEnabled
  <2>1. Alone' /\ ReadsStand'  BY <1>7, SerialAtOnce DEF Deactivate
  <2>2. \A p \in Plugins : active'[p] => active[p]
    BY <1>7, Zenon DEF Deactivate, DemoInv, TypeOK
  <2>3. SettingsFollow'  BY <1>7 DEF Deactivate, themeRows, SettingsFollow, DemoInv, SerialInv
  <2> QED  BY <1>2, <1>7, <2>1, <2>2, <2>3 DEF Deactivate, themeRows
<1> QED  BY <1>3, <1>4, <1>5, <1>6, <1>7

LEMMA RegistryBegins ==
  ASSUME DemoInv, ~overlap, NEW r \in Requests,
         \/ \E m \in Modules : EnableBegin(r, m)
         \/ \E p \in Plugins : ActivateBegin(r, p)
         \/ \E t \in Tenants, th \in Themes : AssignBegin(r, t, th)
         \/ \E t \in Tenants : SettingsBegin(r, t),
         UNCHANGED <<rows, recorded>>
  PROVE  SerialInv' /\ ActivatedOnEnabled
<1>1. ASSUME NEW m \in Modules, EnableBegin(r, m)  PROVE SerialInv' /\ ActivatedOnEnabled
  <2> DEFINE read == [op |-> "enable", key |-> m]
  <2>1. read \in WorkRows  BY DEF WorkRows
  <2>2. Stands(read)  BY <1>1 DEF Stands, EnableBegin, NoneMissing
  <2>3. Begins(r, read) /\ UNCHANGED <<enabled, active, themeRows>>  BY <1>1 DEF EnableBegin
  <2> HIDE DEF read
  <2> QED  BY <2>1, <2>2, <2>3, SerialBegin
<1>2. ASSUME NEW p \in Plugins, ActivateBegin(r, p)  PROVE SerialInv' /\ ActivatedOnEnabled
  <2> DEFINE read == [op |-> "activate", key |-> p]
  <2>1. read \in WorkRows  BY DEF WorkRows
  <2>2. Stands(read)  BY <1>2 DEF Stands, ActivateBegin, NoneMissing
  <2>3. Begins(r, read) /\ UNCHANGED <<enabled, active, themeRows>>  BY <1>2 DEF ActivateBegin
  <2> HIDE DEF read
  <2> QED  BY <2>1, <2>2, <2>3, SerialBegin
<1>3. ASSUME NEW t \in Tenants, NEW th \in Themes, AssignBegin(r, t, th)
      PROVE  SerialInv' /\ ActivatedOnEnabled
  <2> DEFINE read == [op |-> "assign", tenant |-> t, key |-> th]
  <2>1. read \in WorkRows  BY DEF WorkRows
  <2>2. Stands(read)  BY <1>3 DEF Stands, AssignBegin, NoneMissing
  <2>3. Begins(r, read) /\ UNCHANGED <<enabled, active, themeRows>>  BY <1>3 DEF AssignBegin
  <2> HIDE DEF read
  <2> QED  BY <2>1, <2>2, <2>3, SerialBegin
<1>4. ASSUME NEW t \in Tenants, SettingsBegin(r, t)  PROVE SerialInv' /\ ActivatedOnEnabled
  <2> DEFINE read == [op |-> "settings", tenant |-> t, key |-> theme[t]]
  <2>0. theme[t] \in Themes  BY <1>4 DEF SettingsBegin, DemoInv, TypeOK
  <2>1. read \in WorkRows  BY <2>0 DEF WorkRows
  <2>2. Stands(read)  BY DEF Stands
  <2>3. Begins(r, read) /\ UNCHANGED <<enabled, active, themeRows>>  BY <1>4 DEF SettingsBegin
  <2> HIDE DEF read
  <2> QED  BY <2>1, <2>2, <2>3, SerialBegin
<1> QED  BY <1>1, <1>2, <1>3, <1>4

(* The record of a seed is closed because the flags are. *)
LEMMA SerialSeedBegin ==
  ASSUME DemoInv, ~overlap, NEW r \in Requests, SeedBegin(r)
  PROVE  SerialInv' /\ ActivatedOnEnabled
<1> DEFINE flags == [m \in DemoKeys |-> enabled[m]]
           read == [op |-> "seed", before |-> flags]
<1>1. flags \in [DemoKeys -> BOOLEAN]  BY SeedSets, Zenon DEF DemoInv, TypeOK
<1>2. RecordClosed(flags)
  <2>1. \A m \in DemoKeys : (flags[m] <=> enabled[m]) /\ (m \in On <=> enabled[m])
    BY SeedSets, Zenon DEF On
  <2>2. DOMAIN flags = DemoKeys  OBVIOUS
  <2> HIDE DEF flags
  <2> QED  BY <2>1, <2>2 DEF RecordClosed, DemoInv, SerialInv, FlagsClosed
<1>3. Begins(r, read) /\ UNCHANGED <<enabled, active, themeRows, rows, recorded>>
  BY DEF SeedBegin
<1> HIDE DEF flags
<1>4. read \in WorkRows  BY <1>1 DEF WorkRows
<1>5. Stands(read)  BY <1>2 DEF Stands
<1> HIDE DEF read
<1> QED  BY <1>3, <1>4, <1>5, SerialBegin

LEMMA SerialSeedCommit ==
  ASSUME DemoInv, ~overlap, NEW r \in Requests, SeedCommit(r)
  PROVE  SerialInv' /\ ActivatedOnEnabled
<1>1. work[r].op = "seed" /\ work[r] # Idle  BY Rows4Idle DEF SeedCommit
<1>2. Alone' /\ ReadsStand'  BY <1>1, SerialEnd DEF SeedCommit
<1>3. RecordClosed(recorded)'
  <2>1. RecordClosed(work[r].before)  BY <1>1 DEF DemoInv, SerialInv, ReadsStand, Stands
  <2>2. recorded' = work[r].before  BY DEF SeedCommit
  <2> QED  BY <2>1, <2>2 DEF RecordClosed
<1>4. On' = On \union DemoKeys
  <2>1. \A m \in Modules : enabled'[m] <=> enabled[m] \/ m \in DemoKeys
    BY Zenon DEF SeedCommit
  <2> QED  BY <2>1, SeedSets DEF On
<1>5. EnabledFirst \subseteq On
  BY RegistryAssumption, Zenon DEF On, DemoInv, SerialInv, FlagsClosed
<1>6. \A m \in On' \ On : Requires[m] \subseteq On'
  BY <1>4, <1>5, DemoAssumption
<1>7. FlagsClosed'  BY <1>4, <1>6, MoreOn
<1>8. SettingsFollow'  BY DEF SeedCommit, SettingsFollow, DemoInv, SerialInv, TypeOK
<1>9. TenantMarked'  BY SeedSets DEF SeedCommit, TenantMarked
<1>10. \A t \in Tenants : theme'[t] \in {theme[t], DemoTheme}
  BY DEF SeedCommit, DemoInv, TypeOK
<1>11. active' = active  BY DEF SeedCommit
<1>12. ActivatedOnEnabled
  BY <1>4, <1>6, <1>10, <1>11, DemoAssumption DEF ActivatedOnEnabled
<1> QED  BY <1>2, <1>3, <1>7, <1>8, <1>9, <1>12 DEF SerialInv

LEMMA SerialCleanupBegin ==
  ASSUME DemoInv, ~overlap, NEW r \in Requests, CleanupBegin(r)
  PROVE  SerialInv' /\ ActivatedOnEnabled
<1> DEFINE doomed == WithCascades(Marked(OrderTables))
           read == [op |-> "cleanup", before |-> recorded, doomed |-> doomed]
<1>1. doomed \in SUBSET Rows  BY DEF WithCascades
<1>2. \A x \in OrderTables \intersect Rows : rows[x] = "demo" => x \in doomed
  BY DEF WithCascades, Marked
<1>3. Begins(r, read) /\ UNCHANGED <<enabled, active, themeRows, rows, recorded>>
  BY DEF CleanupBegin
<1> HIDE DEF doomed
<1>4. read \in WorkRows  BY <1>1 DEF WorkRows, DemoInv, TypeOK
<1>5. Stands(read)  BY <1>2 DEF Stands, DemoInv, SerialInv
<1> HIDE DEF read
<1> QED  BY <1>3, <1>4, <1>5, SerialBegin

(* A cleanup deletes whatever is marked: orders when it begins, the rest at the end. *)
LEMMA CleanupLeavesNone ==
  ASSUME DemoInv, ~overlap, NEW r \in Requests, CleanupCommit(r)
  PROVE  \A x \in Rows : rows'[x] # "demo"
<1>1. work[r].op = "cleanup"  BY DEF CleanupCommit
<1> SUFFICES ASSUME NEW x \in Rows, rows[x] = "demo"
             PROVE  rows'[x] = "absent"
  BY DEF CleanupCommit
<1>2. x \in OrderTables \union OtherTables \union {"schema"}  BY SeedSets
<1>3. x \in OrderTables => x \in work[r].doomed
  BY <1>1 DEF DemoInv, SerialInv, ReadsStand, Stands
<1>4. x \in OtherTables => x \in WithCascades(Marked(OtherTables))  BY DEF WithCascades, Marked
<1> QED  BY <1>2, <1>3, <1>4 DEF CleanupCommit

(* A cleanup that puts back a closed record leaves the flags closed. *)
LEMMA SerialCleanupCommit ==
  ASSUME DemoInv, ~overlap, NEW r \in Requests, CleanupCommit(r)
  PROVE  SerialInv' /\ ActivatedOnEnabled
<1> DEFINE f == work[r].before
<1>1. work[r].op = "cleanup" /\ work[r] # Idle  BY Rows4Idle DEF CleanupCommit
<1>2. Alone' /\ ReadsStand'  BY <1>1, SerialEnd DEF CleanupCommit
<1>3. RecordClosed(recorded)'
  BY DEF CleanupCommit, RecordClosed, DemoInv, SerialInv
<1>4. f \in Records  BY <1>1, WorkShapes DEF DemoInv
<1>5. DOMAIN f = {} \/ DOMAIN f = DemoKeys  BY <1>4 DEF Records
<1>6. RecordClosed(f)  BY <1>1 DEF DemoInv, SerialInv, ReadsStand, Stands
<1>7. \A m \in Modules : enabled'[m] = IF m \in DOMAIN f THEN f[m] ELSE enabled[m]
  BY DEF CleanupCommit
<1> HIDE DEF f
<1>8. \A m \in EnabledFirst : m \in Modules /\ enabled'[m]
  BY <1>6, <1>7, RegistryAssumption, Zenon DEF RecordClosed, DemoInv, SerialInv, FlagsClosed
<1>9. EnabledFirst \subseteq On'  BY <1>8, Zenon DEF On
<1>10. \A m \in DemoKeys : enabled'[m] => Requires[m] \subseteq On'
  <2> SUFFICES ASSUME NEW m \in DemoKeys, enabled'[m], NEW d \in Requires[m]
               PROVE  d \in On'
    OBVIOUS
  <2>1. m \in Modules /\ d \in DemoKeys \union EnabledFirst /\ d \in Modules
    BY DemoAssumption, RegistryAssumption, SeedSets
  <2>2. CASE d \in EnabledFirst  BY <1>9, <2>2
  <2>3. CASE d \in DemoKeys /\ DOMAIN f = DemoKeys
    <3>1. f[m]  BY <1>7, <2>1, <2>3, Zenon
    <3>2. f[d]  BY <1>6, <2>3, <3>1 DEF RecordClosed
    <3>3. enabled'[d]  BY <1>7, <2>1, <2>3, <3>2, Zenon
    <3> QED  BY <2>1, <3>3, Zenon DEF On
  <2>4. CASE d \in DemoKeys /\ DOMAIN f = {}
    <3>1. enabled[m]  BY <1>7, <2>1, <2>4, Zenon
    <3>2. enabled[d]  BY <3>1, Zenon DEF DemoInv, SerialInv, FlagsClosed, On
    <3>3. enabled'[d]  BY <1>7, <2>1, <2>4, <3>2, Zenon
    <3> QED  BY <2>1, <3>3, Zenon DEF On
  <2> QED  BY <1>5, <2>1, <2>2, <2>3, <2>4
<1>11. FlagsClosed'  BY <1>8, <1>10 DEF FlagsClosed
<1>12. \A m \in On' \ On : m \in DemoKeys /\ enabled'[m]
  <2>1. \A m \in Modules : m \notin DOMAIN f => (enabled'[m] <=> enabled[m])  BY <1>7, Zenon
  <2>2. \A m : (m \in On <=> m \in Modules /\ enabled[m]) /\ (m \in On' <=> m \in Modules /\ enabled'[m])
    BY Zenon DEF On
  <2> QED  BY <1>5, <2>1, <2>2
<1>13. SettingsFollow' /\ active' = active
       /\ \A t \in Tenants : theme'[t] \in {theme[t], NoTheme}
  BY DEF CleanupCommit, SettingsFollow, DemoInv, SerialInv, TypeOK
<1>14. ActivatedOnEnabled
  BY <1>10, <1>12, <1>13 DEF ActivatedOnEnabled
<1>15. \A x \in Rows : rows'[x] # "demo"  BY CleanupLeavesNone
<1>16. TenantMarked'  BY <1>15, SeedSets DEF TenantMarked
<1> QED  BY <1>2, <1>3, <1>11, <1>13, <1>14, <1>16 DEF SerialInv

LEMMA SerialRowsStep ==
  ASSUME DemoInv, ~overlap, NEW r \in Requests,
         \/ TenantReserved(r)
         \/ RowChanged(r)
  PROVE  SerialInv' /\ ActivatedOnEnabled
<1>1. /\ AtOnce(r) /\ UNCHANGED <<enabled, active, themeRows, recorded>>
      /\ TenantMarked => TenantMarked'
  BY RowsChangeAtOnce DEF DemoInv
<1>2. Alone' /\ ReadsStand'  BY <1>1, SerialAtOnce
<1>3. On' = On  BY <1>1 DEF On
<1>4. FlagsClosed'  BY <1>3, MoreOn
<1>5. TenantMarked'  BY <1>1 DEF DemoInv, SerialInv
<1>6. SettingsFollow' /\ RecordClosed(recorded)' /\ ActivatedOnEnabled
  BY <1>1, <1>3 DEF themeRows, SettingsFollow, RecordClosed, ActivatedOnEnabled, DemoInv, SerialInv
<1> QED  BY <1>2, <1>4, <1>5, <1>6 DEF SerialInv

LEMMA SerialStep ==
  ASSUME DemoInv, ~overlap, [DemoNext]_demoVars
  PROVE  SerialInv' /\ ActivatedOnEnabled
<1>1. ASSUME UNCHANGED demoVars  PROVE SerialInv' /\ ActivatedOnEnabled
  <2>1. UNCHANGED <<work, overlap, enabled, active, theme, settings, rows, recorded>>
    BY <1>1 DEF demoVars, regVars, themeRows
  <2>2. On' = On  BY <2>1 DEF On
  <2>3. Alone' /\ FlagsClosed' /\ RecordClosed(recorded)' /\ SettingsFollow' /\ TenantMarked'
    BY <2>1, <2>2 DEF DemoInv, SerialInv, Alone, FlagsClosed, RecordClosed, SettingsFollow, TenantMarked
  <2>4. ReadsStand'
    BY <2>1, <2>2 DEF DemoInv, SerialInv, ReadsStand, Stands, RecordClosed
  <2> QED  BY <2>1, <2>2, <2>3, <2>4 DEF SerialInv, ActivatedOnEnabled
<1>2. ASSUME DemoNext  PROVE SerialInv' /\ ActivatedOnEnabled
  <2>1. PICK r \in Requests :
           \/ DemoCases(r) /\ UNCHANGED <<rows, recorded>>
           \/ SeedBegin(r) \/ SeedCommit(r) \/ CleanupBegin(r) \/ CleanupCommit(r)
           \/ TenantReserved(r)
           \/ RowChanged(r)
    BY <1>2, DemoSteps
  <2>2. ASSUME DemoCases(r), UNCHANGED <<rows, recorded>>  PROVE SerialInv' /\ ActivatedOnEnabled
    BY <2>2, RegistryBegins, ModuleSteps, OtherFlagSteps DEF DemoCases
  <2> QED
    BY <2>1, <2>2, SerialSeedBegin, SerialSeedCommit, SerialCleanupBegin, SerialCleanupCommit,
       SerialRowsStep
<1> QED  BY <1>1, <1>2

LEMMA DemoInvInit == DemoInit => DemoInv
<1>0. /\ [m \in Modules |-> m \in EnabledFirst] \in [Modules -> BOOLEAN]
      /\ [p \in Plugins |-> FALSE] \in [Plugins -> BOOLEAN]
  <2>1. [m \in Modules |-> m \in EnabledFirst] \in [Modules -> BOOLEAN]
    <3>1. \A m \in Modules : (m \in EnabledFirst) \in BOOLEAN  OBVIOUS
    <3> QED  BY <3>1, Zenon
  <2>2. [p \in Plugins |-> FALSE] \in [Plugins -> BOOLEAN]  OBVIOUS
  <2> QED  BY <2>1, <2>2
<1> SUFFICES ASSUME DemoInit  PROVE DemoInv  OBVIOUS
<1> USE DEF DemoInit, RegistryInit, RequestsInit
<1>1. Idle \in WorkRows  BY DEF WorkRows
<1>2. enabled \in [Modules -> BOOLEAN] /\ active \in [Plugins -> BOOLEAN]
  <2>1. enabled = [m \in Modules |-> m \in EnabledFirst] /\ active = [p \in Plugins |-> FALSE]
    OBVIOUS
  <2> QED  BY <1>0, <2>1
<1>3. recorded \in Records /\ DOMAIN recorded = {}  BY DEF Records
<1>4. TypeOK  BY <1>1, <1>2, <1>3 DEF TypeOK
<1>5. TenantMarked  BY SeedSets DEF TenantMarked
<1>6. \A m \in Modules : enabled[m] <=> m \in EnabledFirst  BY Zenon
<1>7. FlagsClosed
  <2>1. \A m \in EnabledFirst : enabled[m]  BY <1>6, RegistryAssumption
  <2>2. \A m \in DemoKeys : enabled[m] => Requires[m] \subseteq On
    BY <1>6, SeedSets, DemoAssumption, RegistryAssumption, Zenon DEF On
  <2> QED  BY <2>1, <2>2 DEF FlagsClosed
<1>8. RecordClosed(recorded)  BY <1>3 DEF RecordClosed
<1>9. Alone /\ ReadsStand  BY DEF Alone, ReadsStand, Stands, Idle
<1> QED  BY <1>4, <1>5, <1>7, <1>8, <1>9 DEF DemoInv, SerialInv, SettingsFollow

LEMMA DemoInvNext ==
  ASSUME DemoInv, [DemoNext]_demoVars
  PROVE  DemoInv'
<1>1. TypeOK'  BY TypeStep DEF DemoInv
<1>2. overlap' = overlap => SerialInv'
  BY SerialStep DEF SerialInv
<1>3. overlap' = overlap
  <2>1. CASE UNCHANGED demoVars  BY <2>1 DEF demoVars, regVars
  <2>2. CASE DemoNext
    BY <2>2, Zenon DEF DemoNext, DemoStep, RegistryStep, SeedBegin, SeedCommit, CleanupBegin,
       CleanupCommit, TenantReserved, RowChanged, MetadataReplaced, RowAdded, EnableBegin, EnableCommit,
       Disable, ActivateBegin, ActivateCommit, Deactivate, DemoAssignBegin, DemoAssignCommit,
       AssignBegin, AssignCommit, Assigned, SettingsBegin, SettingsCommit, RegAbort, Begins, Ends,
       AtOnce, Aborts
  <2> QED  BY <2>1, <2>2
<1> QED  BY <1>1, <1>2, <1>3 DEF DemoInv

(* Every reachable state of the registry and of demo mode has its type. *)
THEOREM TypeCorrect == DemoSpec => []TypeOK
<1>1. DemoInv /\ [DemoNext]_demoVars => DemoInv'  BY DemoInvNext
<1>2. DemoInv => TypeOK  BY DEF DemoInv
<1> QED  BY DemoInvInit, <1>1, <1>2, PTL DEF DemoSpec

(* However seeds, cleanups and enables alternate, the modules demo mode switches never  *)
(* stand on a disabled one, and a tenant's settings are those of its theme.             *)
THEOREM RegistryStaysClosed == DemoSpec => []RegistryAgrees
<1>1. DemoInv /\ [DemoNext]_demoVars => DemoInv'  BY DemoInvNext
<1>2. DemoInv => RegistryAgrees
  BY DEF DemoInv, SerialInv, FlagsClosed, SettingsFollow, RegistryAgrees
<1> QED  BY DemoInvInit, <1>1, <1>2, PTL DEF DemoSpec

(* When the demo tenant goes, no marked row stays. *)
LEMMA LeaveStep ==
  ASSUME DemoInv, ~overlap, [DemoNext]_demoVars
  PROVE  LeavesWhole
<1>0. "tenant" \in Rows /\ "tenant" \in Seeded  BY SeedSets DEF Rows
<1>1. CASE UNCHANGED rows  BY <1>1 DEF LeavesWhole
<1>2. ASSUME DemoNext  PROVE LeavesWhole
  <2>1. PICK r \in Requests :
           \/ DemoCases(r) /\ UNCHANGED <<rows, recorded>>
           \/ SeedBegin(r) \/ SeedCommit(r) \/ CleanupBegin(r) \/ CleanupCommit(r)
           \/ TenantReserved(r)
           \/ RowChanged(r)
    BY <1>2, DemoSteps
  <2>2. CASE SeedBegin(r) \/ CleanupBegin(r)
    BY <1>1, <2>2 DEF SeedBegin, CleanupBegin
  <2>3. CASE SeedCommit(r)
    BY <1>0, <2>3 DEF SeedCommit, LeavesWhole
  <2>4. CASE CleanupCommit(r)
    BY <2>4, CleanupLeavesNone DEF LeavesWhole
  <2>5. CASE TenantReserved(r) \/ RowChanged(r)
    BY <2>5, RowsChangeAtOnce DEF LeavesWhole, DemoInv
  <2> QED  BY <1>1, <2>1, <2>2, <2>3, <2>4, <2>5
<1> QED  BY <1>1, <1>2 DEF demoVars

(* The demo rows whose marker no body can set are there together or not at all, and    *)
(* when they go, no marked row of anyone stays.                                        *)
THEOREM DemoStaysWhole == DemoSpec => DemoIsWhole
<1>1. DemoInv /\ [DemoNext]_demoVars => DemoInv'  BY DemoInvNext
<1>2. DemoInv => (~overlap => \A x \in Seeded \ Bodies : rows[x] = "demo" <=> rows["tenant"] = "demo")
  BY DEF DemoInv, SerialInv, TenantMarked
<1>3. DemoInv /\ [DemoNext]_demoVars =>
        [~overlap /\ rows["tenant"] = "demo" /\ rows'["tenant"] # "demo" =>
           \A x \in Rows : rows'[x] # "demo"]_demoVars
  <2>1. ASSUME DemoInv, [DemoNext]_demoVars, ~overlap  PROVE LeavesWhole
    BY <2>1, LeaveStep
  <2> QED  BY <2>1 DEF LeavesWhole
<1> QED  BY DemoInvInit, <1>1, <1>2, <1>3, PTL DEF DemoSpec, DemoIsWhole

(* Whatever a step switches on stands on modules that are enabled when it is done, also *)
(* when a seed or a cleanup switches it.                                                *)
THEOREM ActivatedStandsOnEnabled == DemoSpec => ActivatedOnEnabledModules
<1>1. DemoInv /\ [DemoNext]_demoVars => DemoInv'  BY DemoInvNext
<1>2. DemoInv /\ [DemoNext]_demoVars =>
        [~overlap =>
           /\ \A m \in On' \ On : Requires[m] \subseteq On'
           /\ \A p \in Plugins : active'[p] /\ ~active[p] => PluginNeedsModules[p] \subseteq On'
           /\ \A t \in Tenants :
                theme'[t] \notin {theme[t], NoTheme} =>
                  {"themes"} \union ThemeNeedsModules[theme'[t]] \subseteq On']_demoVars
  <2>1. ASSUME DemoInv, [DemoNext]_demoVars, ~overlap  PROVE ActivatedOnEnabled
    BY <2>1, SerialStep
  <2> QED  BY <2>1 DEF ActivatedOnEnabled
<1> QED  BY DemoInvInit, <1>1, <1>2, PTL DEF DemoSpec, ActivatedOnEnabledModules
=============================================================================
