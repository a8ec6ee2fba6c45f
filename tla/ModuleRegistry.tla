--------------------------- MODULE ModuleRegistry ---------------------------
(***************************************************************************)
(* The registry handlers of gateway-api/src/http/operational-runtime.ts:   *)
(* modules are enabled and disabled, plugins activated and deactivated,    *)
(* themes assigned to tenants.  Each checks in JavaScript, against what    *)
(* its transaction has read, that the modules it needs are enabled, and    *)
(* then writes.  A refused request (404, 409) changes no flag and is no    *)
(* action here.                                                            *)
(***************************************************************************)
EXTENDS GatewayRequests

CONSTANTS
  Modules,         \* keys of platform_modules
  Core,            \* the rows with is_core
  Requires,        \* dependencies: Modules -> SUBSET Modules
  EnabledFirst,    \* the modules enabled when the platform was bootstrapped
  Plugins, PluginNeedsModules,
  Themes, ThemeNeedsModules,
  Tenants,         \* tenants a theme may be assigned to
  NoTheme

ASSUME RegistryAssumption ==
  /\ Core \subseteq Modules
  /\ EnabledFirst \subseteq Modules
  /\ Requires \in [Modules -> SUBSET Modules]
  /\ PluginNeedsModules \in [Plugins -> SUBSET Modules]
  /\ ThemeNeedsModules \in [Themes -> SUBSET Modules]
  /\ NoTheme \notin Themes

VARIABLES
  enabled,    \* platform_modules.is_enabled
  active,     \* platform_plugins.is_enabled
  theme,      \* platform_theme_assignments: the theme of a tenant, or NoTheme
  settings    \* its settings: the theme they were written for, or NoTheme

themeRows == <<theme, settings>>
regVars == <<enabled, active, themeRows, work, overlap>>

On == {m \in Modules : enabled[m]}

\* Mutant: one enabled dependency is enough.
NoneMissingAny(needed) == needed = {} \/ needed \intersect On # {}

(* findMissingDependencies finds none. *)
NoneMissing(needed) == needed \subseteq On

RegistryInit ==
  /\ enabled = [m \in Modules |-> m \in EnabledFirst]
  /\ active = [p \in Plugins |-> FALSE]
  /\ theme = [t \in Tenants |-> NoTheme]
  /\ settings = [t \in Tenants |-> NoTheme]
  /\ RequestsInit
-----------------------------------------------------------------------------
(* handleModuleEnable: the row and its dependencies are read, then written. *)
EnableBegin(r, m) ==
  /\ NoneMissing(Requires[m])
  /\ Begins(r, [op |-> "enable", key |-> m])
  /\ UNCHANGED <<enabled, active, themeRows>>

EnableCommit(r) ==
  /\ work[r].op = "enable"
  /\ enabled' = [enabled EXCEPT ![work[r].key] = TRUE]
  /\ Ends(r)
  /\ UNCHANGED <<active, themeRows>>

\* Mutant: core modules may be disabled.
DisableAny(r, m) ==
  /\ AtOnce(r)
  /\ enabled' = [enabled EXCEPT ![m] = FALSE]
  /\ UNCHANGED <<active, themeRows>>

(* handleModuleDisable: reads only is_core, which nobody changes; who depends *)
(* on the module is not asked.                                                *)
Disable(r, m) ==
  /\ AtOnce(r)
  /\ m \notin Core
  /\ enabled' = [enabled EXCEPT ![m] = FALSE]
  /\ UNCHANGED <<active, themeRows>>

(* handlePluginActivate and handlePluginDeactivate. *)
ActivateBegin(r, p) ==
  /\ NoneMissing(PluginNeedsModules[p])
  /\ Begins(r, [op |-> "activate", key |-> p])
  /\ UNCHANGED <<enabled, active, themeRows>>

ActivateCommit(r) ==
  /\ work[r].op = "activate"
  /\ active' = [active EXCEPT ![work[r].key] = TRUE]
  /\ Ends(r)
  /\ UNCHANGED <<enabled, themeRows>>

Deactivate(r, p) ==
  /\ AtOnce(r)
  /\ active' = [active EXCEPT ![p] = FALSE]
  /\ UNCHANGED <<enabled, themeRows>>

(* handleTenantThemeAssign: "themes" is needed besides what the theme requires. *)
AssignBegin(r, t, th) ==
  /\ NoneMissing({"themes"} \union ThemeNeedsModules[th])
  /\ Begins(r, [op |-> "assign", tenant |-> t, key |-> th])
  /\ UNCHANGED <<enabled, active, themeRows>>

Assigned(r) ==
  /\ work[r].op = "assign"
  /\ theme' = [theme EXCEPT ![work[r].tenant] = work[r].key]
  /\ Ends(r)
  /\ UNCHANGED <<enabled, active>>

\* Mutant: the settings of the assignment before stay.
AssignCommitKeepingSettings(r) == Assigned(r) /\ UNCHANGED settings

AssignCommit(r) ==
  /\ Assigned(r)
  /\ settings' = [settings EXCEPT ![work[r].tenant] = work[r].key]

(* handleTenantThemeSettings: the caller's settings are for the theme it finds; an *)
(* UPDATE, of no row when the tenant and its assignment are deleted meanwhile.     *)
SettingsBegin(r, t) ==
  /\ theme[t] # NoTheme
  /\ Begins(r, [op |-> "settings", tenant |-> t, key |-> theme[t]])
  /\ UNCHANGED <<enabled, active, themeRows>>

SettingsCommit(r) ==
  /\ work[r].op = "settings"
  /\ settings' = [settings EXCEPT ![work[r].tenant] =
                    IF theme[work[r].tenant] = NoTheme THEN NoTheme ELSE work[r].key]
  /\ Ends(r)
  /\ UNCHANGED <<enabled, active, theme>>

RegAbort(r) == Aborts(r) /\ UNCHANGED <<enabled, active, themeRows>>
=============================================================================
