----------------------------- MODULE MCDemoMode -----------------------------
EXTENDS DemoMode, PlatformManifest

(* The properties speak of requests one at a time: behaviours that overlap are left *)
(* out, and leave room for a larger instance.                                       *)
Start == DemoInit /\ ~overlap
MCSpec == Start /\ [][DemoNext]_demoVars

(* A slice of the manifest, without the modules that are enabled from the start, *)
(* and a module that is not core: bootstrap marks all of its own as core.        *)
MCModules == {"marketplace", "seller_kyc", "themes", "orders", "extension"}
MCCore == MCModules \ {"extension"}
MCRequires ==
  [m \in MCModules |-> IF m = "extension" THEN {"orders"} ELSE Dependencies[m] \intersect MCModules]
MCPlugins == {"print_center"}
MCPluginNeedsModules == [p \in MCPlugins |-> PluginRequirements[p] \intersect MCModules]
MCThemes == {"tenant_default", "bilet"}
MCThemeNeedsModules ==
  [t \in MCThemes |-> IF t = "bilet" THEN {"themes", "orders"} ELSE {"themes"}]
=============================================================================
