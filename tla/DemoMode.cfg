SPECIFICATION MCSpec
CONSTANTS
  Requests = {r1}
  Modules <- MCModules
  Core <- MCCore
  Requires <- MCRequires
  EnabledFirst = {}
  Plugins <- MCPlugins
  PluginNeedsModules <- MCPluginNeedsModules
  Themes <- MCThemes
  ThemeNeedsModules <- MCThemeNeedsModules
  Tenants = {"demo-market"}
  NoTheme = NoTheme
  DemoTheme = "tenant_default"
  Edited = {"order", "item", "document"}
  Additions = {"another order", "another item", "another variant"}
INVARIANTS RegistryAgrees
PROPERTIES DemoIsWhole ActivatedOnEnabledModules
CHECK_DEADLOCK FALSE
