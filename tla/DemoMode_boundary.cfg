SPECIFICATION DemoSpec
CONSTANTS
  Requests = {r1}
  Modules <- MCModules
  Core <- MCCore
  Requires <- MCRequires
  EnabledFirst = {}
  Plugins <- MCPlugins
  PluginNeedsModules <- MCPluginNeedsModules
  Themes <- MCThemes
  ThemeNeedsModules <- MCThemeNeedsModules
  Tenants = {"demo-market"}
  NoTheme = NoTheme
  DemoTheme = "tenant_default"
  Edited = {"order"}
  Additions = {"another variant"}
PROPERTIES CleanupDeletesOnlyDemo
CHECK_DEADLOCK FALSE
