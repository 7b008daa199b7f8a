CONSTANTS
  ModuleOrder <- MCModuleOrder
  VariableOrder <- MCVariableOrder
  Defaults <- MCDefaults
  Configurations <- MCConfigurations
  Settable <- MCSettable
  Arguments <- MCArguments
  MaxCommands = 2
SPECIFICATION ConfigSpec
INVARIANTS
  Restored
  NoStaleView
PROPERTIES
  StartsConfigured
CHECK_DEADLOCK FALSE
