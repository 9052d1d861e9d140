SPECIFICATION Spec
CONSTANTS
  Records = {r1, r2}
  Configurations <- MCConfigurations
  Spelling <- MCSpelling
  Words <- MCWords
  PlcAddressWords <- MCPlcAddressWords
  Ports <- MCPorts
  ForeignPorts <- MCForeignPorts
  GroupNames <- MCGroupNames
INVARIANTS OnlyUsableRecordsAreRegistered AsynUsersBalanced OnlyConnectedUsersAreQueued
PROPERTY RegisteredRecordsArePolled
