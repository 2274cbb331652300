\* Every environment and directory of MCStartup.
SPECIFICATION Spec
CONSTANTS
  Environments <- MCEnvironments
  Directories <- MCDirectories
  Imports <- MCImports
  MaxSignals = 2
\* The process may end.
CHECK_DEADLOCK FALSE
INVARIANTS ServingIsConfigured WiredBeforeUse WelcomeIsTrue
PROPERTIES EndsWhenTold
