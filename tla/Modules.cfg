\* A console and a web connection that give four commands in all.
CONSTANTS
  builtin = builtin
  shell = shell
  python = python
  user = user
  broken = broken
  console = console
  web = web
  None = None
  Mods = {builtin, shell, python, user, broken}
  Handlers = {console, web}
  Webs = {web}
  Defaults <- MCDefaults
  Kind <- MCKind
  Commands <- MCCommands
  Copies <- MCCopies
  Names <- MCNames
  MaxRequests = 4
SPECIFICATION Spec
INVARIANTS RegistriesRight StaleNeedsUnload
PROPERTY EveryRequestExecuted
