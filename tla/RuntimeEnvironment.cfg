SPECIFICATION Spec
CONSTANTS
  Releases = {r1, r2, r3}
  secret = secret
  route = route
  path = path
  extra = extra
  line = line
  lines = lines
  Empty = empty
  Unset = unset
  None = None
  Names <- MCNames
  Application = {secret, route}
  Required = {secret}
  Reviewed = {path}
  Values = {line, lines, empty}
  FirstLine <- MCFirstLine
  ImageEnvironments <- MCImageEnvironments
CHECK_DEADLOCK FALSE
INVARIANTS
  TypeOK
  StaysDeployable
PROPERTIES
  SettingsNeverChange
