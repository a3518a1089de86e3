SPECIFICATION Spec
CONSTANTS
  Settings = {s1, s2}
  Statuses = {preparing, deployed, committed}
  None = None
  Torn = torn
INVARIANTS
  TypeOK
  ReadersFindTheLastWrite
  SettingsBehindRecord
PROPERTIES
  ImplementsRecordStore
