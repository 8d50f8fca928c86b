SPECIFICATION Spec
CONSTANTS
  www = www  mail = mail  z1 = z1  z2 = z2  v1 = v1  v2 = v2
  r1 = r1  jobA = jobA
  Names <- MCNames
  Values <- MCValues
  Ttls = {0, 60, 300, 3600}
  Zones = {z1}
  ZoneOf <- OneZone
  Unwritable = {}
  IpMap <- SameValue
  DefaultTtl = 3600
  Runs = {r1}
  LedgerKeys <- OneDaemonKey
  Job <- OneApplyingJob
  Vendor = "technitium"
  Structured = {}
  SourceRecords <- TwoTtls
  ForeignRecords <- TwoTtls
  MaxSourceEdits = 2
  MaxForeignEdits = 0
  MaxFaults = 0
  MaxCrashes = 0
PROPERTIES NameNeverDark
