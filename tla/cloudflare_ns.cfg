SPECIFICATION Spec
CONSTANTS
  Clients <- MCClients
  Servers <- MCServers
  VendorOf <- MCVendorOf
  Conf <- MCConf
  Domains <- MCDomains
  Within <- MCWithin
  Zones <- MCZones
  Names <- MCNames
  ZoneOf <- MCZoneOf
  ZonePlace <- MCZonePlace
  Labels <- MCLabels
  Under <- MCUnder
  Parent <- MCParent
  Data <- MCData
  Forms <- MCForms
  Workloads <- MCWorkloads
  Others <- MCOthers
  InitHeld <- MCInitHeld
  InitZones <- MCInitZones
  ZonePage = 1
  PageSize = 2
  MaxPages = 4
  OnePage = 4
  FirstId = 10
  MaxId = 30
  MaxOthers = 1
  tech = tech
  spare = spare
  cloud = cloud
  site = site
  hole = hole
  org = org
  c1 = c1
  c2 = c2
PROPERTIES NamedValueOnly
CHECK_DEADLOCK FALSE
