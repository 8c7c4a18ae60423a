SPECIFICATION FairSpec
CONSTANTS
  Macs = {m1, m2, m3}
  NoMac = NoMac
  MaxIp = 2
  Unit = 3
  Units = 4
  Lease = 3
INVARIANTS
  TypeOK
  Exclusive
PROPERTIES
  Reclaimed
