SPECIFICATION Spec
CONSTANTS
    Modulus = 256
    ByteValues = 4
    BundleMagic = 49
    Slash = 2
    Dot = 1
    Utf8 <- MCUtf8
    ControlMagic = 67
    Disks <- MCDisks
    Plenty = 16
    MaxImage = 20
    MaxCuts = 1
INVARIANTS
    ReportedIsWhole
    ReadsInsideProject
    HostBundlesRead
    HostRequestsAccepted
PROPERTIES
    StoresStayHome
    Reported
CHECK_DEADLOCK FALSE
