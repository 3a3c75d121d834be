\* One import, reset or restore at a time; everything may fail, and the process may die once.
SPECIFICATION Spec
CONSTANTS
    src1 = src1
    src2 = src2
    ovpn1 = ovpn1
    crt1 = crt1
    ovpn2 = ovpn2
    Sources <- MCSources
    NoSource = NoSource
    Files <- MCFiles
    Certs <- MCCerts
    NoCert = NoCert
    Content <- MCContent
    Workers = {w1}
    Patient = TRUE
    Faults = {"fetch", "backup", "restore"}
    MaxBackups = 3
    MaxCrashes = 1
INVARIANTS
    NothingLost
    InPlace
    ListMatchesDisk
PROPERTIES
    RestoreGivesBack
