CONSTANTS
    N = 2
    Versions = {"old", "new"}
    New = "new"
    MaxFaults = 3
    MaxTroubles = 1
SPECIFICATION FairInstallSpec
INVARIANTS InstallTypeOK NeverRunnablePartial AllOrNothing NoMemberLost ReturnedIsReady
PROPERTIES AssetsFirst Recovers
