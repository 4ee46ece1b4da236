SPECIFICATION FairSpec
CONSTANTS
    Thread = {t1, t2}
    File = {text, image}
    Pinned = {text}
    Absent = Absent
    Nobody = Nobody
    Size = 3
    MaxFaults = 3
INVARIANTS DownloadInvariant InstalledIsVerified
PROPERTIES NeverUninstalled RetriesInstall
