\* Three processes of one release open a database that has to be migrated.
CONSTANTS
    Processes = {p1, p2, p3}
    OldBinaries = {}
    Backups = {b1}
    NoPath = NoPath
    MaxWrites = 0
    MaxFiles = 1
    MaxBreakdowns = 0
SYMMETRY BackupSymmetry
SPECIFICATION LeaseSpec
INVARIANTS OpenCorporaShare
