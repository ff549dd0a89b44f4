\* Three sessions, two accounts, one file name and two record names; the daemon
\* gives the table and the port manager one limit.
SPECIFICATION HostSpec
CONSTANTS
    MaxPorts = 3
    MaxSessions = 3
    Ports = {1, 2, 3}
    Accounts = {A, B}
    NoAccount = NoAccount
    Files = {F}
    Records = {r1, r2}
    Values = {v1, v2}
    Absent = Absent
SYMMETRY HostSymmetry
INVARIANTS
    NoOrphanLocks
    OwnersKeepTheirPorts
PROPERTIES
    LockedRecordIsStable
    LocksPersist
    PoolRefinement
