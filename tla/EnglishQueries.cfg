\* ENGLISH queries on small files, with dictionaries, pages and an active list.
\* The user stops typing when the script is over.
CONSTANTS
    Numeric <- MCNumeric
    Literals <- MCLiterals
    Collation <- MCCollation
    UpperCase <- MCUpperCase
    LowerCase <- MCLowerCase
    Templates <- MCTemplates
    Workloads <- MCWorkloads
    PeerRecords <- MCPeerRecords
SPECIFICATION QuerySpec
INVARIANTS
    ReportShowsTheScope
    
    FieldsMeanTheirItems
CHECK_DEADLOCK FALSE
