CONSTANTS
  SafeIdents <- Safe
  SafeColumns <- Columns
  Hashes = {"hash"}
  IsoDates = {"today"}
  Numerals <- NumeralOf
  OtherNumbers = {"1e5"}
  MaxInt32 = 3
  MaxInt64 = 7
  Listing <- ListingOf
  SnapshotIds = {"s"}
  Timestamps = {"now"}
  RemotePaths = {"gs"}
  LocalFiles <- Local
  Starts <- StartsOf
  Edits <- EditsOf
  MaxChanges = 2
  Requests <- RequestsOf
  ApiPort = 1
  AdminPort = 1
  LastPort = 3
  Scan = 3
  MaxMeanwhile = 1
SPECIFICATION Spec
INVARIANTS TypeOK ToolAgrees TenantIsolation PlansSound InitPasses ScaffoldServes ManifestAgrees BootsWhatItChecked NoOrphan StopHeard BindsWhatItProbed
PROPERTIES InitKeeps
