SPECIFICATION StoreDriversSpec
CONSTANTS
  MaxAsked = 4
  Collections = {"steps"}
INVARIANT StorageIsAgnostic
CHECK_DEADLOCK FALSE
