CONSTANTS
  Users = {"ann", "bob"}
  Guests = {"guest"}
  Operators = {"x", "y"}
  Slugs = {"s"}
  Workers = {"h", "i"}
  FirstStores <- MCFirstStores
  Nil = Nil
  AdminTtl = 2
  GuestTtl = 3
  Grace = 1
  Keeps = {0, 3}
  MinKeep = 1
  MaxKeep = 5
  DefaultKeep = 5
  MaxTime = 3
  MaxKeys = 2
  MaxEdits = 2
  MaxDeploys = 2
  MaxRequests = 3
SPECIFICATION MCSpec
CHECK_DEADLOCK FALSE
INVARIANT EditedStoreBoots
PROPERTY AuthorityIsRecent
PROPERTY RetirementStands
