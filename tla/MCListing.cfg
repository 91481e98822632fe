SPECIFICATION FairListingSpec
CONSTANTS
  Key <- MCKeys
  Prefix <- MCPrefixes
  AskedLimit <- MCLimits
  Absent = Absent
  MaxListLimit = 2
  Lister = {l1}
INVARIANT ListingTypeOK
INVARIANT ListsEveryAsciiKey
INVARIANT PagesAscend
INVARIANT StoresAgree
PROPERTY ListingEnds
