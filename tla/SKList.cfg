SPECIFICATION Spec
CONSTANTS
  Keys = {k1, k2, k3}
  PerPage = 1
INVARIANTS TypeOK EveryKeyListed NewestFirst RepeatsExplained
PROPERTIES ListingEnds
