\* Two Resolver objects, lookups of up to two entries.
CONSTANTS
  Resolvers = {r1, r2}
  MaxEntries = 2
SPECIFICATION Spec
INVARIANTS
  TypeOK
  ImplOwnership
  ImplOwnershipInductive
