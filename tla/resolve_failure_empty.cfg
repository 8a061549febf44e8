\* One Resolver object, lookups of up to two entries.
CONSTANTS
  Resolvers = {r1}
  MaxEntries = 2
SPECIFICATION Spec
INVARIANT
  ResolveFailureEmpty
