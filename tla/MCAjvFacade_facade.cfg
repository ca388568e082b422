CONSTANTS
  None = None
  Anonymous = Anonymous
  Objects = {"a", "copy", "b1", "b2", "named", "anon"}
  URIs = {"a", "b", "k"}
  Keywords = {"even"}
  Formats = {"date"}
  MutatingKeywords = {"transform"}
  Slots = {1, 2, 3, 4}
  Offered <- MCOffered
  Removals = {{"b"}, {"a", "b", "k"}}
  Compiled = {"a", "copy", "named", "anon"}
  Awaited = {"anon"}
  MaxCalls = 5
  Id <- MCId
  Value <- MCValue
  Refs <- MCRefs
  Uses <- MCUses
  Misuses <- MCMisuses
  Served <- MCServed
  Adds <- MCAdds
  MetaAdds <- MCMetaAdds
SPECIFICATION Spec
INVARIANTS CachesAreCurrent PrivateEnginesStayPrivate OwnReferencesResolve
PROPERTIES ValidatorsAreSnapshots
CHECK_DEADLOCK FALSE
