CONSTANTS
  h1 = h1
  h2 = h2
  p0 = p0
  p1 = p1
  NoSend = NoSend
  Handlers <- MCHandlers
  Prefixes <- MCPrefixes
  OurPrefix = p0
  MaxGen = 2
  MemberGens <- MCMemberGens
SPECIFICATION Spec
PROPERTY
  DiskNeverRegresses
