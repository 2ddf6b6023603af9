SPECIFICATION Spec
CONSTANTS
  p = p q = q r = r s = s
  scene = scene cup = cup jug = jug
  c1 = c1 c2 = c2
  Versions = {p, q, r, s}
  Resources <- MCResources
  Meshes <- MCMeshes
  Files = {scene, cup, jug}
  Generated <- MCGenerated
  Rereading = {cup, jug}
  Compilers = {c1, c2}
  None = None Torn = Torn Blocked = Blocked
  MaxEdits = 2
  MaxFaults = 1
SYMMETRY Symmetry
PROPERTIES CachedIsCurrent ListedExist
