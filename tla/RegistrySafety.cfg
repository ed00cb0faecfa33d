\* Two concurrent calls over two functions that want the same name.
CONSTANTS
  FunctionIds = {f1, f2}
  Names = {n1}
  Aliases = {a1}
  Codes = {c1, c2}
  Handlers = {h1}
  Clients = {p1, p2}
  MaxVersion = 2
  None = None
SYMMETRY Symmetry
SPECIFICATION Spec
INVARIANTS TypeOK ReferentialIntegrity VersionsContiguous VerifiedVersionStays
PROPERTIES PublishedImmutable AliasWriteTakesEffect ImplementsCatalogue
