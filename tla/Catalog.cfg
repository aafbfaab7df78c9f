CONSTANTS
    Handlers = {h1, h2}
    Shipped <- MCShipped
    Imports <- MCImports
SPECIFICATION Spec
INVARIANTS
    UniqueIds
    SoloIsWhole
PROPERTIES
    AtomicChanges
