CONSTANTS
 Order <- Names
 Paths <- PathInputs
 Contents = {c1, c2}
 Directory = Directory
 MaxDepth = 3
 MaxAdds = 3
SPECIFICATION Spec
INVARIANTS TypeOK Tree AddedKept ListingOK
PROPERTY ImplementsStore
