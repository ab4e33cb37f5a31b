SPECIFICATION Spec
CONSTANTS
  Key = {1, 2, 3, 4}
  Cap = 4
INVARIANTS Sorted
PROPERTIES KeepsListing
