SPECIFICATION HeapSpec
CONSTANTS
  HeapStart = 8
  HeapSize = 14
  NodeSize = 2
  Sizes = {1, 2, 3, 5}
  Aligns = {1, 4}
  MaxLive = 4
INVARIANT FreeIsTheList
