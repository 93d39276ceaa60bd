SPECIFICATION Spec
CONSTANTS
  num_items = 3
  Items = {x, y}
  Sizes = {4, 35, 36, 68}
PROPERTY
  WritesInArray
