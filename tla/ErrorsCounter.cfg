\* One photo that is finished in the middle of a scrape.
SPECIFICATION Spec
CONSTANTS
  p1 = p1  p2 = p2
  Photos = {p1, p2}
SYMMETRY MCSymmetry
INVARIANTS ErrorsAreRetries
