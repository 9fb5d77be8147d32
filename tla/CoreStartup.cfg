CONSTANTS
  Member = {m1, m2, m3}
  Missing = missing
SPECIFICATION Spec
INVARIANTS NothingLeft UsersCloseFirst StartsIffPossible
PROPERTIES StartTerminates
