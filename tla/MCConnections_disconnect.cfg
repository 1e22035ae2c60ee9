SPECIFICATION Spec
CONSTANTS
  Conns = {c1, c2}
  Fds = {4, 5}
  None = None
  MaxUnread = 1
PROPERTIES
  NewcomersNotCondemned
