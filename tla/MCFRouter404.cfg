SPECIFICATION Spec
CONSTANTS
  Routers = {r1, r2}
  Admins = {a1}
  A = A
  B = B
  Controllers = {A, B}
  val = val
  about = about
  links = links
  Patterns = {val, about, links}
  None = None
  aboutPath = aboutPath
  linksPath = linksPath
  Paths = {aboutPath}
  Owner <- MCOwner
  Shape <- MCShape
  Matches <- MCMatches
INVARIANT RegisteredIsRouted
