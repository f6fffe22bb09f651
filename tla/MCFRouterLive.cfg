SPECIFICATION FairSpec
CONSTANTS
  Routers = {r1, r2}
  Admins = {a1}
  A = A
  B = B
  Controllers = {A}
  val = val
  about = about
  links = links
  Patterns = {about, links}
  None = None
  aboutPath = aboutPath
  linksPath = linksPath
  Paths = {aboutPath}
  Owner <- MCOwner
  Shape <- MCShape
  Matches <- MCMatches
PROPERTIES RouteReturns UnregReturns
