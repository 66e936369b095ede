CONSTANTS
  v1 = v1
  v2 = v2
  p1 = p1
  p2 = p2
  Hole = Hole
  Texts <- MCTexts
  DefaultProfile <- MCDefaultProfile
  Processes = {p1, p2}
  Versions = {v1, v2}
  Files <- MCFiles
  MsCert = "cert"
  Length <- MCLength
  Deployments <- MCDeployments
  MaxBuilds = 2
SYMMETRY Symmetry
SPECIFICATION StartSpec
CHECK_DEADLOCK FALSE
INVARIANTS BootsWithPool LoadsWhatItEmbeds GlobalsOfRunning
