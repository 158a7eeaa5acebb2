SPECIFICATION Spec
CONSTANTS
  m1 = m1
  m2 = m2
  m3 = m3
  p1 = p1
  p2 = p2
  None = None
  Procs = {p1}
  Malware = {m1}
  Home <- OneHome
  Extension <- Extensions
  Ids = {1}
  Unencodable = {m1}
  LoadsMayFail = FALSE
  ExaminationsMayFail = FALSE
  MovesMayFail = FALSE
  SavesMayFail = FALSE
  WritesMayTear = FALSE
  MayCrash = FALSE
INVARIANT NotLost
