SPECIFICATION Spec
CONSTANTS
  m1 = m1
  m2 = m2
  m3 = m3
  p1 = p1
  p2 = p2
  None = None
  Procs = {p1, p2}
  Malware = {m1, m2, m3}
  Home <- TwoHomes
  Extension <- Extensions
  Ids = {1}
  Unencodable = {m2}
  LoadsMayFail = TRUE
  ExaminationsMayFail = TRUE
  MovesMayFail = TRUE
  SavesMayFail = TRUE
  WritesMayTear = TRUE
  MayCrash = TRUE
SYMMETRY Interchangeable
INVARIANTS
  TypeOK
  NothingVanishes
  LostOnlyIfDisturbed
PROPERTY ExitCodeIsContract
