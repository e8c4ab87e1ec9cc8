CONSTANTS
  r1 = r1
  r2 = r2
  w1 = w1
  w2 = w2
  w3 = w3
  s1 = s1
  idA = idA
  idB = idB
  git = git
  other = other
  Session = {s1, idA, idB}
  Run = {r1, r2}
  SessionOf <- MC_SessionOf
  Watched = s1
  Listens = {"message"}
  Resumes = FALSE
  MaxDrops = 1
  Post = {w1, w2, w3}
  IdOf <- MC_IdOf
  RouteOf <- MC_RouteOf
  Blank = {w3}
  Routes = {git}
  MaxPerWindow = 1
  Window = 2
  MaxNow = 2
  MaxActive = 2
SPECIFICATION FairSpec
PROPERTIES
  TailCatchesUp
CHECK_DEADLOCK FALSE
