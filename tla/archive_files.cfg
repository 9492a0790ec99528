CONSTANTS
  NoArchive = NoArchive
  Files = {f1, f2}
  Archives = {a1, a2}
  Threads = {t1, t2}
SPECIFICATION Spec
SYMMETRY Sym
INVARIANTS
  TypeOK
  NothingLeftBehind
  RowHasObject
  NoDanglingLink
PROPERTIES
  LinkSettles
CHECK_DEADLOCK FALSE
