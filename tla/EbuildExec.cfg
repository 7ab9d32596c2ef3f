\* Three overlays, one of them without ebuild.sh, three ebuilds, two signals, every initial disposition.
SPECIFICATION Spec
CONSTANTS
  e1 = e1
  e2 = e2
  e3 = e3
  Execs <- MCExecs
  UsesSh <- MCUsesSh
  NoExec = NoExec
  MaxRuns = 3
  MaxSignals = 2
INVARIANTS
  DispositionsRestored
  CaughtSignalEnds
  NoTempfileLeft
  ChildAwaited
PROPERTIES
  GetsThrough
