SPECIFICATION Spec
CONSTANTS
  Threads = {t1, t2}
  Fds = {x1, x2, x3}
  MaxSockets = 2
  MaxPanics = 1
  Udp = Udp
  Timer = Timer
  Api = Api
  Yield = Yield
  Nothing = Nothing
INVARIANTS
  NoDangling
  NeverForgotten
  OneHolder
  Silenced
PROPERTIES
  ShutIsClosed
  WriterAdmitted
