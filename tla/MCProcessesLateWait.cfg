SPECIFICATION Spec
CONSTANTS
  Main = Main
  System = System
  App = App
  Other = Other
  w = w
  x = x
  a = a
  b = b
  u = u
  v = v
  o = o
  NULL = NULL
  Thread = {Main, w, a, b}
  Process = {System, App, Other}
  Owner <- MCOwner
  Started = {Main, w, a, b}
  Waiters = {w}
  Waitable = {App}
  Enders = {a, b}
  Creators = {}
  Killers = {}
  Targets = {App}
  RegSize = 3
  CountModulus = 8
CHECK_DEADLOCK FALSE
INVARIANT NoWaiterLeft
