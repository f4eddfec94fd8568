CONSTANTS
  Proc = {p1, p2, p3}
  Null = Null
  Wrap = 4
  Fg = fg
  Background = {b1, b2, b3}
  v1 = v1
  v2 = v2
  t1 = t1
  t2 = t2
  t3 = t3
  Parts = {"running"}
SPECIFICATION MCTheftSpec
PROPERTY UsleepProceeds
CHECK_DEADLOCK FALSE
