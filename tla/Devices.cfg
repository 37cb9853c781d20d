SPECIFICATION Spec
CONSTANTS
  p1 = p1
  p2 = p2
  p3 = p3
  h1 = h1
  h2 = h2
  b1 = b1
  b2 = b2
  b3 = b3
  b4 = b4
  nl = nl
  eof = eof
  kill = kill
  bs = bs
  x = x
  Procs = {p1, p2, p3}
  Harts = {h1, h2}
  Hart0 = h1
  Locks <- MCLocks
  None = none
  Blocks = {b1, b2, b3, b4}
  NBUF = 3
  NUM = 8
  INPUT_BUF_SIZE = 2
  UART_TX_BUF_SIZE = 1
  NL = nl
  CtrlD = eof
  CtrlU = kill
  BS = bs
  Erase = erase
  Workloads <- MCWorkloads
INVARIANTS NoPanic IntrMatches SleepersAwaited LinesEdited
PROPERTIES Coherent
