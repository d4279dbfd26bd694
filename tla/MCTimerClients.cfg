SPECIFICATION ClientSpec
CONSTANTS
  t1 = t1
  t2 = t2
  c1 = c1
  c2 = c2
  Base = 2
  Handles <- TwoTimers
  NoTimer = NoTimer
  Delays = {1, 2}
  Clients <- TwoClients
PROPERTIES
  SecondCancelRefused
