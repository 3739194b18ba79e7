CONSTANTS
  tab1 = tab1
  timer = timer
  gossip = gossip
  history = history
  c1 = c1
  w1 = w1
  w2 = w2
  None = None
  Tab = {tab1}
  Timer = timer
  Gossiper = gossip
  Historian = history
  Coordinator = {c1}
  Worker = {w1, w2}
  Initial = {w1}
  MaxScraped = 0
SPECIFICATION Spec
INVARIANT LoopsSurvive
CHECK_DEADLOCK FALSE
