SPECIFICATION FairSpec
CONSTANTS
  t1 = t1
  t2 = t2
  Tasks = {t1, t2}
  Listing <- Order
  Pollers = {1}
  Setups <- Live
PROPERTIES NoTaskStuck
