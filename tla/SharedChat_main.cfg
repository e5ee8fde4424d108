SPECIFICATION FairSpec
CONSTANTS
  Pages = {p1, p2}
  Users = {anna, ben}
  Stranger = stranger
  NoUser = nouser
  MaxClicks = 2
  MaxNews = 1
INVARIANTS TypeOK CaughtUp ServerHasTheName
PROPERTY PagesComeToAgree
CHECK_DEADLOCK FALSE
