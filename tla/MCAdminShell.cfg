CONSTANTS
  Registered <- MCRegistered
  Hosts = {"all", "clash", "pages", "twice", "dangling", "unlinked", "anonymous"}
  Rights <- MCRights
  Users = {"root", "reader", "writer"}
  MaxSessions = 3
  MaxLogouts = 2
  MaxEvents = 2
SPECIFICATION Spec
INVARIANTS
  OfferedIsAllowed
  LinksOpenTheirPage
  SignedOutShowsNothing
PROPERTY LoadingEnds
CHECK_DEADLOCK FALSE
