\* Two peers, so that one may act between any two steps of another, in any order
\* and forever; the sleep may also end without a signal.
SPECIFICATION PortsSpec
CONSTANTS
  Owner = o
  Peers = {p, q}
  None = none
  Spurious = TRUE
  Ports = {"posix", "win32", "macos"}
  Deferring = {"posix", "win32"}
INVARIANTS
  PortsTypeOK
  NotifyReleases
PROPERTIES
  WaitReports
  NothingLost
  ImplementsSticky
