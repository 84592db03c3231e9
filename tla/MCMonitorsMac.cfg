\* The owner of a macOS Monitor defers interruptions while it waits.
SPECIFICATION PortsSpec
CONSTANTS
  Owner = o
  Peers = {p}
  None = none
  Spurious = TRUE
  Ports = {"macos"}
  Deferring = {"macos"}
INVARIANTS
  NotifyReleases
