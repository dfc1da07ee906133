\* A terminal and a service manager, TCP and UDP, commands and crashes at any moment.
SPECIFICATION FairSpec
CONSTANTS
  Modes = {"interactive", "service"}
  Protocols = {"tcp", "udp"}
INVARIANTS TypeOK FatalNotMasked ExitReleases UninstallLeavesNothing
PROPERTIES StopsWhenAsked FatalRestarts
