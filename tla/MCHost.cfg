SPECIFICATION Spec
CONSTANTS
  DaemonSetups <- MCDaemon
  LoopSetups <- MCLoop
  WatchdogSetups <- MCWatchdog
  SessionSetups <- MCSessions
  UpdateSetups <- MCUpdate
  InstallSetups <- MCInstaller
  WiringSetups <- MCWiring
  VaultSetups <- MCVault
  ArchiveSetups <- MCArchive
  LEGACY_DIRS <- MCLegacyDirs
  MaxPid = 4
  Projects = {"_inbox", "p"}
  MaxQueue = 2
  MaxTime = 6
  Tasks = {"t1", "t2"}
  MaxPolls = 3
  Sources = {"a", "b"}
  MaxArchives = 3
INVARIANTS UpdateKept InstallKept WiringKept MovedKept
PROPERTIES DaemonKept ServiceKept WatchdogKept SessionsReported
CHECK_DEADLOCK FALSE
