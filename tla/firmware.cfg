CONSTANTS
  Confs <- TwoConfs
  Junk <- Stack
  Characters <- FieldTexts
  BlankName = "no digit"
  DefaultVid = 5824
  DefaultPid = 10203
  DefaultName = "Default VID/PID"
  Keymaps <- TwoKeymaps
  NoFile <- None
  ConfOf <- Texts
SPECIFICATION FairSpec
INVARIANTS TypeOK NoStaleKeymap
PROPERTIES BootsAsSaved LastKeymapRuns
