SPECIFICATION AppSpec
CONSTANTS
  MainInfo <- Main
  SkyboxInfo <- Skybox
  OtherInfos <- Others
  ComputeInfos <- Computes
  RenderPasses = {1, 2}
  MaxEntries = 3
  MaxGenerations = 3
  MaxTimeline = 2
  MaxDevices = 2
  HostVisible <- Visible
INVARIANTS
  RightPipeline
  DrawsReady
  IdsMatch
  NothingLeft
