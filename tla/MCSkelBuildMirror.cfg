\* Only sources below src.
CONSTANTS
  Root = "root"
  Subdirs = {"x", "y"}
  Outside = "outside"
  GlobOrder <- SomeSources
  ExplicitSources <- NoExplicitSources
  Scripts = {"me"}
  Me = "me"
  Shared = "target/include"
  Parts = 1
  Modes <- OnlyBuild

SPECIFICATION Spec

INVARIANTS
  ArtifactsMirrorSources
