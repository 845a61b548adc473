\* Four sources below src and one outside, edited, removed and put back up to
\* four times while builds run, fail and run again; and the headers, which a
\* second build script exports too.
CONSTANTS
  Root = "root"
  Subdirs = {"x", "y"}
  Outside = "outside"
  GlobOrder <- SomeSources
  ExplicitSources <- SomeExplicitSources
  Scripts = {"me", "other"}
  Me = "me"
  Shared = "target/include"
  Parts = 2
  Modes <- SomeModes

SPECIFICATION Spec

INVARIANTS
  TypeOK
  IncludeFindsTheSource
  LinksNeverDangle
  ObjectsAreTheirSources
  HeadersAreWhole
  CompilesAgainstWholeHeaders
