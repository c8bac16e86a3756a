\* A release is built twice, compared, qualified, uploaded, downloaded twice and
\* published, with every crash, an edit, a changed archive and a re-run.
SPECIFICATION DistSpec
CONSTANTS
  Runtimes = {"x", "y"}
  Rests = {"r1", "r2", "old", "leak"}
  VersionOf <- MCVersionOf
  Leaky = {"leak"}
  ReleaseLabel = "v0.1.0-alpha.3"
  Normalized = "0.1.0a3"
  Toolchains = {"t1", "t2"}
  Commits = {"c1", "c2"}
  TreeOf <- MCTreeOf
  MergedTreeOf <- MCMergedTreeOf
  Edited <- MCEdited
  MaxAttempts = 2
  MaxEdits = 1
  MaxDamages = 1
INVARIANTS
  TruthfulBundle
  PublishedIsTagged
  PublishedWasQualified
CHECK_DEADLOCK FALSE
