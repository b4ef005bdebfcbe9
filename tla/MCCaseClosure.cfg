\* A case is assessed while evidence is acquired, damaged and disputed.
SPECIFICATION ClosureSpec
CONSTANTS
  Artifact = {"m", "o"}
  Mandatory = {"m"}
  Matches <- MCMatches
  File = {1, 2, 3}
  NameOf <- MCNameOf
  Gates <- MCGates
  Acquisitions <- MCAcquisitions
  Analyst = {"w1"}
  Act = {"b1", "b2"}
  EffectOf <- MCEffectOf
  Conclusion = {"c"}
  Reviewer = {"r1", "r2"}
  AuthorOf <- MCAuthorOf
  Required <- MCRequired
  MaxChanges = 2
INVARIANTS ConflictsBlock
CHECK_DEADLOCK FALSE
