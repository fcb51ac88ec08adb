CONSTANTS
  Documents = {"claim.fr.md", "claim.en.md", "target.md", "moved.fr.md", "gone.md"}
  English = {"claim.en.md"}
  Standing = {"target.md"}
  Code = {"Root", "Proof", "Lemma", "Tests.Use", "script", "toolchain"}
  Config = {"toolchain"}
  Tests = {"Tests.Use"}
  Toolchain = {"Std"}
  Unreadable = Unreadable
  Missing = Missing
  Texts <- MCTexts
  Sources <- MCSources
  Rendering <- MCRendering
  Homes <- MCHomes
  Registries <- MCRegistries
  Reviewed = {"translation"}
  MaxRevisions = 3
  MaxChanges = 4
SPECIFICATION Spec
INVARIANTS
  EvidenceFresh
  ReviewCurrent
  RefreshExact
PROPERTIES
  MoveKeepsEvidence
CHECK_DEADLOCK FALSE
