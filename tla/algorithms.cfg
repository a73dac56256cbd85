CONSTANTS
  MaxMatches = 2
  Rules <- MCRules
  Assignments = {"generic-assignment"}
  Credible = {"c1", "b1", "b2"}
  Blob = {"b1", "b2"}
  MaxMembers = 3
  MaxTotal = 5
  MaxListed = 2
  Required = {"The Rundown", "Components"}
  Rundown = "The Rundown"
  Sections <- MCSections
  Anchor <- MCAnchor
  BadTitles = {"smile"}
  Numbered = {"intro-1"}
  Reserved = {"con"}
  Escape <- MCEscape
  TreeLimit = 7
  HeadBytes = 6
  Split <- MCSplit
  AttributesName <- MCAttributesName
  SourceLabels = {"C"}
  Resolved <- MCResolved
  Measured = {"f", "g", "h"}
  Executable <- MCExecutable
  FullName <- MCFullName
  PathInputs <- MCPathInputs
  TreeInputs <- MCTreeInputs
  TextInputs <- MCTextInputs
  StatusInputs <- MCStatusInputs
  AttributeInputs <- MCAttributeInputs
  SignalInputs <- MCSignalInputs
  OriginInputs <- MCOriginInputs
  RenderInputs <- MCRenderInputs
  CountInputs <- MCCountInputs
  TodoInputs <- MCTodoInputs
  SecretInputs <- MCSecretInputs
  ArchiveInputs <- MCArchiveInputs
  LinkInputs <- MCLinkInputs
  ReadmeInputs <- MCReadmeInputs
SPECIFICATION Spec
INVARIANTS
  TodosTold
  SecretsFirst
  DuplicatesTold
  CountsTold
  CapsExact
  EscapeAgrees
  LintMeans
  DocsApart
  TreeReads
  TextTold
  StatusParsed
  AttributesMean
  ClassificationMeans
  HintsAgree
  RenderTells
  CountsMean
CHECK_DEADLOCK FALSE
