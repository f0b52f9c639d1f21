SPECIFICATION Spec
CONSTANTS
  Nil = Nil
  c1 = c1
  Clients = {c1}
  Artifacts <- MCArtifacts
  Documents <- MCDocuments
  AcceptedKinds <- Kinds
  Permitted <- MCPermitted
  RetryMax = 1
  MaxUploads = 2
  MaxTime = 1
CONSTRAINT OneKind
CHECK_DEADLOCK FALSE
INVARIANTS TypeOK LoggedIsVouched LeavesReadBack OneLeafPerArtifact VerifyFindsUpload SearchFindsIndexed BackfillComplete AttestationsFound
PROPERTY RetriesAddNothing
