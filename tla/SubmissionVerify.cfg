SPECIFICATION Spec
CONSTANTS
  Nil = Nil
  c1 = c1
  Clients = {c1}
  Artifacts <- MCArtifacts
  Documents <- MCDocuments
  AcceptedKinds <- Kinds
  Permitted <- MCPermitted
  RetryMax = 1
  MaxUploads = 1
  MaxTime = 1
CHECK_DEADLOCK FALSE
INVARIANT VerifyFindsEveryUpload
