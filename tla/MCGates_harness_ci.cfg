SPECIFICATION GateSpec
CHECK_DEADLOCK FALSE
CONSTANTS
  None = None
  Unset = Unset
  Undeclared = Undeclared
  NaN = NaN
  ts = ts
  go = go
  tsCmd = tsCmd
  goCmd = goCmd
  goTest = goTest
  install = install
  tsName = tsName
  goName = goName
  Names = {t1, t2, t3}
  Kids = {k1, k2}
  KnownKids = {k1}
  MaxSteps = 3
  MaxEdits = 2
  Packages = {ts, go}
  OtherName = perl
  Texts = {tsCmd, goCmd, goTest, install, sharedCmd}
  Command <- GateCommand
  StepName <- GateStepName
  Includes <- GateIncludes
  SharedCommand = sharedCmd
  MaxLineEdits = 2
  Versions <- GateVersions
  Otps <- GateOtps
  MaxMatrixEdits = 3
  MaxListed = 2
INVARIANT HarnessRunsCi
