SPECIFICATION ScriptsSpec
CONSTANTS
  Radix = 4
  MAGIC = 109
  ArchAnswers <- MCAnswers
  ArchExpects <- MCExpects
  HostedArches = 2
  HostedExpected <- MCExpected
  HostedAnswers <- MCHostedAnswers
  HostedModulus = 64
  HostedJobs <- MCJobs
  NativeBuilds <- MCBuilds
  UkiImages <- MCImagesPE
  UkiPayloads <- MCPayloads
  UkiEntry = 1
  FileAlign = 4
  SecAlign = 8
  DeployImages <- MCImages
  DeployByte <- MCByte
  DeployStale <- MCStale
  ChunkSize = 2
  DeployMaxFaults = 1
  TftpTries = 2
  CoreTries = 2
  Clips <- MCClips
  SerialTries = 2
  UpRounds = 1
  ImageDigits = 7
  DrainReads = 5
  PushSources <- MCSources
  Strays = 2
  CoreForms = 2
  EndDigits = 3
  Probes = 2
INVARIANTS
  ToolsTypeOK
  VerdictSound
  CleanExitMeansGraded
  FndiffExact
  DifferencesAreRelocation
  RelocationIsProved
  UkiLoads
  BoardTypeOK
  ImageOnlyToLoader
  LoaderStartsWhatWasSent
  StartsWholeImage
  CoreAsReported
  RelinkReported
  PlaysTheAskedClip
  SuccessMeansBuilt
  FormsAsWritten
  CountedWereEvaluated
  CoreHoldsTheSession
PROPERTY
  ScriptsEnd
CHECK_DEADLOCK FALSE
