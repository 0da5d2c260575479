CONSTANTS
  SupportedInputFormats <- MCSupportedInputFormats
  UInt32Range = 4
  MaxName = 3
  WorkerReadings <- MCWorkerReadings
  Inputs <- MCInputs
SPECIFICATION Spec
INVARIANTS
  TypeOK
  ChosenIsBest
  PublishingPreservesAdmission
  CompileIsAtomic
  ScheduledFormatIsSupported
  AdmissionIsSound
