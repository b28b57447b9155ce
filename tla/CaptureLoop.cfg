\* In units of 5 ms: 10 ms frames and target, 30 ms threshold, a quantum of
\* 20 ms, and the smallest ring the assertion of run() allows.
SPECIFICATION Spec
CONSTANTS
  Capacity = 12
  FrameSize = 2
  Threshold = 6
  Target = 2
  MaxQuantum = 4
  Batches = {1, 4}
  OutageFatal = 2
  MaxWritten = 15
  MaxTime = 3
INVARIANTS TypeOK OutageIsFatal
PROPERTIES DrainKeepsTarget OneBatchNeverLaps OverrunRecovers EndReturns
