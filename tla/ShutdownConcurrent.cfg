\* Two callers at once and three server slots: enough for two callers that wait
\* for the same server while a third process is launched behind their backs.
CONSTANTS
  Actors = {a1, a2}
  Servers = {s1, s2, s3}
SPECIFICATION StopFairSpec
INVARIANT StopOkMeansGone
INVARIANT AskedWereInterrupted
PROPERTY KeepsPromise
