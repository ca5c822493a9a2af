SPECIFICATION Spec
CONSTANTS
  NoContext = NoContext
  NoHit = NoHit
  NoEntity = NoEntity
  Requests <- MCRequests
  Configs <- MCConfigs
  Words <- MCWords
  Lower <- MCLower
  Dense <- MCDense
  Spans <- MCSpans
  Norm <- MCNorm
  FastM = 2
  IdfTable <- MCIdfTable
  TpScore <- MCTpScore
INVARIANT IndexExact
INVARIANT NoFalseHit
INVARIANT BestUnlessCut
INVARIANT RepeatHits
PROPERTY DeleteIsMatch
