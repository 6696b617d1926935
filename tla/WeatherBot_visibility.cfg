SPECIFICATION Spec
CONSTANTS
  h1 = h1
  h2 = h2
  KSFO = KSFO
  BNDC1 = BNDC1
  slug = slug
  cwop = cwop
  Handles = {h1, h2}
  Stranger = Stranger
  None = None
  Locations = {KSFO, BNDC1, slug, cwop}
  Looks <- MCLooks
  Texts <- MCTexts
  Observations <- MCObservations
INVARIANTS
  BeyondWasReported
