SPECIFICATION Spec
CONSTANTS
  Tasks = {t1, t2}
  Fingerprint <- OneOfEach
  Nothing = Nothing
  Error = Error
  MaxRequests = 1
  MaxExtras = 1
SYMMETRY AnyOrder
INVARIANTS
  ApprovedAsDisplayed
