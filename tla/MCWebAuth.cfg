SPECIFICATION Spec
CONSTANTS
  b1 = b1
  b2 = b2
  r1 = r1
  r2 = r2
  NoCredentials = NoCredentials
  Browsers = {b1, b2}
  Requests = {r1, r2}
  Credentials <- SameName
  DatabaseFails = TRUE
SYMMETRY Symmetric
INVARIANTS TypeOK OneAccount OnboardAnswersAreTrue
