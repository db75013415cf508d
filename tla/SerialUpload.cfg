\* Two submissions and two uploads, each of which may be executed late; a
\* status is asked for at any time.
SPECIFICATION Spec
CONSTANTS
  MaxSubmits = 2
  MaxAttempts = 2
INVARIANTS
  IInv
  StatusIsTrue
PROPERTIES
  ReadYourUpload
  NeverBack
  Promise
