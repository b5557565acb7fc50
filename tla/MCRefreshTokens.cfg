CONSTANTS
  j1 = j1
  j2 = j2
  j3 = j3
  j4 = j4
  Tokens = {j1, j2, j3, j4}
  NoToken = NoToken
SPECIFICATION AuthSpec
INVARIANTS AuthTypeOK OneUsablePerLogin LogoutEndsLogin
SYMMETRY MCSymmetry
CHECK_DEADLOCK FALSE
