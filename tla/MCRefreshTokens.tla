--------------------------- MODULE MCRefreshTokens ---------------------------
(* Four tokens: a login rotated three times, or two logins rotated once.      *)
EXTENDS RefreshTokens, TLC

CONSTANTS j1, j2, j3, j4

MCSymmetry == Permutations(Tokens)

=============================================================================
