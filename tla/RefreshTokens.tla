---------------------------- MODULE RefreshTokens ----------------------------
(* The rotation of refresh tokens by the API (platform/api/src/auth/routes.ts *)
(* and jwt.ts) over the table refresh_tokens.                                 *)
(*                                                                            *)
(* A handler has no await, so requests do not interleave; but each statement  *)
(* commits by itself, any of them may fail, the process may die after any of  *)
(* them, and an answer may be lost. A token is its jti; the chain of a login  *)
(* is its first token and those rotation made of it.                          *)
EXTENDS Naturals, FiniteSets

CONSTANTS
    Tokens,   \* jti's: randomUUID never gives one twice
    NoToken

ASSUME RefreshTokensAssumption == NoToken \notin Tokens

VARIABLES
    signed,    \* tokens that were signed
    held,      \* those of them a client was answered with
    expired,   \* those whose exp is over
    tokenRow,  \* token -> its row: "none", "live" (revoked = 0) or "revoked"
    login,     \* token -> the first token of its chain
    loggedOut  \* chains whose newest token a logout revoked

authVars == <<signed, held, expired, tokenRow, login, loggedOut>>

AuthInit ==
    /\ signed = {} /\ held = {} /\ expired = {} /\ loggedOut = {}
    /\ tokenRow = [j \in Tokens |-> "none"]
    /\ login = [j \in Tokens |-> NoToken]

(* verifyRefreshToken and the test of the row: no row is as good as one that  *)
(* is not revoked.                                                            *)
Verifies(j) == j \in signed \ expired
Usable(j) == Verifies(j) /\ tokenRow[j] # "revoked"

\* Mutant: a token is answered before it is recorded as signed.
MutSign(j, chain) == held' = held \cup {j} /\ login' = [login EXCEPT ![j] = chain] /\ UNCHANGED signed

(* A signed token reaches its client, or the answer is lost.                  *)
Sign(j, chain) ==
    /\ signed' = signed \cup {j}
    /\ login' = [login EXCEPT ![j] = chain]
    /\ held' \in {held, held \cup {j}}

(* POST /api/auth/login: the row is inserted, or the insert fails and nobody  *)
(* is told.                                                                   *)
Login(j) ==
    /\ j \notin signed
    /\ Sign(j, j)
    /\ tokenRow' \in {tokenRow, [tokenRow EXCEPT ![j] = "live"]}
    /\ UNCHANGED <<expired, loggedOut>>

(* An UPDATE changes the row that is there, if one is.                        *)
Revoked(j) == IF tokenRow[j] = "none" THEN tokenRow ELSE [tokenRow EXCEPT ![j] = "revoked"]

\* Mutant: the new row is inserted and the old one is not revoked.
MutRotate(j, n) ==
    /\ j \in held /\ Usable(j) /\ n \notin signed
    /\ Sign(n, login[j])
    /\ tokenRow' = [tokenRow EXCEPT ![n] = "live"]
    /\ UNCHANGED <<expired, loggedOut>>

(* POST /api/auth/refresh with a token a client has, rotated or not: the old  *)
(* row is revoked, the new one inserted, and only then is the answer sent.    *)
Rotate(j, n) ==
    /\ j \in held /\ Usable(j) /\ n \notin signed
    /\ Sign(n, login[j])
    /\ tokenRow' = [Revoked(j) EXCEPT ![n] = "live"]
    /\ UNCHANGED <<expired, loggedOut>>

(* The insert fails, or the process dies before it: the answer is a 401 or    *)
(* none, and the old row stays revoked.                                       *)
RotateFails(j) ==
    /\ j \in held /\ Usable(j)
    /\ tokenRow' = Revoked(j)
    /\ UNCHANGED <<signed, held, expired, login, loggedOut>>

\* Mutant: the logout deletes the row, and a token without a row is good.
MutLogout(j) ==
    /\ j \in held /\ Verifies(j)
    /\ tokenRow' = [tokenRow EXCEPT ![j] = "none"]
    /\ loggedOut' = IF Usable(j) /\ tokenRow[j] = "live" THEN loggedOut \cup {login[j]} ELSE loggedOut
    /\ UNCHANGED <<signed, held, expired, login>>

(* POST /api/auth/logout. When its UPDATE fails it answers success all the    *)
(* same, and nothing has changed.                                             *)
Logout(j) ==
    /\ j \in held /\ Verifies(j)
    /\ tokenRow' = Revoked(j)
    /\ loggedOut' = IF Usable(j) /\ tokenRow[j] = "live" THEN loggedOut \cup {login[j]} ELSE loggedOut
    /\ UNCHANGED <<signed, held, expired, login>>

Expire(j) ==
    /\ j \in signed
    /\ expired' = expired \cup {j}
    /\ UNCHANGED <<signed, held, tokenRow, login, loggedOut>>

AuthNext ==
    \/ \E j \in Tokens : Login(j) \/ RotateFails(j) \/ Logout(j) \/ Expire(j)
    \/ \E j, n \in Tokens : Rotate(j, n)

AuthSpec == AuthInit /\ [][AuthNext]_authVars

-----------------------------------------------------------------------------
(* Types of the table and of the tokens.                                      *)
AuthTypeOK ==
    /\ signed \subseteq Tokens /\ held \subseteq signed /\ expired \subseteq signed
    /\ tokenRow \in [Tokens -> {"none", "live", "revoked"}]
    /\ login \in [Tokens -> Tokens \cup {NoToken}]
    /\ loggedOut \subseteq Tokens

(* "refresh (rotate)": a login whose row was stored has at most one token     *)
(* that refreshes, whichever of its tokens are presented, twice or late, and  *)
(* whatever fails between the statements.                                     *)
OneUsablePerLogin ==
    \A i, j \in signed :
        login[i] = login[j] /\ tokenRow[login[i]] # "none" /\ Usable(i) /\ Usable(j) => i = j

(* "logout (invalidate)": after a logout with the newest token of a login     *)
(* that was stored, none of its tokens refreshes, ever. A logout whose UPDATE *)
(* fails is answered as a success and is not one: it revokes nothing.         *)
LogoutEndsLogin ==
    \A j \in signed : login[j] \in loggedOut /\ tokenRow[login[j]] # "none" => ~Usable(j)
=============================================================================
