------------------------------ MODULE Accounts ------------------------------
(* The device's accounts: who a request is made by, and what that allows.    *)
(* The security settings are a record of the secret that signs tokens and    *)
(* the set of users. A token is the payload and the secret it was signed     *)
(* with; it has no expiry. A lookup is the set of the accounts found, with   *)
(* at most one member as long as names are unique.                           *)
CONSTANTS None, Names, Passwords, Secrets

User == [username : Names, password : Passwords, admin : BOOLEAN]
Token == [username : Names, admin : BOOLEAN, secret : Secrets]

UniqueNames(users) ==
  \A u, w \in users : u.username = w.username => u = w

SecuritySettings ==
  [jwt_secret : Secrets, users : {users \in SUBSET User : UniqueNames(users)}]

authenticate(security, username, password) ==
  {u \in security.users : u.username = username /\ u.password = password}

generateJWT(security, user) ==
  [username |-> user.username, admin |-> user.admin, secret |-> security.jwt_secret]

\* What a token says of its user, to the device and to the interface.
Payload(token) == [username |-> token.username, admin |-> token.admin]

validatePayload(token, user) ==
  Payload(token) = [username |-> user.username, admin |-> user.admin]

\* Mutant: the signature of the token is not verified.
authenticateRequestUnsigned(security, token) ==
  IF token = None THEN {} ELSE {u \in security.users : validatePayload(token, u)}

authenticateRequest(security, token) ==
  IF token = None \/ token.secret # security.jwt_secret THEN {}
  ELSE {u \in security.users : u.username = token.username /\ validatePayload(token, u)}

IS_AUTHENTICATED(found) == found # {}
IS_ADMIN(found) == \E u \in found : u.admin
=============================================================================
