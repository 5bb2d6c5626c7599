----------------------------- MODULE MCInterface -----------------------------
(* A small instance of Interface for TLC. *)
EXTENDS Interface, TLC

CONSTANTS t1, b1, root, guest, pw, s1, s2, n1

MCBrowserOf == t1 :> b1

\* What earlier sessions may have left: no token, one of either user, one of
\* another secret, and one of a user whose rights have changed since.
LeftTokens ==
  {None} \cup
  {[username |-> u, admin |-> a, secret |-> s] : <<u, a, s>> \in
     {<<root, TRUE, s1>>, <<guest, FALSE, s1>>, <<root, TRUE, s2>>, <<guest, TRUE, s1>>}}

\* A device with one admin.
MCInit ==
  /\ Init
  /\ security = [jwt_secret |-> s1,
                 users |-> {[username |-> root, password |-> pw, admin |-> TRUE],
                            [username |-> guest, password |-> pw, admin |-> FALSE]}]
  /\ ssid = n1
  /\ radio = "none"
  /\ store[b1].token \in LeftTokens

MCSpec ==
  /\ MCInit
  /\ [][Next]_vars
  /\ \A t \in Tabs : WF_vars(Network(t)) /\ WF_vars(PollNetworkList(t))
=============================================================================
