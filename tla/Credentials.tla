------------------------------- MODULE Credentials -------------------------------
(***************************************************************************)
(* The credentials that libcouchbase connects with: its authenticator      *)
(* calls GetUsername and then GetPassword (utils.cpp), each of which asks  *)
(* the producer.  The strings that they return are static variables.       *)
(***************************************************************************)
EXTENDS Communicator

VARIABLES
  step,                    \* external: what libcouchbase waits for
  username, password,      \* the static variables of the two functions
  answered_by              \* history: the producer's credentials when each was answered
                           \* for this connection, 0 if it was not

credVars == <<step, username, password, answered_by>>

CredInit ==
  /\ step = "none" /\ username = "" /\ password = ""
  /\ answered_by = [which \in {"username", "password"} |-> 0]

\* External: a connection is authenticated.
Authenticate ==
  /\ step \in {"none", "connect"} /\ step' = "username"
  /\ HTTPPost("GetCreds", NoQuery)
  /\ answered_by' = [which \in {"username", "password"} |-> 0]
  /\ UNCHANGED <<username, password>>

\* Mutant: a failed lookup leaves the name of the last one.
KeepUsername ==
  /\ step = "username" /\ state = "idle"
  /\ username' = IF info.is_valid THEN info.username ELSE username
  /\ step' = "password" /\ HTTPPost("GetCreds", NoQuery)
  /\ UNCHANGED <<password, answered_by>>

\* The answer to GetUsername; GetPassword is called next.
GetUsername ==
  /\ step = "username" /\ state = "idle"
  /\ username' = info.username
  /\ step' = "password" /\ HTTPPost("GetCreds", NoQuery)
  /\ UNCHANGED <<password, answered_by>>

GetPassword ==
  /\ step = "password" /\ state = "idle"
  /\ password' = info.password
  /\ step' = "connect"
  /\ UNCHANGED <<commVars, username, answered_by>>

\* A step of the request under way; the history is kept when it is answered.
AskCredentials ==
  /\ step \in {"username", "password"} /\ CommNext
  /\ answered_by' = IF state = "sent" /\ state' = "answering"
                    THEN [answered_by EXCEPT ![step] = credentials] ELSE answered_by
  /\ UNCHANGED <<step, username, password>>

Lookup == Authenticate \/ GetUsername \/ GetPassword \/ AskCredentials

-------------------------------------------------------------------------------
\* Although the strings outlive the calls, a connection is never made with those of an
\* earlier one: each is what the producer answered for this connection, or empty.
NoStaleCredentials ==
  step = "connect" =>
    /\ username # "" => answered_by["username"] # 0 /\ username = Usernames[answered_by["username"]]
    /\ password # "" => answered_by["password"] # 0 /\ password = Passwords[answered_by["password"]]
===============================================================================
