------------------------------ MODULE Communicator ------------------------------
(***************************************************************************)
(* The channel to eventing-producer (comm.cpp): one curl handle that posts *)
(* a query or an endpoint and reads an urlencoded answer.  A request is    *)
(* synchronous, what curl calls back in between is an action: a header, a  *)
(* chunk of the body, the end.  HTTPPost's result is a local variable; the *)
(* callbacks have pointers to its parts.                                   *)
(*                                                                         *)
(* The producer is external: it answers what it is asked, with the         *)
(* credentials that it has at that time.                                   *)
(***************************************************************************)
EXTENDS Naturals, Sequences, SequencesExt, FiniteSets

CONSTANTS
  Queries,                 \* what ParseQuery and GetNamedParams are called with
  MaxCredentials,          \* bound: the producer's credentials change so often
  Usernames, Passwords,    \* the credentials that the producer has, one after the other
  Features                 \* what happens to requests, see below

\* Each is something that requests are exposed to.
\*   "chunks"     a body arrives in several pieces
\*   "outage"     a request fails, before or while it is answered
\*   "refusal"    the producer answers with an error status or with none
\*   "malformed"  the status is not a number
\*   "rotation"   the producer's credentials change
AllFeatures == {"chunks", "outage", "refusal", "malformed", "rotation"}

Operations == {"ParseQuery", "GetNamedParams", "GetCreds"}
Names == {"a", "b"}

\* A value is not empty, and the characters that have a meaning are escaped in it.
IsValue(text) == text \notin {"", "&", "="}

ASSUME CommunicatorAssumption ==
  /\ Queries \subseteq [n1ql : BOOLEAN, expression : BOOLEAN, params : {<<>>, <<"a">>, <<"a", "b">>}]
  /\ MaxCredentials \in Nat
  /\ DOMAIN Usernames = 1 .. MaxCredentials + 1 /\ DOMAIN Passwords = DOMAIN Usernames
  /\ \A n \in DOMAIN Usernames : IsValue(Usernames[n]) /\ IsValue(Passwords[n])
  /\ Features \subseteq AllFeatures

VARIABLES
  state,                   \* of the curl handle: "idle", "sent", "answering"; "aborted"
  request,                 \* operation and argument of the last request
  status,                  \* the header Status of the response, or "none"
  response,                \* its body, as received
  arriving,                \* external: what has not arrived of the producer's answer
  credentials,             \* external: the number of the producer's credentials
  info                     \* what the last operation returned

commVars == <<state, request, status, response, arriving, credentials, info>>

NoQuery == [n1ql |-> FALSE, expression |-> FALSE, params |-> <<>>]

Failed == [is_valid |-> FALSE, username |-> "", password |-> "", named_params |-> <<>>]

CommTypeOK ==
  /\ state \in {"idle", "sent", "answering", "aborted"}
  /\ request \in [op : Operations \cup {"none"}, query : Queries \cup {NoQuery}]
  /\ status \in {"none", "0", "1", "text"}
  /\ credentials \in 1 .. MaxCredentials + 1
  /\ state = "sent" => status = "none" /\ response = <<>>
  /\ info.is_valid \in BOOLEAN
  /\ info.named_params \in Seq(Names \cup {""})

CommInit ==
  /\ state = "idle" /\ request = [op |-> "none", query |-> NoQuery]
  /\ status = "none" /\ response = <<>> /\ arriving = <<>>
  /\ credentials = 1 /\ info = Failed

-------------------------------------------------------------------------------
(***************************************************************************)
(* The encoding.  A symbol is a key, a value, "=" or "&"; what comes before*)
(* "=" and has lost its start is no key of ours.                           *)
(***************************************************************************)
Encode(items) ==
  [i \in 1 .. 4 * Len(items) - 1 |->
     LET item == items[(i + 3) \div 4]
     IN  CASE i % 4 = 1 -> item[1] [] i % 4 = 2 -> "="
           [] i % 4 = 3 -> item[2] [] i % 4 = 0 -> "&"]

Digit == <<"0", "1", "2">>
Bit(b) == IF b THEN "1" ELSE "0"
IsNumber(text) == text \in Range(Digit)
StoI(text) == (CHOOSE n \in DOMAIN Digit : Digit[n] = text) - 1

\* What the producer answers when it has its n-th credentials.
Answer(op, query, n) ==
  CASE op = "GetCreds" -> Encode(<< <<"password", Passwords[n]>>, <<"username", Usernames[n]>> >>)
    [] op = "ParseQuery" -> Encode(<< <<"info", "text">>, <<"is_valid", Bit(query.n1ql)>> >>)
    [] op = "GetNamedParams" ->
         Encode([i \in DOMAIN query.params |-> <<Digit[i], query.params[i]>>]
                \o << <<"info", "text">>, <<"is_valid", Bit(query.n1ql)>>,
                      <<"named_params_size", Digit[Len(query.params) + 1]>> >>)

\* The parts between the &'s; behind the last one there is none if nothing follows.
Separates(body, i) == i \in {0, Len(body) + 1} \/ body[i] = "&"
Tokens(body) ==
  {SubSeq(body, p[1] + 1, p[2] - 1) :
     p \in {q \in (0 .. Len(body)) \X (1 .. Len(body) + 1) :
             /\ q[1] < q[2] /\ q[1] < Len(body)
             /\ Separates(body, q[1]) /\ Separates(body, q[2])
             /\ \A k \in q[1] + 1 .. q[2] - 1 : ~Separates(body, k)}}

ExtractKVIsValid(body) == \A token \in Tokens(body) : Contains(token, "=")

\* kv[key]; "" for a key that is missing.
ExtractKV(body, key) ==
  IF \E value \in Range(body) : <<key, "=", value>> \in Tokens(body)
  THEN CHOOSE value \in Range(body) : <<key, "=", value>> \in Tokens(body)
  ELSE ""

\* The keys that an operation converts with std::stoi, which throws what nobody catches.
Numeric(op) ==
  CASE op = "GetCreds" -> {}
    [] op = "ParseQuery" -> {"is_valid"}
    [] op = "GetNamedParams" -> {"is_valid", "named_params_size"}

Aborts(op, body) ==
  \/ status = "text"
  \/ /\ status = "0" /\ ExtractKVIsValid(body)
     /\ \E key \in Numeric(op) : ~IsNumber(ExtractKV(body, key))

\* Mutant: an answer that can be read is a valid one.
ReadableIsValid(op, body) ==
  [Failed EXCEPT !.is_valid = (status = "0" /\ ExtractKVIsValid(body))]

\* ExtractParseInfo, ExtractNamedParams and ExtractCredentials.
Extract(op, body) ==
  IF status # "0" \/ ~ExtractKVIsValid(body) THEN Failed
  ELSE CASE op = "GetCreds" ->
              [is_valid |-> TRUE, named_params |-> <<>>,
               username |-> ExtractKV(body, "username"), password |-> ExtractKV(body, "password")]
         [] op = "ParseQuery" ->
              [Failed EXCEPT !.is_valid = StoI(ExtractKV(body, "is_valid")) # 0]
         [] op = "GetNamedParams" ->
              [Failed EXCEPT !.is_valid = StoI(ExtractKV(body, "is_valid")) # 0,
                 !.named_params = [i \in 1 .. StoI(ExtractKV(body, "named_params_size")) |->
                                     ExtractKV(body, Digit[i])]]

-------------------------------------------------------------------------------
\* An operation calls HTTPPost.
HTTPPost(op, query) ==
  /\ state = "idle" /\ state' = "sent"
  /\ request' = [op |-> op, query |-> query]
  /\ status' = "none" /\ response' = <<>> /\ arriving' = <<>>
  /\ UNCHANGED <<credentials, info>>

\* The producer answers with its headers first.
HeaderCallback ==
  /\ state = "sent" /\ state' = "answering"
  /\ \/ status' = "0" /\ arriving' = Answer(request.op, request.query, credentials)
     \/ "refusal" \in Features /\ status' = "1" /\ arriving' = <<"text">>
     \/ "refusal" \in Features /\ UNCHANGED status /\ arriving' = <<"text">>
     \/ "malformed" \in Features /\ status' = "text" /\ arriving' = <<"text">>
  /\ UNCHANGED <<request, response, credentials, info>>

\* assign, for every chunk.
BodyCallback(n) ==
  /\ state = "answering" /\ n \in 1 .. Len(arriving)
  /\ n < Len(arriving) => "chunks" \in Features
  /\ response' = SubSeq(arriving, 1, n)
  /\ arriving' = SubSeq(arriving, n + 1, Len(arriving))
  /\ UNCHANGED <<state, request, status, credentials, info>>

\* The request has been answered: the operation looks at the response and returns.
Return ==
  /\ state = "answering" /\ arriving = <<>>
  /\ IF Aborts(request.op, response) THEN state' = "aborted" /\ UNCHANGED info
     ELSE state' = "idle" /\ info' = Extract(request.op, response)
  /\ UNCHANGED <<request, status, response, arriving, credentials>>

\* Mutant: there is no timeout.
Never == FALSE /\ UNCHANGED commVars

\* curl gives up, for an error or after the 30 seconds of CURLOPT_TIMEOUT.
ReturnError ==
  /\ state \in {"sent", "answering"} /\ "outage" \in Features
  /\ state' = "idle" /\ info' = Failed
  /\ UNCHANGED <<request, status, response, arriving, credentials>>

\* External.
Rotate ==
  /\ "rotation" \in Features /\ credentials <= MaxCredentials
  /\ credentials' = credentials + 1
  /\ UNCHANGED <<state, request, status, response, arriving, info>>

\* The steps of a request under way.
CommNext ==
  \/ HeaderCallback \/ Return \/ ReturnError \/ Rotate
  \/ \E n \in 1 .. Len(arriving) : BodyCallback(n)

-------------------------------------------------------------------------------
\* "Channel to communicate to eventing-producer": what an operation returns as valid is
\* what the producer answered, to this request and in full.
ValidAnswersAreTheProducers ==
  state = "idle" /\ info.is_valid =>
    CASE request.op = "GetCreds" ->
           \E n \in 1 .. credentials : info.username = Usernames[n] /\ info.password = Passwords[n]
      [] request.op = "ParseQuery" -> request.query.n1ql
      [] request.op = "GetNamedParams" -> info.named_params = request.query.params

\* No answer ends the process.
NeverAborts == state # "aborted"
===============================================================================
