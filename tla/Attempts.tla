------------------------------ MODULE Attempts ------------------------------
(***************************************************************************)
(* What Do does in the attackers that come with the code: it may draw a    *)
(* datum (attacker_with_data.go), it asks the HTTP client of a runner for  *)
(* TargetUrl, and turns the response into a DoResult.  The transport under *)
(* the client may dump requests and responses; it is net/http otherwise,   *)
(* with a pool of at most MaxConns connections.                            *)
(***************************************************************************)
EXTENDS SharedData, FiniteSets

CONSTANTS
  DataCallers,   \* callers that are of a DataAttackerExample, the others are of
                 \* an HTTPAttackerExample
  DumpTransport, \* values of the configuration
  ValidUrls,     \* whether TargetUrl parses, which nobody validates
  DataGiven,     \* whether NewRunner got test data: a node gives it none
  MaxConns,      \* MaxConnsPerHost, 65535 in the code
  Responses,     \* what the server may answer
  MaxGets,       \* bound of the model: data handed out
  MaxData        \* bound of the model: data there are

\* The body of a response: "none", "json" for an object or a list, "other" for
\* anything else, "long" for one whose dump holds another empty line.
Bodies == {"none", "json", "other", "long"}

ASSUME AttemptsAssumption ==
  /\ DataCallers \subseteq Callers
  /\ DumpTransport \subseteq BOOLEAN
  /\ ValidUrls \subseteq BOOLEAN
  /\ DataGiven \subseteq BOOLEAN
  /\ MaxConns \in Nat \ {0}
  /\ Responses \subseteq [declared : BOOLEAN, body : Bodies, limit : BOOLEAN]
  /\ MaxGets \in Nat /\ MaxData \in Nat

VARIABLES
  dump,     \* debug of the client
  validUrl, \* TargetUrl parses
  given,    \* TestData is not nil
  do,       \* where each caller is in Do
  resp,     \* what the client returned to it
  active,   \* callers whose response holds a connection
  unread,   \* connections held by responses nobody will read, until the time
            \* of their client is over
  answer    \* the last DoResult, and whether the request had failed

settings == <<dump, validUrl, given>>
doVars == <<settings, do, resp, active, unread, answer>>
vars == <<dataVars, doVars>>

\* A request that failed: refused, reset, or out of the time the client has.
Failure == [declared |-> FALSE, body |-> "failed", limit |-> FALSE]

NoAnswer == [failed |-> FALSE, Error |-> FALSE]

Init ==
  /\ DataInit
  /\ dump \in DumpTransport
  /\ validUrl \in ValidUrls
  /\ given \in DataGiven
  /\ given \/ Data = <<>>
  /\ do = [c \in Callers |-> "idle"]
  /\ resp = [c \in Callers |-> Failure]
  /\ active = {}
  /\ unread = 0
  /\ answer = NoAnswer

-----------------------------------------------------------------------------
\* Gets made and under way.
Gets == Len(handed) + Cardinality({c \in DataCallers : do[c] = "get" /\ at[c] # "unlock"})

Start(c) ==
  /\ do[c] = "idle"
  /\ c \in DataCallers => Gets < MaxGets
  /\ do' = [do EXCEPT ![c] = IF c \in DataCallers THEN "get" ELSE "send"]
  /\ answer' = NoAnswer
  /\ UNCHANGED <<dataVars, settings, resp, active, unread>>

\* Get returns with its unlock, and then the request is made.
Draw(c) ==
  /\ do[c] = "get"
  /\ given
  /\ Get(c)
  /\ do' = [do EXCEPT ![c] = IF at[c] = "unlock" THEN "send" ELSE "get"]
  /\ UNCHANGED <<settings, resp, active, unread, answer>>

\* There are no test data: asserting the type of nil panics.
NoTestData(c) ==
  /\ do[c] = "get"
  /\ ~given
  /\ Die
  /\ UNCHANGED doVars

\* HTTPAttackerExample makes its request first and ignores that there is none when
\* TargetUrl does not parse: the client panics.
NoRequest(c) == c \notin DataCallers /\ ~validUrl

RequestPanic(c) ==
  /\ do[c] = "send"
  /\ NoRequest(c)
  /\ Die
  /\ UNCHANGED doVars

\* The pool has a connection to give.
Connect(c) ==
  /\ do[c] = "send"
  /\ validUrl
  /\ Cardinality(active) + unread < MaxConns
  /\ active' = active \cup {c}
  /\ do' = [do EXCEPT ![c] = "wait"]
  /\ UNCHANGED <<dataVars, settings, resp, unread, answer>>

\* The request fails, also because no connection became free in time, or because
\* client.Get makes no request of a TargetUrl that does not parse.
Fail(c) ==
  /\ do[c] \in {"send", "wait"}
  /\ ~NoRequest(c)
  /\ resp' = [resp EXCEPT ![c] = Failure]
  /\ active' = active \ {c}
  /\ do' = [do EXCEPT ![c] = "finish"]
  /\ UNCHANGED <<dataVars, settings, unread, answer>>

\* The dump of a response that declares JSON is split at empty lines; when there
\* are two parts the second must be a JSON object or list, an empty one is not.
Unprintable(r) == r.declared /\ r.body \in {"none", "other"}

\* The dump of a response ends the process.
DumpFatal(c) ==
  /\ do[c] = "wait"
  /\ dump
  /\ \E r \in Responses : Unprintable(r)
  /\ Die
  /\ UNCHANGED doVars

\* A response comes.  Its connection is free again if there is no body to read,
\* if the dump has read it, or if the client has closed it, which it does with a
\* response it returns together with an error, at the limit of redirects.
Respond(c) ==
  /\ do[c] = "wait"
  /\ \E r \in Responses :
       /\ dump => ~Unprintable(r)
       /\ resp' = [resp EXCEPT ![c] = r]
       /\ active' = IF dump \/ r.body = "none" \/ r.limit THEN active \ {c} ELSE active
  /\ do' = [do EXCEPT ![c] = "finish"]
  /\ UNCHANGED <<dataVars, settings, unread, answer>>

RequestFailed(r) == r = Failure \/ r.limit

\* Mutant of FinishHTTP: the body is not read.
FinishUnread(c) ==
  /\ do[c] = "finish"
  /\ c \notin DataCallers
  /\ answer' = [failed |-> RequestFailed(resp[c]), Error |-> RequestFailed(resp[c])]
  /\ unread' = unread + (IF c \in active THEN 1 ELSE 0)
  /\ active' = active \ {c}
  /\ do' = [do EXCEPT ![c] = "idle"]
  /\ resp' = [resp EXCEPT ![c] = Failure]
  /\ UNCHANGED <<dataVars, settings>>

\* The body of a response was closed and there is something left to read: reading
\* it is an error.  The dump puts its own copy in the place of a body.
ClosedBody(r) == r.limit /\ r.body # "none" /\ ~dump

\* Mutant of CopyError: what reading the body says is ignored.
CopyErrorIgnored(c) == {resp[c] = Failure}

\* HTTPAttackerExample reads the body of any response it got, and the error of
\* that takes the place of the client's; a body may break off, also in its dump.
CopyError(c) ==
  IF resp[c] = Failure \/ ClosedBody(resp[c]) THEN {TRUE}
  ELSE IF resp[c].body = "none" THEN {FALSE} ELSE BOOLEAN

FinishHTTP(c) ==
  /\ do[c] = "finish"
  /\ c \notin DataCallers
  /\ \E error \in CopyError(c) :
       answer' = [failed |-> RequestFailed(resp[c]), Error |-> error]
  /\ active' = active \ {c}
  /\ do' = [do EXCEPT ![c] = "idle"]
  /\ resp' = [resp EXCEPT ![c] = Failure]
  /\ UNCHANGED <<dataVars, settings, unread>>

\* DataAttackerExample looks at the error alone and leaves the body unread.
FinishData(c) ==
  /\ do[c] = "finish"
  /\ c \in DataCallers
  /\ answer' = [failed |-> RequestFailed(resp[c]), Error |-> RequestFailed(resp[c])]
  /\ unread' = unread + (IF c \in active THEN 1 ELSE 0)
  /\ active' = active \ {c}
  /\ do' = [do EXCEPT ![c] = "idle"]
  /\ resp' = [resp EXCEPT ![c] = Failure]
  /\ UNCHANGED <<dataVars, settings>>

\* The time of a client is over, which closes the connection of a response that
\* was never read.
Expire ==
  /\ unread > 0
  /\ unread' = unread - 1
  /\ UNCHANGED <<dataVars, settings, do, resp, active, answer>>

\* The user adds to the data while the test runs.
UserAdds(a) ==
  /\ given
  /\ at[a] = "out" => Len(Data) < MaxData
  /\ Extend(a)
  /\ UNCHANGED doVars

Attempt(c) ==
  \/ Draw(c) \/ NoTestData(c) \/ RequestPanic(c) \/ Connect(c) \/ Fail(c)
  \/ DumpFatal(c) \/ Respond(c) \/ FinishHTTP(c) \/ FinishData(c)

Next ==
  /\ alive
  /\ \/ \E c \in Callers : Start(c) \/ Attempt(c)
     \/ Expire
     \/ \E a \in Adders : UserAdds(a)

Spec == Init /\ [][Next]_vars

\* A goroutine that can run does run, the time of the client passes, and a mutex
\* of Go is handed to those who wait for it in the end.
FairSpec ==
  /\ Spec
  /\ \A c \in Callers : WF_vars(alive /\ Attempt(c))
  /\ \A c \in Callers : SF_vars(alive /\ Draw(c))
  /\ WF_vars(alive /\ Expire)
  /\ \A a \in Adders : WF_vars(alive /\ UserAdds(a))

-----------------------------------------------------------------------------
(* Properties *)

TypeOK ==
  /\ Index \in 0 .. Len(Data)
  /\ mutex \in Goroutines \cup {NoOne}
  /\ \A g \in Goroutines : at[g] # "out" <=> mutex = g
  /\ do \in [Callers -> {"idle", "get", "send", "wait", "finish"}]
  /\ \A c \in Callers : at[c] # "out" => do[c] = "get"
  /\ active \subseteq {c \in Callers : do[c] \in {"wait", "finish"}}
  /\ Cardinality(active) + unread <= MaxConns

\* Between two times it is handed out a datum gives each of the others there were
\* a turn, as long as they differ, while more are added (shared.go:23-38).
NoDatumSkipped ==
  (\A m, n \in DOMAIN Data : m # n => Data[m] # Data[n]) =>
  \A i, j \in DOMAIN handed :
    LET d == handed[i].datum
        between == {handed[k].datum : k \in i + 1 .. j - 1}
    IN i < j /\ handed[j].datum = d /\ d \notin between =>
         \A n \in 1 .. handed[i].of : Data[n] # d => Data[n] \in between

\* The process dies in an attempt only of a dump of JSON that is none, of a draw
\* where there are no data, and of a request for a URL that does not parse, never of
\* an index outside the data there are (default_http_client.go:55-104,
\* shared.go:25-28, attacker_with_data.go:25, http_attacker_mock.go:27-28).
KnownDeaths ==
  ~alive => \/ dump /\ \E r \in Responses : Unprintable(r)
            \/ DataCallers # {} /\ (~given \/ Data = <<>>)
            \/ DataCallers # Callers /\ ~validUrl

\* A request that failed is reported as an error, with one exception: the limit of
\* redirects was met and there is nothing left of the last body to read, as always
\* when it was dumped (http_attacker_mock.go:28-42).
FailuresReported ==
  [][\A c \in Callers :
       do[c] = "finish" /\ do'[c] = "idle" /\ answer'.failed /\ ~answer'.Error =>
         /\ resp[c].limit
         /\ dump \/ resp[c].body = "none"
         /\ c \notin DataCallers]_vars

\* Only the DataAttackerExample leaves responses unread that hold connections, one
\* by an attempt at most, and none when responses are dumped
\* (attacker_with_data.go:27, http_attacker_mock.go:31).
ConnectionsReturned ==
  /\ unread <= Len(handed)
  /\ dump => unread = 0

\* Every attempt ends, whoever holds the mutex or the connections it needs.
AttemptsEnd ==
  \A c \in Callers : (do[c] # "idle") ~> (do[c] = "idle" \/ ~alive)
=============================================================================
