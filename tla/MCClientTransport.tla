-------------------------- MODULE MCClientTransport --------------------------
(***************************************************************************)
(* How a client reaches its server: one SecAgg client with a server that   *)
(* may send any message, the runner that drives it over either transport,  *)
(* HTTP requests and their cancellation, the chunked gRPC stream, and the  *)
(* fetching of resources.  Which of them a behavior is about is chosen at  *)
(* the start.                                                              *)
(***************************************************************************)
EXTENDS SecAggClient, SecAggRunner, HttpRequests, ChunkedStream, FetchResources

CONSTANT Names \* whose keys a request may hold

VARIABLES part,    \* "client", "runner", "requests", "stream" or "fetch"
          fetch,   \* the resources to fetch and the cache
          fetched  \* what FetchResourcesInMemory returns

-----------------------------------------------------------------------------
(* One SecAgg client, with a server that may send any message at any time. *)

KeyRequests ==
  UNION {[type : {"share_keys_request"}, keys : [0..n - 1 -> Names \cup {None}]] :
           n \in 1..MaxNeighbors + 1}

\* A share under the key agreed with its sender, at some place, or under another.
Shares ==
  {[of |-> j, to |-> 0, at |-> 0] : j \in Names} \cup {[of |-> 1, to |-> 1, at |-> 0]}

ServerMessages ==
  [type : {"abort"}, earlySuccess : BOOLEAN]
  \cup UNION {[type : {"masked_input_request"}, shares : [0..n - 1 -> Shares \cup {None}]] :
                n \in 1..MaxNeighbors}
  \cup [type : {"unmasking_request"}, dead : SUBSET (0..MaxNeighbors + 1)]

Next ==
  \E c \in Clients :
    \/ ClientStep(c)
    \/ \E m \in ServerMessages \cup KeyRequests : ReceiveMessage(c, m)

-----------------------------------------------------------------------------
(* The inputs of the others, and all of them together.                     *)

\* No upload, an upload, redirects of both kinds, a refusal by the callback, an
\* error, and bodies of zero, one and two pieces.
SmallReplies ==
  {[upload |-> 0, redirect |-> "none", rejected |-> TRUE, code |-> "ok", length |-> 0],
   [upload |-> 1, redirect |-> "found", rejected |-> FALSE, code |-> "ok", length |-> 1],
   [upload |-> 0, redirect |-> "moved_permanently", rejected |-> FALSE, code |-> "not_found", length |-> 1],
   [upload |-> 0, redirect |-> "none", rejected |-> FALSE, code |-> "ok", length |-> 2]}

\* Messages of no, a full, several and part of a chunk, in both directions.
SmallScript ==
  [client |-> <<[id |-> 1, size |-> 2], [id |-> 2, size |-> 5], [id |-> 3, size |-> 0]>>,
   server |-> <<[id |-> 4, size |-> 3], [id |-> 5, size |-> 4]>>]

\* Three resources: inline, behind URIs of their own, and behind one that shares
\* cache id 9, with every encoding and outcome.
Encodings == {"plain", "gzip", "corrupt"}
SmallResources(i) ==
  {Inline(i, e) : e \in Encodings}
  \cup {Uri("https", 0, i, e) : e \in Encodings \cup {"error"}}
  \cup {Uri("https", 9, 9, e) : e \in Encodings \cup {"error"}}
  \cup {Uri("invalid", 0, i, "plain"), Uri("invalid", 9, 9, "plain")}
SmallCaches ==
  {NoCache, [enabled |-> TRUE, entries |-> <<>>]}
  \cup {[enabled |-> TRUE, entries |-> [i \in {9} |-> [of |-> 9, encoding |-> e]]] : e \in Encodings}
NoFetch == [resources |-> <<>>, cache |-> NoCache]

fetchVars == <<fetch, fetched>>
allParts == <<vars, runnerVars, httpVars, streamVars, fetchVars, part>>

TransportInit ==
  /\ part \in {"client", "runner", "requests", "stream", "fetch"}
  /\ Init /\ StreamInit
  /\ RunnerInit /\ (part # "runner" => via = "http" /\ hasCheckpoint)
  /\ HttpInit
  /\ part # "requests" => httpClient = "curl" /\ \A r \in Requests : reply[r].length = 0
  /\ fetch \in IF part # "fetch" THEN {NoFetch}
               ELSE [resources : SmallResources(1) \X SmallResources(2) \X SmallResources(3),
                     cache : SmallCaches]
  /\ fetched = FetchResourcesInMemory(fetch.resources, fetch.cache)

Only(p, A) == part = p /\ A /\ UNCHANGED <<part, fetchVars>>
ClientPart(A)   == Only("client", A) /\ UNCHANGED <<runnerVars, httpVars, streamVars>>
RunnerPart(A)   == Only("runner", A) /\ UNCHANGED <<vars, httpVars, streamVars>>
RequestsPart(A) == Only("requests", A) /\ UNCHANGED <<vars, runnerVars, streamVars>>
StreamPart(A)   == Only("stream", A) /\ UNCHANGED <<vars, runnerVars, httpVars>>

TransportNext ==
  ClientPart(Next) \/ RunnerPart(RunnerNext) \/ RequestsPart(HttpNext) \/ StreamPart(StreamNext)

\* The fairness of each part, for its own behaviors.
TransportSpec ==
  /\ TransportInit /\ [][TransportNext]_allParts
  /\ WF_allParts(RunnerPart(Caller)) /\ WF_allParts(RunnerPart(Body))
  /\ \A t \in {"body", "caller"} : /\ WF_allParts(RunnerPart(HttpSend(t) /\ ~MayHang(t)))
                                   /\ WF_allParts(RunnerPart(GrpcSend(t)))
  /\ WF_allParts(RequestsPart(CallerNext))
  /\ WF_allParts(StreamPart(CloseLocked))
  /\ \A e \in Ends : /\ WF_allParts(StreamPart(StreamSend(e)))
                     /\ WF_allParts(StreamPart(Receive(e)))
                     /\ WF_allParts(StreamPart(ReceiveRaw(e)))

-----------------------------------------------------------------------------
(* What FetchResourcesInMemory promises.                                   *)

Good(body) == body.encoding \in {"plain", "gzip"}

\* A resource is the data that is inline, in the cache or behind its URI, or an
\* error where that cannot be had.
OwnData(r) ==
  IF Good(r) \/ (r.uri # "" /\ TryGetResourceFromCache(fetch.cache, r.id).ok) THEN Got(r.of) ELSE Error

\* What the same fetch returns when the network is gone.
Offline ==
  LET Cut(r) == IF r.uri = "" THEN r ELSE [r EXCEPT !.encoding = "error"]
  IN  FetchResourcesInMemory([i \in DOMAIN fetch.resources |-> Cut(fetch.resources[i])], fetched.cache).results

=============================================================================
