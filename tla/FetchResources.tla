--------------------------- MODULE FetchResources ---------------------------
(***************************************************************************)
(* FetchResourcesInMemory (client/http/in_memory_request_response.cc) as a *)
(* function: resources with inline data, in the cache, or behind a URI,    *)
(* and what the requests return, in their order, to results in the order   *)
(* of the resources.  Data is what it is the data of, with its encoding;   *)
(* the cache is a function from cache ids to data.                         *)
(***************************************************************************)
EXTENDS Naturals, Sequences, SequencesExt

Error == [ok |-> FALSE, of |-> 0]
Got(x) == [ok |-> TRUE, of |-> x]
NoCache == [enabled |-> FALSE, entries |-> <<>>]

\* A UriOrInlineData, with what a request for its URI would return.
Inline(of, encoding) == [uri |-> "", id |-> 0, of |-> of, encoding |-> encoding]
Uri(uri, id, of, encoding) == [uri |-> uri, id |-> id, of |-> of, encoding |-> encoding]

\* Gzip data that was not written by CompressWithGzip does not decode.
UncompressWithGzip(body) == IF body.encoding = "gzip" THEN Got(body.of) ELSE Error

\* What the metadata says of the encoding is what is done with the data.
TryGetResourceFromCache(cache, id) ==
  IF ~(cache.enabled /\ id # 0 /\ id \in DOMAIN cache.entries) THEN Error
  ELSE LET e == cache.entries[id] IN IF e.encoding = "plain" THEN Got(e.of) ELSE UncompressWithGzip(e)

\* Put keeps an entry that is there.
TryPutResourceInCache(cache, id, body) ==
  IF id \in DOMAIN cache.entries THEN cache
  ELSE [cache EXCEPT !.entries = [i \in DOMAIN @ \cup {id} |->
         IF i = id THEN [of |-> body.of, encoding |-> body.encoding] ELSE @[i]]]

Missed(cache, r) == r.uri # "" /\ ~TryGetResourceFromCache(cache, r.id).ok


\* Its slot is the number of requests up to its own.
ResponseIndex(resources, cache, i) ==
  Len(SelectSeq(SubSeq(resources, 1, i), LAMBDA r : Missed(cache, r)))

\* PerformMultipleRequestsInMemory: a response for each request.
Responses(resources, cache) == SelectSeq(resources, LAMBDA r : Missed(cache, r))

\* A response as the result: the body that came with a gzip suffix is decoded.
Decoded(body) ==
  CASE body.encoding = "error" -> Error
    [] body.encoding = "plain" -> Got(body.of)
    [] OTHER                   -> UncompressWithGzip(body)

\* The body that the accessor of resource i returns.
Accessed(resources, cache, i) ==
  IF ~Missed(cache, resources[i]) THEN resources[i]
  ELSE LET k == ResponseIndex(resources, cache, i) IN
       IF k \in DOMAIN Responses(resources, cache) THEN Responses(resources, cache)[k]
       ELSE [resources[i] EXCEPT !.encoding = "error"]

\* The whole call fails when a URI that it must fetch is not one to make a request
\* of.  What was fetched is put in the cache, as it came, before it is decoded.
FetchResourcesInMemory(resources, cache) ==
  LET Fetched(i) == Missed(cache, resources[i])
      Result(i) == IF resources[i].uri # "" /\ ~Fetched(i)
                   THEN TryGetResourceFromCache(cache, resources[i].id)
                   ELSE Decoded(Accessed(resources, cache, i))
      Kept(c, i) ==
        LET body == Accessed(resources, cache, i) IN
        IF Fetched(i) /\ c.enabled /\ resources[i].id # 0 /\ body.encoding # "error"
        THEN TryPutResourceInCache(c, resources[i].id, body) ELSE c
  IN IF \E i \in DOMAIN resources : Fetched(i) /\ resources[i].uri = "invalid"
     THEN [ok |-> FALSE, results |-> <<>>, cache |-> cache]
     ELSE [ok |-> TRUE, results |-> [i \in DOMAIN resources |-> Result(i)],
           cache |-> FoldLeft(Kept, cache, [i \in DOMAIN resources |-> i])]
=============================================================================
