----------------------------- MODULE HttpRequests -----------------------------
(***************************************************************************)
(* One call of PerformMultipleRequestsInMemory of src/fcp/client/http: the *)
(* caller's thread inside InterruptibleRunner::Run, the runner's pool      *)
(* thread inside HttpClient::PerformRequests, and the network.  The client *)
(* is the libcurl one, whose callbacks run on the pool thread, or the Java *)
(* one, whose requests run on threads of an ExecutorService.  A reply is   *)
(* one exchange with a server: the chunks of the request's body, a         *)
(* redirection, the headers, and the chunks of the answer's body, of which *)
(* the network may lose the end.  No request of this code has an           *)
(* Accept-Encoding header, so that both clients hide Content-Length.       *)
(***************************************************************************)
EXTENDS Naturals

CONSTANTS NumRequests,  \* requests of the call
          Replies,      \* [upload, redirect, rejected, code, length] of a server
          HttpClients   \* the clients a call may be made with

ASSUME NumRequestsPositive == NumRequests \in Nat \ {0}

VARIABLES
  httpClient,  \* "curl" or "java"
  reply,   \* what each server answers
  wire,    \* how much of each request was sent (chunks) and of its reply has
           \* arrived (blocks of headers, chunks)
  run,     \* where the caller's thread is in InterruptibleRunner::Run
  result,  \* what Run returned
  target,  \* the request the abort function cancels next
  closing, \* the Java handle of target is marked, close() is still to be called
  task,    \* where the pool thread is
  idx,     \* the request the pool thread adds, starts or awaits
  hdl,     \* the HttpRequestHandles
  cbk,     \* the InMemoryHttpRequestCallbacks
  alive,   \* handles and callbacks have not been deleted
  order,   \* history: which calls each callback has had, "broken" if out of order
  stray,   \* history: a deleted callback was called
  answers  \* what the call returned for each request

httpCall == <<httpClient, reply>>
caller == <<run, result, target, closing>>
pool == <<task, idx>>
callbacks == <<cbk, order, stray>>
httpVars == <<httpCall, wire, caller, pool, hdl, callbacks, alive, answers>>

Requests == 1..NumRequests
Reply == [upload : Nat, redirect : {"none", "moved_permanently", "found"},
          rejected : BOOLEAN, code : {"ok", "not_found"}, length : Nat]
ASSUME RepliesTyped == Replies \subseteq Reply /\ HttpClients \subseteq {"curl", "java"}

CurlHttpRequestHandle ==
  [callback |-> FALSE, response |-> FALSE, cancelled |-> FALSE, completed |-> FALSE,
   multi |-> FALSE]

JavaHttpRequestHandle ==
  [performed |-> FALSE, state |-> "NOT_STARTED", work |-> "none", future |-> FALSE]

InMemoryHttpRequestCallback == [status |-> "unavailable", code |-> "none", got |-> 0]

EnqueueRequest(client) ==
  IF client = "curl" THEN CurlHttpRequestHandle ELSE JavaHttpRequestHandle

HttpInit ==
  /\ httpClient \in HttpClients
  /\ reply \in [Requests -> Replies]
  /\ wire = [r \in Requests |-> [sent |-> 0, heads |-> 0, body |-> 0]]
  /\ run = "start" /\ result = "none" /\ target = 1 /\ closing = FALSE
  /\ task = "idle" /\ idx = 1
  /\ hdl = [r \in Requests |-> EnqueueRequest(httpClient)]
  /\ cbk = [r \in Requests |-> InMemoryHttpRequestCallback]
  /\ alive = TRUE
  /\ order = [r \in Requests |-> "none"]
  /\ stray = FALSE
  /\ answers = [r \in Requests |-> "none"]

-----------------------------------------------------------------------------
(* The callbacks.                                                          *)

\* http_client.h's order: a start then body blocks then one end, or one error.
After(o, call, ok) ==
  CASE call = "OnResponseStarted" /\ o = "none" -> IF ok THEN "started" ELSE "ended"
    [] call = "OnResponseError" /\ o = "none" -> "ended"
    [] call = "OnResponseBody" /\ o = "started" -> "started"
    [] call \in {"OnResponseBodyError", "OnResponseCompleted"} /\ o = "started" -> "ended"
    [] OTHER -> "broken"

Called(r, call, ok, new) ==
  /\ cbk' = [cbk EXCEPT ![r] = new]
  /\ order' = [order EXCEPT ![r] = After(@, call, ok)]
  /\ stray' = (stray \/ ~alive)

OnResponseStarted(r, code, ok) ==
  Called(r, "OnResponseStarted", ok,
         [cbk[r] EXCEPT !.code = code, !.status = IF ok THEN @ ELSE "invalid_argument"])

OnResponseError(r, status) ==
  Called(r, "OnResponseError", TRUE, [cbk[r] EXCEPT !.status = status])

OnResponseBody(r) ==
  Called(r, "OnResponseBody", TRUE, [cbk[r] EXCEPT !.got = @ + 1])

OnResponseBodyError(r, status) ==
  Called(r, "OnResponseBodyError", TRUE, [cbk[r] EXCEPT !.status = status])

\* The status of the code, whatever the status was before.
OnResponseCompleted(r) ==
  Called(r, "OnResponseCompleted", TRUE, [cbk[r] EXCEPT !.status = cbk[r].code])

Set(r, h) == hdl' = [hdl EXCEPT ![r] = h]

\* InMemoryHttpRequest::ReadBody gives the next chunk of the request's body.
ReadBody(r) ==
  /\ wire[r].sent < reply[r].upload
  /\ wire' = [wire EXCEPT ![r].sent = @ + 1]

-----------------------------------------------------------------------------
(* The libcurl client, on the pool thread.                                 *)

\* A failure of AddEasyHandle leaves PerformRequests with the earlier handles
\* still added.
CurlAddToMulti ==
  LET r == idx
      More == idx < NumRequests IN
  /\ httpClient = "curl" /\ task = "adding"
  /\ IF hdl[r].cancelled
     THEN OnResponseError(r, "cancelled") /\ task' = "cancelled" /\ UNCHANGED <<hdl, idx>>
     ELSE \/ /\ Set(r, [hdl[r] EXCEPT !.callback = TRUE, !.multi = TRUE])
             /\ task' = IF More THEN "adding" ELSE "performing"
             /\ idx' = IF More THEN idx + 1 ELSE idx
             /\ UNCHANGED callbacks
          \/ /\ Set(r, [hdl[r] EXCEPT !.callback = TRUE])
             /\ OnResponseError(r, "internal")
             /\ task' = "internal"
             /\ UNCHANGED idx
  /\ UNCHANGED <<httpCall, wire, caller, alive, answers>>

Transferring(r) == httpClient = "curl" /\ task = "performing" /\ hdl[r].multi

HeadBlocks(r) == IF reply[r].redirect = "none" THEN 1 ELSE 2

\* The code of the status line of the n-th block of headers.
ParseAsStatus(r, n) == IF n < HeadBlocks(r) THEN reply[r].redirect ELSE reply[r].code

\* The parser drops the headers that the callback would refuse: InitializeHeaders
\* told it so, as the request has no Accept-Encoding header.
UseCurlEncoding == TRUE
ParseAsHeader(r) == reply[r].rejected /\ ~UseCurlEncoding

\* The end of a block of headers, unless it is that of a 301.  From then on the
\* parser takes every line for the last one: each repeats the call for its block.
ParseAsLastLine(code) == code # "moved_permanently"

\* UploadCallback.
CurlUpload(r) ==
  /\ Transferring(r) /\ wire[r].heads = 0
  /\ ReadBody(r)
  /\ UNCHANGED <<httpCall, caller, pool, hdl, callbacks, alive, answers>>

\* HeaderCallback.
CurlHeaders(r) ==
  LET code == ParseAsStatus(r, wire[r].heads + 1) IN
  /\ Transferring(r) /\ wire[r].heads < HeadBlocks(r)
  /\ wire' = [wire EXCEPT ![r].heads = @ + 1]
  /\ IF ParseAsLastLine(code)
     THEN /\ Set(r, [hdl[r] EXCEPT !.response = TRUE])
          /\ OnResponseStarted(r, code, ~ParseAsHeader(r))
     ELSE UNCHANGED <<hdl, callbacks>>
  /\ UNCHANGED <<httpCall, caller, pool, alive, answers>>

\* DownloadCallback.
CurlBody(r) ==
  /\ Transferring(r) /\ wire[r].heads = HeadBlocks(r) /\ wire[r].body < reply[r].length
  /\ wire' = [wire EXCEPT ![r].body = @ + 1]
  /\ OnResponseBody(r)
  /\ UNCHANGED <<httpCall, caller, pool, hdl, alive, answers>>

\* A transfer is over because the reply has arrived, because it failed or
\* because ProgressCallback saw the cancellation: MarkAsCompleted is not told.
CurlMarkAsCompleted(r) ==
  /\ Transferring(r)
  /\ Set(r, [hdl[r] EXCEPT !.completed = TRUE, !.multi = FALSE])
  /\ IF hdl[r].cancelled THEN UNCHANGED callbacks
     ELSE IF hdl[r].response THEN OnResponseCompleted(r)
     ELSE OnResponseError(r, "internal")
  /\ UNCHANGED <<httpCall, wire, caller, pool, alive, answers>>

\* PerformMultiHandlesBlocked returns: nothing runs any more, or Perform failed.
CurlReturn ==
  /\ httpClient = "curl" /\ task = "performing"
  /\ task' \in {"internal"} \cup {s \in {"ok"} : \A r \in Requests : ~hdl[r].multi}
  /\ UNCHANGED <<httpCall, wire, caller, idx, hdl, callbacks, alive, answers>>

CurlCancel(r) ==
  LET h == hdl[r] IN
  IF ~h.callback \/ h.cancelled \/ h.completed THEN UNCHANGED <<hdl, callbacks>>
  ELSE /\ Set(r, [h EXCEPT !.cancelled = TRUE])
       /\ IF h.response THEN OnResponseBodyError(r, "cancelled")
          ELSE OnResponseError(r, "cancelled")

-----------------------------------------------------------------------------
(* The Java client: the pool thread, then the threads of the executor.     *)

JavaSetCallback ==
  LET r == idx
      More == idx < NumRequests IN
  /\ httpClient = "java" /\ task = "adding"
  /\ IF hdl[r].performed
     THEN task' = "invalid_argument" /\ UNCHANGED <<hdl, idx>>
     ELSE /\ Set(r, [hdl[r] EXCEPT !.performed = TRUE])
          /\ task' = IF More THEN "adding" ELSE "starting"
          /\ idx' = IF More THEN idx + 1 ELSE 1
  /\ UNCHANGED <<httpCall, wire, caller, callbacks, alive, answers>>

\* performRequest throws, and the process goes down, if the request has been
\* closed in the meantime.
JavaPerformRequest ==
  LET r == idx
      More == idx < NumRequests IN
  /\ httpClient = "java" /\ task = "starting"
  /\ IF hdl[r].state # "NOT_STARTED"
     THEN task' = "crashed" /\ UNCHANGED <<hdl, idx>>
     ELSE /\ Set(r, [hdl[r] EXCEPT !.state = "BEFORE_RESPONSE_HEADERS", !.work = "queued",
                                   !.future = TRUE])
          /\ task' = IF More THEN "starting" ELSE "awaiting"
          /\ idx' = IF More THEN idx + 1 ELSE 1
  /\ UNCHANGED <<httpCall, wire, caller, callbacks, alive, answers>>

\* waitForRequestCompletion.
JavaAwait ==
  /\ httpClient = "java" /\ task = "awaiting" /\ ~hdl[idx].future
  /\ IF idx < NumRequests THEN idx' = idx + 1 /\ UNCHANGED task
     ELSE task' = "ok" /\ UNCHANGED idx
  /\ UNCHANGED <<httpCall, wire, caller, hdl, callbacks, alive, answers>>

Working(r) == httpClient = "java" /\ hdl[r].work = "running" /\ task # "crashed"
WorkEnds(h) == [h EXCEPT !.work = "ended", !.future = FALSE]
Finished(h) == [WorkEnds(h) EXCEPT !.state = "CLOSED"]

\* runRequestToCompletion looks whether it is closed when it starts ...
JavaStart(r) ==
  /\ httpClient = "java" /\ task # "crashed" /\ hdl[r].work = "queued"
  /\ Set(r, IF hdl[r].state = "CLOSED" THEN WorkEnds(hdl[r])
            ELSE [hdl[r] EXCEPT !.work = "running"])
  /\ UNCHANGED <<httpCall, wire, caller, pool, callbacks, alive, answers>>

\* ... and before every call of the native layer.
JavaAborts(r) ==
  /\ Working(r) /\ hdl[r].state = "CLOSED"
  /\ Set(r, WorkEnds(hdl[r]))
  /\ UNCHANGED <<httpCall, wire, caller, pool, callbacks, alive, answers>>

\* sendRequestBody, through ReadRequestBody.
JavaUpload(r) ==
  /\ Working(r) /\ hdl[r].state = "BEFORE_RESPONSE_HEADERS"
  /\ ReadBody(r)
  /\ UNCHANGED <<httpCall, caller, pool, hdl, callbacks, alive, answers>>

JavaHeaders(r) ==
  /\ Working(r) /\ hdl[r].state = "BEFORE_RESPONSE_HEADERS"
  /\ wire[r].sent = reply[r].upload
  /\ wire' = [wire EXCEPT ![r].heads = HeadBlocks(r)]
  /\ OnResponseStarted(r, reply[r].code, ~reply[r].rejected)
  /\ Set(r, IF reply[r].rejected THEN Finished(hdl[r])
            ELSE [hdl[r] EXCEPT !.state = "AFTER_RESPONSE_HEADERS"])
  /\ UNCHANGED <<httpCall, caller, pool, alive, answers>>

JavaBody(r) ==
  /\ Working(r) /\ hdl[r].state = "AFTER_RESPONSE_HEADERS" /\ wire[r].body < reply[r].length
  /\ wire' = [wire EXCEPT ![r].body = @ + 1]
  /\ OnResponseBody(r)
  /\ UNCHANGED <<httpCall, caller, pool, hdl, alive, answers>>

\* The callback for an error that ends a request in the given state.
DoError(r, status) ==
  CASE hdl[r].state = "BEFORE_RESPONSE_HEADERS" -> OnResponseError(r, status)
    [] hdl[r].state = "AFTER_RESPONSE_HEADERS" -> OnResponseBodyError(r, status)
    [] OTHER -> UNCHANGED callbacks

\* An IOException: no connection, a timeout, a body cut short.
JavaFails(r) ==
  /\ Working(r)
  /\ DoError(r, "unavailable")
  /\ Set(r, Finished(hdl[r]))
  /\ UNCHANGED <<httpCall, wire, caller, pool, alive, answers>>

\* Mutant: the last callback is made without looking whether the request is closed.
JavaCompletesAnyway(r) ==
  /\ Working(r) /\ hdl[r].state # "BEFORE_RESPONSE_HEADERS"
  /\ wire[r].heads > 0 /\ wire[r].body = reply[r].length
  /\ OnResponseCompleted(r)
  /\ Set(r, Finished(hdl[r]))
  /\ UNCHANGED <<httpCall, wire, caller, pool, alive, answers>>

JavaCompletes(r) ==
  /\ Working(r) /\ hdl[r].state = "AFTER_RESPONSE_HEADERS" /\ wire[r].body = reply[r].length
  /\ OnResponseCompleted(r)
  /\ Set(r, Finished(hdl[r]))
  /\ UNCHANGED <<httpCall, wire, caller, pool, alive, answers>>

\* close() under the handle's Java lock; the thread that runs the request, if
\* any, goes on until it looks at the state.
JavaClose(r) ==
  LET h == hdl[r] IN
  IF h.state = "CLOSED" THEN UNCHANGED <<hdl, callbacks>>
  ELSE /\ DoError(r, "cancelled")
       /\ Set(r, [h EXCEPT !.state = "CLOSED", !.future = FALSE,
                           !.work = IF @ = "queued" THEN "ended" ELSE @])

-----------------------------------------------------------------------------
(* The caller's thread: InterruptibleRunner.                               *)

TaskOver == task \in {"ok", "internal", "cancelled", "invalid_argument"}

\* should_abort is asked before the task is posted ...
Run ==
  /\ run = "start"
  /\ \/ /\ run' = "returned" /\ result' = "cancelled"
        /\ UNCHANGED task
     \/ /\ run' = "waiting" /\ task' = "adding"
        /\ UNCHANGED result
  /\ UNCHANGED <<httpCall, wire, target, closing, idx, hdl, callbacks, alive, answers>>

\* ... and every polling period until the task is over.
TakeResult ==
  /\ run = "waiting" /\ TaskOver
  /\ run' = "returned" /\ result' = task
  /\ UNCHANGED <<httpCall, wire, target, closing, pool, hdl, callbacks, alive, answers>>

ShouldAbort ==
  /\ run = "waiting" /\ task # "crashed"
  /\ run' = "aborting"
  /\ UNCHANGED <<httpCall, wire, result, target, closing, pool, hdl, callbacks, alive, answers>>

\* The abort function: Cancel on every handle.
Cancel ==
  /\ run = "aborting" /\ task # "crashed"
  /\ IF httpClient = "java" /\ ~closing
     THEN /\ Set(target, [hdl[target] EXCEPT !.performed = TRUE])
          /\ closing' = TRUE
          /\ UNCHANGED <<run, target, callbacks>>
     ELSE /\ closing' = FALSE
          /\ IF httpClient = "java" THEN JavaClose(target) ELSE CurlCancel(target)
          /\ IF target < NumRequests THEN target' = target + 1 /\ UNCHANGED run
             ELSE run' = "graceful" /\ UNCHANGED target
  /\ UNCHANGED <<httpCall, wire, result, pool, alive, answers>>

\* Mutant: after the extended period Run goes on waiting.
AbortWaitsOn ==
  /\ run \in {"graceful", "extended"} /\ task # "crashed"
  /\ \/ TaskOver /\ run' = "returned" /\ result' = "cancelled"
     \/ run = "graceful" /\ run' = "extended" /\ UNCHANGED result
  /\ UNCHANGED <<httpCall, wire, target, closing, pool, hdl, callbacks, alive, answers>>

\* The graceful and the extended shutdown period; exit(0) after the latter.
Abort ==
  /\ run \in {"graceful", "extended"} /\ task # "crashed"
  /\ \/ TaskOver /\ run' = "returned" /\ result' = "cancelled"
     \/ run' = (IF run = "graceful" THEN "extended" ELSE "exited") /\ UNCHANGED result
  /\ UNCHANGED <<httpCall, wire, target, closing, pool, hdl, callbacks, alive, answers>>

\* ~JavaHttpRequestHandle closes the Java object, holding the handle's mutex.
JavaDelete(h) == [h EXCEPT !.state = "CLOSED"]

\* The end of PerformMultipleRequestsInMemory: the responses are gathered, and
\* handles and callbacks deleted.
Gather ==
  /\ run = "returned"
  /\ run' = "done"
  /\ answers' = IF result = "ok" THEN [r \in Requests |-> cbk[r].status] ELSE answers
  /\ hdl' = IF httpClient = "curl" THEN hdl
            ELSE [r \in Requests |-> JavaDelete(hdl[r])]
  /\ stray' = \/ stray
              \/ /\ httpClient = "java"
                 /\ \E r \in Requests : hdl[r].state \notin {"NOT_STARTED", "CLOSED"}
  /\ alive' = FALSE
  /\ UNCHANGED <<httpCall, wire, result, target, closing, pool, cbk, order>>

CallerNext == Run \/ TakeResult \/ ShouldAbort \/ Cancel \/ Abort \/ Gather

HttpNext ==
  \/ run # "exited" /\
       \/ CurlAddToMulti \/ CurlReturn
       \/ JavaSetCallback \/ JavaPerformRequest \/ JavaAwait
       \/ \E r \in Requests :
            \/ CurlUpload(r) \/ CurlHeaders(r) \/ CurlBody(r) \/ CurlMarkAsCompleted(r)
            \/ JavaStart(r) \/ JavaAborts(r) \/ JavaUpload(r) \/ JavaHeaders(r)
            \/ JavaBody(r) \/ JavaFails(r) \/ JavaCompletes(r)
  \/ CallerNext

HttpSpec == HttpInit /\ [][HttpNext]_httpVars /\ WF_httpVars(CallerNext)

-----------------------------------------------------------------------------
(* Properties.                                                             *)

Whole(r) ==
  answers[r] = "ok" => wire[r].sent = reply[r].upload /\ cbk[r].got = reply[r].length

\* PerformMultipleRequestsInMemory deletes the handles and the callbacks when
\* InterruptibleRunner::Run has returned: no client calls a callback after
\* that, because Run waits for the task even when it aborts.  The Java client
\* also keeps http_client.h's order of calls, nothing following an error, a
\* completion or a refusal, and what it completes is the whole exchange, when
\* close() runs between any two steps of the request's thread.
CallbackContract ==
  ~stray /\ (httpClient = "java" => \A r \in Requests : order[r] # "broken" /\ Whole(r))

\* Once should_abort has said so the call is over, or the process is, even if
\* the network never answers and the pool thread never gets to run.
AbortHeeded == run = "aborting" ~> (run \in {"done", "exited"} \/ task = "crashed")
=============================================================================
