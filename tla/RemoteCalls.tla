---------------------------- MODULE RemoteCalls ----------------------------
(***************************************************************************)
(* What the plugin's jobs do on the network: QdrantClient requests, which  *)
(* are retried, and FaceServerClient pushes, which are not, both through   *)
(* an HttpClient and its pool of handles.  The network loses and delays    *)
(* requests and answers; a client that gave up does not take its request   *)
(* back.                                                                   *)
(***************************************************************************)
EXTENDS HandlePool

CONSTANTS MaxRetries,   \* config_.max_retries
          MaxCalls      \* bound: calls a thread makes

ASSUME RemoteCallsAssumption == MaxRetries \in Nat /\ MaxCalls \in Nat \ {0}

VARIABLES
  step,      \* per thread: where it is in a call
  call,      \* per thread: what it asks, which call it is, which attempt
  result,    \* per thread: what the last attempt returned
  opts,      \* per handle: the options set on it
  net,       \* requests under way
  replies,   \* answers under way
  applied,   \* how often the server applied each call
  done       \* calls that returned, and whether they returned ok

vars == <<poolVars, step, call, result, opts, net, replies, applied, done>>
wire == <<net, replies, applied>>

Ops == {"search", "upsert", "push"}
CallIds == Threads \X (1..MaxCalls)
Calls == [op : Ops, n : 0..MaxCalls, attempt : 0..(MaxRetries + 1)]
Id(t) == <<t, call[t].n>>

(* An answer by what the clients tell apart: 2xx with and without a body   *)
(* that says success, 429 and 5xx, other errors (and the error replies     *)
(* whose handling throws).  "none" is status 0, a transport failure.       *)
Statuses == {"ok", "ok_bad_body", "busy", "reject"}
Results == Statuses \cup {"none"}
AllOptions == {"customrequest", "post", "mime"}
Requests == [id : CallIds, op : Ops, attempt : 1..(MaxRetries + 1), opts : SUBSET AllOptions]
Replies == [id : CallIds, attempt : 1..(MaxRetries + 1), status : Statuses]

TypeOK ==
  /\ PoolTypeOK
  /\ step \in [Threads -> {"idle", "acquire", "perform", "wait", "release", "decide", "sleep"}]
  /\ call \in [Threads -> Calls]
  /\ result \in [Threads -> Results]
  /\ opts \in [Handles -> SUBSET AllOptions]
  /\ net \subseteq Requests
  /\ replies \subseteq Replies
  /\ applied \in [CallIds -> 0..(MaxRetries + 1)]
  /\ done \subseteq [id : CallIds, op : Ops, ok : BOOLEAN]

Init ==
  /\ PoolInit
  /\ step = [t \in Threads |-> "idle"]
  /\ call = [t \in Threads |-> [op |-> "search", n |-> 0, attempt |-> 0]]
  /\ result = [t \in Threads |-> "none"]
  /\ opts = [h \in Handles |-> {}]
  /\ net = {} /\ replies = {}
  /\ applied = [c \in CallIds |-> 0]
  /\ done = {}

Goto(t, s) == step' = [step EXCEPT ![t] = s]

StartCall(t) ==
  /\ step[t] = "idle" /\ call[t].n < MaxCalls
  /\ \E op \in Ops :
       call' = [call EXCEPT ![t] = [op |-> op, n |-> @.n + 1, attempt |-> 1]]
  /\ Goto(t, "acquire")
  /\ UNCHANGED <<poolVars, result, opts, wire, done>>

Acquire(t) ==
  /\ step[t] = "acquire" /\ AcquireStep(t)
  /\ UNCHANGED <<step, call, result, opts, wire, done>>

(* curl_easy_init failed: the request ends before it began.                *)
NoHandle(t) ==
  /\ step[t] = "acquire" /\ ReleaseNull(t)
  /\ result' = [result EXCEPT ![t] = "none"]
  /\ Goto(t, "decide")
  /\ UNCHANGED <<call, opts, wire, done>>

(* Upsert is a PUT, search a POST, push a multipart form.                  *)
Options(op) == CASE op = "upsert" -> {"customrequest", "post"}
                 [] op = "search" -> {"post"}
                 [] op = "push" -> {"mime"}

(* Mutant: no curl_easy_reset, the handle keeps its last request's options.*)
SetOptionsOnly(t) ==
  /\ step[t] = "acquire" /\ at[t] = "have"
  /\ opts' = [opts EXCEPT ![hold[t]] = @ \cup Options(call[t].op)]
  /\ Goto(t, "perform")
  /\ UNCHANGED <<poolVars, call, result, wire, done>>
Prepare(t) ==
  /\ step[t] = "acquire" /\ at[t] = "have"
  /\ opts' = [opts EXCEPT ![hold[t]] = Options(call[t].op)]
  /\ Goto(t, "perform")
  /\ UNCHANGED <<poolVars, call, result, wire, done>>

(* curl_mime_init fails: the upload returns without sending.               *)
MimeFails(t) ==
  /\ step[t] = "acquire" /\ at[t] = "have" /\ call[t].op = "push"
  /\ opts' = [opts EXCEPT ![hold[t]] = {}]
  /\ result' = [result EXCEPT ![t] = "none"]
  /\ Goto(t, "release")
  /\ UNCHANGED <<poolVars, call, wire, done>>

Perform(t) ==
  /\ step[t] = "perform"
  /\ net' = net \cup {[id |-> Id(t), op |-> call[t].op, attempt |-> call[t].attempt,
                       opts |-> opts[hold[t]]]}
  /\ Goto(t, "wait")
  /\ UNCHANGED <<poolVars, call, result, opts, replies, applied, done>>

Awaiting(r) == {t \in Threads : step[t] = "wait" /\ Id(t) = r.id
                                  /\ call[t].attempt = r.attempt}

(* The server: an error of its own may come after it applied the request.  *)
(* A request that is never served is lost; an answer nobody waits for, too.*)
Serve(r) ==
  /\ net' = net \ {r}
  /\ \E s \in Statuses :
       /\ applied' \in {applied, [applied EXCEPT ![r.id] = @ + 1]}
       /\ s \in {"ok", "ok_bad_body"} => applied'[r.id] # applied[r.id]
       /\ replies' = replies \cup {[id |-> r.id, attempt |-> r.attempt, status |-> s] : t \in Awaiting(r)}
  /\ UNCHANGED <<poolVars, step, call, result, opts, done>>

Answered(t) ==
  /\ step[t] = "wait"
  /\ \E a \in replies :
       /\ a.id = Id(t) /\ a.attempt = call[t].attempt
       /\ result' = [result EXCEPT ![t] = a.status]
       /\ replies' = replies \ {a}
  /\ Goto(t, "release")
  /\ UNCHANGED <<poolVars, call, opts, net, applied, done>>

(* The timeout of CURLOPT_TIMEOUT_MS, a refused connection, a cut one.     *)
TransportFails(t) ==
  /\ step[t] = "wait"
  /\ result' = [result EXCEPT ![t] = "none"]
  /\ replies' = {a \in replies : a.id # Id(t)}
  /\ Goto(t, "release")
  /\ UNCHANGED <<poolVars, call, opts, net, applied, done>>

(* ~PooledHandle, also when an exception is on its way.                    *)
GiveBack(t) ==
  /\ step[t] = "release" /\ Release(t)
  /\ Goto(t, "decide")
  /\ UNCHANGED <<call, result, opts, wire, done>>

(* Mutant: pushes are retried like the requests to Qdrant.                 *)
RetryablePushToo(t) == result[t] \in {"none", "busy"}
(* Only QdrantClient::Request retries; other errors return or throw.   *)
Retryable(t) == call[t].op # "push" /\ result[t] \in {"none", "busy"}

(* FromHttp wants a body that says success, DoRequest only a 2xx status.   *)
Succeeded(t) ==
  result[t] = "ok" \/ (result[t] = "ok_bad_body" /\ call[t].op # "push")
AttemptsLeft(t) == call[t].attempt <= MaxRetries

Sleep(t) ==
  /\ step[t] = "decide" /\ Retryable(t) /\ AttemptsLeft(t)
  /\ Goto(t, "sleep")
  /\ UNCHANGED <<poolVars, call, result, opts, wire, done>>

TryAgain(t) ==
  /\ step[t] = "sleep"
  /\ call' = [call EXCEPT ![t].attempt = @ + 1]
  /\ Goto(t, "acquire")
  /\ UNCHANGED <<poolVars, result, opts, wire, done>>

Return(t) ==
  /\ step[t] = "decide" /\ ~(Retryable(t) /\ AttemptsLeft(t))
  /\ done' = done \cup {[id |-> Id(t), op |-> call[t].op, ok |-> Succeeded(t)]}
  /\ result' = [result EXCEPT ![t] = "none"]
  /\ Goto(t, "idle")
  /\ UNCHANGED <<poolVars, call, opts, wire>>

Thread(t) ==
  \/ Acquire(t) \/ NoHandle(t) \/ Prepare(t) \/ MimeFails(t) \/ Perform(t)
  \/ Answered(t) \/ TransportFails(t) \/ GiveBack(t)
  \/ Sleep(t) \/ TryAgain(t) \/ Return(t)

(* The end of the bounded run, also where the others sleep in the pool      *)
(* because a handle could not be created.                                  *)
Finished ==
  /\ \A t \in Threads :
       \/ step[t] = "idle" /\ call[t].n = MaxCalls
       \/ failed /\ at[t] = "wait" /\ free = {}
  /\ UNCHANGED vars

Next ==
  \/ \E t \in Threads : StartCall(t) \/ Thread(t)
  \/ \E r \in net : Serve(r)
  \/ Finished

Spec == Init /\ [][Next]_vars

(* curl's timeout ends every wait; nothing makes a thread start a call.    *)
FairSpec == Spec /\ \A t \in Threads : WF_vars(Thread(t))
-----------------------------------------------------------------------------
(* A request leaves with the options of its own method only, whatever the  *)
(* pooled handle was used for before (curl_easy_reset in Request, Upload). *)
OwnOptions == \A r \in net : r.opts = Options(r.op)

(* What a caller is told: ok only if the server applied the call, even     *)
(* when an earlier attempt of it was lost; and a push, which is not        *)
(* idempotent, is applied at most once.                                    *)
HonestResult ==
  /\ TypeOK
  /\ \A d \in done : d.ok => applied[d.id] > 0
  /\ \A d \in done : d.op = "push" => applied[d.id] <= 1

(* A call ends, however often the network fails, unless a curl handle      *)
(* could not be created: that Release wakes nobody (http_client.cpp:73).   *)
CallsEnd == \A t \in Threads : (step[t] # "idle") ~> (step[t] = "idle" \/ failed)
=============================================================================
