----------------------------- MODULE HttpServer -----------------------------
(***************************************************************************)
(* The REST front end (src/server/http_server.cpp) and the signal handler  *)
(* of the server binary: worker threads of cpp-httplib run the handlers;   *)
(* chat requests call Engine::generate under g_engine_mutex, streaming     *)
(* ones push every segment to the client as it appears and stop the engine *)
(* when a write fails.                                                     *)
(*                                                                         *)
(* The engine is the Generator specification.  Texts are left out: what    *)
(* has been written to a client is the sequence of the kinds of events,    *)
(* with "chunk" standing for one or more content chunks in a row.          *)
(***************************************************************************)
EXTENDS Integers, Sequences, SequencesExt

CONSTANTS Worker,      \* threads of cpp-httplib's pool
          Free,        \* the mutex is not held
          Cap,         \* values of max_tokens in requests
          MaxReq       \* bound on the requests that arrive

ASSUME ConstAssumption ==
    /\ Free \notin Worker
    /\ Cap \subseteq Nat
    /\ MaxReq \in Nat

Kind == {"none", "get", "stream", "nonstream"}
Event == {"headers", "open", "chunk", "fin", "err", "done", "end",
          "reply"}

PC == {"free", "handler", "provider", "lock", "opener", "enter", "gen",
       "flush", "catch", "tail", "done", "return", "respond"}

VARIABLES
    mutex,                          \* g_engine_mutex: its holder, or Free
    busy, stop, cap, count, armed,  \* the engine
    up,                             \* the process is running
    requests,                       \* requests that have arrived
    pc,                             \* [Worker -> PC]
    kind,                           \* what the worker's request asks for
    sent,                           \* what the client has been sent
    status,                         \* response status; 0 before it is set
    connected,                      \* workers whose client's socket takes writes
    alive,                          \* those with client_alive in the lambda
    errored                         \* those with errored in the lambda

engine == <<busy, stop, cap, count, armed>>
local == <<kind, sent, status, connected, alive, errored>>
vars == <<mutex, engine, up, requests, pc, local>>

Gen == INSTANCE Generator

Goto(w, l) == pc' = [pc EXCEPT ![w] = l]

\* The guard's destructor.
Unlock(w) == mutex' = Free

\* An exception: the streaming lambda catches it under the lock, the plain
\* handler only after its guard has been destroyed.
Throw(w) ==
    /\ Goto(w, "catch")
    /\ IF kind[w] = "stream" THEN UNCHANGED mutex ELSE Unlock(w)

\* sink.write succeeds and the client gets the event.
Put(w, e) ==
    sent' = [sent EXCEPT ![w] =
               IF e = "chunk" /\ Last(@) = "chunk" THEN @ ELSE Append(@, e)]

\* A write whose result the code ignores.
Offer(w, e) == IF w \in connected THEN Put(w, e) ELSE UNCHANGED sent

Init ==
    /\ mutex = Free
    /\ Gen!Init
    /\ up = TRUE
    /\ requests = 0
    /\ pc = [w \in Worker |-> "free"]
    /\ kind = [w \in Worker |-> "none"]
    /\ sent = [w \in Worker |-> << >>]
    /\ status = [w \in Worker |-> 0]
    /\ connected = {}
    /\ alive = {}
    /\ errored = {}

-----------------------------------------------------------------------------
(* Before the engine.                                                      *)

\* cpp-httplib hands a connection to an idle worker.
Arrive(w, k) ==
    /\ up /\ pc[w] = "free" /\ requests < MaxReq
    /\ requests' = requests + 1
    /\ Goto(w, "handler")
    /\ kind' = [kind EXCEPT ![w] = k]
    /\ sent' = [sent EXCEPT ![w] = << >>]
    /\ status' = [status EXCEPT ![w] = 0]
    /\ connected' = connected \cup {w}
    /\ UNCHANGED <<mutex, engine, up, alive, errored>>

\* /health, /v1/models and OPTIONS: no lock is taken.
GetHandler(w) ==
    /\ up /\ pc[w] = "handler" /\ kind[w] = "get"
    /\ \E s \in {200, 204} : status' = [status EXCEPT ![w] = s]
    /\ Goto(w, "respond")
    /\ UNCHANGED <<mutex, engine, up, requests, kind, sent, connected, alive,
                   errored>>

\* Malformed JSON or no messages: 400.  A field of the wrong type throws out
\* of the handler, which cpp-httplib answers with 500.
RejectBody(w) ==
    /\ up /\ pc[w] = "handler" /\ kind[w] # "get"
    /\ \E s \in {400, 500} : status' = [status EXCEPT ![w] = s]
    /\ Goto(w, "respond")
    /\ UNCHANGED <<mutex, engine, up, requests, kind, sent, connected, alive,
                   errored>>

\* The handler returns after registering the content provider.
SetProvider(w) ==
    /\ up /\ pc[w] = "handler" /\ kind[w] = "stream"
    /\ status' = [status EXCEPT ![w] = 200]
    /\ Goto(w, "provider")
    /\ UNCHANGED <<mutex, engine, up, requests, kind, sent, connected, alive,
                   errored>>

\* cpp-httplib writes the headers and calls the provider, unless the socket
\* is already gone.
CallProvider(w) ==
    /\ up /\ pc[w] = "provider"
    /\ Offer(w, "headers")
    /\ Goto(w, IF w \in connected THEN "lock" ELSE "free")
    /\ UNCHANGED <<mutex, engine, up, requests, kind, status, connected, alive,
                   errored>>

PlainChat(w) ==
    /\ up /\ pc[w] = "handler" /\ kind[w] = "nonstream"
    /\ Goto(w, "lock")
    /\ UNCHANGED <<mutex, engine, up, requests, local>>

\* A fault: the lock is not taken into account.
EnterUnlocked(w) ==
    /\ up /\ pc[w] = "lock"
    /\ mutex' = w
    /\ Goto(w, IF kind[w] = "stream" THEN "opener" ELSE "enter")
    /\ UNCHANGED <<engine, up, requests, local>>

Lock(w) ==
    /\ up /\ pc[w] = "lock"
    /\ mutex = Free
    /\ mutex' = w
    /\ Goto(w, IF kind[w] = "stream" THEN "opener" ELSE "enter")
    /\ UNCHANGED <<engine, up, requests, local>>

\* A fault: the early return does not release the mutex.
OpenerKeepsLock(w) ==
    /\ up /\ pc[w] = "opener"
    /\ Offer(w, "open")
    /\ IF w \in connected
       THEN /\ Goto(w, "enter")
            /\ alive' = alive \cup {w}
            /\ errored' = errored \ {w}
       ELSE Goto(w, "free") /\ UNCHANGED <<alive, errored>>
    /\ UNCHANGED <<mutex, engine, up, requests, kind, status, connected>>

\* The role-only opener; if it cannot be written the provider gives up.
Opener(w) ==
    /\ up /\ pc[w] = "opener"
    /\ Offer(w, "open")
    /\ IF w \in connected
       THEN /\ Goto(w, "enter")
            /\ alive' = alive \cup {w}
            /\ errored' = errored \ {w}
            /\ UNCHANGED mutex
       ELSE /\ Goto(w, "free")
            /\ Unlock(w)
            /\ UNCHANGED <<alive, errored>>
    /\ UNCHANGED <<engine, up, requests, kind, status, connected>>

-----------------------------------------------------------------------------
(* engine.generate(prompt, params, token_cb), on the worker's own thread.  *)

Enter(w) ==
    /\ up /\ pc[w] = "enter"
    /\ \/ \E m \in Cap : Gen!Enter(m) /\ Goto(w, "gen") /\ UNCHANGED mutex
       \/ Gen!Refuse /\ Throw(w)
    /\ UNCHANGED <<up, requests, local>>

Decode(w) ==
    /\ up /\ pc[w] = "gen"
    /\ Gen!Decide
    /\ UNCHANGED <<mutex, up, requests, pc, local>>

\* A fault: the result of sink.write is taken the wrong way round.
EmitInverted(w) ==
    /\ up
    /\ (pc[w] = "gen" /\ armed) \/ pc[w] = "flush"
    /\ kind[w] = "stream" /\ w \in alive
    /\ IF w \in connected
       THEN Put(w, "chunk") /\ alive' = alive \ {w} /\ Gen!Stop
       ELSE UNCHANGED <<sent, alive, engine>>
    /\ UNCHANGED <<mutex, up, requests, pc, kind, status, connected, errored>>

\* A fault: a failed write does not stop the engine.
EmitNoStop(w) ==
    /\ up
    /\ (pc[w] = "gen" /\ armed) \/ pc[w] = "flush"
    /\ kind[w] = "stream" /\ w \in alive
    /\ IF w \in connected
       THEN Put(w, "chunk") /\ UNCHANGED alive
       ELSE alive' = alive \ {w} /\ UNCHANGED sent
    /\ UNCHANGED <<mutex, engine, up, requests, pc, kind, status, connected,
                   errored>>

\* emit_segment: one segment out of ThinkSplit, in token_cb or in flush.
EmitSegment(w) ==
    /\ up
    /\ (pc[w] = "gen" /\ armed) \/ pc[w] = "flush"
    /\ kind[w] = "stream" /\ w \in alive
    /\ IF w \in connected
       THEN Put(w, "chunk") /\ UNCHANGED <<alive, engine>>
       ELSE /\ alive' = alive \ {w}
            /\ Gen!Stop
            /\ UNCHANGED sent
    /\ UNCHANGED <<mutex, up, requests, pc, kind, status, connected, errored>>

\* token_cb returns to the decode loop.
TokenDone(w) ==
    /\ up /\ pc[w] = "gen"
    /\ Gen!Deliver
    /\ UNCHANGED <<mutex, up, requests, pc, kind, sent, status, connected,
                   alive, errored>>

\* json::dump throws inside token_cb (a segment that is not UTF-8).
CallbackThrows(w) ==
    /\ up /\ pc[w] = "gen" /\ armed
    /\ kind[w] = "stream" /\ w \in alive
    /\ Gen!Return
    /\ Throw(w)
    /\ UNCHANGED <<up, requests, local>>

GenerateReturns(w) ==
    /\ up /\ pc[w] = "gen" /\ ~armed
    /\ Gen!Return
    /\ Goto(w, "flush")
    /\ UNCHANGED <<mutex, up, requests, local>>

\* splitter.flush has emitted what was left; the plain handler then puts
\* the whole body together.
Flushed(w) ==
    /\ up /\ pc[w] = "flush"
    /\ IF kind[w] = "stream"
       THEN Goto(w, "tail") /\ UNCHANGED <<mutex, status>>
       ELSE /\ status' = [status EXCEPT ![w] = 200]
            /\ Unlock(w)
            /\ Goto(w, "respond")
    /\ UNCHANGED <<engine, up, requests, kind, sent, connected, alive, errored>>

\* dump throws on what was left, or on the whole body.
FlushThrows(w) ==
    /\ up /\ pc[w] = "flush"
    /\ kind[w] = "stream" => w \in alive
    /\ Throw(w)
    /\ UNCHANGED <<engine, up, requests, local>>

-----------------------------------------------------------------------------
(* After the engine.                                                       *)

\* An over-long prompt is a 400, anything else a 500; a stream that has
\* started can only carry an error event.
Catch(w) ==
    /\ up /\ pc[w] = "catch"
    /\ IF kind[w] = "stream"
       THEN /\ errored' = errored \cup {w}
            /\ IF w \in alive THEN Offer(w, "err") ELSE UNCHANGED sent
            /\ Goto(w, "tail")
            /\ UNCHANGED status
       ELSE /\ \E s \in {400, 500} : status' = [status EXCEPT ![w] = s]
            /\ Goto(w, "respond")
            /\ UNCHANGED <<errored, sent>>
    /\ UNCHANGED <<mutex, engine, up, requests, kind, connected, alive>>

\* A fault: the finish chunk follows an error event, too.
FinishAlways(w) ==
    /\ up /\ pc[w] = "tail"
    /\ IF w \in alive THEN Offer(w, "fin") ELSE UNCHANGED sent
    /\ Goto(w, "done")
    /\ UNCHANGED <<mutex, engine, up, requests, kind, status, connected, alive,
                   errored>>

FinishChunk(w) ==
    /\ up /\ pc[w] = "tail"
    /\ IF w \in alive /\ w \notin errored THEN Offer(w, "fin") ELSE UNCHANGED sent
    /\ Goto(w, "done")
    /\ UNCHANGED <<mutex, engine, up, requests, kind, status, connected, alive,
                   errored>>

DoneEvent(w) ==
    /\ up /\ pc[w] = "done"
    /\ IF w \in alive THEN Offer(w, "done") ELSE UNCHANGED sent
    /\ Goto(w, "return")
    /\ UNCHANGED <<mutex, engine, up, requests, kind, status, connected, alive,
                   errored>>

\* sink.done() writes the last HTTP chunk; the lambda returns.
ProviderReturns(w) ==
    /\ up /\ pc[w] = "return"
    /\ Offer(w, "end")
    /\ Unlock(w)
    /\ Goto(w, "free")
    /\ UNCHANGED <<engine, up, requests, kind, status, connected, alive,
                   errored>>

\* cpp-httplib writes the response the handler has set.
Respond(w) ==
    /\ up /\ pc[w] = "respond"
    /\ Offer(w, "reply")
    /\ Goto(w, "free")
    /\ UNCHANGED <<mutex, engine, up, requests, kind, status, connected, alive,
                   errored>>

-----------------------------------------------------------------------------
\* The client hangs up, or is so slow that writes to it time out.
Disconnect(w) ==
    /\ up /\ w \in connected /\ pc[w] # "free"
    /\ connected' = connected \ {w}
    /\ UNCHANGED <<mutex, engine, up, requests, pc, kind, sent, status, alive,
                   errored>>

\* SIGINT or SIGTERM: engine.stop(), then exit(0).
signal_handler ==
    /\ up
    /\ Gen!Stop
    /\ up' = FALSE
    /\ UNCHANGED <<mutex, requests, pc, local>>

\* What a worker does once a request has been handed to it.
Work(w) ==
    \/ GetHandler(w) \/ RejectBody(w) \/ SetProvider(w) \/ CallProvider(w)
    \/ PlainChat(w) \/ Lock(w) \/ Opener(w)
    \/ Enter(w) \/ Decode(w) \/ EmitSegment(w) \/ TokenDone(w)
    \/ CallbackThrows(w) \/ GenerateReturns(w) \/ Flushed(w) \/ FlushThrows(w)
    \/ Catch(w) \/ FinishChunk(w) \/ DoneEvent(w) \/ ProviderReturns(w) \/ Respond(w)

Next ==
    \/ \E w \in Worker : \/ \E k \in Kind \ {"none"} : Arrive(w, k)
                         \/ Work(w)
                         \/ Disconnect(w)
    \/ signal_handler

\* Threads are scheduled; the mutex itself need not be fair.
Spec == Init /\ [][Next]_vars /\ \A w \in Worker : WF_vars(Work(w))

-----------------------------------------------------------------------------
(* Correctness.                                                            *)

ServerTypeOK ==
    /\ mutex \in Worker \cup {Free}
    /\ requests \in 0..MaxReq
    /\ pc \in [Worker -> PC]
    /\ kind \in [Worker -> Kind]
    /\ sent \in [Worker -> Seq(Event)]
    /\ status \in [Worker -> {0, 200, 204, 400, 500}]
    /\ connected \subseteq Worker
    /\ alive \subseteq Worker
    /\ errored \subseteq Worker

TypeOK == ServerTypeOK /\ up \in BOOLEAN /\ Gen!TypeOK

\* Where a worker is inside the scope of its lock_guard.
Holds(w) ==
    \/ pc[w] \in {"opener", "enter", "gen", "flush", "tail", "done", "return"}
    \/ pc[w] = "catch" /\ kind[w] = "stream"

\* generate() is never entered while another call of it runs: two calls would
\* overwrite each other's KV slots.  Every early return and exception of the
\* two handlers has released the mutex, and none has released another's.
Serialized ==
    /\ \A w \in Worker : Holds(w) <=> mutex = w
    /\ \A w \in Worker : pc[w] = "enter" => ~busy
    /\ busy => \E w \in Worker : pc[w] = "gen"

\* A generation is cut short only because its own client is gone: the stop
\* flag that an earlier stream raised, even after its generate() had ended,
\* never reaches the next request.
OwnStop ==
    up /\ stop => \A w \in Worker :
                    pc[w] = "gen" => kind[w] = "stream" /\ w \notin connected

\* After a write to the client has failed, no further token is decoded for
\* it: the engine is stopped, and stays stopped until the call returns.
NoDecodeForTheDead ==
    [][\A w \in Worker : pc[w] = "gen" /\ kind[w] = "stream" /\ w \notin alive
                           => ~(~armed /\ armed')]_vars

\* Why: a stream whose write failed has raised the flag, and is past its
\* unconditional first token.
DeadIsStopped ==
    \A w \in Worker : kind[w] = "stream" =>
        /\ pc[w] = "enter" => w \in alive
        /\ pc[w] = "gen" /\ w \notin alive => stop /\ (armed \/ count > 0)

Inv == Serialized /\ OwnStop /\ DeadIsStopped

\* What a client that stays connected receives: one plain response, or a
\* whole event stream, with the role opener first, the chunks, then either
\* the finish chunk or an error event, [DONE] and the last HTTP chunk, each
\* exactly once.
Whole == {<<"headers", "open">> \o c \o <<f, "done", "end">> :
            c \in {<< >>, <<"chunk">>}, f \in {"fin", "err"}}
WellFormed ==
    \A w \in Worker :
        /\ pc[w] = "free" /\ w \in connected
              => sent[w] \in Whole \cup {<<"reply">>}
        /\ \E s \in Whole \cup {<<"reply">>} : IsPrefix(sent[w], s)

\* Every request is answered or its client gone, and the mutex is passed on,
\* as long as the process runs and requests do not come in without end.
Answered == \A w \in Worker : pc[w] = "handler" ~> pc[w] = "free" \/ ~up
=============================================================================
