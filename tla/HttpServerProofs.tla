-------------------------- MODULE HttpServerProofs --------------------------
(* Theorems about HttpServer, for any number of workers and requests.      *)
EXTENDS HttpServer, TLAPS, SequenceTheorems

-----------------------------------------------------------------------------
(* The workers drive the engine by its contract, and types are kept.       *)

LEMMA GenTypeStep == Gen!TypeOK /\ [Gen!Next]_Gen!vars => Gen!TypeOK'
<1> SUFFICES ASSUME Gen!TypeOK, [Gen!Next]_Gen!vars PROVE Gen!TypeOK'
    OBVIOUS
<1>1. ASSUME NEW m \in Cap, Gen!Enter(m) PROVE Gen!TypeOK'
    BY <1>1 DEF Gen!Enter, Gen!TypeOK
<1>2. CASE Gen!Refuse \/ Gen!Decide \/ Gen!Stop
    BY <1>2 DEF Gen!Refuse, Gen!Decide, Gen!Stop, Gen!TypeOK
<1>3. CASE Gen!Deliver
  <2>1. cap' \in Cap \cup {0} /\ count' \in Nat
      BY <1>3 DEF Gen!Deliver, Gen!TypeOK
  <2>2. busy' \in BOOLEAN /\ stop' \in BOOLEAN /\ armed' \in BOOLEAN
      BY <1>3 DEF Gen!Deliver, Gen!TypeOK
  <2> QED
      BY <2>1, <2>2 DEF Gen!TypeOK
<1>4. CASE Gen!Return \/ Gen!Die
  <2>1. cap' \in Cap \cup {0} /\ count' \in Nat
      BY <1>4 DEF Gen!Return, Gen!Die
  <2>2. busy' \in BOOLEAN /\ stop' \in BOOLEAN /\ armed' \in BOOLEAN
      BY <1>4 DEF Gen!Return, Gen!Die, Gen!TypeOK
  <2> QED
      BY <2>1, <2>2 DEF Gen!TypeOK
<1>5. CASE UNCHANGED Gen!vars
    BY <1>5 DEF Gen!vars, Gen!TypeOK
<1> QED
    BY <1>1, <1>2, <1>3, <1>4, <1>5 DEF Gen!Next

\* Every step of the server is a step of the engine or leaves it alone.
LEMMA EngineStep == [Next]_vars => [Gen!Next]_Gen!vars
<1> SUFFICES ASSUME [Next]_vars PROVE [Gen!Next]_Gen!vars
    OBVIOUS
<1>1. ASSUME UNCHANGED engine PROVE [Gen!Next]_Gen!vars
    BY <1>1 DEF engine, Gen!vars
<1>2. ASSUME NEW w \in Worker, Enter(w) PROVE Gen!Next
    BY <1>2 DEF Enter, Gen!Next
<1>3. ASSUME NEW w \in Worker,
             Decode(w) \/ TokenDone(w) \/ CallbackThrows(w) \/ GenerateReturns(w)
      PROVE  Gen!Next
    BY <1>3 DEF Decode, TokenDone, CallbackThrows, GenerateReturns, Gen!Next
<1>4. ASSUME NEW w \in Worker, EmitSegment(w) PROVE [Gen!Next]_Gen!vars
    BY <1>1, <1>4 DEF EmitSegment, Gen!Next
<1>5. ASSUME NEW w \in Worker,
             \/ \E k \in Kind : Arrive(w, k)
             \/ GetHandler(w) \/ RejectBody(w) \/ SetProvider(w)
             \/ CallProvider(w) \/ PlainChat(w) \/ Lock(w) \/ Opener(w)
             \/ Flushed(w) \/ FlushThrows(w) \/ Catch(w) \/ FinishChunk(w)
             \/ DoneEvent(w) \/ ProviderReturns(w) \/ Respond(w)
             \/ Disconnect(w)
      PROVE  UNCHANGED engine
    BY <1>5
    DEF Arrive, GetHandler, RejectBody, SetProvider, CallProvider, PlainChat,
        Lock, Opener, Flushed, FlushThrows, Catch, FinishChunk, DoneEvent,
        ProviderReturns, Respond, Disconnect
<1>6. CASE signal_handler
    BY <1>6 DEF signal_handler, Gen!Next
<1>7. CASE UNCHANGED vars
    BY <1>1, <1>7 DEF vars
<1> QED
    BY <1>1, <1>2, <1>3, <1>4, <1>5, <1>6, <1>7 DEF Next, Work

LEMMA TypeInit == Init => TypeOK
<1> SUFFICES ASSUME Init PROVE TypeOK
    OBVIOUS
<1>1. ServerTypeOK
    BY ConstAssumption DEF Init, ServerTypeOK, PC, Kind
<1>2. Gen!TypeOK
    BY DEF Init, Gen!Init, Gen!TypeOK
<1> QED
    BY <1>1, <1>2 DEF Init, TypeOK

LEMMA PutType ==
    ASSUME ServerTypeOK, NEW w \in Worker, NEW e \in Event, Put(w, e)
    PROVE  sent' \in [Worker -> Seq(Event)]
BY DEF ServerTypeOK, Put

LEMMA OfferType ==
    ASSUME ServerTypeOK, NEW w \in Worker, NEW e \in Event, Offer(w, e)
    PROVE  sent' \in [Worker -> Seq(Event)]
BY PutType DEF ServerTypeOK, Offer

LEMMA GotoType ==
    ASSUME ServerTypeOK, NEW w \in Worker, NEW l \in PC, Goto(w, l)
    PROVE  pc' \in [Worker -> PC]
BY DEF ServerTypeOK, Goto

\* Every action keeps the types.
LEMMA ServerTypeStep == ServerTypeOK /\ [Next]_vars => ServerTypeOK'
<1> SUFFICES ASSUME ServerTypeOK, [Next]_vars
             PROVE  ServerTypeOK'
    OBVIOUS
<1> USE DEF ServerTypeOK, local, Goto, PC
<1>1. ASSUME NEW w \in Worker, NEW k \in Kind, Arrive(w, k)
      PROVE  ServerTypeOK'
    BY <1>1, ConstAssumption DEF Arrive, Kind
<1>2. ASSUME NEW w \in Worker, GetHandler(w) \/ SetProvider(w)
      PROVE  ServerTypeOK'
  <2>1. CASE GetHandler(w)
      BY <2>1 DEF GetHandler
  <2>2. CASE SetProvider(w)
      BY <2>2 DEF SetProvider
  <2> QED
      BY <1>2, <2>1, <2>2
<1>3. ASSUME NEW w \in Worker, RejectBody(w) PROVE ServerTypeOK'
    BY <1>3 DEF RejectBody
<1>4. ASSUME NEW w \in Worker, CallProvider(w) PROVE ServerTypeOK'
  <2>1. sent' \in [Worker -> Seq(Event)]
      BY <1>4, OfferType DEF CallProvider, Event
  <2> QED
      BY <1>4, <2>1 DEF CallProvider
<1>5. ASSUME NEW w \in Worker, PlainChat(w) PROVE ServerTypeOK'
    BY <1>5 DEF PlainChat
<1>6. ASSUME NEW w \in Worker, Lock(w) PROVE ServerTypeOK'
    BY <1>6 DEF Lock
<1>7. ASSUME NEW w \in Worker, Opener(w) PROVE ServerTypeOK'
  <2>1. sent' \in [Worker -> Seq(Event)]
      BY <1>7, OfferType DEF Opener, Event
  <2>2. Goto(w, "enter") \/ Goto(w, "free")
      BY <1>7 DEF Opener
  <2>3. pc' \in [Worker -> PC]
      BY <2>2, GotoType
  <2> HIDE DEF Goto
  <2>4. /\ mutex' \in Worker \cup {Free}
        /\ alive' \subseteq Worker /\ errored' \subseteq Worker
      BY <1>7 DEF Opener, Unlock
  <2> QED
      BY <1>7, <2>1, <2>3, <2>4 DEF Opener
<1>8. ASSUME NEW w \in Worker, Enter(w) PROVE ServerTypeOK'
  <2>1. CASE Goto(w, "gen") /\ UNCHANGED mutex
      BY <1>8, <2>1 DEF Enter
  <2>2. CASE Throw(w)
      BY <1>8, <2>2 DEF Enter, Throw, Unlock
  <2> QED
      BY <1>8, <2>1, <2>2 DEF Enter
<1>9. ASSUME NEW w \in Worker, Decode(w) \/ TokenDone(w) PROVE ServerTypeOK'
    BY <1>9 DEF Decode, TokenDone
<1>10. ASSUME NEW w \in Worker, EmitSegment(w) PROVE ServerTypeOK'
  <2>1. CASE w \in connected
    <3>1. sent' \in [Worker -> Seq(Event)]
        BY <1>10, <2>1, PutType DEF EmitSegment, Event
    <3> QED
        BY <1>10, <2>1, <3>1 DEF EmitSegment
  <2>2. CASE w \notin connected
      BY <1>10, <2>2 DEF EmitSegment
  <2> QED
      BY <2>1, <2>2
<1>11. ASSUME NEW w \in Worker, CallbackThrows(w) PROVE ServerTypeOK'
    BY <1>11 DEF CallbackThrows, Throw, Unlock
<1>12. ASSUME NEW w \in Worker, GenerateReturns(w) PROVE ServerTypeOK'
    BY <1>12 DEF GenerateReturns
<1>13. ASSUME NEW w \in Worker, Flushed(w) PROVE ServerTypeOK'
  <2>1. Goto(w, "tail") \/ Goto(w, "respond")
      BY <1>13 DEF Flushed
  <2>2. pc' \in [Worker -> PC]
      BY <2>1, GotoType
  <2> HIDE DEF Goto
  <2>3. /\ mutex' = mutex \/ mutex' = Free
        /\ status' = status \/ status' = [status EXCEPT ![w] = 200]
      BY <1>13 DEF Flushed, Unlock
  <2>4. mutex' \in Worker \cup {Free}
      BY <2>3
  <2>5. status' \in [Worker -> {0, 200, 204, 400, 500}]
    <3>1. CASE status' = status
        BY <3>1
    <3>2. CASE status' = [status EXCEPT ![w] = 200]
        BY <3>2
    <3> QED
        BY <2>3, <3>1, <3>2
  <2> QED
      BY <1>13, <2>2, <2>4, <2>5 DEF Flushed
<1>14. ASSUME NEW w \in Worker, FlushThrows(w) PROVE ServerTypeOK'
    BY <1>14 DEF FlushThrows, Throw, Unlock
<1>15. ASSUME NEW w \in Worker, Catch(w) PROVE ServerTypeOK'
  <2>1. Goto(w, "tail") \/ Goto(w, "respond")
      BY <1>15 DEF Catch
  <2>2. pc' \in [Worker -> PC]
      BY <2>1, GotoType
  <2> HIDE DEF Goto
  <2>3. Offer(w, "err") \/ UNCHANGED sent
      BY <1>15 DEF Catch
  <2>4. sent' \in [Worker -> Seq(Event)]
      BY <2>3, OfferType DEF Event
  <2>5. errored' \subseteq Worker
      BY <1>15 DEF Catch
  <2>6. status' = status
        \/ \E s \in {400, 500} : status' = [status EXCEPT ![w] = s]
      BY <1>15 DEF Catch
  <2>7. status' \in [Worker -> {0, 200, 204, 400, 500}]
    <3>1. CASE status' = status
        BY <3>1
    <3>2. CASE \E s \in {400, 500} : status' = [status EXCEPT ![w] = s]
        BY <3>2
    <3> QED
        BY <2>6, <3>1, <3>2
  <2> QED
      BY <1>15, <2>2, <2>4, <2>5, <2>7 DEF Catch
<1>16. ASSUME NEW w \in Worker, FinishChunk(w) PROVE ServerTypeOK'
  <2>1. sent' \in [Worker -> Seq(Event)]
      BY <1>16, OfferType DEF FinishChunk, Event
  <2> QED
      BY <1>16, <2>1 DEF FinishChunk
<1>17. ASSUME NEW w \in Worker, DoneEvent(w) PROVE ServerTypeOK'
  <2>1. sent' \in [Worker -> Seq(Event)]
      BY <1>17, OfferType DEF DoneEvent, Event
  <2> QED
      BY <1>17, <2>1 DEF DoneEvent
<1>18. ASSUME NEW w \in Worker, ProviderReturns(w) PROVE ServerTypeOK'
  <2>1. sent' \in [Worker -> Seq(Event)]
      BY <1>18, OfferType DEF ProviderReturns, Event
  <2> QED
      BY <1>18, <2>1 DEF ProviderReturns, Unlock
<1>19. ASSUME NEW w \in Worker, Respond(w) PROVE ServerTypeOK'
  <2>1. sent' \in [Worker -> Seq(Event)]
      BY <1>19, OfferType DEF Respond, Event
  <2> QED
      BY <1>19, <2>1 DEF Respond
<1>20. ASSUME NEW w \in Worker, Disconnect(w) PROVE ServerTypeOK'
    BY <1>20 DEF Disconnect
<1>21. CASE signal_handler
    BY <1>21 DEF signal_handler
<1>22. CASE UNCHANGED vars
    BY <1>22 DEF vars
<1> QED
    BY <1>1, <1>2, <1>3, <1>4, <1>5, <1>6, <1>7, <1>8, <1>9, <1>10, <1>11,
       <1>12, <1>13, <1>14, <1>15, <1>16, <1>17, <1>18, <1>19, <1>20, <1>21,
       <1>22 DEF Next, Work

LEMMA TypeStep == TypeOK /\ [Next]_vars => TypeOK'
<1> SUFFICES ASSUME TypeOK, [Next]_vars PROVE TypeOK'
    OBVIOUS
<1>1. ServerTypeOK'
    BY ServerTypeStep DEF TypeOK
<1>2. Gen!TypeOK'
    BY GenTypeStep, EngineStep DEF TypeOK
<1>3. up' \in {up, FALSE}
    BY DEF Next, Work, vars, Arrive, GetHandler, RejectBody, SetProvider,
           CallProvider, PlainChat, Lock, Opener, Enter, Decode, EmitSegment,
           TokenDone, CallbackThrows, GenerateReturns, Flushed, FlushThrows,
           Catch, FinishChunk, DoneEvent, ProviderReturns, Respond,
           Disconnect, signal_handler
<1> QED
    BY <1>1, <1>2, <1>3 DEF TypeOK

\* The variables keep their types in every behaviour.
THEOREM TypeCorrect == Spec => []TypeOK
BY TypeInit, TypeStep, PTL DEF Spec

-----------------------------------------------------------------------------
(* Serialization, ownership of the stop flag, and the end of a dead stream. *)

LEMMA InvInit == Init => Inv
<1> SUFFICES ASSUME Init PROVE Inv
    OBVIOUS
<1>1. \A w \in Worker : pc[w] = "free" /\ kind[w] = "none" /\ mutex # w
    BY ConstAssumption DEF Init
<1>2. busy = FALSE /\ stop = FALSE
    BY DEF Init, Gen!Init
<1> QED
    BY <1>1, <1>2 DEF Inv, Serialized, OwnStop, DeadIsStopped, Holds

\* Who holds the mutex is at most one worker, so a worker that holds it knows
\* where the others are not.
LEMMA Alone ==
    ASSUME Serialized, NEW w \in Worker, Holds(w), NEW v \in Worker, v # w
    PROVE  ~Holds(v) /\ pc[v] \notin {"enter", "gen"}
BY DEF Serialized, Holds

\* A worker that moves from one place outside the lock to another, the engine
\* being left alone, disturbs nobody.
LEMMA OutsideStep ==
    ASSUME TypeOK, Inv, NEW w \in Worker, ~Holds(w), ~Holds(w)',
           UNCHANGED <<mutex, engine, up>>,
           \A v \in Worker \ {w} :
              /\ pc'[v] = pc[v] /\ kind'[v] = kind[v]
              /\ v \in connected' <=> v \in connected
              /\ v \in alive' <=> v \in alive
    PROVE  Inv'
<1>1. pc'[w] \notin {"enter", "gen"} /\ pc[w] \notin {"enter", "gen"}
    BY DEF Holds
<1>2. ASSUME NEW v \in Worker, v # w PROVE Holds(v)' = Holds(v)
    BY <1>2 DEF Holds
<1>3. Serialized'
    BY <1>1, <1>2 DEF Inv, Serialized, engine
<1>4. OwnStop'
    BY <1>1 DEF Inv, OwnStop, engine
<1>5. DeadIsStopped'
    BY <1>1 DEF Inv, DeadIsStopped, engine
<1> QED
    BY <1>3, <1>4, <1>5 DEF Inv

\* While a worker holds the mutex and is not inside generate(), no one is.
LEMMA Quiet ==
    ASSUME Serialized, NEW w \in Worker, Holds(w), pc[w] # "gen"
    PROVE  ~busy
BY DEF Serialized, Holds

\* A step of the worker that holds the mutex: only its own part of the
\* invariant is at stake.
LEMMA InsideStep ==
    ASSUME TypeOK, Inv, NEW w \in Worker, Holds(w),
           \A v \in Worker \ {w} : pc'[v] = pc[v] /\ kind'[v] = kind[v],
           \/ Holds(w)' /\ mutex' = mutex
           \/ ~Holds(w)' /\ mutex' = Free,
           busy' => pc'[w] = "gen",
           up' /\ stop' /\ pc'[w] = "gen"
               => kind'[w] = "stream" /\ w \notin connected',
           kind'[w] = "stream" =>
               /\ pc'[w] = "enter" => w \in alive'
               /\ pc'[w] = "gen" /\ w \notin alive'
                    => stop' /\ (armed' \/ count' > 0)
    PROVE  Inv'
<1>1. ASSUME NEW v \in Worker, v # w
      PROVE  ~Holds(v)' /\ pc'[v] \notin {"enter", "gen"} /\ mutex' # v
  <2>1. ~Holds(v) /\ pc[v] \notin {"enter", "gen"} /\ mutex = w
      BY <1>1, Alone DEF Inv, Serialized
  <2>2. pc'[v] = pc[v] /\ kind'[v] = kind[v]
      BY <1>1
  <2> QED
      BY <1>1, <2>1, <2>2, ConstAssumption DEF Holds
<1>2. mutex = w /\ w # Free
    BY ConstAssumption DEF Inv, Serialized
<1>3. Serialized'
    BY <1>1, <1>2 DEF Serialized
<1>4. OwnStop'
    BY <1>1 DEF OwnStop
<1>5. DeadIsStopped'
    BY <1>1 DEF DeadIsStopped
<1> QED
    BY <1>3, <1>4, <1>5 DEF Inv

LEMMA GotoPC ==
    ASSUME ServerTypeOK, NEW w \in Worker, NEW l, Goto(w, l)
    PROVE  pc'[w] = l /\ \A v \in Worker \ {w} : pc'[v] = pc[v]
BY DEF ServerTypeOK, Goto

\* Every action keeps the invariant.
LEMMA InvStep == TypeOK /\ Inv /\ [Next]_vars => Inv'
<1> SUFFICES ASSUME TypeOK, Inv, [Next]_vars PROVE Inv'
    OBVIOUS
<1> ServerTypeOK /\ Serialized /\ OwnStop /\ DeadIsStopped
    BY DEF TypeOK, Inv
<1>1. ASSUME NEW w \in Worker, NEW k \in Kind, Arrive(w, k) PROVE Inv'
  <2>1. pc[w] = "free" /\ pc'[w] = "handler"
        /\ \A v \in Worker \ {w} : pc'[v] = pc[v] /\ kind'[v] = kind[v]
      BY <1>1, GotoPC DEF Arrive, ServerTypeOK
  <2>2. ~Holds(w) /\ ~Holds(w)'
      BY <2>1 DEF Holds
  <2> QED
      BY <1>1, <2>1, <2>2, OutsideStep DEF Arrive
<1>2. ASSUME NEW w \in Worker,
             \/ GetHandler(w) \/ RejectBody(w) \/ SetProvider(w)
             \/ CallProvider(w) \/ PlainChat(w) \/ Respond(w)
      PROVE  Inv'
  <2>1. /\ pc[w] \in {"handler", "provider", "respond"}
        /\ \/ Goto(w, "respond") \/ Goto(w, "provider")
           \/ Goto(w, "lock") \/ Goto(w, "free")
        /\ UNCHANGED <<mutex, engine, up, kind, connected, alive>>
      BY <1>2 DEF GetHandler, RejectBody, SetProvider, CallProvider, PlainChat,
                  Respond, local
  <2>2. pc'[w] \in {"respond", "provider", "lock", "free"}
        /\ \A v \in Worker \ {w} : pc'[v] = pc[v]
      BY <2>1, GotoPC
  <2>3. ~Holds(w) /\ ~Holds(w)'
      BY <2>1, <2>2 DEF Holds
  <2> QED
      BY <2>1, <2>2, <2>3, OutsideStep
<1>3. ASSUME NEW w \in Worker, Lock(w) PROVE Inv'
  <2>1. /\ mutex = Free /\ mutex' = w /\ UNCHANGED <<engine, up, local>>
        /\ pc'[w] = (IF kind[w] = "stream" THEN "opener" ELSE "enter")
        /\ \A v \in Worker \ {w} : pc'[v] = pc[v]
      BY <1>3, GotoPC DEF Lock
  <2>2. \A v \in Worker : ~Holds(v)
      BY <2>1, ConstAssumption DEF Serialized
  <2>3. ~busy /\ \A v \in Worker : pc[v] \notin {"enter", "gen"}
      BY <2>2 DEF Serialized, Holds
  <2>4. Holds(w)' /\ \A v \in Worker \ {w} : ~Holds(v)'
      BY <2>1, <2>2 DEF Holds, local
  <2>5. ~busy' /\ \A v \in Worker : pc'[v] # "gen"
      BY <2>1, <2>3 DEF engine
  <2>6. \A v \in Worker : kind'[v] = "stream" => pc'[v] # "enter"
      BY <2>1, <2>3 DEF local
  <2>7. Serialized'
      BY <2>1, <2>4, <2>5 DEF Serialized
  <2>8. OwnStop' /\ DeadIsStopped'
      BY <2>5, <2>6 DEF OwnStop, DeadIsStopped
  <2> QED
      BY <2>7, <2>8 DEF Inv
<1>4. ASSUME NEW w \in Worker, Opener(w) PROVE Inv'
  <2>1. Holds(w) /\ pc[w] = "opener" /\ UNCHANGED <<engine, up, kind>>
      BY <1>4 DEF Opener, Holds
  <2>2. ~busy'
      BY <2>1, Quiet DEF engine
  <2>3. CASE w \in connected
    <3>1. Goto(w, "enter") /\ w \in alive' /\ mutex' = mutex
        BY <1>4, <2>3 DEF Opener
    <3>2. pc'[w] = "enter" /\ \A v \in Worker \ {w} : pc'[v] = pc[v]
        BY <3>1, GotoPC
    <3>3. Holds(w)'
        BY <3>2 DEF Holds
    <3> QED
        BY <2>1, <2>2, <3>1, <3>2, <3>3, InsideStep
  <2>4. CASE w \notin connected
    <3>1. Goto(w, "free") /\ mutex' = Free
        BY <1>4, <2>4 DEF Opener, Unlock
    <3>2. pc'[w] = "free" /\ \A v \in Worker \ {w} : pc'[v] = pc[v]
        BY <3>1, GotoPC
    <3>3. ~Holds(w)'
        BY <3>2 DEF Holds
    <3> QED
        BY <2>1, <2>2, <3>1, <3>2, <3>3, InsideStep
  <2> QED
      BY <2>3, <2>4
<1>5. ASSUME NEW w \in Worker, Enter(w) PROVE Inv'
  <2>1. Holds(w) /\ pc[w] = "enter" /\ UNCHANGED <<up, local>>
      BY <1>5 DEF Enter, Holds
  <2>2. CASE (\E m \in Cap : Gen!Enter(m)) /\ Goto(w, "gen") /\ UNCHANGED mutex
    <3>1. pc'[w] = "gen" /\ \A v \in Worker \ {w} : pc'[v] = pc[v]
        BY <2>2, GotoPC
    <3>2. Holds(w)' /\ ~stop'
        BY <2>2, <3>1 DEF Holds, Gen!Enter
    <3>3. kind'[w] = "stream" => w \in alive'
        BY <2>1 DEF DeadIsStopped, local
    <3> QED
        BY <2>1, <2>2, <3>1, <3>2, <3>3, InsideStep DEF local
  <2>3. CASE Gen!Refuse /\ Throw(w)
    <3>1. pc'[w] = "catch" /\ \A v \in Worker \ {w} : pc'[v] = pc[v]
        BY <2>3, GotoPC DEF Throw
    <3>2. ~busy'
        BY <2>1, <2>3, Quiet DEF Gen!Refuse
    <3>3. \/ Holds(w)' /\ mutex' = mutex
          \/ ~Holds(w)' /\ mutex' = Free
        BY <2>1, <2>3, <3>1 DEF Throw, Unlock, Holds, local
    <3> QED
        BY <2>1, <3>1, <3>2, <3>3, InsideStep DEF local
  <2> QED
      BY <1>5, <2>2, <2>3 DEF Enter
<1>6. ASSUME NEW w \in Worker, Decode(w) PROVE Inv'
  <2>1. /\ Holds(w) /\ pc[w] = "gen" /\ Gen!Decide
        /\ UNCHANGED <<mutex, up, pc, local>>
      BY <1>6 DEF Decode, Holds
  <2>2. Holds(w)' /\ stop' = stop /\ armed' /\ count' = count
      BY <2>1 DEF Holds, local, Gen!Decide
  <2>3. up /\ stop => kind[w] = "stream" /\ w \notin connected
      BY <2>1 DEF OwnStop
  <2>4. kind[w] = "stream" /\ w \notin alive => stop
      BY <2>1 DEF DeadIsStopped
  <2> QED
      BY <2>1, <2>2, <2>3, <2>4, InsideStep DEF local
<1>7. ASSUME NEW w \in Worker, EmitSegment(w), w \in connected PROVE Inv'
  <2>1. UNCHANGED <<mutex, engine, up, pc, kind, connected, alive>>
      BY <1>7 DEF EmitSegment
  <2>2. \A v \in Worker : Holds(v)' = Holds(v)
      BY <2>1 DEF Holds
  <2> QED
      BY <2>1, <2>2 DEF Inv, Serialized, OwnStop, DeadIsStopped, engine
<1>8. ASSUME NEW w \in Worker, EmitSegment(w), w \notin connected PROVE Inv'
  <2>1. /\ kind[w] = "stream" /\ w \notin alive' /\ Gen!Stop
        /\ (pc[w] = "gen" /\ armed) \/ pc[w] = "flush"
        /\ UNCHANGED <<mutex, up, pc, kind, connected>>
      BY <1>8 DEF EmitSegment
  <2>2. Holds(w) /\ Holds(w)' /\ stop' /\ busy' = busy /\ armed' = armed
      BY <2>1 DEF Holds, Gen!Stop
  <2>3. pc[w] = "flush" => ~busy
      BY <2>2, Quiet
  <2>4. busy' => pc'[w] = "gen"
      BY <2>1, <2>2, <2>3
  <2>5. pc'[w] # "enter" /\ (pc'[w] = "gen" => armed')
      BY <2>1, <2>2
  <2> QED
      BY <1>8, <2>1, <2>2, <2>4, <2>5, InsideStep
<1>9. ASSUME NEW w \in Worker, TokenDone(w) PROVE Inv'
  <2>1. /\ Holds(w) /\ pc[w] = "gen" /\ Gen!Deliver
        /\ UNCHANGED <<mutex, up, pc, kind, connected, alive>>
      BY <1>9 DEF TokenDone, Holds
  <2>2. Holds(w)' /\ stop' = stop /\ count' > 0
      BY <2>1 DEF Holds, Gen!Deliver, TypeOK, Gen!TypeOK
  <2>3. up /\ stop => kind[w] = "stream" /\ w \notin connected
      BY <2>1 DEF OwnStop
  <2>4. kind[w] = "stream" /\ w \notin alive => stop
      BY <2>1 DEF DeadIsStopped
  <2> QED
      BY <2>1, <2>2, <2>3, <2>4, InsideStep
<1>10. ASSUME NEW w \in Worker, CallbackThrows(w) \/ GenerateReturns(w)
       PROVE  Inv'
  <2>1. /\ Holds(w) /\ pc[w] = "gen" /\ Gen!Return /\ UNCHANGED <<up, local>>
        /\ \/ kind[w] = "stream" /\ Throw(w)
           \/ Goto(w, "flush") /\ UNCHANGED mutex
      BY <1>10 DEF CallbackThrows, GenerateReturns, Holds
  <2>2. ~busy'
      BY <2>1 DEF Gen!Return
  <2>3. pc'[w] \in {"catch", "flush"} /\ \A v \in Worker \ {w} : pc'[v] = pc[v]
      BY <2>1, GotoPC DEF Throw
  <2>4. Holds(w)' /\ mutex' = mutex
      BY <2>1, <2>3, GotoPC DEF Throw, Holds, local
  <2> QED
      BY <2>1, <2>2, <2>3, <2>4, InsideStep DEF local
<1>11. ASSUME NEW w \in Worker, Flushed(w) PROVE Inv'
  <2>1. /\ Holds(w) /\ pc[w] = "flush" /\ UNCHANGED <<engine, up, kind>>
        /\ \/ Goto(w, "tail") /\ mutex' = mutex
           \/ Goto(w, "respond") /\ mutex' = Free
      BY <1>11 DEF Flushed, Holds, Unlock
  <2>2. ~busy'
      BY <2>1, Quiet DEF engine
  <2>3. /\ \/ pc'[w] = "tail" /\ mutex' = mutex
           \/ pc'[w] = "respond" /\ mutex' = Free
        /\ \A v \in Worker \ {w} : pc'[v] = pc[v]
      BY <2>1, GotoPC
  <2>4. \/ Holds(w)' /\ mutex' = mutex
        \/ ~Holds(w)' /\ mutex' = Free
      BY <2>3 DEF Holds
  <2> QED
      BY <2>1, <2>2, <2>3, <2>4, InsideStep
<1>12. ASSUME NEW w \in Worker, FlushThrows(w) PROVE Inv'
  <2>1. Holds(w) /\ pc[w] = "flush" /\ Throw(w) /\ UNCHANGED <<engine, up, local>>
      BY <1>12 DEF FlushThrows, Holds
  <2>2. ~busy'
      BY <2>1, Quiet DEF engine
  <2>3. pc'[w] = "catch" /\ \A v \in Worker \ {w} : pc'[v] = pc[v]
      BY <2>1, GotoPC DEF Throw
  <2>4. \/ Holds(w)' /\ mutex' = mutex
        \/ ~Holds(w)' /\ mutex' = Free
      BY <2>1, <2>3 DEF Throw, Unlock, Holds, local
  <2> QED
      BY <2>1, <2>2, <2>3, <2>4, InsideStep DEF local
<1>13. ASSUME NEW w \in Worker, Catch(w), kind[w] = "stream" PROVE Inv'
  <2>1. /\ Holds(w) /\ pc[w] = "catch" /\ Goto(w, "tail")
        /\ UNCHANGED <<mutex, engine, up, kind>>
      BY <1>13 DEF Catch, Holds
  <2>2. ~busy'
      BY <2>1, Quiet DEF engine
  <2>3. pc'[w] = "tail" /\ \A v \in Worker \ {w} : pc'[v] = pc[v]
      BY <2>1, GotoPC
  <2>4. Holds(w)'
      BY <2>3 DEF Holds
  <2> QED
      BY <2>1, <2>2, <2>3, <2>4, InsideStep
<1>14. ASSUME NEW w \in Worker, Catch(w), kind[w] # "stream" PROVE Inv'
  <2>1. /\ pc[w] = "catch" /\ Goto(w, "respond")
        /\ UNCHANGED <<mutex, engine, up, kind, connected, alive>>
      BY <1>14 DEF Catch
  <2>2. pc'[w] = "respond" /\ \A v \in Worker \ {w} : pc'[v] = pc[v]
      BY <2>1, GotoPC
  <2>3. ~Holds(w) /\ ~Holds(w)'
      BY <1>14, <2>1, <2>2 DEF Holds
  <2> QED
      BY <2>1, <2>2, <2>3, OutsideStep
<1>15. ASSUME NEW w \in Worker, FinishChunk(w) \/ DoneEvent(w) PROVE Inv'
  <2>1. Holds(w) /\ pc[w] # "gen" /\ UNCHANGED <<mutex, engine, up, kind>>
      BY <1>15 DEF FinishChunk, DoneEvent, Holds
  <2>2. ~busy'
      BY <2>1, Quiet DEF engine
  <2>3. pc'[w] \in {"done", "return"} /\ \A v \in Worker \ {w} : pc'[v] = pc[v]
      BY <1>15, GotoPC DEF FinishChunk, DoneEvent
  <2>4. Holds(w)'
      BY <2>3 DEF Holds
  <2> QED
      BY <2>1, <2>2, <2>3, <2>4, InsideStep
<1>16. ASSUME NEW w \in Worker, ProviderReturns(w) PROVE Inv'
  <2>1. /\ Holds(w) /\ pc[w] = "return" /\ Goto(w, "free") /\ mutex' = Free
        /\ UNCHANGED <<engine, up, kind>>
      BY <1>16 DEF ProviderReturns, Unlock, Holds
  <2>2. ~busy'
      BY <2>1, Quiet DEF engine
  <2>3. pc'[w] = "free" /\ \A v \in Worker \ {w} : pc'[v] = pc[v]
      BY <2>1, GotoPC
  <2>4. ~Holds(w)'
      BY <2>3 DEF Holds
  <2> QED
      BY <2>1, <2>2, <2>3, <2>4, InsideStep
<1>17. ASSUME NEW w \in Worker, Disconnect(w) PROVE Inv'
  <2>1. /\ UNCHANGED <<mutex, engine, up, pc, kind, alive>>
        /\ connected' = connected \ {w}
      BY <1>17 DEF Disconnect
  <2>2. \A v \in Worker : Holds(v)' = Holds(v)
      BY <2>1 DEF Holds
  <2> QED
      BY <2>1, <2>2 DEF Inv, Serialized, OwnStop, DeadIsStopped, engine
<1>18. CASE signal_handler
  <2>1. /\ ~up' /\ stop' /\ busy' = busy /\ armed' = armed /\ count' = count
        /\ UNCHANGED <<mutex, pc, kind, connected, alive>>
      BY <1>18 DEF signal_handler, Gen!Stop, local
  <2>2. \A v \in Worker : Holds(v)' = Holds(v)
      BY <2>1 DEF Holds
  <2>3. Serialized'
      BY <2>1, <2>2 DEF Serialized
  <2>4. OwnStop' /\ DeadIsStopped'
      BY <2>1 DEF OwnStop, DeadIsStopped
  <2> QED
      BY <2>3, <2>4 DEF Inv
<1>19. CASE UNCHANGED vars
  <2>1. UNCHANGED <<mutex, engine, up, pc, kind, connected, alive>>
      BY <1>19 DEF vars, local
  <2>2. \A v \in Worker : Holds(v)' = Holds(v)
      BY <2>1 DEF Holds
  <2> QED
      BY <2>1, <2>2 DEF Inv, Serialized, OwnStop, DeadIsStopped, engine
<1> QED
    BY <1>1, <1>2, <1>3, <1>4, <1>5, <1>6, <1>7, <1>8, <1>9, <1>10, <1>11,
       <1>12, <1>13, <1>14, <1>15, <1>16, <1>17, <1>18, <1>19 DEF Next, Work

LEMMA InvHolds == Spec => []Inv
BY TypeCorrect, InvInit, InvStep, PTL DEF Spec

\* One generation at a time; the mutex is released on every path.
THEOREM Serialization == Spec => []Serialized
<1>1. Inv => Serialized
    BY DEF Inv
<1> QED
    BY <1>1, InvHolds, PTL

\* A generation is cut short only by its own client.
THEOREM StopIsOwn == Spec => []OwnStop
<1>1. Inv => OwnStop
    BY DEF Inv
<1> QED
    BY <1>1, InvHolds, PTL

\* No token is decoded for a client to whom a write has failed.
THEOREM DeadStreamsEnd == Spec => NoDecodeForTheDead
<1>1. ASSUME TypeOK, Inv, [Next]_vars, NEW w \in Worker,
             pc[w] = "gen", kind[w] = "stream", w \notin alive, ~armed, armed'
      PROVE  FALSE
  <2>1. stop /\ count > 0
      BY <1>1 DEF Inv, DeadIsStopped
  <2>2. [Gen!Next]_Gen!vars
      BY <1>1, EngineStep
  <2>3. Gen!Decide
      BY <1>1, <2>2
      DEF Gen!Next, Gen!vars, Gen!Enter, Gen!Refuse, Gen!Deliver, Gen!Return,
          Gen!Stop, Gen!Die
  <2> QED
      BY <2>1, <2>3 DEF Gen!Decide, TypeOK, Gen!TypeOK
<1>2. TypeOK /\ Inv /\ [Next]_vars =>
        [\A w \in Worker : pc[w] = "gen" /\ kind[w] = "stream" /\ w \notin alive
                             => ~(~armed /\ armed')]_vars
    BY <1>1
<1> QED
    BY <1>2, TypeCorrect, InvHolds, PTL DEF Spec, NoDecodeForTheDead

-----------------------------------------------------------------------------
(* What a client receives.                                                 *)

\* The stages of a stream on its way to a member of Whole.
Begun == {<<"headers", "open">> \o c : c \in {<< >>, <<"chunk">>}}
Broken == {Append(b, "err") : b \in Begun}
Finished == {Append(b, "fin") : b \in Begun} \cup Broken
Marked == {Append(s, "done") : s \in Finished}
Legal == Whole \cup {<<"reply">>}

\* What it is to be a prefix, by the elements.
LEMMA PrefixIff ==
    ASSUME NEW s \in Seq(Event), NEW t \in Seq(Event)
    PROVE  IsPrefix(s, t)
             <=> Len(s) <= Len(t) /\ \A i \in 1..Len(s) : s[i] = t[i]
<1>1. SubSeq(s, 1, Len(s)) = s
    BY SubSeqFull
<1>2. ASSUME Len(s) <= Len(t)
      PROVE  /\ SubSeq(t, 1, Len(s)) \in Seq(Event)
             /\ Len(SubSeq(t, 1, Len(s))) = Len(s)
             /\ \A i \in 1..Len(s) : SubSeq(t, 1, Len(s))[i] = t[i]
    BY <1>2
<1>3. ASSUME Len(s) <= Len(t), \A i \in 1..Len(s) : s[i] = t[i]
      PROVE  s = SubSeq(t, 1, Len(s))
    BY <1>2, <1>3, SeqEqual
<1> QED
    BY <1>1, <1>2, <1>3 DEF IsPrefix

\* What begins with a longer sequence begins with the shorter one.
LEMMA PrefixOfAppend ==
    ASSUME NEW s \in Seq(Event), NEW e \in Event, NEW u \in Seq(Event),
           IsPrefix(Append(s, e), u)
    PROVE  IsPrefix(s, u)
<1>1. Append(s, e) \in Seq(Event) /\ Len(Append(s, e)) = Len(s) + 1
      /\ \A i \in 1..Len(s) : Append(s, e)[i] = s[i]
    OBVIOUS
<1>2. Len(s) + 1 <= Len(u) /\ \A i \in 1..(Len(s) + 1) : Append(s, e)[i] = u[i]
    BY <1>1, PrefixIff
<1>3. Len(s) <= Len(u) /\ \A i \in 1..Len(s) : s[i] = u[i]
    BY <1>1, <1>2
<1> QED
    BY <1>3, PrefixIff

LEMMA PrefixSelf ==
    ASSUME NEW s \in Seq(Event)
    PROVE  IsPrefix(s, s)
BY DEF IsPrefix

\* Appending to a concatenation appends to its second part.
LEMMA AppendConcat ==
    ASSUME NEW s \in Seq(Event), NEW t \in Seq(Event), NEW e \in Event
    PROVE  Append(s \o t, e) = s \o Append(t, e)
<1>1. s \o t \in Seq(Event) /\ Append(t, e) \in Seq(Event)
    OBVIOUS
<1>2. Append(s \o t, e) \in Seq(Event) /\ s \o Append(t, e) \in Seq(Event)
    BY <1>1
<1>3. Len(Append(s \o t, e)) = Len(s \o Append(t, e))
    BY <1>1
<1>4. \A i \in 1..Len(Append(s \o t, e)) :
          Append(s \o t, e)[i] = (s \o Append(t, e))[i]
    BY <1>1
<1> QED
    BY <1>2, <1>3, <1>4, SeqEqual

LEMMA SingleAppend == ASSUME NEW e \in Event PROVE Append(<< >>, e) = <<e>>
OBVIOUS

LEMMA PairAppend ==
    ASSUME NEW f \in Event, NEW d \in Event
    PROVE  Append(<<f>>, d) = <<f, d>>
<1> DEFINE a == Append(<<f>>, d)
           b == <<f, d>>
<1>1. a \in Seq(Event) /\ Len(a) = 2 /\ a[1] = f /\ a[2] = d
    OBVIOUS
<1>2. b \in Seq(Event) /\ Len(b) = 2 /\ b[1] = f /\ b[2] = d
    OBVIOUS
<1> HIDE DEF a, b
<1>3. \A i \in 1..2 : a[i] = b[i]
    BY <1>1, <1>2
<1>4. a = b
    BY <1>1, <1>2, <1>3, SeqEqual
<1> QED
    BY <1>4 DEF a, b

LEMMA TripleAppend ==
    ASSUME NEW f \in Event, NEW d \in Event, NEW e \in Event
    PROVE  Append(<<f, d>>, e) = <<f, d, e>>
<1> DEFINE a == Append(<<f, d>>, e)
           b == <<f, d, e>>
<1>1. a \in Seq(Event) /\ Len(a) = 3 /\ a[1] = f /\ a[2] = d /\ a[3] = e
    OBVIOUS
<1>2. b \in Seq(Event) /\ Len(b) = 3 /\ b[1] = f /\ b[2] = d /\ b[3] = e
    OBVIOUS
<1> HIDE DEF a, b
<1>3. \A i \in 1..3 : a[i] = b[i]
    BY <1>1, <1>2
<1>4. a = b
    BY <1>1, <1>2, <1>3, SeqEqual
<1> QED
    BY <1>4 DEF a, b

LEMMA Events ==
    /\ "headers" \in Event /\ "open" \in Event /\ "chunk" \in Event
    /\ "fin" \in Event /\ "err" \in Event /\ "done" \in Event
    /\ "end" \in Event /\ "reply" \in Event
BY DEF Event

LEMMA BegunType == Begun \subseteq Seq(Event)
<1>1. <<"headers", "open">> \in Seq(Event) /\ <<"chunk">> \in Seq(Event)
      /\ << >> \in Seq(Event)
    BY Events
<1>2. ASSUME NEW c \in {<< >>, <<"chunk">>}
      PROVE  <<"headers", "open">> \o c \in Seq(Event)
    BY <1>1, <1>2, ConcatProperties
<1> QED
    BY <1>2 DEF Begun

\* The stages are sequences of events.
LEMMA StageTypes ==
    Finished \subseteq Seq(Event) /\ Broken \subseteq Finished
    /\ Marked \subseteq Seq(Event)
<1>1. \A b \in Begun : Append(b, "fin") \in Seq(Event)
                       /\ Append(b, "err") \in Seq(Event)
    BY BegunType, Events
<1>2. Finished \subseteq Seq(Event) /\ Broken \subseteq Finished
    BY <1>1 DEF Finished, Broken
<1>3. \A s \in Finished : Append(s, "done") \in Seq(Event)
    BY <1>2, Events
<1> QED
    BY <1>2, <1>3 DEF Marked

\* The role opener after the headers begins the stream.
LEMMA OpenerBegins == Append(<<"headers">>, "open") \in Begun
<1>1. Append(<<"headers">>, "open") = <<"headers", "open">>
    BY PairAppend, Events
<1>2. <<"headers", "open">> \in Seq(Event)
    BY Events
<1>3. <<"headers", "open">> \o << >> = <<"headers", "open">>
    BY <1>2, ConcatEmptySeq
<1> QED
    BY <1>1, <1>3 DEF Begun

\* Any number of content chunks in a row counts as one.
LEMMA ChunkStays ==
    ASSUME NEW s \in Begun
    PROVE  (IF Last(s) = "chunk" THEN s ELSE Append(s, "chunk")) \in Begun
<1> DEFINE h == <<"headers", "open">>
<1>1. h \in Seq(Event) /\ Len(h) = 2 /\ h[2] = "open"
    BY Events
<1>2. PICK c \in {<< >>, <<"chunk">>} : s = h \o c
    BY DEF Begun
<1> HIDE DEF h
<1>3. CASE c = << >>
  <2>1. Append(s, "chunk") = h \o Append(<< >>, "chunk")
      BY <1>1, <1>2, <1>3, AppendConcat, Events
  <2>2. Append(<< >>, "chunk") = <<"chunk">>
      BY SingleAppend, Events
  <2>3. h \o <<"chunk">> \in Begun
      BY DEF Begun, h
  <2> QED
      BY <2>1, <2>2, <2>3
<1>4. CASE c = <<"chunk">>
  <2>1. c \in Seq(Event) /\ Len(c) = 1 /\ c[1] = "chunk"
      BY <1>4, Events
  <2>2. Len(s) = Len(h) + Len(c) /\ s[3] = c[3 - Len(h)]
    <3>1. /\ Len(h \o c) = Len(h) + Len(c)
          /\ \A i \in 1..(Len(h) + Len(c)) :
               (h \o c)[i] = IF i <= Len(h) THEN h[i] ELSE c[i - Len(h)]
        BY <1>1, <2>1, ConcatProperties
    <3> QED
        BY <1>1, <1>2, <2>1, <3>1
  <2>3. Len(s) = 3 /\ s[3] = "chunk"
      BY <1>1, <2>1, <2>2
  <2> QED
      BY <2>3 DEF Last
<1> QED
    BY <1>2, <1>3, <1>4

Chunks == {<< >>, <<"chunk">>}
Ends == {"fin", "err"}
WholeStream(c, f) == <<"headers", "open">> \o c \o <<f, "done", "end">>

LEMMA WholeStreams ==
    \A s : s \in Whole <=> \E c \in Chunks, f \in Ends : s = WholeStream(c, f)
<1>1. Whole = {WholeStream(c, f) : c \in Chunks, f \in Ends}
    BY DEF Whole, WholeStream, Chunks, Ends
<1> QED
    BY <1>1

\* The last HTTP chunk after [DONE] makes the stream whole.
LEMMA EndIsWhole ==
    ASSUME NEW s \in Marked
    PROVE  Append(s, "end") \in Whole
<1>1. PICK b \in Begun, f \in {"fin", "err"} : s = Append(Append(b, f), "done")
    BY DEF Marked, Finished, Broken
<1>2. b \in Seq(Event) /\ f \in Event /\ <<f>> \in Seq(Event)
      /\ << >> \in Seq(Event)
    BY BegunType, Events
<1>3. Append(b, f) = b \o <<f>>
    BY <1>2, AppendIsConcat
<1>4. Append(b \o <<f>>, "done") = b \o <<f, "done">>
    BY <1>2, AppendConcat, PairAppend, Events
<1>5. <<f, "done">> \in Seq(Event)
    BY <1>2, Events
<1>6. Append(b \o <<f, "done">>, "end") = b \o <<f, "done", "end">>
    BY <1>2, <1>5, AppendConcat, TripleAppend, Events
<1>7. Append(s, "end") = b \o <<f, "done", "end">>
    BY <1>1, <1>3, <1>4, <1>6
<1>8. PICK c \in {<< >>, <<"chunk">>} : b = <<"headers", "open">> \o c
    BY DEF Begun
<1>9. b \o <<f, "done", "end">> = WholeStream(c, f) /\ c \in Chunks /\ f \in Ends
    BY <1>8 DEF WholeStream, Chunks, Ends
<1> QED
    BY <1>7, <1>9, WholeStreams

LEMMA WholeType == Whole \subseteq Seq(Event)
<1>1. ASSUME NEW c \in {<< >>, <<"chunk">>}, NEW f \in {"fin", "err"}
      PROVE  <<"headers", "open">> \o c \o <<f, "done", "end">> \in Seq(Event)
  <2>1. <<"headers", "open">> \o c \in Seq(Event)
      BY BegunType DEF Begun
  <2>2. <<f, "done", "end">> \in Seq(Event)
      BY Events
  <2> HIDE DEF Event
  <2> QED
      BY <2>1, <2>2, ConcatProperties
<1>2. \A c \in Chunks, f \in Ends : WholeStream(c, f) \in Seq(Event)
    BY <1>1 DEF WholeStream, Chunks, Ends
<1> QED
    BY <1>2, WholeStreams

\* Every stage can still become legal.
LEMMA StagesLegal ==
    ASSUME NEW s,
           s \in {<< >>, <<"headers">>} \cup Begun \cup Finished \cup Marked
                   \cup Legal
    PROVE  \E u \in Legal : IsPrefix(s, u)
<1>0. Whole \subseteq Seq(Event) /\ Whole \subseteq Legal /\ <<"reply">> \in Seq(Event)
    BY WholeType, Events DEF Legal
<1>1. ASSUME NEW t \in Legal PROVE IsPrefix(t, t)
    BY <1>0, <1>1, PrefixSelf DEF Legal
<1>2. ASSUME NEW t \in Marked PROVE \E u \in Whole : IsPrefix(t, u)
  <2>1. Append(t, "end") \in Whole
      BY EndIsWhole
  <2>2. IsPrefix(Append(t, "end"), Append(t, "end"))
      BY <1>0, <1>1, <2>1
  <2>3. IsPrefix(t, Append(t, "end"))
      BY <1>0, <2>1, <2>2, StageTypes, PrefixOfAppend, Events
  <2> QED
      BY <2>1, <2>3
<1>3. ASSUME NEW t \in Finished PROVE \E u \in Whole : IsPrefix(t, u)
  <2>1. PICK u \in Whole : IsPrefix(Append(t, "done"), u)
      BY <1>2 DEF Marked
  <2>2. IsPrefix(t, u)
      BY <1>0, <2>1, StageTypes, PrefixOfAppend, Events
  <2> QED
      BY <2>2
<1>4. ASSUME NEW t \in Begun PROVE \E u \in Whole : IsPrefix(t, u)
  <2>1. PICK u \in Whole : IsPrefix(Append(t, "fin"), u)
      BY <1>3 DEF Finished
  <2>2. IsPrefix(t, u)
      BY <1>0, <2>1, BegunType, PrefixOfAppend, Events
  <2> QED
      BY <2>2
<1>5. \E u \in Whole : IsPrefix(<<"headers">>, u)
  <2>1. PICK u \in Whole : IsPrefix(Append(<<"headers">>, "open"), u)
      BY <1>4, OpenerBegins
  <2>2. <<"headers">> \in Seq(Event)
      BY Events
  <2>3. IsPrefix(<<"headers">>, u)
      BY <1>0, <2>1, <2>2, PrefixOfAppend, Events
  <2> QED
      BY <2>3
<1>6. IsPrefix(<< >>, <<"reply">>)
    BY DEF IsPrefix
<1> QED
    BY <1>0, <1>1, <1>2, <1>3, <1>4, <1>5, <1>6 DEF Legal

\* Where the worker stands in its script: a client that is still connected
\* has been sent all that the script says up to there, one that is not has
\* been sent some beginning of it.
Script(w) ==
    /\ pc[w] \in {"provider", "opener", "tail", "done", "return"}
         => kind[w] = "stream"
    /\ \E u \in Legal : IsPrefix(sent[w], u)
    /\ w \in connected =>
         /\ pc[w] \in {"handler", "provider", "respond"} => sent[w] = << >>
         /\ pc[w] \in {"lock", "enter", "gen", "flush", "catch"}
              /\ kind[w] # "stream" => sent[w] = << >>
         /\ pc[w] \in {"lock", "opener"} /\ kind[w] = "stream"
              => sent[w] = <<"headers">>
         /\ pc[w] \in {"enter", "gen", "flush", "catch"} /\ kind[w] = "stream"
              => sent[w] \in Begun /\ w \in alive /\ w \notin errored
         /\ pc[w] = "tail" =>
              w \in alive /\ sent[w] \in (IF w \in errored THEN Broken ELSE Begun)
         /\ pc[w] = "done" => w \in alive /\ sent[w] \in Finished
         /\ pc[w] = "return" => sent[w] \in Marked
         /\ pc[w] = "free" => sent[w] \in Legal

\* A worker that the step does not touch.
LEMMA ScriptKept ==
    ASSUME NEW v \in Worker, Script(v), pc'[v] = pc[v], kind'[v] = kind[v],
           sent'[v] = sent[v], v \in connected' => v \in connected,
           v \in alive' <=> v \in alive, v \in errored' <=> v \in errored
    PROVE  Script(v)'
BY DEF Script

\* A client that is gone is sent nothing.
LEMMA ScriptGone ==
    ASSUME NEW w \in Worker, Script(w), w \notin connected',
           sent'[w] = sent[w],
           pc'[w] \in {"provider", "opener", "tail", "done", "return"}
             => kind'[w] = "stream"
    PROVE  Script(w)'
BY DEF Script

\* What one write adds.
LEMMA OfferSent ==
    ASSUME ServerTypeOK, NEW w \in Worker, NEW e \in Event \ {"chunk"},
           Offer(w, e)
    PROVE  /\ \A v \in Worker \ {w} : sent'[v] = sent[v]
           /\ w \in connected => sent'[w] = Append(sent[w], e)
           /\ w \notin connected => sent'[w] = sent[w]
BY DEF ServerTypeOK, Offer, Put

\* Every action keeps every worker in its script.
LEMMA ScriptStep ==
    ServerTypeOK /\ (\A v \in Worker : Script(v)) /\ [Next]_vars
      => \A v \in Worker : Script(v)'
<1> SUFFICES ASSUME ServerTypeOK, \A v \in Worker : Script(v), [Next]_vars
             PROVE  \A v \in Worker : Script(v)'
    OBVIOUS
\* Only the worker that moves needs a look.
<1>0. ASSUME NEW w \in Worker, Script(w)',
             \A v \in Worker \ {w} :
               /\ pc'[v] = pc[v] /\ kind'[v] = kind[v] /\ sent'[v] = sent[v]
               /\ v \in connected' => v \in connected
               /\ v \in alive' <=> v \in alive
               /\ v \in errored' <=> v \in errored
      PROVE  \A v \in Worker : Script(v)'
    BY <1>0, ScriptKept
<1>1. ASSUME NEW w \in Worker, NEW k \in Kind, Arrive(w, k)
      PROVE  \A v \in Worker : Script(v)'
  <2>1. pc'[w] = "handler" /\ sent'[w] = << >>
      BY <1>1, GotoPC DEF Arrive, ServerTypeOK
  <2>2. Script(w)'
      BY <2>1, StagesLegal DEF Script
  <2>3. \A v \in Worker \ {w} : pc'[v] = pc[v] /\ kind'[v] = kind[v]
                                /\ sent'[v] = sent[v]
      BY <1>1, GotoPC DEF Arrive, ServerTypeOK
  <2> QED
      BY <1>0, <1>1, <2>2, <2>3 DEF Arrive
\* The steps that write nothing: the script at the two places is the same.
<1>2. ASSUME NEW w \in Worker,
             \/ GetHandler(w) \/ RejectBody(w) \/ SetProvider(w)
             \/ PlainChat(w) \/ Lock(w) \/ Enter(w) \/ Decode(w)
             \/ TokenDone(w) \/ CallbackThrows(w) \/ GenerateReturns(w)
             \/ Flushed(w) \/ FlushThrows(w)
      PROVE  \A v \in Worker : Script(v)'
  <2>1. UNCHANGED <<kind, sent, connected, alive, errored>>
      BY <1>2
      DEF GetHandler, RejectBody, SetProvider, PlainChat, Lock, Enter, Decode,
          TokenDone, CallbackThrows, GenerateReturns, Flushed, FlushThrows, local
  <2>2. \A v \in Worker \ {w} : pc'[v] = pc[v]
      BY <1>2, GotoPC
      DEF GetHandler, RejectBody, SetProvider, PlainChat, Lock, Enter, Decode,
          TokenDone, CallbackThrows, GenerateReturns, Flushed, FlushThrows, Throw
  <2>3. \/ pc[w] = "handler" /\ pc'[w] = "respond"
        \/ pc[w] = "handler" /\ pc'[w] = "provider" /\ kind[w] = "stream"
        \/ pc[w] = "handler" /\ pc'[w] = "lock" /\ kind[w] # "stream"
        \/ pc[w] = "lock" /\ pc'[w] = "opener" /\ kind[w] = "stream"
        \/ pc[w] = "lock" /\ pc'[w] = "enter" /\ kind[w] # "stream"
        \/ pc[w] \in {"enter", "gen", "flush"} /\ pc'[w] \in {"gen", "flush", "catch"}
        \/ pc[w] = "flush" /\ pc'[w] = "tail" /\ kind[w] = "stream"
        \/ pc[w] = "flush" /\ pc'[w] = "respond" /\ kind[w] # "stream"
    <3>1. CASE GetHandler(w) \/ RejectBody(w) \/ SetProvider(w) \/ PlainChat(w)
        BY <3>1, GotoPC DEF GetHandler, RejectBody, SetProvider, PlainChat
    <3>2. CASE Lock(w)
        BY <3>2, GotoPC DEF Lock
    <3>3. CASE Enter(w) \/ CallbackThrows(w) \/ GenerateReturns(w) \/ FlushThrows(w)
        BY <3>3, GotoPC DEF Enter, CallbackThrows, GenerateReturns, FlushThrows, Throw
    <3>4. CASE Decode(w) \/ TokenDone(w)
        BY <3>4 DEF Decode, TokenDone
    <3>5. CASE Flushed(w)
        BY <3>5, GotoPC DEF Flushed
    <3> QED
        BY <1>2, <3>1, <3>2, <3>3, <3>4, <3>5
  <2>4. Script(w)
      OBVIOUS
  <2>5. Script(w)'
      BY <2>1, <2>3, <2>4 DEF Script
  <2> QED
      BY <1>0, <2>1, <2>2, <2>5
<1>3. ASSUME NEW w \in Worker, CallProvider(w) PROVE \A v \in Worker : Script(v)'
  <2>1. /\ pc[w] = "provider" /\ UNCHANGED <<kind, connected, alive, errored>>
        /\ Offer(w, "headers")
        /\ pc'[w] = (IF w \in connected THEN "lock" ELSE "free")
        /\ \A v \in Worker \ {w} : pc'[v] = pc[v]
      BY <1>3, GotoPC DEF CallProvider
  <2>2. /\ \A v \in Worker \ {w} : sent'[v] = sent[v]
        /\ w \in connected => sent'[w] = Append(sent[w], "headers")
        /\ w \notin connected => sent'[w] = sent[w]
      BY <2>1, OfferSent, Events
  <2>3. Script(w)'
    <3>1. CASE w \in connected
      <4>1. sent'[w] = <<"headers">> /\ kind[w] = "stream"
          BY <2>1, <2>2, <3>1, SingleAppend, Events DEF Script
      <4> QED
          BY <2>1, <3>1, <4>1, StagesLegal DEF Script
    <3>2. CASE w \notin connected
        BY <2>1, <2>2, <3>2, ScriptGone
    <3> QED
        BY <3>1, <3>2
  <2> QED
      BY <1>0, <2>1, <2>2, <2>3
<1>4. ASSUME NEW w \in Worker, Opener(w) PROVE \A v \in Worker : Script(v)'
  <2>1. /\ pc[w] = "opener" /\ UNCHANGED <<kind, connected>>
        /\ Offer(w, "open")
        /\ pc'[w] = (IF w \in connected THEN "enter" ELSE "free")
        /\ w \in connected => w \in alive' /\ w \notin errored'
        /\ \A v \in Worker \ {w} : /\ pc'[v] = pc[v]
                                   /\ v \in alive' <=> v \in alive
                                   /\ v \in errored' <=> v \in errored
      BY <1>4, GotoPC DEF Opener
  <2>2. /\ \A v \in Worker \ {w} : sent'[v] = sent[v]
        /\ w \in connected => sent'[w] = Append(sent[w], "open")
        /\ w \notin connected => sent'[w] = sent[w]
      BY <2>1, OfferSent, Events
  <2>3. Script(w)'
    <3>1. CASE w \in connected
      <4>1. sent[w] = <<"headers">> /\ kind[w] = "stream"
          BY <2>1, <3>1 DEF Script
      <4>2. sent'[w] \in Begun
          BY <2>2, <3>1, <4>1, OpenerBegins
      <4> QED
          BY <2>1, <3>1, <4>1, <4>2, StagesLegal DEF Script
    <3>2. CASE w \notin connected
        BY <2>1, <2>2, <3>2, ScriptGone
    <3> QED
        BY <3>1, <3>2
  <2> QED
      BY <1>0, <2>1, <2>2, <2>3
<1>5. ASSUME NEW w \in Worker, EmitSegment(w) PROVE \A v \in Worker : Script(v)'
  <2>1. /\ pc[w] \in {"gen", "flush"} /\ kind[w] = "stream"
        /\ UNCHANGED <<pc, kind, connected, errored>>
        /\ \A v \in Worker \ {w} : v \in alive' <=> v \in alive
        /\ \A v \in Worker \ {w} : sent'[v] = sent[v]
      BY <1>5 DEF EmitSegment, Put, ServerTypeOK
  <2>2. Script(w)'
    <3>1. CASE w \in connected
      <4>1. sent[w] \in Begun /\ w \in alive /\ w \notin errored
          BY <2>1, <3>1 DEF Script
      <4>2. sent'[w] = (IF Last(sent[w]) = "chunk" THEN sent[w]
                        ELSE Append(sent[w], "chunk"))
            /\ alive' = alive
          BY <1>5, <3>1 DEF EmitSegment, Put, ServerTypeOK
      <4>3. sent'[w] \in Begun
          BY <4>1, <4>2, ChunkStays
      <4> QED
          BY <2>1, <4>1, <4>2, <4>3, StagesLegal DEF Script
    <3>2. CASE w \notin connected
        BY <1>5, <2>1, <3>2, ScriptGone DEF EmitSegment
    <3> QED
        BY <3>1, <3>2
  <2> QED
      BY <1>0, <2>1, <2>2
<1>6. ASSUME NEW w \in Worker, Catch(w), kind[w] = "stream"
      PROVE  \A v \in Worker : Script(v)'
  <2>1. /\ pc[w] = "catch" /\ UNCHANGED <<kind, connected, alive>>
        /\ IF w \in alive THEN Offer(w, "err") ELSE UNCHANGED sent
        /\ w \in errored' /\ pc'[w] = "tail"
        /\ \A v \in Worker \ {w} : /\ pc'[v] = pc[v]
                                   /\ v \in errored' <=> v \in errored
      BY <1>6, GotoPC DEF Catch
  <2>2. /\ \A v \in Worker \ {w} : sent'[v] = sent[v]
        /\ w \in connected /\ w \in alive => sent'[w] = Append(sent[w], "err")
        /\ w \notin connected => sent'[w] = sent[w]
      BY <2>1, OfferSent, Events
  <2>3. Script(w)'
    <3>1. CASE w \in connected
      <4>1. sent[w] \in Begun /\ w \in alive
          BY <1>6, <2>1, <3>1 DEF Script
      <4>2. sent'[w] \in Broken /\ sent'[w] \in Finished
          BY <2>2, <3>1, <4>1, StageTypes DEF Broken
      <4> QED
          BY <1>6, <2>1, <4>1, <4>2, StagesLegal DEF Script
    <3>2. CASE w \notin connected
        BY <1>6, <2>1, <2>2, <3>2, ScriptGone
    <3> QED
        BY <3>1, <3>2
  <2> QED
      BY <1>0, <2>1, <2>2, <2>3
<1>7. ASSUME NEW w \in Worker, Catch(w), kind[w] # "stream"
      PROVE  \A v \in Worker : Script(v)'
  <2>1. /\ pc[w] = "catch" /\ pc'[w] = "respond"
        /\ UNCHANGED <<kind, sent, connected, alive, errored>>
        /\ \A v \in Worker \ {w} : pc'[v] = pc[v]
      BY <1>7, GotoPC DEF Catch
  <2>2. Script(w)'
      BY <1>7, <2>1 DEF Script
  <2> QED
      BY <1>0, <2>1, <2>2
<1>8. ASSUME NEW w \in Worker, FinishChunk(w) PROVE \A v \in Worker : Script(v)'
  <2>1. /\ pc[w] = "tail" /\ pc'[w] = "done"
        /\ UNCHANGED <<kind, connected, alive, errored>>
        /\ IF w \in alive /\ w \notin errored THEN Offer(w, "fin") ELSE UNCHANGED sent
        /\ \A v \in Worker \ {w} : pc'[v] = pc[v]
      BY <1>8, GotoPC DEF FinishChunk
  <2>2. /\ \A v \in Worker \ {w} : sent'[v] = sent[v]
        /\ w \in connected /\ w \in alive /\ w \notin errored
             => sent'[w] = Append(sent[w], "fin")
        /\ w \notin connected \/ w \in errored => sent'[w] = sent[w]
      BY <2>1, OfferSent, Events
  <2>3. kind[w] = "stream"
      BY <2>1 DEF Script
  <2>4. Script(w)'
    <3>1. CASE w \in connected
      <4>1. w \in alive /\ sent[w] \in (IF w \in errored THEN Broken ELSE Begun)
          BY <2>1, <3>1 DEF Script
      <4>2. sent'[w] \in Finished
          BY <2>2, <3>1, <4>1, StageTypes DEF Finished
      <4> QED
          BY <2>1, <2>3, <4>1, <4>2, StagesLegal DEF Script
    <3>2. CASE w \notin connected
        BY <2>1, <2>2, <2>3, <3>2, ScriptGone
    <3> QED
        BY <3>1, <3>2
  <2> QED
      BY <1>0, <2>1, <2>2, <2>4
<1>9. ASSUME NEW w \in Worker, DoneEvent(w) PROVE \A v \in Worker : Script(v)'
  <2>1. /\ pc[w] = "done" /\ pc'[w] = "return"
        /\ UNCHANGED <<kind, connected, alive, errored>>
        /\ IF w \in alive THEN Offer(w, "done") ELSE UNCHANGED sent
        /\ \A v \in Worker \ {w} : pc'[v] = pc[v]
      BY <1>9, GotoPC DEF DoneEvent
  <2>2. /\ \A v \in Worker \ {w} : sent'[v] = sent[v]
        /\ w \in connected /\ w \in alive => sent'[w] = Append(sent[w], "done")
        /\ w \notin connected => sent'[w] = sent[w]
      BY <2>1, OfferSent, Events
  <2>3. kind[w] = "stream"
      BY <2>1 DEF Script
  <2>4. Script(w)'
    <3>1. CASE w \in connected
      <4>1. w \in alive /\ sent[w] \in Finished
          BY <2>1, <3>1 DEF Script
      <4>2. sent'[w] \in Marked
          BY <2>2, <3>1, <4>1 DEF Marked
      <4> QED
          BY <2>1, <2>3, <4>2, StagesLegal DEF Script
    <3>2. CASE w \notin connected
        BY <2>1, <2>2, <2>3, <3>2, ScriptGone
    <3> QED
        BY <3>1, <3>2
  <2> QED
      BY <1>0, <2>1, <2>2, <2>4
<1>10. ASSUME NEW w \in Worker, ProviderReturns(w) PROVE \A v \in Worker : Script(v)'
  <2>1. /\ pc[w] = "return" /\ pc'[w] = "free" /\ Offer(w, "end")
        /\ UNCHANGED <<kind, connected, alive, errored>>
        /\ \A v \in Worker \ {w} : pc'[v] = pc[v]
      BY <1>10, GotoPC DEF ProviderReturns
  <2>2. /\ \A v \in Worker \ {w} : sent'[v] = sent[v]
        /\ w \in connected => sent'[w] = Append(sent[w], "end")
        /\ w \notin connected => sent'[w] = sent[w]
      BY <2>1, OfferSent, Events
  <2>3. Script(w)'
    <3>1. CASE w \in connected
      <4>1. sent'[w] \in Legal
          BY <2>1, <2>2, <3>1, EndIsWhole DEF Script, Legal
      <4> QED
          BY <2>1, <4>1, StagesLegal DEF Script
    <3>2. CASE w \notin connected
        BY <2>1, <2>2, <3>2, ScriptGone
    <3> QED
        BY <3>1, <3>2
  <2> QED
      BY <1>0, <2>1, <2>2, <2>3
<1>11. ASSUME NEW w \in Worker, Respond(w) PROVE \A v \in Worker : Script(v)'
  <2>1. /\ pc[w] = "respond" /\ pc'[w] = "free" /\ Offer(w, "reply")
        /\ UNCHANGED <<kind, connected, alive, errored>>
        /\ \A v \in Worker \ {w} : pc'[v] = pc[v]
      BY <1>11, GotoPC DEF Respond
  <2>2. /\ \A v \in Worker \ {w} : sent'[v] = sent[v]
        /\ w \in connected => sent'[w] = Append(sent[w], "reply")
        /\ w \notin connected => sent'[w] = sent[w]
      BY <2>1, OfferSent, Events
  <2>3. Script(w)'
    <3>1. CASE w \in connected
      <4>1. sent[w] = << >>
          BY <2>1, <3>1 DEF Script
      <4>2. sent'[w] = <<"reply">>
          BY <2>2, <3>1, <4>1, SingleAppend, Events
      <4>3. sent'[w] \in Legal
          BY <4>2 DEF Legal
      <4> QED
          BY <2>1, <4>3, StagesLegal DEF Script
    <3>2. CASE w \notin connected
        BY <2>1, <2>2, <3>2, ScriptGone
    <3> QED
        BY <3>1, <3>2
  <2> QED
      BY <1>0, <2>1, <2>2, <2>3
<1>12. ASSUME \/ \E w \in Worker : Disconnect(w)
              \/ signal_handler \/ UNCHANGED vars
       PROVE  \A v \in Worker : Script(v)'
  <2>1. UNCHANGED <<pc, kind, sent, alive, errored>> /\ connected' \subseteq connected
      BY <1>12 DEF Disconnect, signal_handler, vars, local
  <2> QED
      BY <2>1, ScriptKept
<1> QED
    BY <1>1, <1>2, <1>3, <1>4, <1>5, <1>6, <1>7, <1>8, <1>9, <1>10, <1>11,
       <1>12 DEF Next, Work

\* Whatever fails and whoever hangs up: a client that stays gets one plain
\* response or one whole event stream, and one that leaves a beginning of it.
THEOREM StreamsWellFormed == Spec => []WellFormed
<1> DEFINE All == \A w \in Worker : Script(w)
<1>1. Init => All
    BY StagesLegal DEF Init, Script
<1>2. ServerTypeOK /\ All /\ [Next]_vars => All'
    BY ScriptStep
<1>3. All => WellFormed
    BY DEF Script, WellFormed, Legal
<1>4. TypeOK => ServerTypeOK
    BY DEF TypeOK
<1> HIDE DEF All
<1> QED
    BY <1>1, <1>2, <1>3, <1>4, TypeCorrect, PTL DEF Spec
=============================================================================
