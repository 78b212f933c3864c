--------------------------- MODULE PortalBridgeProofs ---------------------------
(***************************************************************************)
(* Every request gets its own files, one answer, and no handler waits for  *)
(* nothing: for every set of requests and of request ids, and any number   *)
(* of choosers killed, recreated or failing.                               *)
(*                                                                         *)
(* The argument is about the two places a sender of a request's channel    *)
(* can be, the map PENDING and the event under way: the event is sent once *)
(* and consumed before there is a chooser, and the entry is made once and  *)
(* is taken by the first result that carries its id.                       *)
(***************************************************************************)
EXTENDS PortalBridge, TLAPS

-----------------------------------------------------------------------------
(* The two places of a sender. *)
Registered(r) == id[r] \in DOMAIN PENDING /\ PENDING[id[r]] = r
InEvents(r)   == \E k \in DOMAIN events : events[k] = r

(* Where a handler is once it has sent its event. *)
Sent == {"recv", "remove", "write", "done"}

-----------------------------------------------------------------------------
(* The inductive invariant.                                                *)

(* A request has one connection. *)
Connected ==
  \A r \in Requests :
    /\ object[r] = "none" => thread[r] = "none"
    /\ thread[r] \in {"none", "connect"} => handler[r] = "none"

(* The event of a request comes before its chooser. *)
EventOnce == \A k, l \in DOMAIN events : events[k] = events[l] => k = l

EventFirst ==
  \A r \in Requests :
    /\ InEvents(r) => handler[r] \in Sent /\ chooser[r] = "none"
    /\ chooser[r] # "none" => handler[r] \in Sent

(* Nothing is received before there is a sender; then one response at     *)
(* most, after which no sender is left that a chooser could reach.        *)
Answers ==
  \A r \in Requests :
    /\ handler[r] \in {"none", "insert"} => inbox[r] = << >>
    /\ Unshared(r) /\ handler[r] = "send" => inbox[r] = << >>
    /\ Unshared(r) => Len(inbox[r]) <= 1
    /\ Unshared(r) /\ inbox[r] # << >> =>
         ~InEvents(r) /\ (chooser[r] = "none" \/ ~Registered(r))

(* The entry of a request whose id is its own stays until it is answered. *)
Waiting ==
  \A r \in Requests :
    Unshared(r) /\ handler[r] \in {"send", "recv"} /\ inbox[r] = << >> => Registered(r)

(* A response for r holds files only of choosers opened under r's id. *)
Own(r, p) == (p.response = 0 <=> p.uris # {}) /\ \A q \in p.uris : id[q] = id[r]

Files ==
  \A r \in Requests :
    /\ Own(r, result[r])
    /\ Own(r, response[r])
    /\ \A k \in DOMAIN inbox[r] : Own(r, inbox[r][k])
    /\ \A k \in DOMAIN answer[r] : Own(r, answer[r][k])

Inv ==
  /\ TypeOK /\ Connected /\ EventOnce /\ EventFirst /\ Answers /\ Waiting
  /\ PendingIsAwaited /\ NoHandlerLeftBehind /\ Files

-----------------------------------------------------------------------------
(* Types.                                                                  *)

LEMMA Responses ==
  /\ Failed \in PortalResponse
  /\ [response |-> 1, uris |-> {}] \in PortalResponse
  /\ \A r \in Requests : [response |-> 0, uris |-> {r}] \in PortalResponse
BY DEF PortalResponse, Failed

LEMMA WithoutType ==
  ASSUME TypeOK, NEW i
  PROVE  /\ DOMAIN Without(i) = DOMAIN PENDING \ {i}
         /\ \A j \in DOMAIN PENDING \ {i} : Without(i)[j] = PENDING[j]
         /\ DOMAIN Without(i) \subseteq Ids
         /\ Without(i) \in [DOMAIN Without(i) -> Requests]
BY DEF Without, TypeOK

LEMMA DeliverType ==
  ASSUME TypeOK, NEW r \in Requests, NEW p \in PortalResponse, Deliver(r, p)
  PROVE  /\ inbox' \in [Requests -> Seq(PortalResponse)]
         /\ \A q \in Requests \ {r} : inbox'[q] = inbox[q]
         /\ inbox'[r] = inbox[r] \/ inbox'[r] = Append(inbox[r], p)
         /\ handler[r] \in {"send", "recv", "remove"} => inbox'[r] = Append(inbox[r], p)
         /\ handler[r] \in {"none", "done"} => inbox'[r] = inbox[r]
BY DEF Deliver, TypeOK

(* A response that arrives: it goes to the request in the entry, which is  *)
(* removed, or nowhere. *)
LEMMA NativeCases ==
  ASSUME TypeOK, NEW i, NEW p \in PortalResponse, nativeFileChooserResult(i, p)
  PROVE  \/ UNCHANGED <<inbox, PENDING>> /\ i \notin DOMAIN PENDING
         \/ i \in DOMAIN PENDING /\ PENDING[i] \in Requests /\ Deliver(PENDING[i], p)
            /\ PENDING' = Without(i)
BY DEF nativeFileChooserResult, TypeOK

LEMMA NativeType ==
  ASSUME TypeOK, NEW i, NEW p \in PortalResponse, nativeFileChooserResult(i, p)
  PROVE  /\ inbox' \in [Requests -> Seq(PortalResponse)]
         /\ DOMAIN PENDING' \subseteq Ids /\ PENDING' \in [DOMAIN PENDING' -> Requests]
<1>1. CASE UNCHANGED <<inbox, PENDING>>
  BY <1>1 DEF TypeOK
<1>2. CASE /\ i \in DOMAIN PENDING /\ PENDING[i] \in Requests /\ Deliver(PENDING[i], p)
           /\ PENDING' = Without(i)
  BY <1>2, DeliverType, WithoutType
<1> QED  BY <1>1, <1>2, NativeCases

ChooserPlaces == {"none", "launched", "picking", "copying", "finished", "killed"}

LEMMA TypeNext ==
  ASSUME TypeOK, Next
  PROVE  TypeOK'
<1> USE FaultsAssumption, Responses
    DEF TypeOK, daemonVars, bridgeVars, androidVars, Advance, Fault
<1>1. CASE run_listener
  BY <1>1 DEF run_listener
<1>2. CASE handle_portal_request
  <2>1. Head(events) \in Requests /\ Tail(events) \in Seq(Requests)
    BY <1>2 DEF handle_portal_request
  <2>2. inbox' \in [Requests -> Seq(PortalResponse)]
    BY <1>2, <2>1, DeliverType DEF handle_portal_request
  <2>3. chooser' \in [Requests -> ChooserPlaces]
    BY <1>2, <2>1 DEF handle_portal_request, ChooserPlaces
  <2>4. faults' \in 0 .. MaxFaults
    BY <1>2 DEF handle_portal_request
  <2> QED  BY <1>2, <2>1, <2>2, <2>3, <2>4 DEF handle_portal_request, ChooserPlaces
<1> SUFFICES ASSUME NEW r \in Requests,
                    OpenFile(r) \/ Close(r) \/ Daemon(r) \/ Handler(r) \/ Chooser(r)
             PROVE  TypeOK'
  BY <1>1, <1>2 DEF Next
<1>3. CASE OpenFile(r)
  BY <1>3 DEF OpenFile
<1>20. CASE Close(r)
  BY <1>20 DEF Close
<1>4. CASE Connect(r)
  <2>1. thread' \in [Requests -> {"none", "connect", "recv", "answering", "done"}]
    BY <1>4 DEF Connect
  <2>2. handler' \in [Requests -> {"none", "insert", "send", "recv", "remove", "write", "done"}]
    BY <1>4 DEF Connect
  <2> QED  BY <1>4, <2>1, <2>2 DEF Connect
<1>21. CASE Timeout(r)
  BY <1>21 DEF Timeout
<1>5. CASE Respond(r)
  BY <1>5 DEF Respond
<1>6. CASE Insert(r)
  BY <1>6 DEF Insert
<1>7. CASE Send(r)
  BY <1>7 DEF Send
<1>8. CASE Recv(r)
  <2>1. inbox[r] # << >> => Head(inbox[r]) \in PortalResponse
    <3>1. inbox[r] \in Seq(PortalResponse)
      OBVIOUS
    <3> QED  BY <3>1
  <2>2. PICK p \in PortalResponse : response' = [response EXCEPT ![r] = p]
    BY <1>8, <2>1 DEF Recv
  <2>3. response' \in [Requests -> PortalResponse]
    BY <2>2
  <2> QED  BY <1>8, <2>3 DEF Recv
<1>9. CASE Remove(r)
  BY <1>9, WithoutType DEF Remove
<1>10. CASE Write(r)
  <2>1. thread' \in [Requests -> {"none", "connect", "recv", "answering", "done"}]
    <3>1. thread' = thread \/ thread' = [thread EXCEPT ![r] = "answering"]
      BY <1>10 DEF Write
    <3> QED  BY <3>1
  <2>2. result' \in [Requests -> PortalResponse]
    BY <1>10 DEF Write
  <2> QED  BY <1>10, <2>1, <2>2 DEF Write
<1>11. ASSUME NEW p \in PortalResponse, nativeFileChooserResult(id[r], p),
              UNCHANGED <<daemonVars, listening, handler, events, response>>,
              chooser' \in [Requests -> ChooserPlaces], faults' \in 0 .. MaxFaults
       PROVE  TypeOK'
  BY <1>11, NativeType DEF ChooserPlaces
<1>12. ASSUME UNCHANGED <<daemonVars, bridgeVars>>, chooser' \in [Requests -> ChooserPlaces],
              faults' \in 0 .. MaxFaults
       PROVE  TypeOK'
  BY <1>12 DEF ChooserPlaces
<1>13. ASSUME Chooser(r)
       PROVE  chooser' \in [Requests -> ChooserPlaces] /\ faults' \in 0 .. MaxFaults
  <2>1. chooser' \in [Requests -> ChooserPlaces]
    BY <1>13 DEF Chooser, onCreate, Recreate, RecreateWhileCopying, onActivityResult, CopyDone,
                 Kill, Finish, ChooserPlaces
  <2>2. faults' \in 0 .. MaxFaults
    BY <1>13 DEF Chooser, onCreate, Recreate, RecreateWhileCopying, onActivityResult, CopyDone,
                 Kill
  <2> QED  BY <2>1, <2>2
<1> HIDE DEF TypeOK
<1>14. ASSUME NEW p \in PortalResponse, Finish(r, p), Chooser(r)
       PROVE  TypeOK'
  BY <1>11, <1>13, <1>14 DEF Finish
<1>15. CASE onCreate(r)
  BY <1>12, <1>13, <1>14, <1>15 DEF onCreate, Chooser
<1>16. CASE Recreate(r) \/ Kill(r)
  BY <1>12, <1>13, <1>16 DEF Recreate, Kill, Chooser
<1>17. CASE RecreateWhileCopying(r)
  BY <1>11, <1>13, <1>17 DEF RecreateWhileCopying, Chooser
<1>18. CASE onActivityResult(r)
  BY <1>12, <1>13, <1>14, <1>18 DEF onActivityResult, Chooser
<1>19. CASE CopyDone(r)
  BY <1>14, <1>19 DEF CopyDone, Chooser
<1> QED
  BY <1>3, <1>20, <1>4, <1>21, <1>5, <1>6, <1>7, <1>8, <1>9, <1>10, <1>15, <1>16, <1>17, <1>18,
     <1>19
  DEF Daemon, Handler, Chooser

-----------------------------------------------------------------------------
(* The queue of events.                                                    *)

LEMMA EventSent ==
  ASSUME TypeOK, NEW r \in Requests, events' = Append(events, r)
  PROVE  /\ \A q : InEvents(q)' <=> InEvents(q) \/ q = r
         /\ EventOnce /\ ~InEvents(r) => EventOnce'
<1>1. events \in Seq(Requests)
  BY DEF TypeOK
<1>2. /\ DOMAIN events = 1 .. Len(events) /\ DOMAIN events' = 1 .. Len(events) + 1
      /\ Len(events) \in Nat
      /\ \A k \in 1 .. Len(events) : events'[k] = events[k]
      /\ events'[Len(events) + 1] = r
  BY <1>1
<1>3. 1 .. Len(events) + 1 = (1 .. Len(events)) \cup {Len(events) + 1}
  BY <1>2
<1>4. ASSUME NEW q  PROVE InEvents(q)' <=> InEvents(q) \/ q = r
  BY <1>2, <1>3 DEF InEvents
<1>5. ASSUME EventOnce, ~InEvents(r)  PROVE EventOnce'
  BY <1>2, <1>3, <1>5 DEF EventOnce, InEvents
<1> QED  BY <1>4, <1>5

LEMMA EventTaken ==
  ASSUME TypeOK, EventOnce, events # << >>, events' = Tail(events), NEW r, r = Head(events)
  PROVE  /\ r \in Requests /\ InEvents(r)
         /\ ~InEvents(r)'
         /\ \A q : q # r => (InEvents(q)' <=> InEvents(q))
         /\ EventOnce'
<1>1. events \in Seq(Requests)
  BY DEF TypeOK
<1>2. /\ DOMAIN events = 1 .. Len(events) /\ DOMAIN events' = 1 .. Len(events) - 1
      /\ Len(events) \in Nat /\ Len(events) > 0
      /\ \A k \in 1 .. Len(events) - 1 : events'[k] = events[k + 1]
      /\ r = events[1] /\ events[1] \in Requests
  BY <1>1
<1>3. InEvents(r)
  BY <1>2 DEF InEvents
<1>4. EventOnce'
  <2> SUFFICES ASSUME NEW k \in 1 .. Len(events) - 1, NEW l \in 1 .. Len(events) - 1,
                      events'[k] = events'[l]
               PROVE  k = l
    BY <1>2 DEF EventOnce
  <2>1. k + 1 \in DOMAIN events /\ l + 1 \in DOMAIN events /\ events[k + 1] = events[l + 1]
    BY <1>2
  <2>2. k + 1 = l + 1
    BY <2>1 DEF EventOnce
  <2> QED  BY <2>2, <1>2
<1>5. ~InEvents(r)'
  <2> SUFFICES ASSUME NEW k \in 1 .. Len(events) - 1, events'[k] = r  PROVE FALSE
    BY <1>2 DEF InEvents
  <2>1. k + 1 \in DOMAIN events /\ 1 \in DOMAIN events /\ events[k + 1] = events[1]
    BY <1>2
  <2>2. k + 1 = 1
    BY <2>1 DEF EventOnce
  <2> QED  BY <2>2, <1>2
<1>6. ASSUME NEW q, q # r  PROVE InEvents(q)' <=> InEvents(q)
  <2>1. ASSUME InEvents(q)'  PROVE InEvents(q)
    <3>1. PICK k \in 1 .. Len(events) - 1 : events'[k] = q
      BY <1>2, <2>1 DEF InEvents
    <3> QED  BY <1>2, <3>1 DEF InEvents
  <2>2. ASSUME InEvents(q)  PROVE InEvents(q)'
    <3>1. PICK k \in 1 .. Len(events) : events[k] = q
      BY <1>2, <2>2 DEF InEvents
    <3>2. k # 1 /\ k - 1 \in 1 .. Len(events) - 1 /\ events'[k - 1] = q
      BY <1>2, <1>6, <3>1
    <3> QED  BY <1>2, <3>2 DEF InEvents
  <2> QED  BY <2>1, <2>2
<1> QED  BY <1>2, <1>3, <1>4, <1>5, <1>6

LEMMA EventsKept == events' = events => (EventOnce' <=> EventOnce) /\ \A q : InEvents(q)' <=> InEvents(q)
BY DEF EventOnce, InEvents

-----------------------------------------------------------------------------
(* What a step of a chooser is: its place changes, and either nothing else *)
(* does, and the chooser goes on, or a response of its own arrives.        *)

LEMMA ChooserSteps ==
  ASSUME TypeOK, NEW r \in Requests, Chooser(r)
  PROVE  /\ UNCHANGED <<id, object, thread, result, answer, handler, events, response>>
         /\ chooser[r] # "none" /\ chooser'[r] # "none"
         /\ \A q \in Requests \ {r} : chooser'[q] = chooser[q]
         /\ \/ UNCHANGED <<inbox, PENDING>> /\ chooser'[r] # "finished"
            \/ \E p \in PortalResponse : Own(r, p) /\ nativeFileChooserResult(id[r], p)
<1>1. UNCHANGED <<id, object, thread, result, answer, handler, events, response>>
  BY DEF Chooser, onCreate, Recreate, RecreateWhileCopying, onActivityResult, CopyDone, Kill,
         Finish, daemonVars, bridgeVars
<1>2. chooser[r] # "none"
  BY DEF Chooser, onCreate, Recreate, RecreateWhileCopying, onActivityResult, CopyDone, Kill
<1>3. chooser'[r] # "none" /\ \A q \in Requests \ {r} : chooser'[q] = chooser[q]
  BY DEF Chooser, onCreate, Recreate, RecreateWhileCopying, onActivityResult, CopyDone, Kill,
         Finish, TypeOK
<1> DEFINE Answered == \E p \in PortalResponse : Own(r, p) /\ nativeFileChooserResult(id[r], p)
<1>4. Own(r, Failed) /\ Own(r, [response |-> 1, uris |-> {}])
      /\ Own(r, [response |-> 0, uris |-> {r}])
  BY DEF Own, Failed
<1>5. ASSUME NEW p \in PortalResponse, Own(r, p), nativeFileChooserResult(id[r], p)
      PROVE  Answered
  BY <1>5
<1> HIDE DEF Answered
<1>6. CASE UNCHANGED <<inbox, PENDING>> /\ chooser'[r] # "finished"
  BY <1>1, <1>2, <1>3, <1>6
<1>7. CASE Answered
  BY <1>1, <1>2, <1>3, <1>7 DEF Answered
<1>8. CASE onCreate(r) \/ Recreate(r) \/ Kill(r)
  <2>1. \/ Finish(r, Failed)
        \/ UNCHANGED <<inbox, PENDING>> /\ chooser'[r] # "finished"
    BY <1>8 DEF onCreate, Recreate, Kill, bridgeVars, TypeOK
  <2> QED  BY <1>4, <1>5, <1>6, <1>7, <2>1, Responses DEF Finish
<1>9. CASE RecreateWhileCopying(r)
  BY <1>4, <1>5, <1>7, <1>9, Responses DEF RecreateWhileCopying
<1>10. CASE onActivityResult(r)
  <2>1. \/ Finish(r, [response |-> 1, uris |-> {}])
        \/ UNCHANGED <<inbox, PENDING>> /\ chooser'[r] # "finished"
    BY <1>10 DEF onActivityResult, bridgeVars, TypeOK
  <2> QED  BY <1>4, <1>5, <1>6, <1>7, <2>1, Responses DEF Finish
<1>11. CASE CopyDone(r)
  BY <1>4, <1>5, <1>7, <1>11, Responses DEF CopyDone, Finish
<1> QED  BY <1>8, <1>9, <1>10, <1>11 DEF Chooser

(* Steps that neither move a handler nor touch a sender, an answer under   *)
(* way or a chooser. *)
Quiet == UNCHANGED <<id, handler, PENDING, events, inbox, response, chooser>>

LEMMA QuietSteps ==
  ASSUME NEW r \in Requests,
         run_listener \/ OpenFile(r) \/ Close(r) \/ Timeout(r) \/ Respond(r)
  PROVE  Quiet
BY DEF run_listener, OpenFile, Close, Timeout, Respond, Quiet, daemonVars, bridgeVars, androidVars

LEMMA IdsAreFixed == Next => id' = id
BY DEF Next, run_listener, handle_portal_request, OpenFile, Close, Daemon, Connect, Timeout,
       Respond, Handler, Insert, Send, Recv, Remove, Write, Chooser, onCreate, Recreate,
       RecreateWhileCopying, onActivityResult, CopyDone, Kill, Finish, daemonVars

-----------------------------------------------------------------------------
LEMMA ConnectedNext ==
  ASSUME Inv, Next
  PROVE  Connected'
<1> USE DEF Inv, TypeOK, Connected, daemonVars, bridgeVars, androidVars
<1>1. CASE run_listener \/ handle_portal_request
  BY <1>1 DEF run_listener, handle_portal_request
<1> SUFFICES ASSUME NEW r \in Requests,
                    OpenFile(r) \/ Close(r) \/ Daemon(r) \/ Handler(r) \/ Chooser(r)
             PROVE  Connected'
  BY <1>1 DEF Next
<1>2. CASE OpenFile(r) \/ Close(r)
  BY <1>2 DEF OpenFile, Close
<1>3. CASE Daemon(r)
  BY <1>3 DEF Daemon, Connect, Timeout, Respond
<1>4. CASE Handler(r)
  BY <1>4 DEF Handler, Insert, Send, Recv, Remove, Write, Advance
<1>5. CASE Chooser(r)
  BY <1>5, ChooserSteps
<1> QED  BY <1>2, <1>3, <1>4, <1>5

LEMMA EventNext ==
  ASSUME Inv, Next
  PROVE  EventOnce' /\ EventFirst'
<1> USE DEF Inv, EventFirst, Sent
<1>1. ASSUME events' = events,
             \A q \in Requests : /\ chooser'[q] = chooser[q] \/ chooser[q] # "none"
                                 /\ handler[q] \in Sent => handler'[q] \in Sent
                                 /\ chooser'[q] # "none" => chooser[q] # "none"
      PROVE  EventOnce' /\ EventFirst'
  BY <1>1, EventsKept
<1>2. CASE run_listener
  BY <1>1, <1>2 DEF run_listener, bridgeVars, androidVars
<1>3. CASE handle_portal_request
  <2> DEFINE h == Head(events)
  <2>1. EventOnce' /\ h \in Requests /\ InEvents(h)
    BY <1>3, EventTaken DEF handle_portal_request
  <2>2. PICK r \in Requests : r = h
    BY <2>1
  <2>3. ~InEvents(r)' /\ \A q : q # r => (InEvents(q)' <=> InEvents(q))
    BY <1>3, <2>2, EventTaken DEF handle_portal_request
  <2>4. handler' = handler /\ \A q \in Requests \ {r} : chooser'[q] = chooser[q]
    BY <1>3, <2>2 DEF handle_portal_request, TypeOK
  <2> QED  BY <2>1, <2>2, <2>3, <2>4
<1> SUFFICES ASSUME NEW r \in Requests,
                    OpenFile(r) \/ Close(r) \/ Daemon(r) \/ Handler(r) \/ Chooser(r)
             PROVE  EventOnce' /\ EventFirst'
  BY <1>2, <1>3 DEF Next
<1>4. CASE OpenFile(r) \/ Close(r) \/ Timeout(r) \/ Respond(r)
  BY <1>1, <1>4, QuietSteps DEF Quiet
<1>5. CASE Connect(r)
  BY <1>1, <1>5 DEF Connect, Connected, TypeOK, androidVars
<1>6. CASE Insert(r) \/ Recv(r) \/ Remove(r) \/ Write(r)
  BY <1>1, <1>6 DEF Insert, Recv, Remove, Write, Advance, TypeOK, androidVars
<1>7. CASE Send(r)
  <2>1. handler[r] = "send" /\ ~InEvents(r) /\ chooser[r] = "none"
    BY <1>7 DEF Send, Advance
  <2>2. EventOnce' /\ \A q : InEvents(q)' <=> InEvents(q) \/ q = r
    BY <1>7, <2>1, EventSent DEF Send
  <2>3. handler' = [handler EXCEPT ![r] = "recv"] /\ chooser' = chooser
    BY <1>7 DEF Send, Advance, androidVars
  <2> QED  BY <2>1, <2>2, <2>3 DEF TypeOK
<1>8. CASE Chooser(r)
  BY <1>1, <1>8, ChooserSteps
<1> QED  BY <1>4, <1>5, <1>6, <1>7, <1>8 DEF Daemon, Handler

(* What an arriving response does, with what is known of the entry. *)
LEMMA NativeEffect ==
  ASSUME Inv, NEW r \in Requests, NEW p \in PortalResponse, Own(r, p),
         nativeFileChooserResult(id[r], p)
  PROVE  \/ UNCHANGED <<inbox, PENDING>> /\ ~Registered(r)
         \/ \E q \in Requests :
              /\ id[q] = id[r] /\ Registered(q) /\ Own(q, p)
              /\ handler[q] \in {"send", "recv", "remove"}
              /\ inbox' = [inbox EXCEPT ![q] = Append(@, p)]
              /\ PENDING' = Without(id[r])
<1>1. CASE UNCHANGED <<inbox, PENDING>> /\ id[r] \notin DOMAIN PENDING
  BY <1>1 DEF Registered
<1>2. CASE /\ id[r] \in DOMAIN PENDING /\ PENDING[id[r]] \in Requests
           /\ Deliver(PENDING[id[r]], p) /\ PENDING' = Without(id[r])
  <2>1. PICK q \in Requests : q = PENDING[id[r]]
    BY <1>2
  <2>2. id[q] = id[r] /\ handler[q] \in {"send", "recv", "remove"}
    BY <1>2, <2>1 DEF Inv, PendingIsAwaited
  <2>3. Registered(q) /\ Own(q, p)
    BY <1>2, <2>1, <2>2 DEF Registered, Own
  <2>4. inbox' = [inbox EXCEPT ![q] = Append(@, p)]
    BY <1>2, <2>1, <2>2 DEF Deliver
  <2> QED  BY <1>2, <2>2, <2>3, <2>4
<1> QED  BY <1>1, <1>2, NativeCases DEF Inv

LEMMA PendingNext ==
  ASSUME Inv, Next
  PROVE  PendingIsAwaited'
<1> USE DEF Inv, PendingIsAwaited
<1>1. TypeOK /\ id' = id
  BY IdsAreFixed
<1>2. ASSUME DOMAIN PENDING' \subseteq DOMAIN PENDING,
             \A j \in DOMAIN PENDING' : PENDING'[j] = PENDING[j]
                                        /\ handler'[PENDING[j]] \in {"send", "recv", "remove"}
      PROVE  PendingIsAwaited'
  BY <1>1, <1>2
<1>3. CASE run_listener
  BY <1>2, <1>3 DEF run_listener
<1>4. CASE handle_portal_request
  BY <1>2, <1>4 DEF handle_portal_request
<1> SUFFICES ASSUME NEW r \in Requests,
                    OpenFile(r) \/ Close(r) \/ Daemon(r) \/ Handler(r) \/ Chooser(r)
             PROVE  PendingIsAwaited'
  BY <1>3, <1>4 DEF Next
<1>5. CASE OpenFile(r) \/ Close(r) \/ Timeout(r) \/ Respond(r)
  BY <1>2, <1>5, QuietSteps DEF Quiet
<1>6. \A j \in DOMAIN PENDING : PENDING[j] \in Requests
  BY DEF TypeOK
<1>7. CASE Connect(r)
  <2>1. handler[r] = "none" /\ PENDING' = PENDING
    BY <1>7 DEF Connect, Connected
  <2>2. \A q \in Requests \ {r} : handler'[q] = handler[q]
    BY <1>7 DEF Connect, TypeOK
  <2> QED  BY <1>2, <1>6, <2>1, <2>2
<1>8. CASE Insert(r)
  <2>1. handler'[r] = "send" /\ \A q \in Requests \ {r} : handler'[q] = handler[q]
    BY <1>8 DEF Insert, Advance, TypeOK
  <2>2. handler[r] = "insert"
    BY <1>8 DEF Insert, Advance
  <2>3. DOMAIN PENDING' = DOMAIN PENDING \cup {id[r]}
        /\ \A j \in DOMAIN PENDING' : PENDING'[j] = IF j = id[r] THEN r ELSE PENDING[j]
    BY <1>8 DEF Insert
  <2> QED  BY <1>1, <1>6, <2>1, <2>2, <2>3
<1>9. CASE Send(r) \/ Recv(r) \/ Write(r)
  <2>1. /\ PENDING' = PENDING
        /\ handler'[r] \in {"send", "recv", "remove"} \/ handler[r] = "write"
        /\ \A q \in Requests \ {r} : handler'[q] = handler[q]
    BY <1>9 DEF Send, Recv, Write, Advance, TypeOK
  <2> QED  BY <1>2, <1>6, <2>1
<1>10. CASE Remove(r)
  <2>1. \A q \in Requests \ {r} : handler'[q] = handler[q]
    BY <1>10 DEF Remove, Advance, TypeOK
  <2>2. DOMAIN PENDING' = DOMAIN PENDING \ {id[r]}
        /\ \A j \in DOMAIN PENDING' : PENDING'[j] = PENDING[j]
    BY <1>10 DEF Remove, Without
  <2> QED  BY <1>1, <1>2, <1>6, <2>1, <2>2
<1>11. CASE Chooser(r)
  <2>1. handler' = handler
    BY <1>11, ChooserSteps
  <2>2. \/ PENDING' = PENDING
        \/ PENDING' = Without(id[r])
    BY <1>11, ChooserSteps, NativeEffect
  <2>3. PENDING' = Without(id[r]) => DOMAIN PENDING' \subseteq DOMAIN PENDING
                                     /\ \A j \in DOMAIN PENDING' : PENDING'[j] = PENDING[j]
    BY DEF Without
  <2> QED  BY <1>2, <1>6, <2>1, <2>2, <2>3
<1> QED  BY <1>5, <1>7, <1>8, <1>9, <1>10, <1>11 DEF Daemon, Handler

-----------------------------------------------------------------------------
(* What is left of the senders. *)
LEMMA EntryTaken ==
  ASSUME NEW i, PENDING' = Without(i), id' = id, NEW q
  PROVE  Registered(q)' <=> Registered(q) /\ id[q] # i
BY DEF Registered, Without

LEMMA EntryMade ==
  ASSUME NEW r, Insert(r)
  PROVE  /\ Registered(r)'
         /\ \A q : q # r => (Registered(q)' => Registered(q))
         /\ \A q : id[q] # id[r] => (Registered(q) => Registered(q)')
BY DEF Insert, Registered, daemonVars

LEMMA EntryKept ==
  UNCHANGED <<id, PENDING>> => \A q : Registered(q)' <=> Registered(q)
BY DEF Registered

LEMMA UnsharedKept ==
  id' = id => \A q : Unshared(q)' <=> Unshared(q)
BY DEF Unshared

(* An answer arrives where none was, if nobody shares the id. *)
LEMMA FirstAnswer ==
  ASSUME TypeOK, NEW q \in Requests, NEW p \in PortalResponse,
         inbox' = [inbox EXCEPT ![q] = Append(@, p)]
  PROVE  /\ inbox'[q] # << >>
         /\ inbox[q] = << >> => Len(inbox'[q]) <= 1
         /\ \A s \in Requests \ {q} : inbox'[s] = inbox[s]
<1>1. inbox[q] \in Seq(PortalResponse) /\ inbox'[q] = Append(inbox[q], p)
      /\ \A s \in Requests \ {q} : inbox'[s] = inbox[s]
  BY DEF TypeOK
<1>2. Len(inbox'[q]) = Len(inbox[q]) + 1 /\ Len(inbox[q]) \in Nat
  BY <1>1
<1> QED  BY <1>1, <1>2

AnswersOf(q) ==
  /\ handler[q] \in {"none", "insert"} => inbox[q] = << >>
  /\ Unshared(q) /\ handler[q] = "send" => inbox[q] = << >>
  /\ Unshared(q) => Len(inbox[q]) <= 1
  /\ Unshared(q) /\ inbox[q] # << >> =>
       ~InEvents(q) /\ (chooser[q] = "none" \/ ~Registered(q))

LEMMA AnswersNext ==
  ASSUME Inv, Next
  PROVE  Answers'
<1> SUFFICES ASSUME NEW q \in Requests  PROVE AnswersOf(q)'
  BY DEF Answers, AnswersOf
<1> USE DEF Inv
<1>1. AnswersOf(q) /\ TypeOK /\ id' = id /\ (Unshared(q)' <=> Unshared(q))
  BY IdsAreFixed, UnsharedKept DEF Answers, AnswersOf
<1>2. ASSUME inbox'[q] = inbox[q],
             handler'[q] = handler[q] \/ handler'[q] \notin {"none", "insert", "send"}
               \/ (handler'[q] = "insert" /\ handler[q] = "none")
               \/ inbox[q] = << >>,
             InEvents(q)' => InEvents(q) \/ inbox[q] = << >> \/ ~Unshared(q),
             Registered(q)' => Registered(q) \/ inbox[q] = << >>,
             chooser'[q] # "none" => chooser[q] # "none" \/ inbox[q] = << >> \/ ~Unshared(q)
      PROVE  AnswersOf(q)'
  BY <1>1, <1>2 DEF AnswersOf
<1>3. CASE run_listener
  BY <1>1, <1>2, <1>3, EventsKept, EntryKept DEF run_listener, androidVars
<1>4. CASE handle_portal_request
  <2>1. PICK r \in Requests : r = Head(events)
    BY <1>4, EventTaken DEF handle_portal_request
  <2>2. InEvents(r) /\ ~InEvents(r)' /\ \A s : s # r => (InEvents(s)' <=> InEvents(s))
    BY <1>4, <2>1, EventTaken DEF handle_portal_request
  <2>3. /\ UNCHANGED <<handler, PENDING>> /\ (Registered(q)' <=> Registered(q))
    BY <1>1, <1>4, EntryKept DEF handle_portal_request
  <2>4. chooser[r] = "none" /\ (Unshared(r) => inbox[r] = << >>) /\ handler[r] \in Sent
    BY <2>2 DEF EventFirst, Answers
  <2>5. CASE q # r
    <3>1. chooser'[q] = chooser[q]
      BY <1>4, <2>1, <2>5 DEF handle_portal_request, TypeOK
    <3>2. inbox'[q] = inbox[q]
      BY <1>4, <2>1, <2>5, DeliverType, Responses DEF handle_portal_request
    <3> QED  BY <1>2, <2>2, <2>3, <2>5, <3>1, <3>2
  <2>6. CASE q = r
    <3>1. CASE UNCHANGED inbox
      BY <1>2, <2>2, <2>3, <2>4, <2>6, <3>1
    <3>2. CASE Deliver(r, Failed) /\ UNCHANGED chooser
      <4>1. CASE inbox' = inbox
        BY <1>2, <2>2, <2>3, <2>4, <2>6, <3>2, <4>1
      <4>2. CASE inbox' = [inbox EXCEPT ![r] = Append(@, Failed)]
        <5>1. Unshared(r) => Len(inbox'[r]) <= 1
          BY <2>4, <4>2, FirstAnswer, Responses
        <5> QED  BY <1>1, <2>2, <2>3, <2>4, <2>6, <3>2, <5>1 DEF AnswersOf, Sent
      <4> QED  BY <3>2, <4>1, <4>2 DEF Deliver
    <3> QED  BY <1>4, <2>1, <3>1, <3>2 DEF handle_portal_request
  <2> QED  BY <2>5, <2>6
<1> SUFFICES ASSUME NEW r \in Requests,
                    OpenFile(r) \/ Close(r) \/ Daemon(r) \/ Handler(r) \/ Chooser(r)
             PROVE  AnswersOf(q)'
  BY <1>3, <1>4 DEF Next
<1>5. CASE OpenFile(r) \/ Close(r) \/ Timeout(r) \/ Respond(r)
  BY <1>2, <1>5, QuietSteps, EventsKept, EntryKept DEF Quiet
<1>6. CASE Connect(r)
  <2>1. UNCHANGED <<PENDING, events, inbox, chooser>>
    BY <1>6 DEF Connect, androidVars
  <2>2. handler'[q] = handler[q] \/ (handler'[q] = "insert" /\ handler[q] = "none")
    <3>1. handler[r] = "none"
      BY <1>6 DEF Connect, Connected
    <3>2. handler' = handler \/ handler' = [handler EXCEPT ![r] = "insert"]
      BY <1>6 DEF Connect
    <3> QED  BY <3>1, <3>2 DEF TypeOK
  <2> QED  BY <1>1, <1>2, <2>1, <2>2, EventsKept, EntryKept
<1>7. CASE Insert(r)
  <2>1. UNCHANGED <<events, inbox, chooser>> /\ handler[r] = "insert"
        /\ (q # r => handler'[q] = handler[q])
    BY <1>7 DEF Insert, Advance, androidVars, TypeOK
  <2>2. q = r => inbox[q] = << >>
    BY <1>1, <2>1 DEF AnswersOf
  <2> QED  BY <1>2, <1>7, <2>1, <2>2, EventsKept, EntryMade
<1>8. CASE Send(r)
  <2>1. UNCHANGED <<PENDING, inbox, chooser>> /\ handler[r] = "send" /\ handler'[r] = "recv"
        /\ (q # r => handler'[q] = handler[q])
    BY <1>8 DEF Send, Advance, androidVars, TypeOK
  <2>2. InEvents(q)' => InEvents(q) \/ q = r
    BY <1>8, EventSent DEF Send
  <2>3. q = r => inbox[q] = << >> \/ ~Unshared(q)
    BY <1>1, <2>1 DEF AnswersOf
  <2> QED  BY <1>1, <1>2, <2>1, <2>2, <2>3, EntryKept
<1>9. CASE Recv(r) \/ Write(r)
  <2>1. /\ UNCHANGED <<PENDING, events, inbox, chooser>>
        /\ handler'[q] = handler[q] \/ handler'[q] \in {"remove", "done"}
    BY <1>9 DEF Recv, Write, Advance, androidVars, TypeOK
  <2> QED  BY <1>1, <1>2, <2>1, EventsKept, EntryKept
<1>10. CASE Remove(r)
  <2>1. /\ UNCHANGED <<events, inbox, chooser>>
        /\ handler'[q] = handler[q] \/ handler'[q] = "write"
    BY <1>10 DEF Remove, Advance, androidVars, TypeOK
  <2>2. Registered(q)' => Registered(q)
    BY <1>1, <1>10, EntryTaken DEF Remove
  <2> QED  BY <1>1, <1>2, <2>1, <2>2, EventsKept
<1>11. CASE Chooser(r)
  <2>1. /\ UNCHANGED <<handler, events>> /\ (InEvents(q)' <=> InEvents(q))
        /\ chooser'[q] # "none" => chooser[q] # "none"
    BY <1>11, ChooserSteps, EventsKept
  <2>2. CASE UNCHANGED <<inbox, PENDING>>
    BY <1>1, <1>2, <2>1, <2>2, EntryKept
  <2>3. ASSUME NEW p \in PortalResponse, NEW s \in Requests,
               id[s] = id[r], Registered(s), handler[s] \in {"send", "recv", "remove"},
               inbox' = [inbox EXCEPT ![s] = Append(@, p)], PENDING' = Without(id[r])
        PROVE  AnswersOf(q)'
    <3>1. Registered(q)' <=> Registered(q) /\ id[q] # id[r]
      BY <1>1, <2>3, EntryTaken
    <3>2. CASE q # s
      <4>1. inbox'[q] = inbox[q]
        BY <2>3, <3>2 DEF TypeOK
      <4> QED  BY <1>2, <2>1, <3>1, <4>1
    <3>3. CASE q = s /\ ~Unshared(q)
      BY <1>1, <2>1, <2>3, <3>3 DEF AnswersOf
    <3>4. CASE q = s /\ Unshared(q)
      <4>1. s = r
        BY <2>3, <3>4 DEF Unshared
      <4>2. chooser[q] # "none"
        BY <1>11, <3>4, <4>1, ChooserSteps
      <4>3. inbox[q] = << >> /\ handler[q] \in Sent /\ ~InEvents(q)
        BY <1>1, <2>3, <3>4, <4>2 DEF AnswersOf, EventFirst
      <4>4. Len(inbox'[q]) <= 1
        BY <2>3, <3>4, <4>3, FirstAnswer
      <4> QED  BY <1>1, <2>1, <2>3, <3>1, <3>4, <4>3, <4>4 DEF AnswersOf, Sent
    <3> QED  BY <3>2, <3>3, <3>4
  <2> QED  BY <1>11, <2>2, <2>3, ChooserSteps, NativeEffect
<1> QED  BY <1>5, <1>6, <1>7, <1>8, <1>9, <1>10, <1>11 DEF Daemon, Handler

LEMMA WaitingNext ==
  ASSUME Inv, Next
  PROVE  Waiting'
<1> SUFFICES ASSUME NEW q \in Requests, Unshared(q)', handler'[q] \in {"send", "recv"},
                    inbox'[q] = << >>
             PROVE  Registered(q)'
  BY DEF Waiting
<1> USE DEF Inv
<1>1. TypeOK /\ id' = id /\ Unshared(q)
  BY IdsAreFixed, UnsharedKept
<1>2. handler[q] \in {"send", "recv"} /\ inbox[q] = << >> => Registered(q)
  BY <1>1 DEF Waiting
<1>3. ASSUME handler[q] \in {"send", "recv"}, inbox[q] = << >>, PENDING' = PENDING
      PROVE  Registered(q)'
  BY <1>1, <1>2, <1>3, EntryKept
<1>4. CASE run_listener
  BY <1>3, <1>4 DEF run_listener
<1>5. CASE handle_portal_request
  <2>1. PENDING' = PENDING /\ handler' = handler
    BY <1>5 DEF handle_portal_request
  <2>2. PICK r \in Requests : r = Head(events)
    BY <1>5, EventTaken DEF handle_portal_request
  <2>3. inbox' = inbox \/ inbox' = [inbox EXCEPT ![r] = Append(@, Failed)]
    BY <1>5, <2>2 DEF handle_portal_request, Deliver
  <2>4. inbox[q] = << >>
    BY <2>3, <1>1, FirstAnswer, Responses
  <2> QED  BY <1>3, <2>1, <2>4
<1> SUFFICES ASSUME NEW r \in Requests,
                    OpenFile(r) \/ Close(r) \/ Daemon(r) \/ Handler(r) \/ Chooser(r)
             PROVE  Registered(q)'
  BY <1>4, <1>5 DEF Next
<1>6. CASE OpenFile(r) \/ Close(r) \/ Timeout(r) \/ Respond(r)
  BY <1>3, <1>6, QuietSteps DEF Quiet
<1>7. CASE Connect(r)
  BY <1>3, <1>7 DEF Connect, TypeOK
<1>8. CASE Insert(r)
  <2>1. q # r => handler[q] \in {"send", "recv"} /\ inbox[q] = << >>
    BY <1>8 DEF Insert, Advance, TypeOK
  <2>2. q # r => id[q] # id[r]
    BY <1>1 DEF Unshared
  <2> QED  BY <1>2, <1>8, <2>1, <2>2, EntryMade
<1>9. CASE Send(r) \/ Recv(r) \/ Write(r)
  BY <1>3, <1>9 DEF Send, Recv, Write, Advance, TypeOK
<1>10. CASE Remove(r)
  <2>1. q # r /\ handler[q] \in {"send", "recv"} /\ inbox[q] = << >>
    BY <1>10 DEF Remove, Advance, TypeOK
  <2>2. id[q] # id[r]
    BY <1>1, <2>1 DEF Unshared
  <2> QED  BY <1>1, <1>2, <1>10, <2>1, <2>2, EntryTaken DEF Remove
<1>11. CASE Chooser(r)
  <2>1. handler[q] \in {"send", "recv"}
    BY <1>11, ChooserSteps
  <2>2. CASE UNCHANGED <<inbox, PENDING>>
    BY <1>3, <2>1, <2>2
  <2>3. ASSUME NEW p \in PortalResponse, NEW s \in Requests, id[s] = id[r],
               inbox' = [inbox EXCEPT ![s] = Append(@, p)], PENDING' = Without(id[r])
        PROVE  Registered(q)'
    <3>1. q # s /\ inbox[q] = << >>
      BY <1>1, <2>3, FirstAnswer
    <3>2. id[q] # id[r]
      BY <1>1, <2>3, <3>1 DEF Unshared
    <3> QED  BY <1>1, <1>2, <2>1, <2>3, <3>1, <3>2, EntryTaken
  <2> QED  BY <1>11, <2>2, <2>3, ChooserSteps, NativeEffect
<1> QED  BY <1>6, <1>7, <1>8, <1>9, <1>10, <1>11 DEF Daemon, Handler

LEMMA SendersAre == \A r : HasSender(r) <=> Registered(r) \/ InEvents(r)
BY DEF HasSender, Registered, InEvents

LEMMA LeftNext ==
  ASSUME Inv, Next
  PROVE  NoHandlerLeftBehind'
<1> SUFFICES ASSUME NEW q \in Requests, handler'[q] = "recv", chooser'[q] = "finished",
                    inbox'[q] = << >>
             PROVE  ~Registered(q)'
  <2>1. ASSUME NEW q \in Requests, chooser'[q] = "finished"  PROVE ~InEvents(q)'
    BY <2>1, EventNext DEF EventFirst
  <2>2. \A q : HasSender(q)' <=> Registered(q)' \/ InEvents(q)'
    BY DEF HasSender, Registered, InEvents
  <2> QED  BY <2>1, <2>2 DEF NoHandlerLeftBehind
<1> USE DEF Inv
<1>1. TypeOK /\ id' = id
  BY IdsAreFixed
<1>2. ASSUME handler[q] = "recv", chooser[q] = "finished", inbox[q] = << >>
      PROVE  ~Registered(q)
  BY <1>2, SendersAre DEF NoHandlerLeftBehind
<1>3. ASSUME handler[q] = "recv", chooser[q] = "finished", inbox[q] = << >>, PENDING' = PENDING
      PROVE  ~Registered(q)'
  BY <1>1, <1>2, <1>3, EntryKept
<1>4. CASE run_listener
  BY <1>3, <1>4 DEF run_listener, androidVars
<1>5. CASE handle_portal_request
  <2>1. PENDING' = PENDING /\ handler' = handler
    BY <1>5 DEF handle_portal_request
  <2>2. PICK r \in Requests : r = Head(events)
    BY <1>5, EventTaken DEF handle_portal_request
  <2>3. inbox' = inbox \/ inbox' = [inbox EXCEPT ![r] = Append(@, Failed)]
    BY <1>5, <2>2 DEF handle_portal_request, Deliver
  <2>4. inbox[q] = << >>
    BY <2>3, <1>1, FirstAnswer, Responses
  <2>5. chooser[q] = "finished"
    BY <1>5, <2>2 DEF handle_portal_request, TypeOK
  <2> QED  BY <1>3, <2>1, <2>4, <2>5
<1> SUFFICES ASSUME NEW r \in Requests,
                    OpenFile(r) \/ Close(r) \/ Daemon(r) \/ Handler(r) \/ Chooser(r)
             PROVE  ~Registered(q)'
  BY <1>4, <1>5 DEF Next
<1>6. CASE OpenFile(r) \/ Close(r) \/ Timeout(r) \/ Respond(r)
  BY <1>3, <1>6, QuietSteps DEF Quiet
<1>7. CASE Connect(r)
  BY <1>3, <1>7 DEF Connect, TypeOK, androidVars
<1>8. CASE Insert(r)
  <2>1. q # r /\ handler[q] = "recv" /\ chooser[q] = "finished" /\ inbox[q] = << >>
    BY <1>8 DEF Insert, Advance, TypeOK, androidVars
  <2> QED  BY <1>2, <1>8, <2>1, EntryMade
<1>9. CASE Send(r)
  <2>1. chooser' = chooser /\ handler[r] = "send"
    BY <1>9 DEF Send, Advance, androidVars
  <2>2. q # r
    BY <2>1 DEF EventFirst, Sent
  <2> QED  BY <1>3, <1>9, <2>1, <2>2 DEF Send, Advance, TypeOK
<1>10. CASE Recv(r) \/ Write(r)
  BY <1>3, <1>10 DEF Recv, Write, Advance, TypeOK, androidVars
<1>11. CASE Remove(r)
  <2>1. q # r /\ handler[q] = "recv" /\ chooser[q] = "finished" /\ inbox[q] = << >>
    BY <1>11 DEF Remove, Advance, TypeOK, androidVars
  <2> QED  BY <1>1, <1>2, <1>11, <2>1, EntryTaken DEF Remove
<1>12. CASE Chooser(r)
  <2>1. handler[q] = "recv" /\ (q # r => chooser[q] = "finished")
    BY <1>12, ChooserSteps
  <2>2. CASE UNCHANGED <<inbox, PENDING>> /\ chooser'[r] # "finished"
    BY <1>3, <2>1, <2>2
  <2>3. CASE UNCHANGED <<inbox, PENDING>> /\ ~Registered(r)
    BY <1>1, <1>3, <2>1, <2>3, EntryKept
  <2>4. ASSUME NEW p \in PortalResponse, NEW s \in Requests, id[s] = id[r],
               inbox' = [inbox EXCEPT ![s] = Append(@, p)], PENDING' = Without(id[r])
        PROVE  ~Registered(q)'
    <3>1. q # s /\ inbox[q] = << >>
      BY <1>1, <2>4, FirstAnswer
    <3>2. CASE id[q] = id[r]
      BY <1>1, <2>4, <3>2, EntryTaken
    <3>3. CASE q # r
      BY <1>1, <1>2, <2>1, <2>4, <3>1, <3>3, EntryTaken
    <3> QED  BY <3>2, <3>3
  <2> QED  BY <1>12, <2>2, <2>3, <2>4, ChooserSteps, NativeEffect
<1> QED  BY <1>6, <1>7, <1>8, <1>9, <1>10, <1>11, <1>12 DEF Daemon, Handler

LEMMA FilesNext ==
  ASSUME Inv, Next
  PROVE  Files'
<1> USE DEF Inv
<1>1. TypeOK /\ id' = id
  BY IdsAreFixed
<1>2. \A q, p : Own(q, p)' <=> Own(q, p)
  BY <1>1 DEF Own
<1>3. \A q : Own(q, Failed)
  BY DEF Own, Failed
<1> DEFINE AllOwn(q, s) == \A k \in DOMAIN s : Own(q, s[k])
<1>4. ASSUME NEW q \in Requests, NEW s \in Seq(PortalResponse), NEW p \in PortalResponse,
             AllOwn(q, s), Own(q, p)
      PROVE  AllOwn(q, Append(s, p))
  BY <1>4
<1>5. ASSUME \A q \in Requests : /\ Own(q, result'[q]) /\ Own(q, response'[q])
                                 /\ AllOwn(q, inbox'[q]) /\ AllOwn(q, answer'[q])
      PROVE  Files'
  BY <1>1, <1>5 DEF Files, Own
<1>6. \A q \in Requests : /\ Own(q, result[q]) /\ Own(q, response[q])
                          /\ AllOwn(q, inbox[q]) /\ AllOwn(q, answer[q])
  BY DEF Files
<1>7. \A q \in Requests : /\ inbox[q] \in Seq(PortalResponse) /\ answer[q] \in Seq(PortalResponse)
                          /\ result[q] \in PortalResponse
  BY DEF TypeOK
<1> HIDE DEF AllOwn
<1>8. ASSUME NEW s \in Requests, NEW p \in PortalResponse, Own(s, p),
             inbox' = [inbox EXCEPT ![s] = Append(@, p)]
      PROVE  \A q \in Requests : AllOwn(q, inbox'[q])
  BY <1>4, <1>6, <1>7, <1>8 DEF TypeOK
<1>9. CASE run_listener
  BY <1>5, <1>6, <1>9 DEF run_listener, daemonVars
<1>10. CASE handle_portal_request
  <2>1. PICK r \in Requests : r = Head(events)
    BY <1>10, EventTaken DEF handle_portal_request
  <2>2. inbox' = inbox \/ inbox' = [inbox EXCEPT ![r] = Append(@, Failed)]
    BY <1>10, <2>1 DEF handle_portal_request, Deliver
  <2> QED  BY <1>3, <1>5, <1>6, <1>8, <1>10, <2>2, Responses DEF handle_portal_request, daemonVars
<1> SUFFICES ASSUME NEW r \in Requests,
                    OpenFile(r) \/ Close(r) \/ Daemon(r) \/ Handler(r) \/ Chooser(r)
             PROVE  Files'
  BY <1>9, <1>10 DEF Next
<1>11. CASE OpenFile(r) \/ Close(r) \/ Connect(r) \/ Timeout(r)
  BY <1>5, <1>6, <1>11 DEF OpenFile, Close, Connect, Timeout, bridgeVars
<1>12. CASE Respond(r)
  <2>1. UNCHANGED <<result, response, inbox>>
    BY <1>12 DEF Respond, bridgeVars
  <2>2. \A q \in Requests : AllOwn(q, answer'[q])
    BY <1>4, <1>6, <1>7, <1>12 DEF Respond, TypeOK
  <2> QED  BY <1>5, <1>6, <2>1, <2>2
<1>13. CASE Insert(r) \/ Send(r) \/ Remove(r)
  BY <1>5, <1>6, <1>13 DEF Insert, Send, Remove, daemonVars
<1>14. CASE Recv(r)
  <2>1. UNCHANGED <<result, answer, inbox>>
    BY <1>14 DEF Recv, daemonVars
  <2>2. inbox[r] # << >> => Own(r, Head(inbox[r]))
    BY <1>6, <1>7 DEF AllOwn
  <2>3. \A q \in Requests : Own(q, response'[q])
    BY <1>3, <1>6, <1>14, <2>2 DEF Recv, TypeOK
  <2> QED  BY <1>5, <1>6, <2>1, <2>3
<1>15. CASE Write(r)
  <2>1. UNCHANGED <<response, answer, inbox>>
    BY <1>15 DEF Write
  <2>2. result' = result \/ result' = [result EXCEPT ![r] = response[r]]
    BY <1>15 DEF Write
  <2>3. \A q \in Requests : Own(q, result'[q])
    BY <1>6, <2>2 DEF TypeOK
  <2> QED  BY <1>5, <1>6, <2>1, <2>3
<1>16. CASE Chooser(r)
  <2>1. UNCHANGED <<result, response, answer>>
    BY <1>16, ChooserSteps
  <2>2. \/ inbox' = inbox
        \/ \E p \in PortalResponse, s \in Requests :
             Own(s, p) /\ inbox' = [inbox EXCEPT ![s] = Append(@, p)]
    BY <1>16, ChooserSteps, NativeEffect
  <2> QED  BY <1>5, <1>6, <1>8, <2>1, <2>2
<1> QED  BY <1>11, <1>12, <1>13, <1>14, <1>15, <1>16 DEF Daemon, Handler

-----------------------------------------------------------------------------
(* The invariant holds.                                                    *)

LEMMA InitInv == Init => Inv
<1> SUFFICES ASSUME Init  PROVE Inv
  OBVIOUS
<1>0. DOMAIN << >> = {} /\ \A S : << >> \in Seq(S)
  OBVIOUS
<1>1. TypeOK
  <2>1. DOMAIN PENDING \subseteq Ids /\ PENDING \in [DOMAIN PENDING -> Requests]
    BY <1>0 DEF Init
  <2>2. events \in Seq(Requests)
    BY <1>0 DEF Init
  <2>3. inbox \in [Requests -> Seq(PortalResponse)] /\ answer \in [Requests -> Seq(PortalResponse)]
    BY <1>0 DEF Init
  <2>4. result \in [Requests -> PortalResponse] /\ response \in [Requests -> PortalResponse]
    BY Responses DEF Init
  <2>5. faults \in 0 .. MaxFaults
    BY FaultsAssumption DEF Init
  <2> QED  BY <2>1, <2>2, <2>3, <2>4, <2>5 DEF Init, TypeOK
<1>2. \A r : ~InEvents(r)
  BY <1>0 DEF Init, InEvents
<1>3. Connected /\ EventOnce /\ EventFirst /\ Answers /\ Waiting
  BY <1>2 DEF Init, Connected, EventOnce, EventFirst, Answers, Waiting
<1>4. PendingIsAwaited /\ NoHandlerLeftBehind
  BY DEF Init, PendingIsAwaited, NoHandlerLeftBehind
<1>5. Files
  <2>1. \A r : Own(r, Failed)
    BY DEF Own, Failed
  <2>2. \A r \in Requests : DOMAIN inbox[r] = {} /\ DOMAIN answer[r] = {}
    BY <1>0 DEF Init
  <2> QED  BY <2>1, <2>2 DEF Init, Files
<1> QED  BY <1>1, <1>3, <1>4, <1>5 DEF Inv

LEMMA StepInv == Inv /\ [Next]_vars => Inv'
<1> SUFFICES ASSUME Inv, [Next]_vars  PROVE Inv'
  OBVIOUS
<1>1. CASE Next
  BY <1>1, TypeNext, ConnectedNext, EventNext, AnswersNext, WaitingNext, PendingNext, LeftNext,
     FilesNext
  DEF Inv
<1>2. CASE UNCHANGED vars
  <2> USE <1>2 DEF vars, daemonVars, bridgeVars, androidVars, Inv
  <2>1. TypeOK' /\ Connected'
    BY DEF TypeOK, Connected
  <2>2. EventOnce' /\ EventFirst'
    BY DEF EventOnce, EventFirst, InEvents
  <2>3. Answers' /\ Waiting'
    BY DEF Answers, Waiting, InEvents, Registered, Unshared
  <2>4. PendingIsAwaited' /\ NoHandlerLeftBehind' /\ Files'
    BY DEF PendingIsAwaited, NoHandlerLeftBehind, HasSender, Files, Own
  <2> QED  BY <2>1, <2>2, <2>3, <2>4
<1> QED  BY <1>1, <1>2

LEMMA SpecInv == Spec => []Inv
  BY InitInv, StepInv, PTL DEF Spec

-----------------------------------------------------------------------------
(* Every variable keeps its type: what nativeFileChooserResult finds in    *)
(* PENDING is a request, and what the daemon reads is a response.          *)
THEOREM PortalTypes == Spec => []TypeOK
<1>1. Inv => TypeOK
  BY DEF Inv
<1> QED  BY <1>1, SpecInv, PTL

(* The app gets files of choosers opened under its request's id only, and  *)
(* of its own if nobody else used the id (handle_client, send_portal_      *)
(* request, nativeFileChooserResult).                                      *)
THEOREM FilesAreOwn == Spec => []FilesComeFromOwnChooser
<1>1. Inv => FilesComeFromOwnChooser
  <2> SUFFICES ASSUME Inv, NEW r \in Requests, NEW k \in DOMAIN answer[r]
               PROVE  LET a == answer[r][k]
                      IN  /\ a.response = 0 <=> a.uris # {}
                          /\ \A q \in a.uris : id[q] = id[r]
                          /\ Unshared(r) => a.uris \subseteq {r}
    BY DEF FilesComeFromOwnChooser
  <2> DEFINE a == answer[r][k]
  <2>1. (a.response = 0 <=> a.uris # {}) /\ \A q \in a.uris : id[q] = id[r]
    BY DEF Inv, Files, Own
  <2>2. a.uris \subseteq Requests
    <3>1. answer[r] \in Seq(PortalResponse)
      BY DEF Inv, TypeOK
    <3>2. a \in PortalResponse
      BY <3>1
    <3> QED  BY <3>2 DEF PortalResponse
  <2> QED  BY <2>1, <2>2 DEF Unshared
<1> QED  BY <1>1, SpecInv, PTL

(* The channel of a request carries one response at most, also when the    *)
(* chooser is created twice or its launch fails (handle_client).           *)
THEOREM ChannelIsOneShot == Spec => []OneShot
<1>1. Inv => OneShot
  BY DEF Inv, Answers, OneShot
<1> QED  BY <1>1, SpecInv, PTL

(* No entry of PENDING outlives the handler that waits for it, although    *)
(* each handler removes whatever is registered under its id.               *)
THEOREM PendingHasHandler == Spec => []PendingIsAwaited
<1>1. Inv => PendingIsAwaited
  BY DEF Inv
<1> QED  BY <1>1, SpecInv, PTL

(* The sender of a request whose id is its own is not dropped while its    *)
(* handler waits in rx.recv without an answer.                             *)
THEOREM SenderStays == Spec => []WaitingCanBeAnswered
<1>1. Inv => WaitingCanBeAnswered
  BY SendersAre DEF Inv, Waiting, WaitingCanBeAnswered
<1> QED  BY <1>1, SpecInv, PTL

(* When a chooser has called back, its handler has an answer or no sender  *)
(* left, in which case rx.recv fails: it never waits for ever.             *)
THEOREM HandlersEnd == Spec => []NoHandlerLeftBehind
<1>1. Inv => NoHandlerLeftBehind
  BY DEF Inv
<1> QED  BY <1>1, SpecInv, PTL
=============================================================================
