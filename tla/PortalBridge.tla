----------------------------- MODULE PortalBridge -----------------------------
(***************************************************************************)
(* The file chooser portal.  A request of a Linux app goes through         *)
(*   - the portal daemon: a D-Bus request object and a thread that talks   *)
(*     to the bridge socket, with a timeout;                               *)
(*   - the portal bridge of the compositor process: one handler thread for *)
(*     each connection, the map PENDING, and the compositor thread, which  *)
(*     launches the choosers;                                              *)
(*   - a FileChooserActivity, which calls back with a request id.          *)
(* A request id is the path of the request object.  The app chooses a part *)
(* of it, and may use it again once the object is gone: the request of a   *)
(* closed or timed out object still lives in the bridge then.              *)
(*                                                                         *)
(* Left out: the colour scheme, which a handler answers by itself, the     *)
(* death of the daemon, and malformed requests, which no daemon sends.     *)
(***************************************************************************)
EXTENDS Naturals, Sequences

CONSTANTS
  Requests,  \* calls of OpenFile or SaveFile
  Ids,       \* object paths
  MaxFaults  \* bound on choosers killed or recreated and on failing calls

ASSUME FaultsAssumption == MaxFaults \in Nat

VARIABLES
  \* The daemon
  id,        \* path of each request's object
  object,    \* its object: none, exported or removed
  thread,    \* its do_request thread
  result,    \* what send_portal_request returned
  answer,    \* the Response signals the app has received
  \* The bridge
  listening, \* has run_listener bound the socket?
  handler,   \* the thread in handle_client
  PENDING,   \* request id -> request whose sender is registered
  events,    \* WindowEvent::PortalRequest on their way, each with a sender
  inbox,     \* the receiver of each request
  response,  \* what the handler took from it
  \* Android
  chooser,   \* the FileChooserActivity of each request
  faults     \* number of faults so far

daemonVars  == <<id, object, thread, result, answer>>
bridgeVars  == <<listening, handler, PENDING, events, inbox, response>>
androidVars == <<chooser, faults>>
vars == <<daemonVars, bridgeVars, androidVars>>

-----------------------------------------------------------------------------
(* A response: 0 success, 1 cancelled, 2 error.  The files are named after *)
(* the request whose chooser the user has chosen them in.                  *)
PortalResponse == [response : 0 .. 2, uris : SUBSET Requests]
Failed_OtherCode == [response |-> 3, uris |-> {}]   \* mutant
Failed         == [response |-> 2, uris |-> {}]

TypeOK ==
  /\ id \in [Requests -> Ids]
  /\ object \in [Requests -> {"none", "exported", "removed"}]
  /\ thread \in [Requests -> {"none", "connect", "recv", "answering", "done"}]
  /\ result \in [Requests -> PortalResponse]
  /\ answer \in [Requests -> Seq(PortalResponse)]
  /\ listening \in BOOLEAN
  /\ handler \in [Requests -> {"none", "insert", "send", "recv", "remove", "write", "done"}]
  /\ DOMAIN PENDING \subseteq Ids /\ PENDING \in [DOMAIN PENDING -> Requests]
  /\ events \in Seq(Requests)
  /\ inbox \in [Requests -> Seq(PortalResponse)]
  /\ response \in [Requests -> PortalResponse]
  /\ chooser \in [Requests -> {"none", "launched", "picking", "copying", "finished", "killed"}]
  /\ faults \in 0 .. MaxFaults

Init ==
  /\ id \in [Requests -> Ids]
  /\ object = [r \in Requests |-> "none"]
  /\ thread = [r \in Requests |-> "none"]
  /\ result = [r \in Requests |-> Failed]
  /\ answer = [r \in Requests |-> << >>]
  /\ listening = FALSE
  /\ handler = [r \in Requests |-> "none"]
  /\ PENDING = << >>
  /\ events = << >>
  /\ inbox = [r \in Requests |-> << >>]
  /\ response = [r \in Requests |-> Failed]
  /\ chooser = [r \in Requests |-> "none"]
  /\ faults = 0

Fault == faults < MaxFaults /\ faults' = faults + 1

-----------------------------------------------------------------------------
(* The portal daemon.                                                      *)

(* OpenFile and SaveFile: export the request object, which fails if its    *)
(* path is taken, and start the thread.                                    *)
OpenFile(r) ==
  /\ object[r] = "none"
  /\ \A q \in Requests : object[q] = "exported" => id[q] # id[r]
  /\ object' = [object EXCEPT ![r] = "exported"]
  /\ thread' = [thread EXCEPT ![r] = "connect"]
  /\ UNCHANGED <<id, result, answer, bridgeVars, androidVars>>

(* The app gives up: only the object goes.                                 *)
Close(r) ==
  /\ object[r] = "exported"
  /\ object' = [object EXCEPT ![r] = "removed"]
  /\ UNCHANGED <<id, thread, result, answer, bridgeVars, androidVars>>

(* send_portal_request: connect and send, or fail.                         *)
Connect(r) ==
  /\ thread[r] = "connect"
  /\ \/ /\ listening
        /\ thread' = [thread EXCEPT ![r] = "recv"]
        /\ handler' = [handler EXCEPT ![r] = "insert"]
     \/ /\ ~listening
        /\ thread' = [thread EXCEPT ![r] = "answering"]
        /\ UNCHANGED handler
  /\ UNCHANGED <<id, object, result, answer, listening, PENDING, events, inbox,
                 response, androidVars>>

(* The 300 s timeout of the socket.                                        *)
Timeout_Never(r) == r \notin Requests /\ UNCHANGED vars   \* mutant
Timeout(r) ==
  /\ thread[r] = "recv"
  /\ thread' = [thread EXCEPT ![r] = "answering"]
  /\ UNCHANGED <<id, object, result, answer, bridgeVars, androidVars>>

(* The idle callback: Response goes nowhere if the object is gone.         *)
Respond(r) ==
  /\ thread[r] = "answering"
  /\ thread' = [thread EXCEPT ![r] = "done"]
  /\ answer' = IF object[r] = "exported"
               THEN [answer EXCEPT ![r] = Append(@, result[r])]
               ELSE answer
  /\ object' = [object EXCEPT ![r] = "removed"]
  /\ UNCHANGED <<id, result, bridgeVars, androidVars>>

-----------------------------------------------------------------------------
(* The portal bridge.                                                      *)
run_listener ==
  /\ ~listening
  /\ listening' = TRUE
  /\ UNCHANGED <<daemonVars, handler, PENDING, events, inbox, response, androidVars>>

Advance(r, from, to) == handler[r] = from /\ handler' = [handler EXCEPT ![r] = to]

Without(i) == [j \in DOMAIN PENDING \ {i} |-> PENDING[j]]

(* handle_client: insert into PENDING, replacing an entry with the same id *)
Insert(r) ==
  /\ Advance(r, "insert", "send")
  /\ PENDING' = [j \in DOMAIN PENDING \cup {id[r]} |-> IF j = id[r] THEN r ELSE PENDING[j]]
  /\ UNCHANGED <<daemonVars, listening, events, inbox, response, androidVars>>

(* send_event *)
Send(r) ==
  /\ Advance(r, "send", "recv")
  /\ events' = Append(events, r)
  /\ UNCHANGED <<daemonVars, listening, PENDING, inbox, response, androidVars>>

(* rx.recv, which fails once the last sender is dropped: that in PENDING   *)
(* and that in the event.                                                  *)
HasSender(r) ==
  \/ id[r] \in DOMAIN PENDING /\ PENDING[id[r]] = r
  \/ \E k \in DOMAIN events : events[k] = r

Recv(r) ==
  /\ Advance(r, "recv", "remove")
  /\ \/ /\ inbox[r] # << >>
        /\ response' = [response EXCEPT ![r] = Head(inbox[r])]
     \/ /\ inbox[r] = << >>
        /\ ~HasSender(r)
        /\ response' = [response EXCEPT ![r] = Failed]
  /\ UNCHANGED <<daemonVars, listening, PENDING, events, inbox, androidVars>>

(* map.remove(&id), whosever the entry is                                  *)
Remove_Skipped(r) ==   \* mutant
  /\ Advance(r, "remove", "write")
  /\ UNCHANGED <<daemonVars, listening, PENDING, events, inbox, response, androidVars>>
Remove(r) ==
  /\ Advance(r, "remove", "write")
  /\ PENDING' = Without(id[r])
  /\ UNCHANGED <<daemonVars, listening, events, inbox, response, androidVars>>

(* writeln: nobody reads it after the timeout.                             *)
Write(r) ==
  /\ Advance(r, "write", "done")
  /\ \/ /\ thread[r] = "recv"
        /\ thread' = [thread EXCEPT ![r] = "answering"]
        /\ result' = [result EXCEPT ![r] = response[r]]
     \/ /\ thread[r] # "recv"
        /\ UNCHANGED <<thread, result>>
  /\ UNCHANGED <<id, object, answer, listening, PENDING, events, inbox, response, androidVars>>

(* A sender whose receiver is gone sends into the void.                    *)
Deliver(r, p) == inbox' = IF handler[r] \in {"insert", "send", "recv", "remove", "write"}
                          THEN [inbox EXCEPT ![r] = Append(@, p)]
                          ELSE inbox

(* handle_portal_request on the compositor thread                          *)
handle_portal_request ==
  /\ events # << >>
  /\ events' = Tail(events)
  /\ LET r == Head(events)
     IN  \/ /\ chooser' = [chooser EXCEPT ![r] = "launched"]
            /\ UNCHANGED <<inbox, faults>>
         \/ /\ Fault
            /\ Deliver(r, Failed)
            /\ UNCHANGED chooser
  /\ UNCHANGED <<daemonVars, listening, handler, PENDING, response>>

-----------------------------------------------------------------------------
(* Android.                                                                *)

(* nativeFileChooserResult: take the entry of the id and send to it.       *)
nativeFileChooserResult_KeepsEntry(i, p) ==   \* mutant
  /\ IF i \in DOMAIN PENDING THEN Deliver(PENDING[i], p) ELSE UNCHANGED inbox
  /\ UNCHANGED PENDING
nativeFileChooserResult_OnlyFiles(i, p) ==   \* mutant
  /\ IF i \in DOMAIN PENDING /\ p.response = 0
     THEN Deliver(PENDING[i], p) ELSE UNCHANGED inbox
  /\ PENDING' = Without(i)
nativeFileChooserResult_IgnoresCancel(i, p) ==   \* mutant
  \/ /\ i \in DOMAIN PENDING /\ p.response # 1
     /\ Deliver(PENDING[i], p)
     /\ PENDING' = Without(i)
  \/ /\ i \notin DOMAIN PENDING \/ p.response = 1
     /\ UNCHANGED <<inbox, PENDING>>
nativeFileChooserResult_AnyPending(i, p) ==   \* mutant
  \/ \E j \in DOMAIN PENDING : Deliver(PENDING[j], p) /\ PENDING' = Without(j)
  \/ i \notin DOMAIN PENDING /\ UNCHANGED <<inbox, PENDING>>
nativeFileChooserResult(i, p) ==
  \/ /\ i \in DOMAIN PENDING
     /\ Deliver(PENDING[i], p)
     /\ PENDING' = Without(i)
  \/ /\ i \notin DOMAIN PENDING
     /\ UNCHANGED <<inbox, PENDING>>

Finish(r, p) ==
  /\ chooser' = [chooser EXCEPT ![r] = "finished"]
  /\ nativeFileChooserResult(id[r], p)
  /\ UNCHANGED <<daemonVars, listening, handler, events, response>>

onCreate(r) ==
  /\ chooser[r] = "launched"
  /\ \/ /\ chooser' = [chooser EXCEPT ![r] = "picking"]
        /\ UNCHANGED <<daemonVars, bridgeVars, faults>>
     \/ /\ Fault   \* no picker
        /\ Finish(r, Failed)

(* Android calls onCreate again for an Activity it had destroyed.  The     *)
(* files a thread of the old one is copying still arrive.  So may what its *)
(* picker returns, which is left out: the answer that comes second finds   *)
(* no entry of an id nobody shares.                                        *)
Recreate(r) ==
  /\ chooser[r] = "picking"
  /\ Fault
  /\ chooser' = [chooser EXCEPT ![r] = "launched"]
  /\ UNCHANGED <<daemonVars, bridgeVars>>

RecreateWhileCopying(r) ==
  /\ chooser[r] = "copying"
  /\ Fault
  /\ chooser' = [chooser EXCEPT ![r] = "launched"]
  /\ nativeFileChooserResult(id[r], [response |-> 0, uris |-> {r}])
  /\ UNCHANGED <<daemonVars, listening, handler, events, response>>

onActivityResult(r) ==
  /\ chooser[r] = "picking"
  /\ \/ Finish(r, [response |-> 1, uris |-> {}])
     \/ /\ chooser' = [chooser EXCEPT ![r] = "copying"]
        /\ UNCHANGED <<daemonVars, bridgeVars>>
  /\ UNCHANGED faults

(* The copying thread: no file at all is an error.                         *)
CopyDone(r) ==
  /\ chooser[r] = "copying"
  /\ \/ /\ Finish(r, [response |-> 0, uris |-> {r}])
        /\ UNCHANGED faults
     \/ /\ Fault
        /\ Finish(r, Failed)

(* The user removes the task of the chooser: no callback at all.           *)
Kill(r) ==
  /\ chooser[r] \in {"launched", "picking"}
  /\ Fault
  /\ chooser' = [chooser EXCEPT ![r] = "killed"]
  /\ UNCHANGED <<daemonVars, bridgeVars>>

-----------------------------------------------------------------------------
Daemon(r)  == Connect(r) \/ Timeout(r) \/ Respond(r)
Handler(r) == Insert(r) \/ Send(r) \/ Recv(r) \/ Remove(r) \/ Write(r)
Chooser(r) ==
  onCreate(r) \/ Recreate(r) \/ RecreateWhileCopying(r) \/ onActivityResult(r)
  \/ CopyDone(r) \/ Kill(r)

Next ==
  \/ run_listener \/ handle_portal_request
  \/ \E r \in Requests : OpenFile(r) \/ Close(r) \/ Daemon(r) \/ Handler(r) \/ Chooser(r)

(* All threads run and the timeout expires.  The user need not choose.     *)
Fairness ==
  /\ WF_vars(handle_portal_request)
  /\ \A r \in Requests :
       /\ WF_vars(Daemon(r))
       /\ WF_vars(Handler(r))

Spec == Init /\ [][Next]_vars /\ Fairness

-----------------------------------------------------------------------------
(* No other request ever has the id of r.                                  *)
Unshared(r) == \A q \in Requests \ {r} : id[q] # id[r]

(* The app gets files only if the user chose them in a chooser opened for  *)
(* a request of that id, and, unless the id was used twice, for this one.  *)
FilesComeFromOwnChooser ==
  \A r \in Requests :
    \A k \in DOMAIN answer[r] :
      LET a == answer[r][k]
      IN  /\ a.response = 0 <=> a.uris # {}
          /\ \A q \in a.uris : id[q] = id[r]
          /\ Unshared(r) => a.uris \subseteq {r}

(* "Create a oneshot-like channel": at most one response reaches the       *)
(* receiver, also when Android creates the chooser twice.                  *)
OneShot ==
  \A r \in Requests : Unshared(r) => Len(inbox[r]) <= 1

(* PENDING holds "pending portal requests awaiting a response": no entry   *)
(* outlives its handler, however the request ended and whatever requests   *)
(* share its id.                                                           *)
PendingIsAwaited ==
  \A i \in DOMAIN PENDING :
    handler[PENDING[i]] \in {"send", "recv", "remove"} /\ id[PENDING[i]] = i

(* As long as no other request has its id, a waiting request that is not   *)
(* answered yet can still be: its sender is never dropped.  Hence it never *)
(* fails before its chooser says so.                                       *)
WaitingCanBeAnswered ==
  \A r \in Requests :
    Unshared(r) /\ handler[r] = "recv" /\ inbox[r] = << >> => HasSender(r)

(* No handler thread is left behind waiting for a chooser that is done:    *)
(* it has an answer, or the failure that replaces it.  Only a killed       *)
(* chooser, or one the user leaves open, keeps its handler.                *)
NoHandlerLeftBehind ==
  \A r \in Requests :
    handler[r] = "recv" /\ chooser[r] = "finished" => inbox[r] # << >> \/ ~HasSender(r)

(* Every request is answered or closed by the app, also when the chooser   *)
(* is killed, never started or left alone by the user.                     *)
EveryRequestAnswered ==
  \A r \in Requests : object[r] = "exported" ~> object[r] = "removed"
=============================================================================
