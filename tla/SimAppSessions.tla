--------------------------- MODULE SimAppSessions ---------------------------
(***************************************************************************)
(* The review GUI and its SimApp server: browser tabs (Streamlit sessions) *)
(* that ask for renderings over a Unix socket, one server process that     *)
(* serves one connection at a time, and gui_runner, which starts it, waits *)
(* for it and stops it.  Specs and images are abstracted to "work"; the    *)
(* socket is modelled as the kernel does it: who waits in the backlog, or  *)
(* has a request unread, when the server closes is reset, others read the  *)
(* end of the stream; who finds the backlog full blocks in connect, until  *)
(* there is room or the server closes.                                     *)
(* An operator named X_..._Mutant is X with a plausible mistake: no        *)
(* behaviour of the specification uses it.                                 *)
(***************************************************************************)
EXTENDS Integers, Sequences

CONSTANTS Tabs, Runner, Backlog     \* the server listens with a backlog of 5

ASSUME ClientsAssumption == Runner \notin Tabs /\ Backlog \in Nat

Clients == Tabs \cup {Runner}

VARIABLES
    (* the server process *)
    server,         \* what it does
    ended,          \* why it stopped serving
    bound,          \* the socket's path exists
    queue,          \* its connections, oldest first; the first may be in service
    (* the client ends *)
    client,         \* SimAppClient: none, or what its socket is worth
    reply,          \* the reply that can be read from it
    at,             \* the statement that comes next
    attempt,        \* of ensure_simapp
    outcome,        \* how a tab's last operation ended
    (* gui_runner *)
    streamlit       \* the Streamlit process

serverVars == <<server, ended, bound, queue>>
clientVars == <<client, reply, at, attempt, outcome>>
vars == <<serverVars, clientVars, streamlit>>

Init ==
    /\ server = "booting"
    /\ ended = "no"
    /\ bound = FALSE
    /\ queue = <<>>
    /\ client = [c \in Clients |-> "none"]
    /\ reply = [c \in Clients |-> "none"]
    /\ at = [c \in Clients |-> IF c = Runner THEN "polling" ELSE "idle"]
    /\ attempt = [t \in Tabs |-> 1]
    /\ outcome = [t \in Tabs |-> "none"]
    /\ streamlit = "pending"

-----------------------------------------------------------------------------
Listening == server \in {"accepting", "reading", "handling"}
Serving == server \in {"reading", "handling"}

(* The peer's end of a connection whose server end is closed.              *)
Hangup(c) ==
    IF Serving /\ queue[1].from = c /\ queue[1].open /\ queue[1].request = "none"
    THEN "eof" ELSE "reset"

(* The process stops serving, and every connection ends.                   *)
Ends(to, why) ==
    /\ server' = to
    /\ ended' = IF ended = "no" THEN why ELSE ended
    /\ queue' = <<>>
    /\ client' = [c \in Clients |-> IF client[c] = "open" THEN Hangup(c) ELSE client[c]]

Boot ==
    /\ server = "booting"
    /\ server' = "accepting"
    /\ bound' = TRUE
    /\ UNCHANGED <<ended, queue, clientVars, streamlit>>

(* The process dies: its finally clauses do not run.                       *)
Crash ==
    /\ server # "gone"
    /\ Ends("gone", "crash")
    /\ UNCHANGED <<bound, reply, at, attempt, outcome, streamlit>>

Accept ==
    /\ server = "accepting"
    /\ queue # <<>>
    /\ server' = "reading"
    /\ UNCHANGED <<ended, bound, queue, clientVars, streamlit>>

Requested(cmd) == server = "reading" /\ queue[1].request = cmd

(* _write_response: a peer that has gone raises, which ends the server.    *)
Respond(cmd, next) ==
    IF queue[1].open
    THEN /\ reply' = [reply EXCEPT ![queue[1].from] = cmd]
         /\ next
    ELSE Ends("closing", "broken pipe") /\ bound' = FALSE /\ UNCHANGED reply

Answered ==
    /\ server' = "reading"
    /\ queue' = [queue EXCEPT ![1].request = "none"]
    /\ UNCHANGED <<ended, bound, client>>

ServePing ==
    /\ Requested("ping")
    /\ Respond("ping", Answered)
    /\ UNCHANGED <<at, attempt, outcome, streamlit>>

(* The reply is written, then the connection and the socket are closed.    *)
ServeShutdown ==
    /\ Requested("shutdown")
    /\ Respond("shutdown",
           /\ server' = "closing"
           /\ ended' = "shutdown"
           /\ bound' = FALSE
           /\ queue' = <<>>
           /\ client' = [c \in Clients |->
                  IF client[c] # "open" THEN client[c]
                  ELSE IF c = queue[1].from THEN "eof" ELSE "reset"])
    /\ UNCHANGED <<at, attempt, outcome, streamlit>>

(* render_spec and run_sim_preview: Kit works, then there is a result or   *)
(* the error that was raised.                                              *)
BeginWork ==
    /\ Requested("work")
    /\ server' = "handling"
    /\ queue' = [queue EXCEPT ![1].request = "none"]
    /\ UNCHANGED <<ended, bound, clientVars, streamlit>>

FinishWork ==
    /\ server = "handling"
    /\ Respond("work", Answered)
    /\ UNCHANGED <<at, attempt, outcome, streamlit>>

(* Reading from a connection that was reset raises.                        *)
ReadRaises ==
    /\ Requested("reset")
    /\ Ends("closing", "reset")
    /\ bound' = FALSE
    /\ UNCHANGED <<reply, at, attempt, outcome, streamlit>>

(* The end of the stream: the next connection is accepted.                 *)
EndConnection ==
    /\ Requested("none")
    /\ ~ queue[1].open
    /\ server' = "accepting"
    /\ queue' = Tail(queue)
    /\ UNCHANGED <<ended, bound, clientVars, streamlit>>

AppClosed ==
    /\ server = "closing"
    /\ server' = "gone"
    /\ UNCHANGED <<ended, bound, queue, clientVars, streamlit>>

-----------------------------------------------------------------------------
Closed(ids) ==
    [i \in DOMAIN queue |-> [queue[i] EXCEPT !.open = @ /\ queue[i].from \notin ids]]

(* A client that dies with a reply unread resets the connection.           *)
Abandoned(ids) ==
    [i \in DOMAIN queue |->
        IF queue[i].from \in ids /\ queue[i].open
        THEN [queue[i] EXCEPT !.open = FALSE,
                              !.request = IF reply[queue[i].from] # "none" THEN "reset" ELSE @]
        ELSE queue[i]]

(* SimAppClient.disconnect.                                                *)
Disconnect(c) ==
    /\ client' = [client EXCEPT ![c] = "none"]
    /\ reply' = [reply EXCEPT ![c] = "none"]
    /\ queue' = Closed({c})

(* The kernel lets one more than the backlog wait, those that have closed  *)
(* before they were accepted among them.                                   *)
Room ==
    LET waiting == IF Serving THEN Tail(queue) ELSE queue
    IN  Len(waiting) <= Backlog

Connect(c) ==
    /\ Listening
    /\ Room
    /\ client' = [client EXCEPT ![c] = "open"]
    /\ queue' = Append(queue, [from |-> c, open |-> TRUE, request |-> "none"])

Goto(c, next) == at' = [at EXCEPT ![c] = next]

(* The first half of a request, when the connection is up.                 *)
Send(c, cmd, next) ==
    /\ client[c] = "open"
    /\ queue' = [i \in DOMAIN queue |->
                    IF queue[i].from = c /\ queue[i].open
                    THEN [queue[i] EXCEPT !.request = cmd] ELSE queue[i]]
    /\ Goto(c, next)

(* Writing to a connection that was closed is a SimAppError.               *)
Broken(c) == client[c] \in {"eof", "reset"}

HasReply(c) == reply[c] # "none"

(* A client that does not wait for the answer. *)
ReadsEnd_Mutant(c) == ~ HasReply(c)

(* Reading its end is one, too; but a reset is an OSError.                 *)
ReadsEnd(c) == ~ HasReply(c) /\ client[c] = "eof"
ReadsReset(c) == ~ HasReply(c) /\ client[c] = "reset"

-----------------------------------------------------------------------------
(* A tab renders, or previews, unless there is no SimApp.                  *)
Start(t) ==
    /\ at[t] = "idle"
    /\ streamlit = "with simapp"
    /\ Goto(t, "getting")
    /\ attempt' = [attempt EXCEPT ![t] = 1]
    /\ outcome' = [outcome EXCEPT ![t] = "none"]
    /\ UNCHANGED <<serverVars, client, reply, streamlit>>

(* get_simapp_client: the session's client, or a new one.                  *)
GetClient(t) ==
    /\ at[t] = "getting"
    /\ \/ client[t] # "none" /\ UNCHANGED <<client, queue>>
       \/ client[t] = "none" /\ Connect(t)
    /\ Goto(t, "pinging")
    /\ UNCHANGED <<server, ended, bound, reply, attempt, outcome, streamlit>>

(* One attempt of ensure_simapp finds no healthy client.                   *)
Unhealthy(t) ==
    \/ at[t] = "getting" /\ client[t] = "none" /\ ~ Listening
    \/ at[t] = "pinging" /\ Broken(t)
    \/ at[t] = "awaiting ping" /\ ReadsEnd(t)

NoClient(t) ==
    /\ Unhealthy(t)
    /\ Disconnect(t)
    /\ IF attempt[t] = 1
       THEN /\ attempt' = [attempt EXCEPT ![t] = 2]
            /\ Goto(t, "getting")
            /\ UNCHANGED outcome
       ELSE /\ Goto(t, "idle")
            /\ outcome' = [outcome EXCEPT ![t] = "unavailable"]
            /\ UNCHANGED attempt
    /\ UNCHANGED <<server, ended, bound, streamlit>>

SendPing(t) ==
    /\ at[t] = "pinging"
    /\ Send(t, "ping", "awaiting ping")
    /\ UNCHANGED <<server, ended, bound, client, reply, attempt, outcome, streamlit>>

(* A ping that is content with having been sent. *)
Healthy_Mutant(t) ==
    /\ at[t] = "awaiting ping"
    /\ client[t] = "open"
    /\ Goto(t, "requesting")
    /\ UNCHANGED <<serverVars, client, reply, attempt, outcome, streamlit>>

Healthy(t) ==
    /\ at[t] = "awaiting ping"
    /\ HasReply(t)
    /\ reply' = [reply EXCEPT ![t] = "none"]
    /\ Goto(t, "requesting")
    /\ UNCHANGED <<serverVars, client, attempt, outcome, streamlit>>

(* A reset while the ping is awaited is not caught: the operation fails,   *)
(* and the session keeps its client.                                       *)
PingRaises(t) ==
    /\ at[t] = "awaiting ping"
    /\ ReadsReset(t)
    /\ client' = [client EXCEPT ![t] = "eof"]
    /\ Goto(t, "idle")
    /\ outcome' = [outcome EXCEPT ![t] = "raised"]
    /\ UNCHANGED <<serverVars, reply, attempt, streamlit>>

SendWork(t) ==
    /\ at[t] = "requesting"
    /\ Send(t, "work", "awaiting work")
    /\ UNCHANGED <<server, ended, bound, client, reply, attempt, outcome, streamlit>>

(* The tab keeps its client for the next operation.                        *)
Release_Mutant(t) == reply' = [reply EXCEPT ![t] = "none"] /\ UNCHANGED <<client, queue>>

(* finally: "Release the socket so the sequential SimApp server can accept *)
(* other tabs."                                                            *)
Release(t) == Disconnect(t)

EndWork(t) ==
    /\ \/ at[t] = "awaiting work" /\ (HasReply(t) \/ Broken(t))
       \/ at[t] = "requesting" /\ Broken(t)
    /\ outcome' = [outcome EXCEPT ![t] =
           IF at[t] = "awaiting work" /\ ReadsReset(t) THEN "raised" ELSE "done"]
    /\ Release(t)
    /\ Goto(t, "idle")
    /\ UNCHANGED <<server, ended, bound, attempt, streamlit>>

-----------------------------------------------------------------------------
(* wait_for_simapp_socket: polls, connects, and pings.                     *)
TryConnect ==
    /\ at[Runner] = "polling"
    /\ Connect(Runner)
    /\ Goto(Runner, "pinging")
    /\ UNCHANGED <<server, ended, bound, reply, attempt, outcome, streamlit>>

SendBootPing ==
    /\ at[Runner] = "pinging"
    /\ Send(Runner, "ping", "awaiting ping")
    /\ UNCHANGED <<server, ended, bound, client, reply, attempt, outcome, streamlit>>

BootPingFails ==
    /\ \/ at[Runner] = "pinging" /\ Broken(Runner)
       \/ at[Runner] = "awaiting ping" /\ ReadsEnd(Runner)
    /\ Disconnect(Runner)
    /\ Goto(Runner, "polling")
    /\ UNCHANGED <<server, ended, bound, attempt, outcome, streamlit>>

Ready ==
    /\ at[Runner] = "awaiting ping"
    /\ HasReply(Runner)
    /\ Disconnect(Runner)
    /\ Goto(Runner, "serving")
    /\ streamlit' = "with simapp"
    /\ UNCHANGED <<server, ended, bound, attempt, outcome>>

(* The process has exited, or the deadline has passed.                     *)
BootFails ==
    /\ at[Runner] = "polling"
    /\ Goto(Runner, "stopping")
    /\ UNCHANGED <<serverVars, client, reply, attempt, outcome, streamlit>>

(* The reset, or a KeyboardInterrupt, ends gui_runner by its finally.      *)
WaitRaises ==
    /\ at[Runner] \in {"polling", "pinging", "awaiting ping"}
    /\ client' = [client EXCEPT ![Runner] = "none"]
    /\ reply' = [reply EXCEPT ![Runner] = "none"]
    /\ queue' = Abandoned({Runner})
    /\ Goto(Runner, "stopping")
    /\ streamlit' = "ended"
    /\ UNCHANGED <<server, ended, bound, attempt, outcome>>

(* The Streamlit process ends, and all its sessions with it.               *)
StreamlitEnds ==
    /\ streamlit \in {"with simapp", "without simapp"}
    /\ streamlit' = "ended"
    /\ client' = [c \in Clients |-> IF c \in Tabs THEN "none" ELSE client[c]]
    /\ reply' = [c \in Clients |-> IF c \in Tabs THEN "none" ELSE reply[c]]
    /\ queue' = Abandoned(Tabs)
    /\ at' = [c \in Clients |->
                 IF c \in Tabs THEN "gone"
                 ELSE IF streamlit = "with simapp" THEN "stopping" ELSE "done"]
    /\ UNCHANGED <<server, ended, bound, attempt, outcome>>

(* stop_simapp_process.                                                    *)
StopConnects ==
    /\ at[Runner] = "stopping"
    /\ \/ Connect(Runner) /\ Goto(Runner, "asking")
       \/ ~ Listening /\ Goto(Runner, "terminating") /\ UNCHANGED <<client, queue>>
    /\ UNCHANGED <<server, ended, bound, reply, attempt, outcome, streamlit>>

SendShutdown ==
    /\ at[Runner] = "asking"
    /\ Send(Runner, "shutdown", "awaiting shutdown")
    /\ UNCHANGED <<server, ended, bound, client, reply, attempt, outcome, streamlit>>

EndShutdown ==
    /\ at[Runner] \in {"asking", "awaiting shutdown"}
    /\ HasReply(Runner) \/ Broken(Runner)
    /\ Disconnect(Runner)
    /\ Goto(Runner, "terminating")
    /\ UNCHANGED <<server, ended, bound, attempt, outcome, streamlit>>

(* The clean shutdown is trusted to end the process.                       *)
StillRunning_Mutant == server \notin {"gone", "closing", "booting"}

StillRunning == server # "gone"

Terminate ==
    /\ at[Runner] = "terminating"
    /\ IF StillRunning THEN Ends("gone", "terminated") ELSE UNCHANGED <<server, ended, queue, client>>
    /\ bound' = FALSE
    /\ IF streamlit = "ended"
       THEN Goto(Runner, "done") /\ UNCHANGED streamlit
       ELSE Goto(Runner, "serving") /\ streamlit' = "without simapp"
    /\ UNCHANGED <<reply, attempt, outcome>>

-----------------------------------------------------------------------------
Serve ==
    \/ Boot \/ Accept \/ ServePing \/ ServeShutdown \/ BeginWork \/ FinishWork
    \/ ReadRaises \/ EndConnection

Operate(t) ==
    \/ GetClient(t) \/ NoClient(t) \/ SendPing(t) \/ Healthy(t) \/ PingRaises(t)
    \/ SendWork(t) \/ EndWork(t)

Stop == StopConnects \/ SendShutdown \/ EndShutdown \/ Terminate

Next ==
    \/ Serve
    \/ Crash
    \/ AppClosed
    \/ \E t \in Tabs : Start(t) \/ Operate(t)
    \/ TryConnect \/ SendBootPing \/ BootPingFails \/ Ready \/ BootFails \/ WaitRaises
    \/ StreamlitEnds
    \/ Stop

(* Neither the server's loop, nor a tab's operation, nor the stopping waits*)
(* for ever, other than for one another: Kit comes back from its work, and *)
(* the kernel does not pass over a client that is blocked in connect for   *)
(* ever.  Nobody has to start an operation, to end Streamlit, or to let Kit*)
(* close.                                                                  *)
Spec ==
    /\ Init /\ [][Next]_vars
    /\ WF_vars(Serve)
    /\ \A t \in Tabs : WF_vars(Operate(t)) /\ SF_vars(GetClient(t))
    /\ WF_vars(Stop)

-----------------------------------------------------------------------------
(* A request is unread, in service or answered exactly while its sender    *)
(* waits for it, so a tab never takes the answer to an earlier request for *)
(* the one it awaits.                                                      *)
Unread(c, cmd) ==
    \E i \in DOMAIN queue : queue[i].from = c /\ queue[i].open /\ queue[i].request = cmd

InService(c) == server = "handling" /\ queue[1].from = c /\ queue[1].open

Awaits(c) ==
    CASE at[c] = "awaiting ping"     -> "ping"
      [] at[c] = "awaiting work"     -> "work"
      [] at[c] = "awaiting shutdown" -> "shutdown"
      [] OTHER                       -> "none"

RequestsInStep ==
    \A c \in Clients :
        /\ reply[c] \in {"none", Awaits(c)}
        /\ client[c] = "open" =>
               \A cmd \in {"ping", "work", "shutdown"} :
                   Awaits(c) = cmd <=>
                       Unread(c, cmd) \/ reply[c] = cmd \/ (InService(c) /\ cmd = "work")

(* One tab cannot take the server from the others: as long as Streamlit   *)
(* runs, the server ends neither by a write to a tab that did not wait for *)
(* its answer nor by a tab that left it unread; and as long as the server  *)
(* serves, no tab's operation fails.                                       *)
TabsSpareTheServer ==
    /\ ended \in {"broken pipe", "reset"} => streamlit = "ended"
    /\ \A t \in Tabs : outcome[t] \in {"unavailable", "raised"} => ended # "no"

(* When gui_runner is done, or goes on without SimApp, there is neither a  *)
(* process left nor a socket that a tab could connect to.                  *)
NothingLeftBehind ==
    at[Runner] = "done" \/ streamlit = "without simapp" => server = "gone" /\ ~ bound

(* The server is there for as long as it may be needed, and no longer.     *)
ServerLifetime == TabsSpareTheServer /\ NothingLeftBehind

(* One tab at a time is served, and few may wait, yet each gets its turn,  *)
(* and its answer or an error, whatever the server and the others do; and  *)
(* gui_runner comes to the end of its stop, which waits for the server's   *)
(* answer.                                                                 *)
EverybodyReturns ==
    /\ \A t \in Tabs : at[t] = "getting" ~> at[t] \in {"idle", "gone"}
    /\ at[Runner] = "stopping" ~> at[Runner] \in {"serving", "done"}
=============================================================================
