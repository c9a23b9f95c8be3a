----------------------- MODULE SimAppSessions_proof ------------------------
(***************************************************************************)
(* Requests and the server's lifetime, for any number of browser tabs.     *)
(***************************************************************************)
EXTENDS SimAppSessions, SequenceTheorems, TLAPS

Commands == {"ping", "work", "shutdown"}

Entries == [from : Clients, open : BOOLEAN, request : Commands \cup {"none", "reset"}]

TypeOK ==
    /\ server \in {"booting", "accepting", "reading", "handling", "closing", "gone"}
    /\ queue \in Seq(Entries)
    /\ client \in [Clients -> {"none", "open", "eof", "reset"}]
    /\ reply \in [Clients -> Commands \cup {"none"}]
    /\ DOMAIN at = Clients /\ at = [c \in Clients |-> at[c]]
    /\ DOMAIN outcome = Tabs /\ outcome = [t \in Tabs |-> outcome[t]]

(* The place of c's connection, and what is done of the request on it.     *)
OpenAt(c, i) == i \in DOMAIN queue /\ queue[i].from = c /\ queue[i].open

Busy(i) == server = "handling" /\ i = 1

Stage(c, i) ==
    \/ Awaits(c) = "none" /\ queue[i].request = "none" /\ ~ Busy(i)
    \/ Awaits(c) # "none" /\ queue[i].request = Awaits(c) /\ reply[c] = "none" /\ ~ Busy(i)
    \/ Awaits(c) # "none" /\ queue[i].request = "none" /\ reply[c] = Awaits(c) /\ ~ Busy(i)
    \/ Awaits(c) = "work" /\ queue[i].request = "none" /\ reply[c] = "none" /\ Busy(i)

(* A client has one connection, or none; on it there is one request at     *)
(* most, and just when the client waits.                                   *)
ClientInv(c) ==
    /\ \A i, j : OpenAt(c, i) /\ OpenAt(c, j) => i = j
    /\ client[c] = "open" <=> \E i : OpenAt(c, i)
    /\ reply[c] \in {"none", Awaits(c)}
    /\ \A i : OpenAt(c, i) => Stage(c, i)

(* Nothing is left to be done for a client that has gone, before Streamlit *)
(* ends.                                                                   *)
GoneInv ==
    \A i \in DOMAIN queue :
        ~ queue[i].open /\ streamlit # "ended" => queue[i].request = "none" /\ ~ Busy(i)

ServerInv ==
    /\ Serving => queue # <<>>
    /\ ~ Listening => queue = <<>>

Connections == ServerInv /\ GoneInv /\ \A c \in Clients : ClientInv(c)

-----------------------------------------------------------------------------
LEMMA NoEntries == DOMAIN <<>> = {} /\ <<>> \in Seq(Entries)
<1>1. <<>> \in Seq(Entries) /\ Len(<<>>) = 0
    BY EmptySeq
<1>2. DOMAIN <<>> = 1 .. Len(<<>>)
    BY <1>1, LenProperties
<1> QED
    BY <1>1, <1>2

LEMMA FirstEntry == ASSUME TypeOK, queue # <<>> PROVE 1 \in DOMAIN queue /\ queue[1] \in Entries
<1>1. Len(queue) \in Nat \ {0}
    BY EmptySeq DEF TypeOK
<1>2. DOMAIN queue = 1 .. Len(queue) /\ queue \in [1 .. Len(queue) -> Entries]
    BY LenProperties DEF TypeOK
<1> QED
    BY <1>1, <1>2

LEMMA EntryType == ASSUME TypeOK, NEW i \in DOMAIN queue PROVE queue[i] \in Entries
BY LenProperties DEF TypeOK

(* A queue whose entries were changed in place. *)
LEMMA ChangedInPlace ==
    ASSUME TypeOK, NEW f, f = [i \in DOMAIN queue |-> f[i]],
           \A i \in DOMAIN queue : f[i] \in Entries
    PROVE  f \in Seq(Entries) /\ DOMAIN f = DOMAIN queue /\ (queue # <<>> => f # <<>>)
<1>1. DOMAIN queue = 1 .. Len(queue) /\ Len(queue) \in Nat
    BY LenProperties DEF TypeOK
<1>2. f \in [1 .. Len(queue) -> Entries]
    BY <1>1
<1>3. f \in Seq(Entries)
    BY <1>1, <1>2, SeqDef
<1>4. DOMAIN f = DOMAIN queue
    BY <1>1, <1>2
<1>5. queue # <<>> => f # <<>>
    BY <1>4, FirstEntry, NoEntries
<1> QED
    BY <1>3, <1>4, <1>5

(* Who does nothing, and whose connection is left alone, keeps its stage.  *)
LEMMA Untouched ==
    ASSUME NEW c \in Clients, ClientInv(c),
           client'[c] = client[c], reply'[c] = reply[c], at'[c] = at[c],
           \A i : /\ OpenAt(c, i)' <=> OpenAt(c, i)
                  /\ OpenAt(c, i) => queue'[i].request = queue[i].request
                  /\ OpenAt(c, i) => (Busy(i)' <=> Busy(i))
    PROVE  ClientInv(c)'
<1>1. Awaits(c)' = Awaits(c)
    BY DEF Awaits
<1>2. ASSUME NEW i, OpenAt(c, i) PROVE Stage(c, i)'
    <2>1. Stage(c, i)
        BY <1>2 DEF ClientInv
    <2> QED
        BY <1>1, <1>2, <2>1 DEF Stage
<1> QED
    BY <1>1, <1>2 DEF ClientInv

(* Who has no connection is in no stage. *)
LEMMA Disconnected ==
    ASSUME NEW c \in Clients, client'[c] # "open", reply'[c] \in {"none", Awaits(c)'},
           \A i : ~ OpenAt(c, i)'
    PROVE  ClientInv(c)'
BY DEF ClientInv

-----------------------------------------------------------------------------
LEMMA ConnectKeeps ==
    ASSUME TypeOK, Connections, NEW c \in Clients, Connect(c), client[c] = "none",
           Awaits(c) = "none", Awaits(c)' = "none",
           \A d \in Clients \ {c} : at'[d] = at[d],
           UNCHANGED <<server, reply, streamlit>>
    PROVE  Connections' /\ queue' \in Seq(Entries)
<1> DEFINE entry == [from |-> c, open |-> TRUE, request |-> "none"]
<1>1. Listening /\ client' = [client EXCEPT ![c] = "open"] /\ queue' = Append(queue, entry)
    BY DEF Connect
<1>2. queue \in Seq(Entries) /\ entry \in Entries
    BY DEF TypeOK, Entries
<1>3. Len(queue) \in Nat /\ DOMAIN queue = 1 .. Len(queue)
    BY <1>2, LenProperties
<1> PICK n \in Nat : n = Len(queue) + 1
    BY <1>3
<1>4. /\ queue' \in Seq(Entries) /\ Len(queue') = n
      /\ \A i \in 1 .. Len(queue) : queue'[i] = queue[i]
      /\ queue'[n] = entry
    BY <1>1, <1>2, AppendProperties
<1>5. DOMAIN queue' = 1 .. n
    BY <1>4, LenProperties
<1>6. DOMAIN queue' = DOMAIN queue \cup {n} /\ n \notin DOMAIN queue
    BY <1>3, <1>5
<1>7. \A i \in DOMAIN queue : queue'[i] = queue[i]
    BY <1>3, <1>4
<1>8. \A i : ~ OpenAt(c, i)
    BY DEF Connections, ClientInv
<1>9. \A i : OpenAt(c, i)' <=> i = n
    BY <1>4, <1>6, <1>7, <1>8 DEF OpenAt
<1>10. Serving => n # 1
    <2>1. Serving => 1 \in DOMAIN queue
        BY FirstEntry DEF Connections, ServerInv
    <2> QED BY <2>1, <1>6
<1>11. ~ Busy(n)'
    BY <1>10 DEF Busy, Serving
<1>12. ClientInv(c)'
    <2>1. Stage(c, n)'
        BY <1>4, <1>11 DEF Stage
    <2>2. reply'[c] = "none"
        BY DEF Connections, ClientInv
    <2>3. client'[c] = "open"
        BY <1>1 DEF TypeOK
    <2> QED
        BY <1>9, <2>1, <2>2, <2>3 DEF ClientInv
<1>13. ASSUME NEW d \in Clients \ {c} PROVE ClientInv(d)'
    <2>1. client'[d] = client[d]
        BY <1>1 DEF TypeOK
    <2>2. \A i : OpenAt(d, i)' <=> OpenAt(d, i)
        BY <1>4, <1>6, <1>7 DEF OpenAt
    <2>3. \A i : OpenAt(d, i) => queue'[i].request = queue[i].request
        BY <1>7 DEF OpenAt
    <2>4. \A i : Busy(i)' <=> Busy(i)
        BY DEF Busy
    <2> QED
        BY <2>1, <2>2, <2>3, <2>4, Untouched DEF Connections
<1>14. GoneInv'
    <2> SUFFICES ASSUME NEW i \in DOMAIN queue', ~ queue'[i].open, streamlit' # "ended"
                 PROVE  queue'[i].request = "none" /\ ~ Busy(i)'
        BY DEF GoneInv
    <2>1. i \in DOMAIN queue /\ queue'[i] = queue[i]
        BY <1>4, <1>6, <1>7
    <2> QED
        BY <2>1 DEF Connections, GoneInv, Busy
<1>15. ServerInv'
    <2>1. queue' # <<>>
        BY <1>6, NoEntries
    <2> QED
        BY <1>1, <2>1 DEF ServerInv, Listening
<1> QED
    BY <1>4, <1>12, <1>13, <1>14, <1>15 DEF Connections

LEMMA SendKeeps ==
    ASSUME TypeOK, Connections, NEW c \in Clients, NEW cmd \in Commands, NEW next,
           Send(c, cmd, next), Awaits(c) = "none", Awaits(c)' = cmd,
           UNCHANGED <<server, client, reply, streamlit>>
    PROVE  Connections' /\ queue' \in Seq(Entries)
<1>1. /\ client[c] = "open"
      /\ queue' = [i \in DOMAIN queue |->
                      IF queue[i].from = c /\ queue[i].open
                      THEN [queue[i] EXCEPT !.request = cmd] ELSE queue[i]]
      /\ at' = [at EXCEPT ![c] = next]
    BY DEF Send, Goto
<1>2. \A i \in DOMAIN queue : queue[i] \in Entries
    BY EntryType
<1>3. \A i \in DOMAIN queue : queue'[i] \in Entries
    BY <1>1, <1>2 DEF Entries
<1>4. queue' \in Seq(Entries) /\ DOMAIN queue' = DOMAIN queue /\ (queue # <<>> => queue' # <<>>)
    BY <1>1, <1>3, ChangedInPlace
<1>5. \A i \in DOMAIN queue : queue'[i].from = queue[i].from /\ queue'[i].open = queue[i].open
    BY <1>1, <1>2 DEF Entries
<1>6. \A d, i : OpenAt(d, i)' <=> OpenAt(d, i)
    BY <1>4, <1>5 DEF OpenAt
<1>7. \A i : Busy(i)' <=> Busy(i)
    BY DEF Busy
<1>8. ClientInv(c)'
    <2>1. ASSUME NEW i, OpenAt(c, i) PROVE Stage(c, i)'
        <3>1. Stage(c, i) /\ reply[c] = "none"
            BY <2>1 DEF Connections, ClientInv
        <3>2. ~ Busy(i)
            BY <3>1 DEF Stage
        <3>3. queue'[i].request = cmd
            BY <1>1, <1>2, <2>1 DEF OpenAt, Entries
        <3> QED
            BY <3>1, <3>2, <3>3, <1>7 DEF Stage, Commands
    <2> QED
        BY <1>6, <2>1 DEF Connections, ClientInv
<1>9. ASSUME NEW d \in Clients \ {c} PROVE ClientInv(d)'
    <2>1. at'[d] = at[d]
        BY <1>1 DEF TypeOK
    <2>2. \A i : OpenAt(d, i) => queue'[i].request = queue[i].request
        BY <1>1 DEF OpenAt
    <2> QED
        BY <1>6, <1>7, <2>1, <2>2, Untouched DEF Connections
<1>10. GoneInv'
    BY <1>1, <1>4, <1>5, <1>7 DEF Connections, GoneInv
<1>11. ServerInv'
    <2>1. Listening
        <3>1. PICK i : OpenAt(c, i)
            BY <1>1 DEF Connections, ClientInv
        <3>2. queue # <<>>
            BY <3>1, NoEntries DEF OpenAt
        <3> QED BY <3>2 DEF Connections, ServerInv
    <2> QED
        BY <1>4, <2>1 DEF Connections, ServerInv, Listening, Serving
<1> QED
    BY <1>4, <1>8, <1>9, <1>10, <1>11 DEF Connections

(* Clients that wait for nothing, or have been answered, or have lost      *)
(* their connection, close it.                                             *)
LEMMA DisconnectKeeps ==
    ASSUME TypeOK, Connections, NEW c \in Clients, Disconnect(c),
           Awaits(c) = "none" \/ HasReply(c) \/ client[c] # "open", Awaits(c)' = "none",
           \A d \in Clients \ {c} : at'[d] = at[d],
           server' = server, streamlit' # "ended" => streamlit # "ended"
    PROVE  Connections' /\ queue' \in Seq(Entries)
<1>1. /\ client' = [client EXCEPT ![c] = "none"]
      /\ reply' = [reply EXCEPT ![c] = "none"]
      /\ queue' = [i \in DOMAIN queue |-> [queue[i] EXCEPT !.open = @ /\ queue[i].from \notin {c}]]
    BY DEF Disconnect, Closed
<1>2. \A i \in DOMAIN queue : queue[i] \in Entries
    BY EntryType
<1>3. \A i \in DOMAIN queue :
          /\ queue'[i] \in Entries
          /\ queue'[i].from = queue[i].from /\ queue'[i].request = queue[i].request
          /\ queue'[i].open <=> queue[i].open /\ queue[i].from # c
    BY <1>1, <1>2 DEF Entries
<1>4. queue' \in Seq(Entries) /\ DOMAIN queue' = DOMAIN queue /\ (queue # <<>> => queue' # <<>>)
    <2>1. queue' = [i \in DOMAIN queue |-> queue'[i]]
        BY <1>1
    <2> QED
        BY <1>3, <2>1, ChangedInPlace
<1>5. \A i : Busy(i)' <=> Busy(i)
    BY DEF Busy
<1>6. ClientInv(c)'
    <2>1. \A i : ~ OpenAt(c, i)'
        BY <1>3, <1>4 DEF OpenAt
    <2>2. client'[c] = "none" /\ reply'[c] = "none"
        BY <1>1 DEF TypeOK
    <2> QED
        BY <2>1, <2>2, Disconnected
<1>7. ASSUME NEW d \in Clients \ {c} PROVE ClientInv(d)'
    <2>1. client'[d] = client[d] /\ reply'[d] = reply[d]
        BY <1>1 DEF TypeOK
    <2>2. \A i : OpenAt(d, i)' <=> OpenAt(d, i)
        BY <1>3, <1>4 DEF OpenAt
    <2>3. \A i : OpenAt(d, i) => queue'[i].request = queue[i].request
        BY <1>3 DEF OpenAt
    <2> QED
        BY <1>5, <2>1, <2>2, <2>3, Untouched DEF Connections
<1>8. GoneInv'
    <2> SUFFICES ASSUME NEW i \in DOMAIN queue', ~ queue'[i].open, streamlit' # "ended"
                 PROVE  queue'[i].request = "none" /\ ~ Busy(i)'
        BY DEF GoneInv
    <2>1. i \in DOMAIN queue /\ queue'[i].request = queue[i].request
        BY <1>3, <1>4
    <2>2. CASE ~ queue[i].open
        BY <1>5, <2>1, <2>2 DEF Connections, GoneInv
    <2>3. CASE queue[i].open
        <3>1. OpenAt(c, i)
            BY <1>3, <2>1, <2>3 DEF OpenAt
        <3>2. Stage(c, i) /\ client[c] = "open"
            BY <3>1 DEF Connections, ClientInv
        <3>3. queue[i].request = "none" /\ ~ Busy(i)
            BY <3>2 DEF Stage, HasReply
        <3> QED
            BY <1>5, <2>1, <3>3
    <2> QED BY <2>2, <2>3
<1>9. ServerInv'
    <2>1. queue = <<>> => queue' = <<>>
        BY <1>1, NoEntries
    <2> QED
        BY <1>4, <2>1 DEF Connections, ServerInv, Listening, Serving
<1> QED
    BY <1>4, <1>6, <1>7, <1>8, <1>9 DEF Connections

(* Clients that die with Streamlit, or with the wait for the server.       *)
LEMMA AbandonKeeps ==
    ASSUME TypeOK, Connections, NEW ids \in SUBSET Clients, queue' = Abandoned(ids),
           \A c \in ids : client'[c] = "none" /\ reply'[c] = "none",
           \A d \in Clients \ ids : client'[d] = client[d] /\ reply'[d] = reply[d],
           \A d \in Clients \ ids : at'[d] = at[d] \/ (client[d] # "open" /\ reply[d] = "none"),
           server' = server, streamlit' = "ended"
    PROVE  Connections' /\ queue' \in Seq(Entries)
<1>1. queue' = [i \in DOMAIN queue |->
                   IF queue[i].from \in ids /\ queue[i].open
                   THEN [queue[i] EXCEPT !.open = FALSE,
                             !.request = IF reply[queue[i].from] # "none" THEN "reset" ELSE @]
                   ELSE queue[i]]
    BY DEF Abandoned
<1>2. \A i \in DOMAIN queue : queue[i] \in Entries
    BY EntryType
<1>3. \A i \in DOMAIN queue :
          /\ queue'[i] \in Entries
          /\ queue'[i].from = queue[i].from
          /\ queue'[i].open <=> queue[i].open /\ queue[i].from \notin ids
          /\ queue[i].from \notin ids => queue'[i] = queue[i]
    <2> SUFFICES ASSUME NEW i \in DOMAIN queue
                 PROVE  /\ queue'[i] \in Entries
                        /\ queue'[i].from = queue[i].from
                        /\ queue'[i].open <=> queue[i].open /\ queue[i].from \notin ids
                        /\ queue[i].from \notin ids => queue'[i] = queue[i]
        OBVIOUS
    <2>1. queue[i] \in Entries
        BY <1>2
    <2>2. CASE queue[i].from \in ids /\ queue[i].open
        <3>1. PICK request \in {"reset", queue[i].request} :
                  queue'[i] = [queue[i] EXCEPT !.open = FALSE, !.request = request]
            BY <1>1, <2>2
        <3> QED
            BY <2>1, <2>2, <3>1 DEF Entries
    <2>3. CASE ~ (queue[i].from \in ids /\ queue[i].open)
        <3>1. queue'[i] = queue[i]
            BY <1>1, <2>3
        <3> QED
            BY <2>1, <2>3, <3>1
    <2> QED BY <2>2, <2>3
<1>4. queue' \in Seq(Entries) /\ DOMAIN queue' = DOMAIN queue /\ (queue # <<>> => queue' # <<>>)
    <2>1. queue' = [i \in DOMAIN queue |-> queue'[i]]
        BY <1>1
    <2> QED
        BY <1>3, <2>1, ChangedInPlace
<1>5. \A i : Busy(i)' <=> Busy(i)
    BY DEF Busy
<1>6. ASSUME NEW c \in Clients PROVE ClientInv(c)'
    <2>1. CASE c \in ids
        <3>1. \A i : ~ OpenAt(c, i)'
            BY <1>3, <1>4, <2>1 DEF OpenAt
        <3> QED
            BY <2>1, <3>1, Disconnected
    <2>2. CASE c \notin ids
        <3>1. \A i : OpenAt(c, i)' <=> OpenAt(c, i)
            BY <1>3, <1>4, <2>2 DEF OpenAt
        <3>2. \A i : OpenAt(c, i) => queue'[i].request = queue[i].request
            BY <1>3, <2>2 DEF OpenAt
        <3>3. CASE at'[c] = at[c]
            BY <1>5, <2>2, <3>1, <3>2, <3>3, Untouched DEF Connections
        <3>4. CASE client[c] # "open" /\ reply[c] = "none"
            BY <2>2, <3>1, <3>4, Disconnected DEF Connections, ClientInv
        <3> QED
            BY <2>2, <3>3, <3>4
    <2> QED BY <2>1, <2>2
<1>7. GoneInv'
    BY DEF GoneInv
<1>8. ServerInv'
    <2>1. queue = <<>> => queue' = <<>>
        BY <1>1, NoEntries
    <2> QED
        BY <1>4, <2>1 DEF Connections, ServerInv, Listening, Serving
<1> QED
    BY <1>4, <1>6, <1>7, <1>8 DEF Connections

(* What a client does on its own: it starts to wait for nothing, or goes   *)
(* on from what it waited for.                                             *)
LEMMA MoveKeeps ==
    ASSUME TypeOK, Connections, NEW c \in Clients,
           Awaits(c) = "none" \/ HasReply(c) \/ client[c] # "open",
           Awaits(c)' = "none", reply'[c] = "none", client'[c] = "open" <=> client[c] = "open",
           \A d \in Clients \ {c} :
               client'[d] = client[d] /\ reply'[d] = reply[d] /\ at'[d] = at[d],
           UNCHANGED <<server, queue>>, streamlit' # "ended" => streamlit # "ended"
    PROVE  Connections'
<1>1. \A d, i : OpenAt(d, i)' <=> OpenAt(d, i)
    BY DEF OpenAt
<1>2. \A i : Busy(i)' <=> Busy(i)
    BY DEF Busy
<1>3. ClientInv(c)'
    <2>1. ASSUME NEW i, OpenAt(c, i) PROVE Stage(c, i)'
        <3>1. Stage(c, i) /\ client[c] = "open"
            BY <2>1 DEF Connections, ClientInv
        <3>2. queue[i].request = "none" /\ ~ Busy(i)
            BY <3>1 DEF Stage, HasReply
        <3> QED
            BY <1>2, <3>2 DEF Stage
    <2> QED
        BY <1>1, <2>1 DEF Connections, ClientInv
<1>4. ASSUME NEW d \in Clients \ {c} PROVE ClientInv(d)'
    BY <1>1, <1>2, Untouched DEF Connections
<1>5. GoneInv'
    BY <1>2 DEF Connections, GoneInv
<1>6. ServerInv'
    BY DEF Connections, ServerInv, Listening, Serving
<1> QED
    BY <1>3, <1>4, <1>5, <1>6 DEF Connections

-----------------------------------------------------------------------------
(* The server ends, and with it all connections. *)
LEMMA ServerEnds ==
    ASSUME TypeOK, Connections, queue' = <<>>, server' \notin {"reading", "handling"},
           \A c \in Clients : /\ client'[c] # "open"
                             /\ reply'[c] \in {"none", Awaits(c)'}
    PROVE  Connections' /\ queue' \in Seq(Entries)
<1>1. \A c, i : ~ OpenAt(c, i)'
    BY NoEntries DEF OpenAt
<1>2. \A c \in Clients : ClientInv(c)'
    BY <1>1, Disconnected
<1>3. GoneInv'
    BY NoEntries DEF GoneInv
<1> QED
    BY <1>2, <1>3, NoEntries DEF Connections, ServerInv, Serving

(* The request in service is answered. *)
LEMMA AnswerKeeps ==
    ASSUME TypeOK, Connections, NEW cmd \in Commands, Serving, queue[1].open,
           reply' = [reply EXCEPT ![queue[1].from] = cmd], Answered,
           Requested(cmd) \/ (server = "handling" /\ cmd = "work"),
           UNCHANGED <<at, streamlit>>
    PROVE  Connections' /\ queue' \in Seq(Entries)
<1>1. server' = "reading" /\ queue' = [queue EXCEPT ![1].request = "none"] /\ client' = client
    BY DEF Answered
<1>2. queue # <<>> /\ 1 \in DOMAIN queue /\ queue[1] \in Entries
    BY FirstEntry DEF Connections, ServerInv
<1> DEFINE c == queue[1].from
           first == [queue[1] EXCEPT !.request = "none"]
<1>3. c \in Clients /\ OpenAt(c, 1)
    BY <1>2 DEF Entries, OpenAt
<1>4. queue' = [queue EXCEPT ![1] = first] /\ first \in Entries
    BY <1>1, <1>2 DEF Entries
<1>5. queue' \in Seq(Entries) /\ DOMAIN queue' = DOMAIN queue /\ queue' # <<>>
    <2>1. DOMAIN queue = 1 .. Len(queue) /\ Len(queue) \in Nat
        BY LenProperties DEF TypeOK
    <2>2. queue' \in Seq(Entries) /\ DOMAIN queue' = DOMAIN queue
        BY <1>2, <1>4, <2>1, ExceptSeq DEF TypeOK
    <2> QED
        BY <1>2, <2>2, NoEntries
<1>6. /\ \A i \in DOMAIN queue \ {1} : queue'[i] = queue[i]
      /\ queue'[1] = first
    BY <1>2, <1>4
<1>7. \A d, i : OpenAt(d, i)' <=> OpenAt(d, i)
    BY <1>2, <1>5, <1>6 DEF OpenAt, Entries
<1>8. \A i : ~ Busy(i)'
    BY <1>1 DEF Busy
<1>9. Stage(c, 1) /\ Awaits(c) = cmd
    <2>1. Stage(c, 1)
        BY <1>3 DEF Connections, ClientInv
    <2>2. Awaits(c) \in Commands \cup {"none"}
        BY DEF Awaits, Commands
    <2> QED
        BY <2>1, <2>2 DEF Stage, Busy, Requested, Commands
<1>10. ASSUME NEW d \in Clients PROVE Awaits(d)' = Awaits(d)
    BY DEF Awaits
<1>11. ASSUME NEW d \in Clients, d = c PROVE ClientInv(d)'
    <2>1. reply'[d] = cmd
        BY <1>3, <1>11 DEF TypeOK
    <2>2. \A i : OpenAt(d, i) => i = 1
        BY <1>3, <1>11 DEF Connections, ClientInv
    <2>3. Stage(d, 1)'
        BY <1>6, <1>8, <1>9, <1>10, <1>11, <1>2, <2>1 DEF Stage, Commands, Entries
    <2> QED
        BY <1>1, <1>7, <1>9, <1>10, <1>11, <2>1, <2>2, <2>3 DEF Connections, ClientInv
<1>12. ASSUME NEW d \in Clients, d # c PROVE ClientInv(d)'
    <2>1. reply'[d] = reply[d]
        BY <1>12 DEF TypeOK
    <2>2. \A i : OpenAt(d, i) => i \in DOMAIN queue /\ i # 1
        BY <1>12 DEF OpenAt
    <2>3. \A i : OpenAt(d, i) => queue'[i].request = queue[i].request /\ ~ Busy(i)
        BY <1>6, <2>2 DEF Busy
    <2> QED
        BY <1>1, <1>7, <1>8, <2>1, <2>3, Untouched DEF Connections
<1>13. GoneInv'
    <2> SUFFICES ASSUME NEW i \in DOMAIN queue', ~ queue'[i].open, streamlit' # "ended"
                 PROVE  queue'[i].request = "none"
        BY <1>8 DEF GoneInv
    <2>1. CASE i = 1
        BY <1>2, <1>6, <2>1 DEF Entries
    <2>2. CASE i # 1
        BY <1>5, <1>6, <2>2 DEF Connections, GoneInv
    <2> QED BY <2>1, <2>2
<1>14. ServerInv'
    BY <1>1, <1>5 DEF ServerInv, Listening
<1> QED
    BY <1>5, <1>11, <1>12, <1>13, <1>14 DEF Connections

(* Kit starts to work. *)
LEMMA BeginWorkKeeps == ASSUME TypeOK, Connections, BeginWork PROVE Connections' /\ queue' \in Seq(Entries)
<1>1. /\ server = "reading" /\ server' = "handling" /\ queue[1].request = "work"
      /\ queue' = [queue EXCEPT ![1].request = "none"]
      /\ UNCHANGED <<client, reply, at, streamlit>>
    BY DEF BeginWork, Requested, clientVars
<1>2. queue # <<>> /\ 1 \in DOMAIN queue /\ queue[1] \in Entries
    BY <1>1, FirstEntry DEF Connections, ServerInv, Serving
<1> DEFINE first == [queue[1] EXCEPT !.request = "none"]
<1>3. queue' = [queue EXCEPT ![1] = first] /\ first \in Entries
    BY <1>1, <1>2 DEF Entries
<1>4. queue' \in Seq(Entries) /\ DOMAIN queue' = DOMAIN queue /\ queue' # <<>>
    <2>1. DOMAIN queue = 1 .. Len(queue) /\ Len(queue) \in Nat
        BY LenProperties DEF TypeOK
    <2>2. queue' \in Seq(Entries) /\ DOMAIN queue' = DOMAIN queue
        BY <1>2, <1>3, <2>1, ExceptSeq DEF TypeOK
    <2> QED
        BY <1>2, <2>2, NoEntries
<1>5. /\ \A i \in DOMAIN queue \ {1} : queue'[i] = queue[i]
      /\ queue'[1].request = "none" /\ queue'[1].from = queue[1].from /\ queue'[1].open = queue[1].open
    BY <1>2, <1>3 DEF Entries
<1>6. \A d, i : OpenAt(d, i)' <=> OpenAt(d, i)
    BY <1>2, <1>4, <1>5 DEF OpenAt
<1>7. \A i : ~ Busy(i) /\ (Busy(i)' <=> i = 1)
    BY <1>1 DEF Busy
<1>8. ASSUME NEW d \in Clients PROVE ClientInv(d)'
    <2>1. Awaits(d)' = Awaits(d)
        BY <1>1 DEF Awaits
    <2>2. ASSUME NEW i, OpenAt(d, i) PROVE Stage(d, i)'
        <3>1. Stage(d, i)
            BY <2>2 DEF Connections, ClientInv
        <3>2. CASE i = 1
            BY <1>1, <1>5, <1>7, <2>1, <3>1, <3>2 DEF Stage
        <3>3. CASE i # 1
            BY <1>1, <1>5, <1>7, <2>1, <2>2, <3>1, <3>3 DEF Stage, OpenAt
        <3> QED BY <3>2, <3>3
    <2> QED
        BY <1>1, <1>6, <2>1, <2>2 DEF Connections, ClientInv
<1>9. GoneInv'
    <2> SUFFICES ASSUME NEW i \in DOMAIN queue', ~ queue'[i].open, streamlit' # "ended"
                 PROVE  queue'[i].request = "none" /\ ~ Busy(i)'
        BY DEF GoneInv
    <2>1. i \in DOMAIN queue /\ ~ queue[i].open
        BY <1>4, <1>5
    <2>2. queue[i].request = "none"
        BY <1>1, <2>1 DEF Connections, GoneInv
    <2>3. i # 1
        BY <1>1, <2>2
    <2> QED
        BY <1>5, <1>7, <2>1, <2>2, <2>3
<1>10. ServerInv'
    BY <1>1, <1>4 DEF ServerInv, Listening
<1> QED
    BY <1>4, <1>8, <1>9, <1>10 DEF Connections

(* A connection that has ended makes room for the next. *)
LEMMA EndConnectionKeeps ==
    ASSUME TypeOK, Connections, EndConnection PROVE Connections' /\ queue' \in Seq(Entries)
<1>1. /\ server = "reading" /\ server' = "accepting" /\ ~ queue[1].open
      /\ queue' = Tail(queue)
      /\ UNCHANGED <<client, reply, at, streamlit>>
    BY DEF EndConnection, Requested, clientVars
<1>2. queue # <<>> /\ queue \in Seq(Entries)
    BY <1>1 DEF Connections, ServerInv, Serving, TypeOK
<1>3. /\ queue' \in Seq(Entries) /\ Len(queue') = Len(queue) - 1
      /\ \A i \in 1 .. Len(queue) - 1 : queue'[i] = queue[i + 1]
    BY <1>1, <1>2, HeadTailProperties, TailIsSubSeq
<1>4. Len(queue) \in Nat \ {0} /\ DOMAIN queue = 1 .. Len(queue) /\ DOMAIN queue' = 1 .. Len(queue) - 1
    BY <1>2, <1>3, EmptySeq, LenProperties
<1>5. \A i \in DOMAIN queue' : i + 1 \in DOMAIN queue /\ i \in Nat /\ queue'[i] = queue[i + 1]
    BY <1>3, <1>4
<1>6. \A i \in DOMAIN queue : i # 1 => i - 1 \in DOMAIN queue' /\ i = (i - 1) + 1
    BY <1>4
<1>7. \A i : ~ Busy(i) /\ ~ Busy(i)'
    BY <1>1 DEF Busy
<1>8. ASSUME NEW d \in Clients PROVE ClientInv(d)'
    <2>1. \A i : OpenAt(d, i)' => OpenAt(d, i + 1) /\ i \in Nat
        BY <1>5 DEF OpenAt
    <2>2. \A i : OpenAt(d, i) => i # 1
        BY <1>1 DEF OpenAt
    <2>3. \A i : OpenAt(d, i) => OpenAt(d, i - 1)'
        BY <1>5, <1>6, <2>2 DEF OpenAt
    <2>4. \A i, j : OpenAt(d, i)' /\ OpenAt(d, j)' => i = j
        <3> SUFFICES ASSUME NEW i, NEW j, OpenAt(d, i)', OpenAt(d, j)' PROVE i = j
            OBVIOUS
        <3>1. i + 1 = j + 1
            BY <2>1 DEF Connections, ClientInv
        <3> QED BY <2>1, <3>1
    <2>5. (\E i : OpenAt(d, i)') <=> (\E i : OpenAt(d, i))
        BY <2>1, <2>3
    <2>6. Awaits(d)' = Awaits(d)
        BY <1>1 DEF Awaits
    <2>7. ASSUME NEW i, OpenAt(d, i)' PROVE Stage(d, i)'
        <3>1. Stage(d, i + 1)
            BY <2>1, <2>7 DEF Connections, ClientInv
        <3>2. queue'[i].request = queue[i + 1].request
            BY <1>5, <2>7 DEF OpenAt
        <3> QED
            BY <1>1, <1>7, <2>6, <3>1, <3>2 DEF Stage
    <2> QED
        BY <1>1, <2>4, <2>5, <2>6, <2>7 DEF Connections, ClientInv
<1>9. GoneInv'
    BY <1>1, <1>5, <1>7 DEF Connections, GoneInv
<1>10. ServerInv'
    BY <1>1 DEF ServerInv, Serving, Listening
<1> QED
    BY <1>3, <1>8, <1>9, <1>10 DEF Connections

-----------------------------------------------------------------------------
(* Where gui_runner is, and what it then knows of the server. *)
RunnerInv ==
    /\ streamlit \in {"pending", "with simapp", "without simapp", "ended"}
    /\ streamlit = "with simapp" => at[Runner] = "serving"
    /\ streamlit = "without simapp" => at[Runner] = "serving"
    /\ at[Runner] \in {"polling", "pinging", "awaiting ping"} => streamlit = "pending"
    /\ at[Runner] \in {"polling", "stopping", "terminating", "serving", "done"} => client[Runner] = "none"
    /\ NothingLeftBehind

(* The server fails nobody before it has ended. *)
TabsInv ==
    /\ server = "booting" =>
           /\ streamlit # "with simapp"
           /\ \A t \in Tabs : at[t] \in {"idle", "gone"}
           /\ \A c \in Clients : client[c] # "open" /\ reply[c] = "none"
    /\ server \in {"closing", "gone"} => ended # "no"
    /\ \A c \in Clients : client[c] \in {"eof", "reset"} => ended # "no"
    /\ TabsSpareTheServer

IInv == TypeOK /\ Connections /\ RunnerInv /\ TabsInv

LEMMA IInvInit == Init => IInv
<1> SUFFICES ASSUME Init PROVE IInv
    OBVIOUS
<1>1. TypeOK
    BY NoEntries DEF Init, TypeOK
<1>2. Connections
    <2>1. \A c, i : ~ OpenAt(c, i)
        BY NoEntries DEF Init, OpenAt
    <2>2. \A c \in Clients : ClientInv(c)
        BY <2>1 DEF Init, ClientInv
    <2> QED
        BY <2>2, NoEntries DEF Init, Connections, GoneInv, ServerInv, Serving
<1>3. RunnerInv
    BY DEF Init, RunnerInv, NothingLeftBehind, Clients
<1>4. TabsInv
    BY ClientsAssumption DEF Init, TabsInv, TabsSpareTheServer, Clients
<1> QED
    BY <1>1, <1>2, <1>3, <1>4 DEF IInv

-----------------------------------------------------------------------------
LEMMA GotoMoves ==
    ASSUME TypeOK, NEW c \in Clients, NEW next, Goto(c, next)
    PROVE  /\ at'[c] = next
           /\ \A d \in Clients \ {c} : at'[d] = at[d]
           /\ DOMAIN at' = Clients /\ at' = [d \in Clients |-> at'[d]]
BY DEF Goto, TypeOK

LEMMA GotoWaitsNot ==
    ASSUME TypeOK, NEW c \in Clients, NEW next, Goto(c, next),
           next \notin {"awaiting ping", "awaiting work", "awaiting shutdown"}
    PROVE  Awaits(c)' = "none"
<1>1. at'[c] = next
    BY GotoMoves
<1> QED
    BY <1>1 DEF Awaits

LEMMA TabsAreClients == /\ \A t \in Tabs : t \in Clients /\ t # Runner
                        /\ Runner \in Clients
BY ClientsAssumption DEF Clients

(* No operation fails but when the server has ended. *)
FailsWithTheServer ==
    /\ DOMAIN outcome' = Tabs /\ outcome' = [u \in Tabs |-> outcome'[u]]
    /\ \A u \in Tabs : outcome'[u] \in {"unavailable", "raised"} =>
                         outcome'[u] = outcome[u] \/ ended # "no"

LEMMA SameOutcomes == ASSUME TypeOK, outcome' = outcome PROVE FailsWithTheServer
BY DEF TypeOK, FailsWithTheServer

LEMMA NewOutcome ==
    ASSUME TypeOK, NEW t \in Tabs, NEW o, outcome' = [outcome EXCEPT ![t] = o],
           o \in {"unavailable", "raised"} => ended # "no"
    PROVE  FailsWithTheServer
BY DEF TypeOK, FailsWithTheServer

(* A step of tab t's own, once its connections are seen to.                *)
LEMMA TabStep ==
    ASSUME IInv, NEW t \in Tabs, NEW next, Goto(t, next),
           queue' \in Seq(Entries), Connections',
           client' \in [Clients -> {"none", "open", "eof", "reset"}],
           client'[t] # client[t] => client'[t] \in {"none", "open"} \/ ended # "no",
           client'[t] = "open" => client[t] = "open" \/ Listening,
           \A d \in Clients \ {t} : client'[d] = client[d],
           reply' \in [Clients -> Commands \cup {"none"}],
           reply'[t] \in {"none", reply[t]},
           \A d \in Clients \ {t} : reply'[d] = reply[d],
           FailsWithTheServer,
           at[t] \in {"idle", "gone"} => streamlit = "with simapp",
           UNCHANGED <<server, ended, bound, streamlit>>
    PROVE  IInv'
<1>1. /\ at'[t] = next /\ \A d \in Clients \ {t} : at'[d] = at[d]
      /\ DOMAIN at' = Clients /\ at' = [d \in Clients |-> at'[d]]
    BY GotoMoves, TabsAreClients DEF IInv
<1>2. TypeOK'
    BY <1>1 DEF IInv, TypeOK, FailsWithTheServer
<1>3. at'[Runner] = at[Runner] /\ client'[Runner] = client[Runner]
    BY <1>1, TabsAreClients
<1>4. RunnerInv'
    BY <1>3 DEF IInv, RunnerInv, NothingLeftBehind
<1>5. server # "booting"
    BY DEF IInv, TabsInv
<1>6. \A u \in Tabs : outcome'[u] \in {"unavailable", "raised"} => ended # "no"
    <2>1. \A u \in Tabs : outcome[u] \in {"unavailable", "raised"} => ended # "no"
        BY DEF IInv, TabsInv, TabsSpareTheServer
    <2> QED
        BY <2>1 DEF FailsWithTheServer
<1>7. \A d \in Clients : client'[d] \in {"eof", "reset"} => ended # "no"
    BY DEF IInv, TabsInv
<1>8. TabsInv'
    BY <1>5, <1>6, <1>7 DEF IInv, TabsInv, TabsSpareTheServer
<1> QED
    BY <1>2, <1>4, <1>8 DEF IInv

LEMMA TabKeeps == ASSUME IInv, NEW t \in Tabs, Start(t) \/ Operate(t) PROVE IInv'
<1>0. t \in Clients /\ TypeOK /\ Connections
    BY TabsAreClients DEF IInv
<1>1. CASE Start(t)
    <2>1. /\ at[t] = "idle" /\ streamlit = "with simapp" /\ Goto(t, "getting")
          /\ outcome' = [outcome EXCEPT ![t] = "none"]
          /\ UNCHANGED <<server, ended, bound, queue, client, reply, streamlit>>
        BY <1>1 DEF Start, serverVars
    <2>2. Awaits(t) = "none" /\ Awaits(t)' = "none"
        <3>1. Awaits(t)' = "none"
            BY <1>0, <2>1, GotoWaitsNot
        <3> QED
            BY <2>1, <3>1 DEF Awaits
    <2>3. reply'[t] = "none"
        BY <1>0, <2>1, <2>2 DEF Connections, ClientInv
    <2>4. Connections'
        BY <1>0, <2>1, <2>2, <2>3, GotoMoves, MoveKeeps
    <2>5. FailsWithTheServer
        BY <1>0, <2>1, NewOutcome
    <2> QED
        BY <1>0, <2>1, <2>4, <2>5, TabStep DEF TypeOK
<1>2. CASE GetClient(t)
    <2>1. /\ at[t] = "getting" /\ Goto(t, "pinging")
          /\ UNCHANGED <<server, ended, bound, reply, outcome, streamlit>>
        BY <1>2 DEF GetClient
    <2>2. Awaits(t) = "none" /\ Awaits(t)' = "none"
        <3>1. Awaits(t)' = "none"
            BY <1>0, <2>1, GotoWaitsNot
        <3> QED
            BY <2>1, <3>1 DEF Awaits
    <2>3. reply'[t] = "none"
        BY <1>0, <2>1, <2>2 DEF Connections, ClientInv
    <2>4. CASE UNCHANGED <<client, queue>>
        <3>1. Connections'
            BY <1>0, <2>1, <2>2, <2>3, <2>4, GotoMoves, MoveKeeps
        <3> QED
            BY <1>0, <2>1, <2>4, <3>1, SameOutcomes, TabStep DEF TypeOK
    <2>5. CASE client[t] = "none" /\ Connect(t)
        <3>1. Connections' /\ queue' \in Seq(Entries)
            BY <1>0, <2>1, <2>2, <2>5, GotoMoves, ConnectKeeps
        <3>2. client' = [client EXCEPT ![t] = "open"] /\ Listening
            BY <2>5 DEF Connect
        <3> QED
            BY <1>0, <2>1, <3>1, <3>2, SameOutcomes, TabStep DEF TypeOK
    <2> QED
        BY <1>2, <2>4, <2>5 DEF GetClient
<1>3. CASE NoClient(t)
    <2>1. /\ Unhealthy(t) /\ Disconnect(t)
          /\ UNCHANGED <<server, ended, bound, streamlit>>
        BY <1>3 DEF NoClient
    <2>2. PICK next \in {"getting", "idle"} : Goto(t, next)
        BY <1>3 DEF NoClient
    <2>3. at[t] \in {"getting", "pinging", "awaiting ping"}
        BY <2>1 DEF Unhealthy
    <2>4. /\ Awaits(t) = "none" \/ client[t] # "open"
          /\ Awaits(t)' = "none"
        <3>1. Awaits(t)' = "none"
            BY <1>0, <2>2, GotoWaitsNot
        <3> QED
            BY <2>1, <3>1 DEF Unhealthy, Broken, ReadsEnd, Awaits
    <2>5. Connections' /\ queue' \in Seq(Entries)
        BY <1>0, <2>1, <2>2, <2>4, GotoMoves, DisconnectKeeps
    <2>6. ended # "no"
        <3>1. CASE client[t] \in {"eof", "reset"}
            BY <1>0, <3>1 DEF IInv, TabsInv
        <3>2. CASE ~ Listening /\ at[t] = "getting"
            <4>1. server \in {"closing", "gone"}
                BY <3>2 DEF Listening, IInv, TypeOK, TabsInv
            <4> QED BY <4>1 DEF IInv, TabsInv
        <3> QED
            BY <2>1, <3>1, <3>2 DEF Unhealthy, Broken, ReadsEnd
    <2>7. outcome' = outcome \/ outcome' = [outcome EXCEPT ![t] = "unavailable"]
        BY <1>3 DEF NoClient
    <2>8. client' = [client EXCEPT ![t] = "none"] /\ reply' = [reply EXCEPT ![t] = "none"]
        BY <2>1 DEF Disconnect
    <2>9. FailsWithTheServer
        BY <1>0, <2>6, <2>7, SameOutcomes, NewOutcome
    <2> QED
        BY <1>0, <2>1, <2>2, <2>3, <2>5, <2>8, <2>9, TabStep DEF TypeOK
<1>4. CASE SendPing(t) \/ SendWork(t)
    <2>1. PICK cmd \in {"ping", "work"}, next \in {"awaiting ping", "awaiting work"} :
              Send(t, cmd, next) /\ (cmd = "ping" <=> next = "awaiting ping")
        BY <1>4 DEF SendPing, SendWork
    <2>2. /\ at[t] \in {"pinging", "requesting"} /\ Goto(t, next)
          /\ UNCHANGED <<server, ended, bound, client, reply, outcome, streamlit>>
        BY <1>4, <2>1 DEF SendPing, SendWork, Send
    <2>3. Awaits(t) = "none" /\ Awaits(t)' = cmd
        BY <1>0, <2>1, <2>2, GotoMoves DEF Awaits
    <2>4. cmd \in Commands
        BY DEF Commands
    <2>5. Connections' /\ queue' \in Seq(Entries)
        BY <1>0, <2>1, <2>2, <2>3, <2>4, SendKeeps
    <2> QED
        BY <1>0, <2>2, <2>5, SameOutcomes, TabStep DEF TypeOK
<1>5. CASE Healthy(t) \/ PingRaises(t)
    <2>1. /\ at[t] = "awaiting ping" /\ (HasReply(t) \/ client[t] # "open")
          /\ UNCHANGED <<server, ended, bound, queue, streamlit>>
        BY <1>5 DEF Healthy, PingRaises, ReadsReset, serverVars
    <2>2. PICK next \in {"requesting", "idle"} : Goto(t, next)
        BY <1>5 DEF Healthy, PingRaises
    <2>3. Awaits(t)' = "none"
        BY <1>0, <2>2, GotoWaitsNot
    <2>4. /\ reply' \in [Clients -> Commands \cup {"none"}] /\ reply'[t] = "none"
          /\ \A d \in Clients \ {t} : reply'[d] = reply[d]
        BY <1>0, <1>5 DEF Healthy, PingRaises, ReadsReset, HasReply, TypeOK
    <2>5. /\ client' \in [Clients -> {"none", "open", "eof", "reset"}]
          /\ \A d \in Clients \ {t} : client'[d] = client[d]
          /\ client'[t] = client[t] \/ (client[t] = "reset" /\ client'[t] = "eof")
        BY <1>0, <1>5 DEF Healthy, PingRaises, ReadsReset, TypeOK
    <2>6. Connections'
        BY <1>0, <2>1, <2>2, <2>3, <2>4, <2>5, GotoMoves, MoveKeeps
    <2>7. client[t] = "reset" => ended # "no"
        BY <1>0 DEF IInv, TabsInv
    <2>8. outcome' = outcome \/ (outcome' = [outcome EXCEPT ![t] = "raised"] /\ client[t] = "reset")
        BY <1>5 DEF Healthy, PingRaises, ReadsReset
    <2>9. FailsWithTheServer
        BY <1>0, <2>7, <2>8, SameOutcomes, NewOutcome
    <2>10. client'[t] # client[t] => ended # "no"
        BY <2>5, <2>7
    <2>11. queue' \in Seq(Entries)
        BY <1>0, <2>1 DEF TypeOK
    <2>12. client'[t] = "open" => client[t] = "open"
        BY <2>5
    <2> QED
        BY <1>0, <2>1, <2>2, <2>4, <2>5, <2>6, <2>9, <2>10, <2>11, <2>12, TabStep
<1>6. CASE EndWork(t)
    <2>1. /\ at[t] \in {"requesting", "awaiting work"} /\ Goto(t, "idle") /\ Disconnect(t)
          /\ Awaits(t) = "none" \/ HasReply(t) \/ client[t] # "open"
          /\ UNCHANGED <<server, ended, bound, streamlit>>
        BY <1>6 DEF EndWork, Release, Awaits, Broken
    <2>2. Awaits(t)' = "none"
        BY <1>0, <2>1, GotoWaitsNot
    <2>3. Connections' /\ queue' \in Seq(Entries)
        BY <1>0, <2>1, <2>2, GotoMoves, DisconnectKeeps
    <2>4. client' = [client EXCEPT ![t] = "none"] /\ reply' = [reply EXCEPT ![t] = "none"]
        BY <2>1 DEF Disconnect
    <2>5. FailsWithTheServer
        <3>1. outcome' = [outcome EXCEPT ![t] =
                  IF at[t] = "awaiting work" /\ ReadsReset(t) THEN "raised" ELSE "done"]
            BY <1>6 DEF EndWork
        <3>2. ReadsReset(t) => ended # "no"
            BY <1>0 DEF ReadsReset, IInv, TabsInv
        <3> QED BY <1>0, <3>1, <3>2, NewOutcome
    <2> QED
        BY <1>0, <2>1, <2>3, <2>4, <2>5, TabStep DEF TypeOK
<1> QED
    BY <1>1, <1>2, <1>3, <1>4, <1>5, <1>6 DEF Operate

-----------------------------------------------------------------------------
(* A step of gui_runner's, once its connection is seen to.                 *)
LEMMA RunnerStep ==
    ASSUME IInv, NEW next, Goto(Runner, next), queue' \in Seq(Entries), Connections',
           client' \in [Clients -> {"none", "open", "eof", "reset"}],
           client'[Runner] # client[Runner] => client'[Runner] \in {"none", "open"},
           client'[Runner] = "open" => client[Runner] = "open" \/ Listening,
           \A d \in Clients \ {Runner} : client'[d] = client[d],
           reply' \in [Clients -> Commands \cup {"none"}],
           reply'[Runner] \in {"none", reply[Runner]},
           \A d \in Clients \ {Runner} : reply'[d] = reply[d],
           RunnerInv', streamlit' = "with simapp" => server # "booting" /\ ended \notin {"broken pipe", "reset"},
           streamlit = "ended" => streamlit' = "ended",
           UNCHANGED <<server, ended, outcome>>
    PROVE  IInv'
<1>1. /\ at'[Runner] = next /\ \A d \in Clients \ {Runner} : at'[d] = at[d]
      /\ DOMAIN at' = Clients /\ at' = [d \in Clients |-> at'[d]]
    BY GotoMoves, TabsAreClients DEF IInv
<1>2. TypeOK'
    BY <1>1 DEF IInv, TypeOK
<1>3. \A t \in Tabs : at'[t] = at[t]
    BY <1>1, TabsAreClients
<1>4. \A d \in Clients : client'[d] \in {"eof", "reset"} => ended # "no"
    BY DEF IInv, TabsInv
<1>5. TabsSpareTheServer'
    BY DEF IInv, TabsInv, TabsSpareTheServer
<1>6. server = "booting" => \A c \in Clients : client'[c] # "open" /\ reply'[c] = "none"
    BY TabsAreClients DEF IInv, TabsInv, Listening
<1>7. TabsInv'
    BY <1>3, <1>4, <1>5, <1>6 DEF IInv, TabsInv
<1> QED
    BY <1>2, <1>7 DEF IInv

LEMMA RunnerConnects ==
    ASSUME IInv, TryConnect \/ (StopConnects /\ Connect(Runner))
    PROVE  IInv'
<1>0. Runner \in Clients /\ TypeOK /\ Connections
    BY TabsAreClients DEF IInv
<1>1. /\ at[Runner] \in {"polling", "stopping"} /\ Connect(Runner)
      /\ UNCHANGED <<server, ended, bound, reply, outcome, streamlit>>
    BY DEF TryConnect, StopConnects
<1>2. PICK next \in {"pinging", "asking"} :
          Goto(Runner, next) /\ (next = "pinging" => at[Runner] = "polling")
    BY <1>0, <1>1 DEF TryConnect, StopConnects, Goto, Connect, Listening
<1>3. client[Runner] = "none"
    BY <1>1 DEF IInv, RunnerInv
<1>4. Awaits(Runner) = "none" /\ Awaits(Runner)' = "none"
    <2>1. Awaits(Runner)' = "none"
        BY <1>0, <1>2, GotoWaitsNot
    <2> QED
        BY <1>1, <2>1 DEF Awaits
<1>5. Connections' /\ queue' \in Seq(Entries)
    BY <1>0, <1>1, <1>2, <1>3, <1>4, GotoMoves, ConnectKeeps
<1>6. client' = [client EXCEPT ![Runner] = "open"] /\ Listening
    BY <1>1 DEF Connect
<1>7. at'[Runner] = next
    BY <1>0, <1>2, GotoMoves
<1>8. RunnerInv'
    BY <1>1, <1>2, <1>7 DEF IInv, RunnerInv, NothingLeftBehind
<1>9. streamlit' # "with simapp"
    BY <1>1 DEF IInv, RunnerInv
<1> QED
    BY <1>0, <1>1, <1>2, <1>5, <1>6, <1>8, <1>9, RunnerStep DEF TypeOK

LEMMA RunnerSends == ASSUME IInv, SendBootPing \/ SendShutdown PROVE IInv'
<1>0. Runner \in Clients /\ TypeOK /\ Connections
    BY TabsAreClients DEF IInv
<1>1. PICK cmd \in {"ping", "shutdown"}, next \in {"awaiting ping", "awaiting shutdown"} :
          /\ Send(Runner, cmd, next) /\ (cmd = "ping" <=> next = "awaiting ping")
          /\ cmd = "ping" <=> at[Runner] = "pinging"
    BY DEF SendBootPing, SendShutdown
<1>2. /\ at[Runner] \in {"pinging", "asking"} /\ Goto(Runner, next)
      /\ UNCHANGED <<server, ended, bound, client, reply, outcome, streamlit>>
    BY <1>1 DEF SendBootPing, SendShutdown, Send
<1>3. at'[Runner] = next
    BY <1>0, <1>2, GotoMoves
<1>4. Awaits(Runner) = "none" /\ Awaits(Runner)' = cmd
    BY <1>1, <1>2, <1>3 DEF Awaits
<1>5. cmd \in Commands
    BY DEF Commands
<1>6. Connections' /\ queue' \in Seq(Entries)
    BY <1>0, <1>1, <1>2, <1>4, <1>5, SendKeeps
<1>7. RunnerInv'
    BY <1>1, <1>2, <1>3 DEF IInv, RunnerInv, NothingLeftBehind
<1>8. streamlit' # "with simapp"
    BY <1>2 DEF IInv, RunnerInv
<1> QED
    BY <1>0, <1>2, <1>6, <1>7, <1>8, RunnerStep DEF TypeOK

LEMMA RunnerDisconnects == ASSUME IInv, BootPingFails \/ Ready \/ EndShutdown PROVE IInv'
<1>0. Runner \in Clients /\ TypeOK /\ Connections
    BY TabsAreClients DEF IInv
<1>1. /\ at[Runner] \in {"pinging", "awaiting ping", "asking", "awaiting shutdown"}
      /\ Disconnect(Runner)
      /\ Awaits(Runner) = "none" \/ HasReply(Runner) \/ client[Runner] # "open"
      /\ UNCHANGED <<server, ended, bound, outcome>>
    BY DEF BootPingFails, Ready, EndShutdown, Broken, ReadsEnd, Awaits
<1>2. PICK next \in {"polling", "serving", "terminating"} : Goto(Runner, next)
    BY DEF BootPingFails, Ready, EndShutdown
<1>3. at'[Runner] = next /\ Awaits(Runner)' = "none"
    BY <1>0, <1>2, GotoMoves, GotoWaitsNot
<1>4. client' = [client EXCEPT ![Runner] = "none"] /\ reply' = [reply EXCEPT ![Runner] = "none"]
    BY <1>1 DEF Disconnect
<1>5. client'[Runner] = "none"
    BY <1>0, <1>4 DEF TypeOK
<1>6. RunnerInv' /\ (streamlit = "ended" => streamlit' = "ended")
    <2>1. CASE BootPingFails
        <3>1. at[Runner] \in {"pinging", "awaiting ping"} /\ streamlit' = streamlit /\ Goto(Runner, "polling")
            BY <2>1 DEF BootPingFails
        <3>2. at'[Runner] = "polling"
            BY <1>0, <3>1, GotoMoves
        <3> QED
            BY <1>1, <1>5, <3>1, <3>2 DEF IInv, RunnerInv, NothingLeftBehind
    <2>2. CASE Ready
        <3>1. /\ at[Runner] = "awaiting ping" /\ streamlit' = "with simapp"
              /\ Goto(Runner, "serving")
            BY <2>2 DEF Ready
        <3>2. at'[Runner] = "serving"
            BY <1>0, <3>1, GotoMoves
        <3> QED
            BY <1>1, <1>5, <3>1, <3>2 DEF IInv, RunnerInv, NothingLeftBehind
    <2>3. CASE EndShutdown
        <3>1. /\ at[Runner] \in {"asking", "awaiting shutdown"} /\ streamlit' = streamlit
              /\ Goto(Runner, "terminating")
            BY <2>3 DEF EndShutdown
        <3>2. at'[Runner] = "terminating"
            BY <1>0, <3>1, GotoMoves
        <3> QED
            BY <1>1, <1>5, <3>1, <3>2 DEF IInv, RunnerInv, NothingLeftBehind
    <2> QED BY <2>1, <2>2, <2>3
<1>7. streamlit' # "ended" => streamlit # "ended"
    BY <1>6
<1>8. Connections' /\ queue' \in Seq(Entries)
    BY <1>0, <1>1, <1>2, <1>3, <1>7, GotoMoves, DisconnectKeeps
<1>9. streamlit' = "with simapp" => server # "booting" /\ ended \notin {"broken pipe", "reset"}
    <2>1. CASE Ready
        <3>1. HasReply(Runner) /\ at[Runner] = "awaiting ping"
            BY <2>1 DEF Ready
        <3>2. server # "booting"
            BY <1>0, <3>1 DEF IInv, TabsInv, HasReply
        <3>3. streamlit # "ended"
            BY <3>1 DEF IInv, RunnerInv
        <3> QED
            BY <3>2, <3>3 DEF IInv, TabsInv, TabsSpareTheServer
    <2>2. CASE ~ Ready
        BY <1>1, <2>2 DEF BootPingFails, EndShutdown, IInv, RunnerInv
    <2> QED BY <2>1, <2>2
<1> QED
    BY <1>0, <1>1, <1>2, <1>4, <1>6, <1>8, <1>9, RunnerStep DEF TypeOK

LEMMA RunnerStops ==
    ASSUME IInv, BootFails \/ (StopConnects /\ ~ Connect(Runner))
    PROVE  IInv'
<1>0. Runner \in Clients /\ TypeOK /\ Connections
    BY TabsAreClients DEF IInv
<1>1. /\ at[Runner] \in {"polling", "stopping"}
      /\ UNCHANGED <<server, ended, bound, queue, client, reply, outcome, streamlit>>
    BY DEF BootFails, StopConnects, serverVars
<1>2. PICK next \in {"stopping", "terminating"} : Goto(Runner, next)
    BY DEF BootFails, StopConnects
<1>3. at'[Runner] = next /\ Awaits(Runner)' = "none"
    BY <1>0, <1>2, GotoMoves, GotoWaitsNot
<1>4. Awaits(Runner) = "none" /\ client[Runner] = "none"
    BY <1>1 DEF Awaits, IInv, RunnerInv
<1>5. reply'[Runner] = "none"
    BY <1>0, <1>1, <1>4 DEF Connections, ClientInv
<1>6. Connections'
    BY <1>0, <1>1, <1>2, <1>3, <1>4, <1>5, GotoMoves, MoveKeeps
<1>7. RunnerInv'
    BY <1>1, <1>3, <1>4 DEF IInv, RunnerInv, NothingLeftBehind
<1>8. streamlit' # "with simapp"
    BY <1>1 DEF IInv, RunnerInv
<1> QED
    BY <1>0, <1>1, <1>2, <1>6, <1>7, <1>8, RunnerStep DEF TypeOK

LEMMA StreamlitStops == ASSUME IInv, WaitRaises \/ StreamlitEnds PROVE IInv'
<1>0. Runner \in Clients /\ TypeOK /\ Connections
    BY TabsAreClients DEF IInv
<1>1. CASE WaitRaises
    <2>1. /\ at[Runner] \in {"polling", "pinging", "awaiting ping"}
          /\ client' = [client EXCEPT ![Runner] = "none"]
          /\ reply' = [reply EXCEPT ![Runner] = "none"]
          /\ queue' = Abandoned({Runner}) /\ Goto(Runner, "stopping") /\ streamlit' = "ended"
          /\ UNCHANGED <<server, ended, bound, outcome>>
        BY <1>1 DEF WaitRaises
    <2>2. /\ client'[Runner] = "none" /\ reply'[Runner] = "none"
          /\ \A d \in Clients \ {Runner} : client'[d] = client[d] /\ reply'[d] = reply[d] /\ at'[d] = at[d]
          /\ at'[Runner] = "stopping"
        BY <1>0, <2>1, GotoMoves DEF TypeOK
    <2>3. Connections' /\ queue' \in Seq(Entries)
        <3>1. {Runner} \in SUBSET Clients
            BY <1>0
        <3> QED
            BY <1>0, <2>1, <2>2, <3>1, AbandonKeeps
    <2>4. RunnerInv'
        BY <2>1, <2>2 DEF IInv, RunnerInv, NothingLeftBehind
    <2> QED
        BY <1>0, <2>1, <2>2, <2>3, <2>4, RunnerStep DEF TypeOK
<1>2. CASE StreamlitEnds
    <2>1. /\ streamlit \in {"with simapp", "without simapp"} /\ streamlit' = "ended"
          /\ client' = [c \in Clients |-> IF c \in Tabs THEN "none" ELSE client[c]]
          /\ reply' = [c \in Clients |-> IF c \in Tabs THEN "none" ELSE reply[c]]
          /\ queue' = Abandoned(Tabs)
          /\ at' = [c \in Clients |-> IF c \in Tabs THEN "gone"
                                    ELSE IF streamlit = "with simapp" THEN "stopping" ELSE "done"]
          /\ UNCHANGED <<server, ended, bound, outcome>>
        BY <1>2 DEF StreamlitEnds
    <2>2. \A d \in Clients \ Tabs : d = Runner
        BY DEF Clients
    <2>3. client[Runner] = "none" /\ reply[Runner] = "none" /\ at[Runner] = "serving"
        <3>1. at[Runner] = "serving" /\ client[Runner] = "none"
            BY <2>1 DEF IInv, RunnerInv
        <3>2. Awaits(Runner) = "none"
            BY <3>1 DEF Awaits
        <3> QED
            BY <1>0, <3>1, <3>2 DEF Connections, ClientInv
    <2>4. client'[Runner] = "none" /\ reply'[Runner] = "none"
          /\ at'[Runner] = IF streamlit = "with simapp" THEN "stopping" ELSE "done"
        BY <1>0, <2>1, <2>3, TabsAreClients
    <2>5. \A t \in Tabs : client'[t] = "none" /\ reply'[t] = "none" /\ at'[t] = "gone"
        BY <2>1, TabsAreClients
    <2>6. Connections' /\ queue' \in Seq(Entries)
        <3>1. Tabs \in SUBSET Clients
            BY DEF Clients
        <3>2. \A d \in Clients \ Tabs : client'[d] = client[d] /\ reply'[d] = reply[d]
            BY <2>2, <2>3, <2>4
        <3>3. \A d \in Clients \ Tabs : client[d] # "open" /\ reply[d] = "none"
            BY <2>2, <2>3
        <3> QED
            BY <1>0, <2>1, <2>5, <3>1, <3>2, <3>3, AbandonKeeps
    <2>7. TypeOK'
        BY <2>1, <2>6 DEF IInv, TypeOK
    <2>8. RunnerInv'
        <3>1. NothingLeftBehind'
            <4>1. streamlit = "without simapp" => server = "gone" /\ ~ bound
                BY DEF IInv, RunnerInv, NothingLeftBehind
            <4>2. at'[Runner] = "done" => streamlit = "without simapp"
                <5>1. streamlit = "with simapp" => at'[Runner] = "stopping"
                    BY <2>4
                <5>2. streamlit \in {"with simapp", "without simapp"}
                    BY <2>1
                <5> QED
                    BY <5>1, <5>2
            <4>3. server' = server /\ bound' = bound /\ streamlit' = "ended"
                BY <2>1
            <4> QED
                BY <4>1, <4>2, <4>3 DEF NothingLeftBehind
        <3>2. at'[Runner] \in {"stopping", "done"}
            BY <2>4
        <3> QED
            BY <2>1, <2>4, <3>1, <3>2 DEF RunnerInv
    <2>9. \A c \in Clients : client'[c] = "none" /\ reply'[c] = "none"
        BY <2>2, <2>4, <2>5
    <2>10. TabsInv'
        BY <2>1, <2>5, <2>9 DEF IInv, TabsInv, TabsSpareTheServer
    <2> QED
        BY <2>6, <2>7, <2>8, <2>10 DEF IInv
<1> QED
    BY <1>1, <1>2

-----------------------------------------------------------------------------
(* The server ends. *)
LEMMA EndsKeeps ==
    ASSUME IInv, NEW to \in {"closing", "gone"}, NEW why, why # "no", Ends(to, why),
           server = "gone" => to = "gone",
           why \in {"broken pipe", "reset"} => streamlit = "ended" \/ ended # "no",
           bound' = bound \/ bound' = FALSE, UNCHANGED <<reply, outcome>>,
           \/ UNCHANGED <<at, streamlit>>
           \/ /\ at[Runner] = "terminating" /\ to = "gone" /\ bound' = FALSE
              /\ streamlit' \in {"ended", "without simapp"}
              /\ streamlit' = "ended" <=> streamlit = "ended"
              /\ Goto(Runner, IF streamlit = "ended" THEN "done" ELSE "serving")
    PROVE  IInv'
<1>0. Runner \in Clients /\ TypeOK /\ Connections
    BY TabsAreClients DEF IInv
<1>1. /\ server' = to /\ ended' = (IF ended = "no" THEN why ELSE ended) /\ queue' = <<>>
      /\ client' = [c \in Clients |-> IF client[c] = "open" THEN Hangup(c) ELSE client[c]]
    BY DEF Ends
<1>2. \A c \in Clients : Hangup(c) \in {"eof", "reset"}
    BY DEF Hangup
<1>3. /\ client' \in [Clients -> {"none", "open", "eof", "reset"}]
      /\ \A c \in Clients : client'[c] # "open" /\ (client[c] = "none" => client'[c] = "none")
    BY <1>0, <1>1, <1>2 DEF TypeOK
<1>4. ended' # "no"
    BY <1>1
<1>5. /\ DOMAIN at' = Clients /\ at' = [c \in Clients |-> at'[c]]
      /\ \A d \in Clients \ {Runner} : at'[d] = at[d]
      /\ at' = at \/ at'[Runner] \in {"done", "serving"}
    BY <1>0, GotoMoves DEF TypeOK
<1>6. Connections' /\ queue' \in Seq(Entries)
    <2>1. ASSUME NEW c \in Clients PROVE reply'[c] \in {"none", Awaits(c)'}
        <3>1. reply[c] \in {"none", Awaits(c)}
            BY <1>0 DEF Connections, ClientInv
        <3>2. CASE at'[c] = at[c]
            BY <3>1, <3>2 DEF Awaits
        <3>3. CASE at'[c] # at[c]
            <4>1. c = Runner /\ at[Runner] = "terminating"
                BY <1>5, <3>3
            <4>2. Awaits(c) = "none"
                BY <4>1 DEF Awaits
            <4> QED BY <3>1, <4>2
        <3> QED BY <3>2, <3>3
    <2>2. server' \notin {"reading", "handling"}
        BY <1>1
    <2> QED
        BY <1>0, <1>1, <1>3, <2>1, <2>2, ServerEnds
<1>7. TypeOK'
    BY <1>1, <1>3, <1>5, <1>6 DEF IInv, TypeOK
<1>8. RunnerInv'
    <2>1. client[Runner] = "none" => client'[Runner] = "none"
        BY <1>0, <1>3
    <2>2. CASE UNCHANGED <<at, streamlit>>
        <3>1. NothingLeftBehind'
            <4>1. NothingLeftBehind
                BY DEF IInv, RunnerInv
            <4>2. ~ bound => ~ bound'
                OBVIOUS
            <4> QED
                BY <1>1, <2>2, <4>1, <4>2 DEF NothingLeftBehind
        <3> QED
            BY <2>1, <2>2, <3>1 DEF IInv, RunnerInv
    <2>3. CASE /\ at[Runner] = "terminating" /\ to = "gone" /\ bound' = FALSE
               /\ streamlit' \in {"ended", "without simapp"}
               /\ streamlit' = "ended" <=> streamlit = "ended"
               /\ Goto(Runner, IF streamlit = "ended" THEN "done" ELSE "serving")
        <3>1. at'[Runner] = IF streamlit = "ended" THEN "done" ELSE "serving"
            BY <1>0, <2>3, GotoMoves
        <3> QED
            BY <1>1, <2>1, <2>3, <3>1 DEF IInv, RunnerInv, NothingLeftBehind
    <2> QED BY <2>2, <2>3
<1>9. TabsSpareTheServer'
    <2>1. ended' \in {"broken pipe", "reset"} => streamlit = "ended"
        BY <1>1 DEF IInv, TabsInv, TabsSpareTheServer
    <2>2. streamlit = "ended" => streamlit' = "ended"
        OBVIOUS
    <2> QED
        BY <1>4, <2>1, <2>2 DEF TabsSpareTheServer
<1>10. TabsInv'
    BY <1>1, <1>4, <1>9 DEF TabsInv
<1> QED
    BY <1>6, <1>7, <1>8, <1>10 DEF IInv

-----------------------------------------------------------------------------
LEMMA RespondKeeps ==
    ASSUME IInv, NEW cmd \in Commands, Serving, Respond(cmd, Answered),
           Requested(cmd) \/ (server = "handling" /\ cmd = "work"),
           UNCHANGED <<at, outcome, streamlit>>
    PROVE  IInv'
<1>0. TypeOK /\ Connections
    BY DEF IInv
<1>1. 1 \in DOMAIN queue /\ queue[1] \in Entries
    BY <1>0, FirstEntry DEF Connections, ServerInv
<1>2. CASE queue[1].open
    <2>1. Answered /\ reply' = [reply EXCEPT ![queue[1].from] = cmd]
        BY <1>2 DEF Respond
    <2>2. Connections' /\ queue' \in Seq(Entries)
        BY <1>0, <1>2, <2>1, AnswerKeeps
    <2>3. server' = "reading" /\ UNCHANGED <<ended, bound, client>>
        BY <2>1 DEF Answered
    <2>4. TypeOK'
        <3>1. reply' \in [Clients -> Commands \cup {"none"}]
            BY <1>0, <1>1, <2>1 DEF TypeOK, Entries
        <3> QED
            BY <1>0, <2>2, <2>3, <3>1 DEF TypeOK
    <2>5. RunnerInv'
        BY <2>3 DEF IInv, RunnerInv, NothingLeftBehind, Serving
    <2>6. TabsInv'
        BY <2>3 DEF IInv, TabsInv, TabsSpareTheServer
    <2> QED
        BY <2>2, <2>4, <2>5, <2>6 DEF IInv
<1>3. CASE ~ queue[1].open
    <2>1. Ends("closing", "broken pipe") /\ bound' = FALSE /\ UNCHANGED reply
        BY <1>3 DEF Respond
    <2>2. streamlit = "ended"
        <3>1. streamlit # "ended" => queue[1].request = "none" /\ ~ Busy(1)
            BY <1>0, <1>1, <1>3 DEF Connections, GoneInv
        <3>2. queue[1].request # "none" \/ Busy(1)
            BY DEF Requested, Busy, Commands
        <3> QED BY <3>1, <3>2
    <2>3. server # "gone"
        BY DEF Serving
    <2> QED
        BY <2>1, <2>2, <2>3, EndsKeeps
<1> QED BY <1>2, <1>3

LEMMA ServerStep ==
    ASSUME IInv, Connections', queue' \in Seq(Entries),
           server \in {"booting", "accepting", "reading", "handling"},
           server' \in {"accepting", "reading", "handling"},
           bound' = bound \/ server = "booting", UNCHANGED <<ended, clientVars, streamlit>>
    PROVE  IInv'
<1>1. UNCHANGED <<client, reply, at, outcome>>
    BY DEF clientVars
<1>2. TypeOK'
    BY <1>1 DEF IInv, TypeOK
<1>3. RunnerInv'
    BY <1>1 DEF IInv, RunnerInv, NothingLeftBehind
<1>4. TabsInv'
    BY <1>1 DEF IInv, TabsInv, TabsSpareTheServer
<1> QED
    BY <1>2, <1>3, <1>4 DEF IInv

LEMMA ServerKeeps == ASSUME IInv, Serve PROVE IInv'
<1>0. TypeOK /\ Connections
    BY DEF IInv
<1>1. CASE Boot \/ Accept
    <2>1. /\ server \in {"booting", "accepting"} /\ server' \in {"accepting", "reading"}
          /\ server' = "reading" => queue # <<>>
          /\ bound' = bound \/ server = "booting"
          /\ UNCHANGED <<ended, queue, clientVars, streamlit>>
        BY <1>1 DEF Boot, Accept
    <2>2. \A c, i : OpenAt(c, i)' <=> OpenAt(c, i)
        BY <2>1 DEF OpenAt
    <2>3. \A i : ~ Busy(i) /\ ~ Busy(i)'
        BY <2>1 DEF Busy
    <2>4. \A c \in Clients : ClientInv(c)'
        BY <1>0, <2>1, <2>2, <2>3, Untouched DEF Connections, clientVars
    <2>5. GoneInv' /\ ServerInv'
        BY <1>0, <2>1, <2>3 DEF Connections, GoneInv, ServerInv, Serving, Listening
    <2> QED
        BY <1>0, <2>1, <2>4, <2>5, ServerStep DEF Connections, TypeOK
<1>2. CASE ServePing
    <2>1. Requested("ping") /\ Respond("ping", Answered) /\ UNCHANGED <<at, outcome, streamlit>>
        BY <1>2 DEF ServePing
    <2>2. Serving /\ "ping" \in Commands
        BY <2>1 DEF Requested, Serving, Commands
    <2> QED
        BY <2>1, <2>2, RespondKeeps
<1>3. CASE FinishWork
    <2>1. server = "handling" /\ Respond("work", Answered) /\ UNCHANGED <<at, outcome, streamlit>>
        BY <1>3 DEF FinishWork
    <2>2. Serving /\ "work" \in Commands
        BY <2>1 DEF Serving, Commands
    <2> QED
        BY <2>1, <2>2, RespondKeeps
<1>4. CASE BeginWork
    BY <1>0, <1>4, BeginWorkKeeps, ServerStep DEF BeginWork, Requested
<1>5. CASE EndConnection
    BY <1>0, <1>5, EndConnectionKeeps, ServerStep DEF EndConnection, Requested
<1>6. CASE ReadRaises
    <2>1. /\ Requested("reset") /\ Ends("closing", "reset") /\ bound' = FALSE
          /\ UNCHANGED <<reply, at, outcome, streamlit>>
        BY <1>6 DEF ReadRaises
    <2>2. 1 \in DOMAIN queue /\ queue[1] \in Entries /\ queue[1].request = "reset"
        BY <1>0, <2>1, FirstEntry DEF Connections, ServerInv, Requested, Serving
    <2>3. ~ queue[1].open
        <3> SUFFICES ASSUME queue[1].open PROVE FALSE
            OBVIOUS
        <3>1. OpenAt(queue[1].from, 1) /\ queue[1].from \in Clients
            BY <2>2 DEF OpenAt, Entries
        <3>2. Stage(queue[1].from, 1)
            BY <1>0, <3>1 DEF Connections, ClientInv
        <3>3. Awaits(queue[1].from) # "reset"
            BY DEF Awaits
        <3> QED
            BY <2>2, <3>2, <3>3 DEF Stage
    <2>4. streamlit = "ended"
        BY <1>0, <2>2, <2>3 DEF Connections, GoneInv
    <2> QED
        BY <2>1, <2>4, EndsKeeps DEF Requested
<1>7. CASE ServeShutdown
    <2>1. Requested("shutdown") /\ UNCHANGED <<at, outcome, streamlit>>
        BY <1>7 DEF ServeShutdown
    <2>2. 1 \in DOMAIN queue /\ queue[1] \in Entries /\ queue[1].request = "shutdown"
        BY <1>0, <2>1, FirstEntry DEF Connections, ServerInv, Requested, Serving
    <2>3. CASE ~ queue[1].open
        <3>1. Ends("closing", "broken pipe") /\ bound' = FALSE /\ UNCHANGED reply
            BY <1>7, <2>3 DEF ServeShutdown, Respond
        <3>2. streamlit = "ended"
            BY <1>0, <2>2, <2>3 DEF Connections, GoneInv
        <3> QED
            BY <2>1, <3>1, <3>2, EndsKeeps DEF Requested
    <2>4. CASE queue[1].open
        <3> DEFINE c == queue[1].from
        <3>1. /\ reply' = [reply EXCEPT ![c] = "shutdown"]
              /\ server' = "closing" /\ ended' = "shutdown" /\ bound' = FALSE /\ queue' = <<>>
              /\ client' = [d \in Clients |->
                     IF client[d] # "open" THEN client[d] ELSE IF d = c THEN "eof" ELSE "reset"]
            BY <1>7, <2>4 DEF ServeShutdown, Respond
        <3>2. c \in Clients /\ OpenAt(c, 1)
            BY <2>2, <2>4 DEF OpenAt, Entries
        <3>3. Awaits(c) = "shutdown"
            <4>1. Stage(c, 1)
                BY <1>0, <3>2 DEF Connections, ClientInv
            <4> QED
                BY <2>2, <4>1 DEF Stage
        <3>4. ASSUME NEW d \in Clients PROVE reply'[d] \in {"none", Awaits(d)'}
            <4>1. Awaits(d)' = Awaits(d) /\ reply[d] \in {"none", Awaits(d)}
                BY <1>0, <2>1 DEF Awaits, Connections, ClientInv
            <4>2. reply'[d] = IF d = c THEN "shutdown" ELSE reply[d]
                BY <1>0, <3>1, <3>2 DEF TypeOK
            <4> QED
                BY <3>3, <4>1, <4>2
        <3>5. /\ client' \in [Clients -> {"none", "open", "eof", "reset"}]
              /\ \A d \in Clients : client'[d] # "open" /\ (client[d] = "none" => client'[d] = "none")
            BY <1>0, <3>1 DEF TypeOK
        <3>6. Connections' /\ queue' \in Seq(Entries)
            BY <1>0, <3>1, <3>4, <3>5, ServerEnds
        <3>7. TypeOK'
            <4>1. reply' \in [Clients -> Commands \cup {"none"}]
                BY <1>0, <3>1, <3>2 DEF TypeOK, Commands
            <4> QED
                BY <1>0, <2>1, <3>1, <3>5, <3>6, <4>1 DEF TypeOK
        <3>8. RunnerInv'
            <4>1. client[Runner] = "none" => client'[Runner] = "none"
                BY <3>5, TabsAreClients
            <4>2. server = "reading"
                BY <2>1 DEF Requested
            <4> QED
                BY <2>1, <3>1, <4>1, <4>2 DEF IInv, RunnerInv, NothingLeftBehind
        <3>9. TabsInv'
            BY <2>1, <3>1 DEF IInv, TabsInv, TabsSpareTheServer
        <3> QED
            BY <3>6, <3>7, <3>8, <3>9 DEF IInv
    <2> QED BY <2>3, <2>4
<1> QED
    BY <1>1, <1>2, <1>3, <1>4, <1>5, <1>6, <1>7 DEF Serve

LEMMA NextKeeps == ASSUME IInv, [Next]_vars PROVE IInv'
<1>0. TypeOK /\ Connections /\ Runner \in Clients
    BY TabsAreClients DEF IInv
<1>1. CASE Serve
    BY <1>1, ServerKeeps
<1>2. CASE Crash
    <2>1. /\ server # "gone" /\ Ends("gone", "crash")
          /\ UNCHANGED <<bound, reply, at, outcome, streamlit>>
        BY <1>2 DEF Crash
    <2> QED
        BY <2>1, EndsKeeps
<1>3. CASE AppClosed
    <2>1. /\ server = "closing" /\ server' = "gone"
          /\ UNCHANGED <<ended, bound, queue, client, reply, at, outcome, streamlit>>
        BY <1>3 DEF AppClosed, clientVars
    <2>2. queue' = <<>> /\ \A c \in Clients : client[c] # "open"
        <3>1. queue = <<>>
            BY <1>0, <2>1 DEF Connections, ServerInv, Listening
        <3>2. \A c, i : ~ OpenAt(c, i)
            BY <3>1, NoEntries DEF OpenAt
        <3> QED
            BY <1>0, <2>1, <3>1, <3>2 DEF Connections, ClientInv
    <2>3. \A c \in Clients : reply'[c] \in {"none", Awaits(c)'}
        BY <1>0, <2>1 DEF Awaits, Connections, ClientInv
    <2>4. Connections' /\ queue' \in Seq(Entries)
        BY <1>0, <2>1, <2>2, <2>3, ServerEnds
    <2>5. TypeOK'
        BY <1>0, <2>1, <2>4 DEF TypeOK
    <2>6. RunnerInv'
        BY <2>1 DEF IInv, RunnerInv, NothingLeftBehind
    <2>7. TabsInv'
        BY <2>1 DEF IInv, TabsInv, TabsSpareTheServer
    <2> QED
        BY <2>4, <2>5, <2>6, <2>7 DEF IInv
<1>4. CASE \E t \in Tabs : Start(t) \/ Operate(t)
    BY <1>4, TabKeeps
<1>5. CASE TryConnect \/ SendBootPing \/ BootPingFails \/ Ready \/ BootFails
    BY <1>5, RunnerConnects, RunnerSends, RunnerDisconnects, RunnerStops
<1>6. CASE WaitRaises \/ StreamlitEnds
    BY <1>6, StreamlitStops
<1>7. CASE StopConnects \/ SendShutdown \/ EndShutdown
    BY <1>7, RunnerConnects, RunnerSends, RunnerDisconnects, RunnerStops
<1>8. CASE Terminate
    <2>1. /\ at[Runner] = "terminating" /\ bound' = FALSE
          /\ Goto(Runner, IF streamlit = "ended" THEN "done" ELSE "serving")
          /\ streamlit' \in {"ended", "without simapp"}
          /\ streamlit' = "ended" <=> streamlit = "ended"
          /\ UNCHANGED <<reply, outcome>>
        BY <1>8 DEF Terminate
    <2>2. CASE StillRunning
        <3>1. Ends("gone", "terminated")
            BY <1>8, <2>2 DEF Terminate
        <3> QED
            BY <2>1, <3>1, EndsKeeps
    <2>3. CASE ~ StillRunning
        <3>1. server = "gone" /\ UNCHANGED <<server, ended, queue, client>>
            BY <1>8, <2>3 DEF Terminate, StillRunning
        <3>2. /\ at'[Runner] = IF streamlit = "ended" THEN "done" ELSE "serving"
              /\ \A d \in Clients \ {Runner} : at'[d] = at[d]
            BY <1>0, <2>1, GotoMoves
        <3>3. Awaits(Runner) = "none" /\ Awaits(Runner)' = "none"
            BY <2>1, <3>2 DEF Awaits
        <3>4. reply'[Runner] = "none"
            BY <1>0, <2>1, <3>3 DEF Connections, ClientInv
        <3>5. Connections'
            BY <1>0, <2>1, <3>1, <3>2, <3>3, <3>4, MoveKeeps
        <3>6. client[Runner] = "none"
            BY <2>1 DEF IInv, RunnerInv
        <3>7. RunnerInv'
            BY <2>1, <3>1, <3>2, <3>6 DEF RunnerInv, NothingLeftBehind
        <3>8. streamlit' # "with simapp" /\ queue' \in Seq(Entries)
            BY <1>0, <2>1, <3>1 DEF TypeOK
        <3> QED
            BY <1>0, <2>1, <3>1, <3>5, <3>7, <3>8, RunnerStep DEF TypeOK
    <2> QED BY <2>2, <2>3
<1>9. CASE UNCHANGED vars
    <2>1. UNCHANGED <<server, ended, bound, queue, client, reply, at, outcome, streamlit>>
        BY <1>9 DEF vars, serverVars, clientVars
    <2>2. \A c, i : OpenAt(c, i)' <=> OpenAt(c, i)
        BY <2>1 DEF OpenAt
    <2>3. \A i : Busy(i)' <=> Busy(i)
        BY <2>1 DEF Busy
    <2>4. \A c \in Clients : ClientInv(c)'
        BY <1>0, <2>1, <2>2, <2>3, Untouched DEF Connections
    <2>5. Connections'
        BY <1>0, <2>1, <2>3, <2>4 DEF Connections, GoneInv, ServerInv, Serving, Listening
    <2> QED
        BY <2>1, <2>5 DEF IInv, TypeOK, RunnerInv, NothingLeftBehind, TabsInv, TabsSpareTheServer
<1> QED
    BY <1>1, <1>2, <1>3, <1>4, <1>5, <1>6, <1>7, <1>8, <1>9 DEF Next, Stop

LEMMA InvariantHolds == Spec => []IInv
BY IInvInit, NextKeeps, PTL DEF Spec

(* However many tabs share the server, an unread request, one in service   *)
(* or an answer belongs to a client that waits for just that: no tab takes *)
(* the answer to one request for that to another.                          *)
THEOREM RequestsStayInStep == Spec => []RequestsInStep
<1>1. ASSUME IInv, NEW c \in Clients
      PROVE  /\ reply[c] \in {"none", Awaits(c)}
             /\ client[c] = "open" =>
                    \A cmd \in {"ping", "work", "shutdown"} :
                        Awaits(c) = cmd <=>
                            Unread(c, cmd) \/ reply[c] = cmd \/ (InService(c) /\ cmd = "work")
    <2>1. ClientInv(c)
        BY <1>1 DEF IInv, Connections
    <2>2. ASSUME client[c] = "open", NEW cmd \in {"ping", "work", "shutdown"}
          PROVE  Awaits(c) = cmd <=>
                     Unread(c, cmd) \/ reply[c] = cmd \/ (InService(c) /\ cmd = "work")
        <3>1. PICK i : OpenAt(c, i)
            BY <2>1, <2>2 DEF ClientInv
        <3>2. Stage(c, i) /\ \A j : OpenAt(c, j) => j = i
            BY <2>1, <3>1 DEF ClientInv
        <3>3. Unread(c, cmd) <=> queue[i].request = cmd
            BY <3>1, <3>2 DEF Unread, OpenAt
        <3>4. InService(c) <=> Busy(i)
            <4>1. server = "handling" => 1 \in DOMAIN queue
                BY <1>1, FirstEntry DEF IInv, Connections, ServerInv, Serving
            <4> QED
                BY <3>1, <3>2, <4>1 DEF InService, Busy, OpenAt
        <3> QED
            BY <2>1, <3>2, <3>3, <3>4 DEF Stage, ClientInv
    <2> QED
        BY <2>1, <2>2 DEF ClientInv
<1>2. IInv => RequestsInStep
    BY <1>1 DEF RequestsInStep
<1> QED
    BY <1>2, InvariantHolds, PTL

(* No tab ends the server or fails before it has ended, as long as         *)
(* Streamlit runs; and gui_runner leaves neither a process nor a socket.   *)
THEOREM ServerLivesAsLongAsNeeded == Spec => []ServerLifetime
<1>1. IInv => ServerLifetime
    BY DEF IInv, RunnerInv, TabsInv, ServerLifetime
<1> QED
    BY <1>1, InvariantHolds, PTL
=============================================================================
