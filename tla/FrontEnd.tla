------------------------------ MODULE FrontEnd ------------------------------
(***************************************************************************)
(* How a notice gets to a user: the planner and the user service post it   *)
(* to the gateway, which looks the user up in its map of websockets and    *)
(* writes to the one it finds; the command line client opens a websocket   *)
(* for every journey and closes it at the end of the journey. The map has  *)
(* one entry per user, is shared by all goroutines of the gateway without  *)
(* a lock, and is cleared by whichever connection of the user ends.        *)
(***************************************************************************)
EXTENDS Naturals, Sequences, FiniteSets

CONSTANTS
  Users,
  MaxJourneys,   \* bound: journeys, and so websockets, of a user
  MaxNotices,    \* bound: notices posted
  ChanSize       \* capacity of notificationChan

ASSUME FrontEndAssumption ==
  MaxJourneys \in Nat /\ MaxNotices \in Nat /\ ChanSize \in Nat \ {0}

VARIABLES
  page,       \* the client's menus: "menu", "favourite", "journey", or "exited"
  session,    \* the number of journeys the user has started, 0 for none
  client,     \* listenToNotifications of each journey
  inbox,      \* notificationChan of each journey
  noting,     \* journeys with a goroutine that shows the notices of the inbox
  server,     \* wsHandler of each websocket and its reader
  wire,       \* notices written to a websocket and not read yet
  registry,   \* clients: the websocket stored for a user, None for none
  gatewayUp,
  sender,     \* a post to send-notification, from each of the two services
  posted,     \* history: notices posted
  arrived,    \* history: notices that came to a notificationChan
  crossed     \* history: users with a websocket registered beside an older one

clientVars == <<page, session, client, inbox, noting, arrived>>
gatewayVars == <<server, registry, gatewayUp, crossed>>
senderVars == <<sender, posted>>
vars == <<clientVars, gatewayVars, senderVars, wire>>

None == 0
Sockets == Users \X (1..MaxJourneys)   \* a websocket is named by user and journey
Notices == 1..MaxNotices
Senders == {"planner", "user_service"}

Dialling == {"first", "second", "third"}
Pages == {"menu", "favourite", "journey", "exited"}
ClientPoints == {"none", "open", "closed"} \cup Dialling
ServerPoints == {"none", "upgraded", "reading", "closing", "ended"}
SenderPoints == {"idle", "lookup", "write"}

NoPost == [at |-> "idle", user |-> None, conn |-> None, note |-> None]

Init ==
  /\ page = [u \in Users |-> "menu"] /\ session = [u \in Users |-> 0]
  /\ client = [c \in Sockets |-> "none"] /\ inbox = [c \in Sockets |-> <<>>]
  /\ noting = {}
  /\ server = [c \in Sockets |-> "none"] /\ wire = [c \in Sockets |-> <<>>]
  /\ registry = [u \in Users |-> None] /\ gatewayUp = TRUE
  /\ sender = [s \in Senders |-> NoPost] /\ posted = 0
  /\ arrived = {} /\ crossed = {}

SocketsOf(u) == {u} \X (1..MaxJourneys)

-----------------------------------------------------------------------------
\* The client's menus.

\* StartNewRoute or AcceptSavedRoute succeeded: sharedLogic starts to listen, and
\* asks whether the route is to be saved.
JourneyStarts(u) ==
  /\ page[u] = "menu" /\ session[u] < MaxJourneys
  /\ session' = [session EXCEPT ![u] = @ + 1]
  /\ page' = [page EXCEPT ![u] = "favourite"]
  /\ client' = [client EXCEPT ![<<u, session'[u]>>] = "first"]
  /\ UNCHANGED <<inbox, noting, arrived, gatewayVars, senderVars, wire>>

FavouriteDeclined(u) ==
  /\ page[u] = "favourite" /\ page' = [page EXCEPT ![u] = "journey"]
  /\ noting' = noting \cup {<<u, session[u]>>}
  /\ UNCHANGED <<session, client, inbox, arrived, gatewayVars, senderVars, wire>>

\* Postgres refuses every save of a favourite: neither schema has the unique
\* constraint that the insert names. sharedLogic returns with the journey under way, and
\* the goroutine that shows its notices never starts.
FavouriteRefused(u) ==
  /\ page[u] = "favourite" /\ page' = [page EXCEPT ![u] = "menu"]
  /\ UNCHANGED <<session, client, inbox, noting, arrived, gatewayVars, senderVars, wire>>

\* Terminated or not: an error of the call ends sharedLogic as well.
JourneyEnds(u) ==
  /\ page[u] = "journey" /\ page' = [page EXCEPT ![u] = "menu"]
  /\ UNCHANGED <<session, client, inbox, noting, arrived, gatewayVars, senderVars, wire>>

\* The process ends with all its connections: an interrupt, or log.Fatalf.
Exit(u) ==
  /\ page' = [page EXCEPT ![u] = "exited"]
  /\ client' = [c \in Sockets |->
       IF c[1] = u /\ client[c] # "none" THEN "closed" ELSE client[c]]
  /\ noting' = noting \ SocketsOf(u)
  /\ UNCHANGED <<session, inbox, arrived, gatewayVars, senderVars, wire>>

Interrupted(u) == page[u] # "exited" /\ Exit(u)

ClientStarts(u) ==
  /\ page[u] = "exited" /\ page' = [page EXCEPT ![u] = "menu"]
  /\ UNCHANGED <<session, client, inbox, noting, arrived, gatewayVars, senderVars, wire>>

-----------------------------------------------------------------------------
\* listenToNotifications, one for each journey.

\* done: sharedLogic of the journey has returned.
Done(c) == c[2] < session[c[1]] \/ page[c[1]] = "menu"

\* The gateway's answer to the upgrade ends the dial, before the gateway stores the
\* connection.
DialOpens(c) ==
  /\ client[c] \in Dialling /\ gatewayUp
  /\ client' = [client EXCEPT ![c] = "open"]
  /\ server' = [server EXCEPT ![c] = "upgraded"]
  /\ UNCHANGED <<page, session, inbox, noting, arrived, registry, gatewayUp, crossed>>
  /\ UNCHANGED <<senderVars, wire>>

\* Two seconds later it tries again.
DialFails(c) ==
  /\ client[c] \in Dialling \ {"third"} /\ ~gatewayUp
  /\ client' = [client EXCEPT ![c] = IF @ = "first" THEN "second" ELSE "third"]
  /\ UNCHANGED <<page, session, inbox, noting, arrived, gatewayVars, senderVars, wire>>

DialFailsForGood(c) == client[c] = "third" /\ ~gatewayUp /\ Exit(c[1])

\* Variant: nothing is read until the user has answered the first question.
ReadsLater(c) ==
  /\ client[c] = "open" /\ wire[c] # <<>> /\ Len(inbox[c]) < ChanSize
  /\ page[c[1]] # "favourite"
  /\ inbox' = [inbox EXCEPT ![c] = Append(@, Head(wire[c]))]
  /\ wire' = [wire EXCEPT ![c] = Tail(@)]
  /\ arrived' = arrived \cup {Head(wire[c])}
  /\ UNCHANGED <<page, session, client, noting, gatewayVars, senderVars>>

\* The reader waits while notificationChan is full.
Reads(c) ==
  /\ client[c] = "open" /\ wire[c] # <<>> /\ Len(inbox[c]) < ChanSize
  /\ inbox' = [inbox EXCEPT ![c] = Append(@, Head(wire[c]))]
  /\ wire' = [wire EXCEPT ![c] = Tail(@)]
  /\ arrived' = arrived \cup {Head(wire[c])}
  /\ UNCHANGED <<page, session, client, noting, gatewayVars, senderVars>>

\* The notes goroutine starts after the first question, if no save of a favourite
\* failed, and only the end of the process stops it. It shows a notice, and may have to
\* wait for the terminal before the next.
NoteShown(c) ==
  /\ c \in noting /\ inbox[c] # <<>>
  /\ inbox' = [inbox EXCEPT ![c] = Tail(@)]
  /\ UNCHANGED <<page, session, client, noting, arrived, gatewayVars, senderVars, wire>>

\* A dial that ends after the journey opens the connection and closes it at once.
Closes(c) ==
  /\ client[c] = "open" /\ Done(c)
  /\ client' = [client EXCEPT ![c] = "closed"]
  /\ UNCHANGED <<page, session, inbox, noting, arrived, gatewayVars, senderVars, wire>>

ListenStep(c) == DialOpens(c) \/ DialFails(c) \/ DialFailsForGood(c) \/ Reads(c) \/ Closes(c)

-----------------------------------------------------------------------------
\* The gateway's websockets: wsHandler and the reader it starts.

Held(u) == {c \in SocketsOf(u) : server[c] \in {"reading", "closing"}}

\* Variant: the reader is started first.
WsRegistersLate(c) ==
  /\ gatewayUp /\ server[c] \in {"upgraded", "closing", "ended"}
  /\ server' = IF server[c] = "upgraded" THEN [server EXCEPT ![c] = "reading"] ELSE server
  /\ registry' = [registry EXCEPT ![c[1]] = c[2]]
  /\ crossed' = IF Held(c[1]) = {} THEN crossed \ {c[1]} ELSE crossed \cup {c[1]}
  /\ UNCHANGED <<gatewayUp, clientVars, senderVars, wire>>

WsRegisters(c) ==
  /\ gatewayUp /\ server[c] = "upgraded"
  /\ registry' = [registry EXCEPT ![c[1]] = c[2]]
  /\ server' = [server EXCEPT ![c] = "reading"]
  /\ crossed' = IF Held(c[1]) = {} THEN crossed \ {c[1]} ELSE crossed \cup {c[1]}
  /\ UNCHANGED <<gatewayUp, clientVars, senderVars, wire>>

\* ReadMessage fails once the client has closed, or when the network breaks.
ReaderFails(c) ==
  /\ gatewayUp /\ server[c] = "reading"
  /\ server' = [server EXCEPT ![c] = "closing"]
  /\ UNCHANGED <<registry, gatewayUp, crossed, clientVars, senderVars, wire>>

\* Variant: the connection is closed and stays in the map.
ReaderLeaves(c) ==
  /\ gatewayUp /\ server[c] = "closing"
  /\ server' = [server EXCEPT ![c] = "ended"]
  /\ UNCHANGED <<registry, gatewayUp, crossed, clientVars, senderVars, wire>>

\* Whatever connection the map holds for the user, it is deleted.
ReaderForgets(c) ==
  /\ gatewayUp /\ server[c] = "closing"
  /\ registry' = [registry EXCEPT ![c[1]] = None]
  /\ server' = [server EXCEPT ![c] = "ended"]
  /\ UNCHANGED <<gatewayUp, crossed, clientVars, senderVars, wire>>

-----------------------------------------------------------------------------
\* NotifyUser of the two services and send-notification of the gateway. Each
\* service has one consumer that posts, and waits for the answer.

Socket(s) == <<sender[s].user, sender[s].conn>>
Answer(s) == sender' = [sender EXCEPT ![s] = NoPost]
Deliver(s) == wire' = [wire EXCEPT ![Socket(s)] = Append(@, sender[s].note)]

Post(s, u) ==
  /\ gatewayUp /\ sender[s].at = "idle" /\ posted < MaxNotices
  /\ posted' = posted + 1
  /\ sender' = [sender EXCEPT ![s] = [at |-> "lookup", user |-> u, conn |-> None,
                                      note |-> posted']]
  /\ UNCHANGED <<clientVars, gatewayVars, wire>>

\* Variant: the map is read without asking whether the user is there.
LookupUnchecked(s) ==
  /\ sender[s].at = "lookup"
  /\ sender' = [sender EXCEPT ![s] = [at |-> "write", user |-> @.user,
                                      conn |-> registry[@.user], note |-> @.note]]
  /\ UNCHANGED <<posted, clientVars, gatewayVars, wire>>

LookupFinds(s) ==
  /\ sender[s].at = "lookup" /\ registry[sender[s].user] # None
  /\ sender' = [sender EXCEPT ![s] = [at |-> "write", user |-> @.user,
                                      conn |-> registry[@.user], note |-> @.note]]
  /\ UNCHANGED <<posted, clientVars, gatewayVars, wire>>

\* "user not connected": the notice is lost.
LookupMisses(s) ==
  /\ sender[s].at = "lookup" /\ registry[sender[s].user] = None
  /\ Answer(s)
  /\ UNCHANGED <<posted, clientVars, gatewayVars, wire>>

WriteSucceeds(s) ==
  /\ sender[s].at = "write" /\ server[Socket(s)] = "reading"
  /\ Deliver(s) /\ Answer(s)
  /\ UNCHANGED <<posted, clientVars, gatewayVars>>

\* Variant: a connection that cannot be written to is forgotten.
WriteFailsForgets(s) ==
  /\ sender[s].at = "write"
  /\ server[Socket(s)] # "reading" \/ client[Socket(s)] # "open"
  /\ Answer(s)
  /\ registry' = [registry EXCEPT ![sender[s].user] = None]
  /\ UNCHANGED <<posted, clientVars, server, gatewayUp, crossed, wire>>

WriteFails(s) ==
  /\ sender[s].at = "write"
  /\ server[Socket(s)] # "reading" \/ client[Socket(s)] # "open"
  /\ Answer(s)
  /\ UNCHANGED <<posted, clientVars, gatewayVars, wire>>

\* Two writers at once on one websocket: it panics in one of them, before or after
\* the write, and net/http recovers.
Clashing(s) ==
  \E t \in Senders \ {s} : sender[t].at = "write" /\ Socket(t) = Socket(s)

WriteClashes(s) ==
  /\ sender[s].at = "write" /\ Clashing(s)
  /\ Deliver(s) \/ UNCHANGED wire
  /\ Answer(s)
  /\ UNCHANGED <<posted, clientVars, gatewayVars>>

SendStep(s) ==
  \/ LookupFinds(s) \/ LookupMisses(s)
  \/ WriteSucceeds(s) \/ WriteFails(s) \/ WriteClashes(s)

-----------------------------------------------------------------------------
\* Goroutines about to use the map, and those about to change it.
Changers == {c \in Sockets : server[c] \in {"upgraded", "closing"}}
Lookers == {s \in Senders : sender[s].at = "lookup"}

\* A Go map that is used while it is changed may stop the process. Its connections
\* break, and what they held may or may not arrive.
GatewayDies ==
  /\ gatewayUp
  /\ Changers # {} /\ Cardinality(Changers) + Cardinality(Lookers) > 1
  /\ gatewayUp' = FALSE
  /\ registry' = [u \in Users |-> None]
  /\ server' = [c \in Sockets |-> IF server[c] = "none" THEN "none" ELSE "ended"]
  /\ sender' = [s \in Senders |-> NoPost]
  /\ wire' \in {wire, [c \in Sockets |-> <<>>]}
  /\ crossed' = {}
  /\ UNCHANGED <<clientVars, posted>>

\* Nothing restarts the container but its operator.
GatewayRestarts ==
  /\ ~gatewayUp /\ gatewayUp' = TRUE
  /\ UNCHANGED <<clientVars, server, registry, crossed, senderVars, wire>>

Next ==
  \/ \E u \in Users :
       \/ JourneyStarts(u) \/ FavouriteDeclined(u) \/ FavouriteRefused(u) \/ JourneyEnds(u)
       \/ Interrupted(u) \/ ClientStarts(u)
       \/ \E s \in Senders : Post(s, u)
  \/ \E c \in Sockets :
       \/ ListenStep(c) \/ NoteShown(c)
       \/ WsRegisters(c) \/ ReaderFails(c) \/ ReaderForgets(c)
  \/ \E s \in Senders : SendStep(s)
  \/ GatewayDies \/ GatewayRestarts

Spec == Init /\ [][Next]_vars

\* Goroutines go on, and the end of a connection is noticed at its other end. No user
\* need do anything, and nothing makes the gateway come back.
Fairness ==
  /\ \A c \in Sockets :
       /\ WF_vars(Reads(c)) /\ WF_vars(Closes(c))
       /\ WF_vars(WsRegisters(c)) /\ WF_vars(ReaderForgets(c))
       /\ WF_vars(client[c] # "open" /\ ReaderFails(c))
  /\ \A s \in Senders : WF_vars(SendStep(s))

FairSpec == Spec /\ Fairness

-----------------------------------------------------------------------------
TypeOK ==
  /\ page \in [Users -> Pages] /\ session \in [Users -> 0..MaxJourneys]
  /\ client \in [Sockets -> ClientPoints] /\ inbox \in [Sockets -> Seq(Notices)]
  /\ noting \subseteq Sockets
  /\ \A u \in Users : page[u] = "favourite" => <<u, session[u]>> \in Sockets
  /\ server \in [Sockets -> ServerPoints] /\ wire \in [Sockets -> Seq(Notices)]
  /\ registry \in [Users -> 0..MaxJourneys] /\ gatewayUp \in BOOLEAN
  /\ sender \in [Senders -> [at: SenderPoints, user: Users \cup {None},
                             conn: 0..MaxJourneys, note: 0..MaxNotices]]
  /\ \A s \in Senders : sender[s].at = "write" => Socket(s) \in Sockets
  /\ posted \in 0..MaxNotices /\ arrived \subseteq Notices /\ crossed \subseteq Users

\* The map never holds a connection whose reader has ended: no notice is written to
\* a closed websocket for longer than it takes the reader to delete it.
RegistryHoldsReaders ==
  \A u \in Users : registry[u] # None => <<u, registry[u]>> \in Held(u)

\* A connection that is being read is the one notices go to, whatever writes fail,
\* journeys end and connections break around it, unless the connection was stored
\* while an older one of the same user was still held.
ReadersReachable ==
  \A u \in Users \ crossed : \A c \in Held(u) : registry[u] = c[2]

\* A user reached over a websocket that works.
Reachable(c) ==
  server[c] = "reading" /\ client[c] = "open" /\ registry[c[1]] = c[2] /\ c[1] \notin crossed

\* A notice posted for a reachable user comes to his client, wherever its menus are,
\* unless the connection ends, another journey crosses it, the channel is full, or a
\* notice of the other service clashes with it.
NoticeArrives ==
  \A s \in Senders, c \in Sockets, n \in Notices :
    (sender[s].at = "lookup" /\ sender[s].user = c[1] /\ sender[s].note = n /\ Reachable(c)) ~>
      \/ n \in arrived
      \/ ~Reachable(c)
      \/ Len(inbox[c]) = ChanSize
      \/ Clashing(s)

\* A websocket that the client has closed leaves the map and does not come back to it,
\* although it may be stored only after the client closed it.
ClosedIsForgotten ==
  \A c \in Sockets : client[c] = "closed" ~> [](registry[c[1]] # c[2])
=============================================================================
