--------------------------- MODULE FrontEndProofs ---------------------------
(***************************************************************************)
(* The gateway's map of websockets, for any number of users, journeys and  *)
(* notices: what it holds is being read, and what is being read is found.  *)
(***************************************************************************)
EXTENDS FrontEnd, TLAPS

\* A post in progress is about a user and carries a notice.
PostsAreAbout ==
  \A s \in Senders : sender[s].at # "idle" => sender[s].user \in Users /\ sender[s].note \in Notices

\* A websocket is opened once: none exists for a journey that has not started, nor at
\* the gateway before the client's dial has ended.
SocketsAreFresh ==
  \A c \in Sockets :
    /\ c[2] > session[c[1]] => client[c] = "none"
    /\ client[c] \in Dialling \cup {"none"} => server[c] = "none"

\* The inductive invariant.
FrontEndInv ==
  TypeOK /\ PostsAreAbout /\ SocketsAreFresh /\ RegistryHoldsReaders /\ ReadersReachable

LEMMA SocketParts ==
  /\ \A c \in Sockets : c[1] \in Users /\ c[2] \in 1..MaxJourneys /\ c = <<c[1], c[2]>>
  /\ \A u \in Users : SocketsOf(u) \subseteq Sockets /\ \A c \in SocketsOf(u) : c[1] = u
  /\ \A c \in Sockets : c \in SocketsOf(c[1])
  BY DEF Sockets, SocketsOf

\* Queues of notices.
LEMMA Queued ==
  ASSUME NEW q \in [Sockets -> Seq(Notices)], NEW c \in Sockets, NEW n \in Notices
  PROVE  /\ [q EXCEPT ![c] = Append(@, n)] \in [Sockets -> Seq(Notices)]
         /\ q[c] # <<>> => /\ Head(q[c]) \in Notices
                           /\ [q EXCEPT ![c] = Tail(@)] \in [Sockets -> Seq(Notices)]
  OBVIOUS

\* The types of the clients, of the gateway and of what travels between them.
ClientTypeOK ==
  /\ page \in [Users -> Pages] /\ session \in [Users -> 0..MaxJourneys]
  /\ client \in [Sockets -> ClientPoints] /\ noting \subseteq Sockets
  /\ \A u \in Users : page[u] = "favourite" => <<u, session[u]>> \in Sockets
QueueTypeOK ==
  /\ inbox \in [Sockets -> Seq(Notices)] /\ wire \in [Sockets -> Seq(Notices)]
  /\ arrived \subseteq Notices
GatewayTypeOK ==
  /\ server \in [Sockets -> ServerPoints] /\ registry \in [Users -> 0..MaxJourneys]
  /\ gatewayUp \in BOOLEAN /\ crossed \subseteq Users
SenderTypeOK ==
  /\ sender \in [Senders -> [at: SenderPoints, user: Users \cup {None},
                             conn: 0..MaxJourneys, note: 0..MaxNotices]]
  /\ \A s \in Senders : sender[s].at = "write" => Socket(s) \in Sockets
  /\ posted \in 0..MaxNotices

LEMMA TypeParts == TypeOK <=> ClientTypeOK /\ QueueTypeOK /\ GatewayTypeOK /\ SenderTypeOK
  BY DEF TypeOK, ClientTypeOK, QueueTypeOK, GatewayTypeOK, SenderTypeOK
LEMMA TypePartsNext ==
  TypeOK' <=> ClientTypeOK' /\ QueueTypeOK' /\ GatewayTypeOK' /\ SenderTypeOK'
  BY DEF TypeOK, ClientTypeOK, QueueTypeOK, GatewayTypeOK, SenderTypeOK

-----------------------------------------------------------------------------
\* Types.
LEMMA ClientTypes ==
  ASSUME ClientTypeOK, [Next]_vars
  PROVE  ClientTypeOK'
  <1>. USE FrontEndAssumption DEF ClientTypeOK, Pages, ClientPoints, Dialling
  <1>1. ASSUME NEW u \in Users, JourneyStarts(u) PROVE ClientTypeOK'
    <2>1. session' \in [Users -> 0..MaxJourneys] /\ page' \in [Users -> Pages]
      BY <1>1 DEF JourneyStarts
    <2>2. client' \in [Sockets -> ClientPoints] /\ noting' = noting
      BY <1>1 DEF JourneyStarts
    <2>3. ASSUME NEW v \in Users, page'[v] = "favourite"
          PROVE  <<v, session'[v]>> \in Sockets
      <3>1. CASE v = u
        <4>1. session'[u] \in 1..MaxJourneys
          BY <1>1 DEF JourneyStarts
        <4>. QED
          BY <3>1, <4>1 DEF Sockets
      <3>2. CASE v # u
        <4>1. page[v] = "favourite" /\ session'[v] = session[v]
          BY <1>1, <2>3, <3>2 DEF JourneyStarts
        <4>. QED
          BY <4>1
      <3>. QED
        BY <3>1, <3>2
    <2>. QED
      BY <2>1, <2>2, <2>3
  <1>2. ASSUME NEW u \in Users,
               \/ FavouriteDeclined(u) \/ FavouriteRefused(u) \/ JourneyEnds(u)
               \/ ClientStarts(u)
        PROVE  ClientTypeOK'
    BY <1>2 DEF FavouriteDeclined, FavouriteRefused, JourneyEnds, ClientStarts
  <1>3. ASSUME NEW u \in Users, Exit(u) PROVE ClientTypeOK'
    BY <1>3 DEF Exit
  <1>4. ASSUME NEW c \in Sockets, DialOpens(c) \/ DialFails(c) \/ Closes(c)
        PROVE  ClientTypeOK'
    BY <1>4 DEF DialOpens, DialFails, Closes
  <1>5. ASSUME NEW c \in Sockets, DialFailsForGood(c) PROVE ClientTypeOK'
    BY <1>3, <1>5, SocketParts DEF DialFailsForGood
  <1>6. ASSUME UNCHANGED <<page, session, client, noting>> PROVE ClientTypeOK'
    BY <1>6
  <1>7. ASSUME NEW c \in Sockets,
               Reads(c) \/ NoteShown(c) \/ WsRegisters(c) \/ ReaderFails(c) \/ ReaderForgets(c)
        PROVE  UNCHANGED <<page, session, client, noting>>
    BY <1>7 DEF Reads, NoteShown, WsRegisters, ReaderFails, ReaderForgets, clientVars
  <1>8. ASSUME NEW s \in Senders, SendStep(s) \/ \E u \in Users : Post(s, u)
        PROVE  UNCHANGED <<page, session, client, noting>>
    BY <1>8 DEF SendStep, Post, LookupFinds, LookupMisses, WriteSucceeds, WriteFails,
                WriteClashes, clientVars
  <1>9. ASSUME GatewayDies \/ GatewayRestarts \/ UNCHANGED vars
        PROVE  UNCHANGED <<page, session, client, noting>>
    BY <1>9 DEF GatewayDies, GatewayRestarts, vars, clientVars
  <1>. QED
    BY <1>1, <1>2, <1>3, <1>4, <1>5, <1>6, <1>7, <1>8, <1>9 DEF Next, Interrupted, ListenStep

LEMMA GatewayTypes ==
  ASSUME GatewayTypeOK, [Next]_vars
  PROVE  GatewayTypeOK'
  <1>. USE FrontEndAssumption DEF GatewayTypeOK, ServerPoints, None
  <1>1. ASSUME NEW u \in Users,
               \/ JourneyStarts(u) \/ FavouriteDeclined(u) \/ FavouriteRefused(u)
               \/ JourneyEnds(u) \/ Interrupted(u) \/ ClientStarts(u)
        PROVE  UNCHANGED gatewayVars
    BY <1>1 DEF JourneyStarts, FavouriteDeclined, FavouriteRefused, JourneyEnds, Interrupted,
                Exit, ClientStarts
  <1>2. ASSUME NEW c \in Sockets,
               DialFails(c) \/ DialFailsForGood(c) \/ Reads(c) \/ Closes(c) \/ NoteShown(c)
        PROVE  UNCHANGED gatewayVars
    BY <1>2 DEF DialFails, DialFailsForGood, Exit, Reads, Closes, NoteShown
  <1>3. ASSUME NEW s \in Senders, SendStep(s) \/ \E u \in Users : Post(s, u)
        PROVE  UNCHANGED gatewayVars
    BY <1>3 DEF SendStep, Post, LookupFinds, LookupMisses, WriteSucceeds, WriteFails,
                WriteClashes
  <1>4. ASSUME UNCHANGED gatewayVars PROVE GatewayTypeOK'
    BY <1>4 DEF gatewayVars
  <1>5. ASSUME NEW c \in Sockets,
               DialOpens(c) \/ WsRegisters(c) \/ ReaderFails(c) \/ ReaderForgets(c)
        PROVE  GatewayTypeOK'
    <2>1. CASE DialOpens(c) \/ ReaderFails(c)
      BY <1>5, <2>1 DEF DialOpens, ReaderFails
    <2>2. CASE WsRegisters(c)
      <3>1. crossed' \subseteq Users
        BY <2>2, SocketParts DEF WsRegisters
      <3>2. registry' \in [Users -> 0..MaxJourneys]
        BY <2>2, SocketParts DEF WsRegisters
      <3>. QED
        BY <2>2, <3>1, <3>2 DEF WsRegisters
    <2>3. CASE ReaderForgets(c)
      <3>1. registry' \in [Users -> 0..MaxJourneys]
        BY <2>3, SocketParts DEF ReaderForgets
      <3>2. server' \in [Sockets -> ServerPoints]
        BY <2>3 DEF ReaderForgets
      <3>. QED
        BY <2>3, <3>1, <3>2 DEF ReaderForgets
    <2>. QED
      BY <1>5, <2>1, <2>2, <2>3
  <1>6. ASSUME GatewayDies \/ GatewayRestarts PROVE GatewayTypeOK'
    <2>1. CASE GatewayDies
      <3>1. registry' \in [Users -> 0..MaxJourneys]
        BY <2>1 DEF GatewayDies
      <3>2. server' \in [Sockets -> ServerPoints]
        BY <2>1 DEF GatewayDies
      <3>. QED
        BY <2>1, <3>1, <3>2 DEF GatewayDies
    <2>2. CASE GatewayRestarts
      BY <2>2 DEF GatewayRestarts
    <2>. QED
      BY <1>6, <2>1, <2>2
  <1>7. ASSUME UNCHANGED vars PROVE UNCHANGED gatewayVars
    BY <1>7 DEF vars
  <1>. QED
    BY <1>1, <1>2, <1>3, <1>4, <1>5, <1>6, <1>7 DEF Next, ListenStep

LEMMA SenderTypes ==
  ASSUME SenderTypeOK, GatewayTypeOK, PostsAreAbout, [Next]_vars
  PROVE  SenderTypeOK' /\ PostsAreAbout'
  <1>. USE FrontEndAssumption
       DEF SenderTypeOK, PostsAreAbout, Socket, SenderPoints, None, Notices
  <1>1. ASSUME UNCHANGED senderVars PROVE SenderTypeOK' /\ PostsAreAbout'
    BY <1>1 DEF senderVars
  <1>2. ASSUME NEW s \in Senders, NEW u \in Users, Post(s, u)
        PROVE  SenderTypeOK' /\ PostsAreAbout'
    <2>. DEFINE r == [at |-> "lookup", user |-> u, conn |-> 0, note |-> posted + 1]
    <2>1. posted' \in 1..MaxNotices /\ posted' = posted + 1
      BY <1>2 DEF Post
    <2>2. sender' = [sender EXCEPT ![s] = r]
      BY <1>2, <2>1 DEF Post
    <2>3. r \in [at: SenderPoints, user: Users \cup {None},
                conn: 0..MaxJourneys, note: 0..MaxNotices]
      BY <2>1
    <2>4. \A t \in Senders : sender'[t] = IF t = s THEN r ELSE sender[t]
      BY <2>2
    <2>. QED
      BY <2>1, <2>2, <2>3, <2>4
  <1>3. ASSUME NEW s \in Senders, LookupFinds(s)
        PROVE  SenderTypeOK' /\ PostsAreAbout'
    <2>. DEFINE r == [at |-> "write", user |-> sender[s].user,
                      conn |-> registry[sender[s].user], note |-> sender[s].note]
    <2>1. /\ sender[s].user \in Users /\ registry[sender[s].user] \in 1..MaxJourneys
          /\ sender[s].note \in 1..MaxNotices
      BY <1>3 DEF LookupFinds, GatewayTypeOK
    <2>2. \A t \in Senders : sender'[t] = IF t = s THEN r ELSE sender[t]
      BY <1>3, <2>1 DEF LookupFinds
    <2>6. sender' = [t \in Senders |-> sender'[t]]
      BY <1>3 DEF LookupFinds
    <2>3. r \in [at: SenderPoints, user: Users \cup {None},
                conn: 0..MaxJourneys, note: 0..MaxNotices]
      BY <2>1
    <2>4. sender' \in [Senders -> [at: SenderPoints, user: Users \cup {None},
                                   conn: 0..MaxJourneys, note: 0..MaxNotices]]
      BY <2>2, <2>3, <2>6
    <2>5. <<r.user, r.conn>> \in Sockets /\ posted' = posted
      BY <1>3, <2>1 DEF LookupFinds, Sockets
    <2>. QED
      BY <2>1, <2>2, <2>3, <2>4, <2>5
  <1>4. ASSUME sender' = [t \in Senders |-> NoPost], UNCHANGED posted
        PROVE  SenderTypeOK' /\ PostsAreAbout'
    BY <1>4 DEF NoPost
  <1>5. ASSUME NEW s \in Senders, Answer(s), UNCHANGED posted
        PROVE  SenderTypeOK' /\ PostsAreAbout'
    <2>1. \A t \in Senders : sender'[t] = IF t = s THEN NoPost ELSE sender[t]
      BY <1>5 DEF Answer
    <2>. QED
      BY <1>5, <2>1 DEF NoPost, Answer
  <1>6. ASSUME NEW u \in Users,
               \/ JourneyStarts(u) \/ FavouriteDeclined(u) \/ FavouriteRefused(u)
               \/ JourneyEnds(u) \/ Interrupted(u) \/ ClientStarts(u)
        PROVE  UNCHANGED senderVars
    BY <1>6 DEF JourneyStarts, FavouriteDeclined, FavouriteRefused, JourneyEnds, Interrupted,
                Exit, ClientStarts
  <1>7. ASSUME NEW c \in Sockets,
               \/ ListenStep(c) \/ NoteShown(c)
               \/ WsRegisters(c) \/ ReaderFails(c) \/ ReaderForgets(c)
        PROVE  UNCHANGED senderVars
    BY <1>7 DEF ListenStep, DialOpens, DialFails, DialFailsForGood, Exit, Reads, Closes,
                NoteShown, WsRegisters, ReaderFails, ReaderForgets
  <1>8. ASSUME NEW s \in Senders,
               LookupMisses(s) \/ WriteSucceeds(s) \/ WriteFails(s) \/ WriteClashes(s)
        PROVE  Answer(s) /\ UNCHANGED posted
    BY <1>8 DEF LookupMisses, WriteSucceeds, WriteFails, WriteClashes
  <1>9. ASSUME GatewayDies
        PROVE  sender' = [t \in Senders |-> NoPost] /\ UNCHANGED posted
    BY <1>9 DEF GatewayDies
  <1>10. ASSUME GatewayRestarts \/ UNCHANGED vars PROVE UNCHANGED senderVars
    BY <1>10 DEF GatewayRestarts, vars
  <1>. QED
    <2>1. CASE \E u \in Users : \/ JourneyStarts(u) \/ FavouriteDeclined(u) \/ FavouriteRefused(u)
                                \/ JourneyEnds(u) \/ Interrupted(u) \/ ClientStarts(u)
      BY <2>1, <1>1, <1>6
    <2>2. CASE \E u \in Users, s \in Senders : Post(s, u)
      BY <2>2, <1>2
    <2>3. CASE \E c \in Sockets : \/ ListenStep(c) \/ NoteShown(c)
                                  \/ WsRegisters(c) \/ ReaderFails(c) \/ ReaderForgets(c)
      BY <2>3, <1>1, <1>7
    <2>4. CASE \E s \in Senders : SendStep(s)
      BY <2>4, <1>3, <1>5, <1>8 DEF SendStep
    <2>5. CASE GatewayDies \/ GatewayRestarts \/ UNCHANGED vars
      BY <2>5, <1>1, <1>4, <1>9, <1>10
    <2>. QED
      BY <2>1, <2>2, <2>3, <2>4, <2>5 DEF Next

LEMMA QueueTypes ==
  ASSUME QueueTypeOK, SenderTypeOK, PostsAreAbout, [Next]_vars
  PROVE  QueueTypeOK'
  <1>. USE DEF QueueTypeOK
  <1>1. ASSUME UNCHANGED <<inbox, wire, arrived>> PROVE QueueTypeOK'
    BY <1>1
  <1>2. ASSUME NEW c \in Sockets, Reads(c) PROVE QueueTypeOK'
    <2>1. Head(wire[c]) \in Notices /\ wire' \in [Sockets -> Seq(Notices)]
      BY <1>2, Queued DEF Reads
    <2>2. inbox' \in [Sockets -> Seq(Notices)]
      BY <1>2, <2>1, Queued DEF Reads
    <2>. QED
      BY <1>2, <2>1, <2>2 DEF Reads
  <1>3. ASSUME NEW c \in Sockets, NoteShown(c) PROVE QueueTypeOK'
    BY <1>3, Queued DEF NoteShown
  <1>4. ASSUME NEW s \in Senders, WriteSucceeds(s) \/ WriteClashes(s) PROVE QueueTypeOK'
    <2>1. Socket(s) \in Sockets /\ sender[s].note \in Notices
      BY <1>4 DEF WriteSucceeds, WriteClashes, SenderTypeOK, PostsAreAbout
    <2>2. ASSUME Deliver(s) PROVE wire' \in [Sockets -> Seq(Notices)]
      BY <2>1, <2>2, Queued DEF Deliver
    <2>. QED
      BY <1>4, <2>2 DEF WriteSucceeds, WriteClashes, clientVars
  <1>5. ASSUME NEW u \in Users,
               \/ JourneyStarts(u) \/ FavouriteDeclined(u) \/ FavouriteRefused(u)
               \/ JourneyEnds(u) \/ Interrupted(u) \/ ClientStarts(u)
        PROVE  UNCHANGED <<inbox, wire, arrived>>
    BY <1>5 DEF JourneyStarts, FavouriteDeclined, FavouriteRefused, JourneyEnds, Interrupted,
                Exit, ClientStarts
  <1>6. ASSUME NEW c \in Sockets,
               \/ DialOpens(c) \/ DialFails(c) \/ DialFailsForGood(c) \/ Closes(c)
               \/ WsRegisters(c) \/ ReaderFails(c) \/ ReaderForgets(c)
        PROVE  UNCHANGED <<inbox, wire, arrived>>
    BY <1>6 DEF DialOpens, DialFails, DialFailsForGood, Exit, Closes,
                WsRegisters, ReaderFails, ReaderForgets, clientVars
  <1>7. ASSUME NEW s \in Senders,
               LookupFinds(s) \/ LookupMisses(s) \/ WriteFails(s) \/ \E u \in Users : Post(s, u)
        PROVE  UNCHANGED <<inbox, wire, arrived>>
    BY <1>7 DEF LookupFinds, LookupMisses, WriteFails, Post, clientVars
  <1>8. ASSUME GatewayDies PROVE QueueTypeOK'
    <2>1. [c \in Sockets |-> <<>>] \in [Sockets -> Seq(Notices)]
      OBVIOUS
    <2>2. wire' \in [Sockets -> Seq(Notices)]
      BY <1>8, <2>1 DEF GatewayDies
    <2>. QED
      BY <1>8, <2>2 DEF GatewayDies, clientVars
  <1>9. ASSUME GatewayRestarts \/ UNCHANGED vars PROVE UNCHANGED <<inbox, wire, arrived>>
    BY <1>9 DEF GatewayRestarts, vars, clientVars
  <1>. QED
    <2>1. CASE \E u \in Users : \/ JourneyStarts(u) \/ FavouriteDeclined(u) \/ FavouriteRefused(u)
                                \/ JourneyEnds(u) \/ Interrupted(u) \/ ClientStarts(u)
      BY <2>1, <1>1, <1>5
    <2>2. CASE \E c \in Sockets : \/ ListenStep(c) \/ NoteShown(c)
                                  \/ WsRegisters(c) \/ ReaderFails(c) \/ ReaderForgets(c)
      BY <2>2, <1>1, <1>2, <1>3, <1>6 DEF ListenStep
    <2>3. CASE \E s \in Senders : SendStep(s) \/ \E u \in Users : Post(s, u)
      BY <2>3, <1>1, <1>4, <1>7 DEF SendStep
    <2>4. CASE GatewayDies \/ GatewayRestarts \/ UNCHANGED vars
      BY <2>4, <1>1, <1>8, <1>9
    <2>. QED
      BY <2>1, <2>2, <2>3, <2>4 DEF Next

LEMMA TypesPreserved ==
  ASSUME TypeOK, PostsAreAbout, [Next]_vars
  PROVE  TypeOK' /\ PostsAreAbout'
  BY TypeParts, TypePartsNext, ClientTypes, QueueTypes, GatewayTypes, SenderTypes

-----------------------------------------------------------------------------
\* Websockets.
LEMMA FreshPreserved ==
  ASSUME TypeOK, SocketsAreFresh, [Next]_vars
  PROVE  SocketsAreFresh'
  <1>. USE DEF SocketsAreFresh, Dialling
  <1>. ClientTypeOK /\ GatewayTypeOK
    BY TypeParts
  <1>1. ASSUME UNCHANGED <<session, client, server>> PROVE SocketsAreFresh'
    BY <1>1
  <1>2. ASSUME NEW u \in Users, JourneyStarts(u) PROVE SocketsAreFresh'
    <2>1. session[u] \in Nat /\ session' = [session EXCEPT ![u] = session[u] + 1]
      BY <1>2, FrontEndAssumption DEF JourneyStarts, ClientTypeOK
    <2>2. \A c \in Sockets : session'[c[1]] = IF c[1] = u THEN session[u] + 1 ELSE session[c[1]]
      BY <2>1, SocketParts DEF ClientTypeOK
    <2>3. \A c \in Sockets :
            client'[c] = IF c = <<u, session[u] + 1>> THEN "first" ELSE client[c]
      BY <1>2, <2>1 DEF JourneyStarts, ClientTypeOK
    <2>4. server' = server
      BY <1>2 DEF JourneyStarts, gatewayVars
    <2>5. \A c \in Sockets : c[1] \in Users /\ c[2] \in Nat /\ session[c[1]] \in Nat
      BY SocketParts, FrontEndAssumption DEF ClientTypeOK
    <2>6. ASSUME NEW c \in Sockets, c = <<u, session[u] + 1>>
          PROVE  server[c] = "none"
      BY <2>1, <2>6
    <2>. QED
      BY <2>1, <2>2, <2>3, <2>4, <2>5, <2>6, SocketParts
  <1>3. ASSUME NEW u \in Users, Exit(u) PROVE SocketsAreFresh'
    <2>1. /\ \A c \in Sockets : client'[c] = "none" <=> client[c] = "none"
          /\ \A c \in Sockets : client'[c] \in Dialling => client[c] \in Dialling
          /\ session' = session /\ server' = server
      BY <1>3 DEF Exit, gatewayVars
    <2>. QED
      BY <2>1
  <1>4. ASSUME NEW c \in Sockets, DialOpens(c) PROVE SocketsAreFresh'
    BY <1>4 DEF DialOpens, ClientTypeOK, GatewayTypeOK
  <1>5. ASSUME NEW c \in Sockets, DialFails(c) \/ Closes(c) PROVE SocketsAreFresh'
    BY <1>5 DEF DialFails, Closes, ClientTypeOK, gatewayVars
  <1>6. ASSUME NEW c \in Sockets, WsRegisters(c) \/ ReaderFails(c) \/ ReaderForgets(c)
        PROVE  SocketsAreFresh'
    BY <1>6 DEF WsRegisters, ReaderFails, ReaderForgets, GatewayTypeOK, clientVars
  <1>7. ASSUME GatewayDies PROVE SocketsAreFresh'
    BY <1>7 DEF GatewayDies, clientVars
  <1>8. ASSUME NEW u \in Users,
               FavouriteDeclined(u) \/ FavouriteRefused(u) \/ JourneyEnds(u) \/ ClientStarts(u)
        PROVE  UNCHANGED <<session, client, server>>
    BY <1>8 DEF FavouriteDeclined, FavouriteRefused, JourneyEnds, ClientStarts, gatewayVars
  <1>9. ASSUME NEW c \in Sockets, Reads(c) \/ NoteShown(c)
        PROVE  UNCHANGED <<session, client, server>>
    BY <1>9 DEF Reads, NoteShown, gatewayVars
  <1>10. ASSUME NEW s \in Senders, SendStep(s) \/ \E u \in Users : Post(s, u)
         PROVE  UNCHANGED <<session, client, server>>
    BY <1>10 DEF SendStep, Post, LookupFinds, LookupMisses, WriteSucceeds, WriteFails,
                 WriteClashes, clientVars, gatewayVars
  <1>11. ASSUME GatewayRestarts \/ UNCHANGED vars PROVE UNCHANGED <<session, client, server>>
    BY <1>11 DEF GatewayRestarts, vars, clientVars, gatewayVars
  <1>. QED
    <2>1. CASE \E u \in Users :
                 \/ JourneyStarts(u) \/ FavouriteDeclined(u) \/ FavouriteRefused(u)
                 \/ JourneyEnds(u) \/ Interrupted(u) \/ ClientStarts(u)
      BY <2>1, <1>1, <1>2, <1>3, <1>8 DEF Interrupted
    <2>2. CASE \E c \in Sockets :
                 \/ ListenStep(c) \/ NoteShown(c)
                 \/ WsRegisters(c) \/ ReaderFails(c) \/ ReaderForgets(c)
      BY <2>2, <1>1, <1>3, <1>4, <1>5, <1>6, <1>9, SocketParts DEF ListenStep, DialFailsForGood
    <2>3. CASE \E s \in Senders : SendStep(s) \/ \E u \in Users : Post(s, u)
      BY <2>3, <1>1, <1>10
    <2>4. CASE GatewayDies \/ GatewayRestarts \/ UNCHANGED vars
      BY <2>4, <1>1, <1>7, <1>11
    <2>. QED
      BY <2>1, <2>2, <2>3, <2>4 DEF Next

LEMMA RegistryPreserved ==
  ASSUME TypeOK, SocketsAreFresh, RegistryHoldsReaders, ReadersReachable, [Next]_vars
  PROVE  RegistryHoldsReaders' /\ ReadersReachable'
  <1>. USE DEF RegistryHoldsReaders, ReadersReachable
  <1>. ClientTypeOK /\ GatewayTypeOK
    BY TypeParts
  <1>1. ASSUME UNCHANGED <<registry, crossed>>, \A u \in Users : Held(u)' = Held(u)
        PROVE  RegistryHoldsReaders' /\ ReadersReachable'
    BY <1>1
  <1>2. ASSUME UNCHANGED gatewayVars
        PROVE  RegistryHoldsReaders' /\ ReadersReachable'
    <2>1. \A u \in Users : Held(u)' = Held(u)
      BY <1>2 DEF gatewayVars, Held
    <2>. QED
      BY <1>1, <1>2, <2>1 DEF gatewayVars
  <1>3. ASSUME NEW c \in Sockets, DialOpens(c)
        PROVE  RegistryHoldsReaders' /\ ReadersReachable'
    <2>1. server[c] = "none" /\ server' = [server EXCEPT ![c] = "upgraded"]
      BY <1>3 DEF DialOpens, SocketsAreFresh
    <2>2. \A u \in Users : Held(u)' = Held(u)
      BY <2>1 DEF Held, GatewayTypeOK
    <2>. QED
      BY <1>1, <1>3, <2>2 DEF DialOpens
  <1>4. ASSUME NEW c \in Sockets, ReaderFails(c)
        PROVE  RegistryHoldsReaders' /\ ReadersReachable'
    <2>1. \A u \in Users : Held(u)' = Held(u)
      BY <1>4 DEF ReaderFails, Held, GatewayTypeOK
    <2>. QED
      BY <1>1, <1>4, <2>1 DEF ReaderFails
  <1>5. ASSUME NEW c \in Sockets, WsRegisters(c)
        PROVE  RegistryHoldsReaders' /\ ReadersReachable'
    <2>1. /\ c[1] \in Users /\ c = <<c[1], c[2]>>
          /\ \A u \in Users : c \in SocketsOf(u) <=> u = c[1]
      BY SocketParts
    <2>2. \A u \in Users : Held(u)' = IF u = c[1] THEN Held(u) \cup {c} ELSE Held(u)
      BY <1>5, <2>1, SocketParts DEF WsRegisters, Held, GatewayTypeOK
    <2>3. \A u \in Users : registry'[u] = IF u = c[1] THEN c[2] ELSE registry[u]
      BY <1>5, <2>1 DEF WsRegisters, GatewayTypeOK
    <2>4. /\ \A u \in Users \ {c[1]} : u \in crossed' <=> u \in crossed
          /\ c[1] \notin crossed' => Held(c[1]) = {}
      BY <1>5, <2>1 DEF WsRegisters
    <2>. QED
      BY <2>1, <2>2, <2>3, <2>4
  <1>6. ASSUME NEW c \in Sockets, ReaderForgets(c)
        PROVE  RegistryHoldsReaders' /\ ReadersReachable'
    <2>1. /\ c[1] \in Users /\ c = <<c[1], c[2]>> /\ c \in Held(c[1])
          /\ \A u \in Users : c \in SocketsOf(u) <=> u = c[1]
      BY <1>6, SocketParts DEF ReaderForgets, Held
    <2>2. \A u \in Users : Held(u)' = Held(u) \ {c}
      BY <1>6, <2>1, SocketParts DEF ReaderForgets, Held, GatewayTypeOK
    <2>3. \A u \in Users : registry'[u] = IF u = c[1] THEN None ELSE registry[u]
      BY <1>6, <2>1 DEF ReaderForgets, GatewayTypeOK
    <2>4. crossed' = crossed
      BY <1>6 DEF ReaderForgets
    <2>5. ASSUME c[1] \notin crossed PROVE Held(c[1])' = {}
      <3>1. ASSUME NEW d \in Held(c[1]) PROVE d = c
        <4>1. d[1] = c[1] /\ d = <<d[1], d[2]>>
          BY <2>1, <3>1, SocketParts DEF Held
        <4>2. registry[c[1]] = d[2] /\ registry[c[1]] = c[2]
          BY <2>1, <2>5, <3>1
        <4>. QED
          BY <2>1, <4>1, <4>2
      <3>. QED
        BY <2>1, <2>2, <3>1
    <2>6. \A u \in Users \ {c[1]} : c \notin Held(u)
      BY <2>1 DEF Held
    <2>. QED
      BY <2>1, <2>2, <2>3, <2>4, <2>5, <2>6
  <1>7. ASSUME GatewayDies
        PROVE  RegistryHoldsReaders' /\ ReadersReachable'
    <2>1. \A c \in Sockets : server'[c] \in {"none", "ended"}
      BY <1>7 DEF GatewayDies
    <2>2. \A u \in Users : Held(u)' = {} /\ registry'[u] = None
      BY <1>7, <2>1, SocketParts DEF GatewayDies, Held
    <2>. QED
      BY <2>2
  <1>8. ASSUME GatewayRestarts PROVE RegistryHoldsReaders' /\ ReadersReachable'
    <2>1. \A u \in Users : Held(u)' = Held(u)
      BY <1>8 DEF GatewayRestarts, Held
    <2>. QED
      BY <1>1, <1>8, <2>1 DEF GatewayRestarts
  <1>9. ASSUME NEW u \in Users,
               \/ JourneyStarts(u) \/ FavouriteDeclined(u) \/ FavouriteRefused(u)
               \/ JourneyEnds(u) \/ Interrupted(u) \/ ClientStarts(u)
        PROVE  UNCHANGED gatewayVars
    BY <1>9 DEF JourneyStarts, FavouriteDeclined, FavouriteRefused, JourneyEnds, Interrupted,
                Exit, ClientStarts
  <1>10. ASSUME NEW c \in Sockets,
                DialFails(c) \/ DialFailsForGood(c) \/ Reads(c) \/ Closes(c) \/ NoteShown(c)
         PROVE  UNCHANGED gatewayVars
    BY <1>10 DEF DialFails, DialFailsForGood, Exit, Reads, Closes, NoteShown
  <1>11. ASSUME NEW s \in Senders, SendStep(s) \/ \E u \in Users : Post(s, u)
         PROVE  UNCHANGED gatewayVars
    BY <1>11 DEF SendStep, Post, LookupFinds, LookupMisses, WriteSucceeds, WriteFails,
                 WriteClashes
  <1>12. ASSUME UNCHANGED vars PROVE UNCHANGED gatewayVars
    BY <1>12 DEF vars
  <1>. QED
    <2>1. CASE \E u \in Users :
                 \/ JourneyStarts(u) \/ FavouriteDeclined(u) \/ FavouriteRefused(u)
                 \/ JourneyEnds(u) \/ Interrupted(u) \/ ClientStarts(u)
      BY <2>1, <1>2, <1>9
    <2>2. CASE \E c \in Sockets :
                 \/ ListenStep(c) \/ NoteShown(c)
                 \/ WsRegisters(c) \/ ReaderFails(c) \/ ReaderForgets(c)
      BY <2>2, <1>2, <1>3, <1>4, <1>5, <1>6, <1>10 DEF ListenStep
    <2>3. CASE \E s \in Senders : SendStep(s) \/ \E u \in Users : Post(s, u)
      BY <2>3, <1>2, <1>11
    <2>4. CASE GatewayDies \/ GatewayRestarts \/ UNCHANGED vars
      BY <2>4, <1>2, <1>7, <1>8, <1>12
    <2>. QED
      BY <2>1, <2>2, <2>3, <2>4 DEF Next

-----------------------------------------------------------------------------
LEMMA FrontEndInit == Init => FrontEndInv
  BY FrontEndAssumption, SocketParts
  DEF Init, FrontEndInv, TypeOK, PostsAreAbout, SocketsAreFresh, RegistryHoldsReaders,
      ReadersReachable, Held, NoPost, None, Pages, ClientPoints, ServerPoints, SenderPoints,
      Dialling

\* The types, the freshness of websockets and what the map holds, together.
THEOREM FrontEndInvariant == Spec => []FrontEndInv
  <1>1. FrontEndInv /\ [Next]_vars => FrontEndInv'
    BY TypesPreserved, FreshPreserved, RegistryPreserved DEF FrontEndInv
  <1>. QED
    BY FrontEndInit, <1>1, PTL DEF Spec

\* The state of clients, gateway and senders is well-formed, a writer always has a
\* websocket to write to.
THEOREM FrontEndTypeCorrect == Spec => []TypeOK
  <1>1. FrontEndInv => TypeOK
    BY DEF FrontEndInv
  <1>. QED
    BY FrontEndInvariant, <1>1, PTL

\* wsHandler and its reader never leave a websocket in the map that nobody reads.
THEOREM FrontEndHoldsReaders == Spec => []RegistryHoldsReaders
  <1>1. FrontEndInv => RegistryHoldsReaders
    BY DEF FrontEndInv
  <1>. QED
    BY FrontEndInvariant, <1>1, PTL

\* A websocket that is read is the one SendToUser finds, for every user none of whose
\* websockets was stored beside an older one.
THEOREM FrontEndReadersReachable == Spec => []ReadersReachable
  <1>1. FrontEndInv => ReadersReachable
    BY DEF FrontEndInv
  <1>. QED
    BY FrontEndInvariant, <1>1, PTL
=============================================================================
