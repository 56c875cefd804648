-------------------------- MODULE RendezvousProofs --------------------------
(***************************************************************************)
(* Proofs about module Rendezvous, for any clients, identities and number  *)
(* of troubles: RendezvousInv is inductive as it stands.                   *)
(***************************************************************************)
EXTENDS Rendezvous, TLAPS

Finding == ~Overtake => \A f \in Finders : FindingGoesOn(f)

\* What a client sends, and a finder with a target
Messages == Seq({"Login", "Find"})
Pairs == Finders \X Clients

LEMMA MessagesClosed ==
  /\ <<>> \in Messages /\ <<"Login">> \in Messages /\ <<"Find", "Login">> \in Messages
  /\ \A s \in Messages : s # <<>> => Tail(s) \in Messages
BY DEF Messages

\* The parts of the type invariant, by the piece of state they are about
ClientTypes ==
  /\ run \in [Clients -> {"new", "running", "ended"}]
  /\ connjzycn \subseteq Clients /\ jinzeyucn \subseteq Clients /\ reconntid \subseteq Clients

FinderTypes ==
  /\ state \in [Finders -> FinderState]
  /\ conntarget \in [Finders -> Clients \cup {NULL}] /\ targetid \in [Finders -> Clients \cup {NULL}]
  /\ contact \subseteq Finders /\ quitting \subseteq Finders

AttemptTypes == asked \subseteq Pairs /\ connecting \subseteq Pairs

ServerTypes ==
  /\ up \in BOOLEAN /\ rak \in [Clients -> Ends] /\ whole \subseteq Clients
  /\ allConnected \subseteq Clients /\ more \subseteq Clients
  /\ allLogin \in [Names -> Clients \cup {NULL}]
  /\ refused \subseteq Clients /\ troubles \in Nat

RequestTypes == toServer \in [Clients -> Messages]

AnswerTypes == toClient \in [Finders -> Clients \cup {"none", "missing"}]

LEMMA TypeParts ==
  TypeOK <=> /\ ClientTypes /\ FinderTypes /\ AttemptTypes
             /\ ServerTypes /\ RequestTypes /\ AnswerTypes
BY DEF TypeOK, ClientTypes, FinderTypes, AttemptTypes, ServerTypes, RequestTypes, AnswerTypes,
   Pairs, Messages

LEMMA PairsClosed == \A f \in Finders, t \in Clients : <<f, t>> \in Pairs
BY DEF Pairs

LEMMA FindersAreClients == Finders \subseteq Clients
BY DEF Clients

\* A finder in contact with its target knows it, so that it can ask for it again.
TargetKnown == \A f \in contact : targetid[f] \in Clients

LEMMA InitHolds == Init => RendezvousInv /\ TargetKnown
BY RendezvousAssumption DEF Init, RendezvousInv, TypeOK, OneOfThree, TablesAgree, LinksFit,
   FindingGoesOn, FinderState, Ends, Clients, TargetKnown

\* Each part is kept by every step.
LEMMA ClientTypesStep == ClientTypes /\ [Next]_vars => ClientTypes'
<1> SUFFICES ASSUME ClientTypes, [Next]_vars PROVE ClientTypes'
  OBVIOUS
<1> USE RendezvousAssumption, FindersAreClients DEF ClientTypes
<1>1. ASSUME NEW c \in Clients, Start(c) PROVE ClientTypes'
  BY <1>1 DEF Start, clientVars, findVars, serverVars, linkVars
<1>2. ASSUME NEW c \in Clients, Accepted(c) PROVE ClientTypes'
  BY <1>2 DEF Accepted, Greeting, clientVars, findVars, serverVars, linkVars
<1>3. ASSUME NEW c \in Clients, ConnectFails(c) PROVE ClientTypes'
  BY <1>3 DEF ConnectFails, clientVars, findVars, serverVars, linkVars
<1>4. ASSUME NEW c \in Clients, ClientLost(c) PROVE ClientTypes'
  BY <1>4 DEF ClientLost, AfterLoss, clientVars, findVars, serverVars, linkVars
<1>5. ASSUME NEW c \in Clients, Reconnect(c) PROVE ClientTypes'
  BY <1>5 DEF Reconnect, clientVars, findVars, serverVars, linkVars
<1>6. ASSUME NEW c \in Clients, Stop(c) PROVE ClientTypes'
  BY <1>6 DEF Stop, clientVars, findVars, serverVars, linkVars
<1>7. ASSUME NEW c \in Clients, ServerIncoming(c) PROVE ClientTypes'
  BY <1>7 DEF ServerIncoming, ServerKeeps, clientVars, findVars, serverVars, linkVars
<1>8. ASSUME NEW c \in Clients, ServerRecv(c) PROVE ClientTypes'
  BY <1>8 DEF ServerRecv, Login, Found, ServerKeeps, clientVars, findVars, serverVars, linkVars
<1>9. ASSUME NEW c \in Clients, ServerLost(c) PROVE ClientTypes'
  BY <1>9 DEF ServerLost, Forgotten, ServerKeeps, clientVars, findVars, serverVars, linkVars
<1>10. ASSUME NEW c \in Clients, HalfEnds(c) PROVE ClientTypes'
  BY <1>10 DEF HalfEnds, ServerKeeps, clientVars, findVars, serverVars, linkVars
<1>11. ASSUME NEW c \in Clients, Break(c) PROVE ClientTypes'
  BY <1>11 DEF Break, ServerKeeps, clientVars, findVars, serverVars, linkVars
<1>12. ASSUME NEW f \in Finders, ClientRecv(f) PROVE ClientTypes'
  BY <1>12 DEF ClientRecv, ConnectEx, FindKeeps, clientVars, findVars, serverVars, linkVars
<1>13. ASSUME NEW f \in Finders, NEW t \in Clients, Introduced(f, t) PROVE ClientTypes'
  BY <1>13 DEF Introduced, FindKeeps, clientVars, findVars, serverVars, linkVars
<1>14. ASSUME NEW f \in Finders, NEW t \in Clients, TargetAccepted(f, t) PROVE ClientTypes'
  BY <1>14 DEF TargetAccepted, FindKeeps, clientVars, findVars, serverVars, linkVars
<1>15. ASSUME NEW f \in Finders, NEW t \in Clients, TargetFails(f, t) PROVE ClientTypes'
  BY <1>15 DEF TargetFails, FindKeeps, clientVars, findVars, serverVars, linkVars
<1>16. ASSUME NEW f \in Finders, TargetLost(f) PROVE ClientTypes'
  BY <1>16 DEF TargetLost, ConnectEx, FindKeeps, clientVars, findVars, serverVars, linkVars
<1>17. CASE ServerStops
  BY <1>17 DEF ServerStops, ServerKeeps, clientVars, findVars, serverVars, linkVars
<1>18. CASE ServerStarts
  BY <1>18 DEF ServerStarts, ServerKeeps, clientVars, findVars, serverVars, linkVars
<1>19. CASE UNCHANGED vars
  BY <1>19 DEF vars, clientVars, findVars, serverVars, linkVars
<1> HIDE DEF ClientTypes
<1> QED
  BY <1>1, <1>2, <1>3, <1>4, <1>5, <1>6, <1>7, <1>8, <1>9, <1>10,
     <1>11, <1>12, <1>13, <1>14, <1>15, <1>16, <1>17, <1>18, <1>19 DEF Next, Attempt

\* The finders
LEMMA FinderTypesStep == FinderTypes /\ AnswerTypes /\ [Next]_vars => FinderTypes'
<1> SUFFICES ASSUME FinderTypes, AnswerTypes, [Next]_vars PROVE FinderTypes'
  OBVIOUS
<1> USE RendezvousAssumption, FindersAreClients DEF FinderTypes, AnswerTypes, FinderState
<1>1. ASSUME NEW c \in Clients, Start(c) PROVE FinderTypes'
  BY <1>1 DEF Start, clientVars, findVars, serverVars, linkVars
<1>2. ASSUME NEW c \in Clients, Accepted(c) PROVE FinderTypes'
  BY <1>2 DEF Accepted, Greeting, clientVars, findVars, serverVars, linkVars
<1>3. ASSUME NEW c \in Clients, ConnectFails(c) PROVE FinderTypes'
  BY <1>3 DEF ConnectFails, clientVars, findVars, serverVars, linkVars
<1>4. ASSUME NEW c \in Clients, ClientLost(c) PROVE FinderTypes'
  BY <1>4 DEF ClientLost, AfterLoss, clientVars, findVars, serverVars, linkVars
<1>5. ASSUME NEW c \in Clients, Reconnect(c) PROVE FinderTypes'
  BY <1>5 DEF Reconnect, clientVars, findVars, serverVars, linkVars
<1>6. ASSUME NEW c \in Clients, Stop(c) PROVE FinderTypes'
  BY <1>6 DEF Stop, clientVars, findVars, serverVars, linkVars
<1>7. ASSUME NEW c \in Clients, ServerIncoming(c) PROVE FinderTypes'
  BY <1>7 DEF ServerIncoming, ServerKeeps, clientVars, findVars, serverVars, linkVars
<1>8. ASSUME NEW c \in Clients, ServerRecv(c) PROVE FinderTypes'
  BY <1>8 DEF ServerRecv, Login, Found, ServerKeeps, clientVars, findVars, serverVars, linkVars
<1>9. ASSUME NEW c \in Clients, ServerLost(c) PROVE FinderTypes'
  BY <1>9 DEF ServerLost, Forgotten, ServerKeeps, clientVars, findVars, serverVars, linkVars
<1>10. ASSUME NEW c \in Clients, HalfEnds(c) PROVE FinderTypes'
  BY <1>10 DEF HalfEnds, ServerKeeps, clientVars, findVars, serverVars, linkVars
<1>11. ASSUME NEW c \in Clients, Break(c) PROVE FinderTypes'
  BY <1>11 DEF Break, ServerKeeps, clientVars, findVars, serverVars, linkVars
<1>12. ASSUME NEW f \in Finders, ClientRecv(f) PROVE FinderTypes'
  BY <1>12 DEF ClientRecv, ConnectEx, FindKeeps, clientVars, findVars, serverVars, linkVars
<1>13. ASSUME NEW f \in Finders, NEW t \in Clients, Introduced(f, t) PROVE FinderTypes'
  BY <1>13 DEF Introduced, FindKeeps, clientVars, findVars, serverVars, linkVars
<1>14. ASSUME NEW f \in Finders, NEW t \in Clients, TargetAccepted(f, t) PROVE FinderTypes'
  BY <1>14 DEF TargetAccepted, FindKeeps, clientVars, findVars, serverVars, linkVars
<1>15. ASSUME NEW f \in Finders, NEW t \in Clients, TargetFails(f, t) PROVE FinderTypes'
  BY <1>15 DEF TargetFails, FindKeeps, clientVars, findVars, serverVars, linkVars
<1>16. ASSUME NEW f \in Finders, TargetLost(f) PROVE FinderTypes'
  BY <1>16 DEF TargetLost, ConnectEx, FindKeeps, clientVars, findVars, serverVars, linkVars
<1>17. CASE ServerStops
  BY <1>17 DEF ServerStops, ServerKeeps, clientVars, findVars, serverVars, linkVars
<1>18. CASE ServerStarts
  BY <1>18 DEF ServerStarts, ServerKeeps, clientVars, findVars, serverVars, linkVars
<1>19. CASE UNCHANGED vars
  BY <1>19 DEF vars, clientVars, findVars, serverVars, linkVars
<1> HIDE DEF FinderTypes, AnswerTypes, FinderState
<1> QED
  BY <1>1, <1>2, <1>3, <1>4, <1>5, <1>6, <1>7, <1>8, <1>9, <1>10,
     <1>11, <1>12, <1>13, <1>14, <1>15, <1>16, <1>17, <1>18, <1>19 DEF Next, Attempt

\* Their attempts
LEMMA AttemptTypesStep == AttemptTypes /\ TargetKnown /\ [Next]_vars => AttemptTypes'
<1> SUFFICES ASSUME AttemptTypes, TargetKnown, [Next]_vars PROVE AttemptTypes'
  OBVIOUS
<1> USE RendezvousAssumption, FindersAreClients, PairsClosed DEF AttemptTypes
<1>1. ASSUME NEW c \in Clients, Start(c) PROVE AttemptTypes'
  BY <1>1 DEF Start, clientVars, findVars, serverVars, linkVars
<1>2. ASSUME NEW c \in Clients, Accepted(c) PROVE AttemptTypes'
  BY <1>2 DEF Accepted, Greeting, clientVars, findVars, serverVars, linkVars
<1>3. ASSUME NEW c \in Clients, ConnectFails(c) PROVE AttemptTypes'
  BY <1>3 DEF ConnectFails, clientVars, findVars, serverVars, linkVars
<1>4. ASSUME NEW c \in Clients, ClientLost(c) PROVE AttemptTypes'
  BY <1>4 DEF ClientLost, AfterLoss, clientVars, findVars, serverVars, linkVars
<1>5. ASSUME NEW c \in Clients, Reconnect(c) PROVE AttemptTypes'
  BY <1>5 DEF Reconnect, clientVars, findVars, serverVars, linkVars
<1>6. ASSUME NEW c \in Clients, Stop(c) PROVE AttemptTypes'
  BY <1>6 DEF Stop, clientVars, findVars, serverVars, linkVars
<1>7. ASSUME NEW c \in Clients, ServerIncoming(c) PROVE AttemptTypes'
  BY <1>7 DEF ServerIncoming, ServerKeeps, clientVars, findVars, serverVars, linkVars
<1>8. ASSUME NEW c \in Clients, ServerRecv(c) PROVE AttemptTypes'
  BY <1>8 DEF ServerRecv, Login, Found, ServerKeeps, clientVars, findVars, serverVars, linkVars
<1>9. ASSUME NEW c \in Clients, ServerLost(c) PROVE AttemptTypes'
  BY <1>9 DEF ServerLost, Forgotten, ServerKeeps, clientVars, findVars, serverVars, linkVars
<1>10. ASSUME NEW c \in Clients, HalfEnds(c) PROVE AttemptTypes'
  BY <1>10 DEF HalfEnds, ServerKeeps, clientVars, findVars, serverVars, linkVars
<1>11. ASSUME NEW c \in Clients, Break(c) PROVE AttemptTypes'
  BY <1>11 DEF Break, ServerKeeps, clientVars, findVars, serverVars, linkVars
<1>12. ASSUME NEW f \in Finders, ClientRecv(f) PROVE AttemptTypes'
  BY <1>12 DEF ClientRecv, ConnectEx, FindKeeps, clientVars, findVars, serverVars, linkVars
<1>13. ASSUME NEW f \in Finders, NEW t \in Clients, Introduced(f, t) PROVE AttemptTypes'
  BY <1>13 DEF Introduced, FindKeeps, clientVars, findVars, serverVars, linkVars
<1>14. ASSUME NEW f \in Finders, NEW t \in Clients, TargetAccepted(f, t) PROVE AttemptTypes'
  BY <1>14 DEF TargetAccepted, FindKeeps, clientVars, findVars, serverVars, linkVars
<1>15. ASSUME NEW f \in Finders, NEW t \in Clients, TargetFails(f, t) PROVE AttemptTypes'
  BY <1>15 DEF TargetFails, FindKeeps, clientVars, findVars, serverVars, linkVars
<1>16. ASSUME NEW f \in Finders, TargetLost(f) PROVE AttemptTypes'
  BY <1>16 DEF TargetKnown, TargetLost, ConnectEx, FindKeeps, clientVars, findVars, serverVars, linkVars
<1>17. CASE ServerStops
  BY <1>17 DEF ServerStops, ServerKeeps, clientVars, findVars, serverVars, linkVars
<1>18. CASE ServerStarts
  BY <1>18 DEF ServerStarts, ServerKeeps, clientVars, findVars, serverVars, linkVars
<1>19. CASE UNCHANGED vars
  BY <1>19 DEF vars, clientVars, findVars, serverVars, linkVars
<1> HIDE DEF AttemptTypes
<1> QED
  BY <1>1, <1>2, <1>3, <1>4, <1>5, <1>6, <1>7, <1>8, <1>9, <1>10,
     <1>11, <1>12, <1>13, <1>14, <1>15, <1>16, <1>17, <1>18, <1>19 DEF Next, Attempt

\* The target of a contact
LEMMA TargetKnownStep == TargetKnown /\ FinderTypes /\ [Next]_vars => TargetKnown'
<1> SUFFICES ASSUME TargetKnown, FinderTypes, [Next]_vars PROVE TargetKnown'
  OBVIOUS
<1> USE RendezvousAssumption, FindersAreClients DEF TargetKnown, FinderTypes
<1>1. ASSUME NEW c \in Clients, Start(c) PROVE TargetKnown'
  BY <1>1 DEF Start, clientVars, findVars, serverVars, linkVars
<1>2. ASSUME NEW c \in Clients, Accepted(c) PROVE TargetKnown'
  BY <1>2 DEF Accepted, Greeting, clientVars, findVars, serverVars, linkVars
<1>3. ASSUME NEW c \in Clients, ConnectFails(c) PROVE TargetKnown'
  BY <1>3 DEF ConnectFails, clientVars, findVars, serverVars, linkVars
<1>4. ASSUME NEW c \in Clients, ClientLost(c) PROVE TargetKnown'
  BY <1>4 DEF ClientLost, AfterLoss, clientVars, findVars, serverVars, linkVars
<1>5. ASSUME NEW c \in Clients, Reconnect(c) PROVE TargetKnown'
  BY <1>5 DEF Reconnect, clientVars, findVars, serverVars, linkVars
<1>6. ASSUME NEW c \in Clients, Stop(c) PROVE TargetKnown'
  BY <1>6 DEF Stop, clientVars, findVars, serverVars, linkVars
<1>7. ASSUME NEW c \in Clients, ServerIncoming(c) PROVE TargetKnown'
  BY <1>7 DEF ServerIncoming, ServerKeeps, clientVars, findVars, serverVars, linkVars
<1>8. ASSUME NEW c \in Clients, ServerRecv(c) PROVE TargetKnown'
  BY <1>8 DEF ServerRecv, Login, Found, ServerKeeps, clientVars, findVars, serverVars, linkVars
<1>9. ASSUME NEW c \in Clients, ServerLost(c) PROVE TargetKnown'
  BY <1>9 DEF ServerLost, Forgotten, ServerKeeps, clientVars, findVars, serverVars, linkVars
<1>10. ASSUME NEW c \in Clients, HalfEnds(c) PROVE TargetKnown'
  BY <1>10 DEF HalfEnds, ServerKeeps, clientVars, findVars, serverVars, linkVars
<1>11. ASSUME NEW c \in Clients, Break(c) PROVE TargetKnown'
  BY <1>11 DEF Break, ServerKeeps, clientVars, findVars, serverVars, linkVars
<1>12. ASSUME NEW f \in Finders, ClientRecv(f) PROVE TargetKnown'
  BY <1>12 DEF ClientRecv, ConnectEx, FindKeeps, clientVars, findVars, serverVars, linkVars
<1>13. ASSUME NEW f \in Finders, NEW t \in Clients, Introduced(f, t) PROVE TargetKnown'
  BY <1>13 DEF Introduced, FindKeeps, clientVars, findVars, serverVars, linkVars
<1>14. ASSUME NEW f \in Finders, NEW t \in Clients, TargetAccepted(f, t) PROVE TargetKnown'
  BY <1>14 DEF TargetAccepted, FindKeeps, clientVars, findVars, serverVars, linkVars
<1>15. ASSUME NEW f \in Finders, NEW t \in Clients, TargetFails(f, t) PROVE TargetKnown'
  BY <1>15 DEF TargetFails, FindKeeps, clientVars, findVars, serverVars, linkVars
<1>16. ASSUME NEW f \in Finders, TargetLost(f) PROVE TargetKnown'
  BY <1>16 DEF TargetLost, ConnectEx, FindKeeps, clientVars, findVars, serverVars, linkVars
<1>17. CASE ServerStops
  BY <1>17 DEF ServerStops, ServerKeeps, clientVars, findVars, serverVars, linkVars
<1>18. CASE ServerStarts
  BY <1>18 DEF ServerStarts, ServerKeeps, clientVars, findVars, serverVars, linkVars
<1>19. CASE UNCHANGED vars
  BY <1>19 DEF vars, clientVars, findVars, serverVars, linkVars
<1> HIDE DEF TargetKnown, FinderTypes
<1> QED
  BY <1>1, <1>2, <1>3, <1>4, <1>5, <1>6, <1>7, <1>8, <1>9, <1>10,
     <1>11, <1>12, <1>13, <1>14, <1>15, <1>16, <1>17, <1>18, <1>19 DEF Next, Attempt

\* The server
LEMMA ServerTypesStep == ServerTypes /\ [Next]_vars => ServerTypes'
<1> SUFFICES ASSUME ServerTypes, [Next]_vars PROVE ServerTypes'
  OBVIOUS
<1> USE RendezvousAssumption, FindersAreClients DEF ServerTypes, Ends
<1>1. ASSUME NEW c \in Clients, Start(c) PROVE ServerTypes'
  BY <1>1 DEF Start, clientVars, findVars, serverVars, linkVars
<1>2. ASSUME NEW c \in Clients, Accepted(c) PROVE ServerTypes'
  BY <1>2 DEF Accepted, Greeting, clientVars, findVars, serverVars, linkVars
<1>3. ASSUME NEW c \in Clients, ConnectFails(c) PROVE ServerTypes'
  BY <1>3 DEF ConnectFails, clientVars, findVars, serverVars, linkVars
<1>4. ASSUME NEW c \in Clients, ClientLost(c) PROVE ServerTypes'
  BY <1>4 DEF ClientLost, AfterLoss, clientVars, findVars, serverVars, linkVars
<1>5. ASSUME NEW c \in Clients, Reconnect(c) PROVE ServerTypes'
  BY <1>5 DEF Reconnect, clientVars, findVars, serverVars, linkVars
<1>6. ASSUME NEW c \in Clients, Stop(c) PROVE ServerTypes'
  BY <1>6 DEF Stop, clientVars, findVars, serverVars, linkVars
<1>7. ASSUME NEW c \in Clients, ServerIncoming(c) PROVE ServerTypes'
  BY <1>7 DEF ServerIncoming, ServerKeeps, clientVars, findVars, serverVars, linkVars
<1>8. ASSUME NEW c \in Clients, ServerRecv(c) PROVE ServerTypes'
  BY <1>8 DEF ServerRecv, Login, Found, ServerKeeps, clientVars, findVars, serverVars, linkVars
<1>9. ASSUME NEW c \in Clients, ServerLost(c) PROVE ServerTypes'
  BY <1>9 DEF ServerLost, Forgotten, ServerKeeps, clientVars, findVars, serverVars, linkVars
<1>10. ASSUME NEW c \in Clients, HalfEnds(c) PROVE ServerTypes'
  BY <1>10 DEF HalfEnds, ServerKeeps, clientVars, findVars, serverVars, linkVars
<1>11. ASSUME NEW c \in Clients, Break(c) PROVE ServerTypes'
  BY <1>11 DEF Break, ServerKeeps, clientVars, findVars, serverVars, linkVars
<1>12. ASSUME NEW f \in Finders, ClientRecv(f) PROVE ServerTypes'
  BY <1>12 DEF ClientRecv, ConnectEx, FindKeeps, clientVars, findVars, serverVars, linkVars
<1>13. ASSUME NEW f \in Finders, NEW t \in Clients, Introduced(f, t) PROVE ServerTypes'
  BY <1>13 DEF Introduced, FindKeeps, clientVars, findVars, serverVars, linkVars
<1>14. ASSUME NEW f \in Finders, NEW t \in Clients, TargetAccepted(f, t) PROVE ServerTypes'
  BY <1>14 DEF TargetAccepted, FindKeeps, clientVars, findVars, serverVars, linkVars
<1>15. ASSUME NEW f \in Finders, NEW t \in Clients, TargetFails(f, t) PROVE ServerTypes'
  BY <1>15 DEF TargetFails, FindKeeps, clientVars, findVars, serverVars, linkVars
<1>16. ASSUME NEW f \in Finders, TargetLost(f) PROVE ServerTypes'
  BY <1>16 DEF TargetLost, ConnectEx, FindKeeps, clientVars, findVars, serverVars, linkVars
<1>17. CASE ServerStops
  <2>1. troubles' \in Nat
    BY <1>17 DEF ServerStops
  <2>2. rak' = [c \in Clients |-> "none"] /\ allLogin' = [n \in Names |-> NULL]
    BY <1>17 DEF ServerStops
  <2>3. up' = FALSE /\ whole' = {} /\ allConnected' = {} /\ more' = {} /\ refused' = refused
    BY <1>17 DEF ServerStops
  <2> QED BY <2>1, <2>2, <2>3
<1>18. CASE ServerStarts
  BY <1>18 DEF ServerStarts, ServerKeeps, clientVars, findVars, serverVars, linkVars
<1>19. CASE UNCHANGED vars
  BY <1>19 DEF vars, clientVars, findVars, serverVars, linkVars
<1> HIDE DEF ServerTypes, Ends
<1> QED
  BY <1>1, <1>2, <1>3, <1>4, <1>5, <1>6, <1>7, <1>8, <1>9, <1>10,
     <1>11, <1>12, <1>13, <1>14, <1>15, <1>16, <1>17, <1>18, <1>19 DEF Next, Attempt

\* What clients send
LEMMA RequestTypesStep == RequestTypes /\ [Next]_vars => RequestTypes'
<1> SUFFICES ASSUME RequestTypes, [Next]_vars PROVE RequestTypes'
  OBVIOUS
<1> USE RendezvousAssumption, FindersAreClients, MessagesClosed DEF RequestTypes
<1>1. ASSUME NEW c \in Clients, Start(c) PROVE RequestTypes'
  BY <1>1 DEF Start, clientVars, findVars, serverVars, linkVars
<1>2. ASSUME NEW c \in Clients, Accepted(c) PROVE RequestTypes'
  BY <1>2 DEF Accepted, Greeting, clientVars, findVars, serverVars, linkVars
<1>3. ASSUME NEW c \in Clients, ConnectFails(c) PROVE RequestTypes'
  BY <1>3 DEF ConnectFails, clientVars, findVars, serverVars, linkVars
<1>4. ASSUME NEW c \in Clients, ClientLost(c) PROVE RequestTypes'
  BY <1>4 DEF ClientLost, AfterLoss, clientVars, findVars, serverVars, linkVars
<1>5. ASSUME NEW c \in Clients, Reconnect(c) PROVE RequestTypes'
  BY <1>5 DEF Reconnect, clientVars, findVars, serverVars, linkVars
<1>6. ASSUME NEW c \in Clients, Stop(c) PROVE RequestTypes'
  BY <1>6 DEF Stop, clientVars, findVars, serverVars, linkVars
<1>7. ASSUME NEW c \in Clients, ServerIncoming(c) PROVE RequestTypes'
  BY <1>7 DEF ServerIncoming, ServerKeeps, clientVars, findVars, serverVars, linkVars
<1>8. ASSUME NEW c \in Clients, ServerRecv(c) PROVE RequestTypes'
  BY <1>8 DEF ServerRecv, Login, Found, ServerKeeps, clientVars, findVars, serverVars, linkVars
<1>9. ASSUME NEW c \in Clients, ServerLost(c) PROVE RequestTypes'
  BY <1>9 DEF ServerLost, Forgotten, ServerKeeps, clientVars, findVars, serverVars, linkVars
<1>10. ASSUME NEW c \in Clients, HalfEnds(c) PROVE RequestTypes'
  BY <1>10 DEF HalfEnds, ServerKeeps, clientVars, findVars, serverVars, linkVars
<1>11. ASSUME NEW c \in Clients, Break(c) PROVE RequestTypes'
  BY <1>11 DEF Break, ServerKeeps, clientVars, findVars, serverVars, linkVars
<1>12. ASSUME NEW f \in Finders, ClientRecv(f) PROVE RequestTypes'
  BY <1>12 DEF ClientRecv, ConnectEx, FindKeeps, clientVars, findVars, serverVars, linkVars
<1>13. ASSUME NEW f \in Finders, NEW t \in Clients, Introduced(f, t) PROVE RequestTypes'
  BY <1>13 DEF Introduced, FindKeeps, clientVars, findVars, serverVars, linkVars
<1>14. ASSUME NEW f \in Finders, NEW t \in Clients, TargetAccepted(f, t) PROVE RequestTypes'
  BY <1>14 DEF TargetAccepted, FindKeeps, clientVars, findVars, serverVars, linkVars
<1>15. ASSUME NEW f \in Finders, NEW t \in Clients, TargetFails(f, t) PROVE RequestTypes'
  BY <1>15 DEF TargetFails, FindKeeps, clientVars, findVars, serverVars, linkVars
<1>16. ASSUME NEW f \in Finders, TargetLost(f) PROVE RequestTypes'
  BY <1>16 DEF TargetLost, ConnectEx, FindKeeps, clientVars, findVars, serverVars, linkVars
<1>17. CASE ServerStops
  BY <1>17 DEF ServerStops, ServerKeeps, clientVars, findVars, serverVars, linkVars
<1>18. CASE ServerStarts
  BY <1>18 DEF ServerStarts, ServerKeeps, clientVars, findVars, serverVars, linkVars
<1>19. CASE UNCHANGED vars
  BY <1>19 DEF vars, clientVars, findVars, serverVars, linkVars
<1> HIDE DEF RequestTypes
<1> QED
  BY <1>1, <1>2, <1>3, <1>4, <1>5, <1>6, <1>7, <1>8, <1>9, <1>10,
     <1>11, <1>12, <1>13, <1>14, <1>15, <1>16, <1>17, <1>18, <1>19 DEF Next, Attempt

\* What finders are answered
LEMMA AnswerTypesStep == AnswerTypes /\ ServerTypes /\ [Next]_vars => AnswerTypes'
<1> SUFFICES ASSUME AnswerTypes, ServerTypes, [Next]_vars PROVE AnswerTypes'
  OBVIOUS
<1> USE RendezvousAssumption, FindersAreClients DEF AnswerTypes, ServerTypes
<1>1. ASSUME NEW c \in Clients, Start(c) PROVE AnswerTypes'
  BY <1>1 DEF Start, clientVars, findVars, serverVars, linkVars
<1>2. ASSUME NEW c \in Clients, Accepted(c) PROVE AnswerTypes'
  BY <1>2 DEF Accepted, Greeting, clientVars, findVars, serverVars, linkVars
<1>3. ASSUME NEW c \in Clients, ConnectFails(c) PROVE AnswerTypes'
  BY <1>3 DEF ConnectFails, clientVars, findVars, serverVars, linkVars
<1>4. ASSUME NEW c \in Clients, ClientLost(c) PROVE AnswerTypes'
  BY <1>4 DEF ClientLost, AfterLoss, clientVars, findVars, serverVars, linkVars
<1>5. ASSUME NEW c \in Clients, Reconnect(c) PROVE AnswerTypes'
  BY <1>5 DEF Reconnect, clientVars, findVars, serverVars, linkVars
<1>6. ASSUME NEW c \in Clients, Stop(c) PROVE AnswerTypes'
  BY <1>6 DEF Stop, clientVars, findVars, serverVars, linkVars
<1>7. ASSUME NEW c \in Clients, ServerIncoming(c) PROVE AnswerTypes'
  BY <1>7 DEF ServerIncoming, ServerKeeps, clientVars, findVars, serverVars, linkVars
<1>8. ASSUME NEW c \in Clients, ServerRecv(c) PROVE AnswerTypes'
  BY <1>8 DEF ServerRecv, Login, Found, ServerKeeps, clientVars, findVars, serverVars, linkVars
<1>9. ASSUME NEW c \in Clients, ServerLost(c) PROVE AnswerTypes'
  BY <1>9 DEF ServerLost, Forgotten, ServerKeeps, clientVars, findVars, serverVars, linkVars
<1>10. ASSUME NEW c \in Clients, HalfEnds(c) PROVE AnswerTypes'
  BY <1>10 DEF HalfEnds, ServerKeeps, clientVars, findVars, serverVars, linkVars
<1>11. ASSUME NEW c \in Clients, Break(c) PROVE AnswerTypes'
  BY <1>11 DEF Break, ServerKeeps, clientVars, findVars, serverVars, linkVars
<1>12. ASSUME NEW f \in Finders, ClientRecv(f) PROVE AnswerTypes'
  BY <1>12 DEF ClientRecv, ConnectEx, FindKeeps, clientVars, findVars, serverVars, linkVars
<1>13. ASSUME NEW f \in Finders, NEW t \in Clients, Introduced(f, t) PROVE AnswerTypes'
  BY <1>13 DEF Introduced, FindKeeps, clientVars, findVars, serverVars, linkVars
<1>14. ASSUME NEW f \in Finders, NEW t \in Clients, TargetAccepted(f, t) PROVE AnswerTypes'
  BY <1>14 DEF TargetAccepted, FindKeeps, clientVars, findVars, serverVars, linkVars
<1>15. ASSUME NEW f \in Finders, NEW t \in Clients, TargetFails(f, t) PROVE AnswerTypes'
  BY <1>15 DEF TargetFails, FindKeeps, clientVars, findVars, serverVars, linkVars
<1>16. ASSUME NEW f \in Finders, TargetLost(f) PROVE AnswerTypes'
  BY <1>16 DEF TargetLost, ConnectEx, FindKeeps, clientVars, findVars, serverVars, linkVars
<1>17. CASE ServerStops
  BY <1>17 DEF ServerStops, ServerKeeps, clientVars, findVars, serverVars, linkVars
<1>18. CASE ServerStarts
  BY <1>18 DEF ServerStarts, ServerKeeps, clientVars, findVars, serverVars, linkVars
<1>19. CASE UNCHANGED vars
  BY <1>19 DEF vars, clientVars, findVars, serverVars, linkVars
<1> HIDE DEF AnswerTypes, ServerTypes
<1> QED
  BY <1>1, <1>2, <1>3, <1>4, <1>5, <1>6, <1>7, <1>8, <1>9, <1>10,
     <1>11, <1>12, <1>13, <1>14, <1>15, <1>16, <1>17, <1>18, <1>19 DEF Next, Attempt

LEMMA TypeStep == TypeOK /\ TargetKnown /\ [Next]_vars => TypeOK' /\ TargetKnown'
<1> SUFFICES ASSUME TypeOK, TargetKnown, [Next]_vars PROVE TypeOK' /\ TargetKnown'
  OBVIOUS
<1>1. /\ ClientTypes /\ FinderTypes /\ AttemptTypes
      /\ ServerTypes /\ RequestTypes /\ AnswerTypes
  BY TypeParts
<1>2. /\ ClientTypes' /\ FinderTypes' /\ AttemptTypes'
      /\ ServerTypes' /\ RequestTypes' /\ AnswerTypes' /\ TargetKnown'
  BY <1>1, ClientTypesStep, FinderTypesStep, AttemptTypesStep, ServerTypesStep,
     RequestTypesStep, AnswerTypesStep, TargetKnownStep
<1> QED BY <1>2, TypeParts, PTL

\* A client is in one phase of its connection.
LEMMA OneOfThreeStep == TypeOK /\ OneOfThree /\ [Next]_vars => OneOfThree'
<1> SUFFICES ASSUME TypeOK, OneOfThree, [Next]_vars PROVE OneOfThree'
  OBVIOUS
<1> USE RendezvousAssumption DEF TypeOK, OneOfThree, Clients
<1>1. ASSUME NEW c \in Clients, Start(c) PROVE OneOfThree'
  BY <1>1 DEF Start, clientVars, findVars, serverVars, linkVars
<1>2. ASSUME NEW c \in Clients, Accepted(c) PROVE OneOfThree'
  BY <1>2 DEF Accepted, Greeting, clientVars, findVars, serverVars, linkVars
<1>3. ASSUME NEW c \in Clients, ConnectFails(c) PROVE OneOfThree'
  BY <1>3 DEF ConnectFails, clientVars, findVars, serverVars, linkVars
<1>4. ASSUME NEW c \in Clients, ClientLost(c) PROVE OneOfThree'
  BY <1>4 DEF ClientLost, AfterLoss, clientVars, findVars, serverVars, linkVars
<1>5. ASSUME NEW c \in Clients, Reconnect(c) PROVE OneOfThree'
  BY <1>5 DEF Reconnect, clientVars, findVars, serverVars, linkVars
<1>6. ASSUME NEW c \in Clients, Stop(c) PROVE OneOfThree'
  BY <1>6 DEF Stop, clientVars, findVars, serverVars, linkVars
<1>7. ASSUME NEW c \in Clients, ServerIncoming(c) PROVE OneOfThree'
  BY <1>7 DEF ServerIncoming, ServerKeeps, clientVars, findVars, serverVars, linkVars
<1>8. ASSUME NEW c \in Clients, ServerRecv(c) PROVE OneOfThree'
  BY <1>8 DEF ServerRecv, Login, Found, ServerKeeps, clientVars, findVars, serverVars, linkVars
<1>9. ASSUME NEW c \in Clients, ServerLost(c) PROVE OneOfThree'
  BY <1>9 DEF ServerLost, Forgotten, ServerKeeps, clientVars, findVars, serverVars, linkVars
<1>10. ASSUME NEW c \in Clients, HalfEnds(c) PROVE OneOfThree'
  BY <1>10 DEF HalfEnds, ServerKeeps, clientVars, findVars, serverVars, linkVars
<1>11. ASSUME NEW c \in Clients, Break(c) PROVE OneOfThree'
  BY <1>11 DEF Break, ServerKeeps, clientVars, findVars, serverVars, linkVars
<1>12. ASSUME NEW f \in Finders, ClientRecv(f) PROVE OneOfThree'
  BY <1>12 DEF ClientRecv, ConnectEx, FindKeeps, clientVars, findVars, serverVars, linkVars
<1>13. ASSUME NEW f \in Finders, NEW t \in Clients, Introduced(f, t) PROVE OneOfThree'
  BY <1>13 DEF Introduced, FindKeeps, clientVars, findVars, serverVars, linkVars
<1>14. ASSUME NEW f \in Finders, NEW t \in Clients, TargetAccepted(f, t) PROVE OneOfThree'
  BY <1>14 DEF TargetAccepted, FindKeeps, clientVars, findVars, serverVars, linkVars
<1>15. ASSUME NEW f \in Finders, NEW t \in Clients, TargetFails(f, t) PROVE OneOfThree'
  BY <1>15 DEF TargetFails, FindKeeps, clientVars, findVars, serverVars, linkVars
<1>16. ASSUME NEW f \in Finders, TargetLost(f) PROVE OneOfThree'
  BY <1>16 DEF TargetLost, ConnectEx, FindKeeps, clientVars, findVars, serverVars, linkVars
<1>17. CASE ServerStops
  BY <1>17 DEF ServerStops, ServerKeeps, clientVars, findVars, serverVars, linkVars
<1>18. CASE ServerStarts
  BY <1>18 DEF ServerStarts, ServerKeeps, clientVars, findVars, serverVars, linkVars
<1>19. CASE UNCHANGED vars
  BY <1>19 DEF vars, clientVars, findVars, serverVars, linkVars
<1> QED
  BY <1>1, <1>2, <1>3, <1>4, <1>5, <1>6, <1>7, <1>8, <1>9, <1>10,
     <1>11, <1>12, <1>13, <1>14, <1>15, <1>16, <1>17, <1>18, <1>19 DEF Next, Attempt

\* The server's tables: a login is refused while the name is held.
LEMMA TablesStep == TypeOK /\ TablesAgree /\ [Next]_vars => TablesAgree'
<1> SUFFICES ASSUME TypeOK, TablesAgree, [Next]_vars PROVE TablesAgree'
  OBVIOUS
<1> USE RendezvousAssumption DEF TypeOK, TablesAgree, Ends, Clients
<1>1. ASSUME NEW c \in Clients, Start(c) PROVE TablesAgree'
  BY <1>1 DEF Start, clientVars, findVars, serverVars, linkVars
<1>2. ASSUME NEW c \in Clients, Accepted(c) PROVE TablesAgree'
  BY <1>2 DEF Accepted, Greeting, clientVars, findVars, serverVars, linkVars
<1>3. ASSUME NEW c \in Clients, ConnectFails(c) PROVE TablesAgree'
  BY <1>3 DEF ConnectFails, clientVars, findVars, serverVars, linkVars
<1>4. ASSUME NEW c \in Clients, ClientLost(c) PROVE TablesAgree'
  BY <1>4 DEF ClientLost, AfterLoss, clientVars, findVars, serverVars, linkVars
<1>5. ASSUME NEW c \in Clients, Reconnect(c) PROVE TablesAgree'
  BY <1>5 DEF Reconnect, clientVars, findVars, serverVars, linkVars
<1>6. ASSUME NEW c \in Clients, Stop(c) PROVE TablesAgree'
  BY <1>6 DEF Stop, clientVars, findVars, serverVars, linkVars
<1>7. ASSUME NEW c \in Clients, ServerIncoming(c) PROVE TablesAgree'
  BY <1>7 DEF ServerIncoming, ServerKeeps, clientVars, findVars, serverVars, linkVars
<1>8. ASSUME NEW c \in Clients, ServerRecv(c) PROVE TablesAgree'
  BY <1>8 DEF ServerRecv, Login, Found, ServerKeeps, clientVars, findVars, serverVars, linkVars
<1>9. ASSUME NEW c \in Clients, ServerLost(c) PROVE TablesAgree'
  BY <1>9 DEF ServerLost, Forgotten, ServerKeeps, clientVars, findVars, serverVars, linkVars
<1>10. ASSUME NEW c \in Clients, HalfEnds(c) PROVE TablesAgree'
  BY <1>10 DEF HalfEnds, ServerKeeps, clientVars, findVars, serverVars, linkVars
<1>11. ASSUME NEW c \in Clients, Break(c) PROVE TablesAgree'
  BY <1>11 DEF Break, ServerKeeps, clientVars, findVars, serverVars, linkVars
<1>12. ASSUME NEW f \in Finders, ClientRecv(f) PROVE TablesAgree'
  BY <1>12 DEF ClientRecv, ConnectEx, FindKeeps, clientVars, findVars, serverVars, linkVars
<1>13. ASSUME NEW f \in Finders, NEW t \in Clients, Introduced(f, t) PROVE TablesAgree'
  BY <1>13 DEF Introduced, FindKeeps, clientVars, findVars, serverVars, linkVars
<1>14. ASSUME NEW f \in Finders, NEW t \in Clients, TargetAccepted(f, t) PROVE TablesAgree'
  BY <1>14 DEF TargetAccepted, FindKeeps, clientVars, findVars, serverVars, linkVars
<1>15. ASSUME NEW f \in Finders, NEW t \in Clients, TargetFails(f, t) PROVE TablesAgree'
  BY <1>15 DEF TargetFails, FindKeeps, clientVars, findVars, serverVars, linkVars
<1>16. ASSUME NEW f \in Finders, TargetLost(f) PROVE TablesAgree'
  BY <1>16 DEF TargetLost, ConnectEx, FindKeeps, clientVars, findVars, serverVars, linkVars
<1>17. CASE ServerStops
  BY <1>17 DEF ServerStops, ServerKeeps, clientVars, findVars, serverVars, linkVars
<1>18. CASE ServerStarts
  BY <1>18 DEF ServerStarts, ServerKeeps, clientVars, findVars, serverVars, linkVars
<1>19. CASE UNCHANGED vars
  BY <1>19 DEF vars, clientVars, findVars, serverVars, linkVars
<1> QED
  BY <1>1, <1>2, <1>3, <1>4, <1>5, <1>6, <1>7, <1>8, <1>9, <1>10,
     <1>11, <1>12, <1>13, <1>14, <1>15, <1>16, <1>17, <1>18, <1>19 DEF Next, Attempt

\* Links
LEMMA LinksStep == TypeOK /\ OneOfThree /\ LinksFit /\ [Next]_vars => LinksFit'
<1> SUFFICES ASSUME TypeOK, OneOfThree, LinksFit, [Next]_vars PROVE LinksFit'
  OBVIOUS
<1> USE RendezvousAssumption DEF TypeOK, OneOfThree, LinksFit, Ends, Clients
<1>1. ASSUME NEW c \in Clients, Start(c) PROVE LinksFit'
  BY <1>1 DEF Start, clientVars, findVars, serverVars, linkVars
<1>2. ASSUME NEW c \in Clients, Accepted(c) PROVE LinksFit'
  BY <1>2 DEF Accepted, Greeting, clientVars, findVars, serverVars, linkVars
<1>3. ASSUME NEW c \in Clients, ConnectFails(c) PROVE LinksFit'
  BY <1>3 DEF ConnectFails, clientVars, findVars, serverVars, linkVars
<1>4. ASSUME NEW c \in Clients, ClientLost(c) PROVE LinksFit'
  BY <1>4 DEF ClientLost, AfterLoss, clientVars, findVars, serverVars, linkVars
<1>5. ASSUME NEW c \in Clients, Reconnect(c) PROVE LinksFit'
  BY <1>5 DEF Reconnect, clientVars, findVars, serverVars, linkVars
<1>6. ASSUME NEW c \in Clients, Stop(c) PROVE LinksFit'
  BY <1>6 DEF Stop, clientVars, findVars, serverVars, linkVars
<1>7. ASSUME NEW c \in Clients, ServerIncoming(c) PROVE LinksFit'
  BY <1>7 DEF ServerIncoming, ServerKeeps, clientVars, findVars, serverVars, linkVars
<1>8. ASSUME NEW c \in Clients, ServerRecv(c) PROVE LinksFit'
  BY <1>8 DEF ServerRecv, Login, Found, ServerKeeps, clientVars, findVars, serverVars, linkVars
<1>9. ASSUME NEW c \in Clients, ServerLost(c) PROVE LinksFit'
  BY <1>9 DEF ServerLost, Forgotten, ServerKeeps, clientVars, findVars, serverVars, linkVars
<1>10. ASSUME NEW c \in Clients, HalfEnds(c) PROVE LinksFit'
  BY <1>10 DEF HalfEnds, ServerKeeps, clientVars, findVars, serverVars, linkVars
<1>11. ASSUME NEW c \in Clients, Break(c) PROVE LinksFit'
  BY <1>11 DEF Break, ServerKeeps, clientVars, findVars, serverVars, linkVars
<1>12. ASSUME NEW f \in Finders, ClientRecv(f) PROVE LinksFit'
  BY <1>12 DEF ClientRecv, ConnectEx, FindKeeps, clientVars, findVars, serverVars, linkVars
<1>13. ASSUME NEW f \in Finders, NEW t \in Clients, Introduced(f, t) PROVE LinksFit'
  BY <1>13 DEF Introduced, FindKeeps, clientVars, findVars, serverVars, linkVars
<1>14. ASSUME NEW f \in Finders, NEW t \in Clients, TargetAccepted(f, t) PROVE LinksFit'
  BY <1>14 DEF TargetAccepted, FindKeeps, clientVars, findVars, serverVars, linkVars
<1>15. ASSUME NEW f \in Finders, NEW t \in Clients, TargetFails(f, t) PROVE LinksFit'
  BY <1>15 DEF TargetFails, FindKeeps, clientVars, findVars, serverVars, linkVars
<1>16. ASSUME NEW f \in Finders, TargetLost(f) PROVE LinksFit'
  BY <1>16 DEF TargetLost, ConnectEx, FindKeeps, clientVars, findVars, serverVars, linkVars
<1>17. CASE ServerStops
  BY <1>17 DEF ServerStops, ServerKeeps, clientVars, findVars, serverVars, linkVars
<1>18. CASE ServerStarts
  BY <1>18 DEF ServerStarts, ServerKeeps, clientVars, findVars, serverVars, linkVars
<1>19. CASE UNCHANGED vars
  BY <1>19 DEF vars, clientVars, findVars, serverVars, linkVars
<1> QED
  BY <1>1, <1>2, <1>3, <1>4, <1>5, <1>6, <1>7, <1>8, <1>9, <1>10,
     <1>11, <1>12, <1>13, <1>14, <1>15, <1>16, <1>17, <1>18, <1>19 DEF Next, Attempt

\* A finder's request
LEMMA FindingStep == TypeOK /\ OneOfThree /\ TablesAgree /\ LinksFit /\ Finding /\ [Next]_vars => Finding'
<1> SUFFICES ASSUME TypeOK, OneOfThree, TablesAgree, LinksFit, Finding, [Next]_vars PROVE Finding'
  OBVIOUS
<1> USE RendezvousAssumption DEF TypeOK, OneOfThree, TablesAgree, LinksFit, Finding, FindingGoesOn, FinderState, Ends, Clients
<1>1. ASSUME NEW c \in Clients, Start(c) PROVE Finding'
  BY <1>1 DEF Start, clientVars, findVars, serverVars, linkVars
<1>2. ASSUME NEW c \in Clients, Accepted(c) PROVE Finding'
  BY <1>2 DEF Accepted, Greeting, clientVars, findVars, serverVars, linkVars
<1>3. ASSUME NEW c \in Clients, ConnectFails(c) PROVE Finding'
  BY <1>3 DEF ConnectFails, clientVars, findVars, serverVars, linkVars
<1>4. ASSUME NEW c \in Clients, ClientLost(c) PROVE Finding'
  BY <1>4 DEF ClientLost, AfterLoss, clientVars, findVars, serverVars, linkVars
<1>5. ASSUME NEW c \in Clients, Reconnect(c) PROVE Finding'
  BY <1>5 DEF Reconnect, clientVars, findVars, serverVars, linkVars
<1>6. ASSUME NEW c \in Clients, Stop(c) PROVE Finding'
  BY <1>6 DEF Stop, clientVars, findVars, serverVars, linkVars
<1>7. ASSUME NEW c \in Clients, ServerIncoming(c) PROVE Finding'
  BY <1>7 DEF ServerIncoming, ServerKeeps, clientVars, findVars, serverVars, linkVars
<1>8. ASSUME NEW c \in Clients, ServerRecv(c) PROVE Finding'
  <2> HIDE DEF FindingGoesOn
  <2> SUFFICES ASSUME ~Overtake, NEW f \in Finders, FindingGoesOn(f) PROVE FindingGoesOn(f)'
    OBVIOUS
  <2> USE DEF FindingGoesOn
  <2>1. /\ UNCHANGED <<clientVars, findVars, rak, whole>>
        /\ toServer[c] # <<>> /\ rak[c] = "up" /\ toServer' = [toServer EXCEPT ![c] = Tail(@)]
        /\ toClient' = [g \in Finders |->
             IF g = c /\ c \in allConnected /\ Head(toServer[c]) = "Find" /\ c \in whole
             THEN Found(g) ELSE toClient[g]]
    BY <1>8 DEF ServerRecv, ServerKeeps, linkVars
  <2>2. CASE f # c
    <3>1. toServer'[f] = toServer[f] /\ toClient'[f] = toClient[f]
      BY <2>1, <2>2
    <3> QED BY <2>1, <3>1 DEF clientVars, findVars, serverVars, linkVars
  <2>3. CASE f = c
    <3>a. Wanted[f] \in Names
      OBVIOUS
    <3>b. allLogin[Wanted[f]] \in Clients \cup {NULL}
      BY <3>a
    <3>1. Found(f) # "none"
      BY <3>b DEF Found
    <3>2. c \in allConnected /\ (toClient[f] # "none" => toClient'[f] # "none")
      BY <2>1, <2>3, <3>1
    <3>3. Head(toServer[c]) = "Find" /\ c \in whole => toClient'[f] # "none"
      BY <2>1, <2>3, <3>1, <3>2
    <3> QED BY <2>1, <2>3, <3>2, <3>3 DEF clientVars, findVars, serverVars, linkVars
  <2> QED BY <2>2, <2>3
<1>9. ASSUME NEW c \in Clients, ServerLost(c) PROVE Finding'
  BY <1>9 DEF ServerLost, Forgotten, ServerKeeps, clientVars, findVars, serverVars, linkVars
<1>10. ASSUME NEW c \in Clients, HalfEnds(c) PROVE Finding'
  BY <1>10 DEF HalfEnds, ServerKeeps, clientVars, findVars, serverVars, linkVars
<1>11. ASSUME NEW c \in Clients, Break(c) PROVE Finding'
  BY <1>11 DEF Break, ServerKeeps, clientVars, findVars, serverVars, linkVars
<1>12. ASSUME NEW f \in Finders, ClientRecv(f) PROVE Finding'
  <2> HIDE DEF FindingGoesOn
  <2> SUFFICES ASSUME ~Overtake, NEW g \in Finders, FindingGoesOn(g) PROVE FindingGoesOn(g)'
    OBVIOUS
  <2> USE DEF FindingGoesOn
  <2>1. /\ UNCHANGED <<clientVars, serverVars, up, rak, whole, toServer, targetid, contact, connecting>>
        /\ f \in jinzeyucn
    BY <1>12 DEF ClientRecv, FindKeeps
  <2>2. CASE g # f
    <3>1. /\ state'[g] = state[g] /\ conntarget'[g] = conntarget[g] /\ toClient'[g] = toClient[g]
          /\ asked \subseteq asked' /\ quitting \subseteq quitting'
      BY <1>12, <2>2 DEF ClientRecv, ConnectEx
    <3> QED BY <2>1, <3>1 DEF clientVars, findVars, serverVars, linkVars
  <2>3. CASE g = f /\ state[f] # "TargetFinding"
    <3>1. UNCHANGED <<state, conntarget, asked, quitting>>
      BY <1>12, <2>3 DEF ClientRecv
    <3> QED BY <2>1, <2>3, <3>1 DEF clientVars, findVars, serverVars, linkVars
  <2>4. CASE g = f /\ state[f] = "TargetFinding" /\ toClient[f] = "missing"
    <3>1. state'[f] = "XlorsAlreadyConn" /\ f \in quitting'
      BY <1>12, <2>4 DEF ClientRecv
    <3> QED BY <2>1, <2>4, <3>1 DEF clientVars, findVars, serverVars, linkVars
  <2>5. CASE g = f /\ state[f] = "TargetFinding" /\ toClient[f] \in Clients
    <3>1. state'[f] = "TargetConnecting" /\ ConnectEx(f, toClient[f])
      BY <1>12, <2>5 DEF ClientRecv
    <3>2. \/ conntarget'[f] = toClient[f] /\ <<f, toClient[f]>> \in asked' \cup connecting'
          \/ f \notin whole'
      BY <2>1, <2>5, <3>1 DEF ConnectEx, clientVars, findVars, serverVars, linkVars
    <3> QED BY <2>1, <2>5, <3>1, <3>2 DEF clientVars, findVars, serverVars, linkVars
  <2>6. toClient[f] # "none"
    BY <1>12 DEF ClientRecv
  <2> QED BY <2>2, <2>3, <2>4, <2>5, <2>6
<1>13. ASSUME NEW f \in Finders, NEW t \in Clients, Introduced(f, t) PROVE Finding'
  BY <1>13 DEF Introduced, FindKeeps, clientVars, findVars, serverVars, linkVars
<1>14. ASSUME NEW f \in Finders, NEW t \in Clients, TargetAccepted(f, t) PROVE Finding'
  BY <1>14 DEF TargetAccepted, FindKeeps, clientVars, findVars, serverVars, linkVars
<1>15. ASSUME NEW f \in Finders, NEW t \in Clients, TargetFails(f, t) PROVE Finding'
  BY <1>15 DEF TargetFails, FindKeeps, clientVars, findVars, serverVars, linkVars
<1>16. ASSUME NEW f \in Finders, TargetLost(f) PROVE Finding'
  BY <1>16 DEF TargetLost, ConnectEx, FindKeeps, clientVars, findVars, serverVars, linkVars
<1>17. CASE ServerStops
  BY <1>17 DEF ServerStops, ServerKeeps, clientVars, findVars, serverVars, linkVars
<1>18. CASE ServerStarts
  BY <1>18 DEF ServerStarts, ServerKeeps, clientVars, findVars, serverVars, linkVars
<1>19. CASE UNCHANGED vars
  BY <1>19 DEF vars, clientVars, findVars, serverVars, linkVars
<1> HIDE DEF Finding, FindingGoesOn, TypeOK, OneOfThree, TablesAgree, LinksFit
<1> QED
  BY <1>1, <1>2, <1>3, <1>4, <1>5, <1>6, <1>7, <1>8, <1>9, <1>10,
     <1>11, <1>12, <1>13, <1>14, <1>15, <1>16, <1>17, <1>18, <1>19 DEF Next, Attempt

\* Tables, links and clients agree, and what a finder waits for is on its way.
THEOREM RendezvousInvariant == Spec => []RendezvousInv
<1> DEFINE IInv == RendezvousInv /\ TargetKnown
<1>1. IInv /\ [Next]_vars => IInv'
  BY TypeStep, OneOfThreeStep, TablesStep, LinksStep, FindingStep DEF RendezvousInv, Finding
<1>2. Init => IInv
  BY InitHolds
<1> HIDE DEF IInv
<1>3. IInv => RendezvousInv
  BY DEF IInv
<1> QED BY <1>1, <1>2, <1>3, PTL DEF Spec

\* A name is taken from its client only when the server forgets the client.
NameKept ==
  \A n \in Names, c \in Clients : allLogin[n] = c /\ allLogin'[n] # c => c \notin allConnected'

\* A later login with the same name takes nothing from the earlier one.
THEOREM NamesKept == Spec => [][NameKept]_vars
<1>1. RendezvousInv /\ [Next]_vars => [NameKept]_vars
  <2> SUFFICES ASSUME RendezvousInv, [Next]_vars, NEW n \in Names, NEW c \in Clients,
                      allLogin[n] = c, allLogin'[n] # c
               PROVE c \notin allConnected'
    BY DEF NameKept
  <2>t. allLogin \in [Names -> Clients \cup {NULL}] /\ TablesAgree
    BY DEF RendezvousInv, TypeOK
  <2>1. ASSUME NEW d \in Clients, ServerRecv(d) PROVE FALSE
    BY <2>1, <2>t, RendezvousAssumption DEF ServerRecv, Login
  <2>2. ASSUME NEW d \in Clients, ServerLost(d) PROVE c \notin allConnected'
    <3>1. n = Name[d] \/ allLogin'[n] = allLogin[n]
      BY <2>2, <2>t DEF ServerLost, Forgotten
    <3>2. allConnected' = allConnected \ {d}
      BY <2>2 DEF ServerLost
    <3>3. d \in more /\ n = Name[d]
      BY <2>2, <2>t, <3>1 DEF ServerLost, Forgotten
    <3>4. c = d
      BY <2>t, <3>3 DEF TablesAgree
    <3> QED BY <3>2, <3>4
  <2>3. CASE ServerStops
    BY <2>3 DEF ServerStops
  <2>4. CASE UNCHANGED allLogin
    BY <2>4
  <2> QED
    BY <2>1, <2>2, <2>3, <2>4 DEF Next, Attempt, Start, Accepted, ConnectFails, ClientLost,
       Reconnect, Stop, ServerIncoming, HalfEnds, Break, ServerStarts, ClientRecv, TargetLost,
       Introduced, TargetAccepted, TargetFails, FindKeeps, serverVars, vars
<1> QED BY <1>1, RendezvousInvariant, PTL DEF Spec
=============================================================================
