------------------------------ MODULE Rendezvous ------------------------------
(***************************************************************************)
(* How the two ends of the tunnel meet: the login server (xlors/xlors.cpp) *)
(* and its clients, the ends that wait to be found (outeradmitbynetengine) *)
(* and the ends that look for one of them (outerfinderbynetengine).        *)
(*                                                                         *)
(* A client here is one run of a program: XNetEngine takes a new NetID     *)
(* every time, so a restarted program is another client with the same      *)
(* identity.  The engine below is what module NetConnect describes, cut    *)
(* down to the connection of each client with the server and the finders'  *)
(* connections with their targets.                                         *)
(***************************************************************************)
EXTENDS Integers, Sequences, TLC

CONSTANTS
  Admits, Finders, \* runs of xlorb and of xlord
  Names,           \* identities
  Name,            \* the identity that a client logs in with
  Wanted,          \* the identity that a finder looks for
  Overtake,        \* whether data may reach the server before the notice of its connection
  MaxTroubles,     \* bound: links that break and stops of the server
  NULL

Clients == Admits \cup Finders

ASSUME RendezvousAssumption ==
  /\ Admits \cap Finders = {} /\ Clients \cap {NULL, "none", "missing"} = {}
  /\ Name \in [Clients -> Names] /\ Wanted \in [Finders -> Names]
  /\ \A f, g \in Finders : Wanted[f] # Name[g]
  /\ Overtake \in BOOLEAN /\ MaxTroubles \in Nat

VARIABLES
  run,        \* "new", "running" or "ended"
  connjzycn,  \* clients that are connecting to the server (connjzycn_ is not 0)
  jinzeyucn,  \* clients connected to it as far as they know (jinzeyucn_ is valid)
  reconntid,  \* clients with the timer of the next attempt running
  state,      \* state_ of a finder
  conntarget, \* the target that conntarget_ stands for
  targetid,   \* targetid_
  contact,    \* finders connected with their target
  asked,      \* finder and target: an introduction that the server is asked for
  connecting, \* finder and target: a connect that is under way after it
  quitting,   \* finders that have called notifyQuit
  up,         \* the server runs
  rak,        \* its RakPeer's end of each client's connection
  allConnected, more, allLogin, \* its tables
  whole,      \* clients whose connection works
  toServer,   \* what a client has sent
  toClient,   \* the answer on its way to a finder
  refused,    \* history: clients whose login was refused on this connection
  troubles    \* history: how often the network or the server failed

clientVars == <<run, connjzycn, jinzeyucn, reconntid>>
findVars == <<state, conntarget, targetid, contact, asked, connecting, quitting>>
serverVars == <<allConnected, more, allLogin, refused>>
linkVars == <<up, rak, whole, toServer, toClient>>
vars == <<clientVars, findVars, serverVars, linkVars, troubles>>

FinderState ==
  {"WaitXlorsConn", "XlorsAlreadyConn", "TargetFinding", "TargetConnecting", "TargetOnWork"}

\* "half": accepted, but the server's program has not been told.
Ends == {"none", "half", "up"}

TypeOK ==
  /\ run \in [Clients -> {"new", "running", "ended"}]
  /\ connjzycn \subseteq Clients /\ jinzeyucn \subseteq Clients /\ reconntid \subseteq Clients
  /\ state \in [Finders -> FinderState]
  /\ conntarget \in [Finders -> Clients \cup {NULL}] /\ targetid \in [Finders -> Clients \cup {NULL}]
  /\ contact \subseteq Finders /\ quitting \subseteq Finders
  /\ asked \subseteq Finders \X Clients /\ connecting \subseteq Finders \X Clients
  /\ up \in BOOLEAN /\ rak \in [Clients -> Ends] /\ whole \subseteq Clients
  /\ allConnected \subseteq Clients /\ more \subseteq Clients
  /\ allLogin \in [Names -> Clients \cup {NULL}]
  /\ toServer \in [Clients -> Seq({"Login", "Find"})]
  /\ toClient \in [Finders -> Clients \cup {"none", "missing"}]
  /\ refused \subseteq Clients /\ troubles \in Nat

Init ==
  /\ run = [c \in Clients |-> "new"]
  /\ connjzycn = {} /\ jinzeyucn = {} /\ reconntid = {}
  /\ state = [f \in Finders |-> "WaitXlorsConn"]
  /\ conntarget = [f \in Finders |-> NULL] /\ targetid = [f \in Finders |-> NULL]
  /\ contact = {} /\ asked = {} /\ connecting = {} /\ quitting = {}
  /\ up = TRUE /\ rak = [c \in Clients |-> "none"] /\ whole = {}
  /\ allConnected = {} /\ more = {} /\ allLogin = [n \in Names |-> NULL]
  /\ toServer = [c \in Clients |-> <<>>] /\ toClient = [f \in Finders |-> "none"]
  /\ refused = {} /\ troubles = 0

-----------------------------------------------------------------------------
\* The clients' connection with the server

\* Start: xlord calls Find at once, which waits for the connection.
Start(c) ==
  /\ run[c] = "new"
  /\ run' = [run EXCEPT ![c] = "running"]
  /\ connjzycn' = connjzycn \cup {c}
  /\ UNCHANGED <<jinzeyucn, reconntid, findVars, serverVars, linkVars, troubles>>

\* TYPE_CONNECTION_ACCEPT of the server, with OnXlorsConn: a finder that waits
\* for it asks for its target, then both log in.  The server's RakPeer accepts
\* no second connection with a client.
Greeting_NoLogin(c) ==
  IF c \in Finders /\ state[c] = "WaitXlorsConn" THEN <<"Find", "Login">> ELSE <<>>

Greeting(c) ==
  IF c \in Finders /\ state[c] = "WaitXlorsConn" THEN <<"Find", "Login">> ELSE <<"Login">>

Accepted(c) ==
  /\ c \in connjzycn /\ up /\ rak[c] = "none"
  /\ connjzycn' = connjzycn \ {c} /\ jinzeyucn' = jinzeyucn \cup {c}
  /\ rak' = [rak EXCEPT ![c] = "half"] /\ whole' = whole \cup {c}
  /\ toServer' = [toServer EXCEPT ![c] = Greeting(c)]
  /\ state' = [f \in Finders |->
                 IF f = c /\ state[f] = "WaitXlorsConn" THEN "TargetFinding" ELSE state[f]]
  /\ refused' = refused \ {c}
  /\ UNCHANGED <<run, reconntid, conntarget, targetid, contact, asked, connecting, quitting>>
  /\ UNCHANGED <<allConnected, more, allLogin, up, toClient, troubles>>

\* TYPE_CONNECTION_FAILED of the server
ConnectFails(c) ==
  /\ c \in connjzycn
  /\ connjzycn' = connjzycn \ {c} /\ reconntid' = reconntid \cup {c}
  /\ UNCHANGED <<run, jinzeyucn, findVars, serverVars, linkVars, troubles>>

\* TYPE_CONNECTION_CLOSE or LOST of the server.  What the helper was asked for
\* and has not done is not answered any more (NetConnect, ConnectionEnds).
AfterLoss_Kept(f) == IF state[f] = "TargetFinding" THEN "WaitXlorsConn" ELSE state[f]

AfterLoss(f) == IF state[f] # "TargetOnWork" THEN "WaitXlorsConn" ELSE state[f]

ClientLost(c) ==
  /\ c \in jinzeyucn \ whole
  /\ jinzeyucn' = jinzeyucn \ {c} /\ reconntid' = reconntid \cup {c}
  /\ state' = [f \in Finders |-> IF f = c THEN AfterLoss(f) ELSE state[f]]
  /\ asked' = {p \in asked : p[1] # c}
  /\ toClient' = [f \in Finders |-> IF f = c THEN "none" ELSE toClient[f]]
  /\ UNCHANGED <<run, connjzycn, conntarget, targetid, contact, connecting, quitting>>
  /\ UNCHANGED <<serverVars, up, rak, whole, toServer, troubles>>

\* handleTimeout of reconntid_
Reconnect(c) ==
  /\ c \in reconntid
  /\ reconntid' = reconntid \ {c} /\ connjzycn' = connjzycn \cup {c}
  /\ UNCHANGED <<run, jinzeyucn, findVars, serverVars, linkVars, troubles>>

\* A program ends, in its own time or not: the server finds out later.
Stop(c) ==
  /\ run[c] = "running"
  /\ run' = [run EXCEPT ![c] = "ended"]
  /\ connjzycn' = connjzycn \ {c} /\ jinzeyucn' = jinzeyucn \ {c} /\ reconntid' = reconntid \ {c}
  /\ state' = [f \in Finders |-> IF f = c THEN "WaitXlorsConn" ELSE state[f]]
  /\ conntarget' = [f \in Finders |-> IF f = c THEN NULL ELSE conntarget[f]]
  /\ targetid' = [f \in Finders |-> IF f = c THEN NULL ELSE targetid[f]]
  /\ toClient' = [f \in Finders |-> IF f = c THEN "none" ELSE toClient[f]]
  /\ contact' = contact \ {c} /\ quitting' = quitting \ {c}
  /\ asked' = {p \in asked : p[1] # c} /\ connecting' = {p \in connecting : p[1] # c}
  /\ whole' = whole \ {c}
  /\ UNCHANGED <<serverVars, up, rak, toServer, troubles>>

-----------------------------------------------------------------------------
\* The server

ServerKeeps == UNCHANGED <<clientVars, findVars>>

\* OnIncoming; an id that is known is closed again.
ServerIncoming(c) ==
  /\ rak[c] = "half"
  /\ rak' = [rak EXCEPT ![c] = "up"]
  /\ whole' = (IF c \in allConnected THEN whole \ {c} ELSE whole)
  /\ allConnected' = allConnected \cup {c}
  /\ ServerKeeps /\ UNCHANGED <<more, allLogin, refused, up, toServer, toClient, troubles>>

\* OnOuterLogin: a refusal is only a reply, which the client only logs.
Login(c) ==
  IF allLogin[Name[c]] # NULL
  THEN refused' = refused \cup {c} /\ UNCHANGED <<more, allLogin>>
  ELSE more' = more \cup {c} /\ allLogin' = [allLogin EXCEPT ![Name[c]] = c] /\ UNCHANGED refused

\* OnOuterFind
Found(f) == IF allLogin[Wanted[f]] = NULL THEN "missing" ELSE allLogin[Wanted[f]]

\* OnRecv.  Data of a client that is not known is dropped; doClose finds
\* nothing to close (XNetEngine lists the peer with the notice).
ServerRecv(c) ==
  /\ toServer[c] # <<>> /\ (rak[c] = "up" \/ Overtake)
  /\ toServer' = [toServer EXCEPT ![c] = Tail(@)]
  /\ IF c \in allConnected /\ Head(toServer[c]) = "Login"
     THEN Login(c) ELSE UNCHANGED <<more, allLogin, refused>>
  /\ toClient' = [f \in Finders |->
       IF f = c /\ c \in allConnected /\ Head(toServer[c]) = "Find" /\ c \in whole
       THEN Found(f) ELSE toClient[f]]
  /\ ServerKeeps /\ UNCHANGED <<allConnected, up, rak, whole, troubles>>

\* OnClose
Forgotten_LoginStays(c) == more' = more \ {c} /\ UNCHANGED allLogin

Forgotten(c) ==
  IF c \in more
  THEN more' = more \ {c} /\ allLogin' = [allLogin EXCEPT ![Name[c]] = NULL]
  ELSE UNCHANGED <<more, allLogin>>

ServerLost(c) ==
  /\ rak[c] = "up" /\ c \notin whole
  /\ rak' = [rak EXCEPT ![c] = "none"]
  /\ toServer' = [toServer EXCEPT ![c] = <<>>]
  /\ allConnected' = allConnected \ {c} /\ Forgotten(c)
  /\ ServerKeeps /\ UNCHANGED <<refused, up, whole, toClient, troubles>>

\* RakPeer gives up a connection that it has not told of.
HalfEnds(c) ==
  /\ rak[c] = "half" /\ c \notin whole
  /\ rak' = [rak EXCEPT ![c] = "none"]
  /\ toServer' = [toServer EXCEPT ![c] = <<>>]
  /\ ServerKeeps /\ UNCHANGED <<serverVars, up, whole, toClient, troubles>>

\* The server crashes, or is stopped, and is started again.
ServerStops ==
  /\ up /\ troubles < MaxTroubles /\ troubles' = troubles + 1
  /\ up' = FALSE /\ rak' = [c \in Clients |-> "none"] /\ whole' = {}
  /\ toServer' = [c \in Clients |-> <<>>]
  /\ allConnected' = {} /\ more' = {} /\ allLogin' = [n \in Names |-> NULL]
  /\ ServerKeeps /\ UNCHANGED <<refused, toClient>>

ServerStarts ==
  /\ ~up /\ up' = TRUE
  /\ ServerKeeps /\ UNCHANGED <<serverVars, rak, whole, toServer, toClient, troubles>>

\* A connection stops working: each end finds out in its own time.
Break(c) ==
  /\ c \in whole /\ troubles < MaxTroubles /\ troubles' = troubles + 1
  /\ whole' = whole \ {c}
  /\ ServerKeeps /\ UNCHANGED <<serverVars, up, rak, toServer, toClient>>

-----------------------------------------------------------------------------
\* The finder and its target

FindKeeps == UNCHANGED <<clientVars, serverVars, up, rak, whole, toServer, troubles>>

\* ConnectEx by punch-through with the server's help.  It fails at once when
\* the engine knows the helper's connection to be gone, and a request that
\* nobody hears is never answered.
ConnectEx(f, t) ==
  \/ /\ f \in jinzeyucn
     /\ conntarget' = [conntarget EXCEPT ![f] = t]
     /\ asked' = (IF <<f, t>> \in connecting THEN asked ELSE asked \cup {<<f, t>>})
  \/ /\ f \notin jinzeyucn \cap whole
     /\ conntarget' = [conntarget EXCEPT ![f] = NULL]
     /\ UNCHANGED asked

\* OnXlorsRecv of kAsstRtnFind
ClientRecv(f) ==
  /\ toClient[f] # "none" /\ f \in jinzeyucn
  /\ toClient' = [toClient EXCEPT ![f] = "none"]
  /\ \/ /\ state[f] # "TargetFinding"
        /\ UNCHANGED <<state, conntarget, asked, quitting>>
     \/ /\ state[f] = "TargetFinding" /\ toClient[f] = "missing"
        /\ state' = [state EXCEPT ![f] = "XlorsAlreadyConn"]
        /\ quitting' = quitting \cup {f}
        /\ UNCHANGED <<conntarget, asked>>
     \/ /\ state[f] = "TargetFinding" /\ toClient[f] \in Clients
        /\ state' = [state EXCEPT ![f] = "TargetConnecting"]
        /\ ConnectEx(f, toClient[f])
        /\ UNCHANGED quitting
  /\ UNCHANGED <<targetid, contact, connecting>> /\ FindKeeps

\* The server introduces the two to each other.
Introduced(f, t) ==
  /\ <<f, t>> \in asked /\ {f, t} \subseteq whole
  /\ asked' = asked \ {<<f, t>>} /\ connecting' = connecting \cup {<<f, t>>}
  /\ UNCHANGED <<state, conntarget, targetid, contact, quitting, toClient>> /\ FindKeeps

\* TYPE_CONNECTION_ACCEPT of a target; of one that is not expected any more the
\* connection is closed.
TargetAccepted(f, t) ==
  /\ <<f, t>> \in connecting /\ run[t] = "running"
  /\ connecting' = connecting \ {<<f, t>>}
  /\ IF conntarget[f] = t
     THEN /\ conntarget' = [conntarget EXCEPT ![f] = NULL]
          /\ targetid' = [targetid EXCEPT ![f] = t]
          /\ state' = [state EXCEPT ![f] = "TargetOnWork"]
          /\ contact' = contact \cup {f}
     ELSE UNCHANGED <<conntarget, targetid, state, contact>>
  /\ UNCHANGED <<asked, quitting, toClient>> /\ FindKeeps

\* TYPE_CONNECTION_FAILED of a target, or of the introduction to it
TargetFails(f, t) ==
  /\ <<f, t>> \in connecting \/ (<<f, t>> \in asked /\ f \in whole)
  /\ asked' = asked \ {<<f, t>>} /\ connecting' = connecting \ {<<f, t>>}
  /\ IF conntarget[f] = t
     THEN conntarget' = [conntarget EXCEPT ![f] = NULL] /\ quitting' = quitting \cup {f}
     ELSE UNCHANGED <<conntarget, quitting>>
  /\ UNCHANGED <<state, targetid, contact, toClient>> /\ FindKeeps

\* TYPE_CONNECTION_CLOSE or LOST of the target.  XLord::OnClose ends the program
\* in both cases, although a lost target is connected to again.
TargetLost(f) ==
  /\ f \in contact
  /\ contact' = contact \ {f} /\ quitting' = quitting \cup {f}
  /\ \/ UNCHANGED <<state, conntarget, asked>>
     \/ /\ state' = [state EXCEPT ![f] = "TargetConnecting"]
        /\ ConnectEx(f, targetid[f])
  /\ UNCHANGED <<targetid, connecting, toClient>> /\ FindKeeps

-----------------------------------------------------------------------------
Attempt(f, t) == Introduced(f, t) \/ TargetAccepted(f, t) \/ TargetFails(f, t)

Next ==
  \/ \E c \in Clients :
       \/ Start(c) \/ Accepted(c) \/ ConnectFails(c) \/ ClientLost(c) \/ Reconnect(c) \/ Stop(c)
       \/ ServerIncoming(c) \/ ServerRecv(c) \/ ServerLost(c) \/ HalfEnds(c) \/ Break(c)
  \/ \E f \in Finders : ClientRecv(f) \/ TargetLost(f) \/ \E t \in Clients : Attempt(f, t)
  \/ ServerStops \/ ServerStarts

Spec == Init /\ [][Next]_vars

\* The programs drive their engines and timers, messages arrive and broken
\* connections are noticed; a client that tries again and again gets through
\* to a server that runs; a server that stopped is started again; and a finder
\* that is to quit does.
FairSpec ==
  /\ Spec
  /\ WF_vars(ServerStarts)
  /\ \A c \in Clients :
       /\ WF_vars(Reconnect(c)) /\ SF_vars(Accepted(c)) /\ WF_vars(ClientLost(c))
       /\ WF_vars(ServerIncoming(c)) /\ WF_vars(ServerRecv(c))
       /\ WF_vars(ServerLost(c)) /\ WF_vars(HalfEnds(c))
  /\ \A f \in Finders :
       /\ WF_vars(ClientRecv(f)) /\ WF_vars(f \in quitting /\ Stop(f))
       /\ \A t \in Clients : WF_vars(Attempt(f, t))

-----------------------------------------------------------------------------
\* A running client is connecting, connected or about to try again, and in
\* only one of these (the JAsserts on reconntid_ and connjzycn_).
OneOfThree ==
  \A c \in Clients :
    /\ c \in connjzycn \cup jinzeyucn \cup reconntid <=> run[c] = "running"
    /\ c \notin connjzycn \cap jinzeyucn /\ c \notin connjzycn \cap reconntid
    /\ c \notin jinzeyucn \cap reconntid

\* The server's two tables agree with each other and with its engine: a name
\* belongs to the one connected client that has logged in with it.
TablesAgree ==
  /\ \A c \in Clients : c \in allConnected <=> rak[c] = "up"
  /\ more \subseteq allConnected
  /\ \A n \in Names, c \in Clients : allLogin[n] = c <=> c \in more /\ Name[c] = n

\* Links: a working one has both ends, a message waits for its end.
LinksFit ==
  /\ \A c \in whole : c \in jinzeyucn /\ rak[c] # "none"
  /\ \A c \in Clients : rak[c] = "none" => toServer[c] = <<>>
  /\ \A c \in Clients : ~up => rak[c] = "none"
  /\ \A f \in Finders : toClient[f] # "none" => f \in jinzeyucn

\* What a finder waits for in each of its states is on its way, unless its
\* connection is gone and it will start over, or it is quitting.
FindingGoesOn(f) ==
  /\ state[f] = "TargetFinding" =>
       \/ f \in jinzeyucn \ whole
       \/ toServer[f] # <<>> /\ Head(toServer[f]) = "Find" /\ f \in jinzeyucn
       \/ toClient[f] # "none"
  /\ state[f] = "XlorsAlreadyConn" => f \in quitting /\ f \in jinzeyucn
  /\ state[f] = "TargetConnecting" =>
       \/ f \in quitting \/ f \in jinzeyucn \ whole
       \/ conntarget[f] # NULL /\ <<f, conntarget[f]>> \in asked \cup connecting
  /\ state[f] = "TargetOnWork" => f \in contact \cup quitting
  /\ f \in contact => state[f] = "TargetOnWork" /\ targetid[f] # NULL

RendezvousInv ==
  TypeOK /\ OneOfThree /\ TablesAgree /\ LinksFit /\ (~Overtake => \A f \in Finders : FindingGoesOn(f))

\* A client that is connected is found under its name, unless its connection
\* is gone or another client had the name.
Registered ==
  \A a \in Admits :
    a \in jinzeyucn ~> allLogin[Name[a]] = a \/ a \notin jinzeyucn \cap whole \/ a \in refused

\* Once network and server have had their troubles, a finder ends up with its
\* target or at its end.
FinderEnds ==
  \A f \in Finders : run[f] = "running" ~> run[f] = "ended" \/ state[f] = "TargetOnWork"

\* An end that waits to be found is registered (the comment of
\* OuterAdmitByNetEngine: it registers at the server and then waits).
AdmitRegisters ==
  \A a \in Admits : a \in jinzeyucn ~> allLogin[Name[a]] = a \/ a \notin jinzeyucn
=============================================================================
