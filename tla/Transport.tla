------------------------------- MODULE Transport -------------------------------
(***************************************************************************)
(* The "threaded" connection of remote objects within one process: the     *)
(* host node of an engine (ExchangeBufferServer) and one client node per   *)
(* thread, connected by pairs of buffers (ExchangeBuffer) that live in     *)
(* different threads and only talk by queued calls.                        *)
(*                                                                         *)
(* A buffer that is open has a partner and a closed one has none, so that  *)
(* one status stands for both.  The buffers keep raw pointers: a call for  *)
(* a partner that was destroyed is lost here (it may also end the process, *)
(* after which nothing happens).                                           *)
(***************************************************************************)
EXTENDS Naturals, Sequences

CONSTANTS Clients   \* the threads that use remote objects, each with its node

VARIABLES
  hosting,   \* the engine has its host node
  entry,     \* ExchangeBufferServer::_servers for the url: "free", "live", or
             \* "stale" when the server it points to has been destroyed
  cached,    \* _connectCache: the clients that wait for a server
  near,      \* the clients' buffers
  far,       \* the host's buffers
  toHost,    \* the calls posted to the host's thread for every client
  toClient   \* the calls posted to every client's thread

transportVars == <<hosting, entry, cached, near, far, toHost, toClient>>

Nothing == [type |-> "nothing", id |-> 0]
Call(name) == [call |-> name, data |-> Nothing]
Data(d) == [call |-> "receiveData", data |-> d]

TransportInit ==
  /\ hosting = FALSE /\ entry = "free" /\ cached = {}
  /\ near = [c \in Clients |-> "none"] /\ far = [c \in Clients |-> "none"]
  /\ toHost = [c \in Clients |-> << >>] /\ toClient = [c \in Clients |-> << >>]

Handles(queue, call) == queue # << >> /\ Head(queue).call = call
Done(queues, c) == [queues EXCEPT ![c] = Tail(@)]
Post(queues, c, call) == [queues EXCEPT ![c] = Append(@, call)]
PostIf(condition, queues, c, call) == IF condition THEN Post(queues, c, call) ELSE queues

\* writeData: without a partner nothing is written.
WriteHost(queues, c, d) == PostIf(near[c] = "open" /\ far[c] = "open", queues, c, Data(d))
WriteClients(queues, cs, d) ==
  [c \in Clients |->
     IF c \in cs /\ far[c] = "open" /\ near[c] # "gone" THEN Append(queues[c], Data(d)) ELSE queues[c]]

\* Mutant: the connections that wait are forgotten.
RegisterOnly ==
  /\ ~hosting /\ hosting' = TRUE
  /\ entry' = IF entry = "free" THEN "live" ELSE entry
  /\ cached' = {}
  /\ UNCHANGED <<near, far, toHost, toClient>>

(***************************************************************************)
(* The host node is created with the engine, ExchangeEngine::initialize,   *)
(* and registers its server.  A stale entry refuses it: nobody removes the *)
(* entry of a server that is destroyed.                                    *)
(***************************************************************************)
prepareHostNode ==
  /\ ~hosting /\ hosting' = TRUE
  /\ IF entry = "free"
       THEN /\ entry' = "live" /\ cached' = {}
            /\ toHost' = [c \in Clients |->
                 IF c \in cached THEN Append(toHost[c], Call("addConnection")) ELSE toHost[c]]
       ELSE UNCHANGED <<entry, cached, toHost>>
  /\ UNCHANGED <<near, far, toClient>>

\* It goes with the engine, and its buffers with it.
DestroyHost ==
  /\ hosting /\ hosting' = FALSE
  /\ entry' = IF entry = "live" THEN "stale" ELSE entry
  /\ far' = [c \in Clients |-> IF far[c] = "open" THEN "closed" ELSE far[c]]
  /\ toClient' = [c \in Clients |->
       IF far[c] = "open" /\ near[c] # "gone" THEN Append(toClient[c], Call("partnerClosed")) ELSE toClient[c]]
  /\ toHost' = [c \in Clients |-> << >>]
  /\ UNCHANGED <<cached, near>>

\* The node of a thread is made when the thread first asks for it
\* (DefaultsPrivate::acquireNode) and connects or waits.
acquireNode(c) ==
  /\ near[c] = "none" /\ near' = [near EXCEPT ![c] = "closed"]
  /\ cached' = IF entry = "free" THEN cached \cup {c} ELSE cached
  /\ toHost' = PostIf(entry = "live", toHost, c, Call("addConnection"))
  /\ UNCHANGED <<hosting, entry, far, toClient>>

\* The thread has ended, or the defaults are destroyed: so is the node.
roThreadDone(c) ==
  /\ near[c] \in {"closed", "open"} /\ near' = [near EXCEPT ![c] = "gone"]
  /\ cached' = cached \ {c}
  /\ toHost' = PostIf(near[c] = "open" /\ far[c] = "open", toHost, c, Call("partnerClosed"))
  /\ toClient' = [toClient EXCEPT ![c] = << >>]
  /\ UNCHANGED <<hosting, entry, far>>

(***************************************************************************)
(* The host's buffer opens at once, the client's when its thread handles   *)
(* the call; what the host has written by then waits behind that call.     *)
(* The first data of a connection is the list of the remoted objects.      *)
(***************************************************************************)
addConnection(c) ==
  /\ Handles(toHost[c], "addConnection") /\ toHost' = Done(toHost, c)
  /\ far' = [far EXCEPT ![c] = "open"]
  /\ toClient' = IF near[c] = "gone" THEN toClient
                 ELSE [toClient EXCEPT ![c] =
                         @ \o <<Call("openInteral"), Data([type |-> "objects", id |-> 0])>>]
  /\ UNCHANGED <<hosting, entry, cached, near>>

openInteral(c) ==
  /\ Handles(toClient[c], "openInteral") /\ toClient' = Done(toClient, c)
  /\ near' = [near EXCEPT ![c] = "open"]
  /\ UNCHANGED <<hosting, entry, cached, far, toHost>>

partnerClosedNear(c) ==
  /\ Handles(toClient[c], "partnerClosed") /\ toClient' = Done(toClient, c)
  /\ near' = [near EXCEPT ![c] = "closed"]
  /\ UNCHANGED <<hosting, entry, cached, far, toHost>>

partnerClosedFar(c) ==
  /\ Handles(toHost[c], "partnerClosed") /\ toHost' = Done(toHost, c)
  /\ far' = [far EXCEPT ![c] = "closed"]
  /\ UNCHANGED <<hosting, entry, cached, near, toClient>>
================================================================================
