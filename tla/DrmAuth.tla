------------------------------ MODULE DrmAuth ------------------------------
(***************************************************************************)
(* How a context comes to be: calls of compute_create_context, of any      *)
(* number of processes at once, and the daemon drm_master, which           *)
(* authenticates their files over UDP (authWithLocalMaster and drmServer). *)
(*                                                                         *)
(* The kernel gives each open file of a device a magic number on request;  *)
(* the master of the device, which is the daemon, the X server or the      *)
(* first process that opened it, authenticates a file by that number.  The *)
(* code uses no more than this of the kernel.  Both ends are on one host:  *)
(* a datagram is put into the queue of the socket that has the port, or    *)
(* is lost, and the queue is gone with its socket.  The daemon may die at  *)
(* any step and be started again.                                          *)
(*                                                                         *)
(* A call and what it opens, its file, its display and its socket, have    *)
(* one number.  An open that fails changes nothing and is not modelled.    *)
(* A datagram records which call it goes back to, for the properties: this *)
(* is not among what is sent, and no action looks at it.                   *)
(***************************************************************************)
EXTENDS Naturals

CONSTANTS
  Device,     \* the devices, by bus id
  Magic,      \* numbers of the kernel for unauthenticated files
  Port,       \* UDP ports of the clients
  MaxCalls,   \* bound on the calls of compute_create_context
  Daemon,     \* drm_master as the master of a device
  XServer,    \* the X server as the master of a device
  None        \* no number, port, datagram or master

ASSUME MaxCallsAssumption == MaxCalls \in Nat
ASSUME NoneAssumption == None \notin Magic

Call == 1 .. MaxCalls

VARIABLES
  step,      \* how far each call is, and afterwards how it ended
  device,    \* the device each call opens
  open,      \* files that are open
  auth,      \* files that were authenticated
  magic,     \* the magic numbers of the files
  displays,  \* connections to the X server that are open
  socket,    \* the port of the socket of each call
  unsent,    \* calls whose sendto failed
  master,    \* the master of each device
  net,       \* datagrams in the queues of sockets
  running,   \* whether the daemon runs
  drms,      \* the devices in its table
  serving    \* the datagram its loop is working on

call    == <<step, device, displays, socket, unsent>>
kernel  == <<open, auth, magic, master>>
server  == <<running, drms, serving>>
vars    == <<call, kernel, net, server>>

Ended == {"context", "freed", "null", "not ready", "zero"}
Running(c) == step[c] \notin Ended \cup {"idle"}

-----------------------------------------------------------------------------
(* The kernel.                                                             *)

\* The first to open a device that has no master becomes its master.
OpenFile(c, d) ==
  /\ open' = open \cup {c}
  /\ auth' = IF master[d] = None THEN auth \cup {c} ELSE auth
  /\ master' = [master EXCEPT ![d] = IF @ = None THEN c ELSE @]
  /\ UNCHANGED magic

CloseFile(c) ==
  /\ open' = open \ {c}
  /\ auth' = auth \ {c}
  /\ magic' = [magic EXCEPT ![c] = None]
  /\ master' = [d \in Device |-> IF master[d] = c THEN None ELSE master[d]]

\* The file of a device that has the magic number m and awaits its master.
Awaiting(d, m) == {c \in open \ auth : device[c] = d /\ magic[c] = m}

FreeMagic(d) == Magic \ {magic[c] : c \in {x \in open : device[x] = d}}

PortsInUse == {socket[c] : c \in Call}

\* A port is free as soon as its socket is closed, whatever is still on its way to it.
FreePort == Port \ PortsInUse

-----------------------------------------------------------------------------
(* compute_create_context.                                                 *)

Goto(c, s) == step' = [step EXCEPT ![c] = s]

\* The next call begins; numbers are given in that order.  A descriptor 0
\* counts as an error, "ctx->fd < 1", and stays open.
Open(c, d) ==
  /\ step[c] = "idle"
  /\ \A b \in Call : b < c => step[b] # "idle"
  /\ \E s \in {"probe", "zero"} : Goto(c, s)
  /\ device' = [device EXCEPT ![c] = d]
  /\ OpenFile(c, d)
  /\ UNCHANGED <<displays, socket, unsent, net, server>>

\* DRM_RADEON_INFO is refused to a file that is not authenticated.
Probe(c, at, allowed, refused) ==
  /\ step[c] = at
  /\ Goto(c, IF c \in auth THEN allowed ELSE refused)
  /\ UNCHANGED <<device, displays, socket, unsent, kernel, net, server>>

\* XCloseDisplay if there is one, close.
Release(c) ==
  CloseFile(c) /\ displays' = displays \ {c}

drmGetMagic(c) ==
  /\ step[c] = "magic"
  /\ \/ \E m \in FreeMagic(device[c]) :
          /\ magic' = [magic EXCEPT ![c] = m]
          /\ Goto(c, "send")
          /\ UNCHANGED <<open, auth, master, displays>>
     \/ Goto(c, "null") /\ Release(c)
  /\ UNCHANGED <<device, socket, unsent, net, server>>

\* The display is opened only if the daemon did not help; what
\* VA_DRI2Authenticate answers is not looked at.
OpenDisplay(c) ==
  /\ step[c] = "display"
  /\ Goto(c, "check")
  /\ \/ UNCHANGED <<displays, auth>>
     \/ /\ displays' = displays \cup {c}
        /\ \/ UNCHANGED auth
           \/ master[device[c]] = XServer /\ auth' = auth \cup {c}
  /\ UNCHANGED <<device, socket, unsent, open, magic, master, net, server>>

\* Fault: the last probe is not repeated after XOpenDisplay.
CheckWithoutProbe(c) ==
  /\ step[c] = "check"
  /\ \/ Goto(c, "not ready") /\ UNCHANGED <<open, auth, magic, master, displays>>
     \/ Goto(c, "null") /\ Release(c)
     \/ Goto(c, "context") /\ UNCHANGED <<open, auth, magic, master, displays>>
  /\ UNCHANGED <<device, socket, unsent, net, server>>

\* The last probe and the three queries after it.  A ring that is not
\* working ends the call with everything left open.
Check(c) ==
  /\ step[c] = "check"
  /\ \/ c \in auth /\ Goto(c, "not ready") /\ UNCHANGED <<open, auth, magic, master, displays>>
     \/ Goto(c, "null") /\ Release(c)
     \/ c \in auth /\ Goto(c, "context") /\ UNCHANGED <<open, auth, magic, master, displays>>
  /\ UNCHANGED <<device, socket, unsent, net, server>>

\* compute_free_context closes what the context holds.
compute_free_context(c) ==
  /\ step[c] = "context"
  /\ Goto(c, "freed")
  /\ Release(c)
  /\ UNCHANGED <<device, socket, unsent, net, server>>

-----------------------------------------------------------------------------
(* authWithLocalMaster.                                                    *)

Request(c, p) == [kind |-> "request", of |-> c, port |-> p, busid |-> device[c], magic |-> magic[c]]
Answer(m, ok) == [kind |-> "answer", of |-> m.of, port |-> m.port, ok |-> ok]

\* A datagram is lost if nobody has the port or the queue is full.
Sent(m, someoneListens) ==
  \/ net' = net
  \/ someoneListens /\ net' = net \cup {m}

\* A socket of its own for each request.
SendRequest(c) ==
  /\ step[c] = "send"
  /\ \E p \in FreePort :
       /\ socket' = [socket EXCEPT ![c] = p]
       /\ \/ /\ Sent(Request(c, p), running)
             /\ Goto(c, "wait")
             /\ UNCHANGED unsent
          \/ /\ unsent' = unsent \cup {c}
             /\ Goto(c, "again")
             /\ UNCHANGED net
  /\ UNCHANGED <<device, displays, kernel, server>>

Answers(c) == {m \in net : m.kind = "answer" /\ m.port = socket[c]}

\* Fault: SO_RCVTIMEO is not set.
NeverExpires(c) == FALSE

\* The 100 ms of SO_RCVTIMEO may be over at any moment.
Expires(c) == step[c] = "wait"

\* recvfrom ends with an answer, which is not looked at, or without one.
\* What is still in the queue goes with the socket.
ReceiveAnswer(c) ==
  /\ step[c] = "wait"
  /\ Answers(c) # {} \/ Expires(c)
  /\ net' = net \ Answers(c)
  /\ socket' = [socket EXCEPT ![c] = None]
  /\ Goto(c, "again")
  /\ UNCHANGED <<device, displays, unsent, kernel, server>>

CreateStep(c) ==
  \/ Probe(c, "probe", "check", "magic")
  \/ drmGetMagic(c)
  \/ SendRequest(c)
  \/ ReceiveAnswer(c)
  \/ Probe(c, "again", "check", "display")
  \/ OpenDisplay(c)
  \/ Check(c)

-----------------------------------------------------------------------------
(* drm_master.                                                             *)

\* drmSetMaster fails for a device that has a master.
StartDaemon ==
  /\ ~running
  /\ running' = TRUE
  /\ drms' = {d \in Device : master[d] = None}
  /\ master' = [d \in Device |-> IF master[d] = None THEN Daemon ELSE master[d]]
  /\ UNCHANGED <<call, open, auth, magic, net, serving>>

\* The kernel closes its files and its socket.
DaemonDies ==
  /\ running
  /\ running' = FALSE
  /\ drms' = {}
  /\ serving' = None
  /\ master' = [d \in Device |-> IF master[d] = Daemon THEN None ELSE master[d]]
  /\ net' = {m \in net : m.kind # "request"}
  /\ UNCHANGED <<call, open, auth, magic>>

ReceiveRequest ==
  /\ running /\ serving = None
  /\ \E m \in net :
       /\ m.kind = "request"
       /\ serving' = m
       /\ net' = net \ {m}
  /\ UNCHANGED <<call, kernel, running, drms>>

\* Fault: the first entry of the table is taken, whatever its bus id.
AnyDevice(busid) == drms

\* The entry of the table for a bus id.
Served(busid) == drms \cap {busid}

\* drmAuthMagic for the device of the request, if it is in the table.  The
\* kernel may refuse, as it does with a number it does not know.
HandleRequest ==
  /\ serving # None /\ serving.kind = "request"
  /\ \E chosen \in {{}, UNION {Awaiting(d, serving.magic) : d \in Served(serving.busid)}} :
       /\ auth' = auth \cup chosen
       /\ serving' = Answer(serving, chosen # {})
  /\ UNCHANGED <<call, open, magic, master, net, running, drms>>

SendAnswer ==
  /\ serving # None /\ serving.kind = "answer"
  /\ Sent(serving, serving.port \in PortsInUse)
  /\ serving' = None
  /\ UNCHANGED <<call, kernel, running, drms>>

-----------------------------------------------------------------------------
\* The X server, where there is one, was started before.
Init ==
  /\ step = [c \in Call |-> "idle"]
  /\ device = [c \in Call |-> None]
  /\ open = {} /\ auth = {} /\ displays = {} /\ unsent = {}
  /\ magic = [c \in Call |-> None]
  /\ socket = [c \in Call |-> None]
  /\ master \in [Device -> {None, XServer}]
  /\ net = {}
  /\ running = FALSE /\ drms = {} /\ serving = None

Next ==
  \/ \E c \in Call : \E d \in Device : Open(c, d)
  \/ \E c \in Call : CreateStep(c) \/ compute_free_context(c)
  \/ StartDaemon \/ DaemonDies
  \/ ReceiveRequest \/ HandleRequest \/ SendAnswer

\* A process that runs goes on, and SO_RCVTIMEO ends its wait.  Nothing is
\* assumed of the daemon.
Spec == Init /\ [][Next]_vars /\ \A c \in Call : WF_vars(CreateStep(c))

-----------------------------------------------------------------------------
\* The daemon's ACK is true.  However late it is, and whatever became meanwhile of
\* the call whose request it answers: if the file of that call is still open, it
\* has been authenticated.
AckIsTrue ==
  \A m \in net \cup {serving} :
    (m # None /\ m.kind = "answer" /\ m.ok /\ m.of \in open) => m.of \in auth

\* Whom a request of drmServer authenticates.  The kernel gives the number of a
\* closed file out again, so a late request may reach the file of a later call;
\* but it is one file, of the device the request was for, and as long as the file
\* it was sent for is open, it is that one.
AuthenticatesOneFile ==
  [][serving # None /\ serving' # serving =>
       \A c \in auth' \ auth :
         /\ auth' \ auth = {c}
         /\ device[c] = device[serving.of]
         /\ c = serving.of \/ serving.of \notin open]_vars

\* What recvfrom finds is the answer to the request of the call itself.  This does
\* not hold: an answer to a socket that is closed reaches the next one that gets
\* its port, and ends a wait that has its own answer still to come.
AnswersAreOwn ==
  \A c \in Call : step[c] = "wait" => \A m \in Answers(c) : m.of = c

\* What compute_create_context leaves behind.  A context has an open file that
\* was authenticated by someone, however often the daemon died meanwhile.
\* NULL leaves no file and no display open, except when the ring is not
\* working or the descriptor is 0; a socket stays open only if sendto failed.
ReturnsAsPromised ==
  /\ \A c \in Call : step[c] = "context" => c \in open \cap auth
  /\ \A c \in Call : step[c] \in {"null", "freed"} => c \notin open \cup displays
  /\ \A c \in Call : step[c] \in Ended /\ socket[c] # None => c \in unsent

\* compute_create_context returns, whether or not there is a daemon and
\* whatever becomes of the datagrams.
CreateReturns == \A c \in Call : Running(c) ~> ~Running(c)
=============================================================================
