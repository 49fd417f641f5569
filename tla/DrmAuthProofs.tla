--------------------------- MODULE DrmAuthProofs ---------------------------
(***************************************************************************)
(* What DrmAuth guarantees for every number of calls, devices, magic       *)
(* numbers and ports, whatever the network and the daemon do.              *)
(***************************************************************************)
EXTENDS DrmAuth, TLAPS

Step ==
  {"idle", "probe", "magic", "send", "wait", "again", "display", "check"} \cup Ended

RequestMessage ==
  [kind : {"request"}, of : Call, port : Port, busid : Device, magic : Magic]

AnswerMessage == [kind : {"answer"}, of : Call, port : Port, ok : BOOLEAN]

Datagram == RequestMessage \cup AnswerMessage

Types ==
  /\ step \in [Call -> Step]
  /\ device \in [Call -> Device \cup {None}]
  /\ open \subseteq Call
  /\ auth \subseteq Call
  /\ magic \in [Call -> Magic \cup {None}]
  /\ displays \subseteq Call
  /\ socket \in [Call -> Port \cup {None}]
  /\ unsent \subseteq Call
  /\ net \subseteq Datagram
  /\ serving \in Datagram \cup {None}

-----------------------------------------------------------------------------
(* The inductive invariant.                                                *)

\* What a call holds at each of its steps.
Holds ==
  \A c \in Call :
    /\ step[c] = "idle" => c \notin open \cup displays /\ magic[c] = None
    /\ step[c] # "idle" => device[c] \in Device
    /\ step[c] \in {"null", "freed"} => c \notin open \cup displays
    /\ step[c] \notin {"idle", "null", "freed"} => c \in open
    /\ step[c] = "context" => c \in auth
    /\ step[c] \in {"send", "wait"} => magic[c] \in Magic
    /\ step[c] = "wait" => socket[c] \in Port
    /\ socket[c] # None => step[c] = "wait" \/ c \in unsent

\* The kernel gives no number of a device to two of its open files.
MagicUnique ==
  \A b, c \in open : device[b] = device[c] /\ magic[b] = magic[c] /\ magic[b] # None => b = c

InFlight == (net \cup {serving}) \ {None}

\* Steps before a call has sent anything.
BeforeRequest == {"idle", "probe", "magic", "send"}

\* A request names the device of the file it was sent for and, while that is open,
\* its number; an ACK means that the file is authenticated, unless it is closed.
AboutSender(m) ==
  /\ step[m.of] \notin BeforeRequest
  /\ m.kind = "request" => m.busid = device[m.of]
  /\ m.kind = "request" /\ m.of \in open => m.magic = magic[m.of]
  /\ m.kind = "answer" /\ m.ok /\ m.of \in open => m.of \in auth

MailIsTrue == \A m \in InFlight : AboutSender(m)

HoldsInv == Types /\ Holds

IInv == Types /\ Holds /\ MagicUnique /\ MailIsTrue

-----------------------------------------------------------------------------
(* The steps.                                                              *)

\* A step is one of these actions; the two probes are one action.
LEMMA Actions ==
  ASSUME [Next]_vars
  PROVE  \/ \E c \in Call, d \in Device : Open(c, d)
         \/ \E c \in Call : \/ Probe(c, "probe", "check", "magic")
                            \/ Probe(c, "again", "check", "display")
         \/ \E c \in Call : drmGetMagic(c)
         \/ \E c \in Call : SendRequest(c)
         \/ \E c \in Call : ReceiveAnswer(c)
         \/ \E c \in Call : OpenDisplay(c)
         \/ \E c \in Call : Check(c)
         \/ \E c \in Call : compute_free_context(c)
         \/ StartDaemon
         \/ DaemonDies
         \/ ReceiveRequest
         \/ HandleRequest
         \/ SendAnswer
         \/ UNCHANGED vars
BY DEF Next, CreateStep

\* Before any call runs nothing is held and nothing is sent.
LEMMA InitEstablishes == Init => IInv
BY DEF Init, IInv, Types, Holds, MagicUnique, MailIsTrue, InFlight, Step, Ended

\* What each call holds follows from its own steps alone.
LEMMA StepKeepsHolds ==
  ASSUME HoldsInv, [Next]_vars
  PROVE  HoldsInv'
<1> USE DEF HoldsInv, Types, Holds, Step, Ended, Goto
<1>1. ASSUME NEW c \in Call, NEW d \in Device, Open(c, d) PROVE HoldsInv'
  <2>1. Types'
    BY <1>1 DEF Open, OpenFile, server
  <2>2. Holds'
    BY <1>1 DEF Open, OpenFile, server
  <2> QED
    BY <2>1, <2>2
<1>2. ASSUME NEW c \in Call, \/ Probe(c, "probe", "check", "magic")
                             \/ Probe(c, "again", "check", "display")
      PROVE  HoldsInv'
  <2>1. Types'
    BY <1>2 DEF Probe, kernel, server
  <2>2. /\ step[c] \in {"probe", "again"}
        /\ UNCHANGED <<device, open, auth, magic, displays, socket, unsent>>
    BY <1>2 DEF Probe, kernel
  <2>3. /\ step' = [step EXCEPT ![c] = step'[c]]
        /\ step'[c] \in {"check", "magic", "display"}
        /\ step'[c] = "check" => c \in auth
    BY <1>2 DEF Probe
  <2>4. step[c] = "again" => step'[c] # "magic"
    BY <1>2 DEF Probe
  <2>5. Holds'
    BY <2>2, <2>3, <2>4
  <2> QED
    BY <2>1, <2>5
<1>3. ASSUME NEW c \in Call, drmGetMagic(c) PROVE HoldsInv'
  <2>1. UNCHANGED <<device, socket, unsent, net, serving>> /\ step[c] = "magic"
    BY <1>3 DEF drmGetMagic, server
  <2>2. CASE /\ \E m \in FreeMagic(device[c]) : magic' = [magic EXCEPT ![c] = m]
             /\ Goto(c, "send")
             /\ UNCHANGED <<open, auth, displays>>
    <3>1. PICK m \in FreeMagic(device[c]) : magic' = [magic EXCEPT ![c] = m]
      BY <2>2
    <3>2. m \in Magic
      BY <3>1 DEF FreeMagic
    <3>3. step' = [step EXCEPT ![c] = "send"] /\ UNCHANGED <<open, auth, displays>>
      BY <2>2
    <3>4. Types'
      BY <2>1, <3>1, <3>2, <3>3
    <3>5. Holds'
      BY <2>1, <3>1, <3>2, <3>3
    <3> QED
      BY <3>4, <3>5
  <2>3. CASE Goto(c, "null") /\ Release(c)
    BY <2>1, <2>3 DEF Release, CloseFile
  <2> QED
    BY <1>3, <2>2, <2>3 DEF drmGetMagic
<1>4. ASSUME NEW c \in Call, SendRequest(c) PROVE HoldsInv'
  <2>1. PICK p \in FreePort :
          /\ socket' = [socket EXCEPT ![c] = p]
          /\ \/ Sent(Request(c, p), running) /\ Goto(c, "wait") /\ UNCHANGED unsent
             \/ unsent' = unsent \cup {c} /\ Goto(c, "again") /\ UNCHANGED net
    BY <1>4 DEF SendRequest
  <2>2. step[c] = "send" /\ UNCHANGED <<device, displays, open, auth, magic, serving>>
    BY <1>4 DEF SendRequest, kernel, server
  <2>3. p \in Port /\ device[c] \in Device /\ magic[c] \in Magic
    BY <2>2 DEF FreePort
  <2>4. Request(c, p) \in Datagram
    BY <2>3 DEF Request, Datagram, RequestMessage
  <2>5. net' \subseteq Datagram
    BY <2>1, <2>4 DEF Sent
  <2> QED
    BY <2>1, <2>2, <2>3, <2>5 DEF Sent
<1>5. ASSUME NEW c \in Call, ReceiveAnswer(c) PROVE HoldsInv'
  BY <1>5 DEF ReceiveAnswer, kernel, server
<1>6. ASSUME NEW c \in Call, OpenDisplay(c) PROVE HoldsInv'
  BY <1>6 DEF OpenDisplay, server
<1>7. ASSUME NEW c \in Call, Check(c) PROVE HoldsInv'
  <2>1. UNCHANGED <<device, socket, unsent, net, serving>> /\ step[c] = "check"
    BY <1>7 DEF Check, server
  <2>2. CASE Goto(c, "null") /\ Release(c)
    BY <2>1, <2>2 DEF Release, CloseFile
  <2>3. CASE /\ c \in auth /\ (Goto(c, "not ready") \/ Goto(c, "context"))
             /\ UNCHANGED <<open, auth, magic, displays>>
    BY <2>1, <2>3
  <2> QED
    BY <1>7, <2>2, <2>3 DEF Check
<1>8. ASSUME NEW c \in Call, compute_free_context(c) PROVE HoldsInv'
  BY <1>8 DEF compute_free_context, Release, CloseFile, server
<1>9. CASE StartDaemon
  BY <1>9 DEF StartDaemon, call
<1>10. CASE DaemonDies
  BY <1>10 DEF DaemonDies, call
<1>11. CASE ReceiveRequest
  BY <1>11 DEF ReceiveRequest, call, kernel
<1>12. CASE HandleRequest
  <2>1. PICK chosen \in {{}, UNION {Awaiting(d, serving.magic) : d \in Served(serving.busid)}} :
          auth' = auth \cup chosen /\ serving' = Answer(serving, chosen # {})
    BY <1>12 DEF HandleRequest
  <2>2. /\ serving # None /\ serving.kind = "request"
        /\ UNCHANGED <<step, device, displays, socket, unsent, open, magic, net>>
    BY <1>12 DEF HandleRequest, call
  <2>3. serving.port \in Port /\ serving.of \in Call
    BY <2>2 DEF Datagram, RequestMessage, AnswerMessage
  <2>4. serving' \in Datagram
    BY <2>1, <2>3 DEF Answer, Datagram, AnswerMessage
  <2>5. chosen \subseteq Call
    <3>1. \A d, m : Awaiting(d, m) \subseteq open
      BY DEF Awaiting
    <3> HIDE DEF HoldsInv
    <3>2. ASSUME NEW b \in UNION {Awaiting(d, serving.magic) : d \in Served(serving.busid)}
          PROVE  b \in open
      <4>1. PICK d \in Served(serving.busid) : b \in Awaiting(d, serving.magic)
        BY Zenon
      <4> QED
        BY <3>1, <4>1
    <3>3. open \subseteq Call
      BY DEF HoldsInv
    <3>4. chosen = {} \/ chosen = UNION {Awaiting(d, serving.magic) : d \in Served(serving.busid)}
      BY Zenon
    <3>5. \A b \in chosen : b \in open
      BY <3>2, <3>4, Zenon
    <3> QED
      BY <3>3, <3>5, Zenon
  <2> QED
    BY <2>1, <2>2, <2>4, <2>5
<1>13. CASE SendAnswer
  BY <1>13 DEF SendAnswer, Sent, call, kernel
<1>14. CASE UNCHANGED vars
  BY <1>14 DEF vars, call, kernel, server
<1> QED
  BY <1>1, <1>2, <1>3, <1>4, <1>5, <1>6, <1>7, <1>8, <1>9, <1>10, <1>11, <1>12, <1>13, <1>14, Actions

\* A number is given only if no open file of the device has it, and taken back
\* when the file is closed.
LEMMA StepKeepsMagicUnique ==
  ASSUME HoldsInv, MagicUnique, [Next]_vars
  PROVE  MagicUnique'
<1> DEFINE Kept == open' \subseteq open /\ device' = device /\ \A c \in open' : magic'[c] = magic[c]
<1>1. Kept => MagicUnique'
  BY DEF MagicUnique
<1>2. ASSUME NEW c \in Call, NEW d \in Device, Open(c, d) PROVE MagicUnique'
  BY <1>2 DEF Open, OpenFile, HoldsInv, Types, Holds, MagicUnique
<1>3. ASSUME NEW c \in Call, \/ Probe(c, "probe", "check", "magic")
                             \/ Probe(c, "again", "check", "display")
      PROVE  Kept
  BY <1>3 DEF Probe, kernel
<1>4. ASSUME NEW c \in Call, Release(c), device' = device PROVE Kept
  BY <1>4 DEF Release, CloseFile, HoldsInv, Types
<1>5. ASSUME NEW c \in Call, drmGetMagic(c) PROVE MagicUnique'
  <2>1. device' = device
    BY <1>5 DEF drmGetMagic
  <2>2. CASE \E m \in FreeMagic(device[c]) : magic' = [magic EXCEPT ![c] = m] /\ UNCHANGED open
    BY <2>1, <2>2 DEF FreeMagic, MagicUnique, HoldsInv, Types
  <2>3. CASE Release(c)
    BY <1>1, <1>4, <2>1, <2>3
  <2> QED
    BY <1>5, <2>2, <2>3 DEF drmGetMagic
<1>6. ASSUME NEW c \in Call, SendRequest(c) \/ ReceiveAnswer(c) PROVE Kept
  BY <1>6 DEF SendRequest, ReceiveAnswer, kernel
<1>7. ASSUME NEW c \in Call, OpenDisplay(c) PROVE Kept
  BY <1>7 DEF OpenDisplay
<1>8. ASSUME NEW c \in Call, Check(c) \/ compute_free_context(c) PROVE Kept
  BY <1>4, <1>8 DEF Check, compute_free_context
<1>9. CASE StartDaemon \/ DaemonDies \/ ReceiveRequest \/ HandleRequest \/ SendAnswer
  <2>1. Kept
    BY <1>9 DEF StartDaemon, DaemonDies, ReceiveRequest, HandleRequest, SendAnswer, call, kernel
  <2> QED
    BY <1>1, <2>1
<1>10. CASE UNCHANGED vars
  BY <1>1, <1>10 DEF vars, call, kernel
<1> HIDE DEF Kept
<1> QED
  BY <1>1, <1>2, <1>3, <1>5, <1>6, <1>7, <1>8, <1>9, <1>10, Actions

-----------------------------------------------------------------------------
(* Datagrams.                                                              *)

\* What the calls that have sent a request keep.
SendersKeep ==
  \A c \in Call : step[c] \notin BeforeRequest =>
    /\ step'[c] \notin BeforeRequest /\ device'[c] = device[c]
    /\ c \in open' => c \in open /\ magic'[c] = magic[c] /\ (c \in auth => c \in auth')

\* What was sent stays true as long as files are only closed or authenticated.
LEMMA QuietKeepsMail ==
  ASSUME HoldsInv, MailIsTrue, InFlight' \subseteq InFlight, SendersKeep
  PROVE  MailIsTrue'
<1>1. \A m \in InFlight : m.of \in Call
  BY DEF InFlight, HoldsInv, Types, Datagram, RequestMessage, AnswerMessage
<1> QED
  BY <1>1 DEF MailIsTrue, AboutSender, SendersKeep

\* A request is about the file it is sent for.
LEMMA SendKeepsMail ==
  ASSUME HoldsInv, MailIsTrue, NEW c \in Call, SendRequest(c)
  PROVE  MailIsTrue'
<1>1. PICK p \in FreePort :
        \/ Sent(Request(c, p), running) /\ Goto(c, "wait")
        \/ Goto(c, "again") /\ UNCHANGED net
  BY DEF SendRequest
<1>2. step[c] = "send" /\ UNCHANGED <<device, open, auth, magic, serving>>
  BY DEF SendRequest, kernel, server
<1>3. InFlight' \subseteq InFlight \cup {Request(c, p)}
  BY <1>1, <1>2 DEF Sent, InFlight
<1>4. /\ step'[c] \notin BeforeRequest
      /\ \A b \in Call \ {c} : step'[b] = step[b]
  BY <1>1 DEF Goto, HoldsInv, Types, BeforeRequest
<1>5. \A m \in InFlight : m.of \in Call /\ m.of # c
  BY <1>2 DEF MailIsTrue, AboutSender, BeforeRequest, InFlight, HoldsInv, Types, Datagram, RequestMessage,
              AnswerMessage
<1>6. ASSUME NEW m \in InFlight' PROVE AboutSender(m)'
  <2>1. CASE m \in InFlight
    <3>1. AboutSender(m)
      BY <2>1 DEF MailIsTrue
    <3> QED
      BY <1>2, <1>4, <1>5, <2>1, <3>1 DEF AboutSender
  <2>2. CASE m = Request(c, p)
    BY <1>2, <1>4, <2>2 DEF AboutSender, Request
  <2> QED
    BY <1>3, <2>1, <2>2
<1> QED
  BY <1>6 DEF MailIsTrue

\* drmAuthMagic reaches one file at most, of the device of the sender, and
\* the sender's own if that is open.
LEMMA ChosenFile ==
  ASSUME HoldsInv, MagicUnique, MailIsTrue, serving # None, serving.kind = "request",
         NEW chosen \in {{}, UNION {Awaiting(d, serving.magic) : d \in Served(serving.busid)}},
         NEW c \in chosen
  PROVE  /\ c \in Call /\ chosen = {c} /\ device[c] = device[serving.of]
         /\ serving.of \in open => c = serving.of
<1>1. serving.of \in Call /\ serving.magic \in Magic /\ serving.busid = device[serving.of]
  BY DEF HoldsInv, Types, Datagram, RequestMessage, AnswerMessage, MailIsTrue, AboutSender, InFlight
<1>2. ASSUME NEW b \in chosen
      PROVE  b \in open /\ device[b] = serving.busid /\ magic[b] = serving.magic
  <2>1. b \in UNION {Awaiting(d, serving.magic) : d \in Served(serving.busid)}
    BY Zenon
  <2>2. PICK d \in Served(serving.busid) : b \in Awaiting(d, serving.magic)
    BY <2>1, Zenon
  <2> QED
    BY <2>2 DEF Awaiting, Served
<1>3. serving.magic # None
  BY <1>1, NoneAssumption
<1>4. \A b \in chosen : b = c
  BY <1>2, <1>3 DEF MagicUnique
<1>5. serving.of \in open => serving.magic = magic[serving.of]
  BY DEF MailIsTrue, AboutSender, InFlight
<1>6. serving.of \in open => c = serving.of
  BY <1>1, <1>2, <1>3, <1>5 DEF MagicUnique
<1>7. c \in open /\ device[c] = serving.busid
  BY <1>2
<1>8. chosen = {c}
  BY <1>4
<1> QED
  BY <1>1, <1>6, <1>7, <1>8 DEF HoldsInv, Types

\* The answer is ACK if a file was authenticated, and that is the sender's if it is open.
LEMMA HandleKeepsMail ==
  ASSUME HoldsInv, MagicUnique, MailIsTrue, HandleRequest
  PROVE  MailIsTrue'
<1>1. PICK chosen \in {{}, UNION {Awaiting(d, serving.magic) : d \in Served(serving.busid)}} :
        auth' = auth \cup chosen /\ serving' = Answer(serving, chosen # {})
  BY DEF HandleRequest
<1>2. /\ serving # None /\ serving.kind = "request"
      /\ UNCHANGED <<step, device, open, magic, net>>
  BY DEF HandleRequest, call
<1>3. InFlight' \subseteq InFlight \cup {serving'}
  BY <1>2 DEF InFlight
<1>4. ASSUME NEW m \in InFlight PROVE AboutSender(m)'
  <2>1. AboutSender(m)
    BY DEF MailIsTrue
  <2> QED
    BY <1>1, <1>2, <2>1 DEF AboutSender
<1>5. AboutSender(serving)'
  <2>1. /\ serving'.kind = "answer" /\ serving'.of = serving.of
        /\ serving'.ok = (chosen # {})
    BY <1>1 DEF Answer
  <2>2. step[serving.of] \notin BeforeRequest
    BY <1>2 DEF MailIsTrue, AboutSender, InFlight
  <2>3. ASSUME chosen # {}, serving.of \in open PROVE serving.of \in auth'
    <3>1. PICK b \in chosen : TRUE
      BY <2>3
    <3>2. b = serving.of
      BY <1>2, <2>3, ChosenFile
    <3> QED
      BY <1>1, <3>1, <3>2
  <2> QED
    BY <1>2, <2>1, <2>2, <2>3 DEF AboutSender
<1>6. ASSUME NEW m \in InFlight' PROVE AboutSender(m)'
  <2>1. CASE m \in InFlight
    BY <1>4, <2>1
  <2>2. CASE m = serving'
    BY <1>5, <2>2 DEF AboutSender
  <2> QED
    BY <1>3, <2>1, <2>2
<1> QED
  BY <1>6 DEF MailIsTrue

\* Whatever is sent, lost, late or answered, what is under way stays true of its sender.
LEMMA StepKeepsMail ==
  ASSUME HoldsInv, MagicUnique, MailIsTrue, [Next]_vars
  PROVE  MailIsTrue'
<1> DEFINE Quiet == InFlight' \subseteq InFlight /\ SendersKeep
<1>1. Quiet => MailIsTrue'
  BY QuietKeepsMail
<1> USE DEF SendersKeep, BeforeRequest
<1>2. ASSUME NEW c \in Call, NEW d \in Device, Open(c, d) PROVE Quiet
  BY <1>2 DEF Open, OpenFile, Goto, InFlight, server, HoldsInv, Types
<1>3. ASSUME NEW c \in Call, \/ Probe(c, "probe", "check", "magic")
                             \/ Probe(c, "again", "check", "display")
      PROVE  Quiet
  BY <1>3 DEF Probe, Goto, InFlight, kernel, server, HoldsInv, Types
<1>4. ASSUME NEW c \in Call, NEW s \in Ended, Goto(c, s), Release(c),
             UNCHANGED <<device, socket, net, serving>>
      PROVE  Quiet
  BY <1>4 DEF Release, CloseFile, Goto, InFlight, HoldsInv, Types, Ended
<1>5. ASSUME NEW c \in Call, drmGetMagic(c) PROVE Quiet
  <2>1. UNCHANGED <<device, socket, net, serving>> /\ step[c] = "magic"
    BY <1>5 DEF drmGetMagic, server
  <2>2. CASE /\ Goto(c, "send") /\ UNCHANGED <<open, auth>>
             /\ \E m \in FreeMagic(device[c]) : magic' = [magic EXCEPT ![c] = m]
    BY <2>1, <2>2 DEF Goto, InFlight, HoldsInv, Types
  <2>3. CASE Goto(c, "null") /\ Release(c)
    BY <1>4, <2>1, <2>3 DEF Ended
  <2> QED
    BY <1>5, <2>2, <2>3 DEF drmGetMagic
<1>6. ASSUME NEW c \in Call, ReceiveAnswer(c) PROVE Quiet
  BY <1>6 DEF ReceiveAnswer, Goto, InFlight, kernel, server, HoldsInv, Types
<1>7. ASSUME NEW c \in Call, OpenDisplay(c) PROVE Quiet
  BY <1>7 DEF OpenDisplay, Goto, InFlight, server, HoldsInv, Types
<1>8. ASSUME NEW c \in Call, Check(c) PROVE Quiet
  <2>1. UNCHANGED <<device, socket, net, serving>>
    BY <1>8 DEF Check, server
  <2>2. ASSUME NEW s \in {"not ready", "context"}, Goto(c, s), UNCHANGED <<open, auth, magic>> PROVE Quiet
    BY <2>1, <2>2 DEF Goto, InFlight, HoldsInv, Types
  <2>3. CASE Goto(c, "null") /\ Release(c)
    BY <1>4, <2>1, <2>3 DEF Ended
  <2> QED
    BY <1>8, <2>2, <2>3 DEF Check
<1>9. ASSUME NEW c \in Call, compute_free_context(c) PROVE Quiet
  <2>1. Goto(c, "freed") /\ Release(c) /\ UNCHANGED <<device, socket, net, serving>>
    BY <1>9 DEF compute_free_context, server
  <2> QED
    BY <1>4, <2>1 DEF Ended
<1>10. CASE StartDaemon
  BY <1>1, <1>10 DEF StartDaemon, InFlight, call
<1>11. CASE DaemonDies
  BY <1>1, <1>11 DEF DaemonDies, InFlight, call
<1>12. CASE ReceiveRequest
  BY <1>1, <1>12 DEF ReceiveRequest, InFlight, call, kernel
<1>13. CASE SendAnswer
  BY <1>1, <1>13 DEF SendAnswer, Sent, InFlight, call, kernel
<1>14. CASE UNCHANGED vars
  BY <1>1, <1>14 DEF vars, InFlight, call, kernel, server
<1> HIDE DEF Quiet
<1> QED
  BY <1>1, <1>2, <1>3, <1>5, <1>6, <1>7, <1>8, <1>9, <1>10, <1>11, <1>12, <1>13, <1>14, SendKeepsMail, HandleKeepsMail, Actions

-----------------------------------------------------------------------------
(* Theorems.                                                               *)

\* The state is always well formed, and what a call holds follows from its step.
THEOREM HoldsInvariance == Spec => []HoldsInv
<1>1. Init => HoldsInv
  BY InitEstablishes DEF IInv, HoldsInv
<1>2. HoldsInv /\ [Next]_vars => HoldsInv'
  BY StepKeepsHolds
<1> QED
  BY <1>1, <1>2, PTL DEF Spec

\* A context has an open, authenticated file, and NULL leaves neither a file
\* nor a display open, whatever the network, the daemon and the other processes
\* did meanwhile.
THEOREM Returns == Spec => []ReturnsAsPromised
<1>1. HoldsInv => ReturnsAsPromised
  BY DEF HoldsInv, Holds, ReturnsAsPromised, Ended
<1> QED
  BY <1>1, HoldsInvariance, PTL

\* Two files of one device that are open at the same time never have the same
\* number, so that the daemon authenticates one file or none.
THEOREM MagicIsUnique == Spec => []MagicUnique
<1>1. Init => MagicUnique
  BY InitEstablishes DEF IInv
<1>2. HoldsInv /\ MagicUnique /\ [Next]_vars => MagicUnique'
  BY StepKeepsMagicUnique
<1> QED
  BY <1>1, <1>2, HoldsInvariance, PTL DEF Spec

\* Datagrams in flight are true of the call that sent them.
THEOREM MailInvariance == Spec => []MailIsTrue
<1>1. Init => MailIsTrue
  BY InitEstablishes DEF IInv
<1>2. HoldsInv /\ MagicUnique /\ MailIsTrue /\ [Next]_vars => MailIsTrue'
  BY StepKeepsMail
<1> QED
  BY <1>1, <1>2, HoldsInvariance, MagicIsUnique, PTL DEF Spec

\* The daemon's ACK is true of the file it is about as long as that is open, for
\* any number of calls and ports that are given out again at once, any order of
\* requests, losses and restarts of the daemon.
THEOREM AckTrue == Spec => []AckIsTrue
<1>1. MailIsTrue => AckIsTrue
  BY DEF MailIsTrue, AckIsTrue, AboutSender, InFlight
<1> QED
  BY <1>1, MailInvariance, PTL

\* However late a request of drmServer is, it authenticates one file at most, of the
\* device it was sent for, and another than that of its sender only after the
\* sender's was closed.
THEOREM OneFileAuthenticated == Spec => AuthenticatesOneFile
<1> DEFINE OneFile ==
      serving # None /\ serving' # serving =>
        \A c \in auth' \ auth :
          /\ auth' \ auth = {c}
          /\ device[c] = device[serving.of]
          /\ c = serving.of \/ serving.of \notin open
<1>1. HoldsInv /\ MagicUnique /\ MailIsTrue /\ [Next]_vars => [OneFile]_vars
  <2> SUFFICES ASSUME HoldsInv, MagicUnique, MailIsTrue, [Next]_vars PROVE OneFile
    OBVIOUS
  <2>1. CASE HandleRequest
    <3>1. PICK chosen \in {{}, UNION {Awaiting(d, serving.magic) : d \in Served(serving.busid)}} :
            auth' = auth \cup chosen
      BY <2>1 DEF HandleRequest
    <3>2. serving # None /\ serving.kind = "request"
      BY <2>1 DEF HandleRequest
    <3>3. ASSUME NEW c \in auth' \ auth
          PROVE  /\ auth' \ auth = {c} /\ device[c] = device[serving.of]
                 /\ c = serving.of \/ serving.of \notin open
      <4>1. c \in chosen
        BY <3>1
      <4>2. chosen = {c} /\ device[c] = device[serving.of] /\ (serving.of \in open => c = serving.of)
        BY <3>2, <4>1, ChosenFile
      <4> QED
        BY <3>1, <4>2
    <3> QED
      BY <3>3
  <2>2. CASE DaemonDies \/ SendAnswer
    BY <2>2 DEF DaemonDies, SendAnswer, kernel
  <2>3. CASE ReceiveRequest
    BY <2>3 DEF ReceiveRequest
  <2>4. CASE UNCHANGED serving
    BY <2>4
  <2>5. ASSUME NEW c \in Call,
               \/ \E d \in Device : Open(c, d)
               \/ Probe(c, "probe", "check", "magic") \/ Probe(c, "again", "check", "display")
               \/ drmGetMagic(c) \/ SendRequest(c) \/ ReceiveAnswer(c) \/ OpenDisplay(c) \/ Check(c)
               \/ compute_free_context(c)
        PROVE  UNCHANGED serving
    BY <2>5 DEF Open, Probe, drmGetMagic, SendRequest, ReceiveAnswer, OpenDisplay, Check, compute_free_context,
                server
  <2>6. StartDaemon \/ UNCHANGED vars => UNCHANGED serving
    BY DEF StartDaemon, vars, server
  <2> HIDE DEF OneFile
  <2> QED
    BY <2>1, <2>2, <2>3, <2>4, <2>5, <2>6, Actions
<1> QED
  BY <1>1, HoldsInvariance, MagicIsUnique, MailInvariance, PTL DEF Spec, AuthenticatesOneFile
=============================================================================
