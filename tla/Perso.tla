------------------------------- MODULE Perso ---------------------------------
(***************************************************************************)
(* The personalization firmware: app_main of main/IoTMate.c, espPerso and  *)
(* the HTTP handlers of main/espPerso.c, over the device identity and the  *)
(* trusted store.                                                          *)
(*                                                                         *)
(* Two tasks run on the device.  The main task boots, generates the key,   *)
(* starts the server and then spins for ever; the server's one task serves *)
(* the requests one at a time.  A client speaks to the server over         *)
(* connections.  The chip may restart between any two steps.               *)
(***************************************************************************)
EXTENDS DeviceID

CONSTANTS
  Conns,      \* the connections clients may open
  NoConn,     \* the server task serves none
  NoArg,      \* a request body without the field its handler looks for
  NvsFaults   \* may the non-volatile storage fail

ASSUME PersoAssumption ==
  /\ NoConn \notin Conns
  /\ NoArg \notin Orders \cup Certs
  /\ NvsFaults \in BOOLEAN

VARIABLES
  boot,      \* the number of times the chip has started
  nvs,       \* FLASH: the committed "status" entry
  nvsSet,    \* FLASH: the "status" entry as nvs_get_u8 reads it
  pc,        \* RAM: what the main task does next
  gPERSO,    \* RAM: the handle on the "status" namespace is open
  gCertBuf,  \* RAM: the buffer every genCSR answer is sent from
  leftover,  \* RAM: the orders whose names may be left on the server task's stack
  httpd,     \* RAM: what the server task does next
  serving,   \* RAM: the connection whose DevIDfinal it is in
  link, bits, \* RAM: the Wi-Fi link and its event group
  conns      \* the connections, with what the client knows of each

INSTANCE StationLink

radioVars == << link, bits >>
nvsVars == << nvs, nvsSet >>
bufferVars == << gCertBuf, leftover >>
serverVars == << bufferVars, httpd, serving >>
vars == << files, mounted, gINT, gDevIDopen, gDevIDKeyGen, pk, boot, nvs, nvsSet, pc,
           gPERSO, gCertBuf, leftover, httpd, serving, link, bits, conns >>

NVS == {"NOT_FOUND", "NOT_INIT", "INIT"}
MainSteps == {"nvs_open", "register", "format", "derive", "genKey", "writeKey",
              "closeKey", "wifi", "connecting", "webserver", "spin", "stopped"}
ServerSteps == {"down", "idle", "closeCert", "respond", "setStatus", "hung"}

Kinds == {"status", "genCSR", "DevIDfinal"}
Args == Orders \cup Certs \cup {NoArg}
Named(arg) == {arg} \cap Orders    \* the order whose names a body holds
\* What an answer says: the two JSON bodies, the 408 of a receive timeout, or the
\* content of gCertBuf, which is then in csr (NoArg for the empty string).
Bodies == {"whole", "part"}
Says == {"nothing", "Ready", "Init", "408", "CSR"}

\* dev: is the request on the device; cli: what the client knows; body: whether the answer was
\* made from all of the body or from a part of it; at: the boot that answered.
Conn == [dev : {"none", "pending"}, cli : {"idle", "wait", "answer", "error"},
         kind : Kinds, arg : Args, body : Bodies, says : Says,
         csr : CSRs \cup {NoArg}, at : 0 .. MaxBoots]
IdleConn == [dev |-> "none", cli |-> "idle", kind |-> "status", arg |-> NoArg,
             body |-> "whole", says |-> "nothing", csr |-> NoArg, at |-> 0]
GivenUp == [IdleConn EXCEPT !.cli = "error"]    \* what a client knows of a lost request

PersoTypeOK ==
  /\ boot \in 1 .. MaxBoots
  /\ nvs \in NVS
  /\ nvsSet \in NVS
  /\ pc \in MainSteps
  /\ gPERSO \in BOOLEAN
  /\ gCertBuf \in CSRs \cup {NoArg}
  /\ leftover \subseteq Orders
  /\ httpd \in ServerSteps
  /\ serving \in Conns \cup {NoConn}
  /\ LinkTypeOK
  /\ conns \in [Conns -> Conn]

\* Every variable has its type.
TypeOK == TPTypeOK /\ DevTypeOK /\ PersoTypeOK

\* A device that leaves the factory: nothing in flash, and its first start.
Init ==
  /\ TPInit0
  /\ DevInit0
  /\ LinkInit
  /\ boot = 1
  /\ nvs = "NOT_FOUND"
  /\ nvsSet = "NOT_FOUND"
  /\ pc = "nvs_open"
  /\ gPERSO = FALSE
  /\ gCertBuf = NoArg
  /\ leftover = {}
  /\ httpd = "down"
  /\ serving = NoConn
  /\ conns = [c \in Conns |-> IdleConn]

------------------------------------------------------------------------------
(* The main task.                                                          *)

MainGoes(from, to) == pc = from /\ pc' = to

\* nvs_open and nvs_get_u8.  A status that was never set is set to NOT_INIT, and the
\* result of that call is not looked at; any other error stops the device for good.
\* do_perso is computed from the status and then overwritten with true.
ReadStatus ==
  /\ \/ /\ MainGoes("nvs_open", "register")
        /\ gPERSO' = TRUE
        /\ nvsSet' = IF nvsSet = "NOT_FOUND" THEN "NOT_INIT" ELSE nvsSet
     \/ /\ NvsFaults
        /\ MainGoes("nvs_open", "stopped")
        /\ UNCHANGED << gPERSO, nvsSet >>
  /\ UNCHANGED << nvs, storeVars, devVars, serverVars, boot, radioVars, conns >>

\* DeviceID_open: TPinit mounts, formats and derives the key.
Register ==
  /\ MainGoes("register", "format")
  /\ TPinitRegister
  /\ UNCHANGED << gPERSO, nvsVars, devVars, serverVars, boot, radioVars, conns >>

Format ==
  /\ MainGoes("format", "derive")
  /\ TPinitFormat
  /\ UNCHANGED << gPERSO, nvsVars, devVars, serverVars, boot, radioVars, conns >>

Open ==
  /\ MainGoes("derive", "genKey")
  /\ DeviceID_opened
  /\ UNCHANGED << gPERSO, nvsVars, serverVars, boot, radioVars, conns >>

\* DeviceID_genKey: the pair in RAM, then TPwrite of its PEM.  A failure stops the
\* device for good.
GenKey ==
  /\ \/ MainGoes("genKey", "writeKey") /\ GenKeyPair(boot)
     \/ MainGoes("genKey", "stopped") /\ GenKeyFails(boot)
  /\ UNCHANGED << gPERSO, nvsVars, storeVars, serverVars, boot, radioVars, conns >>

WriteKey ==
  /\ \/ MainGoes("writeKey", "closeKey") /\ TPwriteOpen(KeyFile)
     \/ MainGoes("writeKey", "stopped") /\ TPwriteFails
  /\ UNCHANGED << gPERSO, nvsVars, devVars, serverVars, boot, radioVars, conns >>

CloseKey ==
  /\ MainGoes("closeKey", "wifi")
  /\ TPwriteClose(KeyFile, KeyPem(pk))
  /\ UNCHANGED << gPERSO, nvsVars, devVars, serverVars, boot, radioVars, conns >>

\* A changed wifi_connection, which waits for WIFI_CONNECTED_BIT alone.
WaitsForConnection ==
  /\ link = "up"
  /\ MainGoes("connecting", "webserver")
  /\ UNCHANGED << gPERSO, nvsVars, storeVars, devVars, serverVars, boot, radioVars, conns >>

\* wifi_connection starts the station and waits until it has an address or gave up.
\* It returns nothing, so the server is started in either case.
StartWifi ==
  /\ MainGoes("wifi", "connecting")
  /\ LinkStart
  /\ UNCHANGED << gPERSO, nvsVars, storeVars, devVars, serverVars, boot, conns >>

\* xEventGroupWaitBits returns once a bit is set; the address may be lost again by then.
WifiReturns ==
  /\ bits
  /\ MainGoes("connecting", "webserver")
  /\ UNCHANGED << gPERSO, nvsVars, storeVars, devVars, serverVars, boot, radioVars, conns >>

\* start_webserver; when httpd_start fails the main task spins all the same.
StartServer ==
  /\ MainGoes("webserver", "spin")
  /\ httpd' \in {"idle", "down"}
  /\ UNCHANGED << gPERSO, nvsVars, storeVars, devVars, bufferVars, serving, boot, radioVars,
                  conns >>

MainTask == \/ ReadStatus \/ Register \/ Format \/ Open \/ GenKey \/ WriteKey \/ CloseKey
            \/ StartWifi \/ WifiReturns \/ StartServer

------------------------------------------------------------------------------
(* The server task.  httpd takes one request at a time and runs its        *)
(* handler to the end.                                                     *)

\* The client gets the answer: it still waits for it and the link carries it.
Answer(c, says, csr, body) ==
  /\ conns[c].cli = "wait"
  /\ link = "up"
  /\ conns' = [conns EXCEPT ![c] = [@ EXCEPT !.dev = "none", !.cli = "answer",
                                   !.says = says, !.csr = csr, !.body = body, !.at = boot]]

\* The request is over on the device, and its client will hear nothing of it.
Unanswered(c) ==
  conns' = [conns EXCEPT ![c] = GivenUp]

\* httpd_resp_send: it succeeds once the answer is in the socket's buffer, which is
\* not yet that the client has it.
Respond(c, says, csr, body) == Answer(c, says, csr, body) \/ Unanswered(c)

\* The start of every POST handler whose httpd_req_recv fails: a timeout is answered
\* 408, anything else closes the socket.
RecvFails(c) == Answer(c, "408", NoArg, "whole") \/ Unanswered(c)

\* A changed server, which passes over a request whose client has given up.
TakesAwaited(c, kind) ==
  httpd = "idle" /\ conns[c].dev = "pending" /\ conns[c].kind = kind /\ conns[c].cli = "wait"

\* httpd calls the handler of a request that has arrived.
Takes(c, kind) == httpd = "idle" /\ conns[c].dev = "pending" /\ conns[c].kind = kind

\* status_handler: "Ready", whatever the status entry says.
Status(c) ==
  /\ Takes(c, "status")
  /\ Respond(c, "Ready", NoArg, "whole")
  /\ UNCHANGED << storeVars, devVars, nvsVars, serverVars, boot, pc, gPERSO, radioVars >>

\* The subjects cJSON_Parse may find in content[100], which nobody clears or terminates.
\* It stops at the end of a whole body; behind a part of one, all that one httpd_req_recv
\* got or the buffer could take, it reads what earlier bodies left there, whether that
\* parses or not.
Found(arg, body) == IF body = "whole" THEN {Named(arg)} ELSE SUBSET (Named(arg) \cup leftover)

\* A changed genCSR_handler, which sends the buffer before the request is made.
SendsBufferFirst(c) ==
  /\ Takes(c, "genCSR")
  /\ leftover' = leftover \cup Named(conns[c].arg)
  /\ \E r \in DeviceID_genCSR(gCertBuf, Named(conns[c].arg)) :
       gCertBuf' = r.buf /\ Respond(c, "CSR", gCertBuf, "whole")
  /\ UNCHANGED << storeVars, devVars, nvsVars, httpd, serving, boot, pc, gPERSO, radioVars >>

\* genCSR_handler.  A body without the name fields makes the subject empty.  The result of
\* DeviceID_genCSR is not looked at: what gCertBuf then holds is sent, and whether that
\* succeeds is not looked at either.  A recv that fails may have stored something as well.
GenCSR(c) ==
  /\ Takes(c, "genCSR")
  /\ \/ /\ RecvFails(c)
        /\ leftover' \in {leftover, leftover \cup Named(conns[c].arg)}
        /\ UNCHANGED gCertBuf
     \/ /\ leftover' = leftover \cup Named(conns[c].arg)
        /\ \E body \in Bodies : \E subject \in Found(conns[c].arg, body) :
             \E r \in DeviceID_genCSR(gCertBuf, subject) :
               /\ gCertBuf' = r.buf
               /\ Respond(c, "CSR", r.buf, body)
  /\ UNCHANGED << storeVars, devVars, nvsVars, httpd, serving, boot, pc, gPERSO, radioVars >>

\* devIDfinal_handler as far as the fopen of the certificate file: the body is received, one
\* in which no DevID field is found or a certificate that cannot be stored ends it.  Behind a
\* part of a body, with the field or without, one may be found that an earlier use of the
\* memory left there.
DevIDfinal(c) ==
  /\ Takes(c, "DevIDfinal")
  /\ \/ RecvFails(c) /\ UNCHANGED << storeVars, httpd, serving >>
     \/ Unanswered(c) /\ UNCHANGED << storeVars, httpd, serving >>
     \/ /\ StoreCertOpen
        /\ httpd' = "closeCert"
        /\ serving' = c
        /\ UNCHANGED conns
  /\ UNCHANGED << devVars, nvsVars, bufferVars, boot, pc, gPERSO, radioVars >>

\* The text of the DevID field as the handler may have it: the certificate of a whole body,
\* or what a part of one and the memory behind it give.
Texts(arg) == ({arg} \cap Certs) \cup {Mangled}

CloseCert ==
  /\ httpd = "closeCert"
  /\ \E text \in Texts(conns[serving].arg) : StoreCertClose(text)
  /\ httpd' = "respond"
  /\ UNCHANGED << devVars, nvsVars, bufferVars, serving, boot, pc, gPERSO, radioVars, conns >>

\* A changed devIDfinal_handler, which returns after its answer without the mark.
SendsInitOnly ==
  /\ httpd = "respond"
  /\ Respond(serving, "Init", NoArg, "whole")
  /\ httpd' = "idle"
  /\ serving' = NoConn
  /\ UNCHANGED << storeVars, devVars, nvsVars, bufferVars, boot, pc, gPERSO, radioVars >>

\* The final answer.  When it cannot be sent the handler returns without the mark.
SendInit ==
  /\ httpd = "respond"
  /\ \/ Respond(serving, "Init", NoArg, "whole") /\ httpd' = "setStatus"
     \/ Unanswered(serving) /\ httpd' = "idle"
  /\ serving' = NoConn
  /\ UNCHANGED << storeVars, devVars, nvsVars, bufferVars, boot, pc, gPERSO, radioVars >>

\* A changed devIDfinal_handler, which closes the handle before it sets the mark.
ClosesBeforeMark ==
  /\ httpd = "setStatus"
  /\ gPERSO' = FALSE
  /\ httpd' = "hung"
  /\ UNCHANGED << storeVars, devVars, nvsVars, bufferVars, serving, boot, pc, radioVars, conns >>

\* The mark, set but never committed; then the handle is closed for the rest of this
\* boot.  nvs_set_u8 on a closed handle fails, and the handler loops for ever.
SetStatus ==
  /\ httpd = "setStatus"
  /\ \/ /\ gPERSO
        /\ nvsSet' = "INIT"
        /\ gPERSO' = FALSE
        /\ httpd' = "idle"
     \/ /\ ~gPERSO \/ NvsFaults
        /\ httpd' = "hung"
        /\ UNCHANGED << nvsSet, gPERSO >>
  /\ UNCHANGED << storeVars, devVars, nvs, bufferVars, serving, boot, pc, radioVars, conns >>

Serve(c) == Status(c) \/ GenCSR(c) \/ DevIDfinal(c)
Finish == CloseCert \/ SendInit \/ SetStatus

------------------------------------------------------------------------------
(* The clients, the link and the power supply.                             *)

\* A CA only certifies a key that some boot has generated.
ArgsOf(kind) ==
  CASE kind = "status" -> {NoArg}
    [] kind = "genCSR" -> Orders \cup {NoArg}
    [] OTHER -> {c \in Certs : c.key <= boot} \cup {NoArg}

\* A client sends a request.  Nothing takes it without a link or a server.
Send(c, kind, arg) ==
  /\ conns[c].cli = "idle"
  /\ conns' = [conns EXCEPT ![c] =
       IF link = "up" /\ httpd # "down"
         THEN [IdleConn EXCEPT !.dev = "pending", !.cli = "wait", !.kind = kind, !.arg = arg]
         ELSE GivenUp]
  /\ UNCHANGED << storeVars, devVars, nvsVars, serverVars, boot, pc, gPERSO, radioVars >>

\* A client gives up, while its request may still be served.
GiveUp(c) ==
  /\ conns[c].cli = "wait"
  /\ conns' = [conns EXCEPT ![c].cli = "error"]
  /\ UNCHANGED << storeVars, devVars, nvsVars, serverVars, boot, pc, gPERSO, radioVars >>

\* A client is done with an answer or an error.
Done(c) ==
  /\ conns[c].cli \in {"answer", "error"}
  /\ conns[c].dev = "none"
  /\ conns' = [conns EXCEPT ![c] = IdleConn]
  /\ UNCHANGED << storeVars, devVars, nvsVars, serverVars, boot, pc, gPERSO, radioVars >>

\* The Wi-Fi event handler at work.
Radio ==
  /\ LinkChanges
  /\ UNCHANGED << storeVars, devVars, nvsVars, serverVars, boot, pc, gPERSO, conns >>

\* Power loss, or an abort, assert or ESP_ERROR_CHECK that fires: RAM and sockets are
\* gone, and of a status that was set and not committed either value may be left.  The
\* program starts over; what old stacks hold is not erased before it does.
Restart ==
  /\ boot < MaxBoots
  /\ boot' = boot + 1
  /\ TPrestart
  /\ DevRestart
  /\ nvs' \in {nvs, nvsSet}
  /\ nvsSet' = nvs'
  /\ pc' = "nvs_open"
  /\ gPERSO' = FALSE
  /\ gCertBuf' = NoArg
  /\ UNCHANGED leftover
  /\ httpd' = "down"
  /\ serving' = NoConn
  /\ link' = "off"
  /\ bits' = FALSE
  /\ conns' = [c \in Conns |->
       IF conns[c].cli \in {"wait", "error"} THEN GivenUp ELSE conns[c]]

Client(c) ==
  \/ \E kind \in Kinds : \E arg \in ArgsOf(kind) : Send(c, kind, arg)
  \/ GiveUp(c)
  \/ Done(c)

Next ==
  \/ MainTask
  \/ Finish
  \/ \E c \in Conns : Serve(c) \/ Client(c)
  \/ Radio
  \/ Restart

Spec == Init /\ [][Next]_vars
------------------------------------------------------------------------------
(* Fairness.  Both tasks are preemptive FreeRTOS tasks that get to run, and *)
(* httpd walks through its sockets in turn, so a request that keeps being   *)
(* ready is taken (strong fairness per connection: the server is not idle   *)
(* all the time).  Clients, radio and power supply owe nothing.             *)

Fairness ==
  /\ WF_vars(MainTask)
  /\ WF_vars(Finish)
  /\ \A c \in Conns : SF_vars(Serve(c))

FairSpec == Spec /\ Fairness

------------------------------------------------------------------------------
(* Properties.                                                             *)

\* A server that answers has the key pair of this boot in the store, whole, under an
\* initialised cipher: the formatting of TPinit and the key of an earlier boot are behind
\* it.  (A short fwrite is the exception: TPwrite does not notice it.)
ServerHasKey ==
  httpd # "down" =>
    /\ gINT /\ mounted
    /\ pk = boot
    /\ ~FlashFaults => files[KeyFile] = KeyPem(boot)

\* The shared CSR buffer never holds a request for a key of an earlier boot, and what a
\* client was sent during this boot is a request for the key in the store.
CsrMatchesStore ==
  LET OfThisBoot(csr) == csr # NoArg => csr.key = boot /\ files[KeyFile] = KeyPem(boot)
  IN  /\ OfThisBoot(gCertBuf)
      /\ \A c \in Conns : conns[c].cli = "answer" /\ conns[c].at = boot
                         => OfThisBoot(conns[c].csr)

\* Two clients share gCertBuf, and none is sent what it holds of the other one: as long as
\* the crypto library does not fail, an answer is never empty, and its subject is the one
\* asked for, when the body came whole.  When it did not, names of bodies that came before
\* may be among those of the subject, or all it has.
CsrIsTheClients ==
  ~CryptoFaults /\ ~FlashFaults =>
    \A c \in Conns : conns[c].cli = "answer" /\ conns[c].says = "CSR" =>
      /\ conns[c].csr # NoArg
      /\ conns[c].body = "whole" => conns[c].csr.subject = Named(conns[c].arg)
      /\ conns[c].csr.subject \subseteq Named(conns[c].arg) \cup leftover

\* A client that was told "Init" in this boot can rely on the mark: it is set, or the
\* server is about to set it (the answer is sent before nvs_set_u8), or that call failed.
\* And the certificate is in the store, or is being replaced.
InitAnswerIsTrue ==
  \A c \in Conns :
    conns[c].cli = "answer" /\ conns[c].says = "Init" /\ conns[c].at = boot =>
      /\ nvsSet = "INIT" \/ httpd = "setStatus" \/ (NvsFaults /\ httpd = "hung")
      /\ ~FlashFaults => Whole(CertFile) \/ httpd = "closeCert"

\* While the storage works, the server only hangs on a mark this boot has already set: the
\* first DevIDfinal of a boot closes the handle, the second one finds it closed.
HangsOnlyOnSecondMark ==
  httpd = "hung" /\ ~NvsFaults => nvsSet = "INIT" /\ ~gPERSO

\* Nothing is written to the store before its cipher has the system key, though TPwrite
\* does not test the flag that says so.
WritesUnderKey ==
  [][\A n \in Names : files'[n] # files[n] => gINT \/ files'[n] = NoFile]_vars

\* The device keeps what module DeviceIdentity promises: the key comes first, is never
\* replaced while the store lives, a certificate only exists beside it, and the status
\* turns INIT only with both in the store.
NoneOr(n) == IF Whole(n) THEN files[n] ELSE NoFile
Identity == INSTANCE DeviceIdentity WITH
  Keys <- Contents, Certs <- Contents, None <- NoFile,
  key <- NoneOr(KeyFile), cert <- NoneOr(CertFile), status <- (nvsSet = "INIT")
ImplementsIdentity == Identity!Spec

\* Every request that reached the device comes to an end, unless the server hangs.
RequestEnds ==
  \A c \in Conns : conns[c].dev = "pending" ~> (conns[c].dev = "none" \/ httpd = "hung")

\* A boot that has its link settled comes to the end of the start sequence, or stops on
\* an error it reports, or is cut short by a restart.
BootEnds ==
  \A b \in 1 .. MaxBoots :
    (boot = b /\ bits) ~> (pc \in {"spin", "stopped"} \/ boot > b)
------------------------------------------------------------------------------
(* The invariant behind these properties: it is inductive, and module      *)
(* Perso_proof derives them from it.                                       *)

\* The start sequence from a step to its end.
FromFormat == {"format", "derive", "genKey", "writeKey", "closeKey", "wifi", "connecting",
               "webserver", "spin"}
FromGenKey == FromFormat \ {"format", "derive"}
FromWriteKey == FromGenKey \ {"genKey"}
FromWifi == FromWriteKey \ {"writeKey", "closeKey"}

\* A client that is at rest has no request on the device, and no answer is from the future.
ConnInv ==
  \A c \in Conns :
    /\ conns[c].cli = "idle" => conns[c].dev = "none"
    /\ conns[c].at <= boot

MainInv ==
  /\ pc \in FromFormat => mounted
  /\ pc \in FromGenKey => gINT
  /\ pc \in FromWriteKey => pk = boot
  /\ pc \in {"derive", "genKey", "writeKey"} => files[KeyFile] = NoFile
  /\ pc = "closeKey" => files[KeyFile] = Torn
  /\ pc \in FromWifi => files[KeyFile] \in {KeyPem(boot), Torn}
  /\ pc \in FromWifi /\ ~FlashFaults => files[KeyFile] = KeyPem(boot)
  /\ pc \in FromFormat \ {"format", "spin"} => files[CertFile] = NoFile
  /\ httpd # "down" => pc = "spin"

ServerInv ==
  /\ httpd \in {"closeCert", "respond"} =>
       /\ serving \in Conns
       /\ conns[serving].dev = "pending"
  /\ httpd \in {"respond", "setStatus"} /\ ~FlashFaults => Whole(CertFile)

StatusInv ==
  /\ nvs = "INIT" => nvsSet = "INIT"
  /\ pc \in FromFormat \cup {"register"} => gPERSO \/ nvsSet = "INIT"
  /\ httpd = "hung" => (nvsSet = "INIT" /\ ~gPERSO) \/ NvsFaults

AnswerInv ==
  /\ gCertBuf # NoArg =>
       pc = "spin" /\ gCertBuf.key = boot /\ files[KeyFile] = KeyPem(boot)
  /\ \A c \in Conns : conns[c].cli = "answer" /\ conns[c].at = boot =>
       /\ pc = "spin"
       /\ conns[c].csr # NoArg =>
            conns[c].csr.key = boot /\ files[KeyFile] = KeyPem(boot)
       /\ conns[c].says = "Init" =>
            /\ nvsSet = "INIT" \/ httpd = "setStatus" \/ (NvsFaults /\ httpd = "hung")
            /\ ~FlashFaults => Whole(CertFile) \/ httpd = "closeCert"

\* The inductive invariant: what each point of the start sequence has behind it, what a
\* DevIDfinal in progress holds, what the status entry and its handle tell, and what an
\* answer of this boot still means.
IInv == TypeOK /\ ConnInv /\ MainInv /\ ServerInv /\ StatusInv /\ AnswerInv
=============================================================================
