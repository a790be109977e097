# A verification project for the ESP32 device personalization

This directory holds TLA+ specifications of the firmware in `main/` (app `IoTMate.c`,
personalization `espPerso.c`, identity `DeviceID.c`, store `TrustPlatform.c`), the TLC
configurations that run on small instances, and proofs that TLAPS verifies. The
firmware gives an ESP32 its identity: at start it generates a key pair into an encrypted
flash store, joins the production network, and serves three HTTP requests with which a
Node-RED flow fetches a certificate request, has a CA sign it and delivers the certificate.
The flow itself (`Node-RED Flows/`) and the mDNS component that the firmware declares as a
dependency (`managed_components/espressif__mdns`) are specified as well.

## 1. The system

| part | state | operations | interacts with |
|---|---|---|---|
| Trusted store (`TrustPlatform.c`) | the SPIFFS partition `TrustStore` in flash; in RAM: mounted, the derived key, `gINT` | `TPinit` (mount, format, derive key), `TPread`, `TPwrite` | called by DeviceID; flash and AES below it |
| Device identity (`DeviceID.c`) | key and certificate file (in the store); the key pair `pk`, `gDevIDopen`, `gDevIDKeyGen` | `DeviceID_open`, `_genKey`, `_genCSR`, `_storeCert`, `_close` | called by the main task (open, genKey) and by the server task (genCSR, storeCert) |
| Personalization (`espPerso.c`, `IoTMate.c`) | NVS entry `status`, its handle `gPERSO`, the buffer `gCertBuf` | `espPerso`, `start_webserver`, the handlers of `status`, `genCSR`, `DevIDfinal` | main task, httpd task, HTTP clients |
| Wi-Fi station (`espPerso.c`) | event group, `s_retry_num`, the event queue | `wifi_connection`, `wifi_event_handler`, `_set_static_ip` | event-loop task, Wi-Fi driver, network interface; the main task waits on the event group |
| Imprinting flow (`Node-RED Flows/Imprinting Flow.json`) | flow context `cachedPayload`, context `ALLOW`, messages under way | ping, status, genCSR, CSR to CA, DevIDfinal, clean cache | HTTP client of the firmware and of the CA |
| mDNS responder (`mdns.c`: probing, announcing, answering) | services, hosts and names; per interface and protocol a "pcb" with its state, probe list and scheduled packets | the actions of calls, interface events and received packets; sending a packet that is due | executed by the mDNS service task only |
| mDNS tasks (`mdns.c`: timer, action queue, searches) | the action queue, the list of scheduled packets, the searches | the timer's callback, the service task, queries | the timer posts what is due, the service task executes it, applications wait for queries |
| mDNS configuration calls (`mdns.c`: `mdns_hostname_set`, `mdns_service_add`, ...) | hostname, instance, delegated hosts, service list; a semaphore | the calls of an application's tasks, the actions they post | called from any task of an application; `main/` does not call them |
| mDNS console and socket port (`mdns_console.c`, `mdns_networking_socket.c`) | none of their own | command-line wrappers of the calls above; a host build's network port | not part of the firmware image |
| OLED driver (`components/ssd1306`) | a page buffer | draw calls over I2C | not called by `main/` |
| Application phase (`IoTMate.c` after `espPerso`) | none reached | `wifi_manager_start`, its callback | stands behind `espPerso`, which never returns |
| `tmp.c` | - | an early draft of the key generation | not compiled |

How it runs. `app_main` calls `espPerso` in the main task: read the status, open the
identity (which **formats** the store), generate and store a key pair, join the Wi-Fi, start
the server, spin for ever. `httpd` has one task that serves one request at a time, to the end
of its handler. The event loop is a third task. All communication between them is by shared
variables (store, event group, NVS handle), and each of them can be cut off at any point by
a loss of power, after which `app_main` starts again on what flash has kept.

What is hard:

- *crashes*: the store is formatted on every start while the NVS status is kept; files are
  truncated before they are rewritten; the status is set but never committed;
- *partial failure*: results of `fwrite`, `fclose`, `mbedtls_x509write_csr_pem`,
  `httpd_resp_send`, `esp_wifi_connect` are ignored or lost;
- *shared state*: one `gCertBuf` for all clients, a request body parsed in place with what
  earlier ones left on the stack, one NVS handle closed by the first `DevIDfinal` and used by
  the second;
- *order*: "Init" is answered before the status is set; the address event is posted behind
  a disconnect that is already queued; the flow reads its context after other nodes changed it;
- *several tasks on one list*: the mDNS calls look at the service list without the lock and
  post raw addresses; a query is tested for its end without the lock; all callers of
  `mdns_hostname_set` share one binary semaphore;
- *state machines driven by their own output*: an mDNS pcb goes from probe to probe, to
  announcing and to running only by the packets it has scheduled; anything that frees them,
  or puts another one beside them, stops it or lets it skip a probe; packets that were queued
  before an interface closed are handled after it;
- *waiting*: the main task waits without limit for the event group; a failing
  `nvs_set_u8` makes the only server task loop for ever; clients time out while their
  request is still served.

What makes each part correct:

- store and identity: what is read is what was written, padded; nothing is written before
  the cipher has its key; a key is never replaced while the store lives; a certificate exists
  only beside a key;
- personalization: what a client is told (a request for a key, "Init") is true of flash;
  a client gets the request it asked for, as far as its body came whole; requests and starts come to an end, and
  the ways in which the server can hang are exactly the known ones;
- station: it is always woken or has given up, gives up after a bounded number of attempts,
  and the main task learns of it;
- flow: the certificate a device is given is for the key it holds, and an order leaves the
  cache only when it has been used, or for a reason that can be named;
- mDNS responder: no record is answered that was not probed three times under its present
  name; no pcb is stranded between probing and running; nothing scheduled refers to a freed
  service; of two interfaces on one link one stays open;
- mDNS tasks: packets are sent in the order in which they were posted; a query ends once, for
  a reason, and always;
- mDNS calls: what a call has checked or found still holds when its action is executed, but
  for overtakings that are known; every waiting caller is accounted for.

`PROJECT.json` lists every hazard with its line and the properties aimed at it.

## 2. The modules

| module | models | how it corresponds to the code |
|---|---|---|
| `TrustPlatform` | the store | Variables `files`, `mounted`, `gINT`. `TPinit` and `TPwrite` are split where a power loss can fall between two effects on flash (`TPinitRegister`, `TPinitFormat`, `TPinitDerive`; `TPwriteOpen`, `TPwriteClose`). `TPread(n)` is the set of results it may return. A file holds an abstract value, or `Torn` when its bytes are not all there. |
| `TrustCipher` | the bytes behind a stored value | One `TPwrite` and one `TPread` with the CBC loops of `aes_encrypt` and `aes_decrypt` as a step per block, and a cut of the file between them. The block size, the byte, the block cipher and its inverse are constants: a permutation is all that is assumed of AES. It justifies that a whole file in `TrustPlatform` reads back as the value written (PEM text with zeros behind it), and that a `Torn` one does not. |
| `DeviceID` | the identity on the store | Adds `gDevIDopen`, `gDevIDKeyGen`, `pk`. A key is named by the boot that generated it, since each boot draws exactly one. `DeviceID_genCSR(buf, subject)` is the set of (result, buffer) pairs, with the result that reports success over an unchanged buffer. |
| `StationLink` | abstract Wi-Fi link | off, joining, up, failed, and "some bit of the event group is set". |
| `WifiStation` | the event handler, driver and event queue | One action per event and one per thing the driver does on its own; `wifi_connection` is `Start` and `Return`. Two history variables (`attempts`, `callFailed`) are read by no guard. |
| `Perso` | main task, server task, clients, restarts | `EXTENDS DeviceID`, takes the link from `StationLink`. `pc` walks through `espPerso`; `httpd` is the server task's position, with the points inside `devIDfinal_handler` (file open, file written, answer sent, mark set) apart. `conns` has one record per connection: is the request on the device, what the client knows, what it was told, from a whole body or a part, and by which boot. `leftover` is the orders whose names may still be on the stack where `genCSR_handler` has its buffer. |
| `DeviceIdentity` | abstract specification | Key, certificate, mark: what a personalization promises of flash. |
| `ImprintFlow` | the Node-RED flow | One action per stretch of a message between two HTTP requests (`GetStatus`, `GenDevMessage`, `PostGenCSR`, `P10Enroll`, `PostDevIDFinal`), since Node-RED runs one node after the other and lets other messages pass only while it waits. `cached` is the order in the flow context, `allow` the flag of "Device Status", `pass` the messages under way; the catch node is part of every action that can fail. The device is reduced to its key, its last request and its certificate, as `Perso` shows them: what it answers may be a stale request, one made from a part of the message, or a 408. |
| `MdnsResponder` | what the mDNS service task executes | One action per action type that changes registry or pcbs, per kind of received record that concerns us, and per interface event; `TxHandle` is the sending of a due packet. A pcb record holds `state`, `probe_*`, its scheduled packets, and the history `asked`. The record-level functions (`InitPcbProbe`, `AnnouncePcb`, `RemoveFromPcb`, `TxHandlePacket`, ...) are the C functions of the same names. `Kind` is the type of a service, by which a removal looks for the question it frees (`FreedQuestions`). |
| `MdnsTask` | how the work gets done | The timer's two halves (`SchedulerRun`, `SearchRun`), the service task (`Receive`, then the execution of the action taken), the queries of applications with their allocation, wait, test, end and freeing, and the clock. What another action does is abstracted to its effect on packets and searches (`Other`). |
| `MdnsCalls` | the calls of several tasks | A call is one step up to its lookup (`Call...`) and one for the posting (`Send`), because the lookup holds no lock; the actions execute in queue order. `task` is what a caller is at: ready to post, polling for its service, waiting for the semaphore, or hung in a lookup that never ends. |
| `MdnsLists` | taking elements out of the component's linked lists | `Without(list, S)` is what `queueDetach` leaves when it is done for every element of `S`. A recursive function, so that it can be reasoned about. |
| `MCPerso`, `MCTrustCipher`, `MCMdns`, `MCMdnsTask`, `MCMdnsCalls`, `MCImprint` | model values, bounds and symmetry for TLC | |
| `PersoDocs`, `MdnsDocs` | statements of docs and comments | two about the personalization, one about the removal of a service |
| `Perso_proof`, `WifiStation_proof`, `TrustCipher_proof`, `ImprintFlow_proof`, `MdnsResponder_proof`, `MdnsTask_proof`, `MdnsCalls_proof` | theorems | |
| `MdnsLists_proof` | lemmas about lists, and induction up to a number | |

Composition: `Perso` uses the store and the identity as step formulas that it conjoins with
its own control, and the link by the abstract module; `WifiStation` is shown to implement
that abstract module, so what `Perso` assumes of the radio is what the event handler
delivers. One instance of `WifiStation` is one boot; restarts are in `Perso`.

The three mDNS modules look at one component from three sides, and each names what it
leaves to the others: `MdnsResponder` executes actions one after the other, whoever posted
them and whenever a packet is due; `MdnsTask` has the queue, the timer and the clock and only
the effect of an action on packets and searches; `MdnsCalls` has the calls before they are
queued, and of an action only what it does to the registry. What connects them is the action
queue, which is the same in the last two.

Abstraction. A handler is one step when nothing it does can be seen half-done: it runs in
the only server task and `genCSR` writes no flash. `devIDfinal_handler` is four steps because
a restart between its effects is observable. Keys, requests and certificates are records of
key and subject, a subject the set of orders whose names it has. An HTTP body is the order or
certificate it holds. What a handler finds in a body that came in part, or was cut, is any
mixture of its own names and those of earlier bodies, or nothing: `content[100]` of
`genCSR_handler` is neither cleared nor terminated (espPerso.c:210), and neither are the 2000
bytes of `devIDfinal_handler`, which in part may hold a text that is no certificate (`Mangled`),
stored as it is. What no body ever held is not found behind one. Logging and formatting are left out. A
changed version of an action ("A changed ...") stands beside some actions: a plausible
mistake at that place, used to show that a property notices it; no specification uses it.

What the mDNS modules and the flow abstract from:

- `MdnsResponder`: a name is whether it is set and whose it is; the collision handlers have
  one action per outcome of the comparison; a packet with several records of interest is
  several received packets; a packet that is due may come before or after any other; a delay
  because of failed probes is only a delay; allocations succeed; enabling a pcb that cannot be
  bound leaves everything as it was. System events come in any order and number, because a
  full queue refuses any of the actions they post and `mdns_netif_action` posts any. The
  questions of a probe are a set: where the code frees the first one of a type, the model frees
  any of that type.
- `MdnsTask`: a time is the ticks left until then, so the 32-bit clock does not start over; the
  time between two questions of a search is open; a packet affects the list or the searches,
  one of the two at a time; sending and asking leave no trace but in the lists.
- `MdnsCalls`: one service type, names that differ in more than case, allocations that succeed;
  the first hostname is set before any other call; ports, TXT items, subtypes and addresses,
  and the result a call returns, are left out. The limit and the duplicate are tested by two
  unlocked reads in the code, and by one here: `raced` and `outdated` except a service from any
  addition or renaming after them. Memory that was freed and is used may go wrong
  (`fault`, after which nothing happens) or be the memory of another service by then.
- `ImprintFlow`: what the dashboard shows and the wording of messages are left out; a request
  to the device may fail before or after the device has acted on it; the PKI may also refuse,
  which the flow does not take for an error.

The exceptions in the mDNS and flow properties are history variables that no guard reads:
`woken` (a pcb on which a late packet started a probe after it was closed), `early` and
`twice` (a query deleted, or finished, on the strength of a state read too early), `raced`
and `outdated` (a service whose checks were overtaken by another addition or a renaming),
`lost` (a semaphore given when it was given already), `late`, `failed` and `away` (an order
placed behind one a pass has taken, a failed request, a device that restarted or was not seen). Each is
set exactly where the code lets the overtaking happen, so the property says that nothing
else can go wrong. They are behaviours of the code, not of the model: a collision handler
calls `init_pcb_probe` without asking whether the pcb is open (mdns.c:3813), calls test limit
and duplicates before they post (mdns.c:5741), `mdns_query_async_delete` reads the state
without the lock (mdns.c:6306), and so on at the lines `PROJECT.json` names.

External code is modelled from how `main/` uses it: `httpd` (sequential handlers, answers
that may be lost), the HTTP clients, the Wi-Fi driver (one event per attempt), the network
interface (reports an address that is set, and again on later associations), the CA (signs
only keys some boot generated), NVS (an uncommitted value may or may not survive).

## 3. The runs

| run | bounds | shows |
|---|---|---|
| `perso` | 2 connections, 1 order, 2 starts, no faults | `ServerHasKey`: a server that answers has the key of this boot, whole; `CsrMatchesStore`: a request sent in this boot is for the key in the store; `CsrIsTheClients`: through the one buffer, a client whose body came whole is sent a request for its own subject; of a body in part, no names but its own and those of earlier bodies; `InitAnswerIsTrue`: "Init" means mark and certificate, up to the window between answer and mark; `HangsOnlyOnSecondMark`: only a repeated `DevIDfinal` hangs the server; `WritesUnderKey`; `ImplementsIdentity`: the firmware refines `DeviceIdentity` |
| `perso_faults` | 2 connections, no orders, 2 starts, failing crypto and NVS | the inductive invariant `IInv`, with the types; `RequestEnds` and `BootEnds` under fairness |
| `wifi` | `WIFI_RETRY` = 5 (the Kconfig default), failing API calls | `StationInv`: no lost wake-up; `AttemptsBounded`: a late reset costs at most one attempt more; `QueueShort`: three events at most; `ImplementsLink`: refines `StationLink`; `WaitEnds`: the main task waits for ever only after a call failed |
| `cipher` | blocks of 2 one-bit bytes, inputs of up to 3 blocks, lengths up to 5 | `ReadsBack`: every input comes back byte by byte with zeros behind it, and of a file cut at any length every whole block; `StaysInBuffer`: a buffer of whole blocks is not overrun; `CipherInv` |
| `mdns` | 2 interfaces that may be on one link, IPv4, 2 services of distinct types, 1 delegated host, 3 packets per pcb, 6 calls, events and packets | `NoDangling`: nothing scheduled or on a probe list refers to a freed service; `Driven`: a pcb that probes or announces has a packet that carries it on; `ProbesAlone`: while it probes, its probe is the only one; `ProbeListFits`: the probe list is held only while probing, so that its copy fits; `ProbedBeforeAnswered`: three probes under the present name; `DuplicateCovered`: an interface is held back only while its twin is open; `Settles`: probing and announcing end |
| `mdns_task` | a blocking and an asynchronous query, 2 packets, a queue of 2, 2 other actions, time limit 0, delays 0 and 1 | `TxInOrder`: posted packets are first in the list, in the order of the queue, so that none is skipped for good; `NoFreedSearch`: no list entry or action for a freed search, but for two named races; `EndsForAReason`; `NeverForgotten`: who waits for a query has something to wait for; `QueryReturns`: a blocked query returns even when the queue was full as it ran out of time |
| `mdns_api` | 2 tasks, 3 service addresses, 2 services at most, 1 instance name, 2 hostnames, a queue of 2, 4 calls | `SureCalls`: an action on a service finds it, unless a removal was executed or queued first; `OwnHost`: services of the own hostname follow it; `ChecksHold`: limit and uniqueness hold when the service is added, unless overtaken; `WaitersAccounted`: of the tasks in `mdns_hostname_set` exactly one for every lost give waits for ever |
| `imprint` | 3 orders, 2 messages, 3 starts or devices | `CertificateFits`: a device gets the certificate for its own last request unless it was away during the pass; `OrderKept`: an order leaves the cache with its certificate, or because a newer one takes its place; and a pass that has taken an order, replaced in the cache or not, ends with its certificate. Named exceptions: an order behind the one already taken (`late`), a device that answers a request for something else (`Unlike`), a failure, a device that was away |
| `first_boot` | violation | README.md:7, "triggered during the first Time Boot Process": `do_perso` is overwritten with true (espPerso.c:448), so every start formats the store and makes a new key, also on a device marked INIT |
| `csr_subject` | violation | espPerso.c:208, "content length would give length of string": a client whose body arrives in part is sent a request for the subject of another client's order (`SubjectIsOwn`; the buffer is parsed as a string at espPerso.c:235) |
| `mdns_twins` | violation | mdns.c:2617, "Find, remove and free answers and scheduled packets for service": with two services of one type the question of the other one is freed, and the removed one's stays (`ScheduledIsRegistered`; mdns.c:2665) |
| `wifi_stale` | violation | espPerso.c:156, "(WIFI_CONNECTED_BIT)": the bit is set by an address event handled after the disconnect |

Why the bounds are enough. Two connections give every overlap the single buffer, the single
NVS handle and the sequential server allow (a request being served, another one waiting,
given up or answered). Two starts give every restart point and what the second start finds;
nothing depends on the number of starts but the name of the key. One order, and bodies
without names, distinguish the subject of this request from the one of somebody else's, in the
buffer and on the stack; mixtures of two are among the states of `csr_subject`, and `CsrOwn` is
proved for any number. The connections are alike, so `perso`, which has no liveness, takes them
up to symmetry. The fault run needs no order, since faults do not look at
the subject. Three blocks have a first, a chained and a last one, and the length limit of 5 lets
a padded file be larger than any buffer the caller can name. What the bounds cut off is covered by the proofs, which hold for all values.

For the mDNS modules: one pair of interfaces is all that duplicates can concern, and protocols
do not see each other but through them; two services make the difference between removing one
of a probe list and the last of it, and their types differ in `mdns`, where the properties
except no service, and are one in `mdns_twins`; the longest hazard found (host name, service, open, close,
late packet, remove) takes six inputs, and sending in between costs none. A queue of two is
full after two actions and lets one overtake another; with a time limit of 0 a query is over
at the first tick, and delays of 0 and 1 put a packet before, behind or beside another. Two
tasks are enough for one lookup to be overtaken by one execution; three addresses allow one to
be listed, one to be added and one to be freed and used again. In the flow two messages
overlap, and a third order can come while they do; three starts are enough for a key that is
gone and one that came since.

Deadlock is not checked, because the system does stop: the last start may end with the main
task in its error loop or spinning over a server that hangs or a link that has failed, and a
station that has given up does nothing any more. The mDNS and flow runs bound their inputs,
and after the last one the system may be at rest.

## 4. Fairness

`Perso!Fairness`: weak fairness of the main task and of the handler in progress (both are
preemptive FreeRTOS tasks that the scheduler runs; the endless loops of the error paths are
states in which no action is enabled), and strong fairness of serving each connection
(`httpd` selects over its sockets and walks through all that are ready, so a request that is
ready again and again is taken). Nothing is assumed of clients, radio or power supply.
`BootEnds` therefore says "once the event group has a bit", and `WaitEnds` in `WifiStation`
says when that comes: there the event loop and the waiting main task are weakly fair, and so
is the driver's ending of an attempt, which it owes by a timeout of its own.

`MdnsResponder!Fairness`: weak fairness of sending a packet of each pcb. The timer callback
posts the first packet that is due again and again, and the service task is a FreeRTOS task
that takes whatever is queued. `MdnsTask!Fairness` has the parts of this: the clock ticks, both
halves of the timer's callback run, the service task takes and executes actions, and a
blocking query whose semaphore was given returns. Nobody has to make or delete a query or to
send anything, and the queue may be kept full by others only up to `MaxInputs`: an endless
flood of received packets can keep the timer from posting for ever, in the code as well.
`MdnsCalls` and `ImprintFlow` state no liveness: in both a caller or an order may wait for
ever, which `WaitersAccounted` and `OrderKept` account for.

## 5. What is proved

`Perso_proof`, for all connections, orders and numbers of starts and all faults
(`DeviceIDAssumption`, `PersoAssumption`: sentinels differ from data, there is a first start):

- `Invariance`: `IInv` holds in every reachable state. The safety properties are not
  inductive: that the CSR buffer matches the store depends on no key being written while the
  server runs, which depends on the main task having passed that point, which depends on the
  order format, derive, generate, write, serve. `MainInv` records what each point of the start
  sequence has behind it, `ServerInv` what a `DevIDfinal` in progress holds, `StatusInv` ties
  the mark to the closed handle, `ConnInv` and `AnswerInv` say what requests and answers of
  this boot still mean. `NextIInv` has a step per action.
- `TypeCorrect`, `ServerKey`, `CsrOfThisBoot`, `InitAnswer`, `HangOnSecond` follow from it;
  `CsrOwn` has an invariant of its own, relative to the first (what is left of earlier bodies
  only grows, so an answer made from a part of one stays within it); `TextsAreContents` shows
  that whatever a body gives, a file can hold; `KeyBeforeWrite` is the action
  property.
- `IdentityImplemented`: while the flash does not fail (`~FlashFaults`: a short write would
  leave a mark without a certificate, since `TPwrite` ignores the result of `fwrite` at TrustPlatform.c:337), every step of
  the firmware is a step of `DeviceIdentity` or a stutter.

`WifiStation_proof`, for every `WIFI_RETRY`: `StationWoken` (`StationInv` is inductive: an
idle station has exactly one event pending that makes the handler connect, or has given up),
`StationTypes`, and `LinkImplemented` (the refinement of `StationLink`). They rest on two
lemmas about appending to a queue and taking from it. `AttemptsStayBounded` and
`QueueStaysShort` need more: which queues there can be at all (`QueueInv` lists ten, by what the
station does), and that an address event still in the queue means at most one attempt
(`RetryInv`): only so does its late reset of `s_retry_num` cost one attempt and not many.

`ImprintFlow_proof`, for any number of orders, messages and restarts (`NoneAssumption`,
`BootsAssumption`): `CertificatesFit` and `OrdersKept`. Their invariant says that, unless the
device was away, `ALLOW` is set while a pass is under way and there is one pass at most
(`OneInv`), so that nobody else can have made the device forget the request the pass carries
(`FitInv`). `KeptInv` says what `OrderKept` needs of the order that is
cleared: it is the one the pass has taken, or it came behind it (`late`).

`TrustCipher_proof`, for every block size, input, exclusive or that undoes itself and block
cipher with an inverse (`SizeAssumption`, `CipherAssumption`): `RoundTrip` and `InBuffer`.
`CipherInv` relates each ciphertext block to its input block and its predecessor, and the loop
variables `i` and `iv` to the blocks done; the arithmetic of padded sizes is in lemmas about
`Qtd` and `OutputSize`.

`MdnsResponder_proof`, for any services, delegated hosts, interfaces, pairs of interfaces on
one link, protocols, number of packets a pcb can hold and number of inputs
(`KindAssumption`, `SelfHostAssumption`, `DuplicateAssumption`, `SlotsAssumption`, `InputsAssumption`): all seven
safety properties of the `mdns` run. None of them is inductive. The invariant `IInv` says of each
pcb that it is `Good`: it has the probe or announcement that carries it on (`Carried`), and
nothing beside its probe (`Alone`); every name was asked for three times, or is being asked
for and was as often as the state says (`Counted`, from which `AnswersAreProbed` follows when
probing is over); what it refers to is registered (`Refers`); its probe list is there only while
it probes (`Fits`), and a closed pcb holds nothing (`Quiet`), the last three unless a late
packet woke it. The parts need each other: a removal may free a packet only because it is the
one probe, which is known to ask for exactly the probe list. All that the
invariant says of questions it says up to services with a twin, one of the same type
(`Twins`): `FreedButForTwins` shows that for any other the question that is freed is its own.
There is one lemma for each function on a pcb (`ProbeGood`, `AnnounceGood`, `TxGood`, `RemoveGood`, ...), one for each action,
and `NextInv` puts them together. `DuplicatesCovered` adds what relates two pcbs (`DupInv`): an
open pcb is past `PCB_DUP`, and the twin of the twin is the pcb itself.

`MdnsLists_proof`, for all lists and sets: `WithoutPlaces` and `WithoutElements` say what is left
of a list from which elements were taken, and in which order. They need induction along the list.
An induction theorem that takes a predicate cannot be instantiated here, so `InductionTo` states
induction for a *set* of numbers, and follows from the well-foundedness of the order on `Nat`
(`Smallest`). That a recursive function has a value at all (`KeptExists`, `RoundsExist`) is
proved by the same induction. This is also why the models take elements out of lists and run the
rounds of `_mdns_search_run` by recursive functions and not by `SelectSeq` and a fold.

`MdnsTask_proof`, for any queries, packets, delays, time limit, length of the queue and number of
other actions (`QueriesAssumption`, `LimitsAssumption`, `SentinelAssumption`): all the safety
properties of the `mdns_task` run. The actions to be executed, the one in hand and those in the
queue, are one list, `ToExecute`; a step makes it longer at the end (`Grows`, `Extends`),
shorter in front (`Shrinks`) or leaves it alone, which is what the first lemmas show.

- `PostedInOrder`: `TxInv` adds to `TxInOrder` that the posted packets are *overdue*: only so is
  a packet that is scheduled, whose delay is not negative, put behind all of them. There is one
  lemma for each thing that happens to the list (`InOrderPost`, `InOrderTail`, `InOrderSchedule`,
  `InOrderWithout`, `InOrderLater`, `InOrderSkip`).
- `FreedAreForgotten` and `EndsOnlyForAReason`: `SearchInv` says that a search is added and ended
  by one action each (`OnceInv`), that it is active and unlisted until it is added (`AddInv`),
  that it is off, over and listed when its end is posted, unless a packet has filled it
  (`EndInv`), and that the application waits for as long as the component knows of it
  (`KnownInv`). What `_mdns_search_run` does in one run is shown by induction over its rounds
  (`RoundsKeep`): it posts only for listed searches, an end only for one that was active, and
  no end twice.
- `NobodyForgotten`, the safety half of `QueryReturns`: a query that an application waits for has
  its semaphore, is about to be added, is active in the list, or is about to be ended. The last
  alternative is what a full queue puts at risk: `_mdns_search_run` may turn a search off only when
  the end was posted, which the induction over its rounds carries along (`Told`). It leaves to TLC
  only that the timer and the service task go on, which is what fairness is for.

`MdnsCalls_proof`, for any tasks, addresses, names, limits and number of calls (the assumptions of
the module): all the safety properties of the `mdns_api` run.

- `CallsFindTheirService`: `SureInv` says that the service of a sure action is listed, and
  that no action queued before it removes it; a removal that is posted later comes behind.
- `ServicesFollowTheHostname` and `ChecksStillHold` speak of services in the list; the invariant
  says the same of those on their way to it (`HostInv`, `CheckInv`), in the queue or still with
  the task that is to post them. `FreshInv` keeps these apart: a service is under way once, and
  is not in the list, so that no address is added twice.
- `WaitersCounted` needs the number of waiting tasks to be finite and nothing else; it is carried
  through every step by counting (`Coming`, the settings of the hostname that are queued).

Only model-checked: the liveness properties (`RequestEnds`, `BootEnds`, `WaitEnds`, `Settles`,
`QueryReturns`), since temporal reasoning about fairness needs ENABLED, which the prover does
not have. Every safety and action property of the passing runs is a theorem.

## 6. What is not modelled, and why

- AES itself: a permutation. That both key schedules share one AES context
  (TrustPlatform.c:95) depends on the AES implementation of the build.
- Two results that say more than was done are modelled and have no run of their own:
  `DeviceID_genCSR` returns `DEVID_OK` when `mbedtls_x509write_csr_pem` failed
  (DeviceID.c:253), and `TPwrite` returns `TP_OK` whatever `fwrite` stored
  (TrustPlatform.c:337). What they do to the answers and the store is in `perso_faults` and in
  the theorems, which hold with `FlashFaults` too.
- Heap use: the JSON of `genCSR` and the buffer of `DevIDfinal` are never freed
  (espPerso.c:266, 280); a counter of leaked blocks would restate the missing call.
- `DeviceID_close` and the application phase of `app_main`: unreachable, behind endless loops.
- `tmp.c`: not compiled. `ssd1306`: output to a bus without control state.
- mDNS: the bytes of packets (names, compression, record layout), goodbye packets, the
  registration of further interfaces, `mdns_init` and `mdns_free` (which stops the timer and the
  task before it frees everything), and the wrappers that fix the type of a query. The wrap of
  the millisecond clock after 49.7 days (mdns.c:1532 compares send times unsigned, the
  scheduler signed) is listed as a hazard; `MdnsTask` keeps differences in place of times and
  does not see it.
- `mdns_lookup_delegated_service` may loop for ever under the service lock (mdns.c:5866). The
  hung task is a state of `MdnsCalls`, and all its properties are checked with it; that it never
  happens is not true, and no property says so.
- `mdns_console.c` parses command lines into the calls above, `mdns_networking_socket.c` is the
  network port of host builds: neither is in the firmware.
- The dashboard, templates and credentials of the Node-RED flows.

## 7. Plan

Done: store, cipher, identity, personalization, link and station; the flow; the mDNS
responder, its tasks and its calls; the proofs of section 5.

Left for whoever goes on: the flow as a client of `Perso` in one composition (here the flow
has its own small device); `mdns_free` against running calls; a clock with a width in
`MdnsTask`.
