# Verification of the free5GC workspace

TLA+ models of the code that this repository itself holds, the TLC runs that
check them on small instances, and TLAPS proofs for every instance of the parts
where a proof was within reach. The network functions (AMF, SMF, ...) are git
submodules and not part of the repository; what is here is the library they
share, `lib/util`, and the scripts in `myScripts` that watch UEs move.

## 1. Inventory

| part | state it keeps | operations | who shares it |
|---|---|---|---|
| ID generator, `lib/util/idgenerator` | cursor `offset`, set `usedMap`, a mutex | `Allocate`, `FreeID` | goroutines of a network function |
| lazy reuse pool, `lib/util/ippool/lazyReusePool.go` | linked list of free segments, `remain`, a mutex | `Allocate`, `Use`, `Free`, `Reserve` | through the IP pools |
| IP pool, `lib/util/ippool/ip_pool.go` | one lazy reuse pool per subnet | `NewIPPool`, `Allocate`, `Reallocate`, `Release`, `Exclude` | PDU sessions |
| safe channel, `lib/util/safe_channel` | a channel, `closed`, an RWMutex | `Send`, `Close`, `IsClosed`, `GetRcvChan` | senders, closers, a receiver |
| state machine, `lib/util/fsm` | table of transitions; per object a `State` with its own lock | `NewFSM`, `SendEvent` and three callbacks | handlers of events for one UE |
| MongoDB layer, `lib/util/mongoapi` | none of its own; a collection at the server | puts, patches, deletes, posts, reads | all network functions |
| flow descriptions, `lib/util/flowdesc` | none | `Encode`, `Decode`, `SwapSrcAndDst` | - |
| outer header creation, `lib/util/pfcp` | none | `ParseOuterHeaderCreation` | - |
| Milenage, `lib/util/milenage` | none; the SQN is with its callers | `GenerateAKAParameters`, `GenerateKeysWithAUTN`, `GenerateAUTS`, `ValidateAUTS`, `F2345`, `GenerateOPc` | home network and USIM |
| logger, `lib/util/logger` | a log file per logger, opened to append | `LogFileHook`, `NewGinWithLogrus` with `ginToLogrus` and `ginRecover` | all requests of an NF, NFs with one path |
| metrics, `lib/util/metrics` | counter vectors and flags, global to the process; a registry per NF | `Init`, `InboundMetrics`, the counters of NAS and NGAP messages | the NFs of one process |
| metrics server, `metrics/Server.go`, `httpwrapper` | an `http.Server` and its goroutine | `NewServer`, `Run`, `Stop` | the NF, its `WaitGroup`, clients that scrape |
| AF client, `myScripts/af_monitoring_client.py` | subscriptions at the NEF, last locations, two output files | start, subscribe, receive a notification, unsubscribe | writes `notifications.jsonl` for the tracker |
| tracker, `myScripts/tracker.py` | per-UE dictionary, notification list, `alerts.csv`, `tracker_state.json` | `follow`, `on_location`, `on_location_pattern`, `on_loss`, `_save` | reads `notifications.jsonl` |

`IPPool` calls the lazy reuse pool; the AF and the tracker share a file and
nothing else; the gin engine of the logger runs the middleware of the metrics,
which counts in the vectors the metrics server shows. Otherwise the parts are
independent of one another.

What is hard in them: interleavings under and beside locks (ID generator, safe
channel, state machine), check-then-act against a database (MongoDB layer), long
sequences of legal calls that bend a data structure (segment list, tracker),
crashes and a replaced file (AF and tracker), widths and bounds (the codecs),
messages that come damaged, late or twice (the tokens of Milenage), and the order
in which middleware, flags and goroutines are put up and taken down (service).
`PROJECT.json` lists each hazard at its line with the properties that would
catch it.

What makes each part correct:

* ID generator: an ID has one owner, none leaks, failure means a full range, an
  ID rests for a full turn, every call returns.
* Pools: the list stands for the set of free values; nobody shares an address;
  network and broadcast addresses stay out; what is released can be had again;
  values are reused lazily.
* Safe channel: no panic, nothing accepted is lost, no call blocks for ever.
* State machine: the state moves only along transitions, and entries and exits
  pair up.
* MongoDB layer: what was put is there, once; a patch changes what it names.
* AF and tracker: what is acknowledged is on disk; the trail is the moves; as long
  as the tracker has a file open it misses no line of it but a torn one (lines it
  has not read when it turns to another file are lost); the notification list is
  right.
* Codecs: encoding and decoding agree; no read is out of bounds.
* Milenage: whoever accepts a token shares keys and SQN with who made it, and two
  sides whose SQNs are apart come together.
* Service: every request whose claims name a user is logged once and counted once,
  with the status the client got; what is counted is in a registry (which nobody
  serves when `NewServer` has failed); a stopped server is gone.

## 2. Modules

| module | models | composed with |
|---|---|---|
| `IDGenerator` | `idgenerator.go` | in `SharedObjects` |
| `SegmentList` | the segment list and its surgery, as operators on sequences | used by the next two |
| `LazyReusePool` | `lazyReusePool.go` | implements `FreeSetPool`; in `AddressPools` |
| `FreeSetPool` | abstract specification: a set of free values and a count | - |
| `IPPool` | `ip_pool.go`: a dynamic and a static pool, sessions | `SegmentList`; in `AddressPools` |
| `AddressPools` | a behaviour of `LazyReusePool` or one of `IPPool` | - |
| `SafeCh` | `safe_channel.go` over a model of `sync.RWMutex` | in `SharedObjects` |
| `FSM` | `fsm.go`, `state.go` | in `SharedObjects` |
| `SharedObjects` | a behaviour of `IDGenerator`, of `SafeCh` or of `FSM`: they share no state | - |
| `MongoApi` | `mongoapi.go` over a model of a collection | in `Platform` |
| `Service` | `logger.go`, `metrics`, `httpwrapper.go` around two NFs of one process | in `Platform` |
| `Platform` | a behaviour of `MongoApi` or one of `Service`: they share no state | - |
| `FlowDesc`, `OuterHeader` | `ip_filter_rule.go`, `outer_header.go` | both in `Codecs` |
| `Milenage` | `milenage.go`, as operators on sequences of octets | used by `AKA` |
| `AKA` | the exchange of challenges and answers with these tokens | in `Codecs` |
| `AFClient` | `af_monitoring_client.py` and what it sees of the NEF | in `Monitoring` |
| `Monitoring` | `follow` and `parse_line` of `tracker.py` on the AF's file | extends `AFClient` |
| `Tracker` | what `tracker.py` does with a report | - |
| `IDGeneratorProofs`, `SafeChProofs`, `FSMProofs`, `TrackerProofs`, `MonitoringProofs`, `PlatformProofs`, `CodecsProofs` | theorems and proofs | each extends the module it is named after |
| `PoolProofs` | theorems and proofs | extends `LazyReusePool` and `IPPool` |
| `MC...` | constants for TLC | extend the module they are named after |

A definition whose name starts with `Mut` is a plausible bug in the definition
that follows it, kept to show that the property named with it in `PROJECT.json`
("mutants") notices such a bug; no specification uses it. Most modules state the
types of their state (`TypeOK` and the like); no run lists it, for the
other properties imply what matters of it. `TypeCorrect` of `IDGeneratorProofs` proves
one; the other proof modules have the types they need in their invariants
(`Types`, `FrameType`, `TrackType`, ...).

How state and steps correspond to the code:

* **IDGenerator.** The scan of `Allocate` is one step per loop iteration, under
  the mutex; `FreeID` tests the range, then waits for the mutex. `held` (who has
  which ID) and `passed` (what the cursor left since) are history variables.
  Callers free what they hold, once: freeing an ID of somebody else is the
  caller's mistake and frees it.
* **SegmentList, LazyReusePool.** Head first, as the list is linked. Where the
  code re-links pointers, the sequence has elements replaced, inserted or
  removed. `Allocate`, `Use` and `Free` hold the mutex throughout and are one
  step. `Reserve` takes no mutex; it is one step because pools are configured
  before they are shared. `out`, `ever` and `ordered` are history.
* **IPPool.** Addresses are small integers. `net.IP` has 4 or 16 bytes and
  `binary.BigEndian.Uint32` reads the first four, which the model keeps.
  `AllocateNil` is `Allocate(nil)`, what a session without a static address asks
  for; the name keeps it apart from `LazyReusePool`'s `Allocate`.
* **SafeCh.** `RWMutex` as `sync` documents it: a waiting writer keeps new
  readers out, and the readers that queued are let in when it unlocks. A channel
  without buffer hands over when the receiver waits.
* **FSM.** `Current`, the three callbacks and `Set` are steps of their own, for
  `SendEvent` holds no lock across them. Callbacks may send events: a goroutine
  has a stack of calls. `Serialised` says whether callers hold a lock of their
  own.
* **MongoApi.** Each operation of the driver is one atomic step at the server
  and may fail before or after it took effect; calls of two operations can be
  interleaved. A collation is equality up to `folded`. What is put carries its
  key, and what a patch writes back the key of what it read, so `$set` gives the
  document it updates that key; under a collation this may be another one than it
  had. `raced` records which keys overlapping calls worked on, `doubled` those of
  which an update found several documents, or that `PostMany` inserted. Values may
  be arrays (`$pull` shortens them) or documents (`JSONPatchExtend` patches one,
  and sets its fields beside it).
* **Milenage.** An octet is the set of unknowns whose exclusive or it is, so that
  `^` is the symmetric difference and cancels as it does in the code; rotations,
  constants, cutting and joining are done octet by octet. AES is the constant
  `Encrypt`; in the instance it hashes key and block to a block of unknowns, and TLC
  checks (`CipherAssumption`) that tokens then agree only where the code makes them
  agree.
* **AKA.** The home network and the USIM are not in the repository; they are what
  `test/registration_test.go` and TS 33.102 make of the functions. A message is
  what was sent and what happened to it; the token that arrives is computed from
  that and given to the functions. Challenges and answers stay on the air, so
  they can be late, repeated, lost or overtaken; a fault damages a token in any
  of its parts, cuts it, or exchanges it for one of another USIM; the network may
  give up waiting, or have its SQN set back. `CipherAssumption` says what the
  exchange expects of the cipher: no MAC fits an SQN, AMF, RAND or key it was not
  made with, and no RES is that of another challenge or key. A token that is short,
  or whose MAC is changed, the functions must refuse by themselves.
* **Service.** Each NF has a goroutine (log file, `Init` group by group,
  `NewServer`, `Run`, `Stop`, `wg.Wait`), a goroutine of its metrics server and
  requests that walk back up the middleware one step at a time, so that a panic
  passes through whatever is not deferred. The vectors and flags are one for the
  process. A log file is a sequence of lines and a vector a sequence of increments,
  so that doing something twice can be told from doing it once. `Load` says which
  requests an NF is sent: how the handler ends, and whether the claims name a user.
  `Restart` loses all but the log files.
* **FlowDesc.** Text is the sequence of its tokens; `normal` stands for what
  package `net` parses and prints. Protocols are cut to 8 bits and ports checked
  against 16 as in the code.
* **OuterHeader.** One step per field of the layout; what is kept of a field is
  the set of octets it is read from.
* **AFClient.** The event loop handles one notification at a time (nothing is
  awaited between reading the body and the answer), but the process may be
  killed between any two writes. A payload larger than the file's buffer reaches
  the file in two pieces. The raw file may be removed or replaced.
* **Monitoring.** `follow`: see that the file exists (`Found`), open it, skip what
  it holds, read a line, sleep, look at the name (`Wake`), which closes the file if
  the name stands for another one, and open that (`Reopen`). The AF, or whoever
  removes or replaces the file, may act between any two of these. Where open finds
  no file, the first one ends the tracker at once, the later one at the next
  `readline`, for the file it had is closed (`Die`). `Wake` is one step from stat to
  close, for nobody else sees the descriptor.
* **Tracker.** A report is handled to its end before the next. The geometry of
  `predict_next` is left open: a cell of the ROI may come first, among the top
  k, or not at all.

## 3. Runs

TLC finds no error in the runs of this table; deadlock is checked except where
the system may stop (`CHECK_DEADLOCK FALSE`: pools fill up, bounds on calls are
used up, the scripts end).

| run | instance and why it is enough | shows |
|---|---|---|
| `shared_objects` | ID generator: 2 goroutines, 3 IDs: the range runs full, the cursor wraps, an Allocate waits while a FreeID is under way. Safe channel: 3 senders, 2 closers, capacity 1: senders outnumber the capacity, Close finds one blocked and one queued. State machine: 3 states with a cycle and a self transition, tables that `NewFSM` refuses, 3 goroutines that take turns, nesting of depth 3 in entry callbacks | `UniqueIDs`, `UsedIsHeld`, `FailsOnlyWhenFull`, `ReusedOnlyAfterWrap`, `CallsReturn`; `NoPanic`, `AllReceived`, `CloseReturns`, `SendReturns`; `Paired`, `FollowsTransitions` |
| `address_pools` | lazy reuse pool: values 1..5: up to three segments, each kind of split, merge and reservation; unbounded otherwise. IP pools: /29 to /32 subnets inside and beside each other, 3 sessions (symmetric; all properties of this run are about states and steps) | `SegmentsDisjoint`, `LazyReuse`, and that the list implements `FreeSetPool` (`ImplementsFreeSet`); `NoSharedAddress`, `NothingLost` |
| `tracker` | 2 UEs, 5 cells, TAIs out of, at and within the horizon; 4 cell changes (predictor), 6 (pattern of 3) | `ListedAfterConfirm`, `PositionExact`, `ListedIffMatched` |
| `monitoring` | 2 UEs, 4 locations of which one is unknown to the topology, 2 notifications of which one may be torn, 2 starts of the AF, 2 removals, one type of event subscribed to (that of several DELETEs one fails is left to the theorem `StopsUnsubscribed`) | `RawFirst`, `TrailIsMoves`, `NoStaleSubscription`, `HandledInOrder`, `OnlyTornLinesLost`, `FollowsTheName` |
| `platform` | MongoDB: 2 clients, 2 keys that differ in case, 2 fields with scalars, arrays and a document, 3 calls: every pair of calls overlaps, then a third sees the result. Service: 2 NFs that write to one log file by two names, one with business and SBI metrics and one with SBI and NAS, so that the second `Init` replaces vectors in use; the metrics server of one cannot be made; each NF has two of the four ways a handler can end, one with claims that name no user; 3 events, which are the starts of the process, the first included, requests and messages: two requests, of one NF or of both at once, or a request and a message, or a restart before or after a request | `OneDocument`, `PutIsStored`, `PatchChangesWhatItNames`; `EveryRequestAccounted`, `CountedIsRegistered`, `WaitMeansEnded`, `Stops` |
| `codecs` | all 256 sets of flags with lengths 0..36 (the longest payload has 34 octets); some thousand texts and rules at the edges of the widths; AKA with SQNs that start equal, ahead and behind, 5 challenges, SQNs up to 7 and 2 faults: a resynchronisation can itself be disturbed, and another one follows | `InBounds`, `FieldsInPlace`, `EncodeThenDecode`, `SwapCommutes`; `SessionIsShared`, `NetworkIsAnswered`, `Authenticates` |

Six runs show a disagreement of the code with what it says of itself:

* `lazyreusepool_repeats`: a second `Free` of a value is accepted after the head
  has grown up to the segment that holds it; the value is then in the list twice
  (`DuplicateFreeRejected`; `lazyReusePool.go:145` and its test say duplicates
  are refused). Callers that free what they own once never get there.
* `fsm_concurrent`: two goroutines that send events on one `State` without a
  lock of their own move it between states no transition connects
  (`FollowsTransitions`), though `State` is "thread-safe".
* `tracker_consecutive`: predictions that are not on consecutive cell changes
  add up to a notification (`ListedAfterConsecutive`), though `--confirm` says
  "consecutive".
* `tracker_statefile`: a UE that reaches the ROI is ENTERED in the tracker and in
  `alerts.csv`, but `on_location` returns without `_save` (`StateFileIsCurrent`);
  `tracker.py:26` says `tracker_state.json` is "rewritten on each change". The
  early returns of a UE that is not tracked and, in pattern mode, of a cell of the
  same TAI do the same.
* `monitoring_survives`: when the file that stat saw is removed before it is opened,
  the old one is closed already and the next `readline` ends the tracker
  (`Survives`); the comment of `follow` says that it "survives the AF being
  restarted".
* `platform_counted`: claims whose email is no string make `ginToLogrus` panic
  outside of `ginRecover`: the handler has run, but the client gets no answer and
  the request is neither logged nor counted (`EveryRequestCounted`), though
  `InboundMetrics` "counts and times each request". `EveryRequestAccounted` is about
  all other requests.

The bounds that cap otherwise endless behaviour are constants of the modules:
`MaxSends`, `MaxDepth`, `MaxCalls`, `MaxBodies`, `MaxStarts`, `MaxRemovals`,
`MaxPredicted`, `MaxMatched`, `MaxLength`, `MaxSQN`, `MaxChallenges`, `MaxFaults`,
`MaxEvents`. `MaxSQN` and `MaxChallenges` are large
enough that two faults do not use them up, which `Authenticates` would notice.

### Fairness

* `IDGenerator`: a goroutine in the critical section runs on (WF); one that waits
  for the mutex gets it if it is free again and again (SF), which Go's starvation
  mode guarantees. Nobody is obliged to make a call.
* `SafeCh`: the same for steps inside calls; closers do call `Close`; the
  receiver keeps receiving, which `CloseReturns` needs and the code assumes.
* `Monitoring`: the tracker's loop runs on (WF on `follow`); nothing is assumed of
  the AF or the NEF.

* `AKA`: the network makes the challenge it owes, and what was sent last, if it is
  undamaged, is taken off the air in the end. Earlier messages and faults are
  free to happen or not; there are `MaxFaults` of them.
* `Service`: the goroutines of an NF and of its metrics server run on (WF).
  Nobody need send a request, end a scrape, call `Stop` or restart the process.

All other specifications are safety only.

## 4. Proofs

TLAPS checks the following for every value of the constants.

* **`IDGeneratorProofs`**: `TypeCorrect`, `Uniqueness`, `NoLeak`,
  `FailureIsExhaustion`, `RoundRobin`, from `minValue <= maxValue` and that
  `NoCaller` is no caller. None of the properties is inductive. The invariant
  `IInv` adds: whoever scans has the mutex (`LockInv`); the offset about to be
  taken is still free (`TakeInv`); what the scan went over, from `offsetBegin`
  round to the cursor, is used (`ScanInv`, hence failure means exhaustion); the
  cursor has left everything between an offset and where it is now since that
  offset was given (`PassedInv`, hence round robin); an ID on its way back is
  nobody's (`FreeInv`); marked means held or on its way back (`MarkedInv`).
* **`SafeChProofs`**: `Panicless` and `Lossless`, for every capacity and any
  number of senders and closers. The argument: past its check a sender is a
  reader (`ReadersInv`), so when `Close` has the write lock nobody is between
  check and send, and `closed` implies that nobody is sending (`ClosedInv`);
  what was accepted is what was received followed by what is in the channel, and
  a receiver that is done found it closed and empty (`ReceivedInv`).
* **`PoolProofs`**, the lazy reuse pool: `SegmentsStayDisjoint`, `ReuseIsLazy` and
  `ListImplementsFreeSet` (the refinement of `FreeSetPool`), for any bounds and any
  ranges reserved. Most of it is about `SegmentList`: what each piece of surgery
  (cut at the front, in the middle or at the end; grow, merge, insert, append)
  does to a good list and to the set of values it stands for. `PoolInv` then says
  that the list is good, stands for values no caller has, and that `remain` counts
  them; each call is a step of `FreeSetPool` because it changes that set as
  `FreeSetPool` says. `FreshInv` adds where the values are that were never given
  out, which makes reuse lazy. The callers are those of `SpecOwners`: they free what
  they own, once; `lazyreusepool_repeats` shows why.
* **`PoolProofs`**, the IP pools: `AddressesNotShared` and `AddressesAccounted`, for
  any subnets and sessions, under `AddressPlan`: the pools are the dynamic and the
  static one, and no subnet contains 0.0.0.0, which is what a 16-byte `net.IP` is
  read as. `IPInv` says that before serving the pools are new and no session has an
  address, and that afterwards (`Serving`) the list of a pool is what it may hand out
  less what its sessions have, no two sessions have the same, and the two pools have
  nothing in common.
* **`FSMProofs`**: `CallbacksPair` and `MovesAlongTheTable`, for any table, any
  goroutines and depth of nesting, under `CallersAgree`: the callers take turns, and
  callbacks send events on entry only. `fsm_concurrent` shows that the first half is
  needed; an event sent from an event or exit callback moves the state under the
  outer call in the same way, so the second half is needed too.
  `FSMInv`: who has a call open has the lock; every call but the innermost waits in
  an entry callback (`OuterInv`); a transition that is chosen and not yet made starts
  at the current state (`LeavingInv`); `inside` is 1 for the
  current state and 0 otherwise, unless somebody is leaving (`InsideInv`).
* **`TrackerProofs`**: `ConfirmedBeforeListed`, for any map,
  horizon, threshold and UEs, from `TrackType` and `ConfirmInv` (a UE
  is tracked only if it was in the arm TAI, and the count of `--confirm` is never more
  than what was predicted).
  `PositionIsExact` and `ListedExactly`, for every pattern with `NoRecurrence`: its
  first TAI does not come again in it. Without this they are false (section 5).
  `PositionInv` says more than that the position is the longest beginning of the
  pattern the path ends with: it is the only one but the empty one, which is why one
  number is enough (`AdvanceExact`).
* **`MonitoringProofs`**: `StopsUnsubscribed`: an AF that stops in order knows every
  subscription it made, but for those it was not told of (`KnownInv`).
  `PayloadFirst`: `FileInv` says that what is answered or in the trail is on disk, and
  so is the notification whose reports are being handled (`DiskInv`), and that behind
  the end of a payload there are only pieces of later notifications (`OrderInv`),
  the piece still to be written included (`RestInv`). `TrailListsMoves`: `TrailInv` says
  that `_last_loc` and `_last_group` are what the reports handled so far make them, that
  a process begins with nothing seen and that no row is of a start to come; a report
  then extends the correspondence of moves and rows by one pair, or leaves it. It is
  assumed that `Nowhere`, Python's `None`, is no location. `NeitherTwiceNorEarly` and
  `NothingElseLost`: `ReadInv` adds that what was handled ends in front of where
  `follow` is (`HandledInv`). All of them hold for any UEs, locations, masts, and any
  number of notifications, starts and removals.
* **`PlatformProofs`**, service: `ServerEndsBeforeDone` (`WaitInv`: the `WaitGroup` has
  a count as long as the goroutine of the server is there). `CountsAreShown`
  (`MetricInv`: a group that is enabled has vectors, and they are in the registry of
  who made them or about to be). `RequestsAccounted` (`AccountInv`): an id belongs to
  one request (`IdsInv`), the hook writes to the NF's own file (`HookInv`), the
  line and the count of a request are there exactly from the middleware on that
  writes them, and exactly once (`FlightInv`), and stay as they are (`FinishedInv`),
  since lines and increments are only added, those of other requests among them.
  For any NFs, configurations, numbers of requests and restarts.
* **`PlatformProofs`**, MongoDB: `NoSecondDocument`, `PutsAreStored` and
  `PatchesChangeWhatTheyName`, for any clients, keys, requests and collation. The
  invariant is the rely condition of a check-then-act: what a call found is still
  so when it writes, unless its key was raced for (`SeenInv`), and a key that two
  calls work on has been raced for (`RaceInv`). The key an update gives a document
  is one of those its filter matches up to case, so if that makes a second document
  of the key, there were several to choose from and the key is in `doubled`.
* **`CodecsProofs`**, outer header: `ReadsInBounds` and `FieldsRead`, for all flags and
  every length. The strengthening is that the cursor is at least 2 and, while the
  parser runs, not behind the end (`IInv`), and that it is where the field whose turn
  it is starts (`PlaceInv`).
* **`CodecsProofs`**, flow descriptions: `DecodeInvertsEncode` and `SwapAgrees`, for any
  texts, rules, addresses and lists of ports. `NormalAssumption` says of package
  `net` that what it prints it reads back as the same, and that no address is called
  `any`, `assigned` or nothing; `InputAssumption` is the type of texts and rules.
  The lemma `RoundTrip` follows a rule through `Encode` and back token by token;
  `FlowInv` keeps the text between the two steps that of the rule.
* **`CodecsProofs`**, Milenage: `AUTSRoundTrip` (what `GenerateAUTS` makes, `ValidateAUTS`
  accepts, and it uncovers the SQN) and `AUTNRoundTrip` (the AUTN that
  `GenerateAKAParameters` makes, `GenerateKeysWithAUTN` accepts, and it uncovers the SQN
  and derives the same CK, IK and RES), for every key, OPc, RAND, SQN and AMF. Of
  AES they use only that it makes a block of a key and a block, the hypothesis
  `BlockCipher`. It quantifies over all blocks, which TLC cannot enumerate, so it is a
  hypothesis of the theorems and not an `ASSUME`. The lemmas follow the slices: what
  `xor` hides it uncovers, and `CutAUTN` and `CutAUTS` cut where the tokens were joined.
* **`CodecsProofs`**, the exchange: `SessionsAreShared` and `NetworkAnswered`, for any
  number of challenges, SQNs and faults, under the same hypothesis and
  `CipherAssumption`, which TLC evaluates on the instance. `KeysAre`, `ResyncIs` and `RESIs`
  say which tokens are accepted: the undamaged one of that challenge, by the round
  trips; not one that is short or has another MAC, by the checks of the functions;
  not one with another SQN, AMF, RAND or key, by `CipherAssumption`. `AKAInv` adds to
  `SessionIsShared` that the messages on the air are about challenges that were made,
  with SQNs the USIM had.

Induction is not available as a rule (its theorems take an operator as a
parameter). Where the proofs need it over numbers, as for `Reserve`, which folds over
the list, or for the sum that `Size` is, they take the least counterexample
(`LeastNatural`, from `WFMin`) and show that there is none.

Only model-checked is every liveness property (`CallsReturn`, `CloseReturns`,
`SendReturns`, `FollowsTheName`, `Authenticates`, `Stops`), for TLAPS does not reason about
fairness here.

## 5. Observations without a run of their own

* `NewGenerator` with `max = min - 1` makes the first `updateOffset` divide by 0.
* A receiver that itself calls `Close` while the channel is full and a sender
  waits blocks for ever, and the sender with it.
* `NewFSM` accepts a state without a callback; `SendEvent` then calls nil.
* A pattern that begins again inside itself (3,10,3,11) misses routes, because a
  broken match is reset to 1 or 0 and not to the longest one.
* The AF forgets the last locations when it restarts: the first report of each UE
  is a row of the trail again, called initial.
* A line larger than the file's buffer may be read in two parts by the tracker;
  both are dropped. So are the lines of a replaced file that the tracker has not
  read when it turns to the new one.
* With documents of `k` and `K`, `RestfulAPIPutOne` of `K` under a collation may find
  that of `k` and make it a second `K`; what is put is stored, but a key has two
  documents without any race (the exception `doubled` in `OneDocument`).
* `RestfulAPIPutMany` looks for the document with the collation and updates
  without it; a match by collation only is answered as stored and is not.
* Patches write their result with `$set`: a field a patch removes stays.
* `RestfulAPIJSONPatchExtend` patches the document in `dataName` and then sets the
  fields of the result at the top level, beside `dataName`, not in it.
* The comment of `NewHttp2Server` (`httpwrapper.go:48-50`) says that it "still
  returns server instance" when the secret log cannot be opened; it returns nil
  and the error.
* `Init` makes new vectors before it registers them and while the flag of an
  earlier `Init` is set; what is counted then is shown once they are registered.
  Two NFs of one process count in the vectors of whoever called `Init` last.
* `getMessageStrFromGmmMessage` (`metrics/nas/message.go:138` and `:145`) takes the
  value behind the optional `Cause5GMM` of two messages without a test for nil.
* `generateAKAParameters` appends the MAC to the slice `amf` of its caller: with
  spare capacity behind those two octets, what is there is overwritten.
* `validPortsFormat` accepts every string (its expression is optional as a
  whole), a destination port list that cannot be read is dropped silently, and a
  protocol number above 255 is cut to 8 bits.

## 6. Not modelled

* Of the metrics: the texts of names, causes and labels (`nas/types.go`,
  `ngap/types.go`, `ngap/error_message.go` and the like are tables), the hook that
  counts outbound SBI requests, the durations beside the counters, and reading a
  counter back.
* Of the logger: formats, `renameOldLogFile` (its only caller passes `false`), and
  a write that fails in `Fire`.
* The key derivation (`ueauth.go`) is one HMAC over its arguments; validators,
  reflection helpers and version have no state.
* `Reserve` against a concurrent `Allocate`, at the level of pointers: pools are
  configured before they are shared.
* The QoS test scripts and the UE and RAN test emulator are scripted procedures
  and packet builders; shell scripts and configuration; the network functions
  themselves, which are not in the repository.

## 7. Plan

Every part of the repository that keeps state is modelled, and every safety
property and action property of a run that expects no error is proved. Liveness stays
with TLC. What is left are larger instances of the runs and, in `Metrics`, `Logger` and
`HTTP wrapper`, the operations listed in section 6.
