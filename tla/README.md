# TLA+ models of switch2-bt

switch2-bt connects a Nintendo Switch 2 Pro Controller to Linux over Bluetooth LE.
The repository holds several implementations of the same job: a Python daemon on
bleak/BlueZ (`switch2d.py`, the one the README recommends), a C daemon that drives the
controller chip itself over an HCI user channel (`sw2d_final.c`), a C daemon on BlueZ's
D-Bus API (`switch2-bt.c`), a bridge and a host on BTstack (`switch2_btstack_bridge.c`,
`sw2d_btstack.c`), and the first daemons and experiments on a raw HCI socket (`sw2d.c`,
`sw2d_lib.c`, `two_socket_test.c`, `hciletest.c`, `acltest.c`). This directory models them,
checks the models with TLC, and proves the most important safety properties with TLAPS.

## 1. Inventory

| Component | State | Operations | Talks to | What is hard | What makes it correct |
|---|---|---|---|---|---|
| **switch2d session** (`run_session`, `stage_*`, `cleanup_client`, callbacks) | `DaemonState`: stage flags, events, client, handles, counters, pair results | scan, connect, discover, pair, init, subscribe, running loop, cleanup; disconnect, notification, pair-response and signal callbacks | bleak, BlueZ, uinput; called by the modes | callbacks between any two awaits; drops and retries in the middle of a stage; lost wake-ups; a `disconnect()` that raises | the running loop is entered only on a fully prepared link; nothing of one session reaches the next; no link is left open |
| **switch2d modes** (`async_main`, `reconnect_loop`, `auto_detect_mode`, `diagnose_mode`) | reconnect counter, profile position, attempted profiles, winner, exit code | preflight, choose a mode, back off, try the next profile, finally block | runs sessions | signals at every wait; overflow in the backoff; stage flags that outlive a session | every run ends when told to, with everything closed; a reported success is one |
| **raw-HCI daemon** (`sw2d_final.c` + `hci_transport_user.c`) | `session_t` (`conn_handle`, `did_cancel`, state), `g_running`, the socket's frame queue | start-up, scan, cancel and drain, create connection, SMP Just Works, encryption, ATT/GATT exchange, report loop | the Bluetooth controller (commands, events, ACL frames) and through it the peer | answers that belong to an earlier attempt; links left up by an abandoned session; frames lost in the drain; timeouts racing late answers; uninitialised buffers | no create while one is pending; ATT only on the daemon's own encrypted link; a disconnect is noticed; every attempt and every run ends |
| **BlueZ D-Bus daemon** (`switch2-bt.c`) | adapter, GATT paths, uhid fd, run flag | find the adapter, connect, wait for services, discover, retry | D-Bus, uhid | nested loops over a reply with one result variable; a signal before the event loop | what it reports missing is missing |
| **BTstack bridge** (`switch2_btstack_bridge.c`, and the variant under `btstack-upstream`) | `app_state`, two characteristics, `pair_step` | packet handlers for HCI, SM and GATT client | BTstack run loop | pairing events that interrupt and restart a running sequence; refused queries; completions counted for another query | a connection comes to READY only after the whole pair sequence; no event leaves it idle |
| **BTstack gamepad host** (`sw2d_btstack.c`) | state, HID service, report characteristic | the same handlers for the HID service | BTstack run loop | handles kept over a disconnect; the last of several reports is kept; no status is looked at | READY is reached on a connection, with a report that can notify; while it discovers an answer is due |
| **raw-socket programs** (`sw2d.c`, `sw2d_lib.c`, `two_socket_test.c`, `hciletest.c`, `acltest.c`) | the packet being read, rounds of a wait, run flag, backoff | open and filter a socket, create a connection, read events, give up | kernel socket, controller | a frame read in several calls; attempts and links left behind for the next program; blocking reads | success is reported for a real connection; every wait ends |
| **conversions** (`parse_input`, `build_hid_report`, `report09_to_uhid`, `parse_switch_report`, `decode_report`, `update_uinput`, command builders, `adv_is_nintendo`) | `ctrl_t` of `switch2-bt.c`; else none | one report, command or advertisement each | the daemons | bit layouts, lengths, widths, bounds | equal to a reference read from the descriptor |
| **BLE probe** (`tools/switch2_ble_probe.py`) | per-run | its own connection steps | bleak | as switch2d, without reconnect | — |
| legacy copies, force-feedback driver, report dump, scripts, unit files | — | — | — | — | not modelled, see section 8 |

The daemons are alternatives: they never run together (each wants the adapter for
itself). Within a daemon the composition is `Switch2Daemon` on `Switch2Session`, `Sw2dFinal`
on `HciController`, `BtstackBridge` and `Sw2dBtstack` on `Btstack`. The raw-socket programs
are composed: they run one after the other on one controller, which keeps what each leaves.

The behaviours that are hard to test are listed with their source lines under `hazards`
in `PROJECT.json`.

## 2. Modules

| Module | Models |
|---|---|
| `Switch2Session` | one session of `switch2d.py` |
| `Switch2Daemon` | `async_main` and its four modes, on top of it; the properties of both |
| `MCSwitch2Daemon` | instances for TLC |
| `Switch2DaemonProofs`, `Switch2LinkProofs`, `Switch2StreamProofs` | theorems about `Switch2Daemon`: types, links, what a stream or a success has behind it |
| `HciController` | the Bluetooth controller and the game controller behind the HCI socket (external) |
| `Sw2dFinal` | `sw2d_final.c` on `hci_transport_user.c`, and its properties |
| `MCSw2dFinal` | instances for TLC |
| `Sw2dFinalProofs` | theorems about `Sw2dFinal` |
| `GamepadHost` | abstract: what a host of the controller promises |
| `Btstack` | BTstack and the game controller behind it (external) |
| `BtstackBridge` | `switch2_btstack_bridge.c`, both variants, and its refinement of `GamepadHost` |
| `Sw2dBtstack` | `sw2d_btstack.c` |
| `MCBtstack` | the two programs on `Btstack`, one of which runs, for TLC |
| `BtstackBridgeProofs`, `BtstackProofs` | theorems about the bridge; about the host, and about the two together |
| `HciRawSocket` | a raw HCI socket and the Bluetooth controller (external) |
| `RawHci` | the five raw-socket programs, and their properties |
| `RawHciProofs` | theorems about them |
| `Reports` | the conversions of an input report, as operators |
| `Codec`, `MCCodec` | the handlers that use them, command frames, the walk over advertising data; inputs for TLC |
| `CodecProofs` | theorems about `Codec`, for all inputs |
| `Switch2Bt`, `MCSwitch2Bt` | `switch2-bt.c` up to the discovery of its characteristics; objects for TLC |

A definition named `X_Something` with a comment "Mutant" is a plausible bug in `X`, used to
see that a property notices it; nothing else refers to it.

### switch2d.py

The program is one asyncio task. It runs without interruption from one `await` to the next,
and callbacks run only while it is suspended. `pc` names the point the task has reached;
callbacks (`Signal`, link drop, notification, pair response) have the guard `Awaiting`.
One action stands for the code between two awaits: `ConnectOk`, `ConnectRetry`,
`ConnectExhausted` for the three ways one round of `stage_connect` ends, and so on.

* `flags` is the set of `DaemonState`'s true Booleans and set events, and `"client"` if
  `state.client` is not None. `reset_session` (`ResetSession`) clears exactly the fields the
  code clears: the `stage_*_ok` fields are not among them. The callbacks of every client, closed or
  not, write to the same fields; `SessionIsItsOwn` says what that leaves true of the present session.
* `link`, `gatt`, `subscribed` are the connection as bleak and BlueZ know it. When the daemon
  drops its client without the link being closed (`disconnect()` raised, or `reset_session`
  ran on a live client) the link moves to `orphan`, and its subscriptions to `orphanSubs`:
  it can still call `handle_report`. The history flag `"left_open"` (`LeftOpen`) says that a `disconnect()`
  has raised with the link up; what the code then mixes up is excused by it in four properties.
* `asked`, `written`, `heard` are history variables that only properties read.
* `reportCount` saturates at `ReportCap`: it is compared only with 0 and `max_reports`.
* `reconnectCount` is not bounded: past `MaxExponent` the float power overflows in the code,
  and `DaemonSessionFailed` ends the program as `async_main` does. The constant is 1023 in
  reality; the passing run uses 1.

Abstracted: payload bytes, logging, the JSONL dump, the statistics lists and the summary
fields: no branch of the code reads them. Timeouts may fire at any time, so no delay value matters.

### sw2d_final.c

The program is single-threaded and reads one HCI frame at a time. `pc` is the wait it is in
(`awaitConn`, `awaitPres`, ... `report`), and an action is what it does with one frame, a
deadline or a signal up to the next wait, the requests it sends included. `session_t.state`
is a function of `pc` and is not kept.

`HciController` is external. It takes commands in order (`cmds`), queues frames (`events`),
keeps the pending attempt, the link with its handle and its encryption, and answers for the
peer (`owed`, `notifying`). Two facts about controllers matter: a cancelled attempt is
reported by an LE Connection Complete *after* the Command Complete of the cancel; and a
create is refused while an attempt is pending (0x0c) or the peer is connected (0x0b).
Connection completes carry the attempt they belong to (`age`), which only `RetryIsClean` reads.

Encryption succeeds only with `sharedKey`: the STK is `s1(mrand, srand)` (`sw2d_final.c:1099`), so
the daemon and the peer have the same one only if the Random the daemon took was the peer's answer on
the present link. A Random that is still unread when its link goes gets `age` "old" (`Outlived`).
Without this, three or more SMP answers of a lost link, all unread, could be taken for the answers of
the next link with the same handle and lead to an encrypted link; the queue of the TLC run was too
short to show it, and the attempt to prove `AttOnEncrypted` for every length did.

Modelled in detail because they interact: `did_cancel` and its three assignments; the drain
(at most `DrainMax` frames, stops at the cancel's Command Complete, throws the rest away);
`conn_handle` reset to 0, which is also a valid handle; no path that sends HCI Disconnect;
`rc == -2` ignored by three of the four ATT waits; a deadline after which `buf` was never
written (`PresTimeout` may go either way); an answer longer than its buffer (`attBig`); a
removed adapter (`Unplug`): writes fail, queued frames stay readable.

Abstracted: exit codes, the MTU, service range and report handle values (each wait goes on
whatever they are), report contents, AES (a Random either matches its Confirm or not), the
backoff value (it only lengthens the sleep).

### switch2_btstack_bridge.c and sw2d_btstack.c

Both are callbacks on BTstack's run loop, so one event handled to the end is one action.
`Btstack` delivers the events: the end of a dial, pairing (asked for, confirmed, encryption
on or failed, complete), results and completion of the one GATT query that can run, a
disconnect at any time. A query asked for while another runs is refused; neither program
looks at that return value. A query may have several results: the host keeps the last report
characteristic it was given, input or output, and a subscription of one that cannot notify is refused
at once. The host then waits for an answer that never comes (`HostWaitsForAnswer` says exactly when). It also looks at no status of a completed query, so that "HID READY"
follows a subscription the controller refused as well; no property says otherwise. The controller may ask for pairing itself
(`PeerSecurityRequest`), which is how a second sequence comes to interrupt the first.
`direct` is the variant that does not call `sm_request_pairing`.

`GamepadHost` is the promise: search, dial, connect, hand over the four pair commands in
order, be ready, and search again whenever the connection goes. `KeepsPromise` maps
`app_state`, the link and the scan to its phase and the commands the controller took to its
progress; the bridge implements it, although completions of an interrupted sequence are
counted for the new one.

Seen while modelling and not a property: a pairing that fails before the Just Works request
leaves the bridge in `STATE_CONNECTED`, where `SM_EVENT_PAIRING_COMPLETE` is ignored; it then
holds the link and does nothing until the peer drops it (`WaitEnds` is about
`STATE_WAIT_ENCRYPTION` only). The bridge subscribes to input reports but handles no
`GATT_EVENT_NOTIFICATION`. The numeric comparison request it handles cannot occur with its
own I/O capability and is left out.

### The raw-socket programs

A raw HCI socket returns one frame per `read`, and what does not fit is lost. `RawHci` has
the frames byte for byte as far as any program looks at them, because the point is what
`sw2d.c` makes of the front bytes of three frames and `acltest.c` of two. An action is one
call that can wait. The controller keeps a pending attempt and a link over the end of a
program: none of them cancels, and only `hciletest.c` disconnects. `SplitReadIsBlind` says that
`sw2d.c` never gets beyond its wait for a connection, so its GATT, USB-HID and UHID code
after it is not modelled, but for the conversion of a report.

`two_socket_test.c` looks for the Command Status of its LE Create Connection at `ev + 1`, where the
opcode is at `ev + 2`: the frame of the model has 0x0d01 there and never 0x200d. The check of the status
is dead code, so a refused create does not end the attempt; the program waits on and may read what
comes of an attempt or a link that another program left. `TwoIgnores` passes over such a frame as over
any other, and `SuccessWasConnected` and `ProgramEnds` are checked with it.

### Conversions

`Reports` has the conversions as operators over bytes, `Codec` the handlers that call them.
The reference is `Field`, the number in some bits of a byte string, least significant first (three
bytes from there on as one number, shifted and cut), and the offsets follow from the item counts
and sizes of the two HID descriptors. Every other property about a report compares a conversion
with that. `adv_is_nintendo` is a loop whose reads are recorded (`reads`), compared with `IsStart`:
the positions where a structure starts are the least set that has 0 and, with a position, the end of its
structure.

`parse_input` takes the nibbles of a packed stick in another order than `decode_stick12`,
`parse_switch_report` and the tests do: a centred stick (`00 08 80`) decodes to x = 0, y = 2056.
`SticksFollowFormat` states the documented order and is violated; `LastReportKept` states what is true of
the same report whatever that order: its buttons, its upper y bits, its bounds and its size, also after a
short report. The mutant of `AxesFollowSticks` is the wrong order, in the other programs.

Facts the model makes visible and no run states as a property:

* `switch2d.py` takes bit 1 of byte 4 for C and bit 4 for the capture button,
  `switch2-bt.c` the other way round.
* `dpad_from_buttons` of `sw2d.c` always returns 8, the centre.
* The comment over `HID_INPUT_REPORT_SIZE` counts 11 bytes without the report ID; the
  descriptor has 12.

### switch2-bt.c

`discover_gatt` and `adapter_find` walk a D-Bus reply with nested loops that share `r`. The
model has what follows: the first object only, and of its interfaces those up to the first
whose properties are read. As the two characteristics that are needed are two objects,
`discover_gatt` always fails, and `init_sequence`, `event_loop` and `cleanup` are not
reached. Also noted there: no match rule is ever added, so `dbus_filter` would see no signal
of bluetoothd; and `WriteValue` is called with signature `ay` where BlueZ wants `aya{sv}`,
with a length and a pointer where `ay` takes the elements.

## 3. Runs

| Run | Result | Checks |
|---|---|---|
| `switch2d` | passes, 396 k states | `TypeOK`; `NoForgottenLink`, `ReleasedAtExit` (links are closed); `ClosedDeviceQuiet` (no report after the uinput device is closed); `StreamIsReady` (the running loop's precondition, on this very link); `DiagnosePassIsReal`, `WinnerHeardItself` (a reported success is real); `SessionIsItsOwn` (events, counted reports and pair responses are those of the present link); `ShutdownEnds`, `Reconnects`, `MaxReportsEnds`; all with a `disconnect()` that may fail |
| `switch2d_forever` | violated | `DaemonRunsForever`: after 1025 failed sessions in a row `2.0 ** 1024` raises and `--daemon` exits 99 |
| `switch2d_reason` | violated | `FailureReasonIsTrue`: a profile's `failure_reason` is taken from flags of an earlier profile |
| `sw2d_final` | passes, 244 k states | `TypeOK`; `NoCreateWhilePending`, `CleanWithoutCancel` (the guess in `did_cancel` is always right); `AttOnEncrypted`; `PairingLinkKnown`; `AttemptEnds`, `SignalEnds`, `QueuedDisconnectEnds` |
| `sw2d_stale` | violated | `RetryIsClean`: the failure report of a cancelled attempt is read as that of the next |
| `sw2d_lost` | violated | `DisconnectNoticed`: a disconnect read in the MTU, service or CCCD wait is dropped, and the report loop waits for ever |
| `btstack` | passes, 17 k states | `TypeOK`; bridge: `NeverIdle`, `NeverStalls` (some event is always due), `ReadyIsPaired`, `PairInOrder`, `WaitEnds`, `KeepsPromise` (it implements `GamepadHost`); host: `HostReadyHasReport`, `HostWaitsForAnswer` |
| `bridge_swap` | violated | `CharsNotSwapped`: a pairing during the second discovery makes the command characteristic the input report |
| `rawhci` | passes, 24 k states | `TypeOK`; `SplitReadIsBlind`; `SuccessWasConnected`; `ProgramEnds`; `SignalEndsOrBlocks` |
| `codec` | passes, 146 k states | `TypeOK`; `HatAgreesWithButtons`, `LastReportKept` (`switch2-bt.c`); `UhidMatchesDescriptor` (`sw2d.c`); `AxesFollowSticks` (`sw2d_btstack.c`, `switch2d.py`); `FramesAgree` (command builders); `AdvWalkSound` |
| `codec_sticks` | violated | `SticksFollowFormat`: `switch2-bt.c` mixes the nibbles of a stick's two axes |
| `switch2_bt` | violated | `MissingIsTrue`: a characteristic that is in the reply is reported as missing |

The violated properties state what the documentation, a comment or a message of the code
says; the lines are quoted under `findings` in `PROJECT.json`. Two more disagreements of
`switch2d.py` with its documentation can be read off the model: `--diagnose` exits 16 whatever
stage failed (`docs/HARDWARE-TEST.md` lists a code per stage, and `exit_code_for_stage` has no
caller), and `--daemon --profile p` runs every session with `macos`.

What the passing runs say about `sw2d_final`, in short: although frames of earlier sessions
stay queued, links are left up, and the drain may lose a connection's arrival or its end,
the order of the queue is enough. A Connection Complete is always read before the
Disconnection Complete of the same link, so a session that pairs on a link that is gone meets
the event that says so before it can come to `did_cancel = 0`.

### Bounds

* `ConnectRetries`, `GattRetries`: 2 (first failure, last failure).
* `ReportCap`: 2, so that the count can be past a `max_reports` of 1 when it is first compared.
* `GattTables`: complete, without the macOS input, without the command characteristic, and
  without anything to subscribe to: every branch of `stage_discover`.
* `ArgSets`: every mode and every profile at least once (`MCSwitch2Daemon`).
* `MaxExponent`: 1, so that the overflow is reached; 1023, the real one, in `switch2d_forever`.
* `Handles` = {0, 1} (`sw2d_final`), {0, 64} (`rawhci`): the value the programs take for none, and another one.
* `DrainMax`: 2, so that the drain is cut short, as 5 frames would do in reality; 5 in the
  violated runs.
* `MaxUnread`: 2. With that many frames unread the peer neither connects nor speaks up, and a
  deadline passes only with at most that many unread. Answers, disconnects and command
  answers are not bounded by it, so queues of six and more frames occur. With 3 (623 k states) the invariants
  hold as well, and the theorems are about every bound.
* `OfferSets`: a controller with everything and a second report that cannot notify, without the HID
  service, without the command characteristic, and with nothing but a report that cannot notify. `Repair` = TRUE: it may ask for pairing again after a failure.
* `PollMax` = 5 rounds of a wait (20 to 120 in the code): with at most `MaxUnread` = 3 unasked-for
  frames unread, a wait can end by frames, by silence and by both. `MaxBackoff` = 16 as in the code.
* `ReportSet`: all 256 values of the d-pad's byte; at every place of a stick all triples of three
  bytes whose nibbles differ or are full; lengths 10, 11 and 63, around the limits.
  `Payloads`: every length a `uint8_t` can have. `AdvMax` = 6 bytes of six values: room for a
  structure before Nintendo's, one cut off, and lengths that are 0 or too large.
* `Objects`, `MaxObjects` = 3, `Rounds` = 3 (150 in the code): the adapter, the two
  characteristics, a descriptor and an unrelated object in any order.
* `SlowController`: TRUE in the passing run (the answer to the cancel may take longer than the
  200 ms of the drain's read); FALSE in the violated runs, which do not depend on it. A command
  is assumed to be taken during the sleep before a session, the 10 s wait for a connection and
  the 200 ms settling time after it.

### Fairness

* `switch2d`: `WF_vars(TaskStep)`. Every `await` of the task has a timeout, or is a bleak call
  that answers or raises. Nothing is assumed of callbacks.
* `sw2d_final`: `WF_vars(DaemonStep)`, the process is scheduled; weak fairness of the
  controller taking a command; and, for each wait with a deadline of its own, weak fairness of
  that deadline. The deadlines are absolute (`now_ms() + timeout`), so frames that keep
  arriving do not postpone them; a wait that is started again gets a new one, which is why
  `AttemptEnds` can fail (its mutant restarts the wait on each Security Request). The report
  loop has no deadline, and nothing is assumed of the peer.
* `btstack`: weak fairness of `PairingComplete` only; BTstack's security manager gives every
  pairing an end with its 30 s timer.
* `rawhci`: `WF_vars(ProgramStep)`, the process is scheduled and `poll` returns. A read that
  waits for a frame is not enabled without one, so nothing is assumed of the controller.

## 4. Theorems

Every invariant that a passing run checks is also proved, for every value of the constants, and so
is the refinement `KeepsPromise`. The assumptions only
give the constants their types, but for the ones named below.

| Module | Theorem | States |
|---|---|---|
| `Switch2DaemonProofs` | `TypeCorrect` | `Spec => []TypeOK` |
| `Switch2LinkProofs` | `LinkReleased`, `LinkKept`, `DeviceQuiet` | `ReleasedAtExit`, `NoForgottenLink`, `ClosedDeviceQuiet` always hold |
| `Switch2StreamProofs` | `StreamReady`, `DiagnosePassReal`, `WinnerHeard`, `OwnSession` | `StreamIsReady`, `DiagnosePassIsReal`, `WinnerHeardItself`, `SessionIsItsOwn` always hold |
| `Sw2dFinalProofs` | `FinalTypeCorrect`, `NoPendingCreate`, `AttEncrypted`, `PairingKnown`, `NothingToCancel` | `TypeOK`, `NoCreateWhilePending`, `AttOnEncrypted`, `PairingLinkKnown`, `CleanWithoutCancel` always hold |
| `BtstackBridgeProofs` | `BridgeTypeCorrect`, `BridgeNeverIdle`, `BridgeNeverStalls`, `ReadyPaired`, `PairOrdered` | `BridgeTypeOK`, `NeverIdle`, `NeverStalls`, `ReadyIsPaired`, `PairInOrder` always hold |
| | `BridgeKeepsPromise` | `BridgeSpec => KeepsPromise`: the bridge implements `GamepadHost` |
| `BtstackProofs` | `BtstackTypeCorrect`, `HostReady`, `HostDriven`, `HostNeverIdle` | `TypeOK`, `HostReadyHasReport`, `HostWaitsForAnswer`, `NeverIdle` always hold |
| `RawHciProofs` | `RawTypeCorrect`, `SplitReadsAreBlind`, `SuccessesAreReal` | `TypeOK`, `SplitReadIsBlind`, `SuccessWasConnected` always hold |
| `CodecProofs` | `CodecTypeCorrect`, `AdvWalkCorrect`, `FramesCorrect`, `LastReport`, `HatCorrect`, `UhidCorrect`, `AxesCorrect` | `TypeOK`, `AdvWalkSound`, `FramesAgree`, `LastReportKept`, `HatAgreesWithButtons`, `UhidMatchesDescriptor`, `AxesFollowSticks` always hold |

Each component has one inductive invariant, a conjunction of named parts; the proof that a step keeps
it has one step per action. `TInv`, `LInv`, `SInv`, `OInv`, `FInv`, `BInv`, `HInv` and `RInv` were checked by TLC
on the passing run's instance before they were proved. `CodecProofs`' invariants quantify over sets
TLC cannot enumerate.

### switch2d.py

From `SessionAssumption`, `ArgsAssumption` and `ExponentAssumption`: for all command lines, retry
counts, characteristic tables and exponent bounds, whether or not `disconnect()` may raise.

`TypeOK` is not inductive: `stage + 1` stays a position of the stage list, and
`PairSteps[iter]` an element, only because the point the task is at fixes the stage and the
counter. `TInv` adds that as `Position`, and `HandleKnown`: from a successful discover on, a
profile with one input characteristic has its handle, so subscribing puts a characteristic
into `subscribed`.

The link properties need `LInv` on top of `TInv`: `LinkHeld` (an open link has a client; a
closed one no subscriptions), `ClientFree` (where the daemon has no client, and that
`run_session` returns with one only after a shutdown), `Unsubscribed` (where nothing that
reaches `handle_report` is subscribed; once the exit code is decided, nothing is) and
`Forgotten`. The last one carries the argument: a link is forgotten only in
`cleanup_client` after `disconnect()` raised, or by `reset_session`, which meets a live client
only where `run_session` returned on a shutdown, that is in automatic detection.

What a stream, a passed diagnosis and a winner have behind them is `SInv`, on top of both. The
stage flags outlive a session, so that "the flag is set" does not say "this session did it". The
argument therefore goes over the position: `StagesFlagged` (a stage behind the task has its flag),
`FreshStart` (a session begins with what `reset_session` left, and has no input handle before its own
discover), `HandleFits` (the handle is in the table of this link and is the subscribed one),
`Commands` and `PairCommands` (how many init commands and pair steps this session has written, at
every point). `Counted` says what a report that was counted tells: every stage before it is passed,
and the profile has heard it itself, unless a `disconnect()` that failed left a link to deliver it.

`SessionIsItsOwn` needs `OInv` besides: up to its `connect()` a session has `disconnect_event` clear, and
nobody but its own client can set it. The disconnect of the client before has set it by then or never
will: `cleanup_client` waits for it, and the only other link that is forgotten, by a signal in automatic
detection, is forgotten on the way out, where nothing is awaited any more. Once a `disconnect()`
has raised with the link up, none of this holds, and the property says so.

### sw2d_final.c

From `ControllerAssumption` and `Sw2dAssumption`: for every bound of the queue, set of handles that has
0, and length of the drain.

The properties are about what lies unread on the socket, so the invariant is about the order of the
queue. `QueueInv`: two connections are separated by the end of the first (`Alternates`); with no link,
whatever tells of a connection or its encryption is followed by a Disconnection Complete (`Closed`);
what none follows is of the present link (`Current`), and so is a Random that can still give a shared
key (`RandomsFresh`); once the key is shared nothing queued begins or ends a link (`OneLink`).
`PairingInv` relates that to what the daemon believes: before a new connection it meets the end of the
one it pairs on; it pairs on the link there is, or that end is queued; and if an Encryption Change is
what it meets first, no attempt is pending, and the link, if still up, is not about to be reported
lost. With it the step into the ATT exchange gives `AttInv`. `CommandsInv` lists the shapes of what
is on its way to the controller at each point, and `CancelInv` says what `did_cancel` stands for; the
drain, which may throw away a connection's arrival or its end, keeps both because it removes frames from
the front only. How a queue changes is factored into lemmas about `Follows` (frames taken from the
front, frames that do not matter added at the end), which most actions cite.

### The BTstack programs

From `BtstackAssumption`: for whatever a controller offers and whether or not it asks for pairing again.

`BInv`: `Stage` (`app_state` says whether the bridge scans, dials or has a link), `NoLink`, `Driven`
(which query can be in progress in which state: in `CHAR_DISCOVERING` and `WAIT_ENCRYPTION` also one of the
interrupted sequence), `InOrder` (a pair command on its way is the one the controller is to take next:
this is why a completion counted for the wrong sequence does no harm), `Taken` and `Progress`. The
refinement maps `app_state`, the link and the scan to the phase, and the commands taken to the progress;
one lemma per group of events shows a step of `GamepadHost` or none. `HInv` of the gamepad host is the
same in small; after the discovery its query depends on the report it kept (`HostQuery`). `OneRuns` puts the two together, as `MCBtstack` runs them.

### The raw-socket programs

From `RawAssumption`: every number of rounds of a wait, every set of handles. It fixes `MaxBackoff` to a
power of two up to 16, the code's limit: the delay is doubled while it is below, and would step over any
other limit.

`RInv`: `Flow` (which program can be at which call, with which filter), `Packets` (the header's first byte
is the type byte of a second frame, so it is an ACL or event packet type and never the code of an LE meta
event) and `Readable` (no Connection Complete is on the socket that the controller did not send there,
and with `acltest`'s filter only ACL data and LE events).

### Conversions

From `CodecAssumption`: reports are byte strings of any length, payloads of at most 255 bytes, advertising
data of at most 255 bytes. TLC checks chosen bytes; the theorems are about all of them.

`AdvInv` ties the loop of `adv_is_nintendo` to the reference: the position is a start, and a set of passed
structures leads to it, none of which names Nintendo. As `IsStart` is the least such set, that set shows
that no start was left out. `ProtocolInv` and `Converted` say that a result is the conversion of the
present input; what remains is arithmetic on bytes, in lemmas that stand alone.

The bound of `AxesFollowSticks` comes from the proof: rounding to three digits and then to an integer can
put `update_uinput` 17.1 of 32767 away from the exact value, which the sampled sticks do not reach. It was
17 when only TLC had seen it, and is 18.

## 5. Only model-checked

* Liveness: `ShutdownEnds`, `Reconnects`, `MaxReportsEnds`, `AttemptEnds`, `SignalEnds`,
  `QueuedDisconnectEnds`, `WaitEnds`, `ProgramEnds`, `SignalEndsOrBlocks`. Fairness and ENABLED are out
  of the prover's reach.
* The properties of the violated runs: there is nothing to prove.
* `Switch2Bt`, whose only run is a violated one.

## 6. Plan

1. *(done)* `Switch2Session`, `Switch2Daemon`: model, runs, findings, first theorems.
2. *(done)* `HciController`, `Sw2dFinal`: model and runs.
3. *(done)* `Btstack`, `BtstackBridge`, `Sw2dBtstack`: model and runs.
4. *(done)* `GamepadHost`, which the bridge is shown to implement.
5. *(done)* `HciRawSocket`, `RawHci`: the raw-socket programs.
6. *(done)* `Reports`, `Codec`: conversions against references.
7. *(done)* `Switch2Bt`: as far as the program gets.
8. *(done)* Theorems: every invariant of the passing runs, and the refinement.
9. Theorems that say more than the runs do: what `Switch2Bt` does keep (the first object decides), the
   conditions under which the violated properties hold (`CharsNotSwapped` without a pairing asked for
   by the controller, `DisconnectNoticed` up to the ATT exchange), and the safety part of the liveness
   properties: what decreases in each wait.

## 7. Running

    tlc -workers 2 -config switch2d.cfg MCSwitch2Daemon
    tlc -workers 2 -config sw2d_final.cfg MCSw2dFinal
    tlc -workers 2 -config btstack.cfg MCBtstack
    tlc -workers 2 -config rawhci.cfg RawHci
    tlc -workers 2 -config codec.cfg MCCodec
    tlc -workers 2 -config switch2_bt.cfg MCSwitch2Bt
    for m in Switch2DaemonProofs Switch2LinkProofs Switch2StreamProofs Sw2dFinalProofs \
             BtstackBridgeProofs BtstackProofs RawHciProofs CodecProofs; do tlapm $m.tla; done

The proofs take about five minutes together.

## 8. Not modelled, and why

* `--dump-jsonl` failing to open its file at start-up, the statistics lists and the JSON
  summary of `switch2d.py`: output only.
* The scan callback's `reconnect_mac` and `pairing_mode`, with `parse_manufacturer_data` and
  `parse_reconnect_mac`: diagnostics no stage reads.
* `sw2d.c` after a connection and `switch2-bt.c` after the discovery: never reached, see above.
* `btstack_build/sw2d_btstack.c`: a draft with markdown in it, which does not compile.
* `switch2_build_pair_setmac`, `switch2_validate_pair_keys`: a copy and a comparison of
  constants, without a caller.
* `tools/switch2_ble_probe.py`: a linear copy of switch2d's connection steps.
* `legacy/`: byte-identical copies, and three USB inspection programs; `*.bak*`, `*.patch`: history.
* `switch2-bt-ff.c`: a stateless forwarder. It asks for an output report of three values, the
  descriptor has two, so `switch2bt_ff_init` ends without registering anything.
* `tools/dump_reports.py`, `install.sh`, `scripts/`, `systemd/`: pure I/O.
* BTstack itself (`btstack-upstream`), bleak, BlueZ and the kernel: third party; modelled only
  as far as the daemons see them.
