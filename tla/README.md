# Verification of the exhibition home panels

This directory holds TLA+ models of the programs under `src/`: what they do
when their threads, processes and panels interleave, fail and restart. TLC
checks the models on small instances; TLAPS proves the most important
properties for every instance.

## 1. The system

A home has several panels on a LAN. On each panel several *sites* run, one
process each, every one an HTTP server on a port of its own:

| part | source | state | operations |
|---|---|---|---|
| site library | `baseSrc/siteService` | subscribers per message id, one queue + semaphore + thread per subscriber, subscriber file | start (register, subscribe, ping, listen), publish, (un)subscribe, save/load |
| query site, own panel | `unit/newQuery` | sites on record, their ping counts | register, unregister, ping, count down every 10 s, publish on/off-line, ask for new registrations after a restart |
| query site, other panels | `unit/newQuery` | sites of every discovered panel, their counts, own IP | mDNS discovery, fetch, node-to-node updates, count down |
| BLE site, serial gateway | `unit/bleSite/serial` | two command lists, retry counts, receive queue | queue a command, send thread, report handling, package joining |
| BLE site, binding | `unit/bleSite/downCmd` | binding flag, events, addresses, scan list | scan, assign addresses, bind devices one by one |
| BLE site, lists | `unit/bleSite/sourceManage` | devices, groups, statuses, address maps, their files | control, reports, reset, queries |
| config site | `unit/config` | scene file, white list, panel and account data | get/save, sync with other panels every 30 s and on demand, cloud requests |
| synergy site | `unit/synergy` | caches of devices, groups and sites; light timers | scene control, radar-driven lights, voice |
| MQTT client, MDM site | `baseSrc/mqtt`, `unit/mdm` | topics, connection | connect, reconnect, dispatch |

Sites talk by HTTP requests (answered by a thread of the receiver's pool; the
global lock in `rawHttpRequestHandler` is commented out, so handlers run
concurrently) and by published messages (a POST to each subscriber by the
subscriber's own thread). Inside a process, threads share maps under mutexes;
several read-modify-write sequences and all publications happen outside them.
Everything else in the repository is vendored (HTTP, JSON, logging, MQTT,
mbedtls, mDNS parsing) or test mains.

What makes each part correct:

- *Site library*: messages reach a subscriber in order and at most once; a full
  queue loses old messages but no wake-ups; subscriptions survive a restart.
- *Query site*: a site is on record while it lives and not for long after; the
  subscribers of the on/off-line message get the same picture; after a restart
  all sites come back.
- *Query site, other panels*: the list kept of another panel is that panel's
  own record, but for what is under way, and becomes it again after a loss.
- *Serial gateway*: no command is lost or starved; triple-switch commands are
  retried at most six times, with the right number in each transmission. What a
  lost byte costs is limited to its own message and the one after it.
- *Lists of the BLE site*: devices, statuses, groups and addresses name the
  same devices; the locks that guard them cannot block for ever.
- *Binding*: an answer is credited to the device that was asked; addresses are
  unique; one binding at a time.
- *Config site*: the panels end up with the same files and no newer file is lost.

The hard behaviours, with the line where each bites, are the `hazards` of
`PROJECT.json`.

## 2. Modules

| module | models | state and actions |
|---|---|---|
| `TelinkSend` | sending half of `TelinkDongle` | variables carry the code's names; a push and its `notify_one` are two steps (`Write2Seria`/`Write2Serial_tripleSwitch`, `NotifyOne`); the send thread is `Wait`, `GetCommandString`, `WriteDone`; the package thread is `PackageHandel` |
| `TelinkSendProofs` | theorems about it | |
| `InOrderChannel` | what publishing promises one subscriber | abstract: publish, deliver, give up, deliver late |
| `SubscriberSiteHandle` | `MessageSubscriberSiteHandle` | publisher: `SendMessage`, `SemPost`; thread: `SemWait`, `TakeMessage`, one of the three outcomes of the POST; network: `ArrivesLate` |
| `SiteTree` | registry of the own panel, and the start-up of the sites of the panel | HTTP threads: `SiteRegister`, `SiteUnregister` under the lock, then `PublishMessage` message by message, then `Reply`; `SitePing`; `LocalSitePingCountDown`; `HubCrash`, `HubStart`, `PublishRegisterAgain`; the sites step through `startByRegister` |
| `SiteTreeProofs` | theorems about it | |
| `FileSync` | save and sync of the scene file or the white list | `SaveFile` (whole handler), `AutoUpdate`/`MessageTrigger`, one `Fetch` per panel, `SyncDecide`, `SyncSave` |
| `FileSyncProofs` | theorems about it | |
| `BindDevice` | binding and unbinding: `LogicControl`, `BindDevice`, `LightUnBind`, `EventTable`, `SnAddressMap`, the device list | pool threads: `Parse`; `SetBindingFlag`, `GetScanedDevices`, `BindEnters`, `VerifyNet`, per device `AssignAddress` to `ReadBindResult` or a timeout, `BindEnds`, `ClearBindingFlag`; `SendUnbind`. Package thread: `NodeAddressAssignAck`, `TypeEvent`, `BindResult`, and `UnBindResult` with its two deletions, each under a lock of its own. `Deadlock`: a thread that saves an address never gets `bleConfig`'s lock. `ResetClearsAddresses`, `ResetClearsDevices`, `Restart` |
| `BindDeviceProofs` | theorems about it | |
| `PackageStream` | what the serial line's receiver promises | abstract: a message is damaged, handled, or junk is handled because of damage |
| `RecvPackage` | receiving half of `TelinkDongle` and `RecvPackageParse` | the line: `LoseByte`; receive thread: a read of whatever has arrived, one byte of `joinPackage` a step, then `packageEscape` and push, then `notify_one`; package thread: wait, or handle the package at the front, from which it may never return (`HandlerBlocks`) |
| `RecvPackageProofs` | theorems about it | |
| `PeerSites` | `SiteTree` for another panel: `discoveredSiteMap`, node2node messages, mDNS answers and their queue, `initLocalIp` | peer: `SiteRegister`/`SiteUnregister`, `Publish`, `ChangeAddress`, `initLocalIp` in two steps (`AssignLocalIp`, `UpdateLocalSiteIp`), crash and start; observer: the queue's thread through fetch, store and subscription, `UpdateFindSite`, `DiscoveredSitePingCountDown` |
| `PeerSitesProofs` | theorems about it | |
| `BleConfig` | `bleConfig`, `SnAddressMap`, `GroupAddressMap`, `DevGrpValue` and the handlers that call them | an operation is the sequence of its calls (`BindSteps`, `ResetSteps`, ...); each call is an action, a call under two locks is two; `device_config` and `save_deviceList` write the lists a client makes of them; `Restart` reads the files |
| `BleConfigProofs` | theorems about it | |
| `Subscription` | the (un)subscribe handlers of `ServiceSiteManager`, `saveMessageSubscriber`, `loadMessageSubscriber` | a request goes message id by message id, then dumps the list message by message, opens (truncates) and writes the file; `Restart` loads it |
| `ServiceSiteManagerProofs` | theorems about `SubscriberSiteHandle`, among them the refinement, and about `Subscription` | |
| `MC*` | model values for TLC | |

`SubscriberSiteHandle` is shown to implement `InOrderChannel`, `RecvPackage` to
implement `PackageStream`, both by INSTANCE with a refinement mapping.
`PeerSites` stands where the two panels meet: it takes from `InOrderChannel`
that a node2node message comes once, late or never, and from `SiteTree` what a
panel's own record does.

Definitions marked "Faulty" in a comment are slips
a programmer could make in the operation beside them. They are not part of the
specifications; putting one in place of its original makes TLC report the
property it is paired with in `PROJECT.json`, which shows that the property
can fail.

### What is abstracted

- A command, message, site or file is a model value, a number or a small
  record. A command is one queued string with its identity: the same bytes
  queued twice are two commands (two commands may share an address).
- `TelinkSend`: reports may come at any time, for any address and in any
  number, bounded only by the receive queue. The port is never closed at run
  time, so `isOpened` is true throughout. Routing by `parse2Send` is the
  division of the commands in two classes.
- `SubscriberSiteHandle`: `isStop` is never set and `sendRetryCount` decides
  nothing; both are left out.
- `SiteTree`: the body of a registration is left out, and so is the query
  site's own entry, which is never counted down. An HTTP thread serves one
  request. The subscriber file is the set `subscribed`: the answer to a
  subscription is sent after the handler has saved. Nobody in the repository
  sends `site_unregister`; a site that stops is assumed to. The countdown may
  not run more than `MaxMissed` times between two pings of a living site: both
  have a period of 10 seconds, so more than one countdown between two pings is
  already a long delay, and three is what the limit of -3 tolerates.
- `FileSync`: a file is its time stamp and its devices. Memory and disk copy
  are written together under a lock of `configParamUtil`. Every time stamp is
  used once (they are taken from the user's clock); equal stamps are listed as a
  hazard. Rooms, doors and radar areas of the white list are left
  out; they only follow the devices.
- `BindDevice`: an address is its number; `index2Address` writes it in hex,
  and what happens beyond 16 bits is a hazard only. A scan finds any set of
  devices, and the request allows any part of it. The gateway may lose a
  report or send it at any time after its command. Storing a report's data and
  notifying are one step, waking up and reading the data are two, and a wait
  may end by itself (the waits have no predicate). The two saves of
  `getAddress` are one, nobody reads the file between them. Statuses and groups, which a
  binding also writes, are in `BleConfig`. A network that has been reset has no lamp
  that answers an old unbind command, and the reset command to the gateway
  leaves before the program can restart. Who saves an address waits for
  `bleConfig`'s lock with `SnAddressMap`'s held; that it can meet a thread that
  waits the other way round is shown in `BleConfig`, and is one step here,
  `Deadlock`, possible whenever an address is about to be saved and some address
  has been given out. From then on no step that needs one of the two locks is
  taken; `getNetKey` and `storeNetKey` need `bleConfig`'s. The registered service
  `test` (`bleSite/main.cpp:220`, `serviceRequestHandler.cpp:961`) calls
  `getNodeAssignAddr` and `indexForward` without `BindDevice::mutex_` and sends
  nothing to the gateway; it is a debugging hook and left out. Called during a
  binding it would put an address between those of a triple switch, and
  `AddressRangesDisjoint` would not hold. `width`, `confirmed` and
  `misled` record history for the properties; no other variable depends on them.
- `RecvPackage`: the bytes of the line are real bytes, because framing,
  unescaping and joining are what is modelled; the gateway that sends them is
  external. `GatewayAssumption` says what is taken of it: a frame begins with a start
  byte, and the packages of a message, unescaped, have the indices 0, or 1, 2, ..., 3.
  A byte may be lost anywhere before it is read. `disableUpload` is
  left out: nothing calls it at run time. What `parse2Event` does with a
  package is in `TelinkSend`, `BindDevice` and `BleConfig`; some handlers take the
  locks of the deadlock `BleConfig` shows, so that here any handler may block for
  ever, with `recvMutex` locked.
- `PeerSites`: one panel observes one other. An entry of the record is the
  address in it; of an entry of the observer's list only its presence is kept.
  `changes` numbers the changes of the peer, so that the history variable
  `seen` can tell a message that has been overtaken. A reachable peer is
  fetched at least once in `MaxMissed` countdowns (both periods are 10
  seconds). `localIp` is assigned and read without a lock (`siteManageUtil.cpp:500`);
  the model lets the reader have the old or the new address. The records follow in
  a step of its own, under the lock (line 502), and the mDNS service starts after
  it. The history variable `overtaken` names the sites whose request was under way
  all through such a change.
- `BleConfig`: one group, of a level and of a device's properties their
  presence. The levels that are written are those of addresses of the form xx02
  (`isDevAddress`), 255 in the code and `LastStored` here; no address has the form
  xxC0 of a group. A client may save any list of devices, `device_config` with no
  device in it saves an empty one, and any device with an address may be put into
  the group, listed or not. History variables tell what the properties except:
  `disturbed` has the devices on which two operations have met, or a restart or a
  saved list, `strays` the members of the group that have no entry since a reset
  or had none when they were added, `orphaned` the addresses taken from a device,
  `reported` the last power reported. A request of a second binding is refused while one runs, as
  `LogicControl::parse` does; the short race it leaves is `BindDevice`'s.
  Making, naming and deleting groups, the scan list and the network key (each
  set and read under one lock) are left out, and so are disk errors.
- `Subscription`: handlers overlap, because the guard on `http_request_mutex`
  is commented out (`service_site_manager.cpp:352`). A list that is iterated
  while another thread changes it is read message by message; what the
  undefined behaviour can do beyond that is to end the process, which is
  `Restart`. `erase(end())` drops the last entry or ends the process. A file
  written by two threads at once holds either dump, nothing, or no JSON.
  `isStop` and the retry count in the file are left out.

## 3. Runs

| run | instance | shows |
|---|---|---|
| `telink_send` | 2 common commands, 3 switch commands on 2 addresses, 6 tries, 2 callers, 1 unhandled report | the per-address counts belong to the front command and stay below 6, so that it is transmitted at most 6 times; the two lists alternate; every command is served |
| `subscriber_handle` | queue size 2, 7 messages | the queue overflows twice and more; every message has its wake-up and leaves the queue; refinement of `InOrderChannel` |
| `site_tree` | 1 site, 2 HTTP threads, limit -3, crashes and restarts without bound | living sites stay, dead ones go, subscribers come back; what was announced of a site is what is on record, but for operations that crossed and crashes |
| `site_tree_restart` (violation) | the same, sites never fail | a site in the middle of its start when the query site restarts is never on record again |
| `peer_sites` | 2 sites, 2 addresses, 2 changes of any kind, limit -1 | a list is wrong only after a loss or a named race; an address on record is stale only for a request that was under way all through its change; no list is empty; the view converges |
| `file_sync` | 2 panels, 3 saves in any order, 2 faults | a file goes back only in the named races; the panels end up alike |
| `file_sync_race` (violation) | 2 panels, 2 saves, no fault | a sync overwrites the file saved during it |
| `white_list_sync` (violation) | 2 panels, 2 saves, no fault | merged white lists do not spread |
| `bind_device` | a lamp and a triple switch, 2 threads, 2 requests, 2 devices to bind, 2 faults (resets, restarts, spurious wake-ups, a deadlock) | address ranges stay apart; an unbind report removes its own lamp or nothing; what enters the list has been reported bound, but for the named confusions; the binding flag is taken back wherever a binding stops, unless the program has met the deadlock |
| `ble_config` | 2 devices, 2 workers and the package thread, 3 addresses, 2 of the form xx02, 4 operations and a restart | threads block each other for ever only in the one order of `bleConfig.cpp:369`; the lists agree on a device nobody works on, but for what has met on it; a restart loses a level only behind the level of an address that was taken from its device |
| `recv_package` | 4 messages of 8 frames, every escaped byte, 2 losses anywhere, reads of 2 bytes | refinement of `PackageStream`; unescaping stays in the frame; every message that is whole after a whole end is handled, as sent and in order, unless a handler has met the deadlock |
| `subscription` | 2 sites, 2 message ids and an unknown one, 2 threads, 3 requests of 2 ids, restarts at any point | nobody else's subscription ends; the file is current when all is quiet; a restart loses no answered subscription or all; both but for the named races |

Why the bounds are enough: two commands of one address and one of another are
the least with which counts can be mixed up, and both lists can be empty, short
and non-empty together. With queue size 2 the clearing happens at the fourth
unread message, so seven messages clear it twice with wake-ups left over.
Sites do not interact in the registry except through the HTTP threads and the
countdown's batch, so one site with two threads (two requests for it can be
under way, of an earlier and a later life) shows the races; a run with two
sites and one thread without crashes of the query site (5.7 million states)
was also made and found nothing. In `FileSync` a race needs one sync of a
panel, one save on it and one older file on the other. In `BindDevice` the
binding flag does not keep two requests apart (it is read in `Parse` and set
later), so two threads can bind, unbind, or do one of each; two devices in one
or in two requests show late answers, and the switch's three addresses
lie before or after the lamp's. Two faults allow a reset followed by a restart,
which is what brings the address map and its file apart and together again.
In `PeerSites` one change can race with one fetch and a second one with the
message of the first; crash and start are two. In `BleConfig` four operations
are the least in which a list read by one thread is changed by another twice,
and a binding, a control, a report and a restart fit in one behaviour. They are
also what it takes to lose a level: a binding, a control, a second binding of the
device, a second control, and then the restart that may follow. A third address
given is beyond those whose levels are written. Workers and devices are symmetric,
which is sound because the run checks safety only. The line
of `RecvPackage` has a message of three packages before and after a whole one,
so that a lost end meets a start, a whole package and a message of two; two
losses can take the end of a frame and a byte of the next. In `Subscription`
two threads overlap with a third request to come after them, and the file limit
lies between one request's entries and all there can be. `Site`, `Message` and
`Thread` are symmetric there, which is sound because the run checks safety only.

The cfgs of `SubscriberSiteHandle`, `BindDevice` and `RecvPackage` switch the
deadlock check off: these models stop when the bounded number of messages has
been published and sent, of requests taken and answered, of bytes read.
`BleConfig` switches it off for the same reason, and because its threads do
block each other, which is what `StuckOnlyOnAddresses` is about. All other runs
check for deadlock.

### Fairness

- `TelinkSend`: weak fairness of the send thread, the package thread and of a
  caller's `notify_one`. Callers and lamps owe nothing.
- `SubscriberSiteHandle`: weak fairness of `sem_post` after a push and of the
  send thread; every POST ends, because the client has timeouts.
- `SiteTree`: threads of the query site run, the query site is started again
  by its supervisor, pings are sent. A site's registration and subscription
  are strongly fair: the code retries them every 2 seconds for ever, and they
  are possible only while the query site is up and a thread is free.
- `FileSync`: the timer thread starts syncs for ever, and a sync goes on
  because every request has a timeout. Saves and faults are not fair.
- `BindDevice`: weak fairness of each pool thread once its request has been
  taken; every wait of such a thread for an event has a timeout, and every mutex
  is released in time but the two of the deadlock: a step that needs one of them is
  not enabled after it, and the property excepts it. The gateway, the lamps, the
  package thread and the users owe nothing, so the flag is taken back even if
  no report ever arrives.

- `PeerSites`: weak fairness of `initLocalIp`'s look at the address and of its
  update of the records (no thread keeps that lock), of the
  queue's thread (every request has a timeout) and of the countdown; strong
  fairness of the mDNS answer and of the fetch, which are tried again every 10
  seconds and get through now and then. No node2node message has to arrive.
- `RecvPackage`: weak fairness of the two threads. The line owes nothing. A
  handler returns or meets the deadlock, which `EveryShelteredIsHandled` excepts.

`BleConfig` and `Subscription` are checked for safety only: their threads can
block or be killed at any point.

### Disagreements found

Three runs show a disagreement between the code and its own comments or notes;
`PROJECT.json` quotes them under `findings`: the query site's restart, the
sync that overwrites a newer file, and the white lists that stay different.
Other races are the exceptions named in the properties (`OnlyWhenRaced`,
`crossed`, `raced`, `overtaken`, `misled`, `disturbed`, `strays`, `orphaned`, and
`deadlock` or "blocked" where a thread never goes on): the property holds but for
them, and says which they are.

## 4. Proofs

`TelinkSendProofs` (for any sets of commands and addresses, any retry limit of
at least 2):

- `TypeCorrect` is inductive by itself.
- `CountBelongsToFront` is not: the steps of the send thread need to know that
  a command occurs once in its list. `CountInv` adds that, and that the count
  of the front stays below `MaxTries`; `AtMostMaxTries` and
  `LeavesForAReason` follow from it, the latter as an action property (the run
  checks the count, which the last try would exceed, and neither of these two).
- `NeverWritesNothing` and `BoundedBypass` come from `TurnInv`: never are both
  `common` and `triple` set, and a class that has been passed over once is the
  one whose turn it is.
- `WakeupIsNeverLost` is inductive: whoever pushes owes a notification.

`LeavesForAReason`, `NeverWritesNothing` and `NoLostWakeup`, like
`QueueIsBounded` and `CountsAreSilence` below, are proved and not run: they are
what the deeper properties of the runs rest on.

`ServiceSiteManagerProofs` extends both modules of `ServiceSiteManager`, which
is why the handle's definitions are called `HandleSpec`, `HandleTypeOK` and so
on. About `SubscriberSiteHandle` (for any queue size): `OrderInv` says that the
queued messages are strictly increasing, younger than the one being sent,
which is younger than all handed to the network, and published. With it every
step is a step of `InOrderChannel` or a stutter.

About `Subscription` (for any sites, messages, threads and requests, and any
limit of the file): `TypeInv` is `TypeOK` with the exact shape of each kind of
request, and that no text ever dumped, hence no file, has a site twice for a message. `FileIsCurrent`
says nothing while a request is handled, so it is not inductive. `FileInv` says
for every point of every handler how lists, text and file differ.
`UndisturbedIsAlone`: who has been saving alone so far is the only one that
saves and has a file it has just truncated; as long as nobody else owes a save,
its text is the lists up to the ids it has yet to read; and even when others
change the lists meanwhile, it has read, or has yet to, every subscription that
has been answered or that it will answer itself. `FileIsLists`: unless raced,
the file is the lists as soon as nobody owes a save; `AnsweredIsSaved`: a
complete file has every answered subscription, whatever is being handled.
`FileIsCurrent` and, with what a restart loads (`LoadedLists`: all of the file
or nothing), `AnsweredSurviveTogether` follow; `OthersStay` follows from what
`erase` takes out (`RemovedSite`). That the number of entries is a sum over the
lists is not needed: a file of any length is loaded whole or ignored.

`SiteTreeProofs` (for any number of sites and HTTP threads and any limit; the
run has one site): the lemma `RegistryStep` says what a step may do to the
registry; `IInv` is `CountsAreSilence`, the types of the registry and
`DownIsEmpty`: a query site that is down has nothing on record and no job, which
is why a restart may call every site heard. `CountsAreSilence` is not inductive
without it. `LivingSitesStay` follows from `IInv`: a site that the countdown
drops has been silent longer than a living one can be.
`TypeInv` adds the other variables, that the record is finite, and `JobsWait`: a
thread that has a request to handle has published all of its last, so that what
the request leaves to publish replaces nothing. `AnnouncedAsRecorded` is not
inductive: it says nothing while publications are queued. `AnnounceInv` adds that what is
queued about a site says how it is on record (`QueuedAsRecorded`) and that a
topic last told otherwise has something queued for it (`OutAsRecorded`), for
every site whose publications have not crossed. The lemma `CountDownPublishes`
says what the countdown leaves to publish whatever the order it takes the
dropped sites in.

`FileSyncProofs` (for any number of panels, devices, saves and faults and both
files): `IInv` is `TypeOK`, `SavingHasAsked` (a sync saves after it has asked
everybody, and only if it has something) and `OwnFileIsCovered` (once an
unraced sync has asked its own panel, its results hold a file at least as new
as the panel's). With the lemma on what `Newest` and `Merge` return, the save
cannot go back: `GoesBackOnlyWhenRaced`. That a newest file exists rests on
time stamps being bounded, as they are (`unsigned long long`).

`BindDeviceProofs` (for any finite set of devices, any threads and any
bounds): the addresses cannot be shown to be apart alone. `AddressInv` adds that all
of them are below the index, that the device being bound has the topmost
addresses (so that `indexForward` widens nobody else's), and that an address
named in an unbind command under way is its device's or nobody's. This needs
that one thread at most is inside `bind` (`OneHolder`), that the file is the
map in memory or cleared (`FileIsMap`, for the restart), and that a result read
is the device's own unless the wait was misled (`ResultIsOwn`). `IInv` is the
conjunction with `TypeOK` and `UnbindHitsItsDevice`;
`AddressesAreDisjoint`, `UnbindHits` and `ListsTheBoundHolds` follow.

`RecvPackageProofs` (for any line, any losses and any size of a read): `FrameShape` says
that a frame is being joined exactly in state DATA, begins with a start byte and
has an end byte only as its last, and then only when it is about to be unescaped.
`EscapeStaysInFrame` follows: the last byte is no escape byte. With it goes
`PackageThreadIsWoken`. `TypeOK` rests on it too: on a frame that an escape byte
ended, `packageEscape` would have no value. That its recursive function exists on all
others, and yields bytes, is proved by induction on the distance from the end
(`EscapeExists`, `EscapeValues`).

`ShelteredHandled` says that a message that came whole, after a whole end, is
handed over as it was sent. Its inductive invariant, `StreamInv`, follows a message
from the line to `parse2Event` by two positions: all before the first has been
joined or lost, all from the second on is in the buffer or lost (`Positions`). A
frame of which nothing is lost is joined and handed over as it is on the line
(`JoinedAsSent`, `EscapedAsSent`), whatever came before its start byte. What is
queued is described by what it will yield: the state the package thread will be in
when it has handled it (`Yields`, a run of `HandledOf` over the queue), so that
handling a package changes nothing and queueing one adds a step at the end. In that
state `packageString` is what has been said of the message in the middle of which the
line is, if nothing of it is lost (`StringIsSaid`), and the events have all messages
before it of which nothing is lost, in their order (`EventsHave`). From a whole message
after a whole end nothing is lost (`ShelteredIsClean`), and with nothing buffered or
queued the invariant is the property.

The refinement of `PackageStream` says more, that nothing else is handled but for
damage, and stays TLC's: a message number is told from a package by its bytes
(`Identified`), and what is left of a damaged message may on some lines be another message.

`PeerSitesProofs` (for any sites, addresses and limits): `Simple` collects the
types, the query site in every list, also a fetched one, and the addresses. On
it `RaceInv` rests: unless raced, the list is the record but for the changes
whose messages are still under way, the list that has been fetched and not yet
stored likewise, and `seen` is the youngest change each site's entry reflects.
`WrongListNeedsRace` is its special case with nothing under way, and not
inductive without the part on the fetched list. `StaleAddressOnlyWhenRaced` says
nothing while `initLocalIp` is between its two steps; `AddressInv` adds
`RequestsAreFresh`: outside of it, a request under way has read the address in use
unless it is `overtaken`.

`BleConfigProofs` (for any devices, threads and bounds): `LockInv` says that
calls come in pairs where a second lock is needed (`TodoPaired`) and that who
holds a lock is about to make the second call of its pair (`HoldersCall`). So
who waits holding a lock waits for a known one: the group lock's and the
address lock's holder for `bleConfig`, `bleConfig`'s for the address lock and only
with levels to store. A set of threads blocked for ever contains that pair.
`TypeInv` is `TypeOK` with `OnCourse`: what a thread has left to do is the rest of
one of the programs of its kind of operation, so that its next call tells what it
has done (the lemma `CourseTable`); with it go that one thread at most binds
(`OneBinder`) and that the lists two calls write back are lists (`ReadType`).
`LevelInv` adds for `LevelsSurviveRestart` that no two devices share an address in
the map or in its file (`AddressInv`), that the next address is one no level
names (`NewAddress`), that the file of the addresses is the map or cleared while
nobody is between changing and saving it (`SnFileInv`), and likewise that the
device of every level that is written is in the file of the levels (`Stored`).
`OrphanInv` goes on from there: an entry of that file names the device of its
address still, in the map and in its file, or its address is `orphaned`; so what
stops the loading is the level of an orphaned address. `ListInv`, for
`ListsAgree`, speaks of the devices that are not `disturbed`: nobody else works on
the device of an operation (`Apart`); the status is the one last reported
(`AsReported`); at its next call each has left its device as the
calls before that one make it (`InCourse`); a device that no operation is in the
middle of is consistent (`ClearConsistent`), also when one is about to begin; the file
of the groups is behind only after a reset (`GroupFileInv`).

The assumptions are those named in the modules (`MaxTries >= 2`, what the
gateway sends (`GatewayAssumption`, which TLC evaluates on the line of the run), null values
distinct from the others, finitely many devices, bounds natural numbers, `MaxMissed` below what the
ping limit tolerates).

The library's induction theorems take the induction hypothesis as an operator,
which no prover here can instantiate. `SetInduction` states induction for a set
of natural numbers instead; it follows from `<` being well-founded, and is what
the facts about `FlattenSeq` and `packageEscape` rest on.

Checked by TLC only: all liveness properties (out of reach of the prover
here), and `ImplementsStream`.

## 5. What is left

Parts that are modelled only partly: rooms, doors, radar areas and the account
data of the white list, and the audio and radar device lists of the config
site; the making of groups; the addresses a triple switch holds when its type
report was missed (nothing says what it is owed); disk errors.

The models stand for the core of the repository's own code. Of the C and C++
lines under `src/` most are vendored (`json.hpp`, `httplib`, `openssl` and
`mbedtls` headers, `spdlog`, `cJSON`, the mDNS library) and are not modelled, so the
share of all lines that the models stand for is small.

Not modelled, and why: mDNS packets, HTTP, JSON, logging and encryption (pure
I/O or vendored), voice matching (string matching without state), the cloud
requests of the config site and the MDM site (they forward, but for
`getWhiteListFromCloud`, which also saves the white list it is sent, as a save of
`FileSync` does), liveness of the lamps (hardware).
