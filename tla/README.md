# TLA+ models of the DragonBoard 410c home gateway

This directory holds TLA+ specifications of the programs in `src/application`:
the first-generation home program (`application/curl`) and its successor, the
HALI gateway (`application/hali`). The modules are checked with TLC on small
instances; theorems in the `*Proofs` modules are checked with TLAPS for every
value of the constants.

To repeat a check: `tlc -config <file>.cfg MC<Module>`; to repeat a proof:
`tlapm <Module>Proofs.tla`. `PROJECT.json` lists runs, mutants, the mapping of
definitions to source lines, findings, hazards and theorems.

## 1. Inventory

### HALI gateway (`src/application/hali/app`)

| Part | State | Operations | Talks to | Hard behaviour | Correct means |
|---|---|---|---|---|---|
| Thread bring-up, registry, messages (`framework/main`, `framework/init`, `hali_thread*.c`, `hali_sem.c`) | one singly linked list of nodes per thread type, a semaphore, one POSIX queue and epoll set per thread | create, self-registration, wait for all, send, receive, interrupt, shutdown | heap pointers in messages; semaphore | unlocked list insertion by every thread; failing calls; ownership of buffers | main waits for every thread; each message has one owner, is deliverable and freed |
| Epoll registry and timers (`hali_epoll.c`, `hali_timer.c`) | per-thread list of watched descriptors, mirrored in the kernel | add, del, dispatch, timer create and destroy | every other part through callbacks | errors half reported, reused descriptor numbers | a registered pointer is live; a watched descriptor is served |
| Module registry and dispatch (`hali_module_reg.c`, `hali_module_init.c`, `hali_hanging.c`) | tables of procedures per module | register, unregister, dispatch to all modules | threads, mosquitto callbacks | tables changed while other threads call through them | a procedure called is registered |
| MQTT client (`hali_mosquitto.c`) | `g_pstmosq`, callbacks, libmosquitto's thread | init, connect callback, subscribe, publish | broker; zigbee module | second thread starts before the client is stored; connections come and go | once up, every connection has its topics |
| Zigbee hub (`zigbee_serial.c`, `zigbee_dev.c`, `zigbee_mqtt.c`, `zigbee_init.c`) | device list with stored attributes, the coordinator's connection | accept, discovery, report, 10 s timer, command | coordinator (TCP), broker, both threads | unlocked list and descriptor on two threads; lost frames; resets | published state is stored state; views converge; commands are obeyed |
| TLV lists (`hali_tlv.c`, `tlv.c`), console (`hali_cli.c`, `zigbee_debug.c`) | attribute lists; debug level | get, change, print | hub | lengths | values come back as stored |

### First generation (`src/application/curl`)

| Part | State | Operations | Talks to | Hard behaviour | Correct means |
|---|---|---|---|---|---|
| Voice prompts (`queue.c`, `pvoice.c`) | one System V queue, one outgoing and one incoming record for all threads | send, receive, init, fini | main, packet and work threads | three unlocked senders on one record, filled with the bytes given only; leftovers of a crash | quits only when told; no sender hangs; the text sent is the text heard |
| Device list and heartbeat (`device/zigbee.c`, `prevpkt.c`, `pwork.c`) | list of nodes with counters | add, find, update, check, delete all | packet and work threads | unlocked traversal and deletion | one node per id; silent devices leave, others stay |
| FastCGI bridge (`fastcgi/fcgi_read.c`, `prevpkt.c`) | two POSIX queues that outlive both processes | request, reply, exit, kill, restart | web server, packet and main threads | kills between request and reply; bounded queues; a thread that ends before it serves | a page gets its answer; nobody hangs |
| UART parser (`prevpkt.c` 47-91, `puart.c`) | position in a frame | byte in | voice prompts | frames split over reads, short frames | a frame is recognised once |
| Weather, speech (`json.c`, `getinmemory.c`, `postcallback.c`, `rest-api-tts`) | none kept | HTTP, JSON, file | work thread | blocking calls | - |
| Playback (`alsaplay*.c`, `mplayer`, `voice`, `src/application/sound`) | ALSA device, mplayer process | play | voice thread | - | - |
| Song player sample (`mplayer/test/songplay.c`) | flags, a semaphore, song pointer | three threads | mplayer | hand-made handshakes | show and quit come to an end |
| cJSON and cJSON_Utils (vendored, `cJSON/`) | items in doubly linked lists, their names and texts | parse, print, create, add, reference, detach, replace, copy, delete, patch | device list and weather code | allocations failing in the middle of a call; who frees a name, a text, a child; buffers grown piece by piece; lists sorted in place; patches applied in sequence | a forest of ordered trees, freed once; what is printed is parsed back; a patch made for two trees leads from one to the other |
| MD5 (`md5.c`), samples (`src/train`) | | | | | |

`PROJECT.json` has the status of each part and, under `hazards`, each thing
that is hard to test, at its line.

## 2. What is modelled

### HaliThread (and BufChannel)

One action per step of main, of a thread and of a failing call. A thread's
start is cut at the two assignments of `sl_addhead` (`list.h`), since that is
where two inserting threads collide; `sl_del` of an interrupted SVR thread is
cut too. `mpc`, `tpc` are program points; `pfirst`, `pnext` are the list
pointers; `mq[t]` holds buffer pointers. Walks of a list are atomic. `Faults`
names the calls an instance lets fail: creating main's own thread node
("mainthread"), the basic initialisation, a thread's creation, `pthread_create`, a module's
initialisation, `mq_send`, and an interrupted `epoll_wait` ("eintr": it returns
EINTR after SIGSTOP/SIGCONT even without a handler).

`BufChannel` is the abstract specification: a bounded FIFO that passes the
ownership of buffers from a sender to a receiver. `ImplementsChannel` maps a
buffer's owner from who holds the pointer.

- `HaliThread_faults.cfg`: two WORK and two SVR threads (the code's numbers),
  queues of two, three interchangeable buffers (symmetry), every failure.
  Ownership, no leak, complete bring-up, deliverability, a stable WORK list and
  the refinement. Three buffers are one queued pair and one on the way, the
  most that a queue of two can distinguish.
- `HaliThread_live.cfg`: no failures; every thread is scheduled (weak fairness
  of main's and each thread's own steps; no tick is promised). Main reaches its
  loop; every buffer is freed. Deadlock is checked.
- `HaliThread_lost.cfg` refutes "every thread is registered when main serves":
  two threads that insert themselves at once lose one node.

The code's `uitypethrdnum` is written and never read, and main's own queue is
never sent to; both are left out.

### VoiceQueue

Filling `mswr` (clear, copy), `msgsnd`, `msgrcv` and the copy to the caller are
steps of their own for main, the packet and the work thread. `arg` is what a
sender wanted to send. The kernel's queue starts empty or with the leftovers of
an earlier process.

A prompt is copied over the whole record (`len` 40), "exit" over its first four
bytes only (`pvoice.c:44`): over a prompt that another thread has copied since
main zeroed the record it leaves a text such as "exitdoor.mp3". That is the
content `Torn`, which is no exit for `strcmp`. Which prompt it ends with is left
out.

- `VoiceQueue.cfg`: two workers, one prompt text, a queue of one message, two
  prompts. No exit unless asked; no sender stays in `msgsnd`; 'q' pressed when
  every thread has opened its queue ends the program or the record has held
  another text than "exit" since, a prompt or a torn one (`QuitEnds`). That the
  receiver hands out the senders' record `mswr` instead of its own `msre` is
  part of the model. Queue length one makes every second message block, two
  prompts fill every window of the record race. Fairness: each sender's and the
  voice thread's own steps.

What `QuitEnds` excepts happens: a prompt sent while main sends its "exit"
replaces it in the record or is left behind its four bytes, the voice thread
plays it and waits for the next message, and main joins it for ever. `main.c:168`
says that 'q' makes the threads leave.

'q' pressed before a thread has opened its queue is in the model (`MsgSndFails`,
`PostExits`); `QuitEnds` is not about it.

### DevHeart

Nodes are heap cells that are freed and allocated again. `find` goes node by
node, and an addition or the deletion of the head is cut between reading
`pFirst` and writing it, since the packet and the work thread meet there without
a lock. `life = "wild"` is the process after it has followed a pointer to NULL
or to freed memory; nothing is claimed from there on, and "holds" below means up
to there. SyncTicks and HeartTicks stand for 30 and 60 ticks; only their being
reached matters. The work thread is taken not to hang in a weather request, the
packet thread not to hang in `msgsnd` or `mq_send` (VoiceQueue and FcgiBridge
are about those).

The list is the set of pointers met from the head (`Chain`: the least set that
holds the head and, with an allocated cell, its successor), which is what a
traversal meets whether the list ends, meets a freed cell or runs in a ring. A
list that is `Whole` ends, and has exactly the allocated nodes: with three
devices the race below can close the list to a ring that has the right nodes.

- `DevHeart.cfg`: three devices and three cells (a cell is reused while an old
  pointer to it exists, memory runs out when the race leaks nodes, and a node
  can be between two others), two packets with a TLV each. Ids are unique; the
  walk's saved next pointer is valid; the list keeps exactly the allocated nodes
  unless an addition and a deletion write the same stale head
  (`DamageExplained`: the one way in which this unlocked list breaks); silent
  devices leave. Fairness: both threads run while the process lives.
- `DevHeart_keeps.cfg` refutes that a device heard since the last check stays.

### FcgiBridge

Counters for the three kinds of messages are all the state that matters, as the
messages carry no identifier. The packet thread opens its queues, then its port,
and only then serves: it can find the port taken and return with its queues open
(`PktRefused`), and main can send its "exit" before the queues are open or after
they are closed, which fails and is ignored (`SendExitFails`). Main joins four
threads: `rest` stands for the three others, which it tells to leave around that
message. One of them may not hear it ("deaf"); how that happens is VoiceQueue's
matter. The FastCGI process may be killed and a call of it interrupted; a queue
that cannot be opened ends the home process (`exit(1)`), which is a crash here.

- `FcgiBridge.cfg`: queues of two, six requests, four kills and one interrupted
  call (one more than fills both queues), two starts without the port, one crash
  of the home process. `InFlight`: a page is at most one answer behind for each
  kill and interrupted call. `LeaveAsked`: besides the thread that cannot get
  its port, a packet thread leaves unasked only for an "exit" of an earlier run:
  there is one at most for each crash and each start without the port, since the
  "exit" sent to a thread that has returned stays in the queue and is the first
  thing but requests that the next run reads. `QuitEnds` is about a 'q' after the
  packet thread has opened its queues; it names what else can keep main in
  `mq_send` or in a join. The bounds in `SendReturns` (2*QMax disturbances),
  `QuitEnds` (more than QMax, or QMax without a receiver) are the least for which
  TLC finds no counterexample. Fairness: the running threads, and that a thread
  that was told leaves (`RestLeave`, as VoiceQueue checks); kills, failures,
  requests and crashes are not due. Requests are bounded: endless ones could
  starve "exit", which has the lower priority.

### MqttConn

Main's start (create, loop, callbacks, connect, store, register) and shutdown
(free the list, unregister, destroy) against the network thread's connect
callback, losses and reconnections. The session is a clean one, so subscriptions
end with a connection. The callback's test of a module's procedure and its call
are one step: that the procedure is taken back between them is not modelled.
The shutdown begins when main's loop or a thread's creation has failed
(`MainBreak`); nothing makes that due. `devs` is the device list: a device is
listed with a type, and a later message may list it with another one
(`DevnodeAdd`).

- `MqttConn.cfg`: two devices, three losses, so that a loss can meet the start,
  the callback and the time after it. A late callback leaves the topics
  subscribed, and after a loss they come back unless hali is shutting down.
  Fairness: both threads run and the broker answers.

A settled connection does not hear the commands of every listed switch, and no
property says so: only a new device that is a switch is subscribed. One that is
listed as something else and becomes a switch is not, one that is listed while
there is no connection is not, and a clean session forgets the command topics of
all, which the callback does not bring back. The properties are about the fixed
topics and the broker's.

A CONNACK that comes before main has stored `g_pstmosq` finds it NULL and
subscribes nothing. The model shows this; the properties speak of callbacks that
begin later.

### ZigbeeHub

The hub's two threads around the device list and the connection. Each frame is
two writes; a write after the reset ends the process (`life = "pipe"`), and a
command for a node that is linked but not initialised may find nothing or end
it (`life = "wild"`). Switches, coordinator and radio are external.

- `ZigbeeHub.cfg`: two switches, one command given at any time, one mishap (a
  lost frame or a switch operated by hand), two connections. What was published
  is what is stored; hub, subscribers and switches agree again and again unless
  the process has ended; a command given while hub and switches agree is
  obeyed. One mishap is enough to make every stored state stale once, and
  the second connection to put a reconnection next to any step; two commands
  with one connection were checked as well, without error. Fairness: both threads
  run, the timer fires, switches answer, a coordinator connects again.

`Obeyed` says nothing of a command given while the stored state is stale
(`want`): an OFF directly after an ON is dropped, since the stored state is
still OFF.

Bounds named in the module: the timer fires only when the answers of the period
before have come, and the coordinator closes only a connection that is not the
last one allowed.

### EpollReg (and Dispatcher)

Everything the main thread watches: the main queue, two timers, the console, the
listening socket and the coordinator's connection, from start through service to
shutdown. `list` and `heap` are the nodes of `stfdlist`, `watch` is the kernel's
interest set with the node pointer of each entry, `open` says what a number
stands for. Closing drops the number from the interest set, as the kernel does
for a descriptor that was not duplicated. libmosquitto's and the other threads
open and close numbers at any time ("foreign"); any free number may be given
out. malloc, opening and `epoll_ctl` may fail wherever they are called. The order of the nodes is left out: their numbers differ
(`ListSound`), so a search finds the same node in any order.

`Dispatcher` is the abstract specification: a descriptor is served by the
procedure for what it is from its registration until it is unregistered or
closed, and nothing is left for the next descriptor of that number. `reg` is
mapped from the node the interest set points to.

- `EpollReg.cfg`: six numbers, as many as the program has descriptors of its own,
  so that all can be open at once and any can be reused, and four nodes, two
  less than all need, so that memory runs out too;
  numbers and nodes are symmetric. What an event calls is right, no closed number stays listed, the
  hub has one connection, and the dispatcher is implemented. `CHECK_DEADLOCK
  FALSE`: the program ends.

Two things the model shows and no line of the code excludes, so no property
does: `hali_epoll_add` reports success when `epoll_ctl` fails, and the
descriptor is never served; `hali_timer_create` stores the number of a timer it
has closed again, so the shutdown may close a descriptor of another thread.

### CJsonTree (and CJsonForest, OrderedForest)

cJSON's items are cells with `next`, `prev`, `child`, a name and two flags
(reference, constant name); `mem.strings` counts the names and texts allocated
and not freed. A call of the library is one step, since every
tree in the repository belongs to one thread; what varies are the order of calls
and the allocations that fail: a constructor, an array, a name
or a copy may run out of memory at any item. `held` is what the client has a
pointer to and is to delete. Fields of freed items become `Wild` wherever they
were known. The client keeps the rules `cJSON.h` states: an item goes into one
list only, nothing goes below itself, a list is not changed through a
reference.

What a loop or a recursion of the code meets is a set here: `Reach`, the least
closed set, along `next` for the lists, along `next` and owned `child` for
`cJSON_Delete` (`Swept`), along every `child` for `cJSON_Duplicate` (`Below`). A
list ends with the item whose `next` is null; the item at an index is the one
with that many items before it. A copy is described by what each new item is a
copy of (`of`) and by the field of another new item it hangs on (`via`): an
original that meets itself twice, through a reference, is copied twice.

`OrderedForest` is the abstract specification: a call puts one tree into a list,
takes it out, exchanges or ends it, or makes new trees; the rest of each list
keeps its order. No item is in two lists, twice in one, or below itself. A
`Tree` is a least closed set, as `Reach` is. `CJsonForest` has the refinement:
`alive` is mapped from the types of items, `kids` from the lists as
`get_array_item` goes through them, `child` first and then each `next` (`Kids`);
a reference owns no children. The refinement is proved, too.

- `CJsonTree.cfg`: four items (a container and a list of three), one name, at
  most one reference, one text, two names allocated and three containers at a
  time (`Small`, a constraint; each kind still meets each other). Links are
  sound in both directions; the strings allocated are exactly those the flags
  will free; every item can be reached from what the client holds; only a
  replacement whose name could not be allocated, and a copy of such a one or of
  what a reference shows (an array's items have no names), is a nameless
  member. Items are symmetric.

Known exceptions, which the properties name: a reference whose name cannot be
allocated is nobody's (`cJSON_AddItemReferenceToObject`), and a replacement's
name is copied without looking whether that succeeded (`replace_item_in_object`).

### JsonText, JsonUtils (checked by MCCJson)

The functions of bytes and trees, translated with their order of tests,
allocations (`left` counts those that still succeed, `live` those not freed) and
buffer sizes (`Ensure` is `ensure`, with `INT_MAX` and the first 256 bytes as
constants). `MCCJson` enumerates calls; each state is a call before or after its
return, and the properties compare the result with reference definitions.

- `CJson.cfg`: array and object texts of up to five pieces, other texts and
  string literals of up to four, `\u` escapes at every boundary of UTF-8 and of
  the surrogates, trees with two levels, every preallocated buffer up to 24
  bytes, failing allocations, every patch operation at 13 paths. Nesting limit 2,
  `INT_MAX` 24 and a first buffer of 4 make the limits happen. `ParseExact`: the
  parser accepts JSON's grammar (a recognizer written independently) and frees
  what it began. `PrintFits`: the printer stays in its buffer, needs the text
  plus two bytes, and its text is parsed to the same tree; `cJSON_Minify` undoes
  the formatting. `PatchesLead`: what is generated for two trees leads from one
  to the other. `PatchKeeps`: a patch that fails changes nothing else than the
  property names. `PointerFinds`: a pointer finds the item it was made for. Trees
  for patches are flat or nested or have three members in any order, and names
  with '~'; patches are applied to a copy or to the very tree they were made
  from, single ones also to trees that were sorted before, with objects as
  values to test.

Comparing two trees, generating patches for them and a `test` patch sort the
objects they meet in place. `CompareJson`, `CreatePatches` and
`GenerateMergePatch` therefore return both trees with what they found
(`Outcome`). `sort_list` leaves the `prev` of the new first member as it was,
pointing to the member that used to be before it; `stale` is that. Copying
(`Duplicate`) clears it. Taking such a member out writes through the pointer and
makes the list a ring, or writes to freed memory: the tree is `Broken` then.

What the translation showed of the code, and where a property therefore has a
premise:
- Names that differ in case only, or mixed case: `sort_list` merges without
  regard to case, `generate_merge_patch` compares with `strcmp`; patches are
  claimed for names of one case.
- `encode_string_as_pointer` writes `~1` for a `~`, so a pointer through such a
  name finds nothing (`PointerFinds` says so) and patches for such trees are not
  claimed to lead anywhere. For a `/` it leaves a byte unset:
  names with `/` are not in the instance. `decode_pointer_inplace` does not move
  what follows an escape.
- `decode_array_index_from_pointer` looks at the first byte for the upper bound;
  an empty index is 0.
- A patch that fails leaves the tree alone but for a move that has taken its
  item already, a replace without value, which has deleted the old one, and a
  test, which has sorted the objects it compared; the patches before it stay
  applied.
- A tree nested more deeply than the limit is printed but cannot be parsed.
- Generating patches puts another member first in an object, and the patches
  remove that one: applied to the tree itself they ruin it, applied to a copy
  they do not. The shortest case is {b, a} and {b}: sorting puts `a` first, and
  removing it writes `b` into its own `next`. `cJSON_Utils.h:72` says that a
  merge patch is one "to move from -> to", and `tests/old_utils_tests.c:182`
  applies it to the tree itself. CJsonTree does not sort.

## 3. What is proved

| Module | Theorems | Argument |
|---|---|---|
| HaliThreadProofs | TypeCorrect, BringUp, MessagesDeliverable, WorkListIsStable, BuffersOwned, NothingLeaks, ChannelImplemented | `IInv` (in HaliThread) joins types, `HandshakeInv` (posts = semaphore + waits done), `ListInv` (only SVR nodes are unlinked), `MsgInv` (messages only for the registered target after the start) and `LocalInv` (local pointers at their program points). BringUp is a counting argument: all posts are consumed only if every thread posted. Ownership adds `OwnInv` and `KeptInv` about the target's queue and carries the refinement. |
| FcgiBridgeProofs | TypeCorrect, Lag, LeavesWhenAsked | `InFlight` is inductive with the types; leaving needs `ExitsCounted`: the "exit"s in the queue and the threads that left unasked are paid for by crashes, starts without the port and this run's own "exit", where a packet thread without its port leaves room for the one main may still send it. |
| DevHeartProofs | TypeCorrect, WalkHolds, UniqueHolds, DamageHolds | `NextStaysNext` is inductive with the types. `ListInv` (in DevHeart) is for the list, damaged or not: no two nodes listed, or about to be, are of one device (`Distinct`); while a search that can still end, and then add, goes on, every listed node of the id sought is ahead of it (`SearchInv`), which a deletion respects because the walk is on a listed node or on one that leads to an end (`WalkSound`); between the two assignments of an addition the new node leads to the head and nothing else leads to it (`PublishInv`, `AtApart`). The lemmas on `Chain` come from its being the least closed set: what a new cell, a freed cell and an unlinked cell change; a list that ends has no ring. |
| EpollRegProofs | TypeCorrect, DispatchHolds, ListHolds, OneHolds, Implements | `Table` (list and interest set) needs `ArgSound`: between its opening and its registration, and between its removal and its close, a descriptor is not listed; and `ConnSound`: which numbers are connections at each point. One lemma for each of open, close, add and del; the refinement uses that a watched number's procedure is that of `open`. |
| MqttConnProofs | TypeCorrect, ResubscribesHolds | `StartInv` ties client, callback and registration to main's progress, through the shutdown; `CallbackInv` says what a late callback has done at each point. |
| ZigbeeHubProofs | TypeCorrect, PublishedHolds | `NodeInv`: the node main is initialising is raw, the one it is publishing has a state. The types need it too: a state that is published was stored. Main's frames are a sequence made of a finite set. |
| CJsonTreeProofs | TypeCorrect, LinksHold, StringsHold, NothingLostHolds, MembersNamedHolds, ForestImplemented | `SoundInv` (in CJsonTree). Links alone are not inductive: that the item put into a list was in no other needs that the client holds roots only (`Root`: no neighbour, no owning container), and that a detached first item is known to no second container needs `OneOwner`. `Known`: a reference's child is alive or `Wild`; without it a copy of a reference could own what is free. `Owns` is the counting part, a sum of two cardinalities. Each write to memory is seen through a few equations of fields (`Grown`, `PutKeeps`, `DetachKeeps`, `DeleteKeeps` and their like), each call is a chain of these. That a deletion meets the whole list of what it meets comes from `Reach` being the least closed set; so does that a copy hangs together. `NothingLostHolds` and `MembersNamedHolds` need more of what a call does to the whole: which items its roots still sweep (`Safe`) and which lists it lets grow, by which item (`Listed`), together `Whole`, which is inductive beside `SoundInv`. Every container is swept from what is held, so an item put into its list stays reached; a list that gives an item away is swept around it (`TakenSwept`); and a member's list gains an item only from a call that has named it or noted it in `oom`. That all items of a filled array hang together is the least-number principle. `ForestImplemented`, the refinement, needs no further invariant. A list is read as a sequence (`IsList`): one that goes on to the end exists because no beginning of a list is longer than there are items (`ListExists`, the least-number principle again), and the recursive function `Kids` computes it since it can differ at no first place (`KidsAre`). The mapped sequences form a forest because what would be below itself were cut off from the held roots that sweep every container (`NoCycle`). Then each call is one step: the writes to links are an insertion, a removal or an exchange in one sequence (`JoinedKids`, `TakenKids`, `ExchangedKids`), every other list stays (`OtherLists`), `cJSON_Delete` ends a tree (`DeletedForest`), and what an allocation that fails undoes leaves every list as it was (`UndoneForest`). |
| VoiceQueueProofs | TypeCorrect, NeverUnasked | `QuietInv`: before 'q' no record and no copy holds "exit", since workers never send it and the voice thread compares what the record holds, not what an earlier process left in the queue. |

Assumptions are those on the constants, named in each module and evaluated by
TLC in the runs: numbers are naturals, at least two WORK threads (the target of
the timer message is the second one), queues have room for one message, null
pointers and names differ, the switches of the hub and cJSON's items are finite
sets, and tolower takes names to names. Nothing is assumed of
fairness or of bounds.

The type invariants of these eight modules are proved and no longer listed in
the runs.

Only model-checked: all liveness properties, which need fairness and ENABLED;
and the properties of JsonText and JsonUtils (`ParseExact`, `PrintFits`, `PatchesLead`, `PatchKeeps`,
`PointerFinds`), which are about recursive functions of trees and texts: their
proofs would be inductions over data.

## 4. What is not modelled

- Byte layouts and lengths of frames, and TTS.
- Of cJSON: fractions and exponents of numbers, `cJSON_InitHooks`, the type
  predicates, and what the client does with a tree beyond its calls.
- Device nodes freed, or a module's procedure taken back, in the middle of the
  mosquitto thread's use of them (`zigbee_init.c:46`, `:48`). MqttConn has these
  steps and their order, HaliThread the shutdown of threads and messages.
- Two threads' pointer writes in the zigbee device list: in ZigbeeHub a
  traversal and an insertion are atomic, since only main changes the list.
- Restart of HALI over leftover POSIX queues (a message then carries a pointer
  of a dead process).
- Weather, speech, playback: I/O in sequence. MD5 and samples.

## 5. Plan

Done, in this order: HaliThread with BufChannel, VoiceQueue, DevHeart,
FcgiBridge, MqttConn, ZigbeeHub, EpollReg with Dispatcher, CJsonTree with
OrderedForest, JsonText and JsonUtils; the proofs listed above.

Next, to extend the model:

1. UartFsm and SerialParse: the byte parser of `prevpkt.c` and
   `zigbee_serialmsgproc`, fed in chunks, against reference definitions over all
   short inputs; theorem: positions stay within the buffers.
2. SongPlay: the three threads of `songplay.c`; does "show" end, does 'q' end
   all threads.
3. The zigbee module's shutdown in the middle of a command or a callback,
   composing MqttConn and ZigbeeHub.
4. Leftover queues across restarts of HALI, as an extension of HaliThread.
