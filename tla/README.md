# A verification project for FroggyAutomation

FroggyAutomation is a home automation program in C#. It drives Insteon devices
through a serial power line modem, keeps a table of devices in a file and serves
web pages. This directory holds TLA+ modules of its concurrent core, the TLC
configurations that check them and proofs that TLAPS checks. Paths below are
relative to the repository.

## 1. Inventory

| part | source | state | operations |
| --- | --- | --- | --- |
| Serial link | `Automation/Insteon/CommunicationDevice.cs`, `Messages/` | the command being sent, the parser's state and buffer, the event `receivedAck`, `sendingResponse` | `SendCommand`, `port_DataReceived`, `ReadMessages`, `WaitForResponse` |
| Insteon system | `Automation/Insteon/FluffInsteon.cs` | `linkedDevices`, `devices`, `sendingPacket`, `receivedPacket`, `linkingEvent` | `Startup`, `SendDirectInsteonPacket`, `FindDevice`, `port_ReceivedMessage`, `Dispose` |
| Devices | `Automation/Insteon/Devices/` | cached level and ramp rate of each device, operating flags, text | setters and getters that send direct packets, `handleInsteonPacket` |
| Insteon plugin | `Automation/InsteonAdapter.cs` | configuration | device events to database, database updates to devices, `GetDeviceCategory` |
| Plugin API and host | `PluginInterop/`, `FroggyAutomation/Plugins.cs`, `PluginDeviceInterface.cs` | devices, references, device states | lookups and updates, change events |
| Database | `FroggyAutomation/Database/` | tables in memory, one file | load at start, write after each change |
| Web server | `FroggyAutomation/WebServer.cs` | queue of requests, events `ready` and `stop` | `Start`, `Stop`, `Dispose`, `HandleRequests`, `ContextReady`, `Worker` |
| Frontend channel | `FroggyAutomation/WebSocketChannel.cs`, `DeviceHandler.cs` | callbacks by message type | receive, dispatch on the thread pool |
| WebSocket library | `Alchemy/` (third party, in source) | accept semaphore, per client a context with two semaphores and a data frame | accept loop, receive loop, handshake, framing |
| The rest | web pages, packages, dummy plugins, test driver | | no logic of the program |

How they interact. A user's thread or a handler calls a device, the device calls
`SendDirectInsteonPacket`, that calls `SendCommand`, that writes to the port.
The port's event thread parses what arrives. An answer to the command being sent
sets `receivedAck`; other messages are collected in a batch, and each batch is
handed to the thread pool, where `port_ReceivedMessage` stores a link record, or a
device's reply, and sets `linkingEvent`, or passes the message to a device. The
listeners of the device's events may send packets themselves, from the pool
thread. The web server is independent of this.

What is hard about it:

- *Late answers.* `SendCommand` waits 2 s and `SendDirectInsteonPacket` 5 s.
  Nothing is withdrawn when a wait times out, and answers carry no number.
- *Two readers of one port.* `SendCommand` clears the input by running the same
  parser as the event thread; both share the parser's state. `BytesToRead` and `Read`
  are two calls, the event thread makes them without a lock, and what `Read` returns
  is not looked at: two threads can count the same bytes.
- *Sizes by guess.* A message whose type has no case in `SizeOfMessage` is taken to
  be one byte long.
- *Batches in any order.* Work items of the pool overlap.
- *One event for two purposes.* Link records and replies set the same event, and
  the reply's packet travels in a variable beside it.
- *Exceptions in the middle of a read.* `SizeOfMessage` casts by the kind of
  message that arrives, not by what is being sent.
- *Locks held over waits.* Both `lock(this)` are held while the reply is awaited,
  and the reply may be behind a handler that wants the lock.
- *Fields without locks.* A device's level is written by callers after their
  command's lock is released, and by pool threads when the device broadcasts; the
  tables of the database are written by any thread.
- *Truncate, write, close.* The database file is empty between the first and the
  last, and the middle one may throw or be the last thing the process does.
- *Queue and event.* The web server's workers sleep on a manual-reset event that
  must be set exactly while the queue is not empty, also while `Stop` runs.

What correctness means, part by part: the link returns the answer to the command
it was asked to send and loses no message; the Insteon system returns the reply
to the packet it sent, ends its startup and knows every link at its end; the web
server answers each queued request once and stops; a device's cached level agrees
with the device; the database file is readable after a crash and a device is in
the table once. Section 3 says which of these hold, and under which conditions.

## 2. Modules

    CommandChannel            what the link promises (abstract)
      ^ implemented by          ^ used by (INSTANCE)
    CommunicationDevice       FluffInsteon            WebServer
      ^ EXTENDS                 ^ EXTENDS               ^ EXTENDS
    MCCommunicationDevice     MCFluffInsteon          WebServer_proofs
    CommunicationDevice_proofs  FluffInsteon_proofs
      ^ EXTENDS                 ^ EXTENDS
    CommunicationDevice_channel FluffInsteon_timely

    MessageParser             OnOffDevice               FileDatabase
      ^ EXTENDS                 ^ EXTENDS                 ^ EXTENDS
    MCMessageParser           MCOnOffDevice             FileDatabase_proofs
    MessageParser_proofs      OnOffDevice_proofs

The last three each take one concern on which the others abstract:
MessageParser the bytes under CommunicationDevice's frames, OnOffDevice the
fields of one dimmable light above FluffInsteon's packets, FileDatabase what the Insteon
plugin's listeners do with a device that was added.

### CommunicationDevice

Sender threads run `SendCommand` and one thread, `Reader`, the port's
`DataReceived` event. `pc` holds each thread's place; the comment above an
action names what it does and PROJECT.json the lines. A step is what the
code does between two points at which another thread can interfere: taking a
lock, counting what the port holds, reading it, parsing one message (under
`lock(port)`), writing, the end of the wait, and reading `sendingResponse` after it.
Counting and reading are separate, since the event thread does them without a lock;
so are the last two, since the code reads the field outside the lock.

| code | model |
| --- | --- |
| `lock(this)`, `lock(port)` | `thisLock`, `portLock`; the reentrant acquisition inside `SendCommand` needs no step |
| bytes on the wire | `input`, a sequence of whole messages ("frames"), all equally long |
| `port.BytesToRead`, then `port.Read` | `count` is what a thread saw, `chunk` what it got; `ReadInput` returns what was counted or, if another thread has read in between, less |
| `Read` returns less than was counted, the rest of the buffer is zeros | the last frame is cut: an answer without its status byte, or without its payload too (`ReadCutAnswer`), a message of the modem's own that is lost (`ReadCutMessage`) |
| `Read` waits while the port is empty | `Blocked`: the thread takes no step until something comes, a sender with both locks held |
| `state`, `message`, `readData`, `this.data` | `state` between two frames, and the frame whose bytes are in the buffer |
| `sending` | the request, with the number of its call |
| `receivedAck` | a Boolean that the wait resets; `signal` and `ended` remember which answer set it last and which answers have ended which waits |
| `WaitOne(2000)` | may time out whenever the event is not set |
| `QueueUserWorkItem` | `pool`, a set of sequences; each delivers its messages in order, together they interleave |
| exception from the cast at `MessageFactory.cs:74` | `ReadFails`: locks released, the chunk and the batch dropped, the parser left in `MESSAGE_DATA`; on the event thread the process ends (`crashed`), in a sender `SendCommand` throws |

The modem is external: it answers the commands it has received in order, with
ACK, NACK or another status, may lose any, and sends messages of its own.
Variables marked *history* are read only by properties and by bounds. Two of them
are conditions: `late`, some wait has timed out, and `overlap`, a thread has counted
bytes while another one was between its own count and its parsing. `Undisturbed` is
neither. Without a timeout an overlap is enough to make a call return Invalid or
Unknown for a command that the modem acknowledged, to lose a message, or to leave a
sender in `Read`; `TimelyAnswer`, `EventsConserved`, `MessagesDelivered` and
`CallsReturn` say that nothing else is.

Frames of equal length and whole frames in a read are the abstraction: which bytes
of which message end up where is MessageParser's subject.

### CommandChannel

The promise on which FluffInsteon relies: exchanges one at a time, each ended by one
outcome; an answered exchange uses up one answer of the modem; a message is handed
over at most once. It deliberately does not promise that the answer used up is the one
to this very command. `CommunicationDevice!ImplementsChannel` states the refinement,
which is checked and proved: the holder of `lock(this)` is the exchange, the answers
not yet taken are the credit, and the messages delivered are those handed over.

### FluffInsteon

`Main` runs `Startup`, users send direct packets to devices they find, and pool
threads handle batches and may send packets themselves (the level request of
`InsteonAdapter.cs:90` and `:121`). `port.SendCommand` is an exchange of
CommandChannel, with what `TimelyAnswer` adds about it: as long as the link is
undisturbed, the answer is the modem's answer to this command. `CommandFails` is a
timeout, `AnswerCut` an exchange whose answer an overlap in the port has cut. The
rest of what an overlap may do is not repeated here: an exchange ends, and a
message that the port received reaches a batch. `StartupEnds` rests on that: a link
record that an overlap cuts would leave `Startup` waiting at line 127. The modem's
all-link database is the constant `Links`; it and the devices are external.

The choice of a device's class is data and left out. The provider of
categories is the set `Known`. A message is a kind, a device and a number; the
number only tells packets apart in properties. Timeouts and cut answers are counted
together in `timeouts`, and `late` says that one has happened.

Merged or left out: the two reads of `receivedPacket` at 225 and 229 are one step;
each access to a dictionary is atomic; a device's own handling of a packet is whether
its listeners are told; `Dispose` is not modelled, as nothing calls it while other
threads run.

### WebServer

The owner's `Start`, `Stop` and `Dispose`, the listener thread, the callback
`ContextReady` and the workers. The .NET `HttpListener` is external: a request
completes the outstanding `BeginGetContext`, which sets its wait handle at once
and runs the callback later. `WaitAny` returns the lowest index that is set.
What file is sent is left out. `ServeRequest` stands for the paths that close the
response at line 200, a 404 and an exception of the inner block included; an
exception that only the outer handler (202-205) catches ends the worker's turn with
the response open, which is `ServeFails`. `arrived` is the requests that have
reached the listener; from then on each is at one place, and `Handled` is the two
places where a worker may leave it, `served` and `failed`.

### MessageParser

CommunicationDevice carries frames. MessageParser is the same code byte by byte,
with the event thread (`"reader"`) and one sender, since `lock(this)` admits one at a
time.

| code | model |
| --- | --- |
| `port.BytesToRead`, then `port.Read` | the actions `Count` and `ReadPort`; the sender holds the port between them, the reader does not |
| bytes the modem sent | `line`; `arrived` is how many of them have been seen in the port's buffer, and each `Count` may see more |
| `Read` returns fewer bytes than asked for | the rest of `buffer` is zeros and is parsed as well, as the result of `Read` is ignored |
| the `switch` of `ReadMessages` | `ReadStart`, `ReadType`, `ReadData`; a buffer is folded over the record `parser` in one step (`Parse`), under `lock(port)` |
| what `ReadMessages` keeps in its own variables | `batch`, `acked` and `thrown` of `parser`, which `Cleared` resets when it returns |
| `SizeOfMessage`, `VerifyResponse` | operators of the same names, with the real types and sizes |
| exceptions (the cast at `MessageFactory.cs:74`, an array that is null) | `thrown`: the rest of the buffer and the batch are dropped, the process or the call ends |

The commands are those whose answer the model's modem knows: the two kinds
of packet, and types answered by the status alone (`CommandAssumption`). The modem's
own messages have any type from 0x50 to 0x58, the ones that
`PowerLineModemMessage.Message` names (`MessageAssumption`). Three of these types have
a class and the size that `SizeOfMessage` gives them, and are handed on. The others are
taken to be one byte long: 0x54 is, and the parser goes on after it; 0x53 has eight
bytes and 0x55 none, and after one of those the parser is out of step, which the
history `unsized` remembers.

`MessagesFound` and `ResponseFound` hold as long as the parser is in step (`InStep`): no
timeout, no overlap, nothing unsized. They are what lets CommunicationDevice take one
whole frame after the other. Afterwards they promise nothing, as the code does: the
late echo of a standard packet may be measured as an extended one, for instance.
`WaitsOnlyIfOverlap` holds always: a thread waits in `Read` for bytes that
are gone only after another one counted while it was between its own count and
its parsing. A sender may then wait with both locks held, so the run does not check
for deadlock.

### OnOffDevice

One light with its real level, and the fields `hasStatus` and `onLevel`. Any thread
calls the setter, `setLightOnFast`, `setLightOffFast`, `Brighten`, `Dim`,
`SetLightOnWithRamp`, `SetLightOffWithRamp` or the getter; a call is a command
(`send`), which is answered, refused, lost or, once a wait has timed out, answered in
place of another one (what TimelyReply of FluffInsteon leaves open), and then one or
two writes of the fields, each a step of its own. The two ramp operations
(`DimmingLight.cs:42-59`) move the light, to the high half of the level they are
given, and write neither field (`Ramped`). `HandleBroadcast` is `handleInsteonPacket`
on a pool thread. The percentages are those of `InsteonAdapter`.

`suspect` is history: it says that the light moved by a ramp, or unheard, or while
something was on its way into the fields, and that no undisturbed answer that is
stored has come since. It is set by what happens to the light and the threads and
never by comparing the memory with the light, so `CacheTrue` is not true by
construction: it needs the order of the writes, the limits of a step and the absence
of any other write.

### FileDatabase

Threads begin a change (a setting, or a device that the Insteon plugin announces),
make it in memory and run `WriteFile`: open with truncation, serialize, close.
Opening throws if the file is missing (`FileMode.Truncate`) or open for another
writer (`FileShare.Read`), and may throw anyway. Nothing locks the tables, so they are
serialized member by member (`Serialize`; `rest` is what is still to come, `image`
what has been read) while other threads change them. Serializing throws for a device
that is not of a serializable class, and may throw at any other moment, for an error
of the disk or a dictionary that changed under the enumeration
(`SerializeThrows`); the stream is then left to its finalizer. Closing may throw
too, but closes the file (`CloseThrows`). The process may die
and start again at any step. `file` is absent, broken or a set of tables;
`data` is null after a start that could not deserialize it. `interrupted` says that
the last write to empty the file ended before closing it; a write that is
completed resets it.

A device is inserted in two steps, finding the slot and filling it. When two
insertions share a slot, `torn` is set and the properties about the contents no
longer hold: that is the reason why they say "unless". Of what else concurrent
writes may do to a dictionary, besides making the serializer throw, nothing is modelled.

The device classes the Insteon plugin creates, `FroggyPlugin.Devices.OnOffDevice`
and `PercentLevelDevice`, are not marked `[Serializable]`; their base class is.
In the model they are the addresses outside `Savable`.

## 3. Runs

| run | instance | what it shows |
| --- | --- | --- |
| `comm_safety` | 2 interchangeable senders, a SendInsteonMessage and a command of another type, 2 commands written, 2 messages of the modem's own | which answers may be returned, when a message may be given up, refinement of CommandChannel |
| `comm_live` | 2 senders, 2 SendInsteonMessages and another command to choose from, 1 written, 1 message, fair | calls end unless a sender is left in `Read`; messages arrive unless something disturbed the link |
| `comm_ack` | 1 sender, 2 SendInsteonMessages and another command to choose from, 2 written | finding: Ack for a command that was not acknowledged |
| `insteon_startup` | 1 user, 2 pool threads, 2 links, 1 of them known, 3 packets, 1 unasked message, no timeout | at most one item is under way, replies go to their sender, all links are read, no surprise exception, on an undisturbed link |
| `insteon_live` | no user, 1 pool thread, 1 link, timeouts and cut answers bounded at 9, fair | startup and every packet's call end |
| `insteon_reply`, `insteon_links`, `insteon_button` | small instances with timeouts | findings, below |
| `web_queue` | 3 requests, 2 workers, fair | a request is at exactly one place, each queued one is handled, `Stop` drains and returns |
| `device_cache` | 2 threads, 3 calls, ramps among them, 2 presses, percentages 50 and 99 | when the remembered level is the light's, and what is read back |
| `parser_bytes` | a standard and an extended packet and a command without payload, messages of six types (the three with a class, 0x54, 0x53 and 0x55), 2 commands and 2 messages, with bytes 0x02, 0x50, 0x57 and 0x62 inside | every message is found whole, whatever the pieces, until something puts the parser out of step |
| `file_db` | 2 threads, 4 changes, 2 deaths, one serializable device and one that is not | what is saved, and when an interrupted write is for good |

Bounds. `MaxCalls` and `MaxEvents` bound the commands written and the messages sent:
two commands are what it takes for a late answer to meet another command, of the same
type and of another, and two messages for a batch of two and for two batches.
`MaxSends` counts packets: three let `Startup`, a user and a handler send at the same
time. `MaxNews` is one because a second broadcast takes the same paths. In
`insteon_startup` `MaxTimeouts` is zero, since its properties are about systems in
which no wait has timed out; in `insteon_live` the bound is above what a behaviour of
that instance can use, so that a wait never lacks a timeout because of it. Two workers
are enough for one to sleep while another takes a request; three requests let the
queue empty and fill again. In `device_cache` three calls are what it takes for two to
overlap and a third to read, two presses are enough for broadcasts in the wrong order,
and the light starts at 4, below one step, so that `Dim` meets its limit and, after
`setLightOnFast(255)`, `Brighten` does too. In `comm_safety` a constraint keeps a
behaviour with both a timeout and an overlap to one message of the modem's own: each
of the two disturbances meets everything else, and one another with the smaller
traffic. One case needs more than the instance: after a failed cast, an old answer
ends a second wait only in a third call (the reason for `~aborted` in
`AnswersEndOneWait`); the proof covers it. In `parser_bytes` two state constraints
bound a behaviour: `OneDisturbance` to one of timeout, overlap and a message of the
wrong size, and `LittleTraffic` to three commands and messages in all as long as there
is none of these and the modem's own are standard messages and link records, else to
two, and to as many bytes on the line as the longest message has; the arrival of
pieces of any length is what makes the instance large. In `file_db` four changes let
two writers race before and after a death, and two deaths let a start follow a damaged
file. A third death or a third writer would repeat a race that two have. Symmetry is
used only over interchangeable threads in safety runs.

Fairness. Each thread that can take a step takes one eventually (weak fairness per
thread), the event thread is called when bytes are there, queued work items run, and
waits with a timeout end. A thread that waits in `Read` with nothing to read can take
no step, so that fairness asks nothing of it. No fairness of the locks is assumed:
weak fairness lets a thread lose the race for `lock(this)` again and again, but each
loss is a call of another thread, and the calls of a behaviour are bounded
(`MaxCalls`, `MaxSends`). Nothing is assumed of the modem, the devices, the users and
the clients. The runs of the last three modules check safety only and state no
fairness.

### Findings

- `comm_ack`, `CommunicationDevice.cs:84` against `:195`: the event stays set, or
  is set while the next call clears the input, when an answer is late; that next
  call returns the answer to the command before it.
- `insteon_reply`, `FluffInsteon.cs:202` against `:222`: in the same way a reply
  that comes late is returned as the response to another device's packet.
- `insteon_links`, `FluffInsteon.cs:66` against `:129`: an answer that is late, lost or
  cut ends the list of links, and `Startup` still returns true.
- `insteon_button`, `FluffInsteon.cs:298` against `:273`: a broadcast before the
  first direct packet dereferences null on a pool thread and ends the process.

They need a timeout, a cut answer or an early message. The positive properties say
what remains: `TimelyAnswer`, `TimelyReply`, `LinksComplete` and `NoSurprise` hold as
long as no wait has timed out and no two threads were after the same bytes (in
FluffInsteon: no answer was cut), and `NoForgedAnswer` always.

What the conditions of the other properties tell, without a document that
claims otherwise:

- A first start without a file works, but every write throws, since nothing creates the
  file. A write that is interrupted leaves a file that cannot be read
  (`BrokenByInterruption`). A later write of the same process repairs it, unless a
  device that cannot be serialized is in the tables by then, which makes every write
  fail; once the process has died it is for good (`NeverRepaired`).
- The level a program reads may be another than the light's after a ramp, a lost
  acknowledgement or two broadcasts handled in the wrong order (`CacheTrue`).
- A percentage reads back as itself or one less (`ReadsBack`).
- A message whose type the code knows by name only may put the parser out of step
  (`MessagesFound`).

## 4. Proofs

`CommunicationDevice_proofs` proves of `Spec`, for any number of threads and
commands and any bounds:

- `TypeCorrect`: `[]TypeOK`.
- `LockCorrect`: `[]LockInv`. A sender between its first read of the port and its
  return holds `lock(this)` and, once it wrote, its command is the last written.
- `NoAnswerForged`: `[]NoForgedAnswer`. `NoForgedAnswer` is not inductive: it says
  nothing of where the answer in `sendingResponse` came from. `ProvenanceInv`
  adds that every answer on the wire, in a chunk or in the parser's buffer is one
  the modem gave to a command it was sent, and that while a wait can end,
  `sendingResponse` repeats such an answer. With `LockInv` the number of the
  command is at most that of the caller's own.
- `TimelyCorrect`: `[]TimelyAnswer`. As long as no wait has timed out and no two
  threads were after the same bytes, a call returns the modem's verdict on the very
  command it wrote, and no read throws. `PortInv` says that without an overlap what a
  thread counted is still in the port when it reads, so that `Read` neither waits nor
  comes short, and `WholeInv` that no answer is cut. `TimelyInv` says that the modem,
  the port's buffer and the chunks of all threads hold between them at most one
  answer, the one to the command in `sending`, and that the thread in
  `WaitForResponse` either waits for that command with the event unset, or has the
  event set and `sendingResponse` equal to the verdict on its own command. The event
  is set by one thread and the field read by another, later and outside `lock(port)`;
  the invariant shows why nothing gets between the two: while a caller is between the
  end of its wait and its return, `sending` is null and no answer is left that a
  reader could take for a response. A read cannot throw since an answer has the type
  of the command being sent.

`CommunicationDevice_channel` proves what holds whatever is late, lost or cut, and that
the device is the channel on which FluffInsteon builds:

- `AnswersSpentOnce`: `[]AnswersEndOneWait`, in two parts. No more waits are ended by
  answers than answers were given, whatever happens; and as long as no read has
  thrown, no answer ends two waits. The condition of the second is needed: a cast that
  fails leaves an old answer in the parser's buffer, and the next byte completes it
  once more. The count is made inductive by `CreditInv`: the waits that an answer
  ended, plus one for a set event, plus one for a wait that is about to return, plus
  the answers in the port and with threads (`InFlight`), plus one for an answer that a
  failed read left in the parser, are no more than the modem has given. `FlightInv`
  says that each answer is in one place only, so that taking it lowers the cardinality
  by exactly one. `ChunkInv` says when a thread holds frames. For the second part
  `EndedInv` keeps three things apart: the answers that have ended waits, the one that
  set the event last, and those in flight.
- `MessagesPlaced`: `[]PlacedInv`. Each message of the modem's own is in exactly one
  place: the port, a chunk, a batch, the pool, delivered or lost. `KnownInv` says that
  the places together are all messages sent, `ApartInv` that two kinds of place share
  none, `OnceInv` that none is twice in one kind. Each action that moves frames has a
  lemma that says what it takes from one place and adds to the next.
- `ChannelImplemented`: `Spec => ImplementsChannel`. Each step is a step of the abstract
  channel or leaves its variables alone: the lock taken begins an exchange; the
  wait that ends uses up credit, which `CreditInv` shows to be there; what
  is delivered was not handed over before, by `OnceInv` and `ApartInv`.
- `MessagesConserved`: `[]EventsConserved`, from `PlacedInv`, and from `LostInv`: on an
  undisturbed link no read throws or cuts a message, and nothing is lost.

`FluffInsteon_proofs` proves `TypeCorrect` for any devices, links and threads, with
the invariants the rest needs (`BaseInv`): `LockInv`, whoever sends a packet
holds `lock(this)` and its packet is `sendingPacket`; `StageInv`, no packet is sent
before the links are read; `SendInv` and `CommandInv`, the modem has at most the
command of the thread inside `SendCommand`.

`FluffInsteon_timely` adds what holds as long as no wait has timed out and no answer
was cut. One event and one field serve link records and replies, of all devices, and
neither is cleared before a wait; it works because of `OneItem` (`[]OneUnderWay`): of
link records and replies at most one exists between the device and the event, whether
at the device, on the wire, in a queued batch, with a handler or in the set event; it
is the one that is waited for, and nothing is there when nobody waits. It is nearly
inductive by itself: each step moves the item to the next place or takes it, and only
a new command, whose thread then waits, starts another one. `ReceivedInv` adds that
`receivedPacket` is that reply from the time the handler stored it until the caller
reads it, which gives `ReplyCorrect` (`[]TimelyReply`). `LinkInv` adds that each link
the modem was asked for is in `linkedDevices` or under way and that the modem ends its
list after the last; with nothing under way at the end of the list, `LinksCorrect`
(`[]LinksComplete`). `SurpriseInv`, that `linkedDevices` is not written once the links
are read, gives `SurpriseFree` (`[]NoSurprise`).

`WebServer_proofs` proves `TypeCorrect`, `ReadyCorrect` (`[]ReadyWhileQueued`)
and `StopDrains` (`[]DrainedAtStop`). The last rests on `DrainInv`: a queued
request keeps `ready` set, a worker ends only when `ready` is not set, so once
one has ended no request queued before `Stop` is in the queue, and none comes
back since it is no longer with the listener. `OncePlaced` (`[]ServedOnce`)
turns the count in that property into places: no request is queued twice, the
queue, the workers, and the sets of requests that wait, are answered, have failed or are
dropped have none in common, and together they are the requests that have arrived: none
is served twice and none is lost between two of them.

`OnOffDevice_proofs` proves `TypeCorrect`, `CacheCorrect` (`[]CacheTrue`),
`NeverMadeUp` (`[]LevelWasReal`) and `ReadsBackCorrect`. `CacheTrue` speaks of moments
when nothing is on its way into the fields, so `MemoryInv` adds what is true on the
way: as long as the memory is not suspect, every level a thread is about to write is
the light's, a Brighten or Dim is the only thing under way and will compute it from
the level before the step, and a posted broadcast agrees with the light. A ramp, which
stores nothing, makes the memory suspect. `PastInv` does the same for the levels the
light has had. `Conversions` is the lemma on the truncating divisions, for every
percentage.

`FileDatabase_proofs` proves `TypeCorrect`, `NothingSavedIsLost`
(`[]ReturnedIsSaved`), `OnlyInterruptionBreaks` and `DamageIsForGood`
(`NeverRepaired`), with the help of one inductive invariant, `DatabaseInv`.
`ActiveInv` says that only the thread that has the file open is writing; `SlotInv`
that a lone insertion still has the first free slot; `SavedInv` that what is saved is
in the file, in memory and in what a thread has serialized, as far as it has come
(`rest`), so that the next image written loses nothing, although its members were read
at different moments. `DamageIsForGood` is about steps: a file that cannot be read
stays so once the process died (`Lost`), since the tables of every later life are null
and every change throws before it writes; within a life it is `Doomed` once a device
that cannot be serialized is in memory and no write has read the devices before,
unless two insertions meet and drop that device; and a missing file stays missing.
Short of that a later write may repair the file, and nothing is claimed.

`MessageParser_proofs` proves, for any commands and any messages of the modem's own that
the assumptions admit:

- `TypeCorrect`: `[]TypeOK`. The parser never holds more bytes than its array.
- `OnlyOverlapBlocks`: `[]WaitsOnlyIfOverlap`, from `PortInv`: without an overlap, a
  thread that is about to read counted bytes that are still there, and no other thread is
  between its count and its parsing.
- `EveryMessageFound`: `[]MessagesFound`, and `OwnResponseFound`: `[]ResponseFound`,
  both as long as no wait timed out, no two threads overlapped and no message of a
  type whose size the code has wrong was sent. The invariant, `FrameInv`, gives each
  byte that was sent and not yet parsed, wherever it is, a *place*: a frame of the
  modem and an offset in it. The places follow each other (`Stream`); the parser is
  where the place of the last byte it parsed says it is (`ParserAt`), the messages
  handed over are those of a type with a class that end there or before; and each
  frame ahead is a message the modem sent, with its number if its type has a class, or
  its answer to the command being sent (`Genuine`), of which there is one at most.
  `Talk` relates the sender, the event and the modem's request. `ByteStep` shows that
  one byte takes the parser from a place to the next and either advances in a frame,
  or ends a message, which is found if its type has a class and passed over if not, or
  ends the answer, which is verified as the modem's verdict. A 0x02, or the type of a
  message, inside a body is a byte like any other because the size computed at the
  type is the length of the body (`GenuineSize`); that uses the command in `sending`,
  and is where an answer that comes late breaks the parser.

A buffer is parsed by a recursive function, and what holds of every byte of it is
an induction. The library's induction theorems cannot be instantiated, so
`LeastOf` derives from its theorem on well-founded relations that a set
of naturals has a least element, and `Climb` that a set with 0 and with each number's
successor up to n has them all. `ParsedByBytes` turns `ParsedFrom` into the sequence of
parsers after each byte; what is then said of them is a set, and `Climb` does the rest.

The invariants that proofs use and runs check are theorems too: `ProvenanceCorrect`,
`OneAnswerUnderWay` (`[]TimelyInv`) and `DrainCorrect`. The assumptions are the
named ASSUMEs on the constants.

Every invariant, every action property and the refinement that a passing run checks is
a theorem. Only model-checked are the six liveness properties (`CallsReturn`,
`MessagesDelivered`, `StartupEnds`, `DirectCallsEnd`, `QueuedServed`, `StopReturns`),
which the prover does not handle, and the four findings, which are counterexamples.

## 5. Plan

Done, in this order: the link and its abstract channel, FluffInsteon on the
channel, the web server, the light's memory, the parser, the database, and for
each of them its proofs, the refinement of the channel and the stream of bytes
included. What is left, by what it would add:

1. MessageParser as a refinement of CommunicationDevice with one sender, up to the
   first overlap or message of the wrong size: the places of `FrameInv` are the frames of the mapping.
2. Device instances in FluffInsteon, for the double `AddDevice` at
   `FluffInsteon.cs:284`.

## 6. Not modelled

Nearly all lines of JavaScript in the repository are vendored libraries (jQuery,
jQuery UI, Closure Library, the packages) that the web pages include; the program's
own logic is the C# code under `Automation/`, `FroggyAutomation/` and
`PluginInterop/`, and that is what the modules model. The rest of the C#
code is left out for these reasons.

- Third party: the WebSocket library `Alchemy/`.
- Not reachable: `WebSocketChannel` and its handlers, which nothing constructs and
  whose dictionary of callbacks is never created; the plugin host, whose
  `InitializePlugins` nothing calls; `Db4Database`; `InsteonAdapter`'s
  `insteon_DeviceChanged`, which looks its device up by a reference made anew and so
  never finds it.
- No state: message and packet classes that only encode and decode bytes,
  keypads, thermostats and pools, interfaces and event arguments.
- Ends an object: `Dispose` of FluffInsteon, of the port and of the database.
- Device instances and torn dictionaries in FluffInsteon: a device is in its list or
  not, and each access to the list is atomic. Two hazards in PROJECT.json
  have no property for this reason.

PROJECT.json lists each part with its status.
