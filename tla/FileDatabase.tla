----------------------------- MODULE FileDatabase -----------------------------
(***************************************************************************)
(* The database of devices and settings, kept in memory and written to one  *)
(* file after every change: FroggyAutomation/Database/FileDatabase.cs, with *)
(* its callers InsteonAdapter.cs and PluginDeviceInterface.cs.              *)
(*                                                                         *)
(* Threads change the tables and write the file without any lock.  A write  *)
(* empties the file, serializes the tables member by member while others    *)
(* change them, and closes the file; each of these may throw.  The process  *)
(* may die at any moment and start again.                                  *)
(***************************************************************************)
EXTENDS Naturals, Sequences

CONSTANTS
  Thread,
  Address,        \* addresses of devices
  Savable,        \* those whose device is of a serializable class
  NoAddress,      \* the address of a change that is not of a device
  Absent, Broken, \* a file that is not there, and one that cannot be deserialized
  Null,           \* what data is after an attempt to read the latter
  Nobody, Leaked, \* the file is not open, or open by a stream that nobody closes
  MaxCalls,       \* bound: changes, over all lives of the process
  MaxCrashes      \* bound: deaths of the process

\* Config and the configurations of the plugins.
Setting == {"Config", "PluginConfig"}
\* The members of FileDatabaseData: the settings and the dictionary of devices.
Part == Setting \union {"Device"}
\* A change, with the number of its call: of a setting, or a device added under
\* a reference.  DeviceReference has no Equals, so the key is the object itself,
\* one for every change: each announcement makes it anew.
Change == [kind : Part, number : Nat, address : Address \union {NoAddress}]
NoChange == [kind |-> "Device", number |-> 0, address |-> NoAddress]

\* FileDatabaseData: the slots of the dictionary of devices, and for each setting
\* the number of the change that set it.
Tables == [devices : Seq(Change), settings : [Setting -> Nat]]
NewTables == [devices |-> <<>>, settings |-> [s \in Setting |-> 0]]

ASSUME SavableAssumption == Savable \subseteq Address /\ NoAddress \notin Address
ASSUME FileAssumption ==
  Absent # Broken /\ Absent \notin Tables /\ Broken \notin Tables /\ Null \notin Tables
ASSUME ThreadAssumption == Nobody # Leaked /\ Nobody \notin Thread /\ Leaked \notin Thread
ASSUME BoundAssumption == MaxCalls \in Nat /\ MaxCrashes \in Nat

VARIABLES
  running,        \* the process is up, its database constructed
  data,
  pc,             \* where each thread is
  change,         \* the change that each thread makes
  slot,           \* the free slot that it found in the dictionary of devices
  rest, image,    \* what it has still to serialize, and what it has serialized
  file,
  opener,         \* who has the file open
  calls, crashes,
  saved,          \* history: the changes whose calls returned without exception
  interrupted,    \* history: the last write to empty the file ended before closing it
  torn            \* history: two threads that inserted found the same slot

threads == <<pc, change, slot, rest, image>>
bounds  == <<calls, crashes>>
history == <<saved, interrupted, torn>>
vars == <<running, data, threads, file, opener, bounds, history>>

TypeOK ==
  /\ running \in BOOLEAN
  /\ data \in Tables \union {Null}
  /\ pc \in [Thread -> {"idle", "insert", "open", "serialize", "close"}]
  /\ change \in [Thread -> Change]
  /\ slot \in [Thread -> Nat]
  /\ rest \in [Thread -> SUBSET Part] /\ image \in [Thread -> Tables]
  /\ file \in Tables \union {Absent, Broken}
  /\ opener \in Thread \union {Nobody, Leaked}
  /\ calls \in Nat /\ crashes \in Nat
  /\ saved \subseteq Change
  /\ interrupted \in BOOLEAN /\ torn \in BOOLEAN

\* Before the first start there is no file, or an earlier version's.
Init ==
  /\ running = FALSE
  /\ data = Null
  /\ pc = [t \in Thread |-> "idle"]
  /\ change = [t \in Thread |-> NoChange]
  /\ slot = [t \in Thread |-> 0]
  /\ rest = [t \in Thread |-> {}]
  /\ image = [t \in Thread |-> NewTables]
  /\ file \in {Absent, NewTables}
  /\ opener = Nobody
  /\ calls = 0 /\ crashes = 0
  /\ saved = {} /\ interrupted = FALSE /\ torn = FALSE

Goto(t, label) == pc' = [pc EXCEPT ![t] = label]
\* A call returns, or ends with an exception that its caller sees.
Leave(t) == /\ Goto(t, "idle")
            /\ change' = [change EXCEPT ![t] = NoChange]
            /\ slot' = [slot EXCEPT ![t] = 0]
            /\ rest' = [rest EXCEPT ![t] = {}]
            /\ image' = [image EXCEPT ![t] = NewTables]
-----------------------------------------------------------------------------
(***************************************************************************)
(* The process.                                                            *)
(***************************************************************************)
\* mutant: whatever the file is, it is taken for the tables.
ReadUnchecked == file
\* mutant: a file that cannot be deserialized is a new database, too.
ReadReset == IF file \in {Absent, Broken} THEN NewTables ELSE file
\* ReadFile: a file that is not there is a new database; one that cannot be
\* deserialized leaves data null, with a warning in the log.
ReadFile == CASE file = Absent -> NewTables
              [] file = Broken -> Null
              [] OTHER -> file

Start ==
  /\ ~running
  /\ running' = TRUE
  /\ data' = ReadFile
  /\ UNCHANGED <<threads, file, opener, bounds, history>>

\* The process dies, with whatever its threads were doing: also the end of an
\* exception that nobody catches on a pool thread.
Crash ==
  /\ running
  /\ crashes < MaxCrashes
  /\ crashes' = crashes + 1
  /\ running' = FALSE
  /\ data' = Null
  /\ pc' = [t \in Thread |-> "idle"]
  /\ change' = [t \in Thread |-> NoChange]
  /\ slot' = [t \in Thread |-> 0]
  /\ rest' = [t \in Thread |-> {}]
  /\ image' = [t \in Thread |-> NewTables]
  /\ opener' = Nobody
  /\ interrupted' = (interrupted \/ opener \in Thread)
  /\ UNCHANGED <<file, calls, saved, torn>>
-----------------------------------------------------------------------------
(***************************************************************************)
(* Changes of the tables.  If data is null each of them throws before it    *)
(* changes anything.                                                       *)
(***************************************************************************)
Begins(t) ==
  /\ pc[t] = "idle"
  /\ running
  /\ calls < MaxCalls
  /\ calls' = calls + 1
  /\ UNCHANGED <<running, rest, image, file, opener, crashes, saved, interrupted>>

DataIsNull(t) ==
  /\ Begins(t)
  /\ data = Null
  /\ UNCHANGED <<data, pc, change, slot, torn>>

WithSetting(d, s, n) == [d EXCEPT !.settings[s] = n]

\* Config's setter and SetPluginConfig.
Set(t, s) ==
  /\ Begins(t)
  /\ data # Null
  /\ data' = WithSetting(data, s, calls + 1)
  /\ change' = [change EXCEPT ![t] = [kind |-> s, number |-> calls + 1,
                                      address |-> NoAddress]]
  /\ Goto(t, "open")
  /\ UNCHANGED <<slot, torn>>

\* insteon_DeviceAdded: a reference made anew is in no table, so the device is
\* taken for an unknown one, and AddOrUpdateDevice inserts it.  The dictionary
\* finds a free slot first and fills it later, without a lock.
AddDevice(t, a) ==
  /\ Begins(t)
  /\ data # Null
  /\ change' = [change EXCEPT ![t] = [kind |-> "Device", number |-> calls + 1,
                                      address |-> a]]
  /\ slot' = [slot EXCEPT ![t] = Len(data.devices) + 1]
  /\ torn' = (torn \/ \E u \in Thread : pc[u] = "insert")
  /\ Goto(t, "insert")
  /\ UNCHANGED data

Stored(devices, i, c) ==
  IF i <= Len(devices) THEN [devices EXCEPT ![i] = c] ELSE Append(devices, c)
WithDevice(d, i, c) == [d EXCEPT !.devices = Stored(@, i, c)]

Insert(t) ==
  /\ pc[t] = "insert"
  /\ data' = WithDevice(data, slot[t], change[t])
  /\ Goto(t, "open")
  /\ UNCHANGED <<running, change, slot, rest, image, file, opener, bounds, history>>
-----------------------------------------------------------------------------
(***************************************************************************)
(* WriteFile.                                                              *)
(***************************************************************************)
\* FileMode.Truncate wants a file that is there, and the stream is opened for
\* one writer at a time: otherwise the constructor throws, as it may anyway.
MustExist == file # Absent
\* mutant: FileShare.ReadWrite.
NotShared == opener # Leaked
NotOpen == opener = Nobody

OpenFile(t) ==
  /\ pc[t] = "open"
  /\ \/ /\ MustExist /\ NotOpen
        /\ opener' = t
        /\ file' = Broken
        /\ Goto(t, "serialize")
        /\ rest' = [rest EXCEPT ![t] = Part]
        /\ UNCHANGED <<change, slot, image>>
     \/ /\ Leave(t)
        /\ UNCHANGED <<opener, file>>
  /\ UNCHANGED <<running, data, bounds, history>>

WithPart(i, d, p) == IF p = "Device" THEN [i EXCEPT !.devices = d.devices]
                                     ELSE [i EXCEPT !.settings[p] = d.settings[p]]
HasUnsavable(tables) ==
  \E i \in DOMAIN tables.devices : tables.devices[i].address \notin Savable

\* The members of the tables are read at different moments, and not all devices
\* are of a class marked serializable.
Serialize(t, p) ==
  /\ pc[t] = "serialize"
  /\ p \in rest[t]
  /\ p = "Device" => ~HasUnsavable(data)
  /\ image' = [image EXCEPT ![t] = WithPart(@, data, p)]
  /\ rest' = [rest EXCEPT ![t] = @ \ {p}]
  /\ Goto(t, IF rest[t] = {p} THEN "close" ELSE "serialize")
  /\ UNCHANGED <<running, data, change, slot, file, opener, bounds, history>>

\* Serialize throws: for a device that is not serializable, for an error of the
\* disk, or because another thread changed a dictionary under it.  Nobody closes
\* the stream.
SerializeThrows(t) ==
  /\ pc[t] = "serialize"
  /\ Leave(t)
  /\ opener' = Leaked
  /\ interrupted' = TRUE
  /\ UNCHANGED <<running, data, file, bounds, saved, torn>>

\* mutant: forgets to close the stream, whose buffer is not written.
CloseForgotten(t) ==
  /\ pc[t] = "close"
  /\ opener' = Leaked
  /\ saved' = saved \union {change[t]}
  /\ Leave(t)
  /\ UNCHANGED <<running, data, file, bounds, interrupted, torn>>
\* Close writes what is left of the image.
CloseFile(t) ==
  /\ pc[t] = "close"
  /\ file' = image[t]
  /\ opener' = Nobody
  /\ saved' = saved \union {change[t]}
  /\ interrupted' = FALSE
  /\ Leave(t)
  /\ UNCHANGED <<running, data, bounds, torn>>

\* An error of the disk: the file is closed all the same.
CloseThrows(t) ==
  /\ pc[t] = "close"
  /\ opener' = Nobody
  /\ interrupted' = TRUE
  /\ Leave(t)
  /\ UNCHANGED <<running, data, file, bounds, saved, torn>>

\* The garbage collector closes a stream that nobody refers to.
Finalize ==
  /\ opener = Leaked
  /\ opener' = Nobody
  /\ UNCHANGED <<running, data, threads, file, bounds, history>>
-----------------------------------------------------------------------------
ThreadStep(t) ==
  \/ DataIsNull(t)
  \/ \E s \in Setting : Set(t, s)
  \/ \E a \in Address : AddDevice(t, a)
  \/ Insert(t) \/ OpenFile(t)
  \/ \E p \in Part : Serialize(t, p)
  \/ SerializeThrows(t) \/ CloseFile(t) \/ CloseThrows(t)

Next == Start \/ Crash \/ Finalize \/ \E t \in Thread : ThreadStep(t)

\* The last life of the process goes on with nothing left to do.
Terminated ==
  /\ running /\ calls = MaxCalls /\ crashes = MaxCrashes
  /\ \A t \in Thread : pc[t] = "idle"
  /\ opener = Nobody
  /\ UNCHANGED vars

Spec == Init /\ [][Next \/ Terminated]_vars
-----------------------------------------------------------------------------
(***************************************************************************)
(* Properties.                                                             *)
(***************************************************************************)
Holds(tables, c) ==
  IF c.kind = "Device" THEN \E i \in DOMAIN tables.devices : tables.devices[i] = c
                       ELSE tables.settings[c.kind] >= c.number

\* A thread that is changing something found the tables there, and only the one
\* that has the file open is writing.
ActiveInv ==
  /\ \A t \in Thread : pc[t] # "idle" => running /\ data # Null
  /\ \A t \in Thread : pc[t] = "insert" => slot[t] # 0
  /\ \A t \in Thread : pc[t] \in {"serialize", "close"} <=> opener = t
  /\ \A t \in Thread : pc[t] = "close" => rest[t] = {}
  /\ opener \in Thread => file = Broken
  /\ ~running => data = Null
  /\ running /\ data = Null => file = Broken

\* Unless two insertions met: a thread that inserts is the only one, and its slot
\* is still the first free one.
SlotInv ==
  ~torn => \A t \in Thread :
             pc[t] = "insert" => /\ change[t].kind = "Device"
                                 /\ slot[t] = Len(data.devices) + 1
                                 /\ \A u \in Thread : pc[u] = "insert" => u = t

\* What is saved, or on its way into the file, is in memory, in what a thread has
\* serialized and in the file, and has a number that was given out.
SavedInv ==
  /\ file = Absent => saved = {}
  /\ \A c \in saved : c.number <= calls
  /\ \A t \in Thread : change[t].number <= calls
  /\ ~torn => /\ \A c \in saved : file \in {Absent, Broken} \/ Holds(file, c)
              /\ \A c \in saved : data = Null \/ Holds(data, c)
              /\ \A t \in Thread : pc[t] \in {"open", "serialize", "close"}
                                    => Holds(data, change[t])
              /\ \A t \in Thread : pc[t] \in {"serialize", "close"}
                                    => \A c \in saved \union {change[t]} :
                                         c.kind \in rest[t] \/ Holds(image[t], c)

\* However threads race, fail and die, a change whose call returned normally is
\* in the file, or a later value of the same setting is, for as long as the file
\* can be read; and so it is in memory after every start.  A device that was
\* announced twice is there twice (DeviceReference.cs:31).  The exception is two
\* insertions that met in one slot (FileDatabase.cs:72-77, 99).
ReturnedIsSaved ==
  ~torn => \A c \in saved : /\ file \in {Absent, Broken} \/ Holds(file, c)
                            /\ data = Null \/ Holds(data, c)

\* The file cannot be read while a write is under way, after one that did not
\* close it and before one that does, and at no other time (FileDatabase.cs:72-77).
BrokenByInterruption ==
  file = Broken <=> interrupted \/ opener \in Thread

\* What becomes of a file that cannot be read.  It is lost once the process died:
\* nothing that a later life does, whose data is null, makes it readable.  It is
\* doomed within a life once a device that cannot be serialized is in memory and
\* no write has read the devices before: every write fails, so it gets lost,
\* unless two insertions meet and drop the device.  And nothing creates a file
\* that is missing (FileDatabase.cs:60-63, 74-75).
Lost == file = Broken /\ data = Null
Doomed ==
  /\ file = Broken /\ data # Null /\ HasUnsavable(data)
  /\ \A t \in Thread : pc[t] \in {"serialize", "close"} => "Device" \in rest[t]
NeverRepaired ==
  [][/\ file = Absent => file' = Absent
     /\ Lost => Lost'
     /\ Doomed /\ ~torn => Doomed' \/ Lost']_vars
=============================================================================
