-------------------------- MODULE FileDatabase_proofs --------------------------
(***************************************************************************)
(* Proofs about FileDatabase, for any threads, devices and bounds: a change  *)
(* whose call returned is in the file, only an interrupted write leaves it  *)
(* unreadable, and when nothing repairs it.                                *)
(***************************************************************************)
EXTENDS FileDatabase, TLAPS

USE FileAssumption, ThreadAssumption, BoundAssumption DEF threads, bounds, history, Part

\* The table of devices stays a sequence of changes wherever a change is stored.
LEMMA StoredType ==
  ASSUME NEW s \in Seq(Change), NEW i \in Nat \ {0}, NEW c \in Change
  PROVE  Stored(s, i, c) \in Seq(Change)
<1>1. CASE i <= Len(s)
  <2>1. [s EXCEPT ![i] = c] \in Seq(Change)
    BY <1>1
  <2> QED
    BY <1>1, <2>1 DEF Stored
<1>2. CASE ~(i <= Len(s))
  <2>1. Append(s, c) \in Seq(Change)
    OBVIOUS
  <2> QED
    BY <1>2, <2>1 DEF Stored
<1> QED
  BY <1>1, <1>2

\* What the operations build are tables again.
LEMMA TablesType ==
  /\ NewTables \in Tables
  /\ NoChange \in Change
  /\ \A d \in Tables : /\ d.devices \in Seq(Change)
                       /\ d.settings \in [Setting -> Nat]
<1>1. NewTables \in Tables
  BY DEF NewTables, Tables
<1>2. NoChange \in Change
  BY DEF NoChange, Change
<1>3. \A d \in Tables : d.devices \in Seq(Change) /\ d.settings \in [Setting -> Nat]
  BY DEF Tables
<1> QED
  BY <1>1, <1>2, <1>3

\* A setting that is stored changes that setting and nothing else.
LEMMA WithSettingType ==
  ASSUME NEW d \in Tables, NEW s \in Setting, NEW n \in Nat
  PROVE  /\ WithSetting(d, s, n) \in Tables
         /\ WithSetting(d, s, n).devices = d.devices
         /\ WithSetting(d, s, n).settings = [d.settings EXCEPT ![s] = n]
  BY DEF Tables, WithSetting

\* A device that is stored changes the dictionary and nothing else.
LEMMA WithDeviceType ==
  ASSUME NEW d \in Tables, NEW i \in Nat \ {0}, NEW c \in Change
  PROVE  /\ WithDevice(d, i, c) \in Tables
         /\ WithDevice(d, i, c).devices = Stored(d.devices, i, c)
         /\ WithDevice(d, i, c).settings = d.settings
<1>1. Stored(d.devices, i, c) \in Seq(Change)
  BY TablesType, StoredType
<1> QED
  BY <1>1 DEF Tables, WithDevice

\* Serializing a member gives tables that agree with data on that member and
\* with what was serialized before on the others.
LEMMA WithPartType ==
  ASSUME NEW i \in Tables, NEW d \in Tables, NEW p \in Part
  PROVE  /\ WithPart(i, d, p) \in Tables
         /\ \A c \in Change : c.kind = p /\ Holds(d, c) => Holds(WithPart(i, d, p), c)
         /\ \A c \in Change : c.kind # p /\ Holds(i, c) => Holds(WithPart(i, d, p), c)
<1> DEFINE w == WithPart(i, d, p)
<1>0. /\ i.devices \in Seq(Change) /\ i.settings \in [Setting -> Nat]
      /\ d.devices \in Seq(Change) /\ d.settings \in [Setting -> Nat]
  BY TablesType
<1>1. CASE p = "Device"
  <2>1. w \in Tables /\ w.devices = d.devices /\ w.settings = i.settings
    BY <1>0, <1>1 DEF WithPart, Tables
  <2> QED
    BY <1>1, <2>1 DEF Holds
<1>2. CASE p \in Setting
  <2>1. p # "Device"
    BY <1>2 DEF Setting
  <2>2. /\ w \in Tables /\ w.devices = i.devices
        /\ w.settings = [i.settings EXCEPT ![p] = d.settings[p]]
    BY <1>0, <1>2, <2>1 DEF WithPart, Tables
  <2>3. /\ w.settings[p] = d.settings[p]
        /\ \A q \in Setting : q # p => w.settings[q] = i.settings[q]
    BY <1>0, <1>2, <2>2
  <2>4. \A c \in Change : c.kind # "Device" => c.kind \in Setting
    BY DEF Change
  <2> QED
    BY <2>1, <2>2, <2>3, <2>4 DEF Holds
<1> QED
  BY <1>1, <1>2
-----------------------------------------------------------------------------
(***************************************************************************)
(* Types, and who is active.                                               *)
(***************************************************************************)
LEMMA TypeInit == Init => TypeOK /\ ActiveInv
<1> SUFFICES ASSUME Init PROVE TypeOK /\ ActiveInv
  OBVIOUS
<1>1. change \in [Thread -> Change] /\ image \in [Thread -> Tables]
  BY TablesType DEF Init
<1>2. file \in Tables \union {Absent, Broken}
  BY TablesType DEF Init
<1>3. TypeOK
  BY <1>1, <1>2 DEF Init, TypeOK
<1>4. ActiveInv
  BY DEF Init, ActiveInv
<1> QED
  BY <1>3, <1>4

\* A call that ends leaves its thread idle, and the others as they were.
LEMMA LeaveType ==
  ASSUME TypeOK, NEW t \in Thread, Leave(t)
  PROVE  /\ pc' = [pc EXCEPT ![t] = "idle"]
         /\ pc' \in [Thread -> {"idle", "insert", "open", "serialize", "close"}]
         /\ change' \in [Thread -> Change]
         /\ slot' \in [Thread -> Nat]
         /\ rest' \in [Thread -> SUBSET Part]
         /\ image' \in [Thread -> Tables]
  BY TablesType DEF TypeOK, Leave, Goto

\* Config and SetPluginConfig change tables that are there, in one setting.
LEMMA SetType ==
  ASSUME TypeOK, NEW t \in Thread, NEW s \in Setting, Set(t, s)
  PROVE  /\ data \in Tables /\ calls + 1 \in Nat
         /\ data' = WithSetting(data, s, calls + 1)
         /\ data' \in Tables
         /\ data'.devices = data.devices
<1>1. data \in Tables /\ calls + 1 \in Nat /\ data' = WithSetting(data, s, calls + 1)
  BY DEF TypeOK, Set
<1> QED
  BY <1>1, WithSettingType

\* An insertion changes tables that are there, in the dictionary.
LEMMA InsertType ==
  ASSUME TypeOK, ActiveInv, NEW t \in Thread, Insert(t)
  PROVE  /\ data \in Tables /\ change[t] \in Change
         /\ data' = WithDevice(data, slot[t], change[t])
         /\ data' \in Tables
<1>1. /\ data \in Tables /\ change[t] \in Change /\ slot[t] \in Nat \ {0}
      /\ data' = WithDevice(data, slot[t], change[t])
  BY DEF TypeOK, ActiveInv, Insert
<1> QED
  BY <1>1, WithDeviceType

\* Each step keeps the types.
LEMMA TypeStep == TypeOK /\ ActiveInv /\ [Next]_vars => TypeOK'
<1> SUFFICES ASSUME TypeOK, ActiveInv, [Next]_vars PROVE TypeOK'
  OBVIOUS
<1> USE TablesType
<1>1. CASE Start
  BY <1>1 DEF TypeOK, Start, ReadFile
<1>2. CASE Crash
  <2>1. change' \in [Thread -> Change] /\ image' \in [Thread -> Tables]
    BY <1>2 DEF Crash
  <2>2. interrupted' \in BOOLEAN
    BY <1>2 DEF Crash
  <2>3. /\ running' \in BOOLEAN /\ data' \in Tables \union {Null}
        /\ crashes' \in Nat /\ opener' \in Thread \union {Nobody, Leaked}
    <3>1. running' \in BOOLEAN
      BY <1>2, Zenon DEF Crash
    <3>2. data' = Null /\ crashes' = crashes + 1 /\ opener' = Nobody
      BY <1>2, Zenon DEF Crash
    <3>3. crashes \in Nat
      BY DEF TypeOK
    <3> QED
      BY <3>1, <3>2, <3>3
  <2>4. UNCHANGED <<file, calls, saved, torn>>
    BY <1>2 DEF Crash
  <2>5. /\ pc' \in [Thread -> {"idle", "insert", "open", "serialize", "close"}]
        /\ slot' \in [Thread -> Nat] /\ rest' \in [Thread -> SUBSET Part]
    BY <1>2 DEF Crash
  <2> QED
    BY <2>1, <2>2, <2>3, <2>4, <2>5 DEF TypeOK
<1>3. CASE Finalize
  BY <1>3 DEF TypeOK, Finalize
<1>4. ASSUME NEW t \in Thread, ThreadStep(t) PROVE TypeOK'
  <2>1. CASE DataIsNull(t)
    BY <2>1 DEF TypeOK, DataIsNull, Begins
  <2>2. ASSUME NEW s \in Setting, Set(t, s) PROVE TypeOK'
    <3>1. data' \in Tables
      BY <2>2, SetType
    <3>2. change' \in [Thread -> Change]
      BY <2>2 DEF TypeOK, Set, Begins, Change
    <3> QED
      BY <2>2, <3>1, <3>2 DEF TypeOK, Set, Begins, Goto
  <2>3. ASSUME NEW a \in Address, AddDevice(t, a) PROVE TypeOK'
    <3>1. change' \in [Thread -> Change]
      BY <2>3 DEF TypeOK, AddDevice, Begins, Change
    <3>2. slot' \in [Thread -> Nat]
      BY <2>3 DEF TypeOK, AddDevice
    <3> QED
      BY <2>3, <3>1, <3>2 DEF TypeOK, AddDevice, Begins, Goto
  <2>4. CASE Insert(t)
    <3>1. data' \in Tables
      BY <2>4, InsertType
    <3> QED
      BY <2>4, <3>1 DEF TypeOK, Insert, Goto
  <2>5. CASE OpenFile(t)
    <3>1. CASE Leave(t) /\ UNCHANGED <<opener, file>>
      BY <2>5, <3>1, LeaveType DEF TypeOK, OpenFile
    <3>2. CASE ~(Leave(t) /\ UNCHANGED <<opener, file>>)
      <4>1. /\ opener' = t /\ file' = Broken /\ pc' = [pc EXCEPT ![t] = "serialize"]
            /\ rest' = [rest EXCEPT ![t] = Part] /\ UNCHANGED <<change, slot, image>>
            /\ UNCHANGED <<running, data, bounds, history>>
        BY <2>5, <3>2 DEF OpenFile, Goto
      <4> QED
        BY <4>1 DEF TypeOK
    <3> QED
      BY <3>1, <3>2
  <2>6. ASSUME NEW p \in Part, Serialize(t, p) PROVE TypeOK'
    <3>1. data \in Tables /\ image[t] \in Tables
      BY <2>6 DEF TypeOK, ActiveInv, Serialize
    <3>2. image' \in [Thread -> Tables]
      BY <2>6, <3>1, WithPartType DEF TypeOK, Serialize
    <3>3. rest' \in [Thread -> SUBSET Part]
      BY <2>6 DEF TypeOK, Serialize
    <3> QED
      BY <2>6, <3>2, <3>3 DEF TypeOK, Serialize, Goto
  <2>7. CASE CloseFile(t)
    <3>1. interrupted' \in BOOLEAN
      BY <2>7, Zenon DEF CloseFile
    <3>2. saved' \subseteq Change /\ file' \in Tables
      BY <2>7 DEF TypeOK, CloseFile
    <3> QED
      BY <2>7, <3>1, <3>2, LeaveType DEF TypeOK, CloseFile
  <2>8. CASE SerializeThrows(t)
    BY <2>8, LeaveType DEF TypeOK, SerializeThrows
  <2>9. CASE CloseThrows(t)
    BY <2>9, LeaveType DEF TypeOK, CloseThrows
  <2> QED
    BY <1>4, <2>1, <2>2, <2>3, <2>4, <2>5, <2>6, <2>7, <2>8, <2>9 DEF ThreadStep
<1>5. CASE UNCHANGED vars
  BY <1>5 DEF TypeOK, vars
<1> QED
  BY <1>1, <1>2, <1>3, <1>4, <1>5 DEF Next

\* Each step keeps the thread that has the file open the only one that writes.
LEMMA ActiveStep == TypeOK /\ ActiveInv /\ [Next]_vars => ActiveInv'
<1> SUFFICES ASSUME TypeOK, ActiveInv, [Next]_vars PROVE ActiveInv'
  OBVIOUS
<1> USE DEF TypeOK, ActiveInv
<1>1. CASE Start
  <2>1. data' = Null => file = Broken
    BY <1>1, TablesType DEF Start, ReadFile
  <2> QED
    BY <1>1, <2>1 DEF Start
<1>2. CASE Crash
  BY <1>2 DEF Crash
<1>3. CASE Finalize
  BY <1>3 DEF Finalize
<1>4. ASSUME NEW t \in Thread, ThreadStep(t) PROVE ActiveInv'
  <2>1. CASE DataIsNull(t)
    BY <2>1 DEF DataIsNull, Begins
  <2>2. ASSUME NEW s \in Setting, Set(t, s) PROVE ActiveInv'
    <3>1. data' # Null
      BY <2>2, SetType
    <3> QED
      BY <2>2, <3>1 DEF Set, Begins, Goto
  <2>3. ASSUME NEW a \in Address, AddDevice(t, a) PROVE ActiveInv'
    BY <2>3 DEF AddDevice, Begins, Goto
  <2>4. CASE Insert(t)
    <3>1. data' # Null
      BY <2>4, InsertType
    <3> QED
      BY <2>4, <3>1 DEF Insert, Goto
  <2>5. CASE OpenFile(t)
    BY <2>5 DEF OpenFile, NotOpen, Leave, Goto
  <2>6. ASSUME NEW p \in Part, Serialize(t, p) PROVE ActiveInv'
    BY <2>6 DEF Serialize, Goto
  <2>7. CASE CloseFile(t)
    BY <2>7 DEF CloseFile, Leave, Goto
  <2>8. CASE SerializeThrows(t)
    BY <2>8 DEF SerializeThrows, Leave, Goto
  <2>9. CASE CloseThrows(t)
    BY <2>9 DEF CloseThrows, Leave, Goto
  <2> QED
    BY <1>4, <2>1, <2>2, <2>3, <2>4, <2>5, <2>6, <2>7, <2>8, <2>9 DEF ThreadStep
<1>5. CASE UNCHANGED vars
  BY <1>5 DEF vars
<1> QED
  BY <1>1, <1>2, <1>3, <1>4, <1>5 DEF Next
-----------------------------------------------------------------------------
(***************************************************************************)
(* What the tables hold after a change.                                    *)
(***************************************************************************)
\* An insertion into the first free slot keeps the devices and adds one.
LEMMA StoredAppends ==
  ASSUME NEW s \in Seq(Change), NEW c \in Change
  PROVE  LET a == Stored(s, Len(s) + 1, c) IN
           /\ \A i \in DOMAIN s : i \in DOMAIN a /\ a[i] = s[i]
           /\ Len(s) + 1 \in DOMAIN a /\ a[Len(s) + 1] = c
           /\ Len(a) = Len(s) + 1
<1>1. Stored(s, Len(s) + 1, c) = Append(s, c)
  BY DEF Stored
<1>2. /\ \A i \in DOMAIN s : i \in DOMAIN Append(s, c) /\ Append(s, c)[i] = s[i]
      /\ Len(s) + 1 \in DOMAIN Append(s, c) /\ Append(s, c)[Len(s) + 1] = c
      /\ Len(Append(s, c)) = Len(s) + 1
  OBVIOUS
<1> QED
  BY <1>1, <1>2

\* A device stored in the first free slot takes the place of none.
LEMMA DeviceHeld ==
  ASSUME NEW d \in Tables, NEW e \in Change
  PROVE  LET n == WithDevice(d, Len(d.devices) + 1, e) IN
           /\ \A c \in Change : Holds(d, c) => Holds(n, c)
           /\ e.kind = "Device" => Holds(n, e)
           /\ HasUnsavable(d) => HasUnsavable(n)
<1> DEFINE n == WithDevice(d, Len(d.devices) + 1, e)
<1>1. d.devices \in Seq(Change) /\ Len(d.devices) + 1 \in Nat \ {0}
  BY TablesType
<1>2. /\ n.devices = Stored(d.devices, Len(d.devices) + 1, e)
      /\ n.settings = d.settings
  BY <1>1, WithDeviceType
<1>3. /\ \A i \in DOMAIN d.devices : i \in DOMAIN n.devices /\ n.devices[i] = d.devices[i]
      /\ Len(d.devices) + 1 \in DOMAIN n.devices /\ n.devices[Len(d.devices) + 1] = e
  BY <1>1, <1>2, StoredAppends
<1>4. ASSUME NEW c \in Change, Holds(d, c) PROVE Holds(n, c)
  BY <1>2, <1>3, <1>4 DEF Holds
<1>5. e.kind = "Device" => Holds(n, e)
  BY <1>3 DEF Holds
<1>6. HasUnsavable(d) => HasUnsavable(n)
  BY <1>3 DEF HasUnsavable
<1> QED
  BY <1>4, <1>5, <1>6

\* A setting with a new number holds for every earlier change of it too.
LEMMA SettingHeld ==
  ASSUME NEW d \in Tables, NEW s \in Setting, NEW k \in Nat
  PROVE  LET n == WithSetting(d, s, k) IN
           /\ \A c \in Change : Holds(d, c) /\ c.number <= k => Holds(n, c)
           /\ \A c \in Change : c.kind = s /\ c.number = k => Holds(n, c)
           /\ HasUnsavable(d) => HasUnsavable(n)
<1> DEFINE n == WithSetting(d, s, k)
<1>1. n.devices = d.devices /\ n.settings = [d.settings EXCEPT ![s] = k]
  BY WithSettingType
<1>2. d.settings \in [Setting -> Nat]
  BY TablesType
<1>3. ASSUME NEW c \in Change, Holds(d, c), c.number <= k PROVE Holds(n, c)
  <2>1. CASE c.kind = "Device"
    BY <1>1, <1>3, <2>1 DEF Holds
  <2>2. CASE c.kind # "Device"
    <3>1. c.kind \in Setting /\ d.settings[c.kind] >= c.number
      BY <1>3, <2>2 DEF Holds, Change
    <3>2. n.settings[c.kind] >= c.number
      BY <1>1, <1>2, <1>3, <3>1
    <3> QED
      BY <2>2, <3>2 DEF Holds
  <2> QED
    BY <2>1, <2>2
<1>4. ASSUME NEW c \in Change, c.kind = s, c.number = k PROVE Holds(n, c)
  <2>1. s # "Device"
    BY DEF Setting
  <2>2. n.settings[s] = k
    BY <1>1, <1>2
  <2> QED
    BY <1>4, <2>1, <2>2 DEF Holds
<1>5. HasUnsavable(d) => HasUnsavable(n)
  BY <1>1 DEF HasUnsavable
<1> QED
  BY <1>3, <1>4, <1>5
-----------------------------------------------------------------------------
(***************************************************************************)
(* Insertions.                                                             *)
(***************************************************************************)
LEMMA SlotStep == TypeOK /\ ActiveInv /\ SlotInv /\ [Next]_vars => SlotInv'
<1> SUFFICES ASSUME TypeOK, ActiveInv, SlotInv, [Next]_vars PROVE SlotInv'
  OBVIOUS
<1> USE DEF TypeOK, SlotInv
<1>1. CASE Start
  BY <1>1 DEF Start, ActiveInv
<1>2. CASE Crash
  BY <1>2 DEF Crash
<1>3. CASE Finalize
  BY <1>3 DEF Finalize
<1>4. ASSUME NEW t \in Thread, ThreadStep(t) PROVE SlotInv'
  <2>1. CASE DataIsNull(t)
    BY <2>1 DEF DataIsNull, Begins
  <2>2. ASSUME NEW s \in Setting, Set(t, s) PROVE SlotInv'
    <3>1. data'.devices = data.devices
      BY <2>2, SetType
    <3>2. \A u \in Thread : pc'[u] = "insert" => pc[u] = "insert" /\ change'[u] = change[u]
      BY <2>2 DEF Set, Begins, Goto
    <3> QED
      BY <2>2, <3>1, <3>2 DEF Set
  <2>3. ASSUME NEW a \in Address, AddDevice(t, a) PROVE SlotInv'
    <3>1. ASSUME ~torn' PROVE \A u \in Thread : pc[u] # "insert"
      BY <2>3, <3>1 DEF AddDevice
    <3>2. \A u \in Thread : pc'[u] = "insert" => pc[u] = "insert" \/ u = t
      BY <2>3 DEF AddDevice, Goto
    <3>3. change'[t].kind = "Device" /\ slot'[t] = Len(data'.devices) + 1
      BY <2>3 DEF AddDevice
    <3> QED
      BY <3>1, <3>2, <3>3
  <2>4. CASE Insert(t)
    <3>1. \A u \in Thread : pc'[u] = "insert" => pc[u] = "insert" /\ u # t
      BY <2>4 DEF Insert, Goto
    <3>2. pc[t] = "insert" /\ UNCHANGED torn
      BY <2>4 DEF Insert
    <3> QED
      BY <3>1, <3>2
  <2>5. CASE OpenFile(t)
    BY <2>5 DEF OpenFile, Leave, Goto
  <2>6. ASSUME NEW p \in Part, Serialize(t, p) PROVE SlotInv'
    BY <2>6 DEF Serialize, Goto
  <2>7. CASE CloseFile(t)
    BY <2>7 DEF CloseFile, Leave, Goto
  <2>8. CASE SerializeThrows(t)
    BY <2>8 DEF SerializeThrows, Leave, Goto
  <2>9. CASE CloseThrows(t)
    BY <2>9 DEF CloseThrows, Leave, Goto
  <2> QED
    BY <1>4, <2>1, <2>2, <2>3, <2>4, <2>5, <2>6, <2>7, <2>8, <2>9 DEF ThreadStep
<1>5. CASE UNCHANGED vars
  BY <1>5 DEF vars
<1> QED
  BY <1>1, <1>2, <1>3, <1>4, <1>5 DEF Next
-----------------------------------------------------------------------------
(***************************************************************************)
(* What is saved.                                                          *)
(***************************************************************************)
\* Its parts that are about the numbers of changes, and about where they are.
NumbersInv ==
  /\ file = Absent => saved = {}
  /\ \A c \in saved : c.number <= calls
  /\ \A t \in Thread : change[t].number <= calls
PlacesInv ==
  /\ \A c \in saved : file \in {Absent, Broken} \/ Holds(file, c)
  /\ \A c \in saved : data = Null \/ Holds(data, c)
  /\ \A t \in Thread : pc[t] \in {"open", "serialize", "close"} => Holds(data, change[t])
  /\ \A t \in Thread : pc[t] \in {"serialize", "close"} =>
       \A c \in saved \union {change[t]} : c.kind \in rest[t] \/ Holds(image[t], c)

\* SavedInv in its two parts: the numbers of the changes, and where they are.
LEMMA SavedParts == SavedInv <=> NumbersInv /\ (~torn => PlacesInv)
  BY DEF SavedInv, NumbersInv, PlacesInv

\* Each step keeps the numbers of changes among those given out.
LEMMA NumbersStep == TypeOK /\ ActiveInv /\ NumbersInv /\ [Next]_vars => NumbersInv'
<1> SUFFICES ASSUME TypeOK, ActiveInv, NumbersInv, [Next]_vars PROVE NumbersInv'
  OBVIOUS
<1> USE DEF NumbersInv
<1>t. calls \in Nat /\ saved \subseteq Change /\ change \in [Thread -> Change]
  BY DEF TypeOK
<1>n. NoChange.number = 0 /\ \A c \in Change : c.number \in Nat
  BY DEF NoChange, Change
<1>l. ASSUME NEW t \in Thread, Leave(t), calls' = calls
      PROVE  \A u \in Thread : change'[u].number <= calls'
  BY <1>l, <1>t, <1>n DEF Leave
<1>1. CASE Start
  BY <1>1 DEF Start
<1>2. CASE Crash
  <2>1. UNCHANGED <<file, calls, saved>> /\ change' = [t \in Thread |-> NoChange]
    BY <1>2, Zenon DEF Crash
  <2> QED
    BY <2>1, <1>t, <1>n
<1>3. CASE Finalize
  BY <1>3 DEF Finalize
<1>4. ASSUME NEW t \in Thread, ThreadStep(t) PROVE NumbersInv'
  <2>1. CASE DataIsNull(t)
    BY <2>1, <1>t, <1>n DEF DataIsNull, Begins
  <2>2. ASSUME NEW s \in Setting, Set(t, s) PROVE NumbersInv'
    BY <2>2, <1>t, <1>n DEF Set, Begins
  <2>3. ASSUME NEW a \in Address, AddDevice(t, a) PROVE NumbersInv'
    BY <2>3, <1>t, <1>n DEF AddDevice, Begins
  <2>4. CASE Insert(t)
    BY <2>4 DEF Insert
  <2>5. CASE OpenFile(t)
    BY <2>5, <1>t, <1>l DEF OpenFile, MustExist
  <2>6. ASSUME NEW p \in Part, Serialize(t, p) PROVE NumbersInv'
    BY <2>6 DEF Serialize
  <2>7. CASE CloseFile(t)
    <3>1. image[t] # Absent
      BY DEF TypeOK
    <3>2. \A c \in saved' : c.number <= calls'
      BY <2>7, <1>t DEF CloseFile
    <3> QED
      BY <2>7, <3>1, <3>2, <1>l DEF CloseFile
  <2>8. CASE SerializeThrows(t)
    BY <2>8, <1>t, <1>l DEF SerializeThrows
  <2>9. CASE CloseThrows(t)
    BY <2>9, <1>t, <1>l DEF CloseThrows
  <2> QED
    BY <1>4, <2>1, <2>2, <2>3, <2>4, <2>5, <2>6, <2>7, <2>8, <2>9 DEF ThreadStep
<1>5. CASE UNCHANGED vars
  BY <1>5 DEF vars
<1> QED
  BY <1>1, <1>2, <1>3, <1>4, <1>5 DEF Next

\* A step that changes neither the tables, nor the file, nor what is saved, and
\* begins nothing.
LEMMA PlacesKept ==
  ASSUME PlacesInv, UNCHANGED <<data, file, saved>>,
         \A t \in Thread : /\ pc'[t] \in {"open", "serialize", "close"} =>
                               /\ pc[t] \in {"open", "serialize", "close"}
                               /\ change'[t] = change[t]
                           /\ pc'[t] \in {"serialize", "close"} =>
                               /\ pc[t] \in {"serialize", "close"}
                               /\ image'[t] = image[t] /\ rest'[t] = rest[t]
  PROVE  PlacesInv'
  BY DEF PlacesInv

\* Each step keeps what is saved in the file, in memory and in what is serialized,
\* unless two insertions meet in one slot.
LEMMA PlacesStep ==
  ASSUME TypeOK, ActiveInv, SlotInv, NumbersInv, ~torn, PlacesInv, [Next]_vars
  PROVE  torn' \/ PlacesInv'
<1>t. /\ pc \in [Thread -> {"idle", "insert", "open", "serialize", "close"}]
      /\ saved \subseteq Change /\ change \in [Thread -> Change]
      /\ image \in [Thread -> Tables] /\ rest \in [Thread -> SUBSET Part]
      /\ calls \in Nat
  BY DEF TypeOK
<1>k. \A c \in Change : c.kind \in Part
  BY DEF Change
<1>1. CASE Start
  <2>1. /\ \A t \in Thread : pc'[t] = "idle"
        /\ UNCHANGED <<file, saved>> /\ data' = ReadFile
    BY <1>1 DEF Start, ActiveInv
  <2>2. \A c \in saved : data' = Null \/ Holds(data', c)
    BY <2>1 DEF ReadFile, PlacesInv, NumbersInv
  <2> QED
    BY <2>1, <2>2 DEF PlacesInv
<1>2. CASE Crash
  <2>1. /\ UNCHANGED <<file, saved>> /\ data' = Null
        /\ pc' = [t \in Thread |-> "idle"]
    BY <1>2, Zenon DEF Crash
  <2> QED
    BY <2>1 DEF PlacesInv
<1>3. CASE Finalize
  BY <1>3, PlacesKept DEF Finalize
<1>4. ASSUME NEW t \in Thread, ThreadStep(t) PROVE torn' \/ PlacesInv'
  <2>1. CASE DataIsNull(t)
    BY <2>1, PlacesKept DEF DataIsNull, Begins
  <2>2. ASSUME NEW s \in Setting, Set(t, s) PROVE PlacesInv'
    <3>1. /\ UNCHANGED <<file, saved, rest, image>> /\ data # Null /\ pc[t] = "idle"
          /\ change' = [change EXCEPT ![t] = [kind |-> s, number |-> calls + 1,
                                              address |-> NoAddress]]
          /\ pc' = [pc EXCEPT ![t] = "open"]
      BY <2>2 DEF Set, Begins, Goto
    <3>2. \A c \in Change : Holds(data, c) /\ c.number <= calls => Holds(data', c)
      <4>1. \A c \in Change : c.number \in Nat
        BY DEF Change
      <4>2. \A c \in Change : c.number <= calls => c.number <= calls + 1
        BY <4>1, <1>t
      <4> QED
        BY <2>2, <4>2, SetType, SettingHeld
    <3>3. \A c \in saved : Holds(data', c)
      BY <3>1, <3>2, <1>t DEF PlacesInv, NumbersInv
    <3>4. ASSUME NEW u \in Thread, u # t
          PROVE  /\ pc'[u] = pc[u] /\ change'[u] = change[u]
                 /\ Holds(data, change[u]) => Holds(data', change[u])
      BY <3>1, <3>2, <3>4, <1>t DEF NumbersInv
    <3>5. pc'[t] = "open" /\ Holds(data', change'[t])
      <4>1. change'[t] = [kind |-> s, number |-> calls + 1, address |-> NoAddress]
        BY <3>1, <1>t
      <4>2. change'[t] \in Change /\ change'[t].kind = s /\ change'[t].number = calls + 1
        BY <4>1, <1>t DEF Change
      <4>3. Holds(data', change'[t])
        BY <2>2, <4>2, SetType, SettingHeld
      <4> QED
        BY <3>1, <4>3, <1>t
    <3> QED
      BY <3>1, <3>3, <3>4, <3>5 DEF PlacesInv
  <2>3. ASSUME NEW a \in Address, AddDevice(t, a) PROVE PlacesInv'
    <3>1. UNCHANGED <<data, file, saved, rest, image>> /\ pc' = [pc EXCEPT ![t] = "insert"]
      BY <2>3 DEF AddDevice, Begins, Goto
    <3>2. \A u \in Thread : u # t => change'[u] = change[u]
      BY <2>3, <1>t DEF AddDevice
    <3> QED
      BY <3>1, <3>2, <1>t, PlacesKept
  <2>4. CASE Insert(t)
    <3>1. /\ UNCHANGED <<file, saved, rest, image, change>> /\ pc[t] = "insert" /\ data # Null
          /\ pc' = [pc EXCEPT ![t] = "open"]
      BY <2>4 DEF Insert, Goto, ActiveInv
    <3>2. slot[t] = Len(data.devices) + 1 /\ change[t].kind = "Device"
      BY <3>1 DEF SlotInv
    <3>3. data' = WithDevice(data, Len(data.devices) + 1, change[t])
      BY <2>4, <3>2, InsertType
    <3>4. /\ \A c \in Change : Holds(data, c) => Holds(data', c)
          /\ Holds(data', change[t])
      BY <2>4, <3>2, <3>3, InsertType, DeviceHeld
    <3>5. \A c \in saved : Holds(data', c)
      BY <3>1, <3>4, <1>t DEF PlacesInv
    <3>6. ASSUME NEW u \in Thread, u # t
          PROVE  /\ pc'[u] = pc[u]
                 /\ Holds(data, change[u]) => Holds(data', change[u])
      BY <3>1, <3>4, <3>6, <1>t
    <3>7. pc'[t] = "open"
      BY <3>1, <1>t
    <3> QED
      BY <3>1, <3>4, <3>5, <3>6, <3>7 DEF PlacesInv
  <2>5. CASE OpenFile(t)
    <3>1. /\ UNCHANGED <<data, saved>> /\ file' \in {file, Broken} /\ pc[t] = "open"
          /\ \/ Leave(t)
             \/ /\ pc' = [pc EXCEPT ![t] = "serialize"] /\ rest' = [rest EXCEPT ![t] = Part]
                /\ UNCHANGED <<change, image>>
      BY <2>5 DEF OpenFile, Goto
    <3>2. ASSUME NEW u \in Thread, u # t
          PROVE  /\ pc'[u] = pc[u] /\ change'[u] = change[u]
                 /\ image'[u] = image[u] /\ rest'[u] = rest[u]
      BY <3>1, <3>2, <1>t DEF Leave, Goto
    <3>3. \/ pc'[t] = "idle"
          \/ pc'[t] = "serialize" /\ rest'[t] = Part /\ change'[t] = change[t]
      BY <3>1, <1>t DEF Leave, Goto
    <3>4. \A c \in saved \union {change[t]} : c.kind \in Part
      BY <1>t, <1>k
    <3> QED
      BY <3>1, <3>2, <3>3, <3>4 DEF PlacesInv
  <2>6. ASSUME NEW p \in Part, Serialize(t, p) PROVE PlacesInv'
    <3>1. /\ UNCHANGED <<data, file, saved, change>> /\ pc[t] = "serialize" /\ p \in rest[t]
          /\ image' = [image EXCEPT ![t] = WithPart(@, data, p)]
          /\ rest' = [rest EXCEPT ![t] = @ \ {p}]
      BY <2>6 DEF Serialize
    <3>2. data \in Tables /\ data # Null
      BY <3>1 DEF ActiveInv, TypeOK
    <3>3. /\ pc'[t] \in {"serialize", "close"}
          /\ \A u \in Thread : u # t => /\ pc'[u] = pc[u] /\ image'[u] = image[u]
                                        /\ rest'[u] = rest[u]
      BY <2>6, <3>1, <1>t DEF Serialize, Goto
    <3>4. image'[t] = WithPart(image[t], data, p) /\ rest'[t] = rest[t] \ {p}
      BY <3>1, <1>t
    <3>5. ASSUME NEW c \in saved \union {change[t]}
          PROVE  c.kind \in rest'[t] \/ Holds(image'[t], c)
      <4>1. c \in Change /\ Holds(data, c) /\ (c.kind \in rest[t] \/ Holds(image[t], c))
        BY <3>1, <3>2, <1>t DEF PlacesInv
      <4>2. CASE c.kind = p
        BY <3>2, <3>4, <4>1, <4>2, <1>t, WithPartType
      <4>3. CASE c.kind # p
        <5>1. image[t] \in Tables /\ p \in Part /\ data \in Tables
          BY <3>2, <1>t
        <5>2. Holds(image[t], c) => Holds(WithPart(image[t], data, p), c)
          BY <4>1, <4>3, <5>1, WithPartType
        <5> QED
          BY <3>4, <4>1, <4>3, <5>2
      <4> QED
        BY <4>2, <4>3
    <3> QED
      BY <3>1, <3>3, <3>5 DEF PlacesInv
  <2>7. CASE CloseFile(t)
    <3>1. /\ UNCHANGED data /\ pc[t] = "close" /\ file' = image[t]
          /\ saved' = saved \union {change[t]} /\ Leave(t)
      BY <2>7 DEF CloseFile
    <3>2. \A c \in saved' : Holds(file', c) /\ Holds(data', c)
      <4>1. data # Null /\ Holds(data, change[t]) /\ rest[t] = {}
        BY <3>1 DEF PlacesInv, ActiveInv
      <4> QED
        BY <3>1, <4>1 DEF PlacesInv
    <3>3. \A u \in Thread : u # t => pc[u] \notin {"serialize", "close"}
      BY <3>1 DEF ActiveInv
    <3>4. pc'[t] = "idle" /\ \A u \in Thread : u # t => pc'[u] = pc[u] /\ change'[u] = change[u]
      BY <3>1, <1>t DEF Leave, Goto
    <3>5. \A u \in Thread : pc'[u] \notin {"serialize", "close"}
      BY <3>3, <3>4
    <3> QED
      BY <3>1, <3>2, <3>4, <3>5 DEF PlacesInv
  <2>8. CASE SerializeThrows(t)
    BY <2>8, <1>t, PlacesKept DEF SerializeThrows, Leave, Goto
  <2>9. CASE CloseThrows(t)
    BY <2>9, <1>t, PlacesKept DEF CloseThrows, Leave, Goto
  <2> QED
    BY <1>4, <2>1, <2>2, <2>3, <2>4, <2>5, <2>6, <2>7, <2>8, <2>9 DEF ThreadStep
<1>5. CASE UNCHANGED vars
  BY <1>5, PlacesKept DEF vars
<1> QED
  BY <1>1, <1>2, <1>3, <1>4, <1>5 DEF Next

\* That two insertions met is not forgotten.
LEMMA TornStep == TypeOK /\ [Next]_vars => (torn => torn')
<1> SUFFICES ASSUME TypeOK, [Next]_vars, torn PROVE torn'
  OBVIOUS
<1>1. CASE Start \/ Finalize
  BY <1>1 DEF Start, Finalize
<1>2. CASE Crash
  BY <1>2, Zenon DEF Crash
<1>3. ASSUME NEW t \in Thread, ThreadStep(t) PROVE torn'
  <2>1. CASE \E a \in Address : AddDevice(t, a)
    BY <2>1 DEF AddDevice
  <2>2. CASE ~ \E a \in Address : AddDevice(t, a)
    BY <1>3, <2>2 DEF ThreadStep, DataIsNull, Set, Insert, OpenFile, Serialize,
                       SerializeThrows, CloseFile, CloseThrows
  <2> QED
    BY <2>1, <2>2
<1>4. CASE UNCHANGED vars
  BY <1>4 DEF vars
<1> QED
  BY <1>1, <1>2, <1>3, <1>4 DEF Next

\* Each step keeps SavedInv.
LEMMA SavedStep ==
  TypeOK /\ ActiveInv /\ SlotInv /\ SavedInv /\ [Next]_vars => SavedInv'
<1>1. SavedInv' <=> NumbersInv' /\ (~torn' => PlacesInv')
  BY DEF SavedInv, NumbersInv, PlacesInv
<1> QED
  BY <1>1, SavedParts, NumbersStep, PlacesStep, TornStep
-----------------------------------------------------------------------------
(***************************************************************************)
(* The theorems.                                                           *)
(***************************************************************************)
LEMMA StepOrEnd == [Next \/ Terminated]_vars => [Next]_vars
  BY DEF Terminated

\* The invariants together: each step of the proofs below is one of the lemmas.
DatabaseInv == TypeOK /\ ActiveInv /\ SlotInv /\ SavedInv

\* Before the first start the invariant holds.
LEMMA InitInv == Init => DatabaseInv
<1> SUFFICES ASSUME Init PROVE DatabaseInv
  OBVIOUS
<1>1. \A t \in Thread : change[t].number = 0 /\ pc[t] = "idle"
  BY DEF Init, NoChange
<1>2. saved = {} /\ interrupted = FALSE /\ calls = 0
  BY DEF Init
<1>3. SlotInv /\ SavedInv
  BY <1>1, <1>2 DEF SlotInv, SavedInv
<1> QED
  BY <1>3, TypeInit DEF DatabaseInv

\* Each step, and the end, keeps the invariant.
LEMMA StepInv == DatabaseInv /\ [Next \/ Terminated]_vars => DatabaseInv'
  BY StepOrEnd, TypeStep, ActiveStep, SlotStep, SavedStep DEF DatabaseInv

\* The invariant holds in every reachable state.
LEMMA DatabaseCorrect == Spec => []DatabaseInv
  BY InitInv, StepInv, PTL DEF Spec

\* The variables keep their types (FileDatabase.cs:36-133).
THEOREM TypeCorrect == Spec => []TypeOK
<1>1. DatabaseInv => TypeOK
  BY DEF DatabaseInv
<1> QED
  BY <1>1, DatabaseCorrect, PTL

\* However threads race, fail and die, what a call saved stays saved, unless two
\* insertions met in one slot (FileDatabase.cs:72-77, 99).
THEOREM NothingSavedIsLost == Spec => []ReturnedIsSaved
<1>1. DatabaseInv => ReturnedIsSaved
  BY DEF DatabaseInv, SavedInv, ReturnedIsSaved
<1> QED
  BY <1>1, DatabaseCorrect, PTL

\* Emptying the file makes it unreadable, and only closing it after a complete
\* image makes it readable again (FileDatabase.cs:72-77).
LEMMA BrokenStep ==
  TypeOK /\ ActiveInv /\ BrokenByInterruption /\ [Next]_vars => BrokenByInterruption'
<1> SUFFICES ASSUME TypeOK, ActiveInv, BrokenByInterruption, [Next]_vars
             PROVE  file' = Broken <=> interrupted' \/ opener' \in Thread
  BY DEF BrokenByInterruption
<1> DEFINE Kept == /\ file' = file /\ interrupted' = interrupted
                   /\ opener' \in Thread <=> opener \in Thread
<1>k. ASSUME Kept PROVE file' = Broken <=> interrupted' \/ opener' \in Thread
  BY <1>k, Zenon DEF BrokenByInterruption
<1>1. CASE Start
  BY <1>1, <1>k DEF Start
<1>2. CASE Crash
  <2>1. /\ file' = file /\ opener' = Nobody
        /\ interrupted' = (interrupted \/ opener \in Thread)
    BY <1>2, Zenon DEF Crash
  <2>2. opener' \notin Thread
    BY <2>1
  <2> QED
    BY <2>1, <2>2, Zenon DEF BrokenByInterruption
<1>3. CASE Finalize
  BY <1>3, <1>k DEF Finalize
<1>4. ASSUME NEW t \in Thread, ThreadStep(t)
      PROVE  file' = Broken <=> interrupted' \/ opener' \in Thread
  <2>1. CASE OpenFile(t)
    <3>1. CASE opener' = t /\ file' = Broken
      BY <3>1
    <3>2. CASE UNCHANGED <<opener, file>>
      BY <2>1, <3>2, <1>k DEF OpenFile
    <3> QED
      BY <2>1, <3>1, <3>2 DEF OpenFile
  <2>2. CASE \E p \in Part : Serialize(t, p)
    BY <2>2, <1>k DEF Serialize
  <2>3. CASE CloseFile(t)
    <3>1. file' # Broken /\ opener' \notin Thread
      BY <2>3 DEF CloseFile, TypeOK
    <3>2. ~interrupted'
      BY <2>3, Zenon DEF CloseFile
    <3> QED
      BY <3>1, <3>2
  <2>4. CASE SerializeThrows(t) \/ CloseThrows(t)
    <3>1. opener = t /\ file' = file /\ interrupted' = TRUE
      BY <2>4 DEF SerializeThrows, CloseThrows, ActiveInv
    <3> QED
      BY <3>1 DEF BrokenByInterruption
  <2>5. CASE DataIsNull(t) \/ Insert(t)
    BY <2>5, <1>k DEF DataIsNull, Begins, Insert
  <2>6. CASE \E s \in Setting : Set(t, s)
    BY <2>6, <1>k DEF Set, Begins
  <2>7. CASE \E a \in Address : AddDevice(t, a)
    BY <2>7, <1>k DEF AddDevice, Begins
  <2> QED
    BY <1>4, <2>1, <2>2, <2>3, <2>4, <2>5, <2>6, <2>7 DEF ThreadStep
<1>5. CASE UNCHANGED vars
  BY <1>5, <1>k DEF vars
<1> QED
  BY <1>1, <1>2, <1>3, <1>4, <1>5 DEF Next

\* The file is unreadable while a write is under way, and after one that did not
\* close it until one does (FileDatabase.cs:72-77).
THEOREM OnlyInterruptionBreaks == Spec => []BrokenByInterruption
<1>1. Init => BrokenByInterruption
  BY TablesType DEF Init, BrokenByInterruption
<1>2. DatabaseInv /\ BrokenByInterruption /\ [Next \/ Terminated]_vars => BrokenByInterruption'
  BY StepOrEnd, BrokenStep DEF DatabaseInv
<1> QED
  BY <1>1, <1>2, DatabaseCorrect, PTL DEF Spec
-----------------------------------------------------------------------------
(***************************************************************************)
(* What nothing repairs.                                                   *)
(***************************************************************************)
\* A process that died in the middle of a write has lost the tables: the next one
\* has no data, and no thread gets as far as the file.
LEMMA LostStep == TypeOK /\ ActiveInv /\ [Next]_vars => (Lost => Lost')
<1> SUFFICES ASSUME TypeOK, ActiveInv, [Next]_vars, Lost PROVE Lost'
  OBVIOUS
<1> USE DEF Lost
<1>i. \A t \in Thread : pc[t] = "idle"
  BY DEF ActiveInv
<1>1. CASE Start
  BY <1>1 DEF Start, ReadFile
<1>2. CASE Crash
  BY <1>2, Zenon DEF Crash
<1>3. CASE Finalize
  BY <1>3 DEF Finalize
<1>4. ASSUME NEW t \in Thread, ThreadStep(t) PROVE Lost'
  <2>1. DataIsNull(t)
    BY <1>4, <1>i DEF ThreadStep, Set, AddDevice, Insert, OpenFile, Serialize,
                      SerializeThrows, CloseFile, CloseThrows
  <2> QED
    BY <2>1 DEF DataIsNull, Begins
<1>5. CASE UNCHANGED vars
  BY <1>5 DEF vars
<1> QED
  BY <1>1, <1>2, <1>3, <1>4, <1>5 DEF Next

\* With a device in memory that cannot be serialized no write gets past it, and
\* without overlapping insertions the device stays in memory while the process
\* lives.
LEMMA DoomedStep ==
  TypeOK /\ ActiveInv /\ SlotInv /\ [Next]_vars => (Doomed /\ ~torn => Doomed' \/ Lost')
<1> SUFFICES ASSUME TypeOK, ActiveInv, SlotInv, [Next]_vars, Doomed, ~torn
             PROVE  Doomed' \/ Lost'
  OBVIOUS
<1>t. /\ pc \in [Thread -> {"idle", "insert", "open", "serialize", "close"}]
      /\ rest \in [Thread -> SUBSET Part] /\ data \in Tables
  BY DEF TypeOK, Doomed
<1>d. /\ file = Broken /\ data # Null /\ HasUnsavable(data)
      /\ \A u \in Thread : pc[u] # "close"
      /\ \A u \in Thread : pc[u] = "serialize" => "Device" \in rest[u]
  BY DEF Doomed, ActiveInv
<1>1. CASE Start
  BY <1>1, <1>d DEF Start, ActiveInv
<1>2. CASE Crash
  BY <1>2, <1>d, Zenon DEF Crash, Lost
<1>3. CASE Finalize
  BY <1>3, <1>d DEF Finalize, Doomed
<1>4. ASSUME NEW t \in Thread, ThreadStep(t) PROVE Doomed'
  <2>1. CASE DataIsNull(t)
    BY <2>1, <1>d DEF DataIsNull
  <2>2. ASSUME NEW s \in Setting, Set(t, s) PROVE Doomed'
    <3>1. UNCHANGED <<file, rest>> /\ pc' = [pc EXCEPT ![t] = "open"]
      BY <2>2 DEF Set, Begins, Goto
    <3>2. data' \in Tables /\ HasUnsavable(data')
      BY <2>2, <1>d, SetType DEF HasUnsavable
    <3>3. /\ \A u \in Thread : u # t => pc'[u] = pc[u] /\ rest'[u] = rest[u]
          /\ \/ pc'[t] \in {"idle", "insert", "open"}
             \/ pc'[t] = "serialize" /\ "Device" \in rest'[t]
      BY <3>1, <1>t
    <3>4. file' = Broken /\ data' \in Tables /\ HasUnsavable(data')
      BY <3>1, <3>2, <1>t, <1>d
    <3> QED
      BY <3>3, <3>4, <1>d DEF Doomed
  <2>3. ASSUME NEW a \in Address, AddDevice(t, a) PROVE Doomed'
    <3>1. UNCHANGED <<file, rest, data>> /\ pc' = [pc EXCEPT ![t] = "insert"]
      BY <2>3 DEF AddDevice, Begins, Goto
    <3>2. /\ \A u \in Thread : u # t => pc'[u] = pc[u] /\ rest'[u] = rest[u]
          /\ \/ pc'[t] \in {"idle", "insert", "open"}
             \/ pc'[t] = "serialize" /\ "Device" \in rest'[t]
      BY <3>1, <1>t
    <3>3. file' = Broken /\ data' \in Tables /\ HasUnsavable(data')
      BY <3>1, <1>t, <1>d
    <3> QED
      BY <3>2, <3>3, <1>d DEF Doomed
  <2>4. CASE Insert(t)
    <3>1. /\ UNCHANGED <<file, rest>> /\ pc[t] = "insert"
          /\ pc' = [pc EXCEPT ![t] = "open"]
      BY <2>4 DEF Insert, Goto
    <3>2. slot[t] = Len(data.devices) + 1
      BY <3>1 DEF SlotInv
    <3>3. data' = WithDevice(data, Len(data.devices) + 1, change[t]) /\ data' \in Tables
      BY <2>4, <3>2, InsertType
    <3>4. HasUnsavable(data')
      BY <2>4, <3>3, <1>d, InsertType, DeviceHeld
    <3>5. /\ \A u \in Thread : u # t => pc'[u] = pc[u] /\ rest'[u] = rest[u]
          /\ \/ pc'[t] \in {"idle", "insert", "open"}
             \/ pc'[t] = "serialize" /\ "Device" \in rest'[t]
      BY <3>1, <1>t
    <3>6. file' = Broken /\ data' \in Tables /\ HasUnsavable(data')
      BY <3>1, <3>3, <3>4, <1>t, <1>d
    <3> QED
      BY <3>5, <3>6, <1>d DEF Doomed
  <2>5. CASE OpenFile(t)
    <3>1. UNCHANGED data /\ file' = Broken
      BY <2>5, <1>d DEF OpenFile
    <3>2. \/ pc' = [pc EXCEPT ![t] = "serialize"] /\ rest' = [rest EXCEPT ![t] = Part]
          \/ pc' = [pc EXCEPT ![t] = "idle"] /\ rest' = [rest EXCEPT ![t] = {}]
      BY <2>5 DEF OpenFile, Leave, Goto
    <3>3. /\ \A u \in Thread : u # t => pc'[u] = pc[u] /\ rest'[u] = rest[u]
          /\ \/ pc'[t] \in {"idle", "insert", "open"}
             \/ pc'[t] = "serialize" /\ "Device" \in rest'[t]
      <4>1. CASE pc' = [pc EXCEPT ![t] = "idle"] /\ rest' = [rest EXCEPT ![t] = {}]
        <5>1. pc'[t] = "idle"
          BY <4>1, <1>t
        <5>2. \A u \in Thread : u # t => pc'[u] = pc[u] /\ rest'[u] = rest[u]
          BY <4>1, <1>t
        <5> QED
          BY <5>1, <5>2
      <4>2. CASE pc' = [pc EXCEPT ![t] = "serialize"] /\ rest' = [rest EXCEPT ![t] = Part]
        <5>1. rest'[t] = Part /\ pc'[t] = "serialize"
          BY <4>2, <1>t
        <5> QED
          BY <4>2, <5>1, <1>t
      <4> QED
        BY <3>2, <4>1, <4>2
    <3>4. file' = Broken /\ data' \in Tables /\ HasUnsavable(data')
      BY <3>1, <3>2, <1>t, <1>d
    <3> QED
      BY <3>3, <3>4, <1>d DEF Doomed
  <2>6. ASSUME NEW p \in Part, Serialize(t, p) PROVE Doomed'
    <3>1. /\ UNCHANGED <<data, file>> /\ pc[t] = "serialize" /\ p # "Device"
          /\ rest' = [rest EXCEPT ![t] = @ \ {p}]
          /\ pc' = [pc EXCEPT ![t] = IF rest[t] = {p} THEN "close" ELSE "serialize"]
      BY <2>6, <1>d DEF Serialize, Goto
    <3>2. "Device" \in rest[t] /\ rest[t] # {p}
      BY <3>1, <1>d
    <3>3. /\ \A u \in Thread : u # t => pc'[u] = pc[u] /\ rest'[u] = rest[u]
          /\ pc'[t] = "serialize" /\ "Device" \in rest'[t]
      BY <3>1, <3>2, <1>t
    <3>4. file' = Broken /\ data' \in Tables /\ HasUnsavable(data')
      BY <3>1, <3>2, <1>t, <1>d
    <3> QED
      BY <3>3, <3>4, <1>d DEF Doomed
  <2>7. CASE CloseFile(t) \/ CloseThrows(t)
    BY <2>7, <1>d DEF CloseFile, CloseThrows
  <2>8. CASE SerializeThrows(t)
    <3>1. UNCHANGED <<data, file>> /\ Leave(t)
      BY <2>8 DEF SerializeThrows
    <3>2. pc' = [pc EXCEPT ![t] = "idle"] /\ rest' = [rest EXCEPT ![t] = {}]
      BY <3>1 DEF Leave, Goto
    <3>3. /\ \A u \in Thread : u # t => pc'[u] = pc[u] /\ rest'[u] = rest[u]
          /\ \/ pc'[t] \in {"idle", "insert", "open"}
             \/ pc'[t] = "serialize" /\ "Device" \in rest'[t]
      BY <3>1, <3>2, <1>t
    <3>4. file' = Broken /\ data' \in Tables /\ HasUnsavable(data')
      BY <3>1, <3>2, <1>t, <1>d
    <3> QED
      BY <3>3, <3>4, <1>d DEF Doomed
  <2> QED
    BY <1>4, <2>1, <2>2, <2>3, <2>4, <2>5, <2>6, <2>7, <2>8 DEF ThreadStep
<1>5. CASE UNCHANGED vars
  BY <1>5, <1>d DEF vars, Doomed, HasUnsavable
<1> QED
  BY <1>1, <1>2, <1>3, <1>4, <1>5 DEF Next

\* A file that was unreadable when the process died stays so in every later life,
\* one that is unreadable with an unserializable device in memory until the end of
\* this life, and a missing one is never made (FileDatabase.cs:60-63, 74-75).
THEOREM DamageIsForGood == Spec => NeverRepaired
<1> DEFINE Kept == /\ file = Absent => file' = Absent
                   /\ Lost => Lost'
                   /\ Doomed /\ ~torn => Doomed' \/ Lost'
<1>1. DatabaseInv /\ [Next]_vars => (file = Absent => file' = Absent)
  <2> SUFFICES ASSUME DatabaseInv, [Next]_vars, file = Absent PROVE file' = Absent
    OBVIOUS
  <2>1. CASE Crash
    BY <2>1, Zenon DEF Crash
  <2>2. ASSUME NEW t \in Thread, ThreadStep(t) PROVE file' = Absent
    <3>1. ~CloseFile(t)
      BY DEF CloseFile, DatabaseInv, ActiveInv
    <3> QED
      BY <2>2, <3>1 DEF ThreadStep, DataIsNull, Set, AddDevice, Begins, Insert, OpenFile,
                        MustExist, Serialize, SerializeThrows, CloseThrows
  <2> QED
    BY <2>1, <2>2 DEF Next, Start, Finalize, vars
<1>2. DatabaseInv /\ [Next \/ Terminated]_vars => [Kept]_vars
  BY <1>1, StepOrEnd, LostStep, DoomedStep DEF DatabaseInv
<1> QED
  BY <1>2, DatabaseCorrect, PTL DEF Spec, NeverRepaired
=============================================================================
