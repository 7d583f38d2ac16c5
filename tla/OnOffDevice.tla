----------------------------- MODULE OnOffDevice -----------------------------
(***************************************************************************)
(* One light and the program's memory of its level:                        *)
(* Automation/Insteon/Devices/OnOffDevice.cs and DimmingLight.cs, over the  *)
(* commands of DeviceBase.cs, as InsteonAdapter.cs uses it with percentages. *)
(*                                                                         *)
(* Any thread may call the device.  SendDirectInsteonPacket admits one      *)
(* command at a time, but its lock is released before the caller writes     *)
(* onLevel and hasStatus, which nothing protects; pool threads write        *)
(* onLevel when the light broadcasts that its paddle was pressed.  The      *)
(* light itself is external.                                               *)
(***************************************************************************)
EXTENDS Integers, FiniteSets

CONSTANTS
  Thread,
  Percents,      \* percentages that callers ask for
  FastLevels,    \* levels that callers pass to setLightOnFast, SetLightOnWithRamp
  HandLevels,    \* levels at which somebody leaves the light by hand
  MaxCalls,      \* bound: calls of all threads together
  MaxPresses     \* bound: presses of the paddle

Level   == 0..255
Percent == 0..100

ASSUME InputAssumption ==
  /\ Percents \subseteq Percent
  /\ FastLevels \subseteq Level /\ HandLevels \subseteq Level
ASSUME BoundAssumption == MaxCalls \in Nat /\ MaxPresses \in Nat

\* The adapter's conversions, in integer arithmetic, and the cast to a byte.
ToLevel(p) == ((p * 255) \div 100) % 256
\* mutant: divides before it multiplies.
ToPercentTruncated(x) == (x \div 255) * 100
ToPercent(x) == (x * 100) \div 255
\* SetLightOnWithRamp sends the high half of the level, beside the ramp rate.
ToRampLevel(x) == ((x \div 16) * 16) % 256

\* A step of the light, which stays between 0 and 255, and a step of the memory.
LightStep(o, x) == CASE o = "bright" /\ x + 8 > 255 -> 255
                     [] o = "bright" /\ x + 8 <= 255 -> x + 8
                     [] o = "dim" /\ x - 8 < 0 -> 0
                     [] o = "dim" /\ x - 8 >= 0 -> x - 8
\* mutant: no limits, only the cast to a byte.
SteppedWraps(o, x) == (IF o = "bright" THEN x + 8 ELSE x - 8) % 256
\* mutant: no lower limit, in an int.
SteppedUnbounded(o, x) ==
  IF o = "bright" THEN (IF x + 8 > 255 THEN 255 ELSE x + 8) ELSE x - 8
Stepped(o, x) ==
  IF o = "bright" THEN (IF x + 8 > 255 THEN 255 ELSE x + 8)
                  ELSE (IF x - 8 < 0 THEN 0 ELSE x - 8)

\* The operations: OnLevel's setter, setLightOnFast and setLightOffFast,
\* Brighten and Dim, SetLightOnWithRamp and SetLightOffWithRamp, and OnLevel's
\* getter.
Absolute == {"set", "onFast", "offFast"}
Relative == {"bright", "dim"}
Op       == Absolute \union Relative \union {"ramp", "read"}

VARIABLES
  hasStatus, onLevel,   \* the fields of the device object
  pc, op,               \* where each thread is, in which operation
  value,                \* the level it asked for, was told or has computed
  reported,             \* the percentage that the last read gave the adapter
  posted,               \* broadcasts that pool threads have yet to handle
  light,                \* the light's real level
  late,                 \* a wait for an answer has timed out
  calls, presses,
  suspect,              \* history: the memory may be wrong, see Disturbs
  stepped,              \* history: a Brighten or Dim was answered
  past                  \* history: the levels the light has had

fields  == <<hasStatus, onLevel>>
threads == <<pc, op, value>>
history == <<suspect, stepped, past>>
vars == <<fields, threads, reported, posted, light, late, calls, presses, history>>

TypeOK ==
  /\ hasStatus \in BOOLEAN /\ onLevel \in Level
  /\ pc \in [Thread -> {"idle", "check", "send", "first", "second", "return"}]
  /\ op \in [Thread -> Op]
  /\ value \in [Thread -> Level]
  /\ reported \in Percent
  /\ posted \in SUBSET [n : Nat, cmd : {"on", "off", "step"}]
  /\ light \in Level /\ late \in BOOLEAN
  /\ calls \in Nat /\ presses \in Nat
  /\ suspect \in BOOLEAN /\ stepped \in BOOLEAN /\ past \subseteq Level

\* The constructor has run: no status yet.  The light is at any level.
Init ==
  /\ hasStatus = FALSE /\ onLevel = 0
  /\ pc = [t \in Thread |-> "idle"]
  /\ op = [t \in Thread |-> "read"]
  /\ value = [t \in Thread |-> 0]
  /\ reported = 0
  /\ posted = {}
  /\ light \in HandLevels
  /\ late = FALSE
  /\ calls = 0 /\ presses = 0
  /\ suspect = FALSE /\ stepped = FALSE
  /\ past = {light}

Goto(t, label) == pc' = [pc EXCEPT ![t] = label]
\* A call returns: its parameters are gone.
Done(t) == /\ Goto(t, "idle")
           /\ op' = [op EXCEPT ![t] = "read"]
           /\ value' = [value EXCEPT ![t] = 0]
-----------------------------------------------------------------------------
(***************************************************************************)
(* What is on its way into the fields.                                     *)
(***************************************************************************)
Storing(t) == pc[t] \in {"first", "second"}
Quiet == /\ \A t \in Thread : ~Storing(t)
         /\ \A m \in posted : m.cmd = "step"

\* The memory becomes suspect when the light moves while something is on its
\* way into the fields, when a ramp moves it, and when a read is answered in the
\* middle of a Brighten or Dim.  It can be trusted again from an answer that says
\* where the light is and is stored, with nothing else on its way.
Disturbs(t) ==
  IF op[t] = "read" THEN \E u \in Thread : Storing(u) /\ op[u] \in Relative
                    ELSE ~Quiet
SuspectAfterAnswer(t) ==
  IF Quiet /\ op[t] \notin Relative THEN FALSE ELSE suspect \/ Disturbs(t)

Moves(level) == light' = level /\ past' = past \union {level}

(***************************************************************************)
(* Calls.                                                                  *)
(***************************************************************************)
\* InsteonAdapter.UpdateDevice and any other caller.  The getter asks the light
\* only if there is no status yet.
Call(t, o, level) ==
  /\ pc[t] = "idle"
  /\ calls < MaxCalls
  /\ calls' = calls + 1
  /\ op' = [op EXCEPT ![t] = o]
  /\ value' = [value EXCEPT ![t] = level]
  /\ Goto(t, IF o = "read" THEN "check" ELSE "send")
  /\ UNCHANGED <<fields, reported, posted, light, late, presses, history>>

UpdateDevice(t) == \E p \in Percents : Call(t, "set", ToLevel(p))
CallFast(t) == \/ \E level \in FastLevels : Call(t, "onFast", level)
               \/ Call(t, "offFast", 0)
CallStep(t) == \E o \in Relative : Call(t, o, 0)
CallRamp(t) == \/ \E level \in FastLevels : Call(t, "ramp", ToRampLevel(level))
               \/ Call(t, "ramp", 0)
Read(t) == Call(t, "read", 0)

CheckStatus(t) ==
  /\ pc[t] = "check"
  /\ Goto(t, IF hasStatus THEN "return" ELSE "send")
  /\ UNCHANGED <<fields, op, value, reported, posted, light, late, calls, presses,
                 history>>

\* What the light does with the command of thread t.
Effect(t) == CASE op[t] \in Absolute \union {"ramp"} -> value[t]
               [] op[t] \in Relative -> LightStep(op[t], light)
               [] OTHER -> light

\* The light did what it was asked to do, and its Ack has come.
Answered(t) ==
  /\ pc[t] = "send" /\ op[t] # "ramp"
  /\ Moves(Effect(t))
  /\ value' = [value EXCEPT ![t] = IF op[t] = "read" THEN light ELSE @]
  /\ suspect' = SuspectAfterAnswer(t)
  /\ stepped' = (stepped \/ op[t] \in Relative)
  /\ Goto(t, "first")
  /\ UNCHANGED <<fields, op, reported, posted, late, calls, presses>>

\* The rest of a call: the getter still returns the level.
Finish(t) == IF op[t] = "read" THEN Goto(t, "return") /\ UNCHANGED <<op, value>>
                               ELSE Done(t)

\* mutant: stores whatever the answer was.
RefusalIgnored(t) ==
  /\ pc[t] = "send"
  /\ Goto(t, "first")
  /\ UNCHANGED <<fields, op, value, reported, posted, light, late, calls, presses,
                 history>>
\* A Nack, from the modem or the light.
Refused(t) ==
  /\ pc[t] = "send"
  /\ Finish(t)
  /\ UNCHANGED <<fields, reported, posted, light, late, calls, presses, history>>

\* No answer in time; the light may have done what it was asked to do.
TimesOut(t) ==
  /\ pc[t] = "send"
  /\ late' = TRUE
  /\ \/ Moves(light) /\ UNCHANGED suspect
     \/ /\ op[t] # "read"
        /\ Moves(Effect(t))
        /\ suspect' = TRUE
  /\ Finish(t)
  /\ UNCHANGED <<fields, reported, posted, calls, presses, stepped>>

\* After a wait has timed out, a call may take the Ack of an earlier command for
\* its own (FluffInsteon's TimelyReply): the light need not have moved, and the
\* level is one that it had before, or the zero in the answer to another command.
Misanswered(t) ==
  /\ pc[t] = "send" /\ op[t] # "ramp"
  /\ late
  /\ \E level \in {light, Effect(t)} : Moves(level)
  /\ IF op[t] = "read" THEN \E level \in past \union {0} : value' = [value EXCEPT ![t] = level]
                       ELSE value' = value
  /\ suspect' = TRUE
  /\ stepped' = (stepped \/ op[t] \in Relative)
  /\ Goto(t, "first")
  /\ UNCHANGED <<fields, op, reported, posted, late, calls, presses>>

\* SetLightOnWithRamp and SetLightOffWithRamp return the Ack and store nothing: the
\* memory keeps the level from before, and its flag.  The Ack may be an earlier
\* command's here too.
Ramped(t) ==
  /\ pc[t] = "send" /\ op[t] = "ramp"
  /\ \E level \in {Effect(t)} \union (IF late THEN {light} ELSE {}) : Moves(level)
  /\ suspect' = TRUE
  /\ Done(t)
  /\ UNCHANGED <<fields, reported, posted, late, calls, presses, stepped>>

\* The first statement after an Ack.  OnLevel's setter writes the level first,
\* the others the flag; Brighten and Dim read the level, if there is a status.
StoreFirst(t) ==
  /\ pc[t] = "first"
  /\ \/ /\ op[t] = "set"
        /\ onLevel' = value[t]
        /\ Goto(t, "second")
        /\ UNCHANGED <<hasStatus, op, value>>
     \/ /\ op[t] \in {"onFast", "offFast", "read"}
        /\ hasStatus' = TRUE
        /\ Goto(t, "second")
        /\ UNCHANGED <<onLevel, op, value>>
     \/ /\ op[t] \in Relative /\ hasStatus
        /\ value' = [value EXCEPT ![t] = Stepped(op[t], onLevel)]
        /\ Goto(t, "second")
        /\ UNCHANGED <<fields, op>>
     \/ /\ op[t] \in Relative /\ ~hasStatus
        /\ Done(t)
        /\ UNCHANGED fields
  /\ UNCHANGED <<reported, posted, light, late, calls, presses, history>>

StoreSecond(t) ==
  /\ pc[t] = "second"
  /\ IF op[t] = "set" THEN hasStatus' = TRUE /\ UNCHANGED onLevel
                      ELSE onLevel' = value[t] /\ UNCHANGED hasStatus
  /\ Finish(t)
  /\ UNCHANGED <<reported, posted, light, late, calls, presses, history>>

\* The getter returns the field, not the answer; the adapter turns it into a
\* percentage.
Return(t) ==
  /\ pc[t] = "return"
  /\ reported' = ToPercent(onLevel)
  /\ Done(t)
  /\ UNCHANGED <<fields, posted, light, late, calls, presses, history>>

(***************************************************************************)
(* The light changed by hand.                                              *)
(***************************************************************************)
\* A press turns the light on or off and is broadcast; the modem may miss it.
Press(cmd) ==
  /\ presses < MaxPresses
  /\ presses' = presses + 1
  /\ Moves(IF cmd = "on" THEN 255 ELSE 0)
  /\ \/ /\ posted' = posted \union {[n |-> presses + 1, cmd |-> cmd]}
        /\ suspect' = ~Quiet
     \/ posted' = posted /\ suspect' = TRUE
  /\ UNCHANGED <<fields, threads, reported, late, calls, stepped>>

\* A held paddle dims or brightens the light to any level.
Hold ==
  /\ presses < MaxPresses
  /\ presses' = presses + 1
  /\ \E level \in HandLevels : Moves(level)
  /\ posted' = posted \union {[n |-> presses + 1, cmd |-> "step"]}
  /\ suspect' = TRUE
  /\ UNCHANGED <<fields, threads, reported, late, calls, stepped>>

\* handleInsteonPacket on a pool thread, in any order.
HandleBroadcast(m) ==
  /\ m \in posted
  /\ posted' = posted \ {m}
  /\ onLevel' = CASE m.cmd = "on"  -> 255
                  [] m.cmd = "off" -> 0
                  [] OTHER         -> onLevel
  /\ UNCHANGED <<hasStatus, threads, reported, light, late, calls, presses, history>>
-----------------------------------------------------------------------------
ThreadStep(t) ==
  \/ UpdateDevice(t) \/ CallFast(t) \/ CallStep(t) \/ CallRamp(t) \/ Read(t)
  \/ CheckStatus(t) \/ Answered(t) \/ Refused(t) \/ TimesOut(t) \/ Misanswered(t)
  \/ Ramped(t) \/ StoreFirst(t) \/ StoreSecond(t) \/ Return(t)

Next ==
  \/ \E t \in Thread : ThreadStep(t)
  \/ \E cmd \in {"on", "off"} : Press(cmd)
  \/ Hold
  \/ \E m \in posted : HandleBroadcast(m)

\* Every call has been made and has returned.
Terminated ==
  /\ calls = MaxCalls /\ \A t \in Thread : pc[t] = "idle"
  /\ presses = MaxPresses /\ posted = {}
  /\ UNCHANGED vars

Spec == Init /\ [][Next \/ Terminated]_vars
-----------------------------------------------------------------------------
(***************************************************************************)
(* Properties.                                                             *)
(***************************************************************************)
\* As long as the memory is not suspect, whatever is on its way into the fields
\* is the light's level: either a single Brighten or Dim, which will find the
\* level before the step, or any number of other answers and broadcasts.
MemoryInv ==
  ~suspect =>
    /\ \A t \in Thread : pc[t] = "first" /\ op[t] \notin Relative => value[t] = light
    /\ \A t \in Thread : pc[t] = "first" /\ op[t] \in Relative /\ hasStatus
                          => Stepped(op[t], onLevel) = light
    /\ \A t \in Thread : pc[t] = "second" => value[t] = light
    /\ \A t \in Thread : pc[t] = "second" /\ op[t] = "set" => onLevel = light
    /\ \A t \in Thread : Storing(t) /\ op[t] \in Relative =>
         /\ \A u \in Thread : Storing(u) => u = t
         /\ \A m \in posted : m.cmd = "step"
    /\ \A m \in posted : m.cmd = "on" => light = 255
    /\ \A m \in posted : m.cmd = "off" => light = 0
    /\ Quiet /\ hasStatus => onLevel = light

\* Without a Brighten or Dim and without a timeout, whatever is on its way into
\* the fields is a level that the light has had.
PastInv ==
  /\ light \in past
  /\ ~late /\ ~stepped =>
       /\ \A t \in Thread : Storing(t) => op[t] \notin Relative /\ value[t] \in past
       /\ \A t \in Thread : pc[t] = "second" /\ op[t] = "set" => onLevel \in past
       /\ \A m \in posted : m.cmd = "on" => 255 \in past
       /\ \A m \in posted : m.cmd = "off" => 0 \in past
       /\ hasStatus => onLevel \in past \/ \E t \in Thread : pc[t] = "second" /\ op[t] # "set"

\* Once nothing is on its way into the fields, a level that the program has
\* status for is the light's own, whatever the threads and handlers did before,
\* unless the light moved, unheard, by a ramp (DimmingLight.cs:42-59) or while an
\* earlier answer was being stored, and no undisturbed answer that is stored has
\* come since (OnOffDevice.cs:58-221).
CacheTrue == Quiet /\ hasStatus /\ ~suspect => onLevel = light

\* However calls and broadcasts overlap, the level that the program has status
\* for is old at worst, never made up: the light has had it, unless a Brighten
\* or Dim computed it or a wait timed out.  The window between the two writes of
\* a call is exempt: setLightOnFast and the getter set the flag first
\* (OnOffDevice.cs:66-67, 151-152).
LevelWasReal ==
  /\ hasStatus /\ ~stepped /\ ~late
  /\ \A t \in Thread : pc[t] # "second"
  => onLevel \in past

\* A light that stands at a percentage that was asked for reads back as that
\* percentage or one less (InsteonAdapter.cs:121, 155), when nothing is on its
\* way into the fields.
ReadsBack ==
  [][\A t \in Thread :
       /\ pc[t] = "return" /\ pc'[t] = "idle"
       /\ Quiet /\ hasStatus /\ ~suspect
       => \A p \in Percents :
            light = ToLevel(p) => reported' \in {p - 1, p}]_vars
=============================================================================
