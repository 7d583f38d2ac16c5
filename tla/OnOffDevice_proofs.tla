-------------------------- MODULE OnOffDevice_proofs --------------------------
(***************************************************************************)
(* Proofs about OnOffDevice, for any threads, levels and bounds: when the    *)
(* remembered level is the light's own, that it is never made up, and what  *)
(* a percentage reads back as.                                             *)
(***************************************************************************)
EXTENDS OnOffDevice, TLAPS

USE InputAssumption, BoundAssumption DEF fields, threads, history

PcType == [Thread -> {"idle", "check", "send", "first", "second", "return"}]

\* Both conversions stay in range, and together they lose at most one percent.
LEMMA Conversions ==
  /\ \A p \in Percent : ToLevel(p) \in Level
  /\ \A x \in Level : ToPercent(x) \in Percent
  /\ \A p \in Percent : ToPercent(ToLevel(p)) \in {p - 1, p}
  /\ \A x \in Level : ToRampLevel(x) \in Level
<1>1. ASSUME NEW p \in Percent
      PROVE  ToLevel(p) \in Level /\ ToPercent(ToLevel(p)) \in {p - 1, p}
  <2> DEFINE q == (p * 255) \div 100
  <2>1. q \in Nat /\ q * 100 <= p * 255 /\ p * 255 < q * 100 + 100
    BY DEF Level, Percent
  <2>2. q \in 0..255
    BY <2>1 DEF Level, Percent
  <2>3. q % 256 = q
    BY <2>2
  <2>4. ToLevel(p) = q
    BY <2>3 DEF ToLevel
  <2> DEFINE r == (q * 100) \div 255
  <2>5. r \in Nat /\ r * 255 <= q * 100 /\ q * 100 < r * 255 + 255
    BY <2>2
  <2> HIDE DEF q, r
  <2>6. r = p - 1 \/ r = p
    BY <2>1, <2>2, <2>5 DEF Level, Percent
  <2>7. ToPercent(q) = r
    BY DEF ToPercent, r
  <2> QED
    BY <2>2, <2>4, <2>6, <2>7 DEF Level, Percent
<1>2. \A x \in Level : ToPercent(x) \in Percent
  BY DEF ToPercent, Level, Percent
<1>3. \A x \in Level : ToRampLevel(x) \in Level
  BY DEF ToRampLevel, Level, Percent
<1> QED
  BY <1>1, <1>2, <1>3

\* The steps of the memory are those of the light.
LEMMA Steps ==
  ASSUME NEW x \in Level, NEW o \in Relative
  PROVE  Stepped(o, x) \in Level /\ LightStep(o, x) = Stepped(o, x)
<1>1. CASE o = "bright"
  BY <1>1 DEF Stepped, LightStep, Level, Percent
<1>2. CASE o = "dim"
  BY <1>2 DEF Stepped, LightStep, Level, Percent
<1> QED
  BY <1>1, <1>2 DEF Relative
-----------------------------------------------------------------------------
(***************************************************************************)
(* Types.                                                                  *)
(***************************************************************************)
LEMMA TypeInit == Init => TypeOK
<1> SUFFICES ASSUME Init PROVE TypeOK
  OBVIOUS
<1>1. hasStatus \in BOOLEAN /\ late \in BOOLEAN /\ suspect \in BOOLEAN /\ stepped \in BOOLEAN
  BY Zenon DEF Init
<1>2. /\ onLevel = 0 /\ reported = 0 /\ posted = {} /\ calls = 0 /\ presses = 0
      /\ light \in HandLevels /\ past = {light}
      /\ pc = [t \in Thread |-> "idle"] /\ op = [t \in Thread |-> "read"]
      /\ value = [t \in Thread |-> 0]
  BY DEF Init
<1> QED
  BY <1>1, <1>2 DEF TypeOK, Op, Level, Percent

\* A call that returns leaves its thread idle, without parameters.
LEMMA DoneType ==
  ASSUME TypeOK, NEW t \in Thread, Done(t)
  PROVE  /\ pc' \in PcType /\ op' \in [Thread -> Op] /\ value' \in [Thread -> Level]
         /\ pc' = [pc EXCEPT ![t] = "idle"]
         /\ op' = [op EXCEPT ![t] = "read"]
         /\ value' = [value EXCEPT ![t] = 0]
  BY DEF TypeOK, Done, Goto, Op, PcType, Level, Percent

\* The end of a command leaves the other threads as they were.
LEMMA FinishType ==
  ASSUME TypeOK, NEW t \in Thread, Finish(t)
  PROVE  /\ pc' \in PcType /\ op' \in [Thread -> Op] /\ value' \in [Thread -> Level]
         /\ pc'[t] \in {"idle", "return"}
         /\ \A u \in Thread : u # t => /\ pc'[u] = pc[u] /\ op'[u] = op[u]
                                       /\ value'[u] = value[u]
<1>1. CASE op[t] = "read"
  BY <1>1 DEF TypeOK, Finish, Goto, PcType
<1>2. CASE op[t] # "read"
  BY <1>2, DoneType DEF TypeOK, Finish, PcType
<1> QED
  BY <1>1, <1>2

\* What a command does to the light is a level.
LEMMA EffectType ==
  ASSUME TypeOK, NEW t \in Thread
  PROVE  /\ Effect(t) \in Level
         /\ op[t] \in Absolute \union {"ramp"} => Effect(t) = value[t]
         /\ op[t] \in Relative => Effect(t) = Stepped(op[t], light)
         /\ op[t] = "read" => Effect(t) = light
<1>1. op[t] \in Op /\ value[t] \in Level /\ light \in Level
  BY DEF TypeOK
<1>2. CASE op[t] \in Absolute \union {"ramp"}
  BY <1>1, <1>2 DEF Effect, Absolute, Relative
<1>3. CASE op[t] \in Relative
  <2>1. op[t] \notin Absolute \union {"ramp"} /\ op[t] # "read"
    BY <1>3 DEF Absolute, Relative
  <2>2. Effect(t) = LightStep(op[t], light)
    BY <1>3, <2>1 DEF Effect
  <2>3. LightStep(op[t], light) = Stepped(op[t], light) /\ Stepped(op[t], light) \in Level
    BY <1>1, <1>3, Steps
  <2> QED
    BY <2>1, <2>2, <2>3
<1>4. CASE op[t] = "read"
  BY <1>1, <1>4 DEF Effect, Absolute, Relative
<1> QED
  BY <1>1, <1>2, <1>3, <1>4 DEF Op

\* A light that moves has had its new level.
LEMMA MovesType ==
  ASSUME TypeOK, NEW level \in Level, Moves(level)
  PROVE  /\ light' = level /\ light' \in Level /\ past' \subseteq Level
         /\ past \subseteq past' /\ light' \in past'
  BY DEF Moves, TypeOK

\* A ramp moves the light like any other command (DimmingLight.cs:42-59).
LEMMA RampMoves ==
  ASSUME TypeOK, NEW t \in Thread, Ramped(t)
  PROVE  light' \in Level /\ past' \subseteq Level /\ past \subseteq past' /\ light' \in past'
<1>1. PICK level \in {Effect(t)} \union (IF late THEN {light} ELSE {}) : Moves(level)
  BY DEF Ramped
<1>2. level \in Level
  BY EffectType DEF TypeOK
<1> QED
  BY <1>1, <1>2, MovesType

\* A call that begins changes its own thread alone, which stores nothing yet.
LEMMA CallType ==
  ASSUME TypeOK, NEW t \in Thread, NEW o \in Op, NEW level \in Level, Call(t, o, level)
  PROVE  /\ TypeOK'
         /\ pc[t] = "idle" /\ pc'[t] \in {"check", "send"}
         /\ \A u \in Thread : u # t => /\ pc'[u] = pc[u] /\ op'[u] = op[u]
                                       /\ value'[u] = value[u]
         /\ UNCHANGED <<fields, reported, posted, light, late, history>>
<1>1. /\ UNCHANGED <<fields, reported, posted, light, late, presses, history>>
      /\ pc[t] = "idle" /\ calls' = calls + 1
      /\ op' = [op EXCEPT ![t] = o] /\ value' = [value EXCEPT ![t] = level]
  BY DEF Call
<1>2. pc' \in PcType /\ pc'[t] \in {"check", "send"} /\ \A u \in Thread : u # t => pc'[u] = pc[u]
  BY DEF Call, Goto, TypeOK, PcType
<1>3. op' \in [Thread -> Op] /\ value' \in [Thread -> Level] /\ calls' \in Nat
  BY <1>1 DEF TypeOK
<1>4. TypeOK'
  BY <1>1, <1>2, <1>3 DEF TypeOK, PcType
<1>5. \A u \in Thread : u # t => op'[u] = op[u] /\ value'[u] = value[u]
  BY <1>1 DEF TypeOK
<1> QED
  BY <1>1, <1>2, <1>4, <1>5

\* A call of any of the operations is a Call with arguments of their types.
LEMMA Calls ==
  ASSUME TypeOK, NEW t \in Thread,
         UpdateDevice(t) \/ CallFast(t) \/ CallStep(t) \/ CallRamp(t) \/ Read(t)
  PROVE  \E o \in Op, level \in Level : Call(t, o, level)
<1>1. CASE UpdateDevice(t)
  BY <1>1, Conversions, Zenon DEF UpdateDevice, Op, Absolute
<1>2. CASE CallFast(t)
  BY <1>2 DEF CallFast, Op, Absolute, Level, Percent
<1>3. CASE CallStep(t)
  BY <1>3 DEF CallStep, Op, Level, Percent
<1>4. CASE CallRamp(t)
  <2>1. PICK level \in Level : Call(t, "ramp", level)
    <3>1. CASE Call(t, "ramp", 0)
      BY <3>1 DEF Level, Percent
    <3>2. CASE \E level \in FastLevels : Call(t, "ramp", ToRampLevel(level))
      <4>1. PICK level \in FastLevels : Call(t, "ramp", ToRampLevel(level))
        BY <3>2
      <4>2. ToRampLevel(level) \in Level
        BY Conversions
      <4> QED
        BY <4>1, <4>2
    <3> QED
      BY <1>4, <3>1, <3>2 DEF CallRamp
  <2> QED
    BY <2>1 DEF Op
<1>5. CASE Read(t)
  BY <1>5 DEF Read, Op, Level, Percent
<1> QED
  BY <1>1, <1>2, <1>3, <1>4, <1>5

\* Each step keeps the types.
LEMMA TypeStep == TypeOK /\ [Next]_vars => TypeOK'
<1> SUFFICES ASSUME TypeOK, [Next]_vars PROVE TypeOK'
  OBVIOUS
<1>1. ASSUME NEW t \in Thread, ThreadStep(t) PROVE TypeOK'
  <2>1. CASE UpdateDevice(t) \/ CallFast(t) \/ CallStep(t) \/ CallRamp(t) \/ Read(t)
    BY <2>1, Calls, CallType
  <2>2. CASE CheckStatus(t)
    BY <2>2 DEF TypeOK, CheckStatus, Goto
  <2>3. CASE Answered(t)
    <3>1. value' \in [Thread -> Level] /\ light' \in Level /\ past' \subseteq Level
      <4>1. light' \in Level /\ past' \subseteq Level
        <5>1. Effect(t) \in Level
          BY EffectType
        <5>2. Moves(Effect(t))
          BY <2>3 DEF Answered
        <5> QED
          BY <5>1, <5>2, MovesType
      <4> QED
        BY <2>3, <4>1 DEF TypeOK, Answered
    <3>2. suspect' \in BOOLEAN
      BY <2>3, Zenon DEF Answered, SuspectAfterAnswer, TypeOK
    <3>3. stepped' \in BOOLEAN
      BY <2>3, Zenon DEF Answered, TypeOK
    <3> QED
      BY <2>3, <3>1, <3>2, <3>3 DEF TypeOK, Answered, Goto
  <2>4. CASE Refused(t)
    BY <2>4, FinishType DEF TypeOK, Refused, PcType
  <2>5. CASE TimesOut(t)
    <3>1. light' \in Level /\ past' \subseteq Level /\ suspect' \in BOOLEAN /\ late' \in BOOLEAN
      <4>1. late' \in BOOLEAN
        BY <2>5 DEF TimesOut
      <4>2. CASE Moves(light) /\ UNCHANGED suspect
        BY <4>1, <4>2, MovesType, Zenon DEF TypeOK
      <4>3. CASE Moves(Effect(t)) /\ suspect' = TRUE
        <5>1. Effect(t) \in Level
          BY EffectType
        <5> QED
          BY <4>1, <4>3, <5>1, MovesType
      <4> QED
        BY <2>5, <4>2, <4>3 DEF TimesOut
    <3> QED
      BY <2>5, <3>1, FinishType DEF TypeOK, TimesOut, PcType
  <2>6. CASE Misanswered(t)
    <3>1. light' \in Level /\ past' \subseteq Level /\ suspect' \in BOOLEAN
      <4>1. PICK level \in {light, Effect(t)} : Moves(level)
        BY <2>6 DEF Misanswered
      <4>2. level \in Level
        BY EffectType DEF TypeOK
      <4> QED
        <5>1. light' \in Level /\ past' \subseteq Level
          BY <4>1, <4>2, MovesType
        <5> QED
          BY <2>6, <5>1 DEF Misanswered
    <3>2. value' \in [Thread -> Level]
      <4>1. past \union {0} \subseteq Level
        BY DEF TypeOK, Level, Percent
      <4> QED
        BY <2>6, <4>1 DEF TypeOK, Misanswered
    <3>3. stepped' \in BOOLEAN
      BY <2>6, Zenon DEF Misanswered, TypeOK
    <3> QED
      BY <2>6, <3>1, <3>2, <3>3 DEF TypeOK, Misanswered, Goto
  <2>7. CASE StoreFirst(t)
    <3>1. op[t] \in Relative => Stepped(op[t], onLevel) \in Level
      <4>1. onLevel \in Level
        BY DEF TypeOK
      <4> QED
        BY <4>1, Steps
    <3>2. value' \in [Thread -> Level] /\ op' \in [Thread -> Op]
      BY <2>7, <3>1, DoneType DEF TypeOK, StoreFirst
    <3>5. onLevel' \in Level
      BY <2>7 DEF TypeOK, StoreFirst
    <3>3. hasStatus' \in BOOLEAN
      BY <2>7 DEF StoreFirst, TypeOK
    <3>4. pc' \in PcType
      BY <2>7, DoneType DEF TypeOK, StoreFirst, Goto, PcType
    <3> QED
      BY <2>7, <3>2, <3>3, <3>4, <3>5 DEF TypeOK, StoreFirst, PcType
  <2>8. CASE StoreSecond(t)
    <3>1. onLevel' \in Level
      BY <2>8 DEF TypeOK, StoreSecond
    <3>2. hasStatus' \in BOOLEAN
      BY <2>8 DEF TypeOK, StoreSecond
    <3> QED
      BY <2>8, <3>1, <3>2, FinishType DEF TypeOK, StoreSecond, PcType
  <2>9. CASE Return(t)
    <3>1. reported' \in Percent
      BY <2>9, Conversions, Zenon DEF TypeOK, Return
    <3> QED
      BY <2>9, <3>1, DoneType DEF TypeOK, Return, PcType
  <2>10. CASE Ramped(t)
    <3>1. light' \in Level /\ past' \subseteq Level
      BY <2>10, RampMoves
    <3> QED
      BY <2>10, <3>1, DoneType DEF TypeOK, Ramped, PcType
  <2> QED
    BY <1>1, <2>1, <2>2, <2>3, <2>4, <2>5, <2>6, <2>7, <2>8, <2>9, <2>10 DEF ThreadStep
<1>2. ASSUME NEW cmd \in {"on", "off"}, Press(cmd) PROVE TypeOK'
  <2>1. light' \in Level /\ past' \subseteq Level /\ presses' \in Nat
    BY <1>2 DEF TypeOK, Press, Moves, Level, Percent
  <2>2. posted' \in SUBSET [n : Nat, cmd : {"on", "off", "step"}]
    BY <1>2 DEF TypeOK, Press
  <2>3. suspect' \in BOOLEAN
    BY <1>2, Zenon DEF Press
  <2>4. UNCHANGED <<fields, threads, reported, late, calls, stepped>>
    BY <1>2 DEF Press
  <2> QED
    BY <2>1, <2>2, <2>3, <2>4 DEF TypeOK
<1>3. CASE Hold
  <2>1. light' \in Level /\ past' \subseteq Level /\ presses' \in Nat /\ suspect' \in BOOLEAN
    BY <1>3 DEF TypeOK, Hold, Moves
  <2>2. posted' \in SUBSET [n : Nat, cmd : {"on", "off", "step"}]
    BY <1>3 DEF TypeOK, Hold
  <2> QED
    BY <1>3, <2>1, <2>2 DEF TypeOK, Hold
<1>4. ASSUME NEW m \in posted, HandleBroadcast(m) PROVE TypeOK'
  <2>1. onLevel' \in Level
    <3>1. m.cmd \in {"on", "off", "step"}
      BY DEF TypeOK
    <3> QED
      BY <1>4, <3>1 DEF TypeOK, HandleBroadcast, Level, Percent
  <2> QED
    BY <1>4, <2>1 DEF TypeOK, HandleBroadcast
<1>5. CASE UNCHANGED vars
  BY <1>5 DEF TypeOK, vars
<1> QED
  BY <1>1, <1>2, <1>3, <1>4, <1>5 DEF Next
-----------------------------------------------------------------------------
(***************************************************************************)
(* The memory.                                                             *)
(***************************************************************************)
\* A step that leaves the fields, the light and whatever is on its way alone.
LEMMA MemoryKept ==
  ASSUME MemoryInv, UNCHANGED <<hasStatus, onLevel, light, posted>>, suspect' \/ suspect' = suspect,
         \A t \in Thread : /\ Storing(t)' <=> Storing(t)
                           /\ Storing(t) => /\ pc'[t] = pc[t] /\ op'[t] = op[t]
                                            /\ value'[t] = value[t]
  PROVE  MemoryInv'
<1> SUFFICES ASSUME ~suspect' PROVE MemoryInv'
  BY DEF MemoryInv
<1>1. ~suspect
  OBVIOUS
<1>2. \A t \in Thread : pc[t] \in {"first", "second"} \/ pc'[t] \in {"first", "second"}
                         => pc'[t] = pc[t] /\ op'[t] = op[t] /\ value'[t] = value[t]
  BY DEF Storing
<1>3. Quiet' <=> Quiet
  BY DEF Quiet, Storing
<1> QED
  BY <1>1, <1>2, <1>3 DEF MemoryInv, Storing

\* An undisturbed answer puts the light's level on its way into the fields.
LEMMA MemoryAnswered ==
  ASSUME TypeOK, MemoryInv, NEW t \in Thread, Answered(t)
  PROVE  MemoryInv'
<1> SUFFICES ASSUME ~suspect' PROVE MemoryInv'
  BY DEF MemoryInv
<1>1. /\ pc[t] = "send" /\ pc' = [pc EXCEPT ![t] = "first"]
      /\ light' = Effect(t) /\ UNCHANGED <<fields, op, posted>>
      /\ value' = [value EXCEPT ![t] = IF op[t] = "read" THEN light ELSE @]
  BY DEF Answered, Moves, Goto
<1>2. /\ pc'[t] = "first" /\ \A u \in Thread : u # t => pc'[u] = pc[u] /\ value'[u] = value[u]
      /\ value'[t] = IF op[t] = "read" THEN light ELSE value[t]
      /\ op[t] \in Op
  BY <1>1 DEF TypeOK
<1>3. ~SuspectAfterAnswer(t)
  BY Zenon DEF Answered
<1>4. op[t] \notin Relative => value'[t] = light'
  BY <1>1, <1>2, EffectType DEF Op, Absolute
<1>5. CASE Quiet /\ op[t] \notin Relative
  <2>1. \A u \in Thread : ~Storing(u)
    BY <1>5 DEF Quiet
  <2>2. \A u \in Thread : pc'[u] = "first" \/ pc'[u] = "second" => u = t
    BY <1>2, <2>1 DEF Storing
  <2>3. \A m \in posted : m.cmd = "step"
    BY <1>5 DEF Quiet
  <2>4. ~Quiet'
    BY <1>2 DEF Quiet, Storing
  <2> QED
    BY <1>1, <1>2, <1>4, <1>5, <2>2, <2>3, <2>4 DEF MemoryInv, Storing
<1>6. CASE ~(Quiet /\ op[t] \notin Relative)
  <2>1. ~suspect /\ ~Disturbs(t)
    BY <1>3, <1>6 DEF SuspectAfterAnswer
  <2>2. CASE op[t] = "read"
    <3>1. \A u \in Thread : Storing(u) => op[u] \notin Relative
      BY <2>1, <2>2 DEF Disturbs
    <3>2. light' = light /\ op[t] \notin Relative
      BY <1>1, <2>2, EffectType DEF Relative
    <3>3. \A u \in Thread : Storing(u)' => u = t \/ Storing(u)
      BY <1>2 DEF Storing
    <3>4. ~Quiet'
      BY <1>2 DEF Quiet, Storing
    <3> QED
      BY <1>1, <1>2, <1>4, <2>1, <3>1, <3>2, <3>3, <3>4 DEF MemoryInv, Storing
  <2>3. CASE op[t] # "read"
    <3>1. Quiet /\ op[t] \in Relative
      BY <1>6, <2>1, <2>3 DEF Disturbs
    <3>2. \A u \in Thread : Storing(u)' => u = t
      BY <1>2, <3>1 DEF Storing, Quiet
    <3>3. \A m \in posted : m.cmd = "step"
      BY <3>1 DEF Quiet
    <3>4. hasStatus => Stepped(op[t], onLevel) = light'
      <4>1. hasStatus => onLevel = light
        BY <2>1, <3>1 DEF MemoryInv
      <4> QED
        BY <1>1, <3>1, <4>1, EffectType
    <3>5. ~Quiet'
      BY <1>2 DEF Quiet, Storing
    <3> QED
      BY <1>1, <1>2, <3>1, <3>2, <3>3, <3>4, <3>5 DEF MemoryInv, Storing
  <2> QED
    BY <2>2, <2>3
<1> QED
  BY <1>5, <1>6

\* The two writes of a call store the light's level, if nothing was suspect.
LEMMA MemoryFirst ==
  ASSUME TypeOK, MemoryInv, NEW t \in Thread, StoreFirst(t)
  PROVE  MemoryInv'
<1> SUFFICES ASSUME ~suspect' PROVE MemoryInv'
  BY DEF MemoryInv
<1>1. UNCHANGED <<posted, light, suspect>> /\ ~suspect /\ pc[t] = "first"
  BY DEF StoreFirst
<1>2. pc \in PcType /\ op \in [Thread -> Op] /\ value \in [Thread -> Level]
  BY DEF TypeOK, PcType
<1>3. \A u \in Thread : u # t => pc'[u] = pc[u] /\ op'[u] = op[u] /\ value'[u] = value[u]
  BY <1>2, DoneType DEF StoreFirst, Goto, PcType
<1>4. CASE op[t] \notin Relative
  <2>1. \A u \in Thread : Storing(u) => op[u] \notin Relative
    BY <1>1, <1>4 DEF MemoryInv, Storing
  <2>2. value[t] = light
    BY <1>1, <1>4 DEF MemoryInv
  <2>3. pc'[t] = "second" /\ op'[t] = op[t] /\ value'[t] = value[t]
    BY <1>2, <1>4 DEF StoreFirst, Goto, PcType
  <2>4. CASE op[t] = "set"
    <3>1. onLevel' = value[t] /\ UNCHANGED hasStatus
      BY <2>4 DEF StoreFirst, Relative
    <3> QED
      BY <1>1, <1>3, <1>4, <2>1, <2>2, <2>3, <3>1 DEF MemoryInv, Storing, Quiet
  <2>5. CASE op[t] # "set"
    <3>1. UNCHANGED onLevel
      BY <1>4, <2>5 DEF StoreFirst
    <3>2. ~Quiet'
      BY <2>3 DEF Quiet, Storing
    <3> QED
      BY <1>1, <1>3, <1>4, <2>1, <2>2, <2>3, <2>5, <3>1, <3>2 DEF MemoryInv, Storing
  <2> QED
    BY <2>4, <2>5
<1>5. CASE op[t] \in Relative
  <2>1. /\ \A u \in Thread : Storing(u) => u = t
        /\ \A m \in posted : m.cmd = "step"
    BY <1>1, <1>5 DEF MemoryInv, Storing
  <2>2. UNCHANGED fields
    BY <1>5 DEF StoreFirst, Relative
  <2>3. CASE hasStatus
    <3>1. /\ pc' = [pc EXCEPT ![t] = "second"] /\ UNCHANGED op
          /\ value' = [value EXCEPT ![t] = Stepped(op[t], onLevel)]
      BY <1>5, <2>3 DEF StoreFirst, Goto, Relative
    <3>2. pc'[t] = "second" /\ op'[t] = op[t] /\ value'[t] = light
      BY <1>1, <1>2, <1>5, <2>3, <3>1 DEF MemoryInv, PcType
    <3>3. ~Quiet' /\ op[t] # "set"
      BY <1>5, <3>2 DEF Quiet, Storing, Relative
    <3> QED
      BY <1>1, <1>3, <1>5, <2>1, <2>2, <3>2, <3>3 DEF MemoryInv, Storing
  <2>4. CASE ~hasStatus
    <3>1. Done(t)
      BY <1>5, <2>4 DEF StoreFirst, Relative
    <3>2. pc'[t] = "idle"
      BY <1>2, <3>1, DoneType DEF PcType
    <3>3. \A u \in Thread : pc'[u] # "first" /\ pc'[u] # "second"
      BY <1>3, <2>1, <3>2 DEF Storing
    <3> QED
      BY <1>1, <2>1, <2>2, <2>4, <3>3 DEF MemoryInv, Storing
  <2> QED
    BY <2>3, <2>4
<1> QED
  BY <1>4, <1>5

\* The second write of a call stores the level of the light.
LEMMA MemorySecond ==
  ASSUME TypeOK, MemoryInv, NEW t \in Thread, StoreSecond(t)
  PROVE  MemoryInv'
<1> SUFFICES ASSUME ~suspect' PROVE MemoryInv'
  BY DEF MemoryInv
<1>1. /\ UNCHANGED <<posted, light, suspect>> /\ ~suspect
      /\ pc[t] = "second" /\ Finish(t)
  BY DEF StoreSecond
<1>2. /\ pc'[t] # "first" /\ pc'[t] # "second"
      /\ \A u \in Thread : u # t => pc'[u] = pc[u] /\ op'[u] = op[u] /\ value'[u] = value[u]
  BY <1>1, FinishType
<1>3. value[t] = light /\ (op[t] = "set" => onLevel = light)
  BY <1>1 DEF MemoryInv
<1>4. onLevel' = light
  BY <1>3 DEF StoreSecond
<1>5. \A u \in Thread : Storing(u)' => u # t /\ Storing(u) /\ op'[u] \notin Relative
  BY <1>1, <1>2 DEF MemoryInv, Storing
<1>6. \A u \in Thread : pc'[u] = "first" \/ pc'[u] = "second"
                         => u # t /\ op'[u] \notin Relative /\ pc'[u] = pc[u]
                            /\ op'[u] = op[u] /\ value'[u] = value[u]
  BY <1>2, <1>5 DEF Storing
<1> QED
  BY <1>1, <1>4, <1>5, <1>6 DEF MemoryInv

\* A press with nothing on its way, and its broadcast, keep the memory true.
LEMMA MemoryPress ==
  ASSUME TypeOK, MemoryInv, NEW cmd \in {"on", "off"}, Press(cmd)
  PROVE  MemoryInv'
<1> SUFFICES ASSUME ~suspect' PROVE MemoryInv'
  BY DEF MemoryInv
<1>1. /\ Quiet /\ posted' = posted \union {[n |-> presses + 1, cmd |-> cmd]}
      /\ light' = (IF cmd = "on" THEN 255 ELSE 0) /\ UNCHANGED <<pc, hasStatus>>
  BY DEF Press, Moves
<1>2. \A u \in Thread : pc'[u] # "first" /\ pc'[u] # "second"
  BY <1>1 DEF Quiet, Storing
<1>3. \A m \in posted' : m.cmd = "step" \/ m.cmd = cmd
  BY <1>1 DEF Quiet
<1>4. ~Quiet'
  <2>1. [n |-> presses + 1, cmd |-> cmd] \in posted'
    BY <1>1
  <2>2. [n |-> presses + 1, cmd |-> cmd].cmd # "step"
    OBVIOUS
  <2> QED
    BY <2>1, <2>2 DEF Quiet
<1> QED
  BY <1>1, <1>2, <1>3, <1>4 DEF MemoryInv, Storing

\* A broadcast that a handler stores agrees with the light (OnOffDevice.cs:197-221).
LEMMA MemoryBroadcast ==
  ASSUME TypeOK, MemoryInv, NEW m \in posted, HandleBroadcast(m)
  PROVE  MemoryInv'
<1> SUFFICES ASSUME ~suspect' PROVE MemoryInv'
  BY DEF MemoryInv
<1>1. /\ UNCHANGED <<hasStatus, pc, op, value, light, suspect>> /\ ~suspect
      /\ posted' = posted \ {m} /\ m.cmd \in {"on", "off", "step"}
  BY DEF HandleBroadcast, TypeOK
<1>2. CASE m.cmd = "step"
  <2>1. UNCHANGED onLevel
    BY <1>2 DEF HandleBroadcast
  <2>2. Quiet' => Quiet
    BY <1>1, <1>2 DEF Quiet, Storing
  <2> QED
    BY <1>1, <2>1, <2>2 DEF MemoryInv, Storing
<1>3. CASE m.cmd # "step"
  <2>1. onLevel' = light
    <3>1. CASE m.cmd = "on"
      BY <1>1, <3>1 DEF HandleBroadcast, MemoryInv
    <3>2. CASE m.cmd = "off"
      BY <1>1, <3>2 DEF HandleBroadcast, MemoryInv
    <3> QED
      BY <1>1, <1>3, <3>1, <3>2
  <2>2. \A u \in Thread : Storing(u) => op[u] \notin Relative
    BY <1>1, <1>3 DEF MemoryInv
  <2> QED
    BY <1>1, <2>1, <2>2 DEF MemoryInv, Storing
<1> QED
  BY <1>2, <1>3

\* Without status nothing is claimed of the memory.
LEMMA MemoryInit == Init => MemoryInv
  BY DEF Init, MemoryInv, Storing

\* Each step keeps what is on its way into the fields the level of the light, as
\* long as the memory is not suspect.
LEMMA MemoryStep == TypeOK /\ MemoryInv /\ [Next]_vars => MemoryInv'
<1> SUFFICES ASSUME TypeOK, MemoryInv, [Next]_vars PROVE MemoryInv'
  OBVIOUS
<1>s. ASSUME suspect' = TRUE PROVE MemoryInv'
  BY <1>s DEF MemoryInv
<1>t. pc \in PcType
  BY DEF TypeOK, PcType
<1>1. ASSUME NEW t \in Thread, ThreadStep(t) PROVE MemoryInv'
  <2>1. CASE UpdateDevice(t) \/ CallFast(t) \/ CallStep(t) \/ CallRamp(t) \/ Read(t)
    <3>1. PICK o \in Op, level \in Level : Call(t, o, level)
      BY <2>1, Calls
    <3> QED
      BY <3>1, CallType, MemoryKept DEF Storing
  <2>2. CASE CheckStatus(t)
    BY <2>2, <1>t, MemoryKept DEF CheckStatus, Goto, Storing, PcType
  <2>3. CASE Answered(t)
    BY <2>3, MemoryAnswered
  <2>4. CASE Refused(t)
    BY <2>4, FinishType, MemoryKept DEF Refused, Storing
  <2>5. CASE TimesOut(t)
    <3>1. CASE Moves(light) /\ UNCHANGED suspect
      BY <2>5, <3>1, FinishType, MemoryKept DEF TimesOut, Moves, Storing
    <3>2. CASE suspect' = TRUE
      BY <3>2, <1>s
    <3> QED
      BY <2>5, <3>1, <3>2 DEF TimesOut
  <2>6. CASE Misanswered(t)
    BY <2>6, <1>s DEF Misanswered
  <2>7. CASE StoreFirst(t)
    BY <2>7, MemoryFirst
  <2>8. CASE StoreSecond(t)
    BY <2>8, MemorySecond
  <2>9. CASE Return(t)
    <3>1. Done(t) /\ pc[t] = "return" /\ UNCHANGED <<fields, posted, light, history>>
      BY <2>9 DEF Return
    <3>2. \A u \in Thread : u # t => pc'[u] = pc[u] /\ op'[u] = op[u] /\ value'[u] = value[u]
      BY <3>1, DoneType DEF TypeOK
    <3>3. pc'[t] = "idle"
      BY <3>1, <1>t, DoneType DEF PcType
    <3> QED
      BY <3>1, <3>2, <3>3, MemoryKept DEF Storing
  <2>10. CASE Ramped(t)
    BY <2>10, <1>s DEF Ramped
  <2> QED
    BY <1>1, <2>1, <2>2, <2>3, <2>4, <2>5, <2>6, <2>7, <2>8, <2>9, <2>10 DEF ThreadStep
<1>2. ASSUME NEW cmd \in {"on", "off"}, Press(cmd) PROVE MemoryInv'
  BY <1>2, MemoryPress
<1>3. CASE Hold
  BY <1>3, <1>s DEF Hold
<1>4. ASSUME NEW m \in posted, HandleBroadcast(m) PROVE MemoryInv'
  BY <1>4, MemoryBroadcast
<1>5. CASE UNCHANGED vars
  BY <1>5, MemoryKept DEF vars, Storing
<1> QED
  BY <1>1, <1>2, <1>3, <1>4, <1>5 DEF Next
-----------------------------------------------------------------------------
(***************************************************************************)
(* The levels the light has had.                                           *)
(***************************************************************************)
LEMMA PastInit == Init => PastInv
  BY DEF Init, PastInv, Storing

\* A step that puts nothing new on its way, whatever becomes of the light.
LEMMA PastKept ==
  ASSUME PastInv, light' \in past', past \subseteq past',
         late' \/ stepped' \/ (late' = late /\ stepped' = stepped),
         late' \/ stepped' \/ (/\ UNCHANGED <<hasStatus, onLevel, posted>>
                              /\ \A t \in Thread :
                                   /\ Storing(t)' <=> Storing(t)
                                   /\ Storing(t) => /\ pc'[t] = pc[t] /\ op'[t] = op[t]
                                                    /\ value'[t] = value[t])
  PROVE  PastInv'
<1> SUFFICES ASSUME ~late', ~stepped' PROVE PastInv'
  BY DEF PastInv
<1>1. ~late /\ ~stepped /\ UNCHANGED <<hasStatus, onLevel, posted>>
  OBVIOUS
<1>2. \A t \in Thread : pc[t] \in {"first", "second"} \/ pc'[t] \in {"first", "second"}
                         => pc'[t] = pc[t] /\ op'[t] = op[t] /\ value'[t] = value[t]
  BY DEF Storing
<1> QED
  BY <1>1, <1>2 DEF PastInv, Storing

\* An answer carries a level that the light has had.
LEMMA PastAnswered ==
  ASSUME TypeOK, PastInv, NEW t \in Thread, Answered(t)
  PROVE  PastInv'
<1>1. /\ pc[t] = "send" /\ pc' = [pc EXCEPT ![t] = "first"]
      /\ light' = Effect(t) /\ UNCHANGED <<fields, op, posted, late>>
      /\ value' = [value EXCEPT ![t] = IF op[t] = "read" THEN light ELSE @]
  BY DEF Answered, Moves, Goto
<1>2. /\ pc'[t] = "first" /\ \A u \in Thread : u # t => pc'[u] = pc[u] /\ value'[u] = value[u]
      /\ value'[t] = IF op[t] = "read" THEN light ELSE value[t]
      /\ op[t] \in Op
  BY <1>1 DEF TypeOK
<1>3. light' \in past' /\ past \subseteq past'
  BY EffectType, MovesType DEF Answered
<1> SUFFICES ASSUME ~late', ~stepped' PROVE PastInv'
  BY <1>3 DEF PastInv
<1>4. ~late /\ ~stepped /\ op[t] \notin Relative
  <2>1. stepped' = (stepped \/ op[t] \in Relative) /\ late' = late
    BY Zenon DEF Answered
  <2> QED
    BY <2>1
<1>5. value'[t] \in past'
  BY <1>1, <1>2, <1>3, <1>4, EffectType DEF Op, Absolute
<1> QED
  BY <1>1, <1>2, <1>3, <1>4, <1>5 DEF PastInv, Storing

\* The first write of a call stores a level that the light has had.
LEMMA PastFirst ==
  ASSUME TypeOK, PastInv, NEW t \in Thread, StoreFirst(t)
  PROVE  PastInv'
<1>1. UNCHANGED <<posted, light, late, stepped, past>> /\ pc[t] = "first"
  BY DEF StoreFirst
<1> SUFFICES ASSUME ~late', ~stepped' PROVE PastInv'
  BY <1>1 DEF PastInv
<1>2. ~late /\ ~stepped /\ op[t] \notin Relative /\ value[t] \in past
  BY <1>1 DEF PastInv, Storing
<1>3. pc \in PcType
  BY DEF TypeOK, PcType
<1>4. /\ pc'[t] = "second" /\ UNCHANGED <<op, value>>
      /\ \A u \in Thread : u # t => pc'[u] = pc[u]
  BY <1>2, <1>3 DEF StoreFirst, Goto, PcType
<1>5. CASE op[t] = "set"
  <2>1. onLevel' = value[t] /\ UNCHANGED hasStatus
    BY <1>5 DEF StoreFirst, Relative
  <2> QED
    BY <1>1, <1>2, <1>4, <2>1 DEF PastInv, Storing
<1>6. CASE op[t] # "set"
  <2>1. UNCHANGED onLevel
    BY <1>2, <1>6 DEF StoreFirst
  <2> QED
    BY <1>1, <1>2, <1>4, <1>6, <2>1 DEF PastInv, Storing
<1> QED
  BY <1>5, <1>6

\* So does the second one.
LEMMA PastSecond ==
  ASSUME TypeOK, PastInv, NEW t \in Thread, StoreSecond(t)
  PROVE  PastInv'
<1>1. /\ UNCHANGED <<posted, light, late, stepped, past>>
      /\ pc[t] = "second" /\ Finish(t)
  BY DEF StoreSecond
<1> SUFFICES ASSUME ~late', ~stepped' PROVE PastInv'
  BY <1>1 DEF PastInv
<1>2. /\ pc'[t] # "first" /\ pc'[t] # "second"
      /\ \A u \in Thread : u # t => pc'[u] = pc[u] /\ op'[u] = op[u] /\ value'[u] = value[u]
  BY <1>1, FinishType
<1>3. onLevel' \in past'
  BY <1>1 DEF PastInv, Storing, StoreSecond
<1> QED
  BY <1>1, <1>2, <1>3 DEF PastInv, Storing

\* A press posts a level that the light has then had.
LEMMA PastMoved ==
  ASSUME TypeOK, PastInv, NEW cmd \in {"on", "off"}, Press(cmd)
  PROVE  PastInv'
<1>1. /\ UNCHANGED <<hasStatus, onLevel, pc, op, value, late, stepped>>
      /\ light' = (IF cmd = "on" THEN 255 ELSE 0) /\ past' = past \union {light'}
      /\ posted' \in {posted, posted \union {[n |-> presses + 1, cmd |-> cmd]}}
  BY DEF Press, Moves
<1>2. \A m \in posted' : m \in posted \/ m.cmd = cmd
  BY <1>1
<1>3. light' \in past' /\ past \subseteq past'
  BY <1>1
<1>4. ~late /\ ~stepped => /\ \A m \in posted' : m.cmd = "on" => 255 \in past'
                          /\ \A m \in posted' : m.cmd = "off" => 0 \in past'
  BY <1>1, <1>2, <1>3 DEF PastInv
<1> QED
  BY <1>1, <1>3, <1>4 DEF PastInv, Storing

\* Each step keeps whatever is on its way into the fields a level that the light
\* has had, without steps and timeouts.
LEMMA PastStep == TypeOK /\ PastInv /\ [Next]_vars => PastInv'
<1> SUFFICES ASSUME TypeOK, PastInv, [Next]_vars PROVE PastInv'
  OBVIOUS
<1>t. pc \in PcType /\ light \in Level /\ light \in past
  BY DEF TypeOK, PcType, PastInv
<1>1. ASSUME NEW t \in Thread, ThreadStep(t) PROVE PastInv'
  <2>1. CASE UpdateDevice(t) \/ CallFast(t) \/ CallStep(t) \/ CallRamp(t) \/ Read(t)
    <3>1. PICK o \in Op, level \in Level : Call(t, o, level)
      BY <2>1, Calls
    <3>2. /\ pc[t] = "idle" /\ pc'[t] \in {"check", "send"}
          /\ \A u \in Thread : u # t => /\ pc'[u] = pc[u] /\ op'[u] = op[u]
                                        /\ value'[u] = value[u]
          /\ UNCHANGED <<fields, posted, light, late, history>>
      BY <3>1, CallType
    <3> QED
      BY <3>2, <1>t, PastKept DEF Storing
  <2>2. CASE CheckStatus(t)
    BY <2>2, <1>t, PastKept DEF CheckStatus, Goto, Storing, PcType
  <2>3. CASE Answered(t)
    BY <2>3, PastAnswered
  <2>4. CASE Refused(t)
    BY <2>4, <1>t, FinishType, PastKept DEF Refused, Storing
  <2>5. CASE TimesOut(t)
    <3>1. late' = TRUE /\ (Moves(light) \/ Moves(Effect(t)))
      BY <2>5 DEF TimesOut
    <3>2. light' \in past' /\ past \subseteq past'
      <4>1. Effect(t) \in Level
        BY EffectType
      <4> QED
        BY <3>1, <4>1, <1>t, MovesType
    <3> QED
      BY <3>1, <3>2, PastKept
  <2>6. CASE Misanswered(t)
    <3>1. late' = TRUE
      BY <2>6 DEF Misanswered, TypeOK
    <3>2. light' \in past' /\ past \subseteq past'
      <4>1. PICK level \in {light, Effect(t)} : Moves(level)
        BY <2>6 DEF Misanswered
      <4>2. level \in Level
        <5>1. Effect(t) \in Level
          BY EffectType
        <5> QED
          BY <4>1, <5>1, <1>t
      <4> QED
        BY <4>1, <4>2, MovesType
    <3> QED
      BY <3>1, <3>2, PastKept
  <2>7. CASE StoreFirst(t)
    BY <2>7, PastFirst
  <2>8. CASE StoreSecond(t)
    BY <2>8, PastSecond
  <2>9. CASE Return(t)
    <3>1. Done(t) /\ pc[t] = "return" /\ UNCHANGED <<fields, posted, light, late, history>>
      BY <2>9 DEF Return
    <3>2. \A u \in Thread : u # t => pc'[u] = pc[u] /\ op'[u] = op[u] /\ value'[u] = value[u]
      BY <3>1, DoneType DEF TypeOK
    <3>3. pc'[t] = "idle"
      BY <3>1, <1>t, DoneType DEF PcType
    <3> QED
      BY <3>1, <3>2, <3>3, <1>t, PastKept DEF Storing
  <2>10. CASE Ramped(t)
    <3>1. Done(t) /\ pc[t] = "send" /\ UNCHANGED <<fields, posted, late, stepped>>
      BY <2>10 DEF Ramped
    <3>2. \A u \in Thread : u # t => pc'[u] = pc[u] /\ op'[u] = op[u] /\ value'[u] = value[u]
      BY <3>1, DoneType DEF TypeOK
    <3>3. pc'[t] = "idle"
      BY <3>1, <1>t, DoneType DEF PcType
    <3>4. light' \in past' /\ past \subseteq past'
      BY <2>10, RampMoves
    <3> QED
      BY <3>1, <3>2, <3>3, <3>4, PastKept DEF Storing
  <2> QED
    BY <1>1, <2>1, <2>2, <2>3, <2>4, <2>5, <2>6, <2>7, <2>8, <2>9, <2>10 DEF ThreadStep
<1>2. ASSUME NEW cmd \in {"on", "off"}, Press(cmd) PROVE PastInv'
  BY <1>2, PastMoved
<1>3. CASE Hold
  <2>1. /\ UNCHANGED <<hasStatus, onLevel, pc, op, value, late, stepped>>
        /\ posted' = posted \union {[n |-> presses + 1, cmd |-> "step"]}
    BY <1>3 DEF Hold
  <2>2. light' \in past' /\ past \subseteq past'
    BY <1>3 DEF Hold, Moves
  <2>3. \A m \in posted' : m \in posted \/ m.cmd = "step"
    BY <2>1
  <2> QED
    BY <2>1, <2>2, <2>3 DEF PastInv, Storing
<1>4. ASSUME NEW m \in posted, HandleBroadcast(m) PROVE PastInv'
  <2>1. /\ UNCHANGED <<hasStatus, pc, op, value, light, late, stepped, past>>
        /\ posted' \subseteq posted
    BY <1>4 DEF HandleBroadcast
  <2>2. ~late /\ ~stepped => onLevel' \in past \/ onLevel' = onLevel
    BY <1>4 DEF HandleBroadcast, PastInv
  <2> QED
    BY <2>1, <2>2 DEF PastInv, Storing
<1>5. CASE UNCHANGED vars
  BY <1>5, <1>t, PastKept DEF vars, Storing
<1> QED
  BY <1>1, <1>2, <1>3, <1>4, <1>5 DEF Next
-----------------------------------------------------------------------------
(***************************************************************************)
(* The theorems.                                                           *)
(***************************************************************************)
DeviceInv == TypeOK /\ MemoryInv /\ PastInv

\* The end changes nothing.
LEMMA StepOrEnd == [Next \/ Terminated]_vars => [Next]_vars
  BY DEF Terminated

\* The invariants hold in every reachable state.
LEMMA DeviceCorrect == Spec => []DeviceInv
<1>1. Init => DeviceInv
  BY TypeInit, MemoryInit, PastInit DEF DeviceInv
<1>2. DeviceInv /\ [Next \/ Terminated]_vars => DeviceInv'
  BY StepOrEnd, TypeStep, MemoryStep, PastStep DEF DeviceInv
<1> QED
  BY <1>1, <1>2, PTL DEF Spec

\* Levels stay between 0 and 255 and percentages between 0 and 100, through
\* steps, casts and conversions (OnOffDevice.cs:93-133, InsteonAdapter.cs:155).
THEOREM TypeCorrect == Spec => []TypeOK
<1>1. DeviceInv => TypeOK
  BY DEF DeviceInv
<1> QED
  BY <1>1, DeviceCorrect, PTL

\* With nothing on its way into the fields, the level remembered is the light's
\* own, unless the light moved by a ramp, unheard, or while an answer was being
\* stored, and nothing has set the memory right since (OnOffDevice.cs:58-221,
\* DimmingLight.cs:42-59).
THEOREM CacheCorrect == Spec => []CacheTrue
<1>1. DeviceInv => CacheTrue
  BY DEF DeviceInv, MemoryInv, CacheTrue
<1> QED
  BY <1>1, DeviceCorrect, PTL

\* The level is old at worst, never made up (OnOffDevice.cs:66-67, 151-152).
THEOREM NeverMadeUp == Spec => []LevelWasReal
<1>1. DeviceInv => LevelWasReal
  BY DEF DeviceInv, PastInv, LevelWasReal
<1> QED
  BY <1>1, DeviceCorrect, PTL

\* A percentage that was set reads back as itself or one less
\* (InsteonAdapter.cs:121, 155).
THEOREM ReadsBackCorrect == Spec => ReadsBack
<1> DEFINE Back == \A t \in Thread :
                     /\ pc[t] = "return" /\ pc'[t] = "idle"
                     /\ Quiet /\ hasStatus /\ ~suspect
                     => \A p \in Percents :
                          light = ToLevel(p) => reported' \in {p - 1, p}
<1>1. ASSUME DeviceInv, [Next]_vars, NEW t \in Thread,
             pc[t] = "return", pc'[t] = "idle", Quiet, hasStatus, ~suspect,
             NEW p \in Percents, light = ToLevel(p)
      PROVE  reported' \in {p - 1, p}
  <2>t. TypeOK /\ pc \in PcType
    BY <1>1 DEF DeviceInv, TypeOK, PcType
  <2>1. onLevel = light
    BY <1>1 DEF DeviceInv, MemoryInv
  <2>2. Return(t)
    <3>1. PICK u \in Thread : ThreadStep(u)
      BY <1>1 DEF Next, vars, threads, Press, Hold, HandleBroadcast
    <3>2. u = t
      <4>1. CASE UpdateDevice(u) \/ CallFast(u) \/ CallStep(u) \/ CallRamp(u) \/ Read(u)
        BY <1>1, <2>t, <4>1, Calls, CallType
      <4>2. CASE CheckStatus(u) \/ Answered(u) \/ Misanswered(u)
        BY <1>1, <2>t, <4>2 DEF CheckStatus, Answered, Misanswered, Goto, PcType
      <4>3. CASE Refused(u) \/ TimesOut(u) \/ StoreSecond(u)
        BY <1>1, <2>t, <4>3, FinishType DEF Refused, TimesOut, StoreSecond
      <4>4. CASE Ramped(u) \/ StoreFirst(u) \/ Return(u)
        BY <1>1, <2>t, <4>4, DoneType DEF Ramped, StoreFirst, Return, Goto, PcType
      <4> QED
        BY <3>1, <4>1, <4>2, <4>3, <4>4 DEF ThreadStep
    <3>3. ~(UpdateDevice(t) \/ CallFast(t) \/ CallStep(t) \/ CallRamp(t) \/ Read(t))
      BY <1>1, <2>t, Calls, CallType
    <3> QED
      BY <1>1, <3>1, <3>2, <3>3
         DEF ThreadStep, CheckStatus, Answered, Refused, TimesOut, Misanswered,
             Ramped, StoreFirst, StoreSecond
  <2>3. reported' = ToPercent(ToLevel(p))
    BY <1>1, <2>1, <2>2 DEF Return
  <2> QED
    BY <2>3, Conversions
<1>2. DeviceInv /\ [Next \/ Terminated]_vars => [Back]_vars
  BY <1>1, StepOrEnd
<1> QED
  BY <1>2, DeviceCorrect, PTL DEF Spec, ReadsBack
=============================================================================
