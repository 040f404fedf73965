------------------------- MODULE LevelTransmitterProofs -------------------------
(***************************************************************************)
(* Theorems about LevelTransmitter, for every keep-alive period, lag, bad   *)
(* frame interval and number of levels; and that the program stamps its     *)
(* datagrams as SenderSequence says.                                        *)
(***************************************************************************)
EXTENDS LevelTransmitter, TLAPS

\* The pattern is on its wheel: of the colours one shares MaxLevel with the
\* next, and the third is off.
OnTheWheel(colours, phase) ==
    /\ colours \in [1 .. 3 -> 0 .. MaxLevel] /\ phase \in 0 .. 2
    /\ colours[1] + colours[2] + colours[3] = MaxLevel
    /\ colours[((phase + 2) % 3) + 1] = 0

PatternOK == dynamic \in BOOLEAN /\ OnTheWheel(rgb, rgb_phase)

SequenceOK ==
    /\ tuid \in Tuid /\ endpoint \in Endpoint
    /\ session_id \in Nat \ {0} /\ sequence_num \in 1 .. MaxSequence - 1

\* The program counts the good frames as they went out.
FramesOK ==
    /\ insert_bad_frames \in BOOLEAN /\ bad_interval \in BadFrameInterval
    /\ good_frames_since_bad \in Nat /\ good_sent \in Nat
    /\ insert_bad_frames => good_frames_since_bad = good_sent

SwitchesOK ==
    /\ k0_set \in BOOLEAN /\ keep_alive \in BOOLEAN
    /\ keep_alive_enabled \in BOOLEAN
    /\ keep_alive_enabled <=> Armed
    /\ keep_alive => k0_set

\* What was tried is never older than the timer's period; what a receiver
\* takes may be, by one period, right after a bad frame.
AgesOK ==
    /\ keep_alive_elapsed \in 0 .. KeepAliveMs + TxLag
    /\ untried \in Nat /\ unheard \in Nat
    /\ untried <= keep_alive_elapsed \/ ~Armed
    /\ \/ unheard <= keep_alive_elapsed
       \/ /\ good_frames_since_bad = 0
          /\ unheard <= keep_alive_elapsed + KeepAliveMs + TxLag
       \/ ~Armed

IInv == SequenceOK /\ PatternOK /\ FramesOK /\ SwitchesOK /\ AgesOK

-------------------------------------------------------------------------------
(***************************************************************************)
(* The parts of a step                                                      *)
(***************************************************************************)

\* One colour goes down as the next goes up.
LEMMA StepKeepsSum ==
    ASSUME NEW from \in 0 .. MaxLevel, NEW to \in 0 .. MaxLevel,
           from + to = MaxLevel
    PROVE  /\ Down(from) \in 0 .. MaxLevel /\ Up(to) \in 0 .. MaxLevel
           /\ Down(from) + Up(to) = MaxLevel
  BY LevelAssumption DEF Down, Up

\* One step of the pattern stays on the wheel.
LEMMA CycleKeepsWheel ==
    ASSUME OnTheWheel(rgb, rgb_phase), CycleRgb
    PROVE  OnTheWheel(rgb', rgb_phase')
  <1>1. /\ rgb \in [1 .. 3 -> 0 .. MaxLevel]
        /\ rgb[1] \in 0 .. MaxLevel /\ rgb[2] \in 0 .. MaxLevel
        /\ rgb[3] \in 0 .. MaxLevel
        /\ rgb[1] + rgb[2] + rgb[3] = MaxLevel
    BY DEF OnTheWheel
  <1>2. CASE rgb_phase = 0
    <2>1. rgb[3] = 0 /\ rgb[1] + rgb[2] = MaxLevel
      BY <1>1, <1>2, LevelAssumption DEF OnTheWheel
    <2>2. /\ rgb' = [rgb EXCEPT ![1] = Down(@), ![2] = Up(@)]
          /\ rgb_phase' = IF rgb'[1] = 0 /\ rgb'[2] = MaxLevel THEN 1 ELSE 0
      BY <1>2 DEF CycleRgb
    <2>3. /\ rgb' \in [1 .. 3 -> 0 .. MaxLevel]
          /\ rgb'[3] = 0 /\ rgb'[1] + rgb'[2] = MaxLevel
      <3>1. /\ Down(rgb[1]) \in 0 .. MaxLevel /\ Up(rgb[2]) \in 0 .. MaxLevel
            /\ Down(rgb[1]) + Up(rgb[2]) = MaxLevel
        BY <1>1, <2>1, StepKeepsSum
      <3>2. /\ rgb'[1] = Down(rgb[1]) /\ rgb'[2] = Up(rgb[2])
            /\ rgb'[3] = 0
        BY <1>1, <2>1, <2>2
      <3>3. rgb' \in [1 .. 3 -> 0 .. MaxLevel]
        BY <1>1, <2>2, <3>1
      <3> QED
        BY <3>1, <3>2, <3>3
    <2>4. /\ rgb'[1] \in 0 .. MaxLevel /\ rgb'[2] \in 0 .. MaxLevel
          /\ rgb'[3] \in 0 .. MaxLevel
      BY <2>3
    <2>5. rgb'[1] + rgb'[2] + rgb'[3] = MaxLevel
      BY <2>3, <2>4, LevelAssumption
    <2>6. rgb'[((rgb_phase' + 2) % 3) + 1] = 0 /\ rgb_phase' \in 0 .. 2
      <3>1. CASE rgb'[1] = 0 /\ rgb'[2] = MaxLevel
        <4>1. rgb_phase' = 1 /\ ((1 + 2) % 3) + 1 = 1
          BY <2>2, <3>1
        <4> QED
          BY <3>1, <4>1
      <3>2. CASE ~(rgb'[1] = 0 /\ rgb'[2] = MaxLevel)
        <4>1. rgb_phase' = 0 /\ ((0 + 2) % 3) + 1 = 3
          BY <2>2, <3>2
        <4> QED
          BY <2>3, <4>1
      <3> QED
        BY <3>1, <3>2
    <2> QED
      BY <2>3, <2>5, <2>6 DEF OnTheWheel
  <1>3. CASE rgb_phase = 1
    <2>1. rgb[1] = 0 /\ rgb[2] + rgb[3] = MaxLevel
      BY <1>1, <1>3, LevelAssumption DEF OnTheWheel
    <2>2. /\ rgb' = [rgb EXCEPT ![2] = Down(@), ![3] = Up(@)]
          /\ rgb_phase' = IF rgb'[2] = 0 /\ rgb'[3] = MaxLevel THEN 2 ELSE 1
      BY <1>3 DEF CycleRgb
    <2>3. /\ rgb' \in [1 .. 3 -> 0 .. MaxLevel]
          /\ rgb'[1] = 0 /\ rgb'[2] + rgb'[3] = MaxLevel
      <3>1. /\ Down(rgb[2]) \in 0 .. MaxLevel /\ Up(rgb[3]) \in 0 .. MaxLevel
            /\ Down(rgb[2]) + Up(rgb[3]) = MaxLevel
        BY <1>1, <2>1, StepKeepsSum
      <3>2. /\ rgb'[2] = Down(rgb[2]) /\ rgb'[3] = Up(rgb[3])
            /\ rgb'[1] = 0
        BY <1>1, <2>1, <2>2
      <3>3. rgb' \in [1 .. 3 -> 0 .. MaxLevel]
        BY <1>1, <2>2, <3>1
      <3> QED
        BY <3>1, <3>2, <3>3
    <2>4. /\ rgb'[1] \in 0 .. MaxLevel /\ rgb'[2] \in 0 .. MaxLevel
          /\ rgb'[3] \in 0 .. MaxLevel
      BY <2>3
    <2>5. rgb'[1] + rgb'[2] + rgb'[3] = MaxLevel
      BY <2>3, <2>4, LevelAssumption
    <2>6. rgb'[((rgb_phase' + 2) % 3) + 1] = 0 /\ rgb_phase' \in 0 .. 2
      <3>1. CASE rgb'[2] = 0 /\ rgb'[3] = MaxLevel
        <4>1. rgb_phase' = 2 /\ ((2 + 2) % 3) + 1 = 2
          BY <2>2, <3>1
        <4> QED
          BY <3>1, <4>1
      <3>2. CASE ~(rgb'[2] = 0 /\ rgb'[3] = MaxLevel)
        <4>1. rgb_phase' = 1 /\ ((1 + 2) % 3) + 1 = 1
          BY <2>2, <3>2
        <4> QED
          BY <2>3, <4>1
      <3> QED
        BY <3>1, <3>2
    <2> QED
      BY <2>3, <2>5, <2>6 DEF OnTheWheel
  <1>4. CASE rgb_phase = 2
    <2>1. rgb[2] = 0 /\ rgb[3] + rgb[1] = MaxLevel
      BY <1>1, <1>4, LevelAssumption DEF OnTheWheel
    <2>2. /\ rgb' = [rgb EXCEPT ![3] = Down(@), ![1] = Up(@)]
          /\ rgb_phase' = IF rgb'[3] = 0 /\ rgb'[1] = MaxLevel THEN 0 ELSE 2
      BY <1>4 DEF CycleRgb
    <2>3. /\ rgb' \in [1 .. 3 -> 0 .. MaxLevel]
          /\ rgb'[2] = 0 /\ rgb'[3] + rgb'[1] = MaxLevel
      <3>1. /\ Down(rgb[3]) \in 0 .. MaxLevel /\ Up(rgb[1]) \in 0 .. MaxLevel
            /\ Down(rgb[3]) + Up(rgb[1]) = MaxLevel
        BY <1>1, <2>1, StepKeepsSum
      <3>2. /\ rgb'[3] = Down(rgb[3]) /\ rgb'[1] = Up(rgb[1])
            /\ rgb'[2] = 0
        BY <1>1, <2>1, <2>2
      <3>3. rgb' \in [1 .. 3 -> 0 .. MaxLevel]
        BY <1>1, <2>2, <3>1
      <3> QED
        BY <3>1, <3>2, <3>3
    <2>4. /\ rgb'[1] \in 0 .. MaxLevel /\ rgb'[2] \in 0 .. MaxLevel
          /\ rgb'[3] \in 0 .. MaxLevel
      BY <2>3
    <2>5. rgb'[1] + rgb'[2] + rgb'[3] = MaxLevel
      BY <2>3, <2>4, LevelAssumption
    <2>6. rgb'[((rgb_phase' + 2) % 3) + 1] = 0 /\ rgb_phase' \in 0 .. 2
      <3>1. CASE rgb'[3] = 0 /\ rgb'[1] = MaxLevel
        <4>1. rgb_phase' = 0 /\ ((0 + 2) % 3) + 1 = 3
          BY <2>2, <3>1
        <4> QED
          BY <3>1, <4>1
      <3>2. CASE ~(rgb'[3] = 0 /\ rgb'[1] = MaxLevel)
        <4>1. rgb_phase' = 2 /\ ((2 + 2) % 3) + 1 = 2
          BY <2>2, <3>2
        <4> QED
          BY <2>3, <4>1
      <3> QED
        BY <3>1, <3>2
    <2> QED
      BY <2>3, <2>5, <2>6 DEF OnTheWheel
  <1> QED
    BY <1>2, <1>3, <1>4 DEF OnTheWheel

-------------------------------------------------------------------------------
(***************************************************************************)
(* Sending                                                                  *)
(***************************************************************************)
LEMMA StampKeepsSequence ==
    ASSUME SequenceOK, NEW e, Stamp(e)
    PROVE  SequenceOK'
  <1>1. CASE sequence_num + 1 = MaxSequence
    BY <1>1, SequenceAssumption DEF Stamp, SequenceOK
  <1>2. CASE sequence_num + 1 # MaxSequence
    BY <1>2, SequenceAssumption DEF Stamp, SequenceOK
  <1> QED
    BY <1>1, <1>2

\* A bad frame comes after a good one, so the ages never grow by two periods.
LEMMA SentKeepsTimers ==
    ASSUME FramesOK, SwitchesOK, AgesOK, LevelSent, UNCHANGED k0_set
    PROVE  FramesOK' /\ SwitchesOK' /\ AgesOK'
  <1>1. bad_interval \in Nat \ {0}
    BY LevelAssumption DEF FramesOK
  <1>2. /\ insert_bad_frames' = insert_bad_frames /\ bad_interval' = bad_interval
        /\ keep_alive' = keep_alive /\ untried' = 0
        /\ k0_set = TRUE
    BY DEF LevelSent, RestartKeepAlive, CanTransmit, SwitchesOK
  <1>3. FramesOK'
    <2>1. CASE InjectsBadFrame
      <3>1. good_frames_since_bad' = 0 /\ good_sent' = 0
        BY <2>1 DEF LevelSent, CountFrame, InjectsBadFrame
      <3> QED
        BY <1>2, <3>1 DEF FramesOK
    <2>2. CASE ~InjectsBadFrame
      <3>1. /\ good_sent' = good_sent + 1
            /\ good_frames_since_bad' = IF insert_bad_frames
                                        THEN good_frames_since_bad + 1
                                        ELSE good_frames_since_bad
        BY <2>2 DEF LevelSent, CountFrame, FramesOK
      <3> QED
        BY <1>2, <3>1 DEF FramesOK
    <2> QED
      BY <2>1, <2>2
  <1>4. CASE Armed
    <2>1. keep_alive = TRUE
      BY <1>4 DEF Armed, SwitchesOK
    <2>2. keep_alive_enabled' = TRUE /\ keep_alive_elapsed' = 0
      BY <1>4 DEF LevelSent, RestartKeepAlive, SwitchesOK
    <2>3. SwitchesOK'
      BY <1>2, <2>1, <2>2 DEF SwitchesOK, Armed
    <2>4. /\ 0 \in 0 .. KeepAliveMs + TxLag /\ KeepAliveMs + TxLag \in Nat
      BY TransmitterTimes
    <2>5. CASE InjectsBadFrame
      <3>1. good_frames_since_bad' = 0 /\ unheard' = unheard
            /\ good_frames_since_bad # 0
        BY <1>1, <2>5 DEF LevelSent, CountFrame, InjectsBadFrame, FramesOK
      <3>2. unheard <= keep_alive_elapsed
        BY <1>4, <3>1 DEF AgesOK
      <3>3. unheard' <= keep_alive_elapsed' + KeepAliveMs + TxLag
        BY <2>2, <3>1, <3>2, TransmitterTimes DEF AgesOK
      <3> QED
        BY <1>2, <1>3, <2>2, <2>3, <2>4, <3>1, <3>3 DEF AgesOK
    <2>6. CASE ~InjectsBadFrame
      <3>1. unheard' = 0
        BY <2>6 DEF LevelSent
      <3> QED
        BY <1>2, <1>3, <2>2, <2>3, <2>4, <3>1 DEF AgesOK
    <2> QED
      BY <2>5, <2>6
  <1>5. CASE ~Armed
    <2>1. keep_alive_enabled' = FALSE /\ keep_alive_elapsed' = keep_alive_elapsed
      BY <1>5 DEF LevelSent, RestartKeepAlive, SwitchesOK
    <2>2. ~Armed'
      BY <1>2, <1>5 DEF Armed
    <2>3. SwitchesOK'
      BY <1>2, <2>1, <2>2 DEF SwitchesOK
    <2>4. unheard' \in Nat
      BY DEF LevelSent, AgesOK
    <2>5. AgesOK'
      BY <1>2, <2>1, <2>2, <2>4 DEF AgesOK
    <2> QED
      BY <1>3, <2>3, <2>5
  <1> QED
    BY <1>4, <1>5

\* A send that fails leaves the frame counter and both switches alone.
LEMMA FailsKeepsTimers ==
    ASSUME FramesOK, SwitchesOK, AgesOK, LevelFails, UNCHANGED k0_set
    PROVE  FramesOK' /\ SwitchesOK' /\ AgesOK'
  <1>1. FramesOK' /\ SwitchesOK'
    BY DEF LevelFails, badFrames, keepAlive, FramesOK, SwitchesOK, Armed
  <1>2. AgesOK'
    BY DEF LevelFails, keepAlive, AgesOK
  <1> QED
    BY <1>1, <1>2

\* Sending keeps the invariant, whether the datagram goes out or not.
LEMMA SendKeepsIInv ==
    ASSUME IInv, SendPacket, UNCHANGED k0_set
    PROVE  SequenceOK' /\ FramesOK' /\ SwitchesOK' /\ AgesOK'
  <1>1. CASE LevelSent
    BY <1>1, StampKeepsSequence, SentKeepsTimers DEF LevelSent, IInv
  <1>2. CASE LevelFails
    BY <1>2, FailsKeepsTimers DEF LevelFails, sequenceVars, SequenceOK, IInv
  <1> QED
    BY <1>1, <1>2 DEF SendPacket

\* The timer's own send; one that fails leaves the rest of the late time.
LEMMA KeepAliveKeepsIInv ==
    ASSUME IInv, TimerKeepAliveTimer
    PROVE  IInv'
  <1>1. PatternOK' /\ k0_set' = k0_set
    BY DEF TimerKeepAliveTimer, pattern, PatternOK, IInv
  <1>2. CASE LevelSent
    BY <1>1, <1>2, StampKeepsSequence, SentKeepsTimers DEF LevelSent, IInv
  <1>3. CASE ~LevelSent
    <2>1. /\ keep_alive_elapsed >= KeepAliveMs
          /\ untried' = 0 /\ unheard' = 0
          /\ keep_alive_elapsed' = keep_alive_elapsed - KeepAliveMs
          /\ UNCHANGED <<sequenceVars, keep_alive, keep_alive_enabled, badFrames,
                         good_sent>>
      BY <1>3 DEF TimerKeepAliveTimer
    <2>2. SequenceOK' /\ FramesOK' /\ SwitchesOK'
      BY <1>1, <2>1
         DEF sequenceVars, badFrames, SequenceOK, FramesOK, SwitchesOK, Armed, IInv
    <2>3. keep_alive_elapsed' \in 0 .. KeepAliveMs + TxLag
      BY <2>1, TransmitterTimes DEF AgesOK, IInv
    <2>4. AgesOK'
      BY <2>1, <2>3 DEF AgesOK
    <2> QED
      BY <1>1, <2>2, <2>4 DEF IInv
  <1> QED
    BY <1>2, <1>3

-------------------------------------------------------------------------------
(***************************************************************************)
(* The operator, the clock and a restart                                    *)
(***************************************************************************)
LEMMA KeysKeepIInv ==
    ASSUME IInv, NEW valid \in BOOLEAN, KeysBecome(valid)
    PROVE  IInv'
  <1>1. SequenceOK' /\ PatternOK'
    BY DEF KeysBecome, sequenceVars, pattern, SequenceOK, PatternOK, IInv
  <1>2. CASE valid = TRUE
    <2>1. /\ k0_set' = TRUE
          /\ UNCHANGED <<keepAlive, insert_bad_frames, good_frames_since_bad,
                         bad_interval, untried, unheard, good_sent>>
      BY <1>2 DEF KeysBecome, UpdateK0DependentControls
    <2>2. FramesOK' /\ SwitchesOK'
      BY <2>1 DEF keepAlive, FramesOK, SwitchesOK, Armed, IInv
    <2>3. Armed' => Armed
      BY <2>1 DEF keepAlive, SwitchesOK, Armed, IInv
    <2>4. AgesOK'
      BY <2>1, <2>3 DEF keepAlive, AgesOK, IInv
    <2> QED
      BY <1>1, <2>2, <2>4 DEF IInv
  <1>3. CASE valid = FALSE
    <2>1. /\ k0_set' = FALSE /\ keep_alive' = FALSE /\ keep_alive_enabled' = FALSE
          /\ keep_alive_elapsed' = 0
          /\ insert_bad_frames' = FALSE /\ good_frames_since_bad' = 0
          /\ untried' = 0 /\ unheard' = 0 /\ good_sent' = 0
          /\ bad_interval' = bad_interval
      BY <1>3 DEF KeysBecome, UpdateK0DependentControls
    <2>2. 0 \in 0 .. KeepAliveMs + TxLag
      BY TransmitterTimes
    <2> QED
      BY <1>1, <2>1, <2>2 DEF IInv, FramesOK, SwitchesOK, AgesOK, Armed
  <1> QED
    BY <1>2, <1>3

\* The keep-alive box arms or stops the keep-alive with its age.
LEMMA KeepAliveClickKeepsIInv ==
    ASSUME IInv, CheckKeepAliveClick
    PROVE  IInv'
  <1>1. SequenceOK' /\ PatternOK' /\ FramesOK'
    BY DEF CheckKeepAliveClick, sequenceVars, pattern, badFrames, SequenceOK,
           PatternOK, FramesOK, IInv
  <1>2. 0 \in 0 .. KeepAliveMs + TxLag
    BY TransmitterTimes
  <1>3. AgesOK'
    BY <1>2 DEF CheckKeepAliveClick, AgesOK
  <1>4. SwitchesOK'
    <2>1. k0_set' = TRUE
      BY DEF CheckKeepAliveClick, SwitchesOK, IInv
    <2>2. CASE keep_alive = TRUE
      <3>1. keep_alive' = FALSE /\ keep_alive_enabled' = FALSE
        BY <2>2 DEF CheckKeepAliveClick
      <3> QED
        BY <2>1, <3>1 DEF SwitchesOK, Armed
    <2>3. CASE keep_alive = FALSE
      <3>1. keep_alive' = TRUE /\ keep_alive_enabled' = TRUE
        BY <2>3 DEF CheckKeepAliveClick
      <3> QED
        BY <2>1, <3>1 DEF SwitchesOK, Armed
    <2> QED
      BY <2>2, <2>3 DEF SwitchesOK, IInv
  <1> QED
    BY <1>1, <1>3, <1>4 DEF IInv

\* So does the box of the bad frames with theirs.
LEMMA BadFramesClickKeepsIInv ==
    ASSUME IInv, CheckInsertBadFramesClick
    PROVE  IInv'
  <1>1. SequenceOK' /\ PatternOK' /\ SwitchesOK'
    BY DEF CheckInsertBadFramesClick, sequenceVars, pattern, keepAlive, SequenceOK,
           PatternOK, SwitchesOK, Armed, IInv
  <1>2. AgesOK'
    BY DEF CheckInsertBadFramesClick, keepAlive, AgesOK, Armed, IInv
  <1>3. insert_bad_frames' \in BOOLEAN
    BY Zenon DEF CheckInsertBadFramesClick, FramesOK, IInv
  <1>4. FramesOK'
    BY <1>3 DEF CheckInsertBadFramesClick, FramesOK, IInv
  <1> QED
    BY <1>1, <1>2, <1>4 DEF IInv

\* Time ages the switches only as far as their timers let it.
LEMMA TimeKeepsIInv ==
    ASSUME IInv, TimePasses
    PROVE  IInv'
  <1>1. /\ SequenceOK' /\ PatternOK' /\ FramesOK' /\ SwitchesOK'
        /\ Armed' <=> Armed
    BY DEF TimePasses, sequenceVars, pattern, badFrames, SequenceOK, PatternOK,
           FramesOK, SwitchesOK, Armed, IInv
  <1>2. CASE Armed
    <2>1. keep_alive_enabled = TRUE
      BY <1>2 DEF SwitchesOK, IInv
    <2>2. /\ keep_alive_elapsed < KeepAliveMs + TxLag
          /\ keep_alive_elapsed' = keep_alive_elapsed + 1
          /\ untried' = untried + 1 /\ unheard' = unheard + 1
          /\ good_frames_since_bad' = good_frames_since_bad
      BY <1>2, <2>1 DEF TimePasses, badFrames
    <2>3. AgesOK'
      BY <1>2, <2>2, TransmitterTimes DEF AgesOK, IInv
    <2> QED
      BY <1>1, <2>3 DEF IInv
  <1>3. CASE ~Armed
    <2>1. keep_alive_enabled = FALSE
      BY <1>3 DEF SwitchesOK, IInv
    <2>2. keep_alive_elapsed' = 0 /\ untried' = 0 /\ unheard' = 0
      BY <1>3, <2>1 DEF TimePasses
    <2>3. AgesOK'
      BY <2>2, TransmitterTimes DEF AgesOK
    <2> QED
      BY <1>1, <2>3 DEF IInv
  <1> QED
    BY <1>2, <1>3

\* The pattern the constructor begins with.
LEMMA StartIsOnTheWheel == OnTheWheel(<<MaxLevel, 0, 0>>, 0)
  <1> DEFINE start == <<MaxLevel, 0, 0>>
  <1>1. start \in [1 .. 3 -> 0 .. MaxLevel]
    BY LevelAssumption
  <1>2. start[1] = MaxLevel /\ start[2] = 0 /\ start[3] = 0
    OBVIOUS
  <1>3. start[1] + start[2] + start[3] = MaxLevel
    BY <1>2, LevelAssumption
  <1>4. ((0 + 2) % 3) + 1 = 3
    OBVIOUS
  <1> HIDE DEF start
  <1> QED
    BY <1>1, <1>2, <1>3, <1>4 DEF OnTheWheel, start

-------------------------------------------------------------------------------
\* The inductive invariant (all of LevelTransmitter).
THEOREM IInvHolds == Spec => []IInv
  <1>1. Init => IInv
    <2> SUFFICES ASSUME Init PROVE IInv
      OBVIOUS
    <2>1. SequenceOK
      BY SequenceAssumption DEF Init, SequenceOK
    <2>2. PatternOK
      BY StartIsOnTheWheel DEF Init, PatternOK
    <2>3. FramesOK /\ SwitchesOK
      BY DEF Init, FramesOK, SwitchesOK, Armed
    <2>4. AgesOK
      BY TransmitterTimes DEF Init, AgesOK
    <2> QED
      BY <2>1, <2>2, <2>3, <2>4 DEF IInv
  <1>2. IInv /\ [Next]_vars => IInv'
    <2> SUFFICES ASSUME IInv, [Next]_vars PROVE IInv'
      OBVIOUS
    <2>1. CASE ButtonSendLevelPacketClick \/ TrackBarDMXChange
      BY <2>1, SendKeepsIInv
         DEF ButtonSendLevelPacketClick, TrackBarDMXChange, SendLevel, pattern,
             PatternOK, IInv
    <2>2. CASE TimerKeepAliveTimer
      BY <2>2, KeepAliveKeepsIInv
    <2>3. CASE TimerHeartBeatTimer
      <3>1. PatternOK'
        BY <2>3, CycleKeepsWheel DEF TimerHeartBeatTimer, PatternOK, IInv
      <3> QED
        BY <2>3, <3>1, SendKeepsIInv DEF TimerHeartBeatTimer, IInv
    <2>4. CASE ButtonSendAnnounceClick
      <3>1. SequenceOK'
        BY <2>4, StampKeepsSequence DEF ButtonSendAnnounceClick, IInv
      <3> QED
        BY <2>4, <3>1
           DEF ButtonSendAnnounceClick, pattern, keepAlive, badFrames, history,
               PatternOK, FramesOK, SwitchesOK, AgesOK, Armed, IInv
    <2>5. CASE (\E valid \in BOOLEAN : ButtonSelectK0Click(valid))
               \/ ButtonDeprovisionClick
      BY <2>5, KeysKeepIInv DEF ButtonSelectK0Click, ButtonDeprovisionClick
    <2>6. CASE CheckKeepAliveClick
      BY <2>6, KeepAliveClickKeepsIInv
    <2>7. CASE CheckInsertBadFramesClick
      BY <2>7, BadFramesClickKeepsIInv
    <2>8. CASE ComboBoxDmxModeChange
      <3>1. dynamic' \in BOOLEAN
        BY <2>8, Zenon DEF ComboBoxDmxModeChange, PatternOK, IInv
      <3> QED
        BY <2>8, <3>1
           DEF ComboBoxDmxModeChange, sequenceVars, pattern, keepAlive, badFrames,
               history, SequenceOK, PatternOK, FramesOK, SwitchesOK, AgesOK, Armed,
               IInv
    <2>9. CASE ChangeFields
      BY <2>9
         DEF ChangeFields, pattern, keepAlive, history, SequenceOK, PatternOK,
             FramesOK, SwitchesOK, AgesOK, Armed, IInv
    <2>10. CASE TimePasses
      BY <2>10, TimeKeepsIInv
    <2>11. CASE Restart
      <3>1. tuid' \in Tuid /\ endpoint' \in Endpoint
        BY <2>11 DEF Restart, SequenceOK, IInv
      <3>2. SequenceOK'
        BY <2>11, <3>1, SequenceAssumption DEF Restart, SequenceOK
      <3>3. PatternOK'
        BY <2>11, StartIsOnTheWheel DEF Restart, PatternOK
      <3>4. FramesOK' /\ SwitchesOK'
        BY <2>11 DEF Restart, FramesOK, SwitchesOK, Armed
      <3>5. AgesOK'
        BY <2>11, TransmitterTimes DEF Restart, AgesOK
      <3> QED
        BY <3>2, <3>3, <3>4, <3>5 DEF IInv
    <2>12. CASE UNCHANGED vars
      BY <2>12
         DEF vars, sequenceVars, pattern, keepAlive, badFrames, history, SequenceOK,
             PatternOK, FramesOK, SwitchesOK, AgesOK, Armed, IInv
    <2> QED
      BY <2>1, <2>2, <2>3, <2>4, <2>5, <2>6, <2>7, <2>8, <2>9, <2>10, <2>11, <2>12
         DEF Next
  <1> QED
    BY <1>1, <1>2, PTL DEF Spec

\* Every step keeps the types, the pattern on its wheel and the sequence number
\* in its range (CycleRgb, IncrementSequence).
THEOREM TransmitterTypeCorrect == Spec => []TransmitterTypeOK
  <1>1. IInv => TransmitterTypeOK
    BY DEF IInv, SequenceOK, PatternOK, OnTheWheel, FramesOK, SwitchesOK, AgesOK,
           TransmitterTypeOK
  <1> QED
    BY <1>1, IInvHolds, PTL

\* Whatever is sent, fails or is clicked, a level datagram is tried in every
\* period while keep-alive is on, and receivers get one in two (SendPacket,
\* TimerKeepAliveTimer).
THEOREM ReceiversStayAlive == Spec => []ReceiversKeptAlive
  <1>1. ASSUME IInv PROVE ReceiversKeptAlive
    <2>1. /\ keep_alive_enabled <=> Armed
          /\ keep_alive => k0_set
      BY <1>1 DEF IInv, SwitchesOK
    <2>2. Armed => /\ untried <= KeepAliveMs + TxLag
                   /\ unheard <= 2 * (KeepAliveMs + TxLag)
      BY <1>1, TransmitterTimes DEF IInv, AgesOK
    <2> QED
      BY <2>1, <2>2 DEF ReceiversKeptAlive
  <1> QED
    BY <1>1, IInvHolds, PTL

\* A bad frame is sent only after as many good ones as are asked for
\* (SendPacket).
THEOREM BadFramesStaySpaced == Spec => BadFramesSpaced
  <1> DEFINE Spaced ==
        (/\ \E d \in wire' \ wire : d.sender_id[2] # 0
         /\ good_sent' = 0) => good_sent >= bad_interval
  <1>1. ASSUME IInv, LevelSent, good_sent' = 0 PROVE good_sent >= bad_interval
    <2>1. InjectsBadFrame
      BY <1>1 DEF LevelSent, IInv, FramesOK
    <2>2. good_frames_since_bad >= bad_interval /\ good_frames_since_bad = good_sent
      BY <1>1, <2>1 DEF InjectsBadFrame, IInv, FramesOK
    <2> QED
      BY <2>2
  <1>2. ASSUME IInv, [Next]_vars PROVE Spaced
    <2>1. CASE LevelSent
      BY <1>1, <1>2, <2>1
    <2>2. CASE ButtonSendAnnounceClick
      <3>1. \A d \in wire' \ wire : d.sender_id[2] = 0
        BY <2>2 DEF ButtonSendAnnounceClick, Stamp
      <3> QED
        BY <3>1
    <2>3. CASE ~LevelSent /\ ~ButtonSendAnnounceClick
      <3>1. wire' = wire
        BY <1>2, <2>3
           DEF Next, ButtonSendLevelPacketClick, TrackBarDMXChange, SendLevel,
               SendPacket, LevelFails, TimerKeepAliveTimer, TimerHeartBeatTimer,
               ButtonSelectK0Click, ButtonDeprovisionClick, KeysBecome,
               CheckKeepAliveClick, CheckInsertBadFramesClick,
               ComboBoxDmxModeChange, ChangeFields, TimePasses, Restart, vars,
               sequenceVars
      <3> QED
        BY <3>1
    <2> QED
      BY <2>1, <2>2, <2>3
  <1>3. IInv /\ [Next]_vars => [Spaced]_vars
    BY <1>2
  <1> QED
    BY <1>3, IInvHolds, PTL DEF Spec, BadFramesSpaced

-------------------------------------------------------------------------------
(***************************************************************************)
(* The program implements SenderSequence                                    *)
(***************************************************************************)

\* A datagram that gets out is one that SenderSequence's program sends.
LEMMA StampIsSend ==
    ASSUME SequenceOK, NEW e \in Endpoint \union {0}, CanTransmit, Stamp(e)
    PROVE  Sequence!SendPacket("level_tx")
  <1> DEFINE id == <<tuid, e>>
  <1>1. id \in SenderId /\ id[1] = tuid
    BY SenderIdAssumption DEF SequenceOK
  <1>2. Sequence!AdvanceSequence("level_tx")
    <2>1. sequence_num \in 1 .. MaxSequence - 1
      BY DEF SequenceOK
    <2>2. Sequence!IncrementSequence(sequence_num) = sequence_num + 1
      BY <2>1, SequenceAssumption DEF Sequence!IncrementSequence
    <2> QED
      BY <2>2
         DEF Sequence!AdvanceSequence, Sequence!ShouldIncrementSession, Stamp
  <1>3. wire' = wire \union {Sequence!Datagram("level_tx", id)}
    BY DEF Sequence!Datagram, Stamp
  <1> QED
    BY <1>1, <1>2, <1>3 DEF Sequence!SendPacket, Stamp, CanTransmit

\* A restart of the program is one of its sender's.
LEMMA RestartIsRestart ==
    ASSUME Restart
    PROVE  Sequence!Restart("level_tx")
  BY DEF Restart, Sequence!Restart

\* Every datagram that gets out takes one pair and moves it on, everything that
\* fails takes none (SendPacket, SendAnnouncePacket).
THEOREM TransmitterStampsInSequence == Spec => StampsInSequence
  <1>1. Init => Sequence!SenderInit
    BY DEF Init, Sequence!SenderInit
  <1>2. IInv /\ [Next]_vars => [Sequence!SenderNext]_Sequence!senderVars
    <2> SUFFICES ASSUME IInv, [Next]_vars
                 PROVE  Sequence!SenderNext \/ UNCHANGED Sequence!senderVars
      OBVIOUS
    <2>1. CASE LevelSent
      <3>1. Sequence!SendPacket("level_tx")
        BY <2>1, StampIsSend DEF LevelSent, IInv, SequenceOK
      <3> QED
        BY <3>1 DEF Sequence!SenderNext
    <2>2. CASE ButtonSendAnnounceClick
      <3>1. Sequence!SendPacket("level_tx")
        BY <2>2, StampIsSend DEF ButtonSendAnnounceClick, IInv
      <3> QED
        BY <3>1 DEF Sequence!SenderNext
    <2>3. CASE Restart
      BY <2>3, RestartIsRestart DEF Sequence!SenderNext
    <2>4. CASE ~LevelSent /\ ~ButtonSendAnnounceClick /\ ~Restart
      <3>1. UNCHANGED <<tuid, session_id, sequence_num, tuids_drawn, position, wire>>
        BY <2>4
           DEF Next, ButtonSendLevelPacketClick, TrackBarDMXChange, SendLevel,
               SendPacket, LevelFails, TimerKeepAliveTimer, TimerHeartBeatTimer,
               ButtonSelectK0Click, ButtonDeprovisionClick, KeysBecome,
               CheckKeepAliveClick, CheckInsertBadFramesClick,
               ComboBoxDmxModeChange, ChangeFields, TimePasses, vars, sequenceVars
      <3> QED
        BY <3>1 DEF Sequence!senderVars
    <2> QED
      BY <2>1, <2>2, <2>3, <2>4
  <1> QED
    BY <1>1, <1>2, IInvHolds, PTL DEF Spec, StampsInSequence, Sequence!SenderSpec

===============================================================================
