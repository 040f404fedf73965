--------------------------- MODULE ManagerNodeProofs ---------------------------
(***************************************************************************)
(* Theorems about the poller alone (PollerTimer), and about the poller, a   *)
(* lossy network and a node's Lost Mode together (ManagerNode): for every   *)
(* range of the settings, every lag of the timers, every timeout longer     *)
(* than LongestWait and every width of the tick.                            *)
(***************************************************************************)
EXTENDS ManagerNode, TLAPS

-------------------------------------------------------------------------------
(***************************************************************************)
(* The poller                                                               *)
(***************************************************************************)

\* The timer runs while the poller repeats, and its age is that of the last
\* poll tried; otherwise it stands still.
TimerFollows ==
    /\ timer_enabled <=> Repeating
    /\ poll_repeat => k0_set
    /\ timer_enabled => timer_elapsed <= timer_interval + PollerLag
    /\ ~timer_enabled => timer_elapsed = 0
    /\ Repeating => unpolled = timer_elapsed

PollerIInv == PollerTypeOK /\ TimerFollows

-------------------------------------------------------------------------------
\* An interval is positive and within the longest one.
LEMMA IntervalIs ==
    ASSUME PollerTypeOK, NEW i \in ComputeNextPollIntervalMs
    PROVE  i \in 1 .. MaxInterval
  BY PollerTimes DEF ComputeNextPollIntervalMs, PollerTypeOK, MaxInterval

\* The invariant holds in a state with the timer stopped and the box cleared.
LEMMA StoppedPollerIInv ==
    ASSUME PollerTypeOK, UNCHANGED <<timer_interval, settings>>,
           k0_set' \in BOOLEAN, poll_repeat' = FALSE, timer_enabled' = FALSE,
           timer_elapsed' = 0, unpolled' = 0
    PROVE  PollerIInv'
  <1>1. 0 \in 0 .. MaxInterval + PollerLag
    BY PollerTimes DEF MaxInterval
  <1>2. PollerTypeOK'
    BY <1>1 DEF PollerTypeOK, settings
  <1>3. TimerFollows'
    BY DEF TimerFollows, Repeating
  <1> QED
    BY <1>2, <1>3 DEF PollerIInv

\* The same with the timer just started.
LEMMA RunningPollerIInv ==
    ASSUME PollerTypeOK, UNCHANGED settings, timer_interval' \in 1 .. MaxInterval,
           k0_set' = TRUE, poll_repeat' = TRUE, timer_enabled' = TRUE,
           timer_elapsed' = 0, unpolled' = 0
    PROVE  PollerIInv'
  <1>1. 0 \in 0 .. MaxInterval + PollerLag
    BY PollerTimes DEF MaxInterval
  <1>2. PollerTypeOK'
    BY <1>1 DEF PollerTypeOK, settings
  <1>3. TimerFollows'
    <2>1. MaxInterval \in Nat /\ PollerLag \in Nat
      BY PollerTimes DEF MaxInterval
    <2>2. timer_interval' \in 1 .. MaxInterval
      OBVIOUS
    <2>3. ASSUME NEW i \in 1 .. MaxInterval PROVE 0 <= i + PollerLag
      BY <2>1
    <2>4. timer_elapsed' <= timer_interval' + PollerLag
      BY <2>2, <2>3
    <2> QED
      BY <2>4 DEF TimerFollows, Repeating
  <1> QED
    BY <1>2, <1>3 DEF PollerIInv

\* Keys that come leave the timer alone, keys that go stop it.
LEMMA KeysKeepPollerIInv ==
    ASSUME PollerIInv, NEW valid \in BOOLEAN,
           k0_set' = valid, UpdateK0DependentControls(valid),
           unpolled' = IF valid THEN unpolled ELSE 0, UNCHANGED settings
    PROVE  PollerIInv'
  <1>1. CASE valid = TRUE
    <2>1. k0_set' = TRUE /\ UNCHANGED <<poll_repeat, timer, unpolled, settings>>
      BY <1>1 DEF UpdateK0DependentControls
    <2> QED
      BY <2>1 DEF timer, settings, PollerIInv, PollerTypeOK, TimerFollows, Repeating
  <1>2. CASE valid = FALSE
    <2>1. /\ k0_set' = FALSE /\ poll_repeat' = FALSE /\ timer_enabled' = FALSE
          /\ timer_elapsed' = 0 /\ unpolled' = 0
          /\ UNCHANGED <<timer_interval, settings>>
      BY <1>2 DEF UpdateK0DependentControls, StopTimer
    <2> QED
      BY <2>1, StoppedPollerIInv DEF PollerIInv, Repeating
  <1> QED
    BY <1>1, <1>2

\* Clicking the box starts the timer and the history together, or stops both.
LEMMA ClickKeepsPollerIInv ==
    ASSUME PollerIInv, CheckPollRepeatClick
    PROVE  PollerIInv'
  <1>1. CASE poll_repeat = TRUE
    <2>1. /\ poll_repeat' = FALSE /\ timer_enabled' = FALSE
          /\ timer_elapsed' = 0 /\ unpolled' = 0
          /\ UNCHANGED <<k0_set, timer_interval, settings>>
      BY <1>1 DEF CheckPollRepeatClick, StopTimer
    <2> QED
      BY <2>1, StoppedPollerIInv DEF PollerIInv, PollerTypeOK
  <1>2. CASE poll_repeat = FALSE
    <2>1. timer_interval' \in 1 .. MaxInterval
      BY <1>2, IntervalIs DEF CheckPollRepeatClick, PollerIInv
    <2>2. /\ k0_set' = TRUE /\ poll_repeat' = TRUE /\ timer_enabled' = TRUE
          /\ timer_elapsed' = 0 /\ unpolled' = 0 /\ UNCHANGED settings
      BY <1>2 DEF CheckPollRepeatClick, PollerIInv, PollerTypeOK
    <2> QED
      BY <2>1, <2>2, RunningPollerIInv DEF PollerIInv
  <1> QED
    BY <1>1, <1>2 DEF PollerIInv, PollerTypeOK

\* The timer's own poll starts it again.
LEMMA TimerKeepsPollerIInv ==
    ASSUME PollerIInv, NEW sent \in BOOLEAN, TimerPollRepeatTimer(sent)
    PROVE  PollerIInv'
  <1>1. k0_set = TRUE /\ poll_repeat = TRUE
    BY DEF TimerPollRepeatTimer, TimerDue, PollerIInv, TimerFollows, Repeating,
           PollerTypeOK
  <1>2. timer_interval' \in 1 .. MaxInterval
    BY <1>1, IntervalIs
       DEF TimerPollRepeatTimer, RearmPollTimer, PollerIInv, Repeating
  <1>3. /\ k0_set' = TRUE /\ poll_repeat' = TRUE /\ timer_enabled' = TRUE
        /\ timer_elapsed' = 0 /\ unpolled' = 0 /\ UNCHANGED settings
    BY <1>1 DEF TimerPollRepeatTimer, RearmPollTimer, Repeating
  <1> QED
    BY <1>2, <1>3, RunningPollerIInv DEF PollerIInv

\* The poller starts with the timer stopped.
LEMMA PollerInitIInv == PollerInit => PollerIInv
  <1> SUFFICES ASSUME PollerInit PROVE PollerIInv
    OBVIOUS
  <1>1. timer_interval \in 1 .. MaxInterval /\ 0 \in 0 .. MaxInterval + PollerLag
    BY PollerTimes DEF PollerInit, MaxInterval
  <1>2. PollerTypeOK
    BY <1>1 DEF PollerInit, PollerTypeOK
  <1>3. TimerFollows
    BY DEF PollerInit, TimerFollows, Repeating
  <1> QED
    BY <1>2, <1>3 DEF PollerIInv

\* Every step of the poller keeps its invariant.
LEMMA PollerNextIInv == PollerIInv /\ [PollerNext]_pollerVars => PollerIInv'
  <1> SUFFICES ASSUME PollerIInv, [PollerNext]_pollerVars PROVE PollerIInv'
    OBVIOUS
  <1>1. ASSUME NEW valid \in BOOLEAN, ButtonSelectK0Click(valid) PROVE PollerIInv'
    BY <1>1, KeysKeepPollerIInv DEF ButtonSelectK0Click
  <1>2. CASE ButtonDeprovisionClick
    BY <1>2, KeysKeepPollerIInv DEF ButtonDeprovisionClick
  <1>3. CASE CheckPollRepeatClick
    BY <1>3, ClickKeepsPollerIInv
  <1>4. CASE ChangeSettings
    BY <1>4 DEF ChangeSettings, timer, PollerIInv, PollerTypeOK, TimerFollows,
                Repeating
  <1>5. ASSUME NEW sent \in BOOLEAN, Polls(sent) PROVE PollerIInv'
    <2>1. CASE TimerPollRepeatTimer(sent)
      BY <2>1, TimerKeepsPollerIInv
    <2>2. CASE ButtonSendPollClick(sent)
      BY <2>2 DEF ButtonSendPollClick, pollerVars, settings, timer, PollerIInv,
                  PollerTypeOK, TimerFollows, Repeating
    <2> QED
      BY <1>5, <2>1, <2>2 DEF Polls
  <1>6. CASE PollerTimePasses
    BY <1>6, PollerTimes
       DEF PollerTimePasses, settings, PollerIInv, PollerTypeOK, TimerFollows,
           Repeating, MaxInterval
  <1>7. CASE UNCHANGED pollerVars
    BY <1>7 DEF pollerVars, settings, timer, PollerIInv, PollerTypeOK,
                TimerFollows, Repeating
  <1> QED
    BY <1>1, <1>2, <1>3, <1>4, <1>5, <1>6, <1>7 DEF PollerNext, PollerOperator

\* The inductive invariant: types, and a timer that follows the box and the
\* keys (all of PollerTimer).
THEOREM PollerIInvHolds == PollerSpec => []PollerIInv
  BY PollerInitIInv, PollerNextIInv, PTL DEF PollerSpec

\* Every step keeps the types and the longest interval
\* (ComputeNextPollIntervalMs).
THEOREM PollerTypeCorrect == PollerSpec => []PollerTypeOK
  <1>1. PollerIInv => PollerTypeOK
    BY DEF PollerIInv
  <1> QED
    BY <1>1, PollerIInvHolds, PTL

\* A poller told to repeat polls within the longest interval and the lag,
\* for ever (TimerPollRepeatTimer and everything that starts or stops it).
THEOREM RepeatingGoesOn == PollerSpec => []RepeatingPolls
  <1>1. PollerIInv => RepeatingPolls
    BY PollerTimes
       DEF PollerIInv, PollerTypeOK, TimerFollows, RepeatingPolls, MaxInterval
  <1> QED
    BY <1>1, PollerIInvHolds, PTL

-------------------------------------------------------------------------------
(***************************************************************************)
(* The node that is polled                                                  *)
(***************************************************************************)

\* The longest time between two tries of the repeat timer, and what n lost
\* ones of them add up to.
LongestRound == MaxInterval + PollerLag
Missed(n) == n * LongestRound

NodeTypeOK ==
    /\ now \in Node!Tick /\ last_valid_poll_tick \in Node!Tick
    /\ node_in_lost_mode \in BOOLEAN
    /\ silence \in 0 .. TickMod /\ lag \in 0 .. TimerLag
    /\ pending \in BOOLEAN /\ lost_in_row \in 0 .. MaxLost /\ steady \in Nat

\* The tick difference is the silence, until it has wrapped once.
HeardTick ==
    silence < TickMod => Node!Elapsed(now, last_valid_poll_tick) = silence

Silent == node_in_lost_mode => silence > NODE_LOST_THRESHOLD_MS

\* Repeating bounds the silence, or has not lasted that long: by the polls lost
\* since and the age of the timer, or, with a poll in the socket, by all that
\* can be lost, one round of the poller and the age of the node's tick.
Within(bound) == silence <= bound \/ steady <= bound
SilenceIsBounded ==
    /\ ~Repeating => steady = 0
    /\ (Repeating /\ ~pending) => Within(Missed(lost_in_row) + timer_elapsed)
    /\ pending => Within(Missed(MaxLost) + LongestRound + lag)

IInv == PollerIInv /\ NodeTypeOK /\ HeardTick /\ Silent /\ SilenceIsBounded

-------------------------------------------------------------------------------
\* A round is a number.
LEMMA RoundIsNat == LongestRound \in Nat
  BY PollerTimes DEF LongestRound, MaxInterval

\* So is what lost polls add up to.
LEMMA MissedIsNat == ASSUME NEW n \in Nat PROVE Missed(n) \in Nat
  BY RoundIsNat DEF Missed

\* One more lost poll is one more round.
LEMMA MissedOneMore ==
    ASSUME NEW n \in Nat PROVE Missed(n + 1) = Missed(n) + LongestRound
  BY RoundIsNat DEF Missed

\* Fewer lost polls take no longer.
LEMMA MissedGrows ==
    ASSUME NEW n \in Nat, NEW m \in Nat, n <= m PROVE Missed(n) <= Missed(m)
  <1>1. ASSUME NEW d \in Nat PROVE n * d <= m * d
    <2>1. m * d = n * d + (m - n) * d
      OBVIOUS
    <2>2. (m - n) * d \in Nat
      OBVIOUS
    <2>3. n * d \in Nat
      OBVIOUS
    <2> QED
      BY <2>1, <2>2, <2>3
  <1> QED
    BY <1>1, RoundIsNat DEF Missed

\* LongestWait, by its parts.
LEMMA LongestWaitIs ==
    LongestWait = Missed(MaxLost) + LongestRound + TimerLag
  <1>1. LongestWait = (MaxLost + 1) * LongestRound + TimerLag
    BY DEF LongestWait, LongestRound
  <1> QED
    BY <1>1, MissedOneMore, PollsOftenEnough DEF Missed

-------------------------------------------------------------------------------
\* A node just taken live has been silent for no time.
LEMMA InitIInv == Init => IInv
  <1> SUFFICES ASSUME Init PROVE IInv
    OBVIOUS
  <1>1. PollerIInv
    BY PollerInitIInv DEF Init
  <1>2. /\ 0 \in 0 .. TickMod /\ 0 \in 0 .. TimerLag /\ 0 \in 0 .. MaxLost
        /\ TickMod - 1 \in Node!Tick /\ 0 \in Nat
    BY NodeTimes, PollsOftenEnough DEF Node!Tick
  <1>3. NodeTypeOK
    BY <1>2 DEF Init, NodeLive, NodeTypeOK
  <1>4. HeardTick /\ Silent
    BY NodeTimes DEF Init, NodeLive, HeardTick, Silent, Node!Elapsed
  <1>5. SilenceIsBounded
    BY DEF Init, PollerInit, NodeLive, SilenceIsBounded, Repeating
  <1> QED
    BY <1>1, <1>3, <1>4, <1>5 DEF IInv

\* What a poller that repeats has within its bounds.
LEMMA RoundBoundsTimer ==
    ASSUME PollerIInv
    PROVE  timer_elapsed \in Nat /\ timer_elapsed <= LongestRound
  BY PollerTimes DEF PollerIInv, PollerTypeOK, LongestRound, MaxInterval

\* A poll that arrives: the poller's bound becomes the one of the socket.
LEMMA PollArrivesIInv == ASSUME IInv, PollArrives PROVE IInv'
  <1>1. PollerIInv'
    BY PollerNextIInv DEF PollArrives, PollerNext, IInv
  <1>2. NodeTypeOK' /\ HeardTick' /\ Silent'
    BY PollsOftenEnough
       DEF PollArrives, nodeVars, IInv, NodeTypeOK, HeardTick, Silent, Node!Elapsed
  <1>3. UNCHANGED <<k0_set, poll_repeat, silence, steady, lag>> /\ pending' = TRUE
    BY DEF PollArrives, nodeVars, Polls, TimerPollRepeatTimer, ButtonSendPollClick,
           pollerVars
  <1>4. Within(Missed(MaxLost) + LongestRound + lag) \/ ~Repeating
    <2>1. CASE pending
      BY <2>1 DEF IInv, SilenceIsBounded
    <2>2. CASE ~pending /\ Repeating
      <3>1. Missed(lost_in_row) <= Missed(MaxLost)
        BY MissedGrows, PollsOftenEnough DEF IInv, NodeTypeOK
      <3>2. /\ Missed(lost_in_row) \in Nat /\ Missed(MaxLost) \in Nat
            /\ LongestRound \in Nat
        BY MissedIsNat, RoundIsNat, PollsOftenEnough DEF IInv, NodeTypeOK
      <3>3. Within(Missed(lost_in_row) + timer_elapsed)
        BY <2>2 DEF IInv, SilenceIsBounded
      <3>4. /\ silence \in Nat /\ steady \in Nat /\ lag \in Nat
            /\ timer_elapsed \in Nat /\ timer_elapsed <= LongestRound
        BY RoundBoundsTimer, NodeTimes DEF IInv, NodeTypeOK
      <3> QED
        BY <3>1, <3>2, <3>3, <3>4 DEF Within
    <2> QED
      BY <2>1, <2>2
  <1>5. ~Repeating => Within(Missed(MaxLost) + LongestRound + lag)
    <2>1. /\ Missed(MaxLost) \in Nat /\ LongestRound \in Nat /\ lag \in Nat
      BY MissedIsNat, RoundIsNat, PollsOftenEnough, NodeTimes DEF IInv, NodeTypeOK
    <2> QED
      BY <2>1 DEF Within, IInv, SilenceIsBounded
  <1>6. SilenceIsBounded'
    BY <1>3, <1>4, <1>5
       DEF SilenceIsBounded, Within, Repeating, IInv, Missed, LongestRound,
           MaxInterval
  <1> QED
    BY <1>1, <1>2, <1>6 DEF IInv

\* A lost poll of the timer: one more round for the age it had.
LEMMA PollLostIInv ==
    ASSUME IInv, NEW sent \in BOOLEAN, PollLost(sent) PROVE IInv'
  <1>1. PollerIInv'
    BY PollerNextIInv DEF PollLost, Polls, PollerNext, IInv
  <1>2. NodeTypeOK' /\ HeardTick' /\ Silent'
    BY PollsOftenEnough
       DEF PollLost, nodeVars, IInv, NodeTypeOK, HeardTick, Silent, Node!Elapsed
  <1>3. Repeating
    BY DEF PollLost, TimerPollRepeatTimer, TimerDue, IInv, PollerIInv, TimerFollows
  <1>4. /\ UNCHANGED <<k0_set, poll_repeat, silence, steady, lag, pending>>
        /\ timer_elapsed' = 0 /\ lost_in_row' = lost_in_row + 1
    BY <1>3 DEF PollLost, nodeVars, TimerPollRepeatTimer, RearmPollTimer
  <1>5. ~pending => Within(Missed(lost_in_row + 1) + 0)
    <2>1. Missed(lost_in_row + 1) = Missed(lost_in_row) + LongestRound
      BY MissedOneMore, PollsOftenEnough DEF IInv, NodeTypeOK
    <2>2. Missed(lost_in_row) \in Nat /\ LongestRound \in Nat
      BY MissedIsNat, RoundIsNat, PollsOftenEnough DEF IInv, NodeTypeOK
    <2>3. /\ silence \in Nat /\ steady \in Nat
          /\ timer_elapsed \in Nat /\ timer_elapsed <= LongestRound
      BY RoundBoundsTimer, NodeTimes DEF IInv, NodeTypeOK
    <2>4. ~pending => Within(Missed(lost_in_row) + timer_elapsed)
      BY <1>3 DEF IInv, SilenceIsBounded
    <2> QED
      BY <2>1, <2>2, <2>3, <2>4 DEF Within
  <1>6. SilenceIsBounded'
    BY <1>3, <1>4, <1>5
       DEF SilenceIsBounded, Within, Repeating, IInv, Missed, LongestRound,
           MaxInterval
  <1> QED
    BY <1>1, <1>2, <1>6 DEF IInv

\* The operator: what keeps the poller repeating keeps its timer.
LEMMA OperatorIInv == ASSUME IInv, ManagerOperator PROVE IInv'
  <1>1. PollerIInv'
    BY PollerNextIInv DEF ManagerOperator, PollerNext, IInv
  <1>2. HeardTick' /\ Silent'
    BY DEF ManagerOperator, nodeVars, IInv, HeardTick, Silent, Node!Elapsed
  <1>3. NodeTypeOK'
    BY DEF ManagerOperator, nodeVars, IInv, NodeTypeOK
  <1>4. CASE Repeating /\ Repeating'
    <2>1. timer_elapsed' = timer_elapsed
      BY <1>4 DEF ManagerOperator, PollerOperator, ButtonSelectK0Click,
                  UpdateK0DependentControls, ButtonDeprovisionClick,
                  CheckPollRepeatClick, ChangeSettings, timer, Repeating, IInv,
                  PollerIInv, PollerTypeOK
    <2>2. UNCHANGED <<silence, steady, lag, pending, lost_in_row>>
      BY <1>4 DEF ManagerOperator, nodeVars
    <2>3. SilenceIsBounded'
      BY <1>4, <2>1, <2>2
         DEF SilenceIsBounded, Within, IInv, Missed, LongestRound, MaxInterval
    <2> QED
      BY <1>1, <1>2, <1>3, <2>3 DEF IInv
  <1>5. CASE ~(Repeating /\ Repeating')
    <2>1. steady' = 0 /\ UNCHANGED <<silence, lag, pending, lost_in_row>>
      BY <1>5 DEF ManagerOperator, nodeVars
    <2>2. /\ Missed(lost_in_row) \in Nat /\ Missed(MaxLost) \in Nat
          /\ LongestRound \in Nat /\ lag \in Nat /\ timer_elapsed' \in Nat
      BY <1>1, MissedIsNat, RoundIsNat, PollsOftenEnough, NodeTimes, PollerTimes
         DEF IInv, NodeTypeOK, PollerIInv, PollerTypeOK, MaxInterval
    <2>3. /\ 0 <= Missed(lost_in_row) + timer_elapsed'
          /\ 0 <= Missed(MaxLost) + LongestRound + lag
      BY <2>2
    <2>4. SilenceIsBounded'
      BY <2>1, <2>3
         DEF SilenceIsBounded, Within, Missed, LongestRound, MaxInterval
    <2> QED
      BY <1>1, <1>2, <1>3, <2>4 DEF IInv
  <1> QED
    BY <1>4, <1>5

\* The node's tick: a poll in the socket ends the silence, and without one the
\* check finds no more silence than there was.
LEMMA NodeTickIInv ==
    ASSUME IInv, NEW other \in BOOLEAN, NodeTick(other) PROVE IInv'
  <1> DEFINE polled == pending \/ other
             heard == IF polled THEN now ELSE last_valid_poll_tick
  <1>1. PollerIInv'
    BY PollerNextIInv DEF NodeTick, IInv
  <1>2. /\ now' = now /\ last_valid_poll_tick' = heard
        /\ silence' = (IF polled THEN 0 ELSE silence)
        /\ lag' = 0 /\ pending' = FALSE
        /\ UNCHANGED <<pollerVars, lost_in_row, steady>>
    BY DEF NodeTick, Node!ReceiveTimerTick
  <1>3. /\ node_in_lost_mode' \in BOOLEAN
        /\ node_in_lost_mode' => \/ node_in_lost_mode /\ ~polled
                                 \/ Node!Elapsed(now, heard) > NODE_LOST_THRESHOLD_MS
    BY DEF NodeTick, Node!ReceiveTimerTick, Node!EntersLostMode, IInv, NodeTypeOK
  <1>4. NodeTypeOK'
    <2>1. 0 \in 0 .. TickMod /\ 0 \in 0 .. TimerLag
      BY NodeTimes
    <2>2. heard \in Node!Tick
      BY DEF IInv, NodeTypeOK
    <2> QED
      BY <1>2, <1>3, <2>1, <2>2 DEF IInv, NodeTypeOK
  <1>5. HeardTick'
    BY <1>2, NodeTimes DEF IInv, NodeTypeOK, HeardTick, Node!Tick, Node!Elapsed
  <1>6. Silent'
    BY <1>2, <1>3, NodeTimes
       DEF IInv, NodeTypeOK, HeardTick, Silent, Node!Tick, Node!Elapsed
  <1>7. SilenceIsBounded'
    <2>1. CASE polled
      <3>1. silence' = 0
        BY <1>2, <2>1
      <3>2. Missed(lost_in_row) \in Nat /\ timer_elapsed \in Nat
        BY MissedIsNat, PollsOftenEnough, RoundBoundsTimer DEF IInv, NodeTypeOK
      <3>3. 0 <= Missed(lost_in_row) + timer_elapsed
        BY <3>2
      <3> QED
        BY <1>2, <3>1, <3>3
           DEF SilenceIsBounded, Within, IInv, Repeating, pollerVars, timer,
               Missed, LongestRound, MaxInterval
    <2>2. CASE ~polled
      BY <1>2, <2>2
         DEF SilenceIsBounded, Within, IInv, Repeating, pollerVars, timer,
             Missed, LongestRound, MaxInterval
    <2> QED
      BY <2>1, <2>2
  <1> QED
    BY <1>1, <1>4, <1>5, <1>6, <1>7 DEF IInv

\* The clock: silence grows with the age of the timer that bounds it.
LEMMA TimePassesIInv == ASSUME IInv, TimePasses PROVE IInv'
  <1>1. PollerIInv'
    BY PollerNextIInv DEF TimePasses, PollerNext, IInv
  <1>2. /\ lag < TimerLag /\ lag' = lag + 1
        /\ now' = (IF now = TickMod - 1 THEN 0 ELSE now + 1)
        /\ silence' = (IF silence < TickMod THEN silence + 1 ELSE silence)
        /\ UNCHANGED <<last_valid_poll_tick, node_in_lost_mode, pending,
                       lost_in_row, k0_set, poll_repeat>>
        /\ steady' = (IF Repeating /\ steady <= LongestWait THEN steady + 1
                                                            ELSE steady)
    BY DEF TimePasses, Node!TimePasses, Node!NextTick, Node!Longer,
           Node!lifecycle, PollerTimePasses
  <1>3. NodeTypeOK'
    BY <1>2, NodeTimes DEF IInv, NodeTypeOK, Node!Tick
  <1>4. HeardTick'
    BY <1>2, NodeTimes DEF IInv, NodeTypeOK, HeardTick, Node!Tick, Node!Elapsed
  <1>5. Silent'
    BY <1>2, NodeTimes DEF IInv, NodeTypeOK, Silent
  <1>6. Repeating => timer_elapsed' = timer_elapsed + 1
    BY DEF TimePasses, PollerTimePasses, IInv, PollerIInv, TimerFollows
  <1>7. SilenceIsBounded'
    <2>1. /\ Missed(lost_in_row) \in Nat /\ Missed(MaxLost) \in Nat
          /\ LongestRound \in Nat /\ lag \in Nat /\ timer_elapsed \in Nat
          /\ silence \in Nat /\ steady \in Nat
      BY MissedIsNat, RoundIsNat, PollsOftenEnough, RoundBoundsTimer, NodeTimes
         DEF IInv, NodeTypeOK
    <2>2. silence' <= silence + 1 /\ steady' <= steady + 1
          /\ silence' \in Nat /\ steady' \in Nat
      BY <1>2, <2>1
    <2>3. ASSUME NEW bound \in Nat, Within(bound)
          PROVE  silence' <= bound + 1 \/ steady' <= bound + 1
      BY <2>1, <2>2, <2>3 DEF Within
    <2>4. (Repeating /\ ~pending) =>
             \/ silence' <= Missed(lost_in_row) + timer_elapsed'
             \/ steady' <= Missed(lost_in_row) + timer_elapsed'
      BY <1>6, <2>1, <2>3 DEF IInv, SilenceIsBounded
    <2>5. pending => \/ silence' <= Missed(MaxLost) + LongestRound + lag'
                     \/ steady' <= Missed(MaxLost) + LongestRound + lag'
      BY <1>2, <2>1, <2>3 DEF IInv, SilenceIsBounded
    <2>6. ~Repeating => steady' = 0
      BY <1>2 DEF IInv, SilenceIsBounded
    <2> QED
      BY <1>2, <2>4, <2>5, <2>6
         DEF SilenceIsBounded, Within, Repeating, Missed, LongestRound, MaxInterval
  <1> QED
    BY <1>1, <1>3, <1>4, <1>5, <1>7 DEF IInv

\* Every step of the two together keeps the invariant.
LEMMA NextIInv == IInv /\ [Next]_vars => IInv'
  <1> SUFFICES ASSUME IInv, [Next]_vars PROVE IInv'
    OBVIOUS
  <1>1. CASE PollArrives
    BY <1>1, PollArrivesIInv
  <1>2. ASSUME NEW sent \in BOOLEAN, PollLost(sent) PROVE IInv'
    BY <1>2, PollLostIInv
  <1>3. CASE ManagerOperator
    BY <1>3, OperatorIInv
  <1>4. ASSUME NEW other \in BOOLEAN, NodeTick(other) PROVE IInv'
    BY <1>4, NodeTickIInv
  <1>5. CASE TimePasses
    BY <1>5, TimePassesIInv
  <1>6. CASE UNCHANGED vars
    <2>1. PollerIInv'
      BY <1>6, PollerNextIInv DEF vars, IInv
    <2>2. UNCHANGED <<pollerVars, nodeVars, pending, lost_in_row, steady>>
      BY <1>6 DEF vars
    <2>3. NodeTypeOK' /\ HeardTick' /\ Silent'
      BY <2>2 DEF nodeVars, IInv, NodeTypeOK, HeardTick, Silent, Node!Elapsed
    <2>4. SilenceIsBounded'
      BY <2>2 DEF nodeVars, pollerVars, timer, IInv, SilenceIsBounded, Within,
                  Repeating, Missed, LongestRound, MaxInterval
    <2> QED
      BY <2>1, <2>3, <2>4 DEF IInv
  <1> QED
    BY <1>1, <1>2, <1>3, <1>4, <1>5, <1>6 DEF Next

\* The inductive invariant of the poller and the node together.
THEOREM IInvHolds == Spec => []IInv
  BY InitIInv, NextIInv, PTL DEF Spec

\* A node polled on the timer for LongestWait is not in Lost Mode: the silence
\* is bounded by the polls that were lost, the poller's round and the lag of
\* the node's own timer, which together do not reach node_lost_timeout
\* (RearmPollTimer, ReceiveTimerTick).
THEOREM PolledNodeStaysFound == Spec => []PolledNodeIsNotLost
  <1>1. IInv => PolledNodeIsNotLost
    <2> SUFFICES ASSUME IInv, steady > LongestWait
                 PROVE  silence <= NODE_LOST_THRESHOLD_MS
      BY NodeTimes DEF PolledNodeIsNotLost, IInv, Silent, NodeTypeOK
    <2>1. /\ Missed(lost_in_row) \in Nat /\ Missed(MaxLost) \in Nat
          /\ LongestRound \in Nat
          /\ Missed(lost_in_row) <= Missed(MaxLost)
      BY MissedIsNat, MissedGrows, RoundIsNat, PollsOftenEnough
         DEF IInv, NodeTypeOK
    <2>2. /\ timer_elapsed \in Nat /\ timer_elapsed <= LongestRound
          /\ silence \in Nat /\ steady \in Nat
          /\ lag \in Nat /\ lag <= TimerLag /\ TimerLag \in Nat
      BY RoundBoundsTimer, NodeTimes DEF IInv, NodeTypeOK
    <2>3. LongestWait = Missed(MaxLost) + LongestRound + TimerLag
      BY LongestWaitIs
    <2>4. LongestWait <= NODE_LOST_THRESHOLD_MS /\ NODE_LOST_THRESHOLD_MS \in Nat
      BY PollsOftenEnough, NodeTimes
    <2>5. CASE pending
      BY <2>1, <2>2, <2>3, <2>4, <2>5 DEF IInv, SilenceIsBounded, Within
    <2>6. CASE ~pending
      <3>1. Repeating
        BY <2>1, <2>2, <2>3 DEF IInv, SilenceIsBounded
      <3> QED
        BY <2>1, <2>2, <2>3, <2>4, <2>6, <3>1 DEF IInv, SilenceIsBounded, Within
    <2> QED
      BY <2>5, <2>6
  <1> QED
    BY <1>1, IInvHolds, PTL

===============================================================================
