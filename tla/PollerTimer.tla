------------------------------ MODULE PollerTimer ------------------------------
(***************************************************************************)
(* The poller program (sig-net-poller-main-form.cpp): a manager that polls  *)
(* by hand or on a repeat timer, every GetPollRepeatMs and a random jitter. *)
(*                                                                          *)
(* The timer is a VCL TTimer used as a one-shot: its handler switches it    *)
(* off, polls and arms it again with a new interval.  Setting Enabled       *)
(* starts the interval from now; it fires when the interval is over and the *)
(* message loop gets to it, at most TimerLag later.  Keys come and go, and  *)
(* a poll may fail: the form's fields do not parse, the packet cannot be    *)
(* built, the socket refuses it on every interface.                         *)
(*                                                                          *)
(* The pair a poll is stamped with is in SenderSequence.  keys_valid always *)
(* has the value of k0_set.  unpolled is a history variable.                *)
(***************************************************************************)
EXTENDS Integers

CONSTANTS
    RepeatMs,   \* settings of SpinPollRepeatMs, 10 .. 10000
    JitterMs,   \* settings of SpinPollJitterMs, 0 .. 1000
    MaxRepeat,  \* the largest of them
    MaxJitter,
    PollerLag   \* how late the timer's message may be handled

ASSUME PollerTimes ==
    /\ MaxRepeat \in Nat /\ RepeatMs \subseteq 1 .. MaxRepeat
    /\ MaxJitter \in Nat /\ JitterMs \subseteq 0 .. MaxJitter
    /\ PollerLag \in Nat

VARIABLES
    k0_set,
    poll_repeat,    \* CheckPollRepeat->Checked
    enable_jitter,  \* CheckPollEnableJitter->Checked
    repeat_ms,      \* SpinPollRepeatMs->Value
    jitter_ms,      \* SpinPollJitterMs->Value
    timer_enabled,  \* TimerPollRepeat->Enabled
    timer_interval, \* TimerPollRepeat->Interval
    timer_elapsed,  \* since it was enabled
    unpolled        \* time since a poll was tried, or repeating began

settings == <<enable_jitter, repeat_ms, jitter_ms>>
timer == <<timer_enabled, timer_interval, timer_elapsed>>
pollerVars == <<k0_set, poll_repeat, settings, timer, unpolled>>

MaxInterval == MaxRepeat + MaxJitter
Repeating == k0_set /\ poll_repeat

PollerInit ==
    /\ k0_set = FALSE
    /\ poll_repeat = FALSE
    /\ enable_jitter = FALSE
    /\ repeat_ms \in RepeatMs
    /\ jitter_ms \in JitterMs
    /\ timer_enabled = FALSE
    /\ timer_interval = repeat_ms
    /\ timer_elapsed = 0
    /\ unpolled = 0

-------------------------------------------------------------------------------
\* Mutant of ComputeNextPollIntervalMs: the jitter is added twice over.
ComputeNextPollIntervalMsTwice ==
    {repeat_ms + (IF enable_jitter THEN 2 * j ELSE 0) : j \in 0 .. jitter_ms}

\* The intervals the random jitter allows.
ComputeNextPollIntervalMs ==
    {repeat_ms + (IF enable_jitter THEN j ELSE 0) : j \in 0 .. jitter_ms}

\* With the check box and the keys as they are now.
RearmPollTimer ==
    /\ timer_interval' \in ComputeNextPollIntervalMs
    /\ timer_enabled' = Repeating
    /\ timer_elapsed' = 0

StopTimer ==
    /\ timer_enabled' = FALSE
    /\ timer_elapsed' = 0
    /\ UNCHANGED timer_interval

\* Mutant of UpdateK0DependentControls: the check mark outlives the keys.
UpdateK0DependentControlsKeepsMark(set) ==
    IF set THEN UNCHANGED <<poll_repeat, timer>>
           ELSE UNCHANGED poll_repeat /\ StopTimer

\* Without keys the timer stops and the check box is cleared.
UpdateK0DependentControls(set) ==
    IF set THEN UNCHANGED <<poll_repeat, timer>>
           ELSE poll_repeat' = FALSE /\ StopTimer

\* The dialog was confirmed; valid says whether every key could be derived.
ButtonSelectK0Click(valid) ==
    /\ k0_set' = valid
    /\ UpdateK0DependentControls(valid)
    /\ unpolled' = IF valid THEN unpolled ELSE 0
    /\ UNCHANGED settings

ButtonDeprovisionClick ==
    /\ k0_set' = FALSE
    /\ UpdateK0DependentControls(FALSE)
    /\ unpolled' = 0
    /\ UNCHANGED settings

\* The box can be clicked while there are keys: its group is disabled without.
CheckPollRepeatClick ==
    /\ k0_set
    /\ poll_repeat' = ~poll_repeat
    /\ IF poll_repeat THEN StopTimer
       ELSE /\ timer_interval' \in ComputeNextPollIntervalMs
            /\ timer_enabled' = TRUE
            /\ timer_elapsed' = 0
    /\ unpolled' = 0
    /\ UNCHANGED <<k0_set, settings>>

\* No event of these controls is wired: an armed timer keeps its interval.
ChangeSettings ==
    /\ k0_set
    /\ enable_jitter' \in BOOLEAN
    /\ repeat_ms' \in RepeatMs
    /\ jitter_ms' \in JitterMs
    /\ UNCHANGED <<k0_set, poll_repeat, timer, unpolled>>

TimerDue == timer_enabled /\ timer_elapsed >= timer_interval

\* SendPollPacket is tried, whatever comes of it the timer is armed again.
TimerPollRepeatTimer(sent) ==
    /\ TimerDue
    /\ unpolled' = IF Repeating THEN 0 ELSE unpolled
    /\ IF Repeating THEN RearmPollTimer ELSE StopTimer
    /\ UNCHANGED <<k0_set, poll_repeat, settings>>

\* By hand; the repeat timer is not touched.
ButtonSendPollClick(sent) ==
    /\ k0_set
    /\ UNCHANGED pollerVars

\* A timer that is due is handled before more than PollerLag has passed.
PollerTimePasses ==
    /\ timer_enabled => timer_elapsed < timer_interval + PollerLag
    /\ timer_elapsed' = IF timer_enabled THEN timer_elapsed + 1 ELSE 0
    /\ unpolled' = IF Repeating THEN unpolled + 1 ELSE unpolled
    /\ UNCHANGED <<k0_set, poll_repeat, settings, timer_enabled, timer_interval>>

\* Everything but a poll and the clock.
PollerOperator ==
    \/ \E valid \in BOOLEAN : ButtonSelectK0Click(valid)
    \/ ButtonDeprovisionClick
    \/ CheckPollRepeatClick
    \/ ChangeSettings

Polls(sent) == TimerPollRepeatTimer(sent) \/ ButtonSendPollClick(sent)

PollerNext ==
    \/ PollerOperator
    \/ \E sent \in BOOLEAN : Polls(sent)
    \/ PollerTimePasses

PollerSpec == PollerInit /\ [][PollerNext]_pollerVars

-------------------------------------------------------------------------------
(***************************************************************************)
(* Properties                                                               *)
(***************************************************************************)

\* Types; an interval is never longer than the settings allow.
PollerTypeOK ==
    /\ k0_set \in BOOLEAN /\ poll_repeat \in BOOLEAN /\ enable_jitter \in BOOLEAN
    /\ repeat_ms \in RepeatMs /\ jitter_ms \in JitterMs
    /\ timer_enabled \in BOOLEAN
    /\ timer_interval \in 1 .. MaxInterval
    /\ timer_elapsed \in 0 .. MaxInterval + PollerLag
    /\ unpolled \in Nat

\* A manager told to repeat polls again after the longest interval at the
\* latest: keys selected again, lost, polls that fail, settings changed and
\* clicks in between never leave the box checked and the timer dead, nor the
\* timer running for a box that is not checked (CheckPollRepeatClick,
\* TimerPollRepeatTimer, RearmPollTimer, UpdateK0DependentControls).
RepeatingPolls ==
    /\ timer_enabled <=> Repeating
    /\ poll_repeat => k0_set
    /\ Repeating => unpolled <= MaxInterval + PollerLag

===============================================================================
