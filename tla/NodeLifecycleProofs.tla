-------------------------- MODULE NodeLifecycleProofs --------------------------
(***************************************************************************)
(* Lost Mode, for every timeout, poll time, timer lag and tick width.       *)
(*                                                                          *)
(* The two tick differences the code reads are known only modulo TickMod.   *)
(* LInv ties each to the time that really passed: HeardTick and             *)
(* AnnouncedTick as long as that is less than a wrap, and, for the          *)
(* differences a wrap made too small while keys or socket were away,        *)
(* NotYetNoticed and NotYetDue: the first tick of the timer after the       *)
(* outage finds the difference small, and from there on it cannot wrap.     *)
(***************************************************************************)
EXTENDS NodeLifecycle, TLAPS

SinceHeard == Elapsed(now, last_valid_poll_tick)
SinceSent == Elapsed(now, last_lost_tx_tick)
Armed == node_is_live /\ keys_valid /\ socket_initialized

HeardTick == silence < TickMod => SinceHeard = silence
AnnouncedTick == since_announce < TickMod => SinceSent = since_announce

\* An announce is older than the poll or the click that ended Lost Mode.
AnnouncedBeforeHeard == ~node_in_lost_mode => since_announce >= silence

NotYetNoticed ==
    Armed /\ ~node_in_lost_mode =>
        \/ unheard <= lag
        \/ /\ SinceHeard <= NODE_LOST_THRESHOLD_MS + lag
           /\ unheard <= SinceHeard + TimerLag

NotYetDue ==
    Armed /\ node_in_lost_mode =>
        \/ unannounced <= lag
        \/ /\ SinceSent <= POLL_TIME_MS + lag
           /\ unannounced <= SinceSent + TimerLag

LInv ==
    /\ LifecycleTypeOK
    /\ HeardTick
    /\ AnnouncedTick
    /\ AnnouncedBeforeHeard
    /\ LostMeansSilent
    /\ NotYetNoticed
    /\ NotYetDue

-------------------------------------------------------------------------------
\* A tick difference is a tick, is 0 only at the time itself, and grows by one
\* with the clock until it wraps.
LEMMA ElapsedTicks ==
    ASSUME NEW later \in Tick, NEW earlier \in Tick
    PROVE  /\ Elapsed(later, earlier) \in Tick
           /\ Elapsed(later, later) = 0
  BY LifecycleTimes DEF Elapsed, Tick

\* One tick adds one to a difference, until it wraps to zero.
LEMMA ElapsedNextTick ==
    ASSUME now \in Tick, NEW earlier \in Tick
    PROVE  /\ NextTick \in Tick
           /\ Elapsed(NextTick, earlier) =
                IF Elapsed(now, earlier) = TickMod - 1
                  THEN 0 ELSE Elapsed(now, earlier) + 1
  BY LifecycleTimes DEF Elapsed, Tick, NextTick

\* What the code reads is a tick difference.
LEMMA DifferencesAreTicks ==
    ASSUME LInv
    PROVE  SinceHeard \in Tick /\ SinceSent \in Tick
  BY ElapsedTicks DEF LInv, LifecycleTypeOK, SinceHeard, SinceSent

-------------------------------------------------------------------------------
\* The program starts silent, unannounced and not live.
LEMMA InitEstablishesLInv == Init => LInv
  <1> SUFFICES ASSUME Init
               PROVE  LInv
    OBVIOUS
  <1>1. LifecycleTypeOK
    <2>1. /\ keys_valid \in BOOLEAN /\ socket_initialized \in BOOLEAN
          /\ node_is_live \in BOOLEAN /\ node_in_lost_mode \in BOOLEAN
      BY DEF Init
    <2>2. /\ now \in Tick /\ last_valid_poll_tick \in Tick
          /\ last_lost_tx_tick \in Tick
      BY LifecycleTimes DEF Init, Tick
    <2>3. QED
      BY <2>1, <2>2, LifecycleTimes DEF Init, LifecycleTypeOK
  <1>2. HeardTick /\ AnnouncedTick
    BY LifecycleTimes DEF Init, HeardTick, AnnouncedTick
  <1>3. AnnouncedBeforeHeard
    BY LifecycleTimes DEF Init, AnnouncedBeforeHeard
  <1>4. LostMeansSilent /\ NotYetNoticed /\ NotYetDue
    BY DEF Init, LostMeansSilent, NotYetNoticed, NotYetDue, Armed
  <1>5. QED
    BY <1>1, <1>2, <1>3, <1>4 DEF LInv

\* What a tick that reaches the lifecycle check keeps.
LEMMA TimerTickKeepsLInv ==
    ASSUME LInv, NEW polled \in BOOLEAN, ReceiveTimerTick(polled)
    PROVE  LInv'
  <1> DEFINE armed == node_is_live /\ keys_valid
             heard == IF polled THEN now ELSE last_valid_poll_tick
             still == node_in_lost_mode /\ ~polled
             enters == armed /\ EntersLostMode(heard, still)
             lost == still \/ enters
             announces == armed /\ lost /\ (enters \/ AnnounceDue)
  <1>1. /\ last_valid_poll_tick' = heard
        /\ node_in_lost_mode' = lost
        /\ last_lost_tx_tick' = IF announces THEN now ELSE last_lost_tx_tick
        /\ silence' = IF polled THEN 0 ELSE silence
        /\ unheard' = IF polled \/ ~socket_initialized THEN 0 ELSE unheard
        /\ unannounced' =
             IF announces \/ ~socket_initialized THEN 0 ELSE unannounced
        /\ since_announce' = IF announces THEN 0 ELSE since_announce
        /\ socket_initialized' = TRUE /\ lag' = 0
        /\ now' = now /\ keys_valid' = keys_valid /\ node_is_live' = node_is_live
    BY DEF ReceiveTimerTick
  <1>2. LifecycleTypeOK
    BY DEF LInv
  <1>3. heard \in Tick /\ last_lost_tx_tick \in Tick /\ now \in Tick
    BY <1>2 DEF LifecycleTypeOK
  <1>4. /\ Elapsed(now, heard) \in Tick /\ SinceHeard \in Tick
        /\ SinceSent \in Tick /\ Elapsed(now, now) = 0
    BY <1>2, <1>3, ElapsedTicks DEF LifecycleTypeOK, SinceHeard, SinceSent
  <1>5. /\ SinceHeard' = IF polled THEN 0 ELSE SinceHeard
        /\ SinceSent' = IF announces THEN 0 ELSE SinceSent
    BY <1>1, <1>4 DEF SinceHeard, SinceSent, Elapsed
  <1>6. enters => /\ ~polled /\ ~node_in_lost_mode
                  /\ SinceHeard > NODE_LOST_THRESHOLD_MS
    BY <1>4, LifecycleTimes DEF EntersLostMode, SinceHeard
  <1>7. silence \in Nat /\ SinceHeard <= silence
    BY <1>2, <1>4, LifecycleTimes DEF LInv, HeardTick, LifecycleTypeOK, Tick
  <1> HIDE DEF enters
  <1>8. LifecycleTypeOK'
    BY <1>1, <1>2, <1>3, LifecycleTimes DEF LifecycleTypeOK
  <1>9. HeardTick' /\ AnnouncedTick'
    BY <1>1, <1>5 DEF LInv, HeardTick, AnnouncedTick
  <1>10. LostMeansSilent'
    <2> SUFFICES ASSUME node_in_lost_mode'
                 PROVE  silence' > NODE_LOST_THRESHOLD_MS
      BY DEF LostMeansSilent
    <2>1. still \/ enters
      BY <1>1
    <2>2. ~polled /\ silence' = silence
      BY <1>1, <1>6, <2>1
    <2>3. CASE node_in_lost_mode
      BY <2>2, <2>3 DEF LInv, LostMeansSilent
    <2>4. CASE enters
      BY <2>2, <2>4, <1>4, <1>6, <1>7, LifecycleTimes DEF Tick
    <2>5. QED
      BY <2>1, <2>3, <2>4
  <1>11. AnnouncedBeforeHeard'
    <2> SUFFICES ASSUME ~node_in_lost_mode'
                 PROVE  since_announce' >= silence'
      BY DEF AnnouncedBeforeHeard
    <2>1. ~still /\ ~announces
      BY <1>1
    <2>2. since_announce' = since_announce /\ since_announce \in Nat
      BY <1>1, <1>2, <2>1, LifecycleTimes DEF LifecycleTypeOK
    <2>3. CASE polled
      BY <1>1, <2>2, <2>3
    <2>4. CASE ~polled
      BY <1>1, <2>1, <2>2, <2>4 DEF LInv, AnnouncedBeforeHeard
    <2>5. QED
      BY <2>3, <2>4
  <1>12. NotYetNoticed'
    <2> SUFFICES ASSUME Armed', ~node_in_lost_mode', ~polled, socket_initialized
                 PROVE  /\ SinceHeard <= NODE_LOST_THRESHOLD_MS
                        /\ unheard <= SinceHeard + TimerLag
      BY <1>1, <1>5, LifecycleTimes DEF NotYetNoticed
    <2>1. Armed /\ ~node_in_lost_mode /\ ~enters
      BY <1>1 DEF Armed
    <2>2. SinceHeard <= NODE_LOST_THRESHOLD_MS
      BY <2>1, <1>4, LifecycleTimes
         DEF enters, EntersLostMode, Armed, SinceHeard, Tick
    <2>3. QED
      BY <2>1, <2>2, <1>2, <1>4, LifecycleTimes
         DEF LInv, NotYetNoticed, LifecycleTypeOK, Tick
  <1>13. NotYetDue'
    <2> SUFFICES ASSUME Armed', node_in_lost_mode', ~announces, socket_initialized
                 PROVE  /\ SinceSent <= POLL_TIME_MS
                        /\ unannounced <= SinceSent + TimerLag
      BY <1>1, <1>5, LifecycleTimes DEF NotYetDue
    <2>1. Armed /\ node_in_lost_mode /\ ~AnnounceDue
      BY <1>1 DEF Armed
    <2>2. SinceSent <= POLL_TIME_MS
      BY <2>1, <1>4, LifecycleTimes DEF AnnounceDue, SinceSent, Tick
    <2>3. QED
      BY <2>1, <2>2, <1>2, <1>4, LifecycleTimes
         DEF LInv, NotYetDue, LifecycleTypeOK, Tick
  <1>14. QED
    BY <1>8, <1>9, <1>10, <1>11, <1>12, <1>13 DEF LInv

\* What a step of the clock keeps.
LEMMA TimePassesKeepsLInv ==
    ASSUME LInv, TimePasses
    PROVE  LInv'
  <1>1. LifecycleTypeOK
    BY DEF LInv
  <1>2. /\ SinceHeard \in Tick /\ SinceSent \in Tick /\ now' \in Tick
        /\ SinceHeard' = IF SinceHeard = TickMod - 1 THEN 0 ELSE SinceHeard + 1
        /\ SinceSent' = IF SinceSent = TickMod - 1 THEN 0 ELSE SinceSent + 1
    <2>1. /\ now \in Tick /\ last_valid_poll_tick \in Tick
          /\ last_lost_tx_tick \in Tick
      BY <1>1 DEF LifecycleTypeOK
    <2>2. /\ now' = NextTick
          /\ last_valid_poll_tick' = last_valid_poll_tick
          /\ last_lost_tx_tick' = last_lost_tx_tick
      BY DEF TimePasses, lifecycle
    <2>3. SinceHeard \in Tick /\ SinceSent \in Tick
      BY <2>1, ElapsedTicks DEF SinceHeard, SinceSent
    <2>4. /\ SinceHeard' = Elapsed(NextTick, last_valid_poll_tick)
          /\ SinceSent' = Elapsed(NextTick, last_lost_tx_tick)
      BY <2>2 DEF SinceHeard, SinceSent, Elapsed
    <2>5. QED
      BY <2>1, <2>2, <2>3, <2>4, ElapsedNextTick DEF SinceHeard, SinceSent
  <1>3. /\ lag < TimerLag /\ lag' = lag + 1
        /\ silence' = Longer(silence) /\ unheard' = Longer(unheard)
        /\ unannounced' = Longer(unannounced)
        /\ since_announce' = Longer(since_announce)
        /\ keys_valid' = keys_valid /\ socket_initialized' = socket_initialized
        /\ node_is_live' = node_is_live
        /\ node_in_lost_mode' = node_in_lost_mode
        /\ last_valid_poll_tick' = last_valid_poll_tick
        /\ last_lost_tx_tick' = last_lost_tx_tick
    BY DEF TimePasses, lifecycle
  <1>4. LifecycleTypeOK'
    BY <1>1, <1>2, <1>3, LifecycleTimes DEF LifecycleTypeOK, Longer
  <1>5. HeardTick' /\ AnnouncedTick'
    BY <1>1, <1>2, <1>3, LifecycleTimes
       DEF LInv, HeardTick, AnnouncedTick, LifecycleTypeOK, Longer, Tick
  <1>6. AnnouncedBeforeHeard' /\ LostMeansSilent'
    BY <1>1, <1>3, LifecycleTimes
       DEF LInv, AnnouncedBeforeHeard, LostMeansSilent, LifecycleTypeOK, Longer
  <1>7. NotYetNoticed'
    BY <1>1, <1>2, <1>3, LifecycleTimes
       DEF LInv, NotYetNoticed, Armed, LifecycleTypeOK, Longer, Tick
  <1>8. NotYetDue'
    BY <1>1, <1>2, <1>3, LifecycleTimes
       DEF LInv, NotYetDue, Armed, LifecycleTypeOK, Longer, Tick
  <1>9. QED
    BY <1>4, <1>5, <1>6, <1>7, <1>8 DEF LInv

\* What the buttons keep.
LEMMA ButtonsKeepLInv ==
    ASSUME LInv,
           \/ ReceiveTimerTickNoSocket
           \/ ButtonGoLiveClick
           \/ SendOpensSocket
           \/ \E valid \in BOOLEAN : ButtonSelectK0Click(valid)
           \/ ButtonDeprovisionClick
           \/ \E ok \in BOOLEAN : ButtonSelectNicClick(ok)
    PROVE  LInv'
  <1>1. LifecycleTypeOK
    BY DEF LInv
  <1>2. now' = now /\ last_lost_tx_tick' = last_lost_tx_tick
        /\ since_announce' = since_announce
    BY DEF ReceiveTimerTickNoSocket, ButtonGoLiveClick, SendOpensSocket,
           ButtonSelectK0Click, ButtonDeprovisionClick, ButtonSelectNicClick,
           lifecycle, history
  <1>3. SinceSent' = SinceSent /\ AnnouncedTick'
    BY <1>2 DEF SinceSent, Elapsed, LInv, AnnouncedTick
  <1>4. CASE ButtonGoLiveClick
    <2>1. SinceHeard' = 0
      BY <1>1, <1>2, <1>4, ElapsedTicks
         DEF ButtonGoLiveClick, SinceHeard, Elapsed, LifecycleTypeOK
    <2>2. /\ silence' = 0 /\ unheard' = 0 /\ unannounced' = 0 /\ lag' = lag
          /\ node_in_lost_mode' = FALSE /\ lag \in Nat
      BY <1>1, <1>4, LifecycleTimes DEF ButtonGoLiveClick, LifecycleTypeOK
    <2>3. LifecycleTypeOK'
      <3>1. /\ keys_valid' \in BOOLEAN /\ socket_initialized' \in BOOLEAN
            /\ node_is_live' \in BOOLEAN /\ node_in_lost_mode' \in BOOLEAN
            /\ last_valid_poll_tick' \in Tick
        BY <1>1, <1>4 DEF ButtonGoLiveClick, LifecycleTypeOK
      <3>2. QED
        BY <1>1, <1>2, <2>2, <3>1, LifecycleTimes DEF LifecycleTypeOK
    <2>4. HeardTick'
      BY <2>1, <2>2 DEF HeardTick
    <2>5. AnnouncedBeforeHeard'
      BY <1>1, <1>2, <2>2, LifecycleTimes
         DEF AnnouncedBeforeHeard, LifecycleTypeOK
    <2>6. LostMeansSilent' /\ NotYetNoticed' /\ NotYetDue'
      BY <2>2 DEF LostMeansSilent, NotYetNoticed, NotYetDue
    <2>7. QED
      BY <1>3, <2>3, <2>4, <2>5, <2>6 DEF LInv
  <1>5. CASE ~ButtonGoLiveClick
    <2>1. /\ node_in_lost_mode' = node_in_lost_mode
          /\ node_is_live' = node_is_live /\ silence' = silence
          /\ last_valid_poll_tick' = last_valid_poll_tick
      BY <1>5
         DEF ReceiveTimerTickNoSocket, SendOpensSocket,
             ButtonSelectK0Click, ButtonDeprovisionClick, ButtonSelectNicClick,
             lifecycle, history
    <2>2. SinceHeard' = SinceHeard
      BY <1>2, <2>1 DEF SinceHeard, Elapsed
    <2>3. \/ UNCHANGED <<unheard, unannounced, lag>> /\ (Armed' => Armed)
          \/ ~Armed'
          \/ unheard' = 0 /\ unannounced' = 0 /\ lag' = lag
      BY <1>1, <1>5
         DEF ReceiveTimerTickNoSocket, SendOpensSocket,
             ButtonSelectK0Click, ButtonDeprovisionClick, ButtonSelectNicClick,
             lifecycle, history, Armed, LifecycleTypeOK
    <2>4. LifecycleTypeOK'
      <3>1. /\ keys_valid' \in BOOLEAN /\ socket_initialized' \in BOOLEAN
            /\ unheard' \in {unheard, 0} /\ unannounced' \in {unannounced, 0}
            /\ lag' \in {lag, 0}
        BY <1>1, <1>5
           DEF ReceiveTimerTickNoSocket, SendOpensSocket,
               ButtonSelectK0Click, ButtonDeprovisionClick,
               ButtonSelectNicClick, history, LifecycleTypeOK
      <3>2. QED
        BY <1>1, <1>2, <2>1, <3>1, LifecycleTimes DEF LifecycleTypeOK
    <2>5. HeardTick' /\ AnnouncedBeforeHeard' /\ LostMeansSilent'
      BY <1>2, <2>1, <2>2
         DEF LInv, HeardTick, AnnouncedBeforeHeard, LostMeansSilent
    <2>6. NotYetNoticed' /\ NotYetDue'
      BY <1>1, <1>3, <2>1, <2>2, <2>3 DEF LInv, NotYetNoticed, NotYetDue,
         LifecycleTypeOK
    <2>7. QED
      BY <1>3, <2>4, <2>5, <2>6 DEF LInv
  <1>6. QED
    BY <1>4, <1>5

-------------------------------------------------------------------------------
\* Every step keeps the inductive invariant.
LEMMA NextKeepsLInv == LInv /\ [Next]_vars => LInv'
  <1> SUFFICES ASSUME LInv, [Next]_vars
               PROVE  LInv'
    OBVIOUS
  <1>1. CASE \E polled \in BOOLEAN : ReceiveTimerTick(polled)
    BY <1>1, TimerTickKeepsLInv
  <1>2. CASE TimePasses
    BY <1>2, TimePassesKeepsLInv
  <1>3. CASE \/ ReceiveTimerTickNoSocket
             \/ ButtonGoLiveClick
             \/ SendOpensSocket
             \/ \E valid \in BOOLEAN : ButtonSelectK0Click(valid)
             \/ ButtonDeprovisionClick
             \/ \E ok \in BOOLEAN : ButtonSelectNicClick(ok)
    BY <1>3, ButtonsKeepLInv
  <1>4. CASE UNCHANGED vars
    BY <1>4
       DEF vars, LInv, LifecycleTypeOK, HeardTick, AnnouncedTick,
           AnnouncedBeforeHeard, LostMeansSilent, NotYetNoticed, NotYetDue,
           Armed, SinceHeard, SinceSent, Elapsed
  <1>5. QED
    BY <1>1, <1>2, <1>3, <1>4 DEF Next

\* The invariant of Lost Mode holds in every reachable state.
THEOREM LInvHolds == Spec => []LInv
  BY InitEstablishesLInv, NextKeepsLInv, PTL DEF Spec

\* Every tick kept is a 32-bit tick, and the flags are flags.
THEOREM LifecycleTypeCorrect == Spec => []LifecycleTypeOK
  <1>1. LInv => LifecycleTypeOK
    BY DEF LInv
  <1>2. QED
    BY <1>1, LInvHolds, PTL

\* A node is in Lost Mode only after more than node_lost_timeout without a
\* poll, across outages of keys or socket and wraps of the tick counter.
THEOREM LostOnlyWhenSilent == Spec => []LostMeansSilent
  <1>1. LInv => LostMeansSilent
    BY DEF LInv
  <1>2. QED
    BY <1>1, LInvHolds, PTL

\* A node that can hear and hears nothing is in Lost Mode in bounded time.
THEOREM LongSilenceIsNoticed == Spec => []SilenceIsNoticed
  <1>1. LInv => SilenceIsNoticed
    BY LifecycleTimes, DifferencesAreTicks
       DEF LInv, NotYetNoticed, Armed, SilenceIsNoticed, LifecycleTypeOK, Tick
  <1>2. QED
    BY <1>1, LInvHolds, PTL

\* A lost node is never silent for longer than a poll time and two rounds of
\* the timer.
THEOREM LostNodeAnnounces == Spec => []AnnouncesKeepComing
  <1>1. LInv => AnnouncesKeepComing
    BY LifecycleTimes, DifferencesAreTicks
       DEF LInv, NotYetDue, Armed, AnnouncesKeepComing, LifecycleTypeOK, Tick
  <1>2. QED
    BY <1>1, LInvHolds, PTL

\* node_lost announces keep their distance.
THEOREM LostAnnouncesAreSpaced == Spec => AnnouncesSpaced
  <1> DEFINE Spaced == (since_announce > 0 /\ since_announce' = 0)
                          => since_announce >= POLL_TIME_MS
  <1>1. LInv /\ [Next]_vars => [Spaced]_vars
    <2> SUFFICES ASSUME LInv, Next, since_announce > 0, since_announce' = 0
                 PROVE  since_announce >= POLL_TIME_MS
      OBVIOUS
    <2>1. LifecycleTypeOK
      BY DEF LInv
    <2>2. PICK polled \in BOOLEAN : ReceiveTimerTick(polled)
      BY <2>1, LifecycleTimes
         DEF Next, TimePasses, Longer, ReceiveTimerTickNoSocket,
             ButtonGoLiveClick, SendOpensSocket, ButtonSelectK0Click,
             ButtonDeprovisionClick, ButtonSelectNicClick, history,
             LifecycleTypeOK
    <2>3. SinceHeard \in Tick /\ SinceSent \in Tick /\ Elapsed(now, now) = 0
      BY <2>1, ElapsedTicks DEF SinceHeard, SinceSent, LifecycleTypeOK
    <2>4. \/ SinceSent >= POLL_TIME_MS
          \/ ~node_in_lost_mode /\ SinceHeard > NODE_LOST_THRESHOLD_MS
      BY <2>2, <2>3, LifecycleTimes
         DEF ReceiveTimerTick, EntersLostMode, AnnounceDue, SinceHeard,
             SinceSent
    <2>5. QED
      BY <2>1, <2>3, <2>4, LifecycleTimes
         DEF LInv, HeardTick, AnnouncedTick, AnnouncedBeforeHeard,
             LifecycleTypeOK, Tick
  <1>2. QED
    BY <1>1, LInvHolds, PTL DEF Spec, AnnouncesSpaced

===============================================================================
