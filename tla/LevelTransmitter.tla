---------------------------- MODULE LevelTransmitter ----------------------------
(***************************************************************************)
(* The level transmitter program (sig-net-tid-level-tx-main-form.cpp): what *)
(* sends a TID_LEVEL datagram (a button, a fader, the dynamic pattern's 10  *)
(* ms timer, the keep-alive timer), what makes one bad on purpose, and the  *)
(* announce, which shares the counters but nothing else.                    *)
(*                                                                          *)
(* The keep-alive timer is periodic; setting Enabled anew starts its period *)
(* again.  It is handled at most TxLag after it is due.  A send fails when  *)
(* the form's fields do not parse or the socket refuses the datagram on     *)
(* every interface it is tried on.  keys_valid always has the value of      *)
(* k0_set.                                                                  *)
(*                                                                          *)
(* The module implements SenderSequence with one program (Sequence, below). *)
(* tuids_drawn, position and wire are its history; untried, unheard and     *)
(* good_sent are this module's.                                             *)
(***************************************************************************)
EXTENDS Integers

CONSTANTS
    Tuid,
    SenderId,          \* the Sender-IDs in use, pairs <<tuid, endpoint>>
    MaxSequence,
    MaxTransmissions,  \* bound on the datagrams that get out
    KeepAliveMs,       \* 900
    TxLag,
    MaxLevel,          \* 255
    BadFrameInterval   \* settings of EditBadFrameInterval, 1 .. 1000000

ASSUME TransmitterTimes == KeepAliveMs \in Nat \ {0} /\ TxLag \in Nat
ASSUME LevelAssumption ==
    MaxLevel \in Nat \ {0} /\ BadFrameInterval \subseteq Nat \ {0}

VARIABLES
    tuid, endpoint, session_id, sequence_num,
    k0_set,
    dynamic,                \* ComboBoxDmxMode, and TimerHeartBeat->Enabled
    rgb,                    \* rgb_r, rgb_g, rgb_b
    rgb_phase,
    keep_alive,             \* CheckKeepAlive->Checked
    keep_alive_enabled,     \* TimerKeepAlive->Enabled
    keep_alive_elapsed,     \* since its period began
    insert_bad_frames,      \* CheckInsertBadFrames->Checked
    bad_interval,           \* EditBadFrameInterval
    good_frames_since_bad,
    tuids_drawn, position, wire,
    untried,    \* time since a level datagram was tried, or keep-alive began
    unheard,    \* since one without a fault was sent, or failed, or the same
    good_sent   \* level datagrams without a fault since a bad one, or the click

sequenceVars == <<tuid, endpoint, session_id, sequence_num, tuids_drawn,
                  position, wire>>
pattern == <<rgb, rgb_phase>>
keepAlive == <<keep_alive, keep_alive_enabled, keep_alive_elapsed>>
badFrames == <<insert_bad_frames, bad_interval, good_frames_since_bad>>
history == <<untried, unheard, good_sent>>
vars == <<sequenceVars, k0_set, dynamic, pattern, keepAlive, badFrames, history>>

Armed == k0_set /\ keep_alive

\* The program whose pairs SenderSequence describes.
Sequence == INSTANCE SenderSequence WITH
    Sender <- {"level_tx"},
    PinnedTuid <- {},
    tuid_hex <- [s \in {"level_tx"} |-> tuid],
    session_id <- [s \in {"level_tx"} |-> session_id],
    sequence_num <- [s \in {"level_tx"} |-> sequence_num],
    position <- [s \in {"level_tx"} |-> position]

Endpoint == {id[2] : id \in SenderId} \ {0}

\* Any TUID may be used with any endpoint, the root endpoint 0 among them.
ASSUME SenderIdAssumption ==
    /\ SenderId \subseteq Tuid \X Nat
    /\ Tuid \X (Endpoint \union {0}) \subseteq SenderId
ASSUME SequenceAssumption == MaxSequence \in Nat /\ MaxSequence >= 2
ASSUME TransmissionsAssumption == MaxTransmissions \in Nat

\* The constructor and FormCreate.
Init ==
    /\ session_id = 1 /\ sequence_num = 1
    /\ k0_set = FALSE
    /\ dynamic = FALSE
    /\ rgb = <<MaxLevel, 0, 0>> /\ rgb_phase = 0
    /\ keep_alive = FALSE /\ keep_alive_enabled = FALSE /\ keep_alive_elapsed = 0
    /\ insert_bad_frames = FALSE
    /\ bad_interval \in BadFrameInterval
    /\ good_frames_since_bad = 0
    /\ untried = 0 /\ unheard = 0 /\ good_sent = 0
    /\ tuid \in Tuid /\ endpoint \in Endpoint
    /\ tuids_drawn = {tuid}
    /\ position = 0
    /\ wire = {}

-------------------------------------------------------------------------------
(***************************************************************************)
(* Sending                                                                  *)
(***************************************************************************)

\* Mutant of Stamp: an announce leaves the sequence number to the next level.
StampLevelsOnly(e) ==
    /\ wire' = wire \union {[sender_id |-> <<tuid, e>>, session_id |-> session_id,
                             seq_num |-> sequence_num, position |-> position + 1]}
    /\ position' = position + 1
    /\ LET rollover == sequence_num + 1 = MaxSequence
       IN  /\ sequence_num' = IF e = 0 THEN sequence_num
                              ELSE IF rollover THEN 1 ELSE sequence_num + 1
           /\ session_id' = IF rollover /\ e # 0 THEN session_id + 1 ELSE session_id
    /\ UNCHANGED <<tuid, endpoint, tuids_drawn>>

\* A datagram of endpoint e goes out under the present pair, and the counters
\* move on.
Stamp(e) ==
    /\ wire' = wire \union {[sender_id |-> <<tuid, e>>, session_id |-> session_id,
                             seq_num |-> sequence_num, position |-> position + 1]}
    /\ position' = position + 1
    /\ LET rollover == sequence_num + 1 = MaxSequence
       IN  /\ sequence_num' = IF rollover THEN 1 ELSE sequence_num + 1
           /\ session_id' = IF rollover THEN session_id + 1 ELSE session_id
    /\ UNCHANGED <<tuid, endpoint, tuids_drawn>>

CanTransmit == k0_set /\ position < MaxTransmissions

\* The level datagram built now is made bad: its HMAC inverted.
InjectsBadFrame == insert_bad_frames /\ good_frames_since_bad >= bad_interval

CountFrame ==
    good_frames_since_bad' =
        IF ~insert_bad_frames THEN good_frames_since_bad
        ELSE IF InjectsBadFrame THEN 0 ELSE good_frames_since_bad + 1

\* After any level datagram: the timer is switched off and on.
RestartKeepAlive ==
    /\ keep_alive_enabled' = (keep_alive_enabled \/ Armed)
    /\ keep_alive_elapsed' = IF Armed THEN 0 ELSE keep_alive_elapsed
    /\ UNCHANGED keep_alive

LevelSent ==
    /\ CanTransmit
    /\ Stamp(endpoint)
    /\ CountFrame
    /\ RestartKeepAlive
    /\ untried' = 0
    /\ unheard' = IF InjectsBadFrame THEN unheard ELSE 0
    /\ good_sent' = IF InjectsBadFrame THEN 0 ELSE good_sent + 1
    /\ UNCHANGED <<insert_bad_frames, bad_interval>>

\* Mutant of LevelFails: a frame that was built counts as sent.
LevelFailsCounted ==
    /\ CountFrame
    /\ untried' = 0
    /\ unheard' = 0
    /\ UNCHANGED <<sequenceVars, keepAlive, insert_bad_frames, bad_interval, good_sent>>

\* Nothing but error_count moves: the pair and the frame counter wait for the
\* next datagram, the keep-alive for the end of its period.
LevelFails ==
    /\ untried' = 0
    /\ unheard' = 0
    /\ UNCHANGED <<sequenceVars, keepAlive, badFrames, good_sent>>

SendPacket == LevelSent \/ LevelFails

SendLevel == SendPacket /\ UNCHANGED <<k0_set, dynamic, pattern>>

\* The button, or a fader moved in manual mode.
ButtonSendLevelPacketClick == k0_set /\ SendLevel
TrackBarDMXChange == k0_set /\ ~dynamic /\ SendLevel

\* The period is over.  SetTimer counts the next one from the moment it was
\* due; a send that works starts it now.
TimerKeepAliveTimer ==
    /\ keep_alive_enabled
    /\ keep_alive_elapsed >= KeepAliveMs
    /\ k0_set
    /\ UNCHANGED <<k0_set, dynamic, pattern>>
    /\ \/ LevelSent
       \/ /\ untried' = 0
          /\ unheard' = 0
          /\ keep_alive_elapsed' = keep_alive_elapsed - KeepAliveMs
          /\ UNCHANGED <<sequenceVars, keep_alive, keep_alive_enabled, badFrames,
                         good_sent>>

Down(level) == IF level > 0 THEN level - 1 ELSE 0
Up(level) == IF level < MaxLevel THEN level + 1 ELSE MaxLevel

\* Mutant of CycleRgb: the colour that is left stays up.
CycleRgbUpOnly ==
    LET to == ((rgb_phase + 1) % 3) + 1
    IN  /\ rgb' = [rgb EXCEPT ![to] = Up(@)]
        /\ rgb_phase' = IF rgb'[to] = MaxLevel THEN (rgb_phase + 1) % 3 ELSE rgb_phase

\* One step of the wheel, from the colour of the phase to the next one.
CycleRgb ==
    LET from == rgb_phase + 1
        to == ((rgb_phase + 1) % 3) + 1
    IN  /\ rgb' = [rgb EXCEPT ![from] = Down(@), ![to] = Up(@)]
        /\ rgb_phase' = IF rgb'[from] = 0 /\ rgb'[to] = MaxLevel
                        THEN (rgb_phase + 1) % 3 ELSE rgb_phase

TimerHeartBeatTimer ==
    /\ dynamic
    /\ CycleRgb
    /\ SendPacket
    /\ UNCHANGED <<k0_set, dynamic>>

\* Endpoint 0; neither the keep-alive nor the frame counter hears of it.
ButtonSendAnnounceClick ==
    /\ CanTransmit
    /\ Stamp(0)
    /\ UNCHANGED <<k0_set, dynamic, pattern, keepAlive, badFrames, history>>

-------------------------------------------------------------------------------
(***************************************************************************)
(* The operator and the clock                                               *)
(***************************************************************************)

\* Mutant of UpdateK0DependentControls: the timer stops, its check mark stays.
UpdateK0DependentControlsKeepsMark(set) ==
    IF set THEN UNCHANGED <<keepAlive, insert_bad_frames, good_frames_since_bad>>
    ELSE /\ keep_alive_enabled' = FALSE /\ keep_alive_elapsed' = 0
         /\ insert_bad_frames' = FALSE /\ good_frames_since_bad' = 0
         /\ UNCHANGED keep_alive

UpdateK0DependentControls(set) ==
    IF set THEN UNCHANGED <<keepAlive, insert_bad_frames, good_frames_since_bad>>
    ELSE /\ keep_alive' = FALSE /\ keep_alive_enabled' = FALSE
         /\ keep_alive_elapsed' = 0
         /\ insert_bad_frames' = FALSE /\ good_frames_since_bad' = 0

KeysBecome(valid) ==
    /\ k0_set' = valid
    /\ UpdateK0DependentControls(valid)
    /\ untried' = IF valid THEN untried ELSE 0
    /\ unheard' = IF valid THEN unheard ELSE 0
    /\ good_sent' = IF valid THEN good_sent ELSE 0
    /\ UNCHANGED <<sequenceVars, dynamic, pattern, bad_interval>>

\* The dialog was confirmed; valid says whether both keys could be derived.
ButtonSelectK0Click(valid) == KeysBecome(valid)
ButtonDeprovisionClick == KeysBecome(FALSE)

CheckKeepAliveClick ==
    /\ k0_set
    /\ keep_alive' = ~keep_alive
    /\ keep_alive_enabled' = ~keep_alive
    /\ keep_alive_elapsed' = 0
    /\ untried' = 0 /\ unheard' = 0
    /\ UNCHANGED <<sequenceVars, k0_set, dynamic, pattern, badFrames, good_sent>>

CheckInsertBadFramesClick ==
    /\ k0_set
    /\ insert_bad_frames' = ~insert_bad_frames
    /\ good_frames_since_bad' = 0
    /\ good_sent' = 0
    /\ UNCHANGED <<sequenceVars, k0_set, dynamic, pattern, keepAlive, bad_interval,
                   untried, unheard>>

ComboBoxDmxModeChange ==
    /\ k0_set
    /\ dynamic' = ~dynamic
    /\ UNCHANGED <<sequenceVars, k0_set, pattern, keepAlive, badFrames, history>>

\* Fields that are read when the next datagram is built.
ChangeFields ==
    /\ k0_set
    /\ endpoint' \in Endpoint
    /\ bad_interval' \in BadFrameInterval
    /\ UNCHANGED <<tuid, session_id, sequence_num, tuids_drawn, position, wire,
                   k0_set, dynamic, pattern, keepAlive, insert_bad_frames,
                   good_frames_since_bad, history>>

TimePasses ==
    /\ keep_alive_enabled => keep_alive_elapsed < KeepAliveMs + TxLag
    /\ keep_alive_elapsed' = IF keep_alive_enabled THEN keep_alive_elapsed + 1 ELSE 0
    /\ untried' = IF Armed THEN untried + 1 ELSE 0
    /\ unheard' = IF Armed THEN unheard + 1 ELSE 0
    /\ UNCHANGED <<sequenceVars, k0_set, dynamic, pattern, keep_alive,
                   keep_alive_enabled, badFrames, good_sent>>

\* The program is started again, under a new TUID.
Restart ==
    /\ session_id' = 1 /\ sequence_num' = 1
    /\ k0_set' = FALSE
    /\ dynamic' = FALSE
    /\ rgb' = <<MaxLevel, 0, 0>> /\ rgb_phase' = 0
    /\ keep_alive' = FALSE /\ keep_alive_enabled' = FALSE
    /\ keep_alive_elapsed' = 0
    /\ insert_bad_frames' = FALSE
    /\ bad_interval' \in BadFrameInterval
    /\ good_frames_since_bad' = 0
    /\ untried' = 0 /\ unheard' = 0 /\ good_sent' = 0
    /\ \E t \in Tuid \ tuids_drawn :
          tuid' = t /\ tuids_drawn' = tuids_drawn \union {t}
    /\ UNCHANGED <<endpoint, position, wire>>

Next ==
    \/ ButtonSendLevelPacketClick
    \/ TrackBarDMXChange
    \/ TimerKeepAliveTimer
    \/ TimerHeartBeatTimer
    \/ ButtonSendAnnounceClick
    \/ \E valid \in BOOLEAN : ButtonSelectK0Click(valid)
    \/ ButtonDeprovisionClick
    \/ CheckKeepAliveClick
    \/ CheckInsertBadFramesClick
    \/ ComboBoxDmxModeChange
    \/ ChangeFields
    \/ TimePasses
    \/ Restart

Spec == Init /\ [][Next]_vars

-------------------------------------------------------------------------------
(***************************************************************************)
(* Properties                                                               *)
(***************************************************************************)

\* Types; the pattern never leaves its wheel: two neighbouring colours share
\* MaxLevel and the third is off, however the modes are switched (CycleRgb).
TransmitterTypeOK ==
    /\ tuid \in Tuid /\ endpoint \in Endpoint
    /\ session_id \in Nat \ {0} /\ sequence_num \in 1 .. MaxSequence - 1
    /\ k0_set \in BOOLEAN /\ dynamic \in BOOLEAN
    /\ rgb \in [1 .. 3 -> 0 .. MaxLevel] /\ rgb_phase \in 0 .. 2
    /\ rgb[1] + rgb[2] + rgb[3] = MaxLevel
    /\ rgb[((rgb_phase + 2) % 3) + 1] = 0
    /\ keep_alive \in BOOLEAN /\ keep_alive_enabled \in BOOLEAN
    /\ keep_alive_elapsed \in 0 .. KeepAliveMs + TxLag
    /\ insert_bad_frames \in BOOLEAN /\ bad_interval \in BadFrameInterval
    /\ good_frames_since_bad \in Nat

\* Keep-alive runs exactly while its box is checked and there are keys.  Then a
\* level datagram is tried at least every KeepAliveMs and TxLag, whatever else
\* was sent, failed or clicked; and since no two bad frames are sent in a row,
\* receivers, which drop bad ones, get one in twice that time if the network
\* lets it through (SendPacket, TimerKeepAliveTimer, UpdateK0DependentControls).
ReceiversKeptAlive ==
    /\ keep_alive_enabled <=> Armed
    /\ keep_alive => k0_set
    /\ Armed => /\ untried <= KeepAliveMs + TxLag
                /\ unheard <= 2 * (KeepAliveMs + TxLag)

\* A bad frame goes out only after as many good ones as the form asks for,
\* counted from the last bad one or the click, by what was transmitted:
\* failures and announces count for nothing (SendPacket).
BadFramesSpaced ==
    [][(/\ \E d \in wire' \ wire : d.sender_id[2] # 0
        /\ good_sent' = 0) => good_sent >= bad_interval]_vars

\* The program stamps its datagrams as SenderSequence says one does: every
\* datagram that gets out, level or announce, good or bad, takes one pair and
\* moves it on, everything that fails takes none, and a start begins anew
\* under another TUID (SendPacket, SendAnnouncePacket, the constructor).
StampsInSequence == Sequence!SenderSpec

===============================================================================
