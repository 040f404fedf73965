-------------------------- MODULE NodeReceptionProofs --------------------------
(***************************************************************************)
(* Theorems about what reaches the node: the groups its socket listens to   *)
(* (NodeGroups), for any universes and interfaces and any calls that fail,  *)
(* and what it does with a datagram before it looks at the payload          *)
(* (NodeReceive), for any set of senders, any number of pairs and any       *)
(* period of the tick.  The two share no state.                             *)
(***************************************************************************)
EXTENDS NodeReceive, NodeGroups, TLAPS

-------------------------------------------------------------------------------
(***************************************************************************)
(* Datagrams and security events (NodeReceive)                              *)
(***************************************************************************)

IInv == ReceiveTypeOK /\ FloorIsAuthentic /\ TickIsAge

-------------------------------------------------------------------------------
\* What an event does to ticks and ages, whether it is sent or not: types are
\* kept, and the tick of an event that was sent is its age's beginning.
LEMMA SendKeepsTicks ==
    ASSUME NEW c \in Code, ReceiveTypeOK, TickIsAge, SendSecurityEvent(c),
           UNCHANGED now
    PROVE  /\ security_event_last_tx_tick' \in [Code -> Tick]
           /\ since' \in [Code -> 0 .. TickMod]
           /\ event_sent' \subseteq Code
           /\ TickIsAge'
<1>1. /\ security_event_last_tx_tick' \in [Code -> Tick]
      /\ since' \in [Code -> 0 .. TickMod]
      /\ event_sent' \subseteq Code
    BY EventTimes DEF SendSecurityEvent, ReceiveTypeOK, Tick
<1>2. ASSUME NEW d \in Code, security_event_last_tx_tick'[d] # 0, since'[d] < TickMod
      PROVE  Elapsed(security_event_last_tx_tick[d])' = since'[d]
    <2>1. CASE d = c /\ ~RateLimited(c) /\ network_up
        <3>1. security_event_last_tx_tick'[d] = now /\ since'[d] = 0
            BY <2>1 DEF SendSecurityEvent, ReceiveTypeOK
        <3> QED
            BY <3>1, EventTimes DEF Elapsed, ReceiveTypeOK, Tick
    <2>2. CASE ~(d = c /\ ~RateLimited(c) /\ network_up)
        <3>1. /\ security_event_last_tx_tick'[d] = security_event_last_tx_tick[d]
              /\ since'[d] = since[d]
            BY <2>2 DEF SendSecurityEvent, ReceiveTypeOK
        <3> QED
            BY <3>1, <1>2 DEF Elapsed, TickIsAge
    <2> QED
        BY <2>1, <2>2
<1> QED
    BY <1>1, <1>2 DEF TickIsAge

\* As a tick passes the age of an event grows with the wrapped difference.
LEMMA TickKeepsAge ==
    ASSUME ReceiveTypeOK, TickIsAge, TimePasses
    PROVE  /\ now' \in Tick
           /\ since' \in [Code -> 0 .. TickMod]
           /\ TickIsAge'
<1>1. now' \in Tick /\ since' \in [Code -> 0 .. TickMod]
    BY EventTimes DEF TimePasses, ReceiveTypeOK, Tick
<1>2. ASSUME NEW c \in Code, security_event_last_tx_tick'[c] # 0, since'[c] < TickMod
      PROVE  Elapsed(security_event_last_tx_tick[c])' = since'[c]
    <2>1. /\ security_event_last_tx_tick'[c] = security_event_last_tx_tick[c]
          /\ security_event_last_tx_tick[c] \in Tick
          /\ since[c] \in 0 .. TickMod /\ now \in Tick
        BY DEF TimePasses, ReceiveTypeOK
    <2>2. since'[c] = since[c] + 1 /\ since[c] + 1 < TickMod
        BY <1>2, <2>1, EventTimes DEF TimePasses
    <2>3. Elapsed(security_event_last_tx_tick[c]) = since[c]
        BY <1>2, <2>1, <2>2, EventTimes DEF TickIsAge
    <2> QED
        BY <2>1, <2>2, <2>3, EventTimes DEF Elapsed, Tick, TimePasses
<1> QED
    BY <1>1, <1>2 DEF TickIsAge

-------------------------------------------------------------------------------
\* The inductive invariant: types, a floor that only authentic datagrams move,
\* and ticks that tell the age of an event (all of NodeReceive).
THEOREM IInvHolds == Spec => []IInv
<1>1. Init => IInv
    <2> SUFFICES ASSUME Init PROVE IInv
        OBVIOUS
    <2>1. 0 \in Tick /\ TickMod \in 0 .. TickMod /\ 0 \in 0 .. MaxPair
        BY EventTimes, PairAssumption DEF Tick
    <2>2. \A c \in Code : security_event_last_tx_tick[c] = 0
        BY DEF Init
    <2> QED
        BY <2>1, <2>2 DEF Init, IInv, ReceiveTypeOK, FloorIsAuthentic, TickIsAge
<1>2. IInv /\ [Next]_vars => IInv'
    <2> SUFFICES ASSUME IInv, [Next]_vars PROVE IInv'
        OBVIOUS
    <2> USE DEF IInv
    <2>1. ASSUME NEW d \in Datagram, ProcessIncomingPacket(d) PROVE IInv'
        <3>0. d.sender_id \in SenderId /\ d.pair \in 1 .. MaxPair
            BY DEF Datagram
        <3>1. CASE DropUnread(d)
            BY <3>1 DEF DropUnread, NoEvent, environment, ReceiveTypeOK,
                        FloorIsAuthentic, TickIsAge, Elapsed
        <3>2. CASE RejectHmac(d)
            <4>1. /\ security_event_last_tx_tick' \in [Code -> Tick]
                  /\ since' \in [Code -> 0 .. TickMod]
                  /\ event_sent' \subseteq Code
                  /\ TickIsAge'
                BY <3>2, SendKeepsTicks DEF RejectHmac, environment, Code
            <4> QED
                BY <3>2, <4>1
                   DEF RejectHmac, environment, ReceiveTypeOK, FloorIsAuthentic
        <3>3. CASE RejectReplay(d)
            <4>1. /\ security_event_last_tx_tick' \in [Code -> Tick]
                  /\ since' \in [Code -> 0 .. TickMod]
                  /\ event_sent' \subseteq Code
                  /\ TickIsAge'
                BY <3>3, SendKeepsTicks DEF RejectReplay, environment, Code
            <4>2. newest_authentic' = newest_authentic
                BY <3>0, <3>3, PairAssumption
                   DEF RejectReplay, Newest, FloorIsAuthentic, ReceiveTypeOK
            <4> QED
                BY <3>3, <4>1, <4>2
                   DEF RejectReplay, environment, ReceiveTypeOK, FloorIsAuthentic
        <3>4. CASE Accept(d)
            <4>1. newest_authentic' = [newest_authentic EXCEPT ![d.sender_id] = d.pair]
                BY <3>0, <3>4 DEF Accept, Newest, FloorIsAuthentic
            <4> QED
                BY <3>0, <3>4, <4>1, PairAssumption
                   DEF Accept, NoEvent, environment, ReceiveTypeOK,
                       FloorIsAuthentic, TickIsAge, Elapsed
        <3> QED
            BY <2>1, <3>1, <3>2, <3>3, <3>4 DEF ProcessIncomingPacket
    <2>2. CASE KeysChange
        BY <2>2 DEF KeysChange, NoEvent, ReceiveTypeOK, FloorIsAuthentic, TickIsAge,
                    Elapsed
    <2>3. CASE NetworkChanges
        BY <2>3 DEF NetworkChanges, NoEvent, ReceiveTypeOK, FloorIsAuthentic,
                    TickIsAge, Elapsed
    <2>4. CASE TimePasses
        <3>1. /\ now' \in Tick
              /\ since' \in [Code -> 0 .. TickMod]
              /\ TickIsAge'
            BY <2>4, TickKeepsAge
        <3> QED
            BY <2>4, <3>1 DEF TimePasses, ReceiveTypeOK, FloorIsAuthentic
    <2>5. CASE UNCHANGED vars
        BY <2>5 DEF vars, ReceiveTypeOK, FloorIsAuthentic, TickIsAge, Elapsed
    <2> QED
        BY <2>1, <2>2, <2>3, <2>4, <2>5 DEF Next
<1> QED
    BY <1>1, <1>2, PTL DEF Spec

\* Every step keeps the types (all of NodeReceive).
THEOREM ReceiveTypeCorrect == Spec => []ReceiveTypeOK
<1>1. IInv => ReceiveTypeOK
    BY DEF IInv
<1> QED
    BY <1>1, IInvHolds, PTL

\* The wrapped difference to an event's tick is its age, for any period of the
\* tick, through wraps and sends that fail (SendSecurityEvent).
THEOREM TickStaysAge == Spec => []TickIsAge
<1>1. IInv => TickIsAge
    BY DEF IInv
<1> QED
    BY <1>1, IInvHolds, PTL

\* However many damaged datagrams come, only authentic ones move the floor
\* (the order of VerifyPacketHMAC and ValidateAndCommitFreshness).
THEOREM FloorStaysAuthentic == Spec => []FloorIsAuthentic
<1>1. IInv => FloorIsAuthentic
    BY DEF IInv
<1> QED
    BY <1>1, IInvHolds, PTL

\* Two security events of a kind are an interval apart, whatever the tick's
\* period and wherever it wraps (SendSecurityEvent).
THEOREM EventsStaySpaced == Spec => EventsSpaced
<1> DEFINE Spaced ==
        \A c \in event_sent' :
            \/ since[c] >= SECURITY_EVENT_MIN_INTERVAL_MS
            \/ security_event_last_tx_tick[c] = 0
<1>1. ASSUME IInv, NEW c \in Code, SendSecurityEvent(c) PROVE Spaced
    <2> SUFFICES ASSUME c \in event_sent'
                 PROVE  \/ since[c] >= SECURITY_EVENT_MIN_INTERVAL_MS
                        \/ security_event_last_tx_tick[c] = 0
        BY <1>1 DEF SendSecurityEvent
    <2>1. ~RateLimited(c)
        BY <1>1 DEF SendSecurityEvent
    <2>2. since[c] \in 0 .. TickMod
        BY <1>1 DEF IInv, ReceiveTypeOK
    <2>3. CASE since[c] = TickMod
        BY <2>3, EventTimes
    <2>4. CASE since[c] < TickMod
        <3>1. security_event_last_tx_tick[c] # 0
                 => Elapsed(security_event_last_tx_tick[c]) = since[c]
            BY <1>1, <2>4 DEF IInv, TickIsAge
        <3> QED
            BY <2>1, <2>2, <3>1, EventTimes DEF RateLimited
    <2> QED
        BY <2>2, <2>3, <2>4, EventTimes
<1>2. ASSUME IInv, Next PROVE Spaced
    <2>1. CASE \E d \in Datagram : RejectHmac(d) \/ RejectReplay(d)
        <3>1. \E c \in Code : SendSecurityEvent(c)
            BY <2>1 DEF RejectHmac, RejectReplay, Code
        <3> QED
            BY <1>1, <1>2, <3>1
    <2>2. CASE ~\E d \in Datagram : RejectHmac(d) \/ RejectReplay(d)
        <3>1. event_sent' = {}
            BY <1>2, <2>2 DEF Next, ProcessIncomingPacket, DropUnread, Accept,
                              KeysChange, NetworkChanges, TimePasses, NoEvent
        <3> QED
            BY <3>1
    <2> QED
        BY <2>1, <2>2
<1>3. IInv /\ [Next]_vars => [Spaced]_vars
    BY <1>2
<1> QED
    BY <1>3, IInvHolds, PTL DEF Spec, EventsSpaced

\* No failed check goes unreported but for the interval and the period of the
\* tick (SendSecurityEvent).
THEOREM EventsAreNotSwallowed == Spec => EventsNotSwallowed
<1> DEFINE Reported ==
        \A c \in Code :
            Detects(c) /\ network_up /\ c \notin event_sent'
                => \/ since[c] < SECURITY_EVENT_MIN_INTERVAL_MS
                   \/ since[c] = TickMod
<1>1. ASSUME IInv PROVE Reported
    <2> SUFFICES ASSUME NEW c \in Code, Detects(c), network_up, c \notin event_sent'
                 PROVE  \/ since[c] < SECURITY_EVENT_MIN_INTERVAL_MS
                        \/ since[c] = TickMod
        OBVIOUS
    <2>1. SendSecurityEvent(c)
        BY DEF Detects, RejectHmac, RejectReplay, Code, SECURITY_EVENT_HMAC_FAIL,
               SECURITY_EVENT_REPLAY
    <2>2. RateLimited(c)
        BY <2>1 DEF SendSecurityEvent
    <2>3. since[c] \in 0 .. TickMod
        BY <1>1 DEF IInv, ReceiveTypeOK
    <2>4. since[c] < TickMod => Elapsed(security_event_last_tx_tick[c]) = since[c]
        BY <1>1, <2>2 DEF IInv, TickIsAge, RateLimited
    <2> QED
        BY <2>2, <2>3, <2>4, EventTimes DEF RateLimited
<1>2. IInv => [Reported]_vars
    BY <1>1
<1> QED
    BY <1>2, IInvHolds, PTL DEF EventsNotSwallowed

-------------------------------------------------------------------------------
(***************************************************************************)
(* The socket and its groups (NodeGroups)                                   *)
(***************************************************************************)

UniverseGroup == {<<0, i>> : i \in 1 .. MULTICAST_MAX_INDEX}

\* The states RefreshReceiverGroups takes and returns.
Bookkeeping == [manager_poll : BOOLEAN, manager_send : BOOLEAN,
                ep1_multicast_ip : UniverseGroup \union {NoGroup}]

SocketOK(s) ==
    /\ s = Sockets(s.groups, s.membership)
    /\ s.groups \in Bookkeeping
    /\ s.membership \subseteq Group \X Interface

MemberIn(ip, s) == \E i \in Interface : <<ip, i>> \in s.membership

\* What is recorded in s is joined in s.
SocketSound(s) ==
    /\ s.groups.manager_poll => MemberIn(MULTICAST_MANAGER_POLL_IP, s)
    /\ s.groups.manager_send => MemberIn(MULTICAST_MANAGER_SEND_IP, s)
    /\ s.groups.ep1_multicast_ip # NoGroup
         => MemberIn(s.groups.ep1_multicast_ip, s)

\* Stronger than the types: the group recorded for the universe is one of a
\* universe.  If it were the managers' it would be left with the universe.
GroupsIInv ==
    /\ socket_initialized \in BOOLEAN /\ selected_nic_ip \in Interface
    /\ spin_universe \in Universe /\ ep_universe \in Universe
    /\ SocketOK(Current)
    /\ SocketSound(Current)

-------------------------------------------------------------------------------
(***************************************************************************)
(* Groups                                                                   *)
(***************************************************************************)

\* A universe's group is none of the managers'.
LEMMA GroupsDiffer ==
    /\ UniverseGroup \subseteq Group
    /\ MULTICAST_MANAGER_POLL_IP \in Group
    /\ MULTICAST_MANAGER_SEND_IP \in Group
    /\ MULTICAST_MANAGER_POLL_IP \notin UniverseGroup
    /\ MULTICAST_MANAGER_SEND_IP \notin UniverseGroup
    /\ MULTICAST_MANAGER_POLL_IP # MULTICAST_MANAGER_SEND_IP
    /\ NoGroup \notin Group
<1>1. \A i \in 1 .. MULTICAST_MAX_INDEX : <<0, i>> # <<>>
    OBVIOUS
<1>2. <<255, 252>> # <<>> /\ <<255, 251>> # <<>>
    OBVIOUS
<1> QED
    BY <1>1, <1>2
    DEF UniverseGroup, Group, MULTICAST_MANAGER_POLL_IP, MULTICAST_MANAGER_SEND_IP,
        NoGroup

\* A valid universe folds to one of the groups (CalculateMulticastAddress).
LEMMA FoldIsUniverseGroup ==
    ASSUME NEW u \in Int, ValidUniverse(u)
    PROVE  CalculateMulticastAddress(u) \in UniverseGroup
<1>1. PICK v \in Int : v = u - 1
    OBVIOUS
<1>2. PICK k \in 0 .. MULTICAST_MAX_INDEX - 1 : k = v % MULTICAST_MAX_INDEX
    BY DEF MULTICAST_MAX_INDEX
<1>3. CalculateMulticastAddress(u) = <<0, k + 1>>
    BY <1>1, <1>2 DEF CalculateMulticastAddress
<1>4. k + 1 \in 1 .. MULTICAST_MAX_INDEX
    BY <1>2 DEF MULTICAST_MAX_INDEX
<1> QED
    BY <1>3, <1>4, Zenon DEF UniverseGroup

\* A join adds one membership, on some interface.
LEMMA JoinedIs ==
    ASSUME NEW nic \in Interface, NEW ip, NEW m, NEW n \in Joined(nic, ip, m)
    PROVE  \E i \in Interface : n = m \union {<<ip, i>>}
    BY InterfaceAssumption DEF Joined, Via
-------------------------------------------------------------------------------
(***************************************************************************)
(* RefreshReceiverGroups                                                    *)
(***************************************************************************)

\* Every group that is joined in s is joined in t.
KeepsAll(s, t) == \A ip : MemberIn(ip, s) => MemberIn(ip, t)

\* The groups a refresh for universe u is after.
WantedFor(u) ==
    {MULTICAST_MANAGER_POLL_IP, MULTICAST_MANAGER_SEND_IP}
    \union {CalculateMulticastAddress(v) : v \in {w \in {u} : ValidUniverse(w)}}

\* A group that was joined may be recorded; nothing else changes.
LEMMA JoinIsSound ==
    ASSUME NEW nic \in Interface, NEW s, SocketOK(s), SocketSound(s),
           NEW ip \in Group, NEW m \in Joined(nic, ip, s.membership),
           NEW g \in Bookkeeping,
           g.manager_poll => s.groups.manager_poll \/ ip = MULTICAST_MANAGER_POLL_IP,
           g.manager_send => s.groups.manager_send \/ ip = MULTICAST_MANAGER_SEND_IP,
           \/ g.ep1_multicast_ip = s.groups.ep1_multicast_ip
           \/ g.ep1_multicast_ip = ip
    PROVE  /\ SocketOK(Sockets(g, m))
           /\ SocketSound(Sockets(g, m))
           /\ KeepsAll(s, Sockets(g, m))
<1>1. PICK i \in Interface : m = s.membership \union {<<ip, i>>}
    BY JoinedIs
<1>2. Sockets(g, m).groups = g /\ Sockets(g, m).membership = m
    BY DEF Sockets
<1>3. SocketOK(Sockets(g, m))
    BY <1>1, <1>2 DEF SocketOK
<1>4. MemberIn(ip, Sockets(g, m)) /\ KeepsAll(s, Sockets(g, m))
    BY <1>1, <1>2 DEF KeepsAll, MemberIn
<1>5. SocketSound(Sockets(g, m))
    BY <1>2, <1>4 DEF SocketSound, KeepsAll
<1> QED
    BY <1>3, <1>4, <1>5

\* The managers' poll group is joined and recorded, or nothing changes.
LEMMA RefreshManagerPollIs ==
    ASSUME NEW nic \in Interface, NEW s, SocketOK(s), SocketSound(s), NEW quiet,
           NEW t \in RefreshManagerPoll(nic, s, quiet)
    PROVE  SocketOK(t) /\ SocketSound(t) /\ KeepsAll(s, t)
<1> DEFINE g == [s.groups EXCEPT !.manager_poll = TRUE]
<1>1. /\ g \in Bookkeeping
      /\ g.manager_send = s.groups.manager_send
      /\ g.ep1_multicast_ip = s.groups.ep1_multicast_ip
    BY DEF SocketOK, Bookkeeping
<1> HIDE DEF g
<1>2. CASE t = s
    BY <1>2 DEF KeepsAll
<1>3. ASSUME NEW m \in Joined(nic, MULTICAST_MANAGER_POLL_IP, s.membership),
             t = Sockets(g, m)
      PROVE  SocketOK(t) /\ SocketSound(t) /\ KeepsAll(s, t)
    BY <1>1, <1>3, GroupsDiffer, JoinIsSound
<1> QED
    BY <1>2, <1>3, Zenon DEF RefreshManagerPoll, g

\* So is the managers' command group.
LEMMA RefreshManagerSendIs ==
    ASSUME NEW nic \in Interface, NEW s, SocketOK(s), SocketSound(s), NEW quiet,
           NEW t \in RefreshManagerSend(nic, s, quiet)
    PROVE  SocketOK(t) /\ SocketSound(t) /\ KeepsAll(s, t)
<1> DEFINE g == [s.groups EXCEPT !.manager_send = TRUE]
<1>1. /\ g \in Bookkeeping
      /\ g.manager_poll = s.groups.manager_poll
      /\ g.ep1_multicast_ip = s.groups.ep1_multicast_ip
    BY DEF SocketOK, Bookkeeping
<1> HIDE DEF g
<1>2. CASE t = s
    BY <1>2 DEF KeepsAll
<1>3. ASSUME NEW m \in Joined(nic, MULTICAST_MANAGER_SEND_IP, s.membership),
             t = Sockets(g, m)
      PROVE  SocketOK(t) /\ SocketSound(t) /\ KeepsAll(s, t)
    BY <1>1, <1>3, GroupsDiffer, JoinIsSound
<1> QED
    BY <1>2, <1>3, Zenon DEF RefreshManagerSend, g

\* The group recorded for the universe is forgotten; only its memberships may
\* end, and it is none of the managers'.
LEMMA LeaveUniverseIs ==
    ASSUME NEW s, SocketOK(s), SocketSound(s), NEW quiet,
           NEW t \in LeaveUniverse(s, quiet)
    PROVE  /\ SocketOK(t) /\ SocketSound(t)
           /\ t.groups.ep1_multicast_ip = NoGroup
           /\ \A ip : ip # s.groups.ep1_multicast_ip /\ MemberIn(ip, s)
                        => MemberIn(ip, t)
<1> DEFINE g == [s.groups EXCEPT !.ep1_multicast_ip = NoGroup]
           old == s.groups.ep1_multicast_ip
<1>1. /\ g \in Bookkeeping
      /\ g.manager_poll = s.groups.manager_poll
      /\ g.manager_send = s.groups.manager_send
      /\ g.ep1_multicast_ip = NoGroup
      /\ old \in UniverseGroup \union {NoGroup}
    BY DEF SocketOK, Bookkeeping
<1>2. CASE old = NoGroup
    <2>1. t = s
        BY <1>2 DEF LeaveUniverse
    <2> QED
        BY <1>2, <2>1
<1>3. CASE old # NoGroup
    <2>1. PICK m \in LeaveMulticastGroup(old, s.membership, quiet) : t = Sockets(g, m)
        BY <1>3, Zenon DEF LeaveUniverse
    <2> HIDE DEF g
    <2>2. t.groups = g /\ t.membership = m
        BY <2>1 DEF Sockets
    <2>3. m = s.membership \/ m = s.membership \ {<<old, DefaultInterface>>}
        BY <2>1 DEF LeaveMulticastGroup
    <2>4. SocketOK(t)
        BY <1>1, <2>1, <2>2, <2>3 DEF SocketOK
    <2>5. \A ip : ip # old /\ MemberIn(ip, s) => MemberIn(ip, t)
        <3> SUFFICES ASSUME NEW ip, ip # old, NEW i \in Interface,
                            <<ip, i>> \in s.membership
                     PROVE  <<ip, i>> \in m
            BY <2>2 DEF MemberIn
        <3>1. <<ip, i>> # <<old, DefaultInterface>>
            OBVIOUS
        <3> QED
            BY <2>3, <3>1
    <2>6. SocketSound(t)
        <3>1. MULTICAST_MANAGER_POLL_IP # old /\ MULTICAST_MANAGER_SEND_IP # old
            BY <1>1, <1>3, GroupsDiffer
        <3> QED
            BY <1>1, <2>2, <2>5, <3>1 DEF SocketSound
    <2> QED
        BY <1>1, <2>2, <2>4, <2>5, <2>6
<1> QED
    BY <1>2, <1>3

\* Where no group is recorded for the universe, the wanted one is joined and
\* recorded, or nothing changes.
LEMMA JoinUniverseIs ==
    ASSUME NEW nic \in Interface, NEW s, SocketOK(s), SocketSound(s), NEW quiet,
           NEW ip \in UniverseGroup, NEW t \in JoinUniverse(nic, ip, s, quiet)
    PROVE  SocketOK(t) /\ SocketSound(t) /\ KeepsAll(s, t)
<1> DEFINE g == [s.groups EXCEPT !.ep1_multicast_ip = ip]
<1>1. /\ g \in Bookkeeping
      /\ g.manager_poll = s.groups.manager_poll
      /\ g.manager_send = s.groups.manager_send
      /\ g.ep1_multicast_ip = ip
    BY DEF SocketOK, Bookkeeping
<1> HIDE DEF g
<1>2. CASE t = s
    BY <1>2 DEF KeepsAll
<1>3. ASSUME NEW m \in Joined(nic, ip, s.membership), t = Sockets(g, m)
      PROVE  SocketOK(t) /\ SocketSound(t) /\ KeepsAll(s, t)
    BY <1>1, <1>3, GroupsDiffer, JoinIsSound
<1> QED
    BY <1>2, <1>3, Zenon DEF JoinUniverse, g

\* The universe's own group is never given up for itself.
LEMMA RefreshUniverseIs ==
    ASSUME NEW nic \in Interface, NEW u \in Int, NEW s, SocketOK(s), SocketSound(s),
           NEW quiet, NEW t \in RefreshUniverse(nic, u, s, quiet)
    PROVE  /\ SocketOK(t) /\ SocketSound(t)
           /\ \A ip \in WantedFor(u) : MemberIn(ip, s) => MemberIn(ip, t)
<1> DEFINE new == CalculateMulticastAddress(u)
<1>1. CASE t = s
    BY <1>1
<1>2. CASE ~(t = s)
    <2>1. ValidUniverse(u) /\ s.groups.ep1_multicast_ip # new
        BY <1>2, Zenon DEF RefreshUniverse
    <2>2. PICK r \in LeaveUniverse(s, quiet) : t \in JoinUniverse(nic, new, r, quiet)
        BY <2>1, Zenon DEF RefreshUniverse
    <2>3. new \in UniverseGroup
        BY <2>1, FoldIsUniverseGroup
    <2>4. /\ SocketOK(r) /\ SocketSound(r)
          /\ \A ip : ip # s.groups.ep1_multicast_ip /\ MemberIn(ip, s)
                       => MemberIn(ip, r)
        BY LeaveUniverseIs
    <2>5. SocketOK(t) /\ SocketSound(t) /\ KeepsAll(r, t)
        BY <2>2, <2>3, <2>4, JoinUniverseIs
    <2>6. \A ip \in WantedFor(u) : ip # s.groups.ep1_multicast_ip
        <3>1. s.groups.ep1_multicast_ip \in UniverseGroup \union {NoGroup}
            BY DEF SocketOK, Bookkeeping
        <3>2. \A ip \in WantedFor(u) : \/ ip = MULTICAST_MANAGER_POLL_IP
                                       \/ ip = MULTICAST_MANAGER_SEND_IP
                                       \/ ip = new
            BY DEF WantedFor
        <3> QED
            BY <2>1, <3>1, <3>2, GroupsDiffer
    <2> QED
        BY <2>4, <2>5, <2>6 DEF KeepsAll
<1> QED
    BY <1>1, <1>2

\* A refresh leaves what is recorded joined and gives up no group it is after.
LEMMA RefreshIs ==
    ASSUME NEW nic \in Interface, NEW u \in Int, NEW s, SocketOK(s), SocketSound(s),
           NEW quiet, NEW t \in RefreshReceiverGroups(nic, u, s, quiet)
    PROVE  /\ SocketOK(t) /\ SocketSound(t)
           /\ \A ip \in WantedFor(u) : MemberIn(ip, s) => MemberIn(ip, t)
<1>1. PICK p \in RefreshManagerPoll(nic, s, quiet) :
        \E q \in RefreshManagerSend(nic, p, quiet) : t \in RefreshUniverse(nic, u, q, quiet)
    BY Zenon DEF RefreshReceiverGroups
<1>2. PICK q \in RefreshManagerSend(nic, p, quiet) : t \in RefreshUniverse(nic, u, q, quiet)
    BY <1>1
<1>3. SocketOK(p) /\ SocketSound(p) /\ KeepsAll(s, p)
    BY RefreshManagerPollIs
<1>4. SocketOK(q) /\ SocketSound(q) /\ KeepsAll(p, q)
    BY <1>2, <1>3, RefreshManagerSendIs
<1>5. /\ SocketOK(t) /\ SocketSound(t)
      /\ \A ip \in WantedFor(u) : MemberIn(ip, q) => MemberIn(ip, t)
    BY <1>2, <1>4, RefreshUniverseIs
<1> QED
    BY <1>3, <1>4, <1>5 DEF KeepsAll
-------------------------------------------------------------------------------
(***************************************************************************)
(* Actions                                                                  *)
(***************************************************************************)

\* A closed socket has nothing recorded and nothing joined.
LEMMA EmptyIsSound ==
    SocketOK(Sockets(ResetUdpGroupState, {})) /\ SocketSound(Sockets(ResetUdpGroupState, {}))
<1>1. ResetUdpGroupState \in Bookkeeping
    BY DEF ResetUdpGroupState, Bookkeeping
<1>2. /\ Sockets(ResetUdpGroupState, {}).groups = ResetUdpGroupState
      /\ Sockets(ResetUdpGroupState, {}).membership = {}
    BY DEF Sockets
<1>3. /\ ResetUdpGroupState.manager_poll = FALSE
      /\ ResetUdpGroupState.manager_send = FALSE
      /\ ResetUdpGroupState.ep1_multicast_ip = NoGroup
    BY DEF ResetUdpGroupState
<1> QED
    BY <1>1, <1>2, <1>3 DEF SocketOK, SocketSound

\* What a step makes of a sound socket, the variables take over.
LEMMA BecomeIs ==
    ASSUME NEW s, SocketOK(s), SocketSound(s), Become(s)
    PROVE  Current' = s /\ SocketOK(Current)' /\ SocketSound(Current)'
<1>1. Current' = s
    BY DEF Become, SocketOK, Sockets, Current
<1> QED
    BY <1>1 DEF SocketOK, SocketSound, MemberIn

\* Universes are numbers, and the form's first one is among them.
LEMMA UniverseIsInt ==
    DEFAULT_EP1_UNIVERSE \in Universe /\ \A u \in Universe : u \in Int
    BY UniverseAssumption DEF DEFAULT_EP1_UNIVERSE

\* No group is lost that was wanted before the tick and is wanted after it,
\* whether the groups are refreshed once or, for a SET, twice.
LEMMA TickIs ==
    ASSUME GroupsIInv, NEW set \in SUBSET Universe, NEW quiet,
           ReceiveTimerTick(set, quiet)
    PROVE  /\ GroupsIInv'
           /\ \A ip \in Wanted \intersect Wanted' : IsMember(ip) => IsMember(ip)'
<1>1. /\ SocketOK(Current) /\ SocketSound(Current)
      /\ selected_nic_ip \in Interface
      /\ spin_universe \in Universe /\ ep_universe \in Universe
    BY DEF GroupsIInv
<1>2. /\ socket_initialized' \in BOOLEAN /\ selected_nic_ip' \in Interface
      /\ spin_universe' \in Universe /\ ep_universe' \in Universe
    <2>1. spin_universe' \in Universe
        BY <1>1 DEF ReceiveTimerTick
    <2> QED
        BY <1>1, <2>1 DEF ReceiveTimerTick
<1>3. spin_universe \in Int /\ spin_universe' \in Int
    BY <1>1, <1>2, UniverseIsInt
<1>4. PICK t \in RefreshReceiverGroups(selected_nic_ip, spin_universe, Current, quiet) :
        \E s \in (IF set = {} THEN {t}
                  ELSE RefreshReceiverGroups(selected_nic_ip, spin_universe', t, quiet)) :
           Become(s)
    BY Zenon DEF ReceiveTimerTick
<1>5. PICK s : /\ \/ s = t
                  \/ s \in RefreshReceiverGroups(selected_nic_ip, spin_universe', t, quiet)
               /\ Become(s)
    BY <1>4, Zenon
<1>6. /\ SocketOK(t) /\ SocketSound(t)
      /\ \A ip \in WantedFor(spin_universe) : MemberIn(ip, Current) => MemberIn(ip, t)
    BY <1>1, <1>3, RefreshIs
<1>7. /\ SocketOK(s) /\ SocketSound(s)
      /\ \A ip \in WantedFor(spin_universe') : MemberIn(ip, t) => MemberIn(ip, s)
    BY <1>1, <1>3, <1>5, <1>6, RefreshIs
<1>8. Current' = s /\ SocketOK(Current)' /\ SocketSound(Current)'
    BY <1>5, <1>7, BecomeIs
<1>9. GroupsIInv'
    BY <1>2, <1>8 DEF GroupsIInv
<1>10. ASSUME NEW ip \in Wanted \intersect Wanted', IsMember(ip)
       PROVE  IsMember(ip)'
    <2>1. ip \in WantedFor(spin_universe) /\ ip \in WantedFor(spin_universe')
        BY DEF Wanted, WantedFor
    <2>2. MemberIn(ip, Current)
        BY <1>10 DEF IsMember, MemberIn, Current, Sockets
    <2>3. MemberIn(ip, s)
        BY <1>6, <1>7, <2>1, <2>2
    <2>4. s.membership = membership'
        BY <1>5 DEF Become
    <2> QED
        BY <2>3, <2>4 DEF IsMember, MemberIn
<1> QED
    BY <1>9, <1>10

\* The inductive invariant, step by step (all of NodeGroups).
THEOREM GroupsIInvHolds == GroupsSpec => []GroupsIInv
<1>1. GroupsInit => GroupsIInv
    <2> SUFFICES ASSUME GroupsInit PROVE GroupsIInv
        OBVIOUS
    <2>1. Current = Sockets(ResetUdpGroupState, {})
        BY DEF GroupsInit, Current
    <2>2. SocketOK(Current) /\ SocketSound(Current)
        BY <2>1, EmptyIsSound
    <2> QED
        BY <2>2, UniverseIsInt DEF GroupsInit, GroupsIInv
<1>2. GroupsIInv /\ [GroupsNext]_groupsVars => GroupsIInv'
    <2> SUFFICES ASSUME GroupsIInv, [GroupsNext]_groupsVars PROVE GroupsIInv'
        OBVIOUS
    <2>1. /\ SocketOK(Current) /\ SocketSound(Current)
          /\ selected_nic_ip \in Interface /\ socket_initialized \in BOOLEAN
          /\ spin_universe \in Universe /\ ep_universe \in Universe
        BY DEF GroupsIInv
    <2>2. CASE Ticks
        BY <2>2, TickIs DEF Ticks
    <2>3. CASE SendOpensSocket \/ (\E u \in Universe : SpinUniverse(u)) \/ UNCHANGED groupsVars
        <3>1. /\ groups' = groups /\ membership' = membership
              /\ selected_nic_ip' = selected_nic_ip
              /\ socket_initialized' \in BOOLEAN
              /\ spin_universe' \in Universe /\ ep_universe' \in Universe
            BY <2>1, <2>3 DEF SendOpensSocket, SpinUniverse, groupsVars, universes
        <3>2. Current' = Current
            BY <3>1 DEF Current
        <3>3. SocketOK(Current)' /\ SocketSound(Current)'
            BY <2>1, <3>2 DEF SocketOK, SocketSound, MemberIn
        <3> QED
            BY <2>1, <3>1, <3>3 DEF GroupsIInv
    <2>4. ASSUME NEW nic \in Interface, ButtonSelectNicClick(nic)
          PROVE  GroupsIInv'
        <3>1. /\ selected_nic_ip' \in Interface /\ socket_initialized' \in BOOLEAN
              /\ spin_universe' \in Universe /\ ep_universe' \in Universe
            BY <2>1, <2>4 DEF ButtonSelectNicClick, universes
        <3>2. SocketOK(Current)' /\ SocketSound(Current)'
            <4>1. CASE ShutdownSocket
                <5>1. Become(Sockets(ResetUdpGroupState, {}))
                    BY <4>1 DEF ShutdownSocket, Become, Sockets
                <5> QED
                    BY <5>1, EmptyIsSound, BecomeIs
            <4>2. CASE \E s \in RefreshReceiverGroups(nic, spin_universe,
                                  Sockets(ResetUdpGroupState, {}), FALSE) : Become(s)
                <5>1. spin_universe \in Int
                    BY <2>1, UniverseIsInt
                <5> QED
                    BY <4>2, <5>1, EmptyIsSound, RefreshIs, BecomeIs
            <4> QED
                BY <2>4, <4>1, <4>2 DEF ButtonSelectNicClick
        <3> QED
            BY <3>1, <3>2 DEF GroupsIInv
    <2>5. CASE Restart
        <3>1. Become(Sockets(ResetUdpGroupState, {}))
            BY <2>5 DEF Restart, ShutdownSocket, Become, Sockets
        <3>2. SocketOK(Current)' /\ SocketSound(Current)'
            BY <3>1, EmptyIsSound, BecomeIs
        <3> QED
            BY <2>5, <3>2, UniverseIsInt DEF Restart, GroupsIInv
    <2> QED
        BY <2>2, <2>3, <2>4, <2>5 DEF GroupsNext
<1> QED
    BY <1>1, <1>2, PTL DEF GroupsSpec

-------------------------------------------------------------------------------
(***************************************************************************)
(* What follows from it                                                     *)
(***************************************************************************)

\* Types of the node's side and of the system's.
THEOREM GroupsTypeCorrect == GroupsSpec => []GroupsTypeOK
<1>1. GroupsIInv => GroupsTypeOK
    <2> SUFFICES ASSUME GroupsIInv PROVE GroupsTypeOK
        OBVIOUS
    <2>1. Current.groups = groups /\ Current.membership = membership
        BY DEF Current, Sockets
    <2>2. /\ groups \in [manager_poll : BOOLEAN, manager_send : BOOLEAN,
                         ep1_multicast_ip : Group \union {NoGroup}]
          /\ membership \subseteq Group \X Interface
        BY <2>1, GroupsDiffer DEF GroupsIInv, SocketOK, Bookkeeping
    <2> QED
        BY <2>2 DEF GroupsIInv, GroupsTypeOK
<1> QED
    BY <1>1, GroupsIInvHolds, PTL

\* A group taken for joined is one the socket is a member of, whatever calls
\* fail, and however often interface, universe and program change
\* (RefreshReceiverGroups, ResetUdpGroupState).
THEOREM RecordedStaysJoined == GroupsSpec => []RecordedIsJoined
<1>1. GroupsIInv => RecordedIsJoined
    <2> SUFFICES ASSUME GroupsIInv, NEW ip \in Recorded PROVE IsMember(ip)
        BY DEF RecordedIsJoined
    <2>1. Current.groups = groups /\ Current.membership = membership
        BY DEF Current, Sockets
    <2>2. ip # NoGroup
        BY GroupsDiffer DEF Recorded
    <2>3. MemberIn(ip, Current)
        BY <2>1, <2>2 DEF GroupsIInv, SocketSound, Recorded
    <2> QED
        BY <2>1, <2>3 DEF MemberIn, IsMember
<1> QED
    BY <1>1, GroupsIInvHolds, PTL

\* A tick never gives up a group that is wanted before it and after it,
\* whatever of it fails (ReceiveTimerTick, RefreshReceiverGroups).
THEOREM TicksKeepWanted == GroupsSpec => TicksKeepWantedGroups
<1>1. GroupsIInv /\ [GroupsNext]_groupsVars
        => [Ticks => \A ip \in Wanted \intersect Wanted' :
                        IsMember(ip) => IsMember(ip)']_groupsVars
    BY TickIs DEF Ticks
<1> QED
    BY <1>1, GroupsIInvHolds, PTL DEF GroupsSpec, TicksKeepWantedGroups

===============================================================================
