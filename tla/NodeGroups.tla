------------------------------ MODULE NodeGroups ------------------------------
(***************************************************************************)
(* The receive socket of the node program and the multicast groups it is    *)
(* a member of (sig-net-node-udp-socket.hpp and the form's calls of it).    *)
(*                                                                          *)
(* Three groups are wanted: the manager's polls, the manager's commands,    *)
(* and the one the universe on the form folds to.  What was joined is kept  *)
(* in UdpGroupState and repaired on every tick of the receive timer.        *)
(* membership is the socket's real state, which only the operating system   *)
(* knows: pairs of a group and the interface it was joined on.              *)
(*                                                                          *)
(* A group is joined on the selected interface, or when that fails on the   *)
(* system's default one, but always left on the default one.  Every call    *)
(* may fail; to join twice and to leave what was not joined does fail.      *)
(*                                                                          *)
(* The universe has two homes.  The form's value is the one listened to,    *)
(* the blob's the one reported.  A manager's SET reaches both in one tick.  *)
(* The form's control has no event, so what an operator enters stays on     *)
(* the form.  The control passes on what is typed, also out of range.       *)
(***************************************************************************)
EXTENDS Integers

CONSTANTS
    Universe,           \* the universes an operator or a manager chooses
    Interface,          \* addresses of network interfaces
    Loopback,           \* 127.0.0.1
    DefaultInterface    \* where the system puts INADDR_ANY

ASSUME UniverseAssumption == Universe \subseteq 0 .. 65535 /\ 1 \in Universe
ASSUME InterfaceAssumption == DefaultInterface \in Interface

VARIABLES
    socket_initialized,
    selected_nic_ip,
    groups,             \* udp_groups, what the program takes for joined
    membership,         \* what the socket is a member of
    spin_universe,      \* the universe on the form
    ep_universe         \* the universe in the blob TID_EP_UNIVERSE

universes == <<spin_universe, ep_universe>>
groupsVars == <<socket_initialized, selected_nic_ip, groups, membership, universes>>

MIN_UNIVERSE == 1
MAX_UNIVERSE == 63999
DEFAULT_EP1_UNIVERSE == 1
MULTICAST_MAX_INDEX == 109

\* A group by the last two bytes of its address 239.254.x.y.
MULTICAST_MANAGER_POLL_IP == <<255, 252>>
MULTICAST_MANAGER_SEND_IP == <<255, 251>>

ValidUniverse(u) == u \in MIN_UNIVERSE .. MAX_UNIVERSE

\* Mutant of CalculateMulticastAddress: the offset of 1 is lost.
CalculateMulticastAddressFromZero(u) == <<0, u % MULTICAST_MAX_INDEX>>

CalculateMulticastAddress(u) == <<0, ((u - 1) % MULTICAST_MAX_INDEX) + 1>>

\* ep1_multicast_ip while joined_ep1_universe_group is false.
NoGroup == <<>>

Group == {MULTICAST_MANAGER_POLL_IP, MULTICAST_MANAGER_SEND_IP}
         \union {<<0, i>> : i \in 1 .. MULTICAST_MAX_INDEX}

ResetUdpGroupState == [manager_poll |-> FALSE, manager_send |-> FALSE,
                       ep1_multicast_ip |-> NoGroup]

GroupsInit ==
    /\ socket_initialized = FALSE
    /\ selected_nic_ip \in Interface
    /\ groups = ResetUdpGroupState
    /\ membership = {}
    /\ spin_universe = DEFAULT_EP1_UNIVERSE
    /\ ep_universe = DEFAULT_EP1_UNIVERSE

-------------------------------------------------------------------------------
(***************************************************************************)
(* RefreshReceiverGroups, as the set of states it may leave: a state is the *)
(* bookkeeping g with the membership m.  quiet says that no call fails      *)
(* without need.                                                            *)
(***************************************************************************)
Sockets(g, m) == [groups |-> g, membership |-> m]

Via(nic) == IF nic = Loopback THEN {DefaultInterface} ELSE {nic, DefaultInterface}

\* The memberships a join may end in; none when it has to fail.
Joined(nic, ip, m) == {m \union {<<ip, i>>} : i \in {j \in Via(nic) : <<ip, j>> \notin m}}

MayFail(nic, ip, m, quiet) == ~quiet \/ Joined(nic, ip, m) = {}

LeaveMulticastGroup(ip, m, quiet) ==
    {m \ {<<ip, DefaultInterface>>}} \union (IF quiet THEN {} ELSE {m})

RefreshManagerPoll(nic, s, quiet) ==
    IF s.groups.manager_poll THEN {s}
    ELSE {Sockets([s.groups EXCEPT !.manager_poll = TRUE], m) :
             m \in Joined(nic, MULTICAST_MANAGER_POLL_IP, s.membership)}
         \union {t \in {s} : MayFail(nic, MULTICAST_MANAGER_POLL_IP, s.membership, quiet)}

RefreshManagerSend(nic, s, quiet) ==
    IF s.groups.manager_send THEN {s}
    ELSE {Sockets([s.groups EXCEPT !.manager_send = TRUE], m) :
             m \in Joined(nic, MULTICAST_MANAGER_SEND_IP, s.membership)}
         \union {t \in {s} : MayFail(nic, MULTICAST_MANAGER_SEND_IP, s.membership, quiet)}

\* The old universe's group is left, and forgotten whether or not that worked.
LeaveUniverse(s, quiet) ==
    IF s.groups.ep1_multicast_ip = NoGroup THEN {s}
    ELSE {Sockets([s.groups EXCEPT !.ep1_multicast_ip = NoGroup], m) :
             m \in LeaveMulticastGroup(s.groups.ep1_multicast_ip, s.membership, quiet)}

JoinUniverse(nic, ip, s, quiet) ==
    {Sockets([s.groups EXCEPT !.ep1_multicast_ip = ip], m) :
        m \in Joined(nic, ip, s.membership)}
    \union {t \in {s} : MayFail(nic, ip, s.membership, quiet)}

\* Mutant of RefreshUniverse: joined once, the group is never looked at again.
RefreshUniverseOnce(nic, u, s, quiet) ==
    LET ip == CalculateMulticastAddress(u)
    IN  IF ~ValidUniverse(u) \/ s.groups.ep1_multicast_ip # NoGroup THEN {s}
        ELSE JoinUniverse(nic, ip, s, quiet)

\* Mutant of RefreshUniverse: left and joined again although it is the same.
RefreshUniverseAlways(nic, u, s, quiet) ==
    LET ip == CalculateMulticastAddress(u)
    IN  IF ~ValidUniverse(u) THEN {s}
        ELSE UNION {JoinUniverse(nic, ip, t, quiet) : t \in LeaveUniverse(s, quiet)}

RefreshUniverse(nic, u, s, quiet) ==
    LET ip == CalculateMulticastAddress(u)
    IN  IF ~ValidUniverse(u) \/ s.groups.ep1_multicast_ip = ip THEN {s}
        ELSE UNION {JoinUniverse(nic, ip, t, quiet) : t \in LeaveUniverse(s, quiet)}

RefreshReceiverGroups(nic, u, s, quiet) ==
    UNION {RefreshUniverse(nic, u, t, quiet) :
              t \in UNION {RefreshManagerSend(nic, r, quiet) :
                              r \in RefreshManagerPoll(nic, s, quiet)}}

-------------------------------------------------------------------------------
(***************************************************************************)
(* Actions                                                                  *)
(***************************************************************************)

Current == Sockets(groups, membership)

Become(s) == groups' = s.groups /\ membership' = s.membership

\* A tick with a socket, or with one it could open: the groups are repaired.
\* set is the universe a manager's SET brought in this tick, if any: it goes to
\* the blob and then to the form, and the groups are repaired for it as well.
ReceiveTimerTick(set, quiet) ==
    /\ socket_initialized' = TRUE
    /\ spin_universe' \in (IF set = {} THEN {spin_universe} ELSE set)
    /\ ep_universe' \in (IF set = {} THEN {ep_universe} ELSE {spin_universe'})
    /\ \E t \in RefreshReceiverGroups(selected_nic_ip, spin_universe, Current, quiet) :
          \E s \in (IF set = {} THEN {t}
                    ELSE RefreshReceiverGroups(selected_nic_ip, spin_universe', t, quiet)) :
             Become(s)
    /\ UNCHANGED selected_nic_ip

\* Whatever is sent outside the tick opens the socket and joins nothing.
SendOpensSocket ==
    /\ ~socket_initialized
    /\ socket_initialized' = TRUE
    /\ UNCHANGED <<selected_nic_ip, groups, membership, universes>>

\* Mutant of ShutdownSocket: the bookkeeping is kept.
ShutdownSocketOnly ==
    /\ membership' = {}
    /\ groups' = groups

\* The socket is closed, and with it the system ends every membership.
ShutdownSocket ==
    /\ membership' = {}
    /\ groups' = ResetUdpGroupState

\* Another interface, or the same: the socket is closed and, if it opens
\* again, the groups are joined anew.
ButtonSelectNicClick(nic) ==
    /\ selected_nic_ip' = nic
    /\ \/ /\ socket_initialized' = FALSE
          /\ ShutdownSocket
       \/ /\ socket_initialized' = TRUE
          /\ \E s \in RefreshReceiverGroups(nic, spin_universe,
                                            Sockets(ResetUdpGroupState, {}), FALSE) :
                Become(s)
    /\ UNCHANGED universes

\* The operator enters a universe.
SpinUniverse(u) ==
    /\ spin_universe' = u
    /\ UNCHANGED <<socket_initialized, selected_nic_ip, groups, membership, ep_universe>>

\* FormDestroy, and the program is started again.
Restart ==
    /\ socket_initialized' = FALSE
    /\ selected_nic_ip' \in Interface
    /\ ShutdownSocket
    /\ spin_universe' = DEFAULT_EP1_UNIVERSE
    /\ ep_universe' = DEFAULT_EP1_UNIVERSE

Ticks ==
    \/ ReceiveTimerTick({}, FALSE)
    \/ \E u \in {v \in Universe : ValidUniverse(v)} : ReceiveTimerTick({u}, FALSE)

GroupsNext ==
    \/ Ticks
    \/ SendOpensSocket
    \/ \E nic \in Interface : ButtonSelectNicClick(nic)
    \/ \E u \in Universe : SpinUniverse(u)
    \/ Restart

GroupsSpec == GroupsInit /\ [][GroupsNext]_groupsVars

\* The receive timer never stops, and the system does not fail for ever.
GroupsFairSpec == GroupsSpec /\ WF_groupsVars(ReceiveTimerTick({}, TRUE))

-------------------------------------------------------------------------------
(***************************************************************************)
(* Properties                                                               *)
(***************************************************************************)

\* Types of the node's side and of the system's.
GroupsTypeOK ==
    /\ socket_initialized \in BOOLEAN
    /\ selected_nic_ip \in Interface
    /\ groups \in [manager_poll : BOOLEAN, manager_send : BOOLEAN,
                   ep1_multicast_ip : Group \union {NoGroup}]
    /\ membership \subseteq Group \X Interface
    /\ spin_universe \in Universe /\ ep_universe \in Universe

IsMember(ip) == \E i \in Interface : <<ip, i>> \in membership

Recorded ==
    {ip \in Group :
        \/ ip = MULTICAST_MANAGER_POLL_IP /\ groups.manager_poll
        \/ ip = MULTICAST_MANAGER_SEND_IP /\ groups.manager_send
        \/ ip = groups.ep1_multicast_ip}

Wanted ==
    {MULTICAST_MANAGER_POLL_IP, MULTICAST_MANAGER_SEND_IP}
    \union {CalculateMulticastAddress(u) : u \in {v \in {spin_universe} : ValidUniverse(v)}}

\* What the program takes for joined the socket is a member of, through every
\* close, reopening and failed call: a group wrongly taken for joined would
\* never be joined again (UdpGroupState against the socket's memberships).
RecordedIsJoined == \A ip \in Recorded : IsMember(ip)

\* A tick of the timer never costs the node a group it is a member of and goes
\* on wanting, also when a new universe folds to the old one's group: no gap
\* in which levels, polls or commands are lost (RefreshReceiverGroups).
TicksKeepWantedGroups ==
    [][Ticks => \A ip \in Wanted \intersect Wanted' :
                   IsMember(ip) => IsMember(ip)']_groupsVars

Listening == socket_initialized /\ \A ip \in Wanted : IsMember(ip)

\* Again and again the node is a member of every group it wants, whatever was
\* entered, SET, rebound or restarted, and also where a group it failed to
\* leave keeps it from joining that group a second time.
ListensAgain == []<>Listening

\* sig-net-node-data.hpp:39 "UI change -> update blob + set
\* blob.manager_is_stale": the universe the node listens to, with a socket that is
\* a member of its group and knows it, is the one it reports.
ListensTo(u) ==
    /\ socket_initialized
    /\ u = spin_universe /\ ValidUniverse(u)
    /\ groups.ep1_multicast_ip = CalculateMulticastAddress(u)
    /\ IsMember(CalculateMulticastAddress(u))

ReportsItsUniverse == \A u \in Universe : ListensTo(u) => ep_universe = u

===============================================================================
