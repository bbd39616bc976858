----------------------------- MODULE SacnSocket -----------------------------
(***************************************************************************)
(* The multicast life cycle of the sACN socket: bindSacnSocket() and       *)
(* closeSacnSocket() in sacn.cpp, the events that call them, and the       *)
(* membership table of the network stack.  The ESP8266 socket class joins  *)
(* a group but never leaves it, so the firmware keeps its own record of    *)
(* the one group it joined, and must find that membership again after the  *)
(* interface changed its address or went away.                             *)
(***************************************************************************)
EXTENDS Naturals, FiniteSets

CONSTANTS
    Universes,      \* configured Port-Addresses, 0 among them
    StaAddresses,   \* addresses the access point may give the station
    SoftApAddress,  \* address of the node's own access point
    UnsetAddress    \* an unset IPAddress

ASSUME UniverseAssumption == Universes \subseteq Nat /\ Universes # {}
ASSUME AddressAssumption ==
    /\ UnsetAddress \notin StaAddresses /\ UnsetAddress # SoftApAddress
    /\ SoftApAddress \notin StaAddresses

VARIABLES
    address,        \* interface -> its current address
    memberships,    \* <<interface, group>> pairs the network stack holds
    universe,       \* getConfiguredUniverse()
    seenAddress,    \* lastActiveIP, at the last status poll
    socketReady,    \* sacnSocketReady
    joined,         \* sacnMulticastJoined
    joinedAddress,  \* sacnMulticastInterface
    joinedGroup     \* sacnMulticastGroup

socketVars == <<address, memberships, universe, seenAddress,
                socketReady, joined, joinedAddress, joinedGroup>>
record == <<joined, joinedAddress, joinedGroup>>

Interfaces == {"sta", "ap"}
InterfaceAddresses == StaAddresses \cup {SoftApAddress, UnsetAddress}
NoGroup == 0

\* getSacnUniverse(): universe 0 is not a legal sACN universe.
SacnUniverse(configured) == IF configured = 0 THEN 1 ELSE configured
Groups == {SacnUniverse(u) : u \in Universes}

\* getLocalInterfaceIP() and getActiveIP(): the station when connected.
LocalAddress == IF address["sta"] # UnsetAddress THEN address["sta"] ELSE address["ap"]

-----------------------------------------------------------------------------
(* The network stack, as sacn.cpp uses it *)

\* igmp_leavegroup(addr, group): what is left, and whether anything was.
AtAddress(addr, g) ==
    {m \in memberships : address[m[1]] = addr /\ m[2] = g}
OnAnyInterface(g) == {m \in memberships : m[2] = g}

\* A variant without the second attempt on all interfaces.
LeaveAtRecordedAddress ==
    IF joined THEN memberships \ AtAddress(joinedAddress, joinedGroup) ELSE memberships

\* closeSacnSocket(): leave at the recorded address, failing that anywhere.
HeldAfterClose ==
    IF ~joined
      THEN memberships
      ELSE IF AtAddress(joinedAddress, joinedGroup) # {}
             THEN memberships \ AtAddress(joinedAddress, joinedGroup)
             ELSE memberships \ OnAnyInterface(joinedGroup)

\* igmp_joingroup() succeeded and the socket opened.
BindJoined(g) ==
    /\ LocalAddress # UnsetAddress
    /\ memberships' =
          HeldAfterClose \cup {<<n, g>> : n \in {i \in Interfaces : address[i] = LocalAddress}}
    /\ joined' = TRUE
    /\ joinedAddress' = LocalAddress
    /\ joinedGroup' = g
    /\ socketReady' = TRUE

\* No address, no room for the group, or the socket did not open on the
\* first attempt (the group is left again): a plain bind, which may fail.
BindPlain ==
    /\ memberships' = HeldAfterClose
    /\ joined' = FALSE
    /\ joinedAddress' = UnsetAddress
    /\ joinedGroup' = NoGroup
    /\ socketReady' \in BOOLEAN

\* bindSacnSocket() for a configured universe.
BindSacnSocket(u) == BindJoined(SacnUniverse(u)) \/ BindPlain

-----------------------------------------------------------------------------
(* Events *)

\* The station or access-point interface gets another address or goes away;
\* a removed interface takes its memberships along, a disconnected one not.
InterfaceChange ==
    /\ \E n \in Interfaces :
          /\ \E addr \in IF n = "sta" THEN StaAddresses \cup {UnsetAddress}
                                       ELSE {SoftApAddress, UnsetAddress} :
                address' = [address EXCEPT ![n] = addr]
          /\ \/ UNCHANGED memberships
             \/ /\ address'[n] = UnsetAddress
                /\ memberships' = {m \in memberships : m[1] # n}
    /\ UNCHANGED <<universe, seenAddress, socketReady, record>>

\* updateNetwork() notices the change and loop() calls
\* handleSacnNetworkChange().
NetworkPoll ==
    /\ LocalAddress # seenAddress
    /\ seenAddress' = LocalAddress
    /\ BindSacnSocket(universe)
    /\ UNCHANGED <<address, universe>>

\* updateSacn() without a socket.
RebindSocket ==
    /\ ~socketReady
    /\ BindSacnSocket(universe)
    /\ UNCHANGED <<address, universe, seenAddress>>

\* applyArtNetRuntimeConfig() after a Port-Address, protocol or direction
\* change.
ApplyRuntimeConfig(u) ==
    /\ universe' = u
    /\ BindSacnSocket(u)
    /\ UNCHANGED <<address, seenAddress>>

\* applyArtAddressPortAddress(): the Art-Net side only.
ArtAddressPortAddress(u) ==
    /\ universe' = u
    /\ UNCHANGED <<address, memberships, seenAddress, socketReady, record>>

\* A stored configuration that waits for a restart, or an uploaded one: the
\* universe in RAM only, the socket is left as it is.
StoreUniverseOnly(u) ==
    /\ universe' = u
    /\ UNCHANGED <<address, memberships, seenAddress, socketReady, record>>

\* initSacn() after initNetwork(): the first bind is part of SocketInit.
SocketInit ==
    /\ address \in [Interfaces -> InterfaceAddresses]
    /\ address["sta"] \in StaAddresses \cup {UnsetAddress}
    /\ address["ap"] \in {SoftApAddress, UnsetAddress}
    /\ universe \in Universes
    /\ seenAddress = LocalAddress
    /\ \/ /\ LocalAddress # UnsetAddress
          /\ memberships = {<<n, SacnUniverse(universe)>> :
                               n \in {i \in Interfaces : address[i] = LocalAddress}}
          /\ joined = TRUE
          /\ joinedAddress = LocalAddress
          /\ joinedGroup = SacnUniverse(universe)
          /\ socketReady = TRUE
       \/ /\ memberships = {}
          /\ joined = FALSE
          /\ joinedAddress = UnsetAddress
          /\ joinedGroup = NoGroup
          /\ socketReady \in BOOLEAN

SocketNext ==
    \/ InterfaceChange
    \/ NetworkPoll
    \/ RebindSocket
    \/ \E u \in Universes : ApplyRuntimeConfig(u)
    \/ \E u \in Universes : ArtAddressPortAddress(u)
    \/ \E u \in Universes : StoreUniverseOnly(u)

SocketSpec == SocketInit /\ [][SocketNext]_socketVars

-----------------------------------------------------------------------------
(* Properties *)

SocketTypeOK ==
    /\ address \in [Interfaces -> InterfaceAddresses]
    /\ memberships \subseteq Interfaces \X Groups
    /\ universe \in Universes
    /\ seenAddress \in InterfaceAddresses
    /\ socketReady \in BOOLEAN
    /\ joined \in BOOLEAN
    /\ joinedAddress \in InterfaceAddresses
    /\ joinedGroup \in Groups \cup {NoGroup}

\* The stack's finite group pool is never leaked into: it holds at most the
\* one membership on record, whatever happened to the interface in between.
NoMembershipLeak ==
    memberships # {} => joined /\ \E n \in Interfaces : memberships = {<<n, joinedGroup>>}

\* "Join the correct sACN multicast group for the configured
\* Universe" (TODO.md): the group on record is that of the configured universe.
JoinedGroupIsConfigured ==
    joined => joinedGroup = SacnUniverse(universe)
=============================================================================
