-------------------------- MODULE SacnSocket_proofs --------------------------
(***************************************************************************)
(* TLAPS proofs about SacnSocket, for any universes and any addresses the  *)
(* station may be given.                                                   *)
(***************************************************************************)
EXTENDS SacnSocket, TLAPS

\* Each interface keeps to its own addresses.
OwnAddresses ==
  /\ address \in [Interfaces -> InterfaceAddresses]
  /\ address["sta"] \in StaAddresses \cup {UnsetAddress}
  /\ address["ap"] \in {SoftApAddress, UnsetAddress}

SocketInv == SocketTypeOK /\ OwnAddresses /\ NoMembershipLeak

LEMMA GroupOf ==
  ASSUME NEW u \in Universes
  PROVE  SacnUniverse(u) \in Groups
  BY DEF Groups

LEMMA LocalAddressType == OwnAddresses => LocalAddress \in InterfaceAddresses
  BY DEF OwnAddresses, LocalAddress, InterfaceAddresses

\* The local address is that of exactly one interface.
LEMMA OneInterface ==
  ASSUME OwnAddresses, LocalAddress # UnsetAddress
  PROVE  \E n \in Interfaces : {i \in Interfaces : address[i] = LocalAddress} = {n}
  <1>1. CASE address["sta"] # UnsetAddress
    <2>1. {i \in Interfaces : address[i] = LocalAddress} = {"sta"}
      BY <1>1, AddressAssumption DEF OwnAddresses, LocalAddress, Interfaces
    <2> QED
      BY <2>1 DEF Interfaces
  <1>2. CASE address["sta"] = UnsetAddress
    <2>1. {i \in Interfaces : address[i] = LocalAddress} = {"ap"}
      BY <1>2, AddressAssumption DEF OwnAddresses, LocalAddress, Interfaces
    <2> QED
      BY <2>1 DEF Interfaces
  <1> QED
    BY <1>1, <1>2

\* closeSacnSocket() leaves the stack without a membership: the one on record
\* is found at its address, or else on any interface.
LEMMA CloseLeavesNothing ==
  ASSUME SocketInv
  PROVE  HeldAfterClose = {}
  <1>1. CASE memberships = {}
    BY <1>1 DEF HeldAfterClose, AtAddress, OnAnyInterface
  <1>2. CASE memberships # {}
    <2>1. PICK n \in Interfaces : joined /\ memberships = {<<n, joinedGroup>>}
      BY <1>2 DEF SocketInv, NoMembershipLeak
    <2>2. OnAnyInterface(joinedGroup) = memberships
      BY <2>1 DEF OnAnyInterface
    <2>3. AtAddress(joinedAddress, joinedGroup) # {}
             => AtAddress(joinedAddress, joinedGroup) = memberships
      BY <2>1 DEF AtAddress
    <2> QED
      BY <2>1, <2>2, <2>3 DEF HeldAfterClose
  <1> QED
    BY <1>1, <1>2

\* A bind, whichever way it ends, has at most the one membership on record.
LEMMA BindKeepsRecord ==
  ASSUME SocketInv, NEW u \in Universes, BindSacnSocket(u)
  PROVE  /\ memberships' \subseteq Interfaces \X Groups
         /\ socketReady' \in BOOLEAN /\ joined' \in BOOLEAN
         /\ joinedAddress' \in InterfaceAddresses /\ joinedGroup' \in Groups \cup {NoGroup}
         /\ NoMembershipLeak'
  <1> DEFINE g == SacnUniverse(u)
  <1>1. CASE BindJoined(g)
    <2>1. PICK n \in Interfaces : {i \in Interfaces : address[i] = LocalAddress} = {n}
      BY <1>1, OneInterface DEF BindJoined, SocketInv
    <2>2. memberships' = {<<n, g>>}
      BY <1>1, <2>1, CloseLeavesNothing DEF BindJoined
    <2>3. joinedAddress' \in InterfaceAddresses
      BY <1>1, LocalAddressType DEF BindJoined, SocketInv
    <2>4. g \in Groups
      BY GroupOf
    <2>5. joined' = TRUE /\ joinedGroup' = g /\ socketReady' = TRUE
      BY <1>1 DEF BindJoined
    <2> QED
      BY <2>2, <2>3, <2>4, <2>5 DEF NoMembershipLeak
  <1>2. CASE BindPlain
    <2>1. memberships' = {}
      BY <1>2, CloseLeavesNothing DEF BindPlain
    <2> QED
      BY <1>2, <2>1 DEF BindPlain, NoMembershipLeak, InterfaceAddresses
  <1> QED
    BY <1>1, <1>2 DEF BindSacnSocket

LEMMA SocketInitInv == SocketInit => SocketInv
  <1> SUFFICES ASSUME SocketInit
               PROVE  SocketInv
    OBVIOUS
  <1>1. OwnAddresses
    BY DEF SocketInit, OwnAddresses
  <1>2. universe \in Universes /\ seenAddress \in InterfaceAddresses
    BY <1>1, LocalAddressType DEF SocketInit
  <1>3. CASE LocalAddress # UnsetAddress /\ joined = TRUE
    <2>1. PICK n \in Interfaces : {i \in Interfaces : address[i] = LocalAddress} = {n}
      BY <1>1, <1>3, OneInterface
    <2>2. /\ memberships = {<<n, SacnUniverse(universe)>>}
          /\ joinedAddress = LocalAddress /\ joinedGroup = SacnUniverse(universe)
          /\ socketReady = TRUE
      BY <1>3, <2>1 DEF SocketInit
    <2>3. SacnUniverse(universe) \in Groups
      BY <1>2, GroupOf
    <2>4. NoMembershipLeak
      BY <1>3, <2>2 DEF NoMembershipLeak
    <2>5. SocketTypeOK
      BY <1>1, <1>2, <1>3, <2>2, <2>3, LocalAddressType DEF SocketTypeOK, OwnAddresses
    <2> QED
      BY <1>1, <2>4, <2>5 DEF SocketInv
  <1>4. CASE memberships = {} /\ joined = FALSE
    <2>1. joinedAddress = UnsetAddress /\ joinedGroup = NoGroup /\ socketReady \in BOOLEAN
      BY <1>4 DEF SocketInit
    <2>2. SocketTypeOK
      BY <1>1, <1>2, <1>4, <2>1 DEF SocketTypeOK, OwnAddresses, InterfaceAddresses
    <2> QED
      BY <1>1, <1>4, <2>2 DEF SocketInv, NoMembershipLeak
  <1> QED
    BY <1>3, <1>4 DEF SocketInit

LEMMA SocketNextInv == SocketInv /\ [SocketNext]_socketVars => SocketInv'
  <1> SUFFICES ASSUME SocketInv, [SocketNext]_socketVars
               PROVE  SocketInv'
    OBVIOUS
  <1>t. SocketTypeOK /\ OwnAddresses /\ NoMembershipLeak
    BY DEF SocketInv
  <1>1. CASE InterfaceChange
    <2>1. PICK n \in Interfaces,
                addr \in StaAddresses \cup {SoftApAddress, UnsetAddress} :
             /\ address' = [address EXCEPT ![n] = addr]
             /\ n = "sta" => addr \in StaAddresses \cup {UnsetAddress}
             /\ n # "sta" => addr \in {SoftApAddress, UnsetAddress}
             /\ memberships' \subseteq memberships
      BY <1>1 DEF InterfaceChange
    <2>2. OwnAddresses'
      BY <1>t, <2>1 DEF OwnAddresses, Interfaces, InterfaceAddresses
    <2>3. NoMembershipLeak'
      BY <1>1, <1>t, <2>1 DEF InterfaceChange, NoMembershipLeak, record
    <2>4. SocketTypeOK'
      BY <1>1, <1>t, <2>1, <2>2 DEF InterfaceChange, SocketTypeOK, OwnAddresses, record
    <2> QED
      BY <2>2, <2>3, <2>4 DEF SocketInv
  <1>2. CASE NetworkPoll
    BY <1>2, <1>t, BindKeepsRecord, LocalAddressType
    DEF NetworkPoll, SocketInv, SocketTypeOK, OwnAddresses
  <1>3. CASE RebindSocket
    BY <1>3, <1>t, BindKeepsRecord DEF RebindSocket, SocketInv, SocketTypeOK, OwnAddresses
  <1>4. ASSUME NEW u \in Universes, ApplyRuntimeConfig(u)
        PROVE  SocketInv'
    BY <1>4, <1>t, BindKeepsRecord DEF ApplyRuntimeConfig, SocketInv, SocketTypeOK, OwnAddresses
  <1>5. ASSUME NEW u \in Universes, ArtAddressPortAddress(u)
        PROVE  SocketInv'
    BY <1>5, <1>t
    DEF ArtAddressPortAddress, SocketInv, SocketTypeOK, OwnAddresses, NoMembershipLeak, record
  <1>6. ASSUME NEW u \in Universes, StoreUniverseOnly(u)
        PROVE  SocketInv'
    BY <1>6, <1>t
    DEF StoreUniverseOnly, SocketInv, SocketTypeOK, OwnAddresses, NoMembershipLeak, record
  <1>7. CASE UNCHANGED socketVars
    BY <1>7, <1>t DEF socketVars, record, SocketInv, SocketTypeOK, OwnAddresses, NoMembershipLeak
  <1> QED
    BY <1>1, <1>2, <1>3, <1>4, <1>5, <1>6, <1>7 DEF SocketNext

-----------------------------------------------------------------------------
(* Theorems *)

\* The inductive invariant holds in every state of the socket's life.
THEOREM SocketInvariant == SocketSpec => []SocketInv
  BY SocketInitInv, SocketNextInv, PTL DEF SocketSpec

\* Every variable of the socket model keeps its type.
THEOREM SocketTypes == SocketSpec => []SocketTypeOK
  <1>1. SocketInv => SocketTypeOK
    BY DEF SocketInv
  <1> QED
    BY <1>1, SocketInvariant, PTL

\* Whatever addresses the interfaces lose and get, and however binds end, the
\* network stack holds no group the firmware has no record of.
THEOREM NoGroupIsLeaked == SocketSpec => []NoMembershipLeak
  <1>1. SocketInv => NoMembershipLeak
    BY DEF SocketInv
  <1> QED
    BY <1>1, SocketInvariant, PTL

=============================================================================
