------------------------------ MODULE WifiLink ------------------------------
(***************************************************************************)
(* The network interface of the node (network.cpp): the three Wi-Fi modes, *)
(* the reconnect scheduler with its doubling delay, the controlled         *)
(* reconnect and the temporary Client of the test fixture, mDNS, and the   *)
(* notice given to the protocol sockets when the active address changes.   *)
(*                                                                         *)
(* One tick is one poll interval.  Deadlines are kept as the ticks left,   *)
(* 0 once passed: the code compares them as signed differences of          *)
(* millis(), which agrees for 24 days.  WiFi.disconnect() is visible in    *)
(* WiFi.status() at once.  Statistics, RSSI and log texts are left out.    *)
(***************************************************************************)
EXTENDS Integers

CONSTANTS
  Addresses,        \* addresses an access point's DHCP server may assign
  ApAddress,        \* the node's own soft access point, 2.0.0.1
  NoAddress,        \* no interface: 0.0.0.0
  MinDelay,         \* RECONNECT_DELAY_MIN_MS
  MaxDelay,         \* RECONNECT_DELAY_MAX_MS
  RequestDelay,     \* RECONNECT_REQUEST_DELAY_MS
  Outages,          \* outage lengths a fixture may ask for, after constrain()
  SwitchDelay,      \* delay before the temporary Client is started
  TestTimeout,      \* connection deadline of the temporary Client
  JoinTime,         \* ticks of association and DHCP (external)
  WifiMaxLag,       \* bound: ticks a poll may be late
  QuietLimit        \* bound of the history counter "quiet"

ASSUME WifiAssumption ==
  /\ MinDelay \in Nat \ {0} /\ MaxDelay \in Nat /\ MinDelay <= MaxDelay
  /\ RequestDelay \in Nat /\ Outages \subseteq Nat
  /\ SwitchDelay \in Nat /\ TestTimeout \in Nat
  /\ JoinTime \in Nat \ {0} /\ WifiMaxLag \in Nat /\ QuietLimit \in Nat
  /\ ApAddress \notin Addresses /\ NoAddress \notin Addresses \cup {ApAddress}

\* Ticks within which an undisturbed station is connected, if it has at most w
\* to wait at first: the attempts that come too soon, each of them as late as
\* a poll may be, and the one that is given the time to succeed.
ReturnBound(w) == w + (3 + WifiMaxLag) * JoinTime + WifiMaxLag

\* The longest delay (60 s) is longer than an association takes, and the
\* history looks far enough.
ASSUME QuietAssumption ==
  /\ JoinTime <= MaxDelay
  /\ \A w \in Outages \cup {MaxDelay} : ReturnBound(w) <= QuietLimit

VARIABLES
  wifi,       \* the state network.cpp and the Wi-Fi SDK keep (see WifiTypeOK)
  apThere,    \* the configured access point is in range (external)
  served,     \* active address the protocol handlers were last told
  outageLeft, \* history: ticks left of the outage that was asked for
  quiet       \* history: ticks since anything but time disturbed the link

wifiVars == <<wifi, apThere, served, outageLeft, quiet>>

WifiModes == {"AP", "AP_CLIENT", "CLIENT"}
Least(a, b) == IF a < b THEN a ELSE b
Less1(n) == IF n > 0 THEN n - 1 ELSE 0

WifiTypeOK ==
  /\ wifi \in [cfgMode : WifiModes, radio : {"AP", "AP_STA", "STA", "OFF"},
               link : {"off", "joining", "up"}, joinLeft : 0..JoinTime,
               lease : Addresses, since : 0..(1 + WifiMaxLag),
               last : BOOLEAN, lastIp : Addresses \cup {ApAddress, NoAddress},
               down : BOOLEAN, wait : Nat, delay : MinDelay..MaxDelay,
               request : BOOLEAN, requestIn : 0..RequestDelay,
               outage : Outages \cup {0}, hold : Nat,
               test : {"none", "pending", "active"}, testUp : BOOLEAN,
               switchIn : 0..SwitchDelay, deadlineIn : 0..TestTimeout,
               mdns : Addresses \cup {ApAddress, NoAddress},
               led : {"connected", "ap", "disconnected"}]
  /\ apThere \in BOOLEAN
  /\ served \in Addresses \cup {ApAddress, NoAddress}
  /\ outageLeft \in Nat /\ quiet \in 0..QuietLimit

---------------------------------------------------------------------------
(* Helpers                                                                 *)

HasAccessPoint(n) == n.radio \in {"AP", "AP_STA"}
HasStation(n) == n.radio \in {"STA", "AP_STA"}
Connected(n) == n.link = "up"

ManagesStation(n) == n.test # "none" \/ n.cfgMode # "AP"

ActiveIP(n) == IF Connected(n) THEN n.lease
               ELSE IF HasAccessPoint(n) THEN ApAddress ELSE NoAddress

NetworkLed(n) == IF Connected(n) THEN "connected"
                 ELSE IF HasAccessPoint(n) THEN "ap" ELSE "disconnected"

\* startMDNS() and stopMDNS(); MDNS.begin() may fail.
StopMDNS(n) == [n EXCEPT !.mdns = NoAddress]
StartMDNS(n, begins) ==
  [n EXCEPT !.mdns = IF begins THEN ActiveIP(n) ELSE NoAddress]

\* WiFi.disconnect(), WiFi.begin() and WiFi.reconnect(): an attempt tears
\* down whatever association is still in progress.
Disconnected(n) == [n EXCEPT !.link = "off", !.joinLeft = 0]
Joining(n) == IF HasStation(n)
              THEN [n EXCEPT !.link = "joining", !.joinLeft = JoinTime]
              ELSE n

---------------------------------------------------------------------------
(* The poll, stage by stage                                                *)

SwitchDue(n) == n.test = "pending" /\ n.switchIn = 0

StartTestClient(n) ==
  IF SwitchDue(n)
  THEN Joining(StopMDNS(
         [n EXCEPT !.test = "active", !.testUp = FALSE, !.deadlineIn = TestTimeout,
                   !.down = TRUE, !.wait = MinDelay, !.delay = MinDelay,
                   !.radio = "STA"]))
  ELSE n

TestGivesUp(n) == n.test = "active" /\ ~n.testUp /\ n.deadlineIn = 0

RestoreTestFallback(n) ==
  IF TestGivesUp(n)
  THEN [Disconnected(StopMDNS(n)) EXCEPT
          !.radio = "AP", !.test = "none", !.testUp = FALSE,
          !.request = FALSE, !.down = FALSE, !.hold = 0]
  ELSE n

RequestDue(n) == n.request /\ n.requestIn = 0

StartOutage(n) ==
  IF RequestDue(n)
  THEN Disconnected(StopMDNS(
         [n EXCEPT !.request = FALSE, !.down = TRUE,
                   !.delay = MinDelay, !.hold = n.outage, !.wait = n.outage]))
  ELSE n

NoticeConnection(n) ==
  [n EXCEPT !.testUp = @ \/ n.test = "active",
            !.delay = MinDelay, !.down = FALSE, !.hold = 0]

LossWait(n) == IF n.hold > 0 THEN n.hold ELSE MinDelay

NoticeLoss(n) ==
  StopMDNS([n EXCEPT !.down = TRUE, !.delay = MinDelay,
                     !.wait = LossWait(n)])

\* Variant: the delay between two attempts does not grow.
NextDelayConstant(d) == d

NextDelay(d) == Least(2 * d, MaxDelay)

AttemptDue(n) == ManagesStation(n) /\ ~Connected(n) /\ n.wait = 0

Attempt(n) ==
  IF AttemptDue(n)
  THEN [Joining(n) EXCEPT !.delay = NextDelay(n.delay),
                          !.wait = NextDelay(n.delay)]
  ELSE n

\* The part of the poll that manages the station, up to the attempt.
NoticeStatus(n) ==
  IF ~ManagesStation(n) THEN n
  ELSE IF Connected(n) THEN (IF n.last THEN n ELSE NoticeConnection(n))
  ELSE IF n.last THEN NoticeLoss(n)
  ELSE [n EXCEPT !.down = TRUE]

Changed(n) == ActiveIP(n) # n.lastIp \/ Connected(n) # n.last

\* updateNetwork() of one due poll, and the two handlers loop() calls when
\* it returns TRUE.
UpdateNetwork ==
  /\ wifi.since >= 1
  /\ LET started  == StartTestClient([wifi EXCEPT !.since = 0])
         kept     == RestoreTestFallback(started)
         ordered  == StartOutage(kept)
         noticed  == NoticeStatus(ordered)
         attempt  == Attempt(noticed)
     IN /\ \E begins \in BOOLEAN :
             wifi' = [(IF Changed(ordered) THEN StartMDNS(attempt, begins)
                       ELSE attempt) EXCEPT
                        !.lastIp = ActiveIP(ordered), !.last = Connected(ordered),
                        !.led = NetworkLed(ordered)]
        /\ served' = IF Changed(ordered) THEN ActiveIP(ordered) ELSE served
        /\ outageLeft' = IF RequestDue(kept) THEN kept.outage
                         ELSE IF TestGivesUp(started) THEN 0 ELSE outageLeft
        /\ quiet' = IF SwitchDue(wifi) \/ TestGivesUp(started) \/ RequestDue(kept)
                    THEN 0 ELSE quiet
  /\ UNCHANGED apThere

---------------------------------------------------------------------------
(* Requests of the web interface                                           *)

RequestClientReconnect(length) ==
  /\ ManagesStation(wifi) /\ Connected(wifi) /\ ~wifi.request
  /\ wifi' = [wifi EXCEPT !.request = TRUE, !.requestIn = RequestDelay,
                          !.outage = length]
  /\ UNCHANGED <<apThere, served, outageLeft, quiet>>

RequestTestClient ==
  /\ wifi.cfgMode = "AP" /\ wifi.test = "none"
  /\ wifi' = [wifi EXCEPT !.test = "pending", !.switchIn = SwitchDelay]
  /\ UNCHANGED <<apThere, served, outageLeft, quiet>>

---------------------------------------------------------------------------
(* Boot                                                                    *)

\* initNetwork(): WiFiManager blocks until it is connected or gives up.
\* The reconnect timers are then set only for a station that is not up.
Booted(mode, up, begins, lease) ==
  LET on == up /\ mode # "AP"
      n == [cfgMode |-> mode, lease |-> lease,
            radio |-> CASE mode = "AP" -> "AP" [] mode = "CLIENT" -> "STA"
                        [] OTHER -> "AP_STA",
            link |-> IF on THEN "up" ELSE "off", joinLeft |-> 0, since |-> 0,
            last |-> on, lastIp |-> NoAddress, down |-> mode # "AP" /\ ~on,
            wait |-> IF mode # "AP" /\ ~on THEN MinDelay ELSE 0,
            delay |-> MinDelay, request |-> FALSE, requestIn |-> 0,
            outage |-> 0, hold |-> 0, test |-> "none",
            testUp |-> FALSE, switchIn |-> 0, deadlineIn |-> 0,
            mdns |-> NoAddress, led |-> "disconnected"]
  IN [StartMDNS(n, begins) EXCEPT !.lastIp = ActiveIP(n), !.led = NetworkLed(n)]

InitNetwork ==
  { Booted(mode, up, begins, lease) : mode \in WifiModes,
      up \in {u \in BOOLEAN : u => apThere}, begins \in BOOLEAN,
      lease \in Addresses }

\* A restart the user asked for: prepareTemporaryTestClientRestart() turns
\* the radio off, the RAM state is lost, the stored mode may have changed.
NetworkRestart ==
  /\ wifi' \in InitNetwork
  /\ served' = ActiveIP(wifi')
  /\ outageLeft' = 0 /\ quiet' = 0
  /\ UNCHANGED apThere

---------------------------------------------------------------------------
(* The environment                                                         *)

Disturb(n) == /\ wifi' = n /\ quiet' = 0
              /\ UNCHANGED <<served, outageLeft>>

AccessPointLost ==
  /\ apThere /\ apThere' = FALSE
  /\ Disturb(IF Connected(wifi) THEN Disconnected(wifi) ELSE wifi)

AccessPointBack ==
  /\ ~apThere /\ apThere' = TRUE
  /\ Disturb(wifi)

\* The access point drops the station without going away.
Deauthenticated ==
  /\ Connected(wifi) /\ UNCHANGED apThere
  /\ Disturb(Disconnected(wifi))

\* A DHCP renewal hands out another address.
LeaseChanged ==
  /\ Connected(wifi)
  /\ \E a \in Addresses \ {wifi.lease} : wifi' = [wifi EXCEPT !.lease = a]
  /\ UNCHANGED <<apThere, served, outageLeft, quiet>>

\* An association in progress ends after JoinTime; without automatic
\* reconnects of the SDK a failed one is not repeated.
LinkAfterTick(n) == IF n.link # "joining" \/ n.joinLeft > 1 THEN n.link
                    ELSE IF apThere THEN "up" ELSE "off"

WifiTick ==
  /\ wifi.since <= WifiMaxLag
  /\ wifi' = [wifi EXCEPT
       !.since = @ + 1, !.wait = Less1(@), !.hold = Less1(@),
       !.requestIn = Less1(@), !.switchIn = Less1(@), !.deadlineIn = Less1(@),
       !.joinLeft = Less1(@),
       !.link = LinkAfterTick(wifi)]
  /\ outageLeft' = Less1(outageLeft)
  /\ quiet' = Least(quiet + 1, QuietLimit)
  /\ UNCHANGED <<apThere, served>>

WifiInit ==
  /\ apThere \in BOOLEAN
  /\ wifi \in InitNetwork
  /\ served = ActiveIP(wifi)
  /\ outageLeft = 0 /\ quiet = 0

WifiNext ==
  \/ UpdateNetwork
  \/ \E length \in Outages : RequestClientReconnect(length)
  \/ RequestTestClient
  \/ NetworkRestart
  \/ AccessPointLost
  \/ AccessPointBack
  \/ Deauthenticated
  \/ LeaseChanged
  \/ WifiTick

WifiSpec == WifiInit /\ [][WifiNext]_wifiVars

---------------------------------------------------------------------------
(* Properties                                                              *)

\* The station comes back in time and not before its time.  While its access
\* point stays in range it is connected again within a bound: an attempt
\* aborts the association the previous one started, so this rests on the
\* delay growing past the time an association takes (MANUAL.md:263-266).  And
\* a controlled outage lasts as long as was asked for, also when it is only a
\* later poll that notices the loss and would start the schedule afresh.
StationReturnsInTime ==
  /\ (quiet = QuietLimit /\ apThere /\ ManagesStation(wifi) /\ HasStation(wifi))
       => Connected(wifi)
  /\ outageLeft > 0 => wifi.link = "off"

=============================================================================
