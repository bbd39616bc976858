--------------------------- MODULE ArtNetDirectory ---------------------------
(***************************************************************************)
(* Who the node sends to, and whom it answers: the table of subscribers    *)
(* that ArtPollReply fills (artnet.cpp), and the queue of delayed replies  *)
(* to ArtPoll (ArtNetNode.cpp), under updateArtNet() and its socket.       *)
(*                                                                         *)
(* One pass of updateArtNet() is DirBegin, DirRead and DirRest; time may   *)
(* pass between them.  Times are ages or time left, in ticks.              *)
(***************************************************************************)
EXTENDS Naturals, Sequences, FiniteSets

CONSTANTS
    Peers,            \* other devices: an IP address and a bind index
    MaxSubscribers,   \* MAX_ARTNET_SUBSCRIBERS
    MaxReplies,       \* MAX_PENDING_POLL_REPLIES
    ReplyDelay,       \* largest delay of a reply, random(1000)
    PollInterval,     \* SUBSCRIBER_POLL_INTERVAL_MS
    SubTimeout,       \* SUBSCRIBER_TIMEOUT_MS
    DiscoveryTime,    \* DISCOVERY_DURATION_MS
    BindRetry,        \* ARTNET_BIND_RETRY_MS
    DirMaxLag,        \* ticks within a pass and until the next one ends
    Nobody            \* no requester; no time

ASSUME DirectorySizes ==
    /\ MaxSubscribers \in Nat \ {0} /\ MaxReplies \in Nat \ {0}
    /\ ReplyDelay \in Nat /\ BindRetry \in Nat /\ DirMaxLag \in Nat
    /\ PollInterval \in Nat \ {0} /\ DiscoveryTime \in Nat \ {0}
    /\ SubTimeout \in Nat /\ SubTimeout > PollInterval
    /\ Nobody \notin Peers \cup Nat

VARIABLES
    dirInput,         \* config.direction is DMX_TO_ARTNET
    dirSocket,        \* artnetSocketReady
    bindWait,         \* time until nextArtNetBindRetryMillis
    subscribers,      \* the table, in order: [peer, age]
    subsChanged,      \* subscriberVersion is not the one dmx.cpp has served
    pollAge,          \* since lastSubscriberPollMillis
    discovery,        \* since discoveryStartedMillis, Nobody if not active
    replies,          \* pendingPollReplies: slot -> [to, due]
    dirPc, dirLag,    \* where the pass is; ticks since the last one ended
    passLag,          \* ticks since the pass read the clock
    lastServed,       \* history: the table when dmx.cpp served it last
    heardAge,         \* history: since the last reply that made it a subscriber
    askedAge          \* history: since a poll that waits for its answer

dirTable == <<subscribers, subsChanged, heardAge>>
dirReplies == <<replies, askedAge>>
dirVars == <<dirInput, dirSocket, bindWait, dirTable, pollAge, discovery, dirReplies,
             dirPc, dirLag, passLag, lastServed>>

Listed(subs) == {subs[i].peer : i \in DOMAIN subs}
NoReply == [to |-> Nobody, due |-> 0]
NoReplies == [i \in 1 .. MaxReplies |-> NoReply]
NoTimes == [p \in Peers |-> Nobody]

DirInit ==
    /\ dirInput \in BOOLEAN
    /\ dirSocket = FALSE /\ bindWait = 0
    /\ subscribers = <<>> /\ subsChanged = FALSE /\ lastServed = {}
    /\ pollAge = PollInterval /\ discovery = Nobody
    /\ replies = NoReplies
    /\ dirPc = "loop" /\ dirLag = 0 /\ passLag = 0
    /\ heardAge = NoTimes /\ askedAge = NoTimes

-----------------------------------------------------------------------------

\* clearSubscribers()
ClearSubscribers ==
    /\ subscribers' = <<>>
    /\ subsChanged' = (subsChanged \/ subscribers # <<>>)
    /\ heardAge' = NoTimes

\* startArtNetDiscovery(): the poll goes out or not.
StartDiscovery ==
    /\ discovery' = 0
    /\ pollAge' \in {0, pollAge}

\* ArtNetNode::begin() stops the socket; what is queued is forgotten only if
\* it opens again.  Discovery starts in the input direction.
Rebind(ok) ==
    /\ dirSocket' = ok
    /\ bindWait' = IF ok THEN 0 ELSE BindRetry
    /\ IF ok THEN replies' = NoReplies /\ askedAge' = NoTimes ELSE UNCHANGED dirReplies

AfterRebind(ok) ==
    IF ok /\ dirInput THEN StartDiscovery ELSE UNCHANGED <<pollAge, discovery>>

-----------------------------------------------------------------------------
(* updateArtNet() *)

DirBegin ==
    /\ dirPc = "loop"
    /\ dirSocket
    /\ dirPc' = "read"
    /\ passLag' = 0
    /\ UNCHANGED <<dirInput, dirSocket, bindWait, dirTable, pollAge, discovery, dirReplies,
                   dirLag, lastServed>>

\* Without a socket the pass is this and no more.
RetryBind(ok) ==
    /\ dirPc = "loop"
    /\ ~dirSocket /\ bindWait = 0
    /\ Rebind(ok)
    /\ IF ok THEN ClearSubscribers ELSE UNCHANGED dirTable
    /\ AfterRebind(ok)
    /\ dirLag' = 0
    /\ UNCHANGED <<dirInput, dirPc, passLag, lastServed>>

WaitForBind ==
    /\ dirPc = "loop"
    /\ ~dirSocket /\ bindWait > 0
    /\ dirLag' = 0
    /\ UNCHANGED <<dirInput, dirSocket, bindWait, dirTable, pollAge, discovery, dirReplies,
                   dirPc, passLag, lastServed>>

\* Variant: one reply in a pass.
SendFirstReply ==
    LET due == {i \in DOMAIN replies : replies[i].to # Nobody /\ replies[i].due = 0}
    IN [i \in DOMAIN replies |->
          IF i \in due /\ \A j \in due : i <= j THEN NoReply ELSE replies[i]]

\* processPendingPollReplies(): what is due is sent, successfully or not.
SendDueReplies ==
    [i \in DOMAIN replies |-> IF replies[i].to # Nobody /\ replies[i].due = 0
                              THEN NoReply ELSE replies[i]]

Waiting(queue) == {queue[i].to : i \in DOMAIN queue} \ {Nobody}

\* queuePollReply(): one reply per requester; no slot, no answer.
Queued(queue, p, delay) ==
    LET free == {i \in DOMAIN queue : queue[i].to = Nobody}
    IN IF p \in Waiting(queue) \/ free = {}
       THEN queue
       ELSE [queue EXCEPT ![CHOOSE i \in free : \A j \in free : i <= j] =
                             [to |-> p, due |-> delay]]

AskedAfter(queue) ==
    [p \in Peers |-> IF p \notin Waiting(queue) THEN Nobody
                     ELSE IF p \notin Waiting(SendDueReplies) THEN 0
                     ELSE askedAge[p]]

ReadPass(queue) ==
    /\ dirPc = "read"
    /\ dirPc' = "rest"
    /\ replies' = queue
    /\ askedAge' = AskedAfter(queue)
    /\ UNCHANGED <<dirInput, dirSocket, bindWait, pollAge, discovery, dirLag, passLag, lastServed>>

ReadNothing == ReadPass(SendDueReplies) /\ UNCHANGED dirTable

ReadPoll(p) ==
    /\ \E delay \in 0 .. ReplyDelay : ReadPass(Queued(SendDueReplies, p, delay))
    /\ UNCHANGED dirTable

\* onArtPollReply(): the ports of the device match the configured universe or not.
IndexOf(p) == {i \in DOMAIN subscribers : subscribers[i].peer = p}

\* removeSubscriber() for all entries but those at the indices in `kept': the
\* ones behind move up and stay in their order.
Compacted(kept) ==
    LET order == CHOOSE f \in [1 .. Cardinality(kept) -> kept] :
                    \A i, j \in DOMAIN f : i < j => f[i] < f[j]
    IN [i \in DOMAIN order |-> subscribers[order[i]]]

\* Variant: a full table is not checked.
SubscribeUnchecked(p) ==
    /\ subscribers' = IF IndexOf(p) = {}
                      THEN Append(subscribers, [peer |-> p, age |-> 0])
                      ELSE [i \in DOMAIN subscribers |->
                              IF i \in IndexOf(p) THEN [peer |-> p, age |-> 0] ELSE subscribers[i]]
    /\ subsChanged' = (subsChanged \/ IndexOf(p) = {})
    /\ heardAge' = [heardAge EXCEPT ![p] = 0]

Subscribe(p) ==
    IF IndexOf(p) = {} /\ Len(subscribers) >= MaxSubscribers
    THEN UNCHANGED dirTable
    ELSE /\ IF IndexOf(p) = {}
            THEN /\ subscribers' = Append(subscribers, [peer |-> p, age |-> 0])
                 /\ subsChanged' = TRUE
            ELSE /\ subscribers' = [i \in DOMAIN subscribers |->
                        IF i \in IndexOf(p) THEN [peer |-> p, age |-> 0] ELSE subscribers[i]]
                 /\ UNCHANGED subsChanged
         /\ heardAge' = [heardAge EXCEPT ![p] = 0]

\* Variant: the version is left alone.
UnsubscribeSilently(p) ==
    /\ subscribers' = Compacted(DOMAIN subscribers \ IndexOf(p))
    /\ heardAge' = [heardAge EXCEPT ![p] = Nobody]
    /\ UNCHANGED subsChanged

Unsubscribe(p) ==
    /\ subscribers' = Compacted(DOMAIN subscribers \ IndexOf(p))
    /\ subsChanged' = (subsChanged \/ IndexOf(p) # {})
    /\ heardAge' = [heardAge EXCEPT ![p] = Nobody]

ReadPollReply(p, matches) ==
    /\ dirInput
    /\ ReadPass(SendDueReplies)
    /\ IF matches THEN Subscribe(p) ELSE Unsubscribe(p)

\* Variant: `now' is the one the pass began with, and its age an unsigned number.
StaleRemovedSinceBegin ==
    Compacted({i \in DOMAIN subscribers : /\ subscribers[i].age >= passLag
                                          /\ subscribers[i].age - passLag < SubTimeout})

\* The rest of the pass reads the clock again: an entry stored by this very
\* pass is not younger than `now'.
StaleRemoved == Compacted({i \in DOMAIN subscribers : subscribers[i].age < SubTimeout})

DirRest ==
    /\ dirPc = "rest"
    /\ dirPc' = "loop" /\ dirLag' = 0
    /\ subscribers' = StaleRemoved
    /\ subsChanged' = (subsChanged \/ StaleRemoved # subscribers)
    /\ discovery' = IF discovery # Nobody /\ discovery >= DiscoveryTime THEN Nobody ELSE discovery
    /\ IF dirInput /\ pollAge >= PollInterval
       THEN pollAge' \in {0, pollAge}
       ELSE UNCHANGED pollAge
    /\ UNCHANGED <<dirInput, dirSocket, bindWait, heardAge, dirReplies, passLag, lastServed>>

-----------------------------------------------------------------------------
(* The rest of the program. *)

DirElsewhere == dirPc = "loop" /\ UNCHANGED <<dirPc, dirLag, passLag, lastServed>>

\* handleArtNetNetworkChange()
DirNetworkChange(ok) ==
    /\ DirElsewhere
    /\ ClearSubscribers
    /\ Rebind(ok)
    /\ IF ok /\ dirInput
       THEN discovery' = 0 /\ pollAge' \in {0, PollInterval}
       ELSE pollAge' = PollInterval /\ UNCHANGED discovery
    /\ UNCHANGED dirInput

\* A new direction or Port-Address that is applied.
DirReconfigure(input) ==
    /\ DirElsewhere
    /\ dirInput' = input
    /\ ClearSubscribers
    /\ IF input /\ dirSocket
       THEN discovery' = 0 /\ pollAge' \in {0, PollInterval}
       ELSE discovery' = Nobody /\ pollAge' = PollInterval
    /\ UNCHANGED <<dirSocket, bindWait, dirReplies>>

\* A save that waits for a restart and an uploaded configuration change the
\* direction and nothing else (web.cpp).
DirStoreWithoutRestart(input) ==
    /\ DirElsewhere
    /\ dirInput' = input
    /\ UNCHANGED <<dirSocket, bindWait, dirTable, pollAge, discovery, dirReplies>>

\* The web page asks for a discovery.
DirDiscover ==
    /\ DirElsewhere
    /\ dirSocket
    /\ StartDiscovery
    /\ UNCHANGED <<dirInput, dirSocket, bindWait, dirTable, dirReplies>>

\* dmx.cpp has sent the frame to all subscribers and notes their version.
DirServe ==
    /\ dirPc = "loop"
    /\ subsChanged
    /\ subsChanged' = FALSE
    /\ lastServed' = Listed(subscribers)
    /\ UNCHANGED <<dirInput, dirSocket, bindWait, subscribers, heardAge, pollAge, discovery,
                   dirReplies, dirPc, dirLag, passLag>>

DirOlder(age, limit) == IF age = Nobody \/ age >= limit THEN age ELSE age + 1
Sooner(wait) == IF wait = 0 THEN 0 ELSE wait - 1
SubLimit == SubTimeout + DirMaxLag

DirTick ==
    /\ dirLag < DirMaxLag
    /\ dirLag' = dirLag + 1
    /\ passLag' = IF dirPc = "loop" THEN 0 ELSE passLag + 1
    /\ bindWait' = Sooner(bindWait)
    /\ subscribers' = [i \in DOMAIN subscribers |->
                          [subscribers[i] EXCEPT !.age = DirOlder(@, SubLimit)]]
    /\ heardAge' = [p \in Peers |-> DirOlder(heardAge[p], SubLimit)]
    /\ pollAge' = DirOlder(pollAge, PollInterval)
    /\ discovery' = DirOlder(discovery, DiscoveryTime)
    /\ replies' = [i \in DOMAIN replies |-> [replies[i] EXCEPT !.due = Sooner(@)]]
    /\ askedAge' = [p \in Peers |-> DirOlder(askedAge[p], ReplyDelay + 2 * DirMaxLag + 1)]
    /\ UNCHANGED <<dirInput, dirSocket, subsChanged, dirPc, lastServed>>

DirPass ==
    \/ DirBegin \/ (\E ok \in BOOLEAN : RetryBind(ok)) \/ WaitForBind
    \/ ReadNothing
    \/ \E p \in Peers : ReadPoll(p) \/ (\E m \in BOOLEAN : ReadPollReply(p, m))
    \/ DirRest

DirNext ==
    \/ DirPass
    \/ \E ok \in BOOLEAN : DirNetworkChange(ok)
    \/ \E input \in BOOLEAN : DirReconfigure(input) \/ DirStoreWithoutRestart(input)
    \/ DirDiscover
    \/ DirServe
    \/ DirTick

DirSpec == DirInit /\ [][DirNext]_dirVars

-----------------------------------------------------------------------------
(* Properties. *)

\* Types.
DirTypeOK ==
    /\ dirInput \in BOOLEAN /\ dirSocket \in BOOLEAN /\ subsChanged \in BOOLEAN
    /\ bindWait \in 0 .. BindRetry
    /\ subscribers \in Seq([peer : Peers, age : 0 .. SubLimit])
    /\ Len(subscribers) <= MaxSubscribers
    /\ pollAge \in 0 .. PollInterval
    /\ discovery \in 0 .. DiscoveryTime \cup {Nobody}
    /\ replies \in [1 .. MaxReplies -> [to : Peers \cup {Nobody}, due : 0 .. ReplyDelay]]
    /\ dirPc \in {"loop", "read", "rest"}
    /\ dirLag \in 0 .. DirMaxLag /\ passLag \in 0 .. DirMaxLag

\* After a pass the table holds, once each, exactly the devices that answered
\* within the timeout: an entry that moved up is not passed over, and one
\* stored in the same pass is not taken for one from the future
\* (onArtPollReply(), updateArtNet(), removeSubscriber()).
SubscribersAreLive ==
    (dirPc = "loop" /\ dirSocket) =>
        /\ Len(subscribers) = Cardinality(Listed(subscribers))
        /\ Listed(subscribers) =
              {p \in Peers : heardAge[p] # Nobody /\ heardAge[p] < SubTimeout + dirLag}

\* While the version says that all subscribers were served, they are the ones
\* that were: no device comes or goes, or takes another's place, without it.
ChangeIsAnnounced == ~subsChanged => Listed(subscribers) = lastServed

\* A poll that found room in the queue is answered within the random delay
\* and a pass, and a requester never waits for two answers.
PollsAreAnswered ==
    /\ \A i, j \in DOMAIN replies : replies[i].to = replies[j].to /\ i # j
                                       => replies[i].to = Nobody
    /\ dirSocket => \A p \in Peers : askedAge[p] # Nobody
                                        => askedAge[p] <= ReplyDelay + 2 * DirMaxLag

=============================================================================
