------------------------------ MODULE MCBroker ------------------------------
(* Small instances of Broker: three descriptors, three topics, one transport. *)
EXTENDS Broker

CONSTANTS p, q, s, star, udp, nochannel

Plain(topic)  == [topic |-> topic, channel |-> nochannel, dst |-> 0, qos |-> 0, noBridge |-> TRUE]
Local(topic)  == [type |-> "PUB", msg |-> Plain(topic)]
Routed(topic) == [type |-> "PUB", msg |-> [Plain(topic) EXCEPT !.qos = 1, !.noBridge = FALSE]]
Sub(pattern)  == [type |-> "SUB", msg |-> Plain(pattern)]
NoTopic(type) == [type |-> type, msg |-> Plain(<<>>)]

MCRoutes   == <<[topic |-> <<"a", star>>, transport |-> udp]>>
MCChannels == <<[name |-> "control", transport |-> udp]>>

Unrouted      == [type |-> "PUB", msg |-> [Plain(<<"a", "x">>) EXCEPT !.channel = "fieldbus"]]
Inbound(qos, from) == [msg |-> [Plain(<<"a", "x">>) EXCEPT !.qos = qos, !.noBridge = FALSE], from |-> from]

\* p publishes what both match, what one matches, what has no route, and asks for
\* what the daemon refuses; q is publisher and subscriber.
MenuMixed == (p :> {Local(<<"a", "x">>), Routed(<<"a", "y">>), Unrouted, NoTopic("STATS")})
          @@ (q :> {Sub(<<"a", star>>), Local(<<"a", "x">>)})
          @@ (s :> {Sub(<<"a", "x">>)})
WritesMixed == (p :> 2) @@ (q :> 1) @@ (s :> 1)

\* Nothing comes from other boards.
NoArrivals == {}

\* One publisher, one subscriber that may subscribe twice and come back, and
\* messages from other boards, one of them for a third board.
MenuBridged == (p :> {Local(<<"a", "x">>)})
            @@ (s :> {Sub(<<"a", star>>), Sub(<<"a", "x">>)})
WritesBridged   == (p :> 2) @@ (s :> 2)
ReconnectingS   == (p :> 1) @@ (s :> 2)
ArrivalsBridged == {Inbound(0, udp), Inbound(1, "other"),
                    [Inbound(0, "other") EXCEPT !.msg.dst = 2]}

\* Two publishes for two subscribers, and a request for shared memory.
MenuPlain == (p :> {Local(<<"a", "x">>), NoTopic("SHM_SETUP")})
          @@ (q :> {Sub(<<"a", star>>)})
          @@ (s :> {Sub(<<"a", "x">>)})
WritesPlain == (p :> 3) @@ (q :> 1) @@ (s :> 1)

OneConnection == (p :> 1) @@ (q :> 1) @@ (s :> 1)
=============================================================================
