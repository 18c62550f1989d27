------------------------------- MODULE Router -------------------------------
(***************************************************************************)
(* How the daemon matches topics and picks the transport of a message:     *)
(* topic_match.c and router.c.  A topic is a tuple of labels, a pattern a   *)
(* topic that may end in Star; the configuration's channel and route lines  *)
(* are sequences, in the order of the file.                                 *)
(***************************************************************************)
EXTENDS Naturals, Sequences, FiniteSets, SequencesExt

CONSTANTS
  Star,         \* the '*' character
  NoChannel,    \* the empty channel name
  NoTransport,  \* a NULL transport pointer
  Transports,   \* names of the transports that were opened
  Channels,     \* <<[name, transport], ...>>: the "channel" lines
  Routes        \* <<[topic, transport], ...>>: the "route" lines

\* bc_topic_matches: everything, a prefix, or the very topic.
TopicMatches(pattern, topic) ==
  \/ pattern = <<Star>>
  \/ pattern # <<>> /\ Last(pattern) = Star /\ IsPrefix(Front(pattern), topic)
  \/ pattern = topic

FindTransport(name) == IF name \in Transports THEN name ELSE NoTransport

\* A message with a channel goes where the first channel of that name says and
\* nowhere else.
ChannelRoute(channel) ==
  LET named == {i \in DOMAIN Channels : Channels[i].name = channel}
  IN  IF named = {} THEN NoTransport
      ELSE FindTransport(Channels[Min(named)].transport)

\* The first route that is not "*" and matches, else the last "*" route.
TopicRoute(topic) ==
  LET stars    == {i \in DOMAIN Routes : Routes[i].topic = <<Star>>}
      matching == {i \in DOMAIN Routes \ stars : TopicMatches(Routes[i].topic, topic)}
  IN  CASE matching # {}              -> FindTransport(Routes[Min(matching)].transport)
        [] matching = {} /\ stars # {} -> FindTransport(Routes[Max(stars)].transport)
        [] OTHER                       -> NoTransport

Route(m) == IF m.channel # NoChannel THEN ChannelRoute(m.channel) ELSE TopicRoute(m.topic)
=============================================================================
