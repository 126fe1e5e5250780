--------------------------- MODULE MC_NanServices ---------------------------
(***************************************************************************)
(* Two devices for the service engine.  Names are model values with       *)
(* distinct service ids, neither a prefix of the other.                    *)
(***************************************************************************)
EXTENDS NanServices

CONSTANTS a, b, chat, servicename

MCNode == {a, b}
MCNames == {chat, servicename}
MCSidOf == [x \in MCNames |-> x]
\* Neither name is a prefix of the other.
MCPrefix == {<<x, x>> : x \in MCNames}

\* Spec scenario S4: a publishes chat, b subscribes to it (a second,
\* refused subscribe included), and a is pinged once.
MCCommandsS4 ==
    { [k |-> 1, node |-> a, op |-> "publish", name |-> chat],
      [k |-> 1, node |-> b, op |-> "subscribe", name |-> chat],
      [k |-> 2, node |-> b, op |-> "subscribe", name |-> chat],
      [k |-> 1, node |-> a, op |-> "ping", name |-> servicename] }

\* b subscribes to two services that a publishes, in any order.
MCCommandsTwo ==
    { [k |-> 1, node |-> a, op |-> "publish", name |-> chat],
      [k |-> 2, node |-> a, op |-> "publish", name |-> servicename],
      [k |-> 1, node |-> b, op |-> "subscribe", name |-> chat],
      [k |-> 2, node |-> b, op |-> "subscribe", name |-> servicename] }
=============================================================================
