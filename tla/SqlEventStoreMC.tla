--------------------------- MODULE SqlEventStoreMC ---------------------------
(***************************************************************************)
(* Instance of SqlEventStore for TLC.  The requests: a batch of two        *)
(* events, another batch of the same session, a batch of the second        *)
(* session that reuses an event id, the first batch id with other content, *)
(* and a batch whose event belongs to another session.                     *)
(***************************************************************************)
EXTENDS SqlEventStore, TLC

CONSTANTS c1, c2, s1, s2, b1, b2, b3, e1, e2, e3, x, y

Ev(id, session, body) == [id |-> id, session |-> session, body |-> body]
Req(session, batch, events) == [session |-> session, batch |-> batch, events |-> events]

MCCallers == {c1, c2}
MCSessions == {s1, s2}
MCBatchIds == {b1, b2, b3}
MCEventIds == {e1, e2, e3}
MCBodies == {x, y}

First   == Req(s1, b1, <<Ev(e1, s1, x), Ev(e2, s1, x)>>)
Second  == Req(s1, b2, <<Ev(e3, s1, x)>>)
Reused  == Req(s2, b3, <<Ev(e2, s2, x)>>)
Altered == Req(s1, b1, <<Ev(e1, s1, x), Ev(e2, s1, y)>>)
Foreign == Req(s2, b2, <<Ev(e1, s1, x)>>)
Prefix  == Req(s1, b1, <<Ev(e1, s1, x)>>)

\* Requests that keep the rule that a retry is the same call.
MCRequests == {First, Second, Reused, Altered, Foreign}

\* First, and a replay of its batch id with fewer events.
MCShrunk == {First, Prefix}

===============================================================================
