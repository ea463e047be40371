------------------------------- MODULE MCPoll -------------------------------
(* TLC instances of Poll. *)
EXTENDS Poll

CONSTANTS s1, h1, con, neg, bad

Entry(f, e) == [fd |-> f, events |-> e]
Kinds == {s1, h1, con, neg}

\* Any one or two descriptors with every interesting mask, and arrays of
\* three that overflow FD_SETSIZE = 2 or put skipped entries first.
MCPollSets ==
  {<<>>, <<Entry(bad, {"IN"})>>}
  \cup {<<Entry(f, e)>> : f \in Kinds, e \in {{}, {"IN"}, {"RDBAND"}, {"OUT"}, {"WRBAND"}}}
  \cup {<<Entry(f, e), Entry(g, d)>> :
          f, g \in {s1, h1, con}, e, d \in {{"IN"}, {"IN", "OUT"}}}
  \cup {<<Entry(neg, {"IN"}), Entry(s1, {"IN"}), Entry(con, {"IN"})>>,
        <<Entry(neg, {"IN"}), Entry(h1, {"IN"}), Entry(con, {"IN"})>>,
        <<Entry(s1, {"IN"}), Entry(s1, {"OUT"}), Entry(s1, {})>>,
        <<Entry(h1, {"IN"}), Entry(con, {"IN"}), Entry(h1, {"OUT"})>>}

\* Standard input alone: openssl reading from a pipe.
MCHandleSets == {<<Entry(h1, {"IN"})>>}

MCTimeouts == {-2, -1, 0, 1, 2, 5}
MCLoopTimeouts == {-1, 3}
MCSockets == {s1}
MCHandles == {h1, con}
MCClosed == {bad}
MCSkipped == {neg}
=============================================================================
