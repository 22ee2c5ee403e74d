---------------------------- MODULE MCLiveSession ---------------------------
(* Small instances of LiveSession for TLC.                                 *)
EXTENDS LiveSession

World(commits, conns, window, edits, outcomes, ends) ==
    [commits |-> commits, conns |-> conns, window |-> window, edits |-> edits,
     outcomes |-> outcomes, stop |-> ends, leave |-> ends]

\* Two commits in flight over two connections; a commit that is refused over
\* three; one beside a change of the document, with a log that is thrown
\* away; a session that either side ends; two commits one after the other.
MCBounds ==
    {World(2, 2, 2, 0, {"ack", "nack"}, FALSE),
     World(1, 3, 1, 0, {"nack"}, FALSE),
     World(1, 2, 1, 1, {"ack"}, FALSE),
     World(1, 2, 1, 0, {"ack", "nack"}, TRUE),
     World(2, 1, 1, 0, {"ack", "same", "nack"}, TRUE)}

\* Where an answered commit waits again.
MCRace == {World(1, 2, 1, 0, {"ack"}, FALSE)}
=============================================================================
