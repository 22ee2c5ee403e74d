---------------------------- MODULE LiveSession -----------------------------
(* A live session: the writer's client (fub-live, client.rs), the network, *)
(* the host with the tasks of its connections (host/conn.rs) and the shell *)
(* that answers the commits (apps/client, spatial/live/session.ts). The    *)
(* commits of a writer go through connections that fall and are resumed    *)
(* with a token; each is to be applied once, and its fate told.            *)
(*                                                                         *)
(* Towards the host a connection is a sequence of messages, which may lose *)
(* its end when the client lets the connection go, and which the host may  *)
(* read long after. Towards the writer it is the queue of the host: what a *)
(* loss takes away has not been read. Ink, views, clocks and heartbeats    *)
(* are one message without effect but that the connection is alive.        *)
EXTENDS LiveHost

CONSTANTS
    Bounds          \* bounds, one of which a behaviour has: the commits and
                    \* the connections of the writer, how many of its commits
                    \* are in flight (IN_FLIGHT_COMMITS), the changes made on
                    \* the PC, what the shell may answer to a commit, and
                    \* whether either of them ends the session

ASSUME BoundsAssumption ==
    Bounds \subseteq [commits : 0..MaxCommits, conns : Conns, window : Nat, edits : Nat,
                      outcomes : SUBSET {"ack", "same", "nack"},
                      stop : BOOLEAN, leave : BOOLEAN]

VARIABLES
    client,     \* the state of LiveClient
    up,         \* what the client has sent on each connection
    serving,    \* the task of the host for each connection
    box,        \* what the host has for each connection
    host,       \* the session of the host
    events,     \* the events for the shell
    shell,      \* LiveSession of the shell
    sending,    \* its calls to live_send
    told,       \* what the writer was told of each commit
    late,       \* a hello was admitted after that of a later attempt
    bound       \* the bounds of this behaviour

wire == <<up, serving, box>>
desk == <<shell, sending>>
history == <<told, late, bound>>
vars == <<client, wire, host, events, desk, history>>

Quiet == [t |-> "quiet", c |-> 0]

\* Right after the pairing: the welcome has been read.
Init ==
    /\ client = [at |-> "live", conn |-> 1, token |-> 1, next |-> 1, pending |-> {},
                 out |-> {}, lastC |-> 0, spoke |-> FALSE, seen |-> -1]
    /\ up = [k \in Conns |-> <<>>]
    /\ serving = [k \in Conns |-> IF k = 1 THEN "open" ELSE "none"]
    /\ box = [k \in Conns |-> IF k = 1 THEN Push(EmptyBox, Msg("snapshot", 0, 0)) ELSE EmptyBox]
    /\ host = FirstSession
    /\ events = <<>>
    /\ shell = [doc |-> <<>>, dirty |-> FALSE, answered |-> {}, refused |-> {},
                asks |-> 0, edits |-> 0, stop |-> "no", await |-> 0]
    /\ sending = <<>>
    /\ told = [c \in Commits |-> "nothing"]
    /\ late = FALSE
    /\ bound \in Bounds

\* The client has let connection k go.
LetGo(k) == k < client.conn \/ (k = client.conn /\ client.at \in {"out", "ended"})

\* What is sent to a task that has ended goes nowhere; what the host queues
\* for a connection nobody reads leaves and is lost.
Sent(m) == IF serving[client.conn] = "done" THEN up
           ELSE [up EXCEPT ![client.conn] = Append(@, m)]

Queue(b, k, ms) == [b EXCEPT ![k] = IF LetGo(k) THEN @ ELSE PushAll(@, ms)]

-----------------------------------------------------------------------------
(* The client.                                                             *)

Commit ==
    /\ client.at # "ended"
    /\ client.next <= bound.commits
    /\ client' = [client EXCEPT !.next = @ + 1, !.pending = @ \cup {client.next},
                                !.out = IF client.at = "live" THEN @ \cup {client.next} ELSE @]
    /\ UNCHANGED <<wire, host, events, desk, history>>

\* The next commit, in order, if the window of those in flight has room.
SendCommit ==
    /\ client.at = "live"
    /\ client.out \cap client.pending # {}
    /\ LET c == Min(client.out \cap client.pending)
           older == Cardinality({d \in client.pending : d < c})
       IN  /\ older = 0 \/ older < bound.window
           /\ up' = Sent([t |-> "commit", c |-> c])
           /\ client' = [client EXCEPT !.out = @ \ {c}, !.spoke = TRUE]
    /\ UNCHANGED <<serving, box, host, events, desk, history>>

\* Any other message: here once, and if no commit has spoken before it.
SendOther ==
    /\ client.at = "live"
    /\ ~client.spoke
    /\ up' = Sent(Quiet)
    /\ client' = [client EXCEPT !.spoke = TRUE]
    /\ UNCHANGED <<serving, box, host, events, desk, history>>

\* A new attempt, with the token of the last welcome.
Dial ==
    /\ client.at = "out"
    /\ client.conn < bound.conns
    /\ ~host.ended
    /\ LET k == client.conn + 1
       IN  /\ client' = [client EXCEPT !.at = "trying", !.conn = k]
           /\ up' = [up EXCEPT ![k] = <<[t |-> "hello", c |-> client.token]>>]
           /\ serving' = [serving EXCEPT ![k] = "hello"]
    /\ UNCHANGED <<box, host, events, desk, history>>

\* The connection or the attempt fails under the client: the end of what it
\* has sent may never arrive.
Lose ==
    /\ client.at \in {"live", "trying"}
    /\ client' = [client EXCEPT !.at = "out", !.out = {}, !.spoke = FALSE]
    /\ \E n \in 0..Len(up[client.conn]) :
           up' = [up EXCEPT ![client.conn] = SubSeq(@, 1, n)]
    /\ box' = [box EXCEPT ![client.conn].items = <<>>]
    /\ UNCHANGED <<serving, host, events, desk, history>>

\* A slip: what lastC does not cover is kept and not sent again.
WelcomedIdly(m) ==
    [client EXCEPT !.at = "live", !.token = m.n, !.lastC = m.c,
                   !.pending = {c \in @ : c > m.c}, !.out = {}, !.spoke = FALSE, !.seen = -1]

\* The welcome: what lastC covers is dealt with, the rest leaves again.
Welcomed(m) ==
    LET left == {c \in client.pending : c > m.c}
    IN  [client EXCEPT !.at = "live", !.token = m.n, !.lastC = m.c, !.pending = left,
                       !.out = left, !.spoke = FALSE, !.seen = -1]

\* The writer's document, as far as it is in step with what it reads: a
\* change it has already is skipped, one it has nothing to put it on spoils
\* it until the next snapshot.
Applied(seen, m) ==
    CASE m.t = "snapshot" -> m.n
      [] m.t \in {"ops", "ack"} -> IF m.n <= seen THEN seen
                                   ELSE IF seen >= 0 /\ m.n = seen + 1 THEN m.n ELSE -1
      [] OTHER -> seen

\* A refusal is told also if a welcome has already put the commit aside.
Tells(m) ==
    \/ m.t \in {"ack", "same", "nack"} /\ m.c \in client.pending
    \/ m.t = "nack" /\ m.c <= client.lastC /\ told[m.c] = "nothing"

Read ==
    /\ client.at \in {"live", "trying"}
    /\ box[client.conn].items # <<>>
    /\ LET m == Head(box[client.conn].items)
       IN  /\ client' = IF m.t = "welcome" THEN Welcomed(m)
                        ELSE [client EXCEPT !.seen = Applied(@, m), !.pending = @ \ {m.c}]
           /\ told' = IF Tells(m) THEN [told EXCEPT ![m.c] = m.t] ELSE told
    /\ box' = [box EXCEPT ![client.conn].items = Tail(@)]
    /\ UNCHANGED <<up, serving, host, events, desk, late, bound>>

\* The host has closed: a full queue, a session that closes and a transport
\* that fell are resumed, every other code ends the session of the writer.
ReadClose ==
    /\ client.at \in {"live", "trying"}
    /\ box[client.conn].items = <<>>
    /\ serving[client.conn] = "done"
    /\ client' = [client EXCEPT
                    !.at = IF box[client.conn].close \in {"lost", "congested", "closing"}
                           THEN "out" ELSE "ended",
                    !.out = {}, !.spoke = FALSE]
    /\ UNCHANGED <<wire, host, events, desk, history>>

\* The two minutes of the resume are over.
ResumeExpires ==
    /\ client.at = "out"
    /\ client' = [client EXCEPT !.at = "ended"]
    /\ UNCHANGED <<wire, host, events, desk, history>>

\* close(): the writer says bye, behind what it has sent.
Leave ==
    /\ bound.leave
    /\ client.at = "live"
    /\ client' = [client EXCEPT !.at = "ended", !.out = {}, !.spoke = FALSE]
    /\ up' = Sent([t |-> "bye", c |-> 0])
    /\ UNCHANGED <<serving, box, host, events, desk, history>>

-----------------------------------------------------------------------------
(* The tasks of the host, one for each connection.                         *)

\* The task of k ends and tells the session, which is in state h. Of what
\* was sent nothing more is read, of the queue nothing more leaves; the shell
\* hears of it, and asks, if the writer may come back.
EndTask(k, code, resumable, h) ==
    /\ serving' = [serving EXCEPT ![k] = "done"]
    /\ up' = [up EXCEPT ![k] = <<>>]
    /\ box' = [box EXCEPT ![k] = [items |-> <<>>, close |-> code]]
    /\ host' = Closed(h, k, resumable)
    /\ events' = IF h.conn = k /\ host'.paired
                 THEN Append(events, [t |-> "gone", c |-> 0]) ELSE events

\* A hello is accepted: a connection still in force gives way.
HostAdmits(k) ==
    /\ serving[k] = "hello"
    /\ up[k] # <<>>
    /\ LET token == Head(up[k]).c
           new == Admit(host, k, token)
           old == IF host.conn = NoConn THEN box
                  ELSE [box EXCEPT ![host.conn] = CloseBox(@, "replaced", FALSE)]
       IN  /\ ~host.ended
           /\ Accepts(host, token)
           /\ host' = new
           /\ box' = Queue(old, k, Entrance(new))
           /\ events' = events
                \o (IF host.conn = NoConn THEN <<>> ELSE <<[t |-> "gone", c |-> 0]>>)
                \o (IF host.logState = "stale" THEN <<[t |-> "wanted", c |-> 0]>> ELSE <<>>)
    /\ serving' = [serving EXCEPT ![k] = "open"]
    /\ up' = [up EXCEPT ![k] = Tail(@)]
    /\ late' = (late \/ \E j \in Conns : j > k /\ serving[j] \in {"open", "done"})
    /\ UNCHANGED <<client, desk, told, bound>>

\* It is refused: the session is ending, or the token does not count.
HostRefuses(k) ==
    /\ serving[k] = "hello"
    /\ up[k] # <<>>
    /\ host.ended \/ ~Accepts(host, Head(up[k]).c)
    /\ serving' = [serving EXCEPT ![k] = "done"]
    /\ box' = [box EXCEPT ![k].close = IF host.ended THEN "closing" ELSE "rejected"]
    /\ up' = [up EXCEPT ![k] = Tail(@)]
    /\ UNCHANGED <<client, host, events, desk, history>>

\* No hello will come any more.
HostGivesUp(k) ==
    /\ serving[k] = "hello"
    /\ up[k] = <<>>
    /\ LetGo(k)
    /\ serving' = [serving EXCEPT ![k] = "done"]
    /\ UNCHANGED <<client, up, box, host, events, desk, history>>

\* A message of the writer. A task whose connection has been replaced
\* changes nothing.
HostReads(k) ==
    /\ serving[k] = "open"
    /\ up[k] # <<>>
    /\ LET m == Head(up[k])
           h == Confirm(host)
           rest == [up EXCEPT ![k] = Tail(@)]
       IN  \/ m.t = "bye" /\ EndTask(k, "bye", FALSE, host)
           \/ /\ m.t # "bye"
              /\ host.conn # k
              /\ up' = rest
              /\ UNCHANGED <<serving, box, host, events>>
           \/ /\ m.t = "quiet"
              /\ host.conn = k
              /\ up' = rest
              /\ host' = h
              /\ UNCHANGED <<serving, box, events>>
           \/ /\ m.t = "commit"
              /\ host.conn = k
              /\ IF BreaksOrder(h, m.c) THEN EndTask(k, "violation", FALSE, h)
                 ELSE /\ up' = rest
                      /\ host' = Receive(h, m.c)
                      /\ box' = Queue(box, k, SetToSeq(AnswersTo(h, m.c)))
                      /\ events' = IF IsNew(h, m.c)
                                   THEN Append(events, [t |-> "commit", c |-> m.c])
                                   ELSE events
                      /\ UNCHANGED serving
    /\ UNCHANGED <<client, desk, history>>

\* The queue was closed and what was to leave has left.
HostKicks(k) ==
    /\ serving[k] = "open"
    /\ box[k].close # "open"
    /\ box[k].items = <<>>
    /\ EndTask(k, box[k].close, box[k].close # "over", host)
    /\ UNCHANGED <<client, desk, history>>

\* The transport has fallen: the client is gone and everything was read, or
\* the heartbeat, a write or the end of the session cut it.
HostLoses(k) ==
    /\ serving[k] = "open"
    /\ EndTask(k, "lost", TRUE, host)
    /\ UNCHANGED <<client, desk, history>>

\* The two minutes are over on the host, or the user asks for another QR.
HostReleases ==
    /\ host.paired
    /\ host.conn = NoConn
    /\ host' = Unbind(host)
    /\ UNCHANGED <<client, wire, events, desk, history>>

-----------------------------------------------------------------------------
(* The shell.                                                              *)

\* A text that changed by itself goes out before anything else.
Flushed(s, q) ==
    IF s.dirty
    THEN [s |-> [s EXCEPT !.doc = Append(@, 0), !.dirty = FALSE],
          q |-> Append(q, Msg("snapshot", 0, Len(s.doc) + 1))]
    ELSE [s |-> s, q |-> q]

\* A slip: a commit that comes again is applied again.
TakeAgain(d, c, o, answer) ==
    LET f == Flushed(d.s, d.q)
        doc == IF o = "ack" THEN Append(f.s.doc, c) ELSE f.s.doc
    IN  [s |-> [f.s EXCEPT !.doc = doc, !.answered = @ \cup {c},
                           !.refused = IF o = "nack" THEN @ \cup {c} ELSE @],
         q |-> IF answer THEN Append(f.q, Msg(o, c, IF o = "nack" THEN 0 ELSE Len(doc)))
               ELSE f.q]

\* Commit c with outcome o. What has been answered is not looked at again.
Take(d, c, o, answer) ==
    IF c \in d.s.answered THEN d
    ELSE LET f == Flushed(d.s, d.q)
             doc == IF o = "ack" THEN Append(f.s.doc, c) ELSE f.s.doc
         IN  [s |-> [f.s EXCEPT !.doc = doc, !.answered = @ \cup {c},
                                !.refused = IF o = "nack" THEN @ \cup {c} ELSE @],
              q |-> IF answer THEN Append(f.q, Msg(o, c, IF o = "nack" THEN 0 ELSE Len(doc)))
                    ELSE f.q]

\* The commits C, in order, each with an outcome of its own.
Taken(o, answer, s) ==
    FoldLeft(LAMBDA d, c : Take(d, c, o[c], answer),
             [s |-> s, q |-> sending], InOrder(DOMAIN o))

TakeAll(C, answer, s) ==
    \E o \in [C -> bound.outcomes] :
        LET d == Taken(o, answer, s) IN shell' = d.s /\ sending' = d.q

\* An event of the host. After a fall the shell asks what is still waiting.
ShellHears ==
    /\ shell.stop # "done"
    /\ events # <<>>
    /\ events' = Tail(events)
    /\ LET e == Head(events)
       IN  \/ e.t = "commit" /\ TakeAll({e.c}, TRUE, shell)
           \/ e.t = "gone" /\ shell' = [shell EXCEPT !.asks = @ + 1] /\ UNCHANGED sending
           \/ /\ e.t = "wanted"
              /\ LET f == Flushed(shell, sending)
                 IN  /\ shell' = f.s
                     /\ sending' = Append(f.q, Msg("snapshot", 0, Len(f.s.doc)))
    /\ UNCHANGED <<client, wire, host, history>>

\* The answer to that question.
Reconcile ==
    /\ shell.stop # "done"
    /\ shell.asks > 0
    /\ TakeAll(host.pending, TRUE, [shell EXCEPT !.asks = @ - 1])
    /\ UNCHANGED <<client, wire, host, events, history>>

\* A call to live_send, in the order of the calls. Who ends the session waits
\* for those there were when it asked.
ShellSends ==
    /\ sending # <<>>
    /\ sending' = Tail(sending)
    /\ shell' = [shell EXCEPT !.await = Max({@ - 1, 0})]
    /\ LET m == Head(sending)
       IN  IF SendFails(host, m) THEN UNCHANGED <<host, box, events>>
           ELSE /\ host' = Send(host, m)
                /\ box' = IF host.conn = NoConn THEN box ELSE Queue(box, host.conn, <<m>>)
                /\ events' = IF host.logState = "fresh" /\ host'.logState = "wanted"
                             THEN Append(events, [t |-> "wanted", c |-> 0]) ELSE events
    /\ UNCHANGED <<client, up, serving, history>>

\* A change on the PC that is an operation, and one that is not: the second
\* waits a little, for the whole text.
EditOps ==
    /\ shell.stop # "done"
    /\ shell.edits < bound.edits
    /\ ~shell.dirty
    /\ shell' = [shell EXCEPT !.doc = Append(@, 0), !.edits = @ + 1]
    /\ sending' = Append(sending, Msg("ops", 0, Len(shell.doc) + 1))
    /\ UNCHANGED <<client, wire, host, events, history>>

EditText ==
    /\ shell.stop # "done"
    /\ shell.edits < bound.edits
    /\ ~shell.dirty
    /\ shell' = [shell EXCEPT !.dirty = TRUE, !.edits = @ + 1]
    /\ UNCHANGED <<client, wire, host, events, sending, history>>

TextSettles ==
    /\ shell.stop # "done"
    /\ shell.dirty
    /\ LET f == Flushed(shell, sending) IN shell' = f.s /\ sending' = f.q
    /\ UNCHANGED <<client, wire, host, events, history>>

\* "End the session": answer what waits, wait for the calls, stop the host,
\* apply what came in between.
Terminate ==
    /\ bound.stop
    /\ shell.stop = "no"
    /\ shell' = [shell EXCEPT !.stop = "asking"]
    /\ UNCHANGED <<client, wire, host, events, sending, history>>

StopAnswers ==
    /\ shell.stop = "asking"
    /\ \E o \in [host.pending -> bound.outcomes] :
           LET d == Taken(o, TRUE, shell)
           IN  /\ shell' = [d.s EXCEPT !.stop = "sending", !.await = Len(d.q)]
               /\ sending' = d.q
    /\ UNCHANGED <<client, wire, host, events, history>>

StopHost ==
    /\ shell.stop = "sending"
    /\ shell.await = 0
    /\ shell' = [shell EXCEPT !.stop = "closing"]
    /\ host' = [host EXCEPT !.ended = TRUE]
    /\ box' = IF host.conn = NoConn THEN box
              ELSE [box EXCEPT ![host.conn] = CloseBox(@, "over", TRUE)]
    /\ UNCHANGED <<client, up, serving, events, sending, history>>

\* A slip: what comes back is dropped.
StopEndsDry ==
    /\ shell.stop = "closing"
    /\ \A k \in Conns : serving[k] \notin {"hello", "open"}
    /\ shell' = [shell EXCEPT !.stop = "done"]
    /\ UNCHANGED <<client, wire, host, events, sending, history>>

\* The tasks have ended; the commits nobody answered come back.
StopEnds ==
    /\ shell.stop = "closing"
    /\ \A k \in Conns : serving[k] \notin {"hello", "open"}
    /\ TakeAll(host.pending, FALSE, [shell EXCEPT !.stop = "done"])
    /\ UNCHANGED <<client, wire, host, events, history>>

-----------------------------------------------------------------------------
ClientStep ==
    \/ Commit \/ SendCommit \/ SendOther \/ Dial \/ Lose \/ Read \/ ReadClose
    \/ ResumeExpires \/ Leave

HostStep ==
    \/ \E k \in Conns : \/ HostAdmits(k) \/ HostRefuses(k) \/ HostGivesUp(k)
                        \/ HostReads(k) \/ HostKicks(k) \/ HostLoses(k)
    \/ HostReleases

ShellStep ==
    \/ ShellHears \/ Reconcile \/ ShellSends \/ EditOps \/ EditText \/ TextSettles
    \/ Terminate \/ StopAnswers \/ StopHost \/ StopEnds

Next == ClientStep \/ HostStep \/ ShellStep

Spec == Init /\ [][Next]_vars

\* What the tasks do of themselves: a loss, a change and an end are no
\* one's duty. Each takes a message or a connection, or ends something, so
\* that they come to an end.
Works ==
    \/ SendCommit \/ Read \/ ReadClose \/ Dial \/ ResumeExpires
    \/ \E k \in Conns : \/ HostAdmits(k) \/ HostRefuses(k) \/ HostReads(k) \/ HostKicks(k)
                        \/ LetGo(k) /\ up[k] = <<>> /\ HostLoses(k)
    \/ ShellHears \/ Reconcile \/ ShellSends

-----------------------------------------------------------------------------
(* What the session promises.                                              *)

Uplink == [t : {"hello"}, c : Nat] \cup [t : {"commit"}, c : Commits]
              \cup [t : {"quiet", "bye"}, c : {0}]
Events == [t : {"commit"}, c : Commits] \cup [t : {"gone", "wanted"}, c : {0}]

Clients == [at : {"live", "trying", "out", "ended"}, conn : Conns,
            token : Nat, next : 1..(MaxCommits + 1), pending : SUBSET Commits,
            out : SUBSET Commits, lastC : 0..MaxCommits, spoke : BOOLEAN,
            seen : Nat \cup {-1}]
Shells == [doc : Seq(0..MaxCommits), dirty : BOOLEAN, answered : SUBSET Commits,
           refused : SUBSET Commits, asks : Nat, edits : Nat,
           stop : {"no", "asking", "sending", "closing", "done"}, await : Nat]

TypeOK ==
    /\ client \in Clients /\ host \in Sessions /\ shell \in Shells
    /\ up \in [Conns -> Seq(Uplink)]
    /\ serving \in [Conns -> {"none", "hello", "open", "done"}]
    /\ box \in [Conns -> Boxes]
    /\ \A k \in Conns : Len(box[k].items) <= OutboxItems
    /\ Len(host.log) <= LogHard
    /\ events \in Seq(Events) /\ sending \in Seq(Words)
    /\ told \in [Commits -> {"nothing", "ack", "same", "nack"}]
    /\ late \in BOOLEAN /\ bound \in Bounds

Done == {shell.doc[i] : i \in DOMAIN shell.doc} \ {0}

\* Every commit the client has put aside is in the document, or changed
\* nothing there, or was refused: and then the writer has been told, or the
\* refusal is kept for the next welcome, unless the host
\* keeps it no longer (client.rs welcomed, session.rs prune and admit: a
\* welcome covers commits whose answers the fall has taken away).
NothingLost ==
    client.at # "ended" =>
        \A c \in 1..(client.next - 1) \ client.pending :
            /\ c \in shell.answered
            /\ c \in shell.refused =>
                  \/ told[c] = "nack"
                  \/ host.paired => (\E a \in host.answers : a.t = "nack" /\ a.c = c)
                  \/ c \in host.forgot

\* The document has each commit at most once, and what the writer was told
\* of it is what happened, whatever was sent again and answered twice.
Truthful ==
    /\ \A i, j \in DOMAIN shell.doc : shell.doc[i] = shell.doc[j] => i = j \/ shell.doc[i] = 0
    /\ \A c \in Commits : /\ told[c] = "ack" => c \in Done
                          /\ told[c] = "nack" => c \in shell.refused
                          /\ told[c] = "same" => c \notin Done \cup shell.refused

\* A writer that has read all there is for it has the document of the host:
\* what a snapshot has made useless, and what an answer echoes again, leave
\* no gap (outbox.rs push, session.rs append_log and admit). A log that was
\* thrown away is made good by the snapshot the shell is asked for.
InStep ==
    (client.at = "live" /\ host.conn = client.conn /\ box[client.conn].close = "open"
        /\ box[client.conn].items = <<>> /\ client.seen # host.seq) =>
            /\ \/ \E i \in DOMAIN events : events[i].t = "wanted"
               \/ \E i \in DOMAIN sending : sending[i].t = "snapshot"
               \/ shell.stop = "done"

\* A client that follows the protocol is not turned away: as long as the host
\* keeps the pairing the token of the client opens it, whichever welcomes were
\* lost (session.rs admit: the previous token counts until the new connection
\* has spoken), unless a hello the client had given up was read after that of
\* a later attempt; and what it sends again, which is what lastC does not
\* cover, is never a commit the protocol ends a session for.
NotTurnedAway ==
    /\ (host.paired /\ client.at # "ended" /\ ~late) => Accepts(host, client.token)
    /\ \A k \in Conns : box[k].close # "violation"

\* When the session has been ended on the PC every commit the host handed
\* over has been answered or comes back and is applied, also what arrived
\* between the last answer and the end (session.ts shutdown).
StopCollects ==
    shell.stop = "done" =>
        /\ host.pending \subseteq shell.answered
        /\ \A i \in DOMAIN events : events[i].t = "commit" => events[i].c \in shell.answered

\* Nobody will answer c: the shell has, and the host waits for it again.
Orphan(c) ==
    /\ c \in host.pending \cap shell.answered
    /\ ~ \E i \in DOMAIN sending : sending[i].c = c /\ sending[i].t \in {"ack", "same", "nack"}

\* A commit that waits in the host is one the shell has still to answer, or
\* whose answer is on its way to the host.
NoOrphan == shell.stop = "no" => \A c \in Commits : ~Orphan(c)

\* When there is nothing left to do no commit of a session that goes on is
\* without its fate: unless the host waits again for the first of them, which
\* was answered, no answer or welcome is missing, whatever was lost.
NobodyStuck ==
    (client.at # "ended" /\ client.pending # {}) =>
        ENABLED Works \/ Orphan(Min(client.pending))
=============================================================================
