-------------------------------- MODULE Raft --------------------------------
(***************************************************************************)
(* The coordinators: RaftNode.run on one thread per node, the browser      *)
(* tabs, each of which appends to the leader's log at every snapshot it    *)
(* takes, and the buttons that crash a leader and recover a node.          *)
(*                                                                         *)
(* A request to a peer is a method call that takes the peer's lock; a call *)
(* is one action.  A node's lock is held from one action to the next in    *)
(* one place only: the winner of an election announces itself to its peers *)
(* with its own lock held.                                                 *)
(*                                                                         *)
(* Abstracted: timers (a follower or candidate may time out whenever it    *)
(* looks), commands, counters shown on the dashboard, leader_id (written,  *)
(* never read by a node) and commit_index (always the end of the log).     *)
(* A thread that stop() ends takes no more steps: the specification has no *)
(* need of an action for it.                                               *)
(***************************************************************************)
EXTENDS Integers, Sequences, FiniteSets

CONSTANTS
  N,           \* total_nodes
  None,
  Tab,         \* the browser tabs that show the dashboard
  MaxTerm,     \* bound: no node times out in this term
  MaxCrashes,  \* bound on force_crash calls
  MaxAppends   \* bound on the entries a tab appends

ASSUME RaftAssumption ==
  /\ N \in Nat \ {0}
  /\ None \notin Int
  /\ MaxTerm \in Nat /\ MaxCrashes \in Nat /\ MaxAppends \in Nat

Node == 0 .. N - 1

VARIABLES
  crashed, state, currentTerm, votedFor, log,
  pc,         \* node -> where its thread is in run()
  next,       \* node -> the peer its loop over peers has come to; N at the end
  ballot,     \* node -> local "term" of its latest _start_election
  ballotLen,  \* node -> local "log_len" of that election
  beatTerm,   \* node -> local "term" of _send_heartbeats
  app,        \* tab -> its step, leader, peer reached and entry; the entry's
              \* command is the tab and the number of the append
  doomed,     \* the node kill_raft_leader has chosen and not yet crashed
  crashes,    \* number of crashes so far
  granted,    \* history: the votes ever granted
  won,        \* history: the elections ever won
  hit         \* history: the nodes ever crashed

protocolVars == <<state, currentTerm, votedFor>>
threadVars   == <<next, ballot, ballotLen, beatTerm>>
crashVars    == <<crashed, doomed, crashes, hit>>
vars == <<crashed, state, currentTerm, votedFor, log, pc, next, ballot,
          ballotLen, beatTerm, app, doomed, crashes, granted, won, hit>>

Rest(cmd) == [step |-> "rest", node |-> 0, peer |-> N, term |-> 0, cmd |-> cmd]

Init ==
  /\ crashed = [n \in Node |-> FALSE]
  /\ state = [n \in Node |-> "follower"]
  /\ currentTerm = [n \in Node |-> 0]
  /\ votedFor = [n \in Node |-> None]
  /\ log = [n \in Node |-> <<>>]
  /\ pc = [n \in Node |-> "loop"]
  /\ next = [n \in Node |-> N]
  /\ ballot = [n \in Node |-> 0]
  /\ ballotLen = [n \in Node |-> 0]
  /\ beatTerm = [n \in Node |-> 0]
  /\ app = [b \in Tab |-> Rest(0)]
  /\ doomed = None
  /\ crashes = 0
  /\ granted = {}
  /\ won = {}
  /\ hit = {}

-----------------------------------------------------------------------------
(* Peers are called in order of their ids.                                 *)

Skip(n, p) == IF p = n THEN p + 1 ELSE p
FirstPeer(n) == Skip(n, 0)
PeerAfter(n, p) == Skip(n, p + 1)

\* Mutant: a candidate keeps its lock while it asks for votes.
MutUnlocked(n) == pc[n] \notin {"announce", "ask"}

\* n's lock is free for another thread.
Unlocked(n) == pc[n] # "announce"

Goto(n, from, to) == pc[n] = from /\ pc' = [pc EXCEPT ![n] = to]

\* n's loop over its peers moves on; after the last it goes to "to".
NextPeer(n, from, to) ==
  /\ Goto(n, from, IF PeerAfter(n, next[n]) = N THEN to ELSE from)
  /\ next' = [next EXCEPT ![n] = PeerAfter(n, @)]

\* A node alone has no peers to call and goes straight on.
BeginPeers(n, from, calling, to) ==
  /\ Goto(n, from, IF FirstPeer(n) = N THEN to ELSE calling)
  /\ next' = [next EXCEPT ![n] = FirstPeer(n)]

-----------------------------------------------------------------------------
(* The thread of node n.                                                   *)

\* The check of self.crashed, without the lock and never repeated.
PassCrashCheck(n) ==
  /\ Goto(n, "loop", "read")
  /\ ~crashed[n]
  /\ UNCHANGED <<protocolVars, threadVars, crashVars, log, app, granted, won>>

ReadLeader(n) ==
  /\ Goto(n, "read", "beat")
  /\ state[n] = "leader"
  /\ UNCHANGED <<protocolVars, threadVars, crashVars, log, app, granted, won>>

ReadTimedOut(n) ==
  /\ Goto(n, "read", "elect")
  /\ state[n] # "leader"
  /\ currentTerm[n] < MaxTerm
  /\ UNCHANGED <<protocolVars, threadVars, crashVars, log, app, granted, won>>

ReadNotYet(n) ==
  /\ Goto(n, "read", "loop")
  /\ state[n] # "leader"
  /\ UNCHANGED <<protocolVars, threadVars, crashVars, log, app, granted, won>>

StartElection(n) ==
  /\ BeginPeers(n, "elect", "ask", "count")
  /\ currentTerm[n] < MaxTerm
  /\ state' = [state EXCEPT ![n] = "candidate"]
  /\ currentTerm' = [currentTerm EXCEPT ![n] = @ + 1]
  /\ votedFor' = [votedFor EXCEPT ![n] = n]
  /\ ballot' = [ballot EXCEPT ![n] = currentTerm[n] + 1]
  /\ ballotLen' = [ballotLen EXCEPT ![n] = Len(log[n])]
  /\ granted' = granted \cup {[term |-> currentTerm[n] + 1, voter |-> n, cand |-> n]}
  /\ UNCHANGED <<crashVars, log, beatTerm, app, won>>

\* Mutant: a vote already given does not count.
MutGrants(n, p, vote) == ballotLen[n] >= Len(log[p])

\* The vote of p, given the voted_for it has once the terms are compared.
Grants(n, p, vote) == vote \in {None, n} /\ ballotLen[n] >= Len(log[p])

Grant(n, p) == granted' = granted \cup {[term |-> ballot[n], voter |-> p, cand |-> n]}

\* _request_vote refused outright: the peer is down or in a later term.
AskRefused(n) ==
  LET p == next[n] IN
  /\ NextPeer(n, "ask", "count")
  /\ Unlocked(p)
  /\ crashed[p] \/ ballot[n] < currentTerm[p]
  /\ UNCHANGED <<protocolVars, ballot, ballotLen, beatTerm, crashVars, log, app, granted, won>>

\* _request_vote in the peer's own term.
AskSameTerm(n) ==
  LET p == next[n] IN
  /\ NextPeer(n, "ask", "count")
  /\ Unlocked(p)
  /\ ~crashed[p] /\ ballot[n] = currentTerm[p]
  /\ \/ /\ Grants(n, p, votedFor[p])
        /\ votedFor' = [votedFor EXCEPT ![p] = n]
        /\ Grant(n, p)
     \/ /\ ~Grants(n, p, votedFor[p])
        /\ UNCHANGED <<votedFor, granted>>
  /\ UNCHANGED <<state, currentTerm, ballot, ballotLen, beatTerm, crashVars, log, app, won>>

\* _request_vote in a later term: the peer steps down whether or not it votes.
AskLaterTerm(n) ==
  LET p == next[n] IN
  /\ NextPeer(n, "ask", "count")
  /\ Unlocked(p)
  /\ ~crashed[p] /\ ballot[n] > currentTerm[p]
  /\ currentTerm' = [currentTerm EXCEPT ![p] = ballot[n]]
  /\ state' = [state EXCEPT ![p] = "follower"]
  /\ \/ /\ Grants(n, p, None)
        /\ votedFor' = [votedFor EXCEPT ![p] = n]
        /\ Grant(n, p)
     \/ /\ ~Grants(n, p, None)
        /\ votedFor' = [votedFor EXCEPT ![p] = None]
        /\ UNCHANGED granted
  /\ UNCHANGED <<ballot, ballotLen, beatTerm, crashVars, log, app, won>>

\* The votes counted: those granted to n's latest ballot.
Votes(n) == {m \in Node : [term |-> ballot[n], voter |-> m, cand |-> n] \in granted}

\* Mutant: half of the votes, rounded down, is enough.
MutElectedByHalf(n) == Cardinality(Votes(n)) >= N \div 2 /\ state[n] = "candidate"

Elected(n) == 2 * Cardinality(Votes(n)) > N /\ state[n] = "candidate"

Win(n) ==
  /\ BeginPeers(n, "count", "announce", "loop")
  /\ Elected(n)
  /\ state' = [state EXCEPT ![n] = "leader"]
  /\ won' = won \cup {[term |-> currentTerm[n], node |-> n]}
  /\ UNCHANGED <<currentTerm, votedFor, ballot, ballotLen, beatTerm, crashVars,
                 log, app, granted>>

Lose(n) ==
  /\ Goto(n, "count", "loop")
  /\ ~Elected(n)
  /\ UNCHANGED <<protocolVars, threadVars, crashVars, log, app, granted, won>>

\* Mutant: an old term is followed too.
MutFollow(p, t) ==
  IF ~crashed[p]
  THEN /\ state' = [state EXCEPT ![p] = "follower"]
       /\ currentTerm' = [currentTerm EXCEPT ![p] = t]
  ELSE UNCHANGED <<state, currentTerm>>

\* p follows n in term t, unless it is down or in a later term; its vote
\* stays as it is.
Follow(p, t) ==
  IF ~crashed[p] /\ t >= currentTerm[p]
  THEN /\ state' = [state EXCEPT ![p] = "follower"]
       /\ currentTerm' = [currentTerm EXCEPT ![p] = t]
  ELSE UNCHANGED <<state, currentTerm>>

\* _accept_leader, called with n's lock held.
Announce(n) ==
  /\ NextPeer(n, "announce", "loop")
  /\ Unlocked(next[n])
  /\ Follow(next[n], currentTerm[n])
  /\ UNCHANGED <<votedFor, ballot, ballotLen, beatTerm, crashVars, log, app, granted, won>>

\* _send_heartbeats reads the term under the lock, but not whether n is
\* still the leader that run() saw.
BeginBeat(n) ==
  /\ BeginPeers(n, "beat", "send", "loop")
  /\ beatTerm' = [beatTerm EXCEPT ![n] = currentTerm[n]]
  /\ UNCHANGED <<protocolVars, ballot, ballotLen, crashVars, log, app, granted, won>>

Heartbeat(n) ==
  /\ NextPeer(n, "send", "loop")
  /\ Unlocked(next[n])
  /\ Follow(next[n], beatTerm[n])
  /\ UNCHANGED <<votedFor, ballot, ballotLen, beatTerm, crashVars, log, app, granted, won>>

NodeStep(n) ==
  \/ PassCrashCheck(n) \/ ReadLeader(n)  \/ ReadTimedOut(n) \/ ReadNotYet(n)
  \/ StartElection(n)  \/ AskRefused(n)  \/ AskSameTerm(n)  \/ AskLaterTerm(n)
  \/ Win(n)            \/ Lose(n)        \/ Announce(n)
  \/ BeginBeat(n)      \/ Heartbeat(n)

-----------------------------------------------------------------------------
(* The dashboard.                                                          *)

\* kill_raft_leader finds a live leader without taking its lock...
ChooseVictim(n) ==
  /\ doomed = None
  /\ crashes < MaxCrashes
  /\ state[n] = "leader" /\ ~crashed[n]
  /\ doomed' = n
  /\ UNCHANGED <<protocolVars, threadVars, crashed, crashes, hit, log, pc, app, granted, won>>

\* ...and crashes whatever it has become by then.
ForceCrash(n) ==
  /\ doomed = n
  /\ Unlocked(n)
  /\ crashed' = [crashed EXCEPT ![n] = TRUE]
  /\ state' = [state EXCEPT ![n] = "follower"]
  /\ doomed' = None
  /\ crashes' = crashes + 1
  /\ hit' = hit \cup {n}
  /\ UNCHANGED <<currentTerm, votedFor, threadVars, log, pc, app, granted, won>>

\* Mutant: a recovered node has forgotten its vote.
MutRecover(n) ==
  /\ crashed[n]
  /\ Unlocked(n)
  /\ crashed' = [crashed EXCEPT ![n] = FALSE]
  /\ votedFor' = [votedFor EXCEPT ![n] = None]
  /\ UNCHANGED <<state, currentTerm, threadVars, doomed, crashes, hit, log, pc, app,
                 granted, won>>

Recover(n) ==
  /\ crashed[n]
  /\ Unlocked(n)
  /\ crashed' = [crashed EXCEPT ![n] = FALSE]
  /\ UNCHANGED <<protocolVars, threadVars, doomed, crashes, hit, log, pc, app, granted, won>>

\* A snapshot of tab b finds n's status "leader".
SeeLeader(b, n) ==
  /\ app[b].step = "rest"
  /\ app[b].cmd < MaxAppends
  /\ Unlocked(n) /\ state[n] = "leader"
  /\ app' = [app EXCEPT ![b] = [@ EXCEPT !.step = "check", !.node = n]]
  /\ UNCHANGED <<protocolVars, threadVars, crashVars, log, pc, granted, won>>

\* append_log looks again, without the lock: at the state...
CheckState(b) ==
  /\ app[b].step = "check"
  /\ app' = [app EXCEPT ![b] =
       IF state[@.node] = "leader" THEN [@ EXCEPT !.step = "alive"] ELSE Rest(@.cmd)]
  /\ UNCHANGED <<protocolVars, threadVars, crashVars, log, pc, granted, won>>

\* ...at crashed...
CheckAlive(b) ==
  /\ app[b].step = "alive"
  /\ app' = [app EXCEPT ![b] =
       IF ~crashed[@.node] THEN [@ EXCEPT !.step = "stamp", !.cmd = app[b].cmd + 1]
       ELSE Rest(@.cmd)]
  /\ UNCHANGED <<protocolVars, threadVars, crashVars, log, pc, granted, won>>

\* ...and at the term...
StampEntry(b) ==
  /\ app[b].step = "stamp"
  /\ app' = [app EXCEPT ![b] = [@ EXCEPT !.step = "append", !.term = currentTerm[app[b].node]]]
  /\ UNCHANGED <<protocolVars, threadVars, crashVars, log, pc, granted, won>>

NewEntry(b) == [term |-> app[b].term, tab |-> b, cmd |-> app[b].cmd]

\* ...and appends and commits without it.
AppendEntry(b) ==
  LET n == app[b].node IN
  /\ app[b].step = "append"
  /\ log' = [log EXCEPT ![n] = Append(@, NewEntry(b))]
  /\ app' = [app EXCEPT ![b] =
       IF FirstPeer(n) = N THEN Rest(@.cmd)
       ELSE [@ EXCEPT !.step = "copy", !.peer = FirstPeer(n)]]
  /\ UNCHANGED <<protocolVars, threadVars, crashVars, pc, granted, won>>

\* The tab's loop over the peers of the leader moves on.
NextCopy(b) ==
  LET p == PeerAfter(app[b].node, app[b].peer) IN
  app' = [app EXCEPT ![b] = IF p = N THEN Rest(@.cmd) ELSE [@ EXCEPT !.peer = p]]

\* Mutant: a peer drops an entry of a term that it has left.
MutCopyEntry(b) ==
  LET p == app[b].peer IN
  /\ app[b].step = "copy"
  /\ Unlocked(p)
  /\ log' = IF crashed[p] \/ app[b].term < currentTerm[p] THEN log
            ELSE [log EXCEPT ![p] = Append(@, NewEntry(b))]
  /\ NextCopy(b)
  /\ UNCHANGED <<protocolVars, threadVars, crashVars, pc, granted, won>>

\* _append_entry: no comparison of terms or of what the peer already has.
CopyEntry(b) ==
  LET p == app[b].peer IN
  /\ app[b].step = "copy"
  /\ Unlocked(p)
  /\ log' = IF crashed[p] THEN log
            ELSE [log EXCEPT ![p] = Append(@, NewEntry(b))]
  /\ NextCopy(b)
  /\ UNCHANGED <<protocolVars, threadVars, crashVars, pc, granted, won>>

Dashboard ==
  \/ \E n \in Node : ChooseVictim(n) \/ ForceCrash(n) \/ Recover(n)
  \/ \E b \in Tab : \/ \E n \in Node : SeeLeader(b, n)
                    \/ CheckState(b)  \/ CheckAlive(b)
                    \/ StampEntry(b)  \/ AppendEntry(b) \/ CopyEntry(b)

Next == (\E n \in Node : NodeStep(n)) \/ Dashboard

Spec == Init /\ [][Next]_vars

\* Every node's thread is scheduled.  Nothing obliges a user to press a
\* button, and timeouts stay a matter of chance.
FairSpec == Spec /\ \A n \in Node : WF_vars(NodeStep(n))

-----------------------------------------------------------------------------
(* Properties.                                                             *)

Steps == {"loop", "read", "elect", "ask", "count", "announce", "beat", "send"}

Calling == {"ask", "announce", "send"}

Entry == [term : Nat, tab : Tab, cmd : Nat]

Work == [step : {"rest", "check", "alive", "stamp", "append", "copy"},
         node : Node, peer : 0 .. N, term : Nat, cmd : Nat]

\* Type invariant; a loop over peers is at a peer, never at its own node.
TypeOK ==
  /\ crashed \in [Node -> BOOLEAN]
  /\ state \in [Node -> {"follower", "candidate", "leader"}]
  /\ currentTerm \in [Node -> Nat]
  /\ votedFor \in [Node -> Node \cup {None}]
  /\ log \in [Node -> Seq(Entry)]
  /\ pc \in [Node -> Steps]
  /\ next \in [Node -> 0 .. N]
  /\ ballot \in [Node -> Nat] /\ ballotLen \in [Node -> Nat]
  /\ beatTerm \in [Node -> Nat]
  /\ app \in [Tab -> Work]
  /\ \A b \in Tab : app[b].step = "copy" => app[b].peer \in Node \ {app[b].node}
  /\ doomed \in Node \cup {None}
  /\ crashes \in Nat
  /\ granted \subseteq [term : Nat, voter : Node, cand : Node]
  /\ won \subseteq [term : Nat, node : Node]
  /\ hit \subseteq Node
  /\ \A n \in Node : pc[n] \in Calling => next[n] \in Node \ {n}

\* Terms never go back, and within a term a vote once given is never given
\* to another candidate: not by the heartbeats and announcements that raise
\* a term without touching the vote, not by a crash or a recovery.
TermsAndVotesKept ==
  [][\A n \in Node :
       /\ currentTerm'[n] >= currentTerm[n]
       /\ currentTerm'[n] = currentTerm[n] /\ votedFor[n] # None
            => votedFor'[n] = votedFor[n]]_vars

\* A vote, once granted, binds its voter until the voter reaches a later
\* term, also when a heartbeat, a crash or a recovery came in between.
VotesBind ==
  \A g \in granted :
    \/ currentTerm[g.voter] > g.term
    \/ currentTerm[g.voter] = g.term /\ votedFor[g.voter] = g.cand

\* Hence nobody votes twice in a term.
VotesOnce ==
  \A g, h \in granted : g.term = h.term /\ g.voter = h.voter => g.cand = h.cand

\* Every winner had a majority.
WinnersElected ==
  \A w \in won : \E Q \in SUBSET Node :
    /\ 2 * Cardinality(Q) > N
    /\ \A m \in Q : [term |-> w.term, voter |-> m, cand |-> w.node] \in granted

\* n's latest election has asked m for its vote.
Asked(n, m) == ~(pc[n] = "ask" /\ m >= next[n])

\* A candidate or leader is in the term of its latest election, a leader
\* has won that term, an election under way is not run by a leader, and an
\* announcer leads.
OfficeHeld ==
  \A n \in Node :
    /\ state[n] # "follower" => currentTerm[n] = ballot[n]
    /\ state[n] = "leader" => [term |-> currentTerm[n], node |-> n] \in won
    /\ pc[n] \in {"elect", "ask", "count"} => state[n] # "leader"
    /\ pc[n] = "announce" => state[n] = "leader"

\* A node that has been asked has caught up with the asker's term, unless it
\* was down when asked.
AskedCaughtUp ==
  /\ \A n \in Node : crashed[n] => n \in hit
  /\ \A n \in Node, m \in Node \ hit :
       n # m /\ Asked(n, m) => currentTerm[m] >= ballot[n]

\* The inductive invariant: what votes, winners, offices and askers know.
Inductive ==
  /\ TypeOK /\ VotesBind /\ VotesOnce /\ WinnersElected /\ OfficeHeld /\ AskedCaughtUp

\* Whatever crashes and recovers, at most one node ever wins a given term.
ElectionSafety == \A a, b \in won : a.term = b.term => a = b

\* Among nodes that were never crashed at most one believes it leads: the
\* winner has asked every other, and so has made it step down.
SoleLeader ==
  \A a, b \in Node \ hit : state[a] = "leader" /\ state[b] = "leader" => a = b

\* Winners holding their own locks wait for each other in a circle.
LockCycle(S) ==
  S # {} /\ \A n \in S : pc[n] = "announce" /\ next[n] \in S

\* Nodes that were never crashed do not deadlock, although a winner calls
\* its peers with its own lock held.
NoLockCycleUnhit == \A S \in SUBSET (Node \ hit) : ~LockCycle(S)

Entries(n) == {log[n][i] : i \in 1 .. Len(log[n])}

\* Every log holds the entries of each tab in the order in which the tab made
\* them and none twice, whichever nodes led meanwhile...
TabOrderKept ==
  \A n \in Node : \A i, j \in 1 .. Len(log[n]) :
    i < j /\ log[n][i].tab = log[n][j].tab => log[n][i].cmd < log[n][j].cmd

\* ...and a node that was never crashed lacks nothing that another node has of
\* a tab, once the tab's append is over: only crashed nodes miss entries, and
\* two tabs that append at once can disagree on nothing but how their entries
\* interleave (append_log, _append_entry).
NothingMissing ==
  \A b \in Tab : app[b].step # "copy" =>
    \A n \in Node, m \in Node \ hit : {e \in Entries(n) : e.tab = b} \subseteq Entries(m)

ReplicasAgree == TabOrderKept /\ NothingMissing

\* Without crashes an election ends: its thread is not stuck on a lock.
ElectionEnds == \A n \in Node : pc[n] = "ask" ~> pc[n] = "loop"

\* "You can crash the Raft leader and watch another coordinator take over":
\* the take-over never leaves the coordinators waiting for each other.
NoLockCycle == \A S \in SUBSET Node : ~LockCycle(S)
=============================================================================
