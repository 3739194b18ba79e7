---------------------------- MODULE RaftProofs -----------------------------
(***************************************************************************)
(* Proofs about the coordinators, for every number of nodes, terms,        *)
(* crashes and appends: type correctness, at most one winner per term, at  *)
(* most one leader among the nodes never crashed, hence no deadlock among  *)
(* them, and replicas that agree.                                          *)
(***************************************************************************)
EXTENDS Raft, FiniteSetTheorems, SequenceTheorems, TLAPS

USE RaftAssumption DEF protocolVars, threadVars, crashVars, Goto, NextPeer, BeginPeers

-----------------------------------------------------------------------------
(* The order in which a node calls its peers.                              *)

\* The first peer comes before every other.
LEMMA FirstPeerFacts ==
  ASSUME NEW n \in Node
  PROVE  /\ FirstPeer(n) \in 0 .. N
         /\ FirstPeer(n) # N => FirstPeer(n) \in Node \ {n}
         /\ \A m \in Node \ {n} : m >= FirstPeer(n)
BY DEF Node, FirstPeer, Skip

\* The peer after p comes after p and before every later peer.
LEMMA PeerAfterFacts ==
  ASSUME NEW n \in Node, NEW p \in Node \ {n}
  PROVE  /\ PeerAfter(n, p) \in 0 .. N
         /\ PeerAfter(n, p) # N => PeerAfter(n, p) \in Node \ {n}
         /\ \A m \in Node \ {n} : m < PeerAfter(n, p) => m < p \/ m = p
BY DEF Node, PeerAfter, Skip

-----------------------------------------------------------------------------
(* Type correctness.                                                       *)

\* What a tab goes on to from any point of its work.
LEMMA WorkFacts ==
  /\ \A w \in Work, n \in Node :
       /\ [w EXCEPT !.step = "check", !.node = n] \in Work
       /\ [w EXCEPT !.step = "check", !.node = n].step = "check"
  /\ \A w \in Work :
       /\ [w EXCEPT !.step = "alive"] \in Work
       /\ [w EXCEPT !.step = "alive"].step = "alive"
       /\ [w EXCEPT !.step = "stamp", !.cmd = w.cmd + 1] \in Work
       /\ [w EXCEPT !.step = "stamp", !.cmd = w.cmd + 1].step = "stamp"
       /\ Rest(w.cmd) \in Work /\ Rest(w.cmd).step = "rest"
  /\ \A w \in Work, t \in Nat :
       /\ [w EXCEPT !.step = "append", !.term = t] \in Work
       /\ [w EXCEPT !.step = "append", !.term = t].step = "append"
<1>1. 0 \in Node /\ N \in 0 .. N
  BY DEF Node
<1>2. ASSUME NEW w \in Work, NEW n \in Node
      PROVE  /\ [w EXCEPT !.step = "check", !.node = n] \in Work
             /\ [w EXCEPT !.step = "check", !.node = n].step = "check"
  BY DEF Work
<1>3. ASSUME NEW w \in Work PROVE Rest(w.cmd) \in Work /\ Rest(w.cmd).step = "rest"
  BY <1>1 DEF Work, Rest
<1>4. ASSUME NEW w \in Work
      PROVE  /\ [w EXCEPT !.step = "stamp", !.cmd = w.cmd + 1] \in Work
             /\ [w EXCEPT !.step = "stamp", !.cmd = w.cmd + 1].step = "stamp"
  <2>1. w.cmd + 1 \in Nat
    BY DEF Work
  <2>2. QED
    BY <2>1 DEF Work
<1>5. ASSUME NEW w \in Work
      PROVE  [w EXCEPT !.step = "alive"] \in Work /\ [w EXCEPT !.step = "alive"].step = "alive"
  BY DEF Work
<1>6. ASSUME NEW w \in Work, NEW t \in Nat
      PROVE  /\ [w EXCEPT !.step = "append", !.term = t] \in Work
             /\ [w EXCEPT !.step = "append", !.term = t].step = "append"
  BY DEF Work
<1>7. QED
  BY <1>2, <1>3, <1>4, <1>5, <1>6

LEMMA InitType == Init => TypeOK
<1> SUFFICES ASSUME Init PROVE TypeOK
  OBVIOUS
<1>1. 0 \in Node /\ N \in 0 .. N
  BY DEF Node
<1>2. app \in [Tab -> Work]
  BY <1>1 DEF Init, Rest, Work
<1>3. log \in [Node -> Seq(Entry)]
  BY DEF Init
<1>4. next \in [Node -> 0 .. N]
  BY <1>1 DEF Init
<1>5. \A b \in Tab : app[b].step # "copy"
  BY DEF Init, Rest
<1>6. \A n \in Node : pc[n] \notin Calling
  BY DEF Init, Calling
<1>7. QED
  BY <1>2, <1>3, <1>4, <1>5, <1>6 DEF Init, TypeOK, Steps

CallOK == \A n \in Node : pc[n] \in Calling => next[n] \in Node \ {n}

\* A loop over peers that begins, or moves on, stays among the peers.
LEMMA PeerLoopType ==
  ASSUME TypeOK, NEW n \in Node, NEW from \in Steps, NEW to \in Steps \ Calling,
         NEW calling \in Calling,
         \/ BeginPeers(n, from, calling, to)
         \/ from = calling /\ NextPeer(n, from, to)
  PROVE  pc' \in [Node -> Steps] /\ next' \in [Node -> 0 .. N] /\ CallOK'
<1>1. CASE BeginPeers(n, from, calling, to)
  <2>1. /\ FirstPeer(n) \in 0 .. N
        /\ FirstPeer(n) # N => FirstPeer(n) \in Node \ {n}
    BY FirstPeerFacts
  <2>2. /\ pc' = [pc EXCEPT ![n] = IF FirstPeer(n) = N THEN to ELSE calling]
        /\ next' = [next EXCEPT ![n] = FirstPeer(n)]
    BY <1>1
  <2>3. pc' \in [Node -> Steps] /\ next' \in [Node -> 0 .. N]
    BY <2>1, <2>2 DEF TypeOK, Steps, Calling
  <2>4. ASSUME NEW m \in Node, pc'[m] \in Calling PROVE next'[m] \in Node \ {m}
    BY <2>1, <2>2, <2>4 DEF TypeOK
  <2>5. QED
    BY <2>3, <2>4 DEF CallOK
<1>2. CASE from = calling /\ NextPeer(n, from, to)
  <2>1. next[n] \in Node \ {n}
    BY <1>2 DEF TypeOK
  <2>2. /\ PeerAfter(n, next[n]) \in 0 .. N
        /\ PeerAfter(n, next[n]) # N => PeerAfter(n, next[n]) \in Node \ {n}
    BY <2>1, PeerAfterFacts
  <2>3. QED
    BY <1>2, <2>2 DEF TypeOK, CallOK, Steps, Calling
<1>3. QED
  BY <1>1, <1>2

LEMMA StepType == TypeOK /\ [Next]_vars => TypeOK'
<1> SUFFICES ASSUME TypeOK, [Next]_vars PROVE TypeOK'
  OBVIOUS
<1>1. ASSUME NEW n \in Node, NodeStep(n) PROVE TypeOK'
  <2>1. CASE PassCrashCheck(n) \/ ReadLeader(n) \/ ReadTimedOut(n) \/ ReadNotYet(n) \/ Lose(n)
    <3>1. next' = next /\ \E to \in {"read", "beat", "elect", "loop"} : pc' = [pc EXCEPT ![n] = to]
      BY <2>1 DEF PassCrashCheck, ReadLeader, ReadTimedOut, ReadNotYet, Lose
    <3>2. pc' \in [Node -> Steps] /\ CallOK'
      BY <3>1 DEF TypeOK, CallOK, Steps, Calling
    <3>3. QED
      BY <2>1, <3>2 DEF PassCrashCheck, ReadLeader, ReadTimedOut, ReadNotYet, Lose,
                        TypeOK, CallOK
  <2>2. CASE StartElection(n)
    <3>1. pc' \in [Node -> Steps] /\ next' \in [Node -> 0 .. N] /\ CallOK'
      BY <2>2, PeerLoopType DEF StartElection, Steps, Calling
    <3>2. currentTerm[n] + 1 \in Nat /\ Len(log[n]) \in Nat
      <4>1. currentTerm[n] \in Nat /\ log[n] \in Seq(Entry)
        BY DEF TypeOK
      <4>2. QED
        BY <4>1
    <3>3. /\ currentTerm' \in [Node -> Nat] /\ ballot' \in [Node -> Nat]
          /\ ballotLen' \in [Node -> Nat]
      BY <2>2, <3>2 DEF StartElection, TypeOK
    <3>4. granted' \subseteq [term : Nat, voter : Node, cand : Node]
      <4>1. [term |-> currentTerm[n] + 1, voter |-> n, cand |-> n]
              \in [term : Nat, voter : Node, cand : Node]
        BY <3>2
      <4>2. QED
        BY <2>2, <4>1 DEF StartElection, TypeOK
    <3>5. QED
      BY <2>2, <3>1, <3>3, <3>4 DEF StartElection, TypeOK, CallOK
  <2>3. CASE AskRefused(n) \/ AskSameTerm(n) \/ AskLaterTerm(n)
    <3> DEFINE p == next[n]
    <3>1. pc' \in [Node -> Steps] /\ next' \in [Node -> 0 .. N] /\ CallOK'
      BY <2>3, PeerLoopType DEF AskRefused, AskSameTerm, AskLaterTerm, Steps, Calling
    <3>2. p \in Node
      BY <2>3 DEF AskRefused, AskSameTerm, AskLaterTerm, TypeOK, Calling
    <3>3. granted' \subseteq [term : Nat, voter : Node, cand : Node]
      <4>1. [term |-> ballot[n], voter |-> p, cand |-> n]
              \in [term : Nat, voter : Node, cand : Node]
        BY <3>2 DEF TypeOK
      <4>2. granted' = granted \/ Grant(n, p)
        BY <2>3 DEF AskRefused, AskSameTerm, AskLaterTerm
      <4>3. QED
        BY <4>1, <4>2 DEF Grant, TypeOK
    <3>4. currentTerm' \in [Node -> Nat]
      <4>1. currentTerm' = currentTerm \/ currentTerm' = [currentTerm EXCEPT ![p] = ballot[n]]
        BY <2>3 DEF AskRefused, AskSameTerm, AskLaterTerm
      <4>2. QED
        BY <4>1, <3>2 DEF TypeOK
    <3>5. votedFor' \in [Node -> Node \cup {None}]
      <4>1. votedFor' = votedFor \/ \E v \in {n, None} : votedFor' = [votedFor EXCEPT ![p] = v]
        BY <2>3 DEF AskRefused, AskSameTerm, AskLaterTerm
      <4>2. votedFor \in [Node -> Node \cup {None}]
        BY DEF TypeOK
      <4>3. ASSUME NEW v \in Node \cup {None}
            PROVE  [votedFor EXCEPT ![p] = v] \in [Node -> Node \cup {None}]
        BY <4>2
      <4>4. QED
        BY <4>1, <4>2, <4>3
    <3>6. state' \in [Node -> {"follower", "candidate", "leader"}]
      BY <2>3, <3>2 DEF AskRefused, AskSameTerm, AskLaterTerm, TypeOK
    <3>7. UNCHANGED <<ballot, ballotLen, beatTerm, crashVars, log, app, won>>
      BY <2>3 DEF AskRefused, AskSameTerm, AskLaterTerm
    <3>8. QED
      BY <3>1, <3>3, <3>4, <3>5, <3>6, <3>7 DEF TypeOK, CallOK
  <2>4. CASE Win(n)
    <3>1. pc' \in [Node -> Steps] /\ next' \in [Node -> 0 .. N] /\ CallOK'
      BY <2>4, PeerLoopType DEF Win, Steps, Calling
    <3>2. state' \in [Node -> {"follower", "candidate", "leader"}]
      BY <2>4 DEF Win, TypeOK
    <3>3. won' \subseteq [term : Nat, node : Node]
      BY <2>4 DEF Win, TypeOK
    <3>4. QED
      BY <2>4, <3>1, <3>2, <3>3 DEF Win, TypeOK, CallOK
  <2>5. CASE Announce(n) \/ Heartbeat(n)
    <3>1. pc' \in [Node -> Steps] /\ next' \in [Node -> 0 .. N] /\ CallOK'
      BY <2>5, PeerLoopType DEF Announce, Heartbeat, Steps, Calling
    <3>2. /\ currentTerm' \in [Node -> Nat]
          /\ state' \in [Node -> {"follower", "candidate", "leader"}]
      <4>1. PICK t \in Nat : Follow(next[n], t)
        BY <2>5 DEF Announce, Heartbeat, TypeOK
      <4>2. \/ state' = state /\ currentTerm' = currentTerm
            \/ /\ state' = [state EXCEPT ![next[n]] = "follower"]
               /\ currentTerm' = [currentTerm EXCEPT ![next[n]] = t]
        BY <4>1 DEF Follow
      <4>3. /\ currentTerm \in [Node -> Nat]
            /\ state \in [Node -> {"follower", "candidate", "leader"}]
        BY DEF TypeOK
      <4>4. /\ [state EXCEPT ![next[n]] = "follower"] \in [Node -> {"follower", "candidate", "leader"}]
            /\ [currentTerm EXCEPT ![next[n]] = t] \in [Node -> Nat]
        BY <4>3
      <4>5. QED
        BY <4>2, <4>3, <4>4
    <3>3. UNCHANGED <<crashed, votedFor, log, ballot, ballotLen, beatTerm, app, doomed,
                      crashes, granted, won, hit>>
      BY <2>5 DEF Announce, Heartbeat
    <3>4. QED
      BY <3>1, <3>2, <3>3 DEF TypeOK, CallOK
  <2>6. CASE BeginBeat(n)
    <3>1. pc' \in [Node -> Steps] /\ next' \in [Node -> 0 .. N] /\ CallOK'
      BY <2>6, PeerLoopType DEF BeginBeat, Steps, Calling
    <3>2. beatTerm' \in [Node -> Nat]
      BY <2>6 DEF BeginBeat, TypeOK
    <3>3. QED
      BY <2>6, <3>1, <3>2 DEF BeginBeat, TypeOK, CallOK
  <2>7. QED
    BY <1>1, <2>1, <2>2, <2>3, <2>4, <2>5, <2>6 DEF NodeStep
<1>2. ASSUME NEW n \in Node, ChooseVictim(n) \/ ForceCrash(n) \/ Recover(n) PROVE TypeOK'
  <2>1. CASE ChooseVictim(n)
    BY <2>1 DEF ChooseVictim, TypeOK
  <2>2. CASE ForceCrash(n)
    <3>1. crashes' \in Nat /\ hit' \subseteq Node /\ doomed' \in Node \cup {None}
      BY <2>2 DEF ForceCrash, TypeOK
    <3>2. /\ crashed' \in [Node -> BOOLEAN]
          /\ state' \in [Node -> {"follower", "candidate", "leader"}]
      BY <2>2 DEF ForceCrash, TypeOK
    <3>3. QED
      BY <2>2, <3>1, <3>2 DEF ForceCrash, TypeOK
  <2>3. CASE Recover(n)
    BY <2>3 DEF Recover, TypeOK
  <2>4. QED
    BY <1>2, <2>1, <2>2, <2>3
<1>3. ASSUME NEW b \in Tab, NEW r \in Work, app' = [app EXCEPT ![b] = r],
             r.step = "copy" => r.peer \in Node \ {r.node}
      PROVE  /\ app' \in [Tab -> Work]
             /\ \A c \in Tab : app'[c].step = "copy" =>
                  app'[c].peer \in Node \ {app'[c].node}
  BY <1>3 DEF TypeOK
<1>4. ASSUME NEW b \in Tab, NEW n \in Node, SeeLeader(b, n) PROVE TypeOK'
  <2>1. PICK r \in Work : r.step = "check" /\ app' = [app EXCEPT ![b] = r]
    <3>1. app[b] \in Work /\ app' = [app EXCEPT ![b] = [app[b] EXCEPT !.step = "check", !.node = n]]
      BY <1>4 DEF SeeLeader, TypeOK
    <3>2. QED
      BY <3>1, WorkFacts
  <2>2. /\ app' \in [Tab -> Work]
        /\ \A c \in Tab : app'[c].step = "copy" => app'[c].peer \in Node \ {app'[c].node}
    BY <1>3, <2>1
  <2>3. QED
    BY <1>4, <2>2 DEF SeeLeader, TypeOK
<1>5. ASSUME NEW b \in Tab, CheckState(b) \/ CheckAlive(b) \/ StampEntry(b) PROVE TypeOK'
  <2>1. PICK r \in Work : r.step # "copy" /\ app' = [app EXCEPT ![b] = r]
    <3>1. app[b] \in Work /\ app[b].cmd \in Nat /\ currentTerm[app[b].node] \in Nat
      BY DEF TypeOK, Work
    <3>2. CASE CheckState(b)
      <4>1. \/ app' = [app EXCEPT ![b] = [app[b] EXCEPT !.step = "alive"]]
            \/ app' = [app EXCEPT ![b] = Rest(app[b].cmd)]
        BY <3>2 DEF CheckState
      <4>2. QED
        BY <3>1, <4>1, WorkFacts
    <3>3. CASE CheckAlive(b)
      <4>1. \/ app' = [app EXCEPT ![b] = [app[b] EXCEPT !.step = "stamp", !.cmd = app[b].cmd + 1]]
            \/ app' = [app EXCEPT ![b] = Rest(app[b].cmd)]
        BY <3>3 DEF CheckAlive
      <4>2. QED
        BY <3>1, <4>1, WorkFacts
    <3>4. CASE StampEntry(b)
      <4>1. app' = [app EXCEPT ![b] =
                      [app[b] EXCEPT !.step = "append", !.term = currentTerm[app[b].node]]]
        BY <3>4 DEF StampEntry
      <4>2. QED
        BY <3>1, <4>1, WorkFacts
    <3>5. QED
      BY <1>5, <3>2, <3>3, <3>4
  <2>2. /\ app' \in [Tab -> Work]
        /\ \A c \in Tab : app'[c].step = "copy" => app'[c].peer \in Node \ {app'[c].node}
    BY <1>3, <2>1
  <2>3. QED
    BY <1>5, <2>2 DEF CheckState, CheckAlive, StampEntry, TypeOK
<1>6. ASSUME NEW b \in Tab, AppendEntry(b) PROVE TypeOK'
  <2>1. PICK p \in 0 .. N :
          /\ p = FirstPeer(app[b].node)
          /\ log' = [log EXCEPT ![app[b].node] = Append(@, NewEntry(b))]
          /\ app' = [app EXCEPT ![b] =
               IF p = N THEN Rest(@.cmd) ELSE [@ EXCEPT !.step = "copy", !.peer = p]]
    <3>1. app[b].node \in Node
      BY DEF TypeOK, Work
    <3>2. FirstPeer(app[b].node) \in 0 .. N
      BY <3>1, FirstPeerFacts
    <3>3. QED
      BY <1>6, <3>2 DEF AppendEntry
  <2>2. /\ app[b] \in Work /\ 0 \in Node /\ N \in 0 .. N
        /\ p # N => p \in Node \ {app[b].node}
    BY <2>1, FirstPeerFacts DEF TypeOK, Work, Node
  <2>3. NewEntry(b) \in Entry
    BY <2>2 DEF NewEntry, Entry, Work
  <2>4. log' \in [Node -> Seq(Entry)]
    <3>1. Append(log[app[b].node], NewEntry(b)) \in Seq(Entry)
      BY <2>2, <2>3 DEF TypeOK, Work
    <3>2. QED
      BY <2>1, <3>1 DEF TypeOK
  <2>5. PICK r \in Work : /\ r.step = "copy" => r.peer \in Node \ {r.node}
                          /\ app' = [app EXCEPT ![b] = r]
    <3>1. CASE p = N
      <4>1. Rest(app[b].cmd) \in Work /\ Rest(app[b].cmd).step = "rest"
        BY <2>2, WorkFacts
      <4>2. QED
        BY <2>1, <3>1, <4>1
    <3>2. CASE p # N
      <4> DEFINE r == [app[b] EXCEPT !.step = "copy", !.peer = p]
      <4>1. r \in Work /\ r.peer = p /\ r.node = app[b].node
        BY <2>2 DEF Work
      <4>2. app' = [app EXCEPT ![b] = r]
        BY <2>1, <3>2
      <4> HIDE DEF r
      <4>3. QED
        BY <2>2, <3>2, <4>1, <4>2
    <3>3. QED
      BY <3>1, <3>2
  <2>6. /\ app' \in [Tab -> Work]
        /\ \A c \in Tab : app'[c].step = "copy" => app'[c].peer \in Node \ {app'[c].node}
    BY <1>3, <2>5
  <2>7. QED
    BY <1>6, <2>4, <2>6 DEF AppendEntry, TypeOK
<1>7. ASSUME NEW b \in Tab, CopyEntry(b) PROVE TypeOK'
  <2> DEFINE p == app[b].peer
             q == PeerAfter(app[b].node, p)
             e == NewEntry(b)
  <2>1. /\ app[b] \in Work /\ p \in Node \ {app[b].node} /\ app[b].node \in Node
        /\ 0 \in Node /\ N \in 0 .. N
    <3>1. app[b] \in Work /\ app[b].step = "copy"
      BY <1>7 DEF CopyEntry, TypeOK
    <3>2. app[b].peer \in Node \ {app[b].node}
      BY <3>1 DEF TypeOK
    <3>3. app[b].node \in Node
      BY <3>1 DEF Work
    <3>4. QED
      BY <3>1, <3>2, <3>3 DEF Node
  <2>2. q \in 0 .. N /\ (q # N => q \in Node \ {app[b].node})
    BY <2>1, PeerAfterFacts
  <2>3. e \in Entry
    BY <2>1 DEF NewEntry, Entry, Work
  <2>4. log' = IF crashed[p] THEN log ELSE [log EXCEPT ![p] = Append(log[p], e)]
    BY <1>7 DEF CopyEntry
  <2>5. app' = [app EXCEPT ![b] = IF q = N THEN Rest(app[b].cmd) ELSE [app[b] EXCEPT !.peer = q]]
    BY <1>7 DEF CopyEntry, NextCopy
  <2> HIDE DEF p, q, e
  <2>6. log' \in [Node -> Seq(Entry)]
    <3>1. Append(log[p], e) \in Seq(Entry)
      BY <2>1, <2>3 DEF TypeOK
    <3>2. QED
      BY <2>4, <3>1 DEF TypeOK
  <2>7. PICK r \in Work : /\ r.step = "copy" => r.peer \in Node \ {r.node}
                          /\ app' = [app EXCEPT ![b] = r]
    <3>1. CASE q = N
      <4>1. Rest(app[b].cmd) \in Work /\ Rest(app[b].cmd).step = "rest"
        BY <2>1, WorkFacts
      <4>2. QED
        BY <2>5, <3>1, <4>1
    <3>2. CASE q # N
      <4> DEFINE r == [app[b] EXCEPT !.peer = q]
      <4>1. r \in Work /\ r.peer = q /\ r.node = app[b].node
        BY <2>1, <2>2 DEF Work
      <4>2. app' = [app EXCEPT ![b] = r]
        BY <2>5, <3>2
      <4> HIDE DEF r
      <4>3. QED
        BY <2>2, <3>2, <4>1, <4>2
    <3>3. QED
      BY <3>1, <3>2
  <2>8. /\ app' \in [Tab -> Work]
        /\ \A c \in Tab : app'[c].step = "copy" => app'[c].peer \in Node \ {app'[c].node}
    BY <1>3, <2>7
  <2>9. QED
    BY <1>7, <2>6, <2>8 DEF CopyEntry, TypeOK
<1>8. CASE UNCHANGED vars
  BY <1>8 DEF vars, TypeOK
<1>9. QED
  BY <1>1, <1>2, <1>4, <1>5, <1>6, <1>7, <1>8 DEF Next, Dashboard

\* Every variable keeps its type, and no loop over peers leaves the peers.
THEOREM TypeCorrect == Spec => []TypeOK
<1>1. QED
  BY InitType, StepType, PTL DEF Spec

-----------------------------------------------------------------------------
(* Elections.                                                              *)

\* The steps that touch no term, role, vote or election.
Quiet(n) ==
  \/ PassCrashCheck(n) \/ ReadLeader(n) \/ ReadTimedOut(n) \/ ReadNotYet(n)
  \/ Lose(n) \/ BeginBeat(n)
  \/ ChooseVictim(n) \/ Recover(n)

QuietAppend ==
  \E b \in Tab : \/ \E n \in Node : SeeLeader(b, n)
                 \/ CheckState(b) \/ CheckAlive(b) \/ StampEntry(b)
                 \/ AppendEntry(b) \/ CopyEntry(b)

LEMMA QuietSteps ==
  ASSUME \/ \E n \in Node : Quiet(n)
         \/ QuietAppend
         \/ UNCHANGED vars
  PROVE  UNCHANGED <<protocolVars, ballot, granted, won, hit>>
BY DEF Quiet, QuietAppend, PassCrashCheck, ReadLeader, ReadTimedOut, ReadNotYet, Lose, BeginBeat,
       ChooseVictim, Recover,
       SeeLeader, CheckState, CheckAlive, StampEntry, AppendEntry, CopyEntry, vars

LEMMA StepCases ==
  ASSUME [Next]_vars
  PROVE  \/ \E n \in Node : \/ StartElection(n) \/ AskRefused(n) \/ AskSameTerm(n)
                            \/ AskLaterTerm(n) \/ Win(n) \/ Announce(n) \/ Heartbeat(n)
                            \/ ForceCrash(n) \/ Quiet(n)
         \/ QuietAppend
         \/ UNCHANGED vars
BY DEF Next, NodeStep, Dashboard, Quiet, QuietAppend

\* What a heartbeat or an announcement does to the terms and roles.
LEMMA FollowFacts ==
  ASSUME TypeOK, NEW n \in Node, Announce(n) \/ Heartbeat(n)
  PROVE  /\ next[n] \in Node \ {n}
         /\ UNCHANGED <<votedFor, ballot, granted, won, crashed, hit>>
         /\ \A m \in Node : /\ currentTerm[m] \in Nat /\ currentTerm'[m] \in Nat
                            /\ currentTerm'[m] >= currentTerm[m]
                            /\ \/ m # next[n] /\ state'[m] = state[m]
                                  /\ currentTerm'[m] = currentTerm[m]
                               \/ m = next[n] /\ state'[m] = "follower"
                               \/ state'[m] = state[m] /\ currentTerm'[m] = currentTerm[m]
<1>1. next[n] \in Node \ {n}
  BY DEF Announce, Heartbeat, TypeOK, Calling
<1>2. PICK t \in Nat : Follow(next[n], t)
  BY DEF Announce, Heartbeat, TypeOK
<1>3. currentTerm \in [Node -> Nat] /\ state \in [Node -> {"follower", "candidate", "leader"}]
  BY DEF TypeOK
<1>4. ASSUME NEW m \in Node
      PROVE  /\ currentTerm[m] \in Nat /\ currentTerm'[m] \in Nat
             /\ currentTerm'[m] >= currentTerm[m]
             /\ \/ m # next[n] /\ state'[m] = state[m] /\ currentTerm'[m] = currentTerm[m]
                \/ m = next[n] /\ state'[m] = "follower"
                \/ state'[m] = state[m] /\ currentTerm'[m] = currentTerm[m]
  BY <1>2, <1>3 DEF Follow
<1>5. UNCHANGED <<votedFor, ballot, granted, won, crashed, hit>>
  BY DEF Announce, Heartbeat
<1>6. QED
  BY <1>1, <1>4, <1>5

\* What a request does to the peer's term, and to everyone else's: nothing.
LEMMA AskFacts ==
  ASSUME TypeOK, NEW n \in Node, AskSameTerm(n) \/ AskLaterTerm(n)
  PROVE  /\ next[n] \in Node \ {n}
         /\ ballot[n] \in Nat /\ currentTerm[next[n]] \in Nat
         /\ ~crashed[next[n]] /\ ballot[n] >= currentTerm[next[n]]
         /\ currentTerm'[next[n]] = ballot[n]
         /\ \A m \in Node : m # next[n] => /\ currentTerm'[m] = currentTerm[m]
                                           /\ votedFor'[m] = votedFor[m]
                                           /\ state'[m] = state[m]
         /\ \/ state'[next[n]] = "follower"
            \/ state' = state /\ currentTerm' = currentTerm
         /\ UNCHANGED <<ballot, won, crashed, hit>>
<1>1. next[n] \in Node \ {n} /\ ballot[n] \in Nat /\ currentTerm[next[n]] \in Nat
  BY DEF AskSameTerm, AskLaterTerm, TypeOK, Calling
<1>2. /\ currentTerm \in [Node -> Nat] /\ state \in [Node -> {"follower", "candidate", "leader"}]
      /\ votedFor \in [Node -> Node \cup {None}]
  BY DEF TypeOK
<1>3. votedFor' = votedFor \/ \E v : votedFor' = [votedFor EXCEPT ![next[n]] = v]
  BY DEF AskSameTerm, AskLaterTerm
<1>4. \A m \in Node : m # next[n] => votedFor'[m] = votedFor[m]
  BY <1>2, <1>3
<1>5. UNCHANGED <<ballot, won, crashed, hit>> /\ ~crashed[next[n]]
  BY DEF AskSameTerm, AskLaterTerm
<1>6. CASE AskSameTerm(n)
  <2>1. state' = state /\ currentTerm' = currentTerm /\ ballot[n] = currentTerm[next[n]]
    BY <1>6 DEF AskSameTerm
  <2>2. QED
    BY <1>1, <1>4, <1>5, <2>1
<1>7. CASE AskLaterTerm(n)
  <2>1. /\ state' = [state EXCEPT ![next[n]] = "follower"]
        /\ currentTerm' = [currentTerm EXCEPT ![next[n]] = ballot[n]]
        /\ ballot[n] > currentTerm[next[n]]
    BY <1>7 DEF AskLaterTerm
  <2>2. QED
    BY <1>1, <1>2, <1>4, <1>5, <2>1
<1>8. QED
  BY <1>6, <1>7

\* A vote granted by a request, if any, is the one vote added.
LEMMA GrantFacts ==
  ASSUME TypeOK, NEW n \in Node, AskSameTerm(n) \/ AskLaterTerm(n)
  PROVE  \/ granted' = granted
         \/ /\ granted' = granted \cup {[term |-> ballot[n], voter |-> next[n], cand |-> n]}
            /\ votedFor'[next[n]] = n
            /\ AskSameTerm(n) => votedFor[next[n]] \in {None, n}
<1>1. next[n] \in Node
  BY DEF AskSameTerm, AskLaterTerm, TypeOK, Calling
<1>2. CASE AskSameTerm(n)
  BY <1>1, <1>2 DEF AskSameTerm, Grants, Grant, TypeOK
<1>3. CASE AskLaterTerm(n) /\ ~AskSameTerm(n)
  BY <1>1, <1>3 DEF AskLaterTerm, Grants, Grant, TypeOK
<1>4. QED
  BY <1>2, <1>3

Binds(g) ==
  \/ currentTerm[g.voter] > g.term
  \/ currentTerm[g.voter] = g.term /\ votedFor[g.voter] = g.cand

LEMMA StepBind ==
  ASSUME TypeOK, VotesBind, [Next]_vars
  PROVE  VotesBind'
<1>1. \A g \in granted : /\ Binds(g) /\ g.term \in Nat /\ g.voter \in Node /\ g.cand \in Node
                         /\ currentTerm[g.voter] \in Nat
  BY DEF VotesBind, Binds, TypeOK
<1> SUFFICES ASSUME NEW g \in granted' PROVE Binds(g)'
  BY DEF VotesBind, Binds
<1>2. ASSUME NEW n \in Node, StartElection(n) PROVE Binds(g)'
  <2>1. /\ currentTerm[n] \in Nat
        /\ \A m \in Node : /\ currentTerm'[m] = IF m = n THEN currentTerm[n] + 1 ELSE currentTerm[m]
                           /\ votedFor'[m] = IF m = n THEN n ELSE votedFor[m]
    BY <1>2 DEF StartElection, TypeOK
  <2>2. CASE g \in granted
    BY <2>1, <2>2, <1>1 DEF Binds
  <2>3. CASE g = [term |-> currentTerm[n] + 1, voter |-> n, cand |-> n]
    BY <2>1, <2>3 DEF Binds
  <2>4. QED
    BY <1>2, <2>2, <2>3 DEF StartElection
<1>3. ASSUME NEW n \in Node, AskSameTerm(n) \/ AskLaterTerm(n) PROVE Binds(g)'
  <2> DEFINE p == next[n]
  <2>1. /\ p \in Node /\ ballot[n] \in Nat /\ currentTerm[p] \in Nat
        /\ ballot[n] >= currentTerm[p] /\ currentTerm'[p] = ballot[n]
        /\ \A m \in Node : m # p => currentTerm'[m] = currentTerm[m] /\ votedFor'[m] = votedFor[m]
    BY <1>3, AskFacts
  <2>2. CASE g \in granted
    <3>1. CASE g.voter # p
      BY <3>1, <2>1, <2>2, <1>1 DEF Binds
    <3>2. CASE g.voter = p /\ ballot[n] > currentTerm[p]
      <4>1. currentTerm[p] >= g.term
        BY <3>2, <2>2, <1>1 DEF Binds
      <4>2. currentTerm'[g.voter] > g.term
        BY <4>1, <3>2, <2>1, <2>2, <1>1
      <4>3. QED
        BY <4>2 DEF Binds
    <3>3. CASE g.voter = p /\ ballot[n] = currentTerm[p]
      <4>1. AskSameTerm(n) /\ ~AskLaterTerm(n)
        BY <1>3, <3>3, <2>1 DEF AskLaterTerm
      <4>2. votedFor[p] # None => votedFor'[p] = votedFor[p]
        BY <4>1, <2>1 DEF AskSameTerm, Grants, TypeOK
      <4>3. g.cand # None
        BY <2>2, <1>1 DEF Node
      <4>4. QED
        BY <4>2, <4>3, <3>3, <2>1, <2>2, <1>1 DEF Binds
    <3>4. QED
      BY <3>1, <3>2, <3>3, <2>1
  <2>3. CASE g \notin granted
    <3>1. /\ g = [term |-> ballot[n], voter |-> p, cand |-> n]
          /\ votedFor'[p] = n
      BY <1>3, <2>3, GrantFacts
    <3>2. QED
      BY <3>1, <2>1 DEF Binds
  <2>4. QED
    BY <2>2, <2>3
<1>4. ASSUME NEW n \in Node, Announce(n) \/ Heartbeat(n) PROVE Binds(g)'
  <2>1. votedFor' = votedFor /\ granted' = granted
    BY <1>4, FollowFacts
  <2>2. /\ currentTerm'[g.voter] \in Nat
        /\ currentTerm'[g.voter] >= currentTerm[g.voter]
    BY <1>4, <1>1, <2>1, FollowFacts
  <2>3. QED
    BY <1>1, <2>1, <2>2 DEF Binds
<1>5. ASSUME NEW n \in Node, AskRefused(n) \/ Win(n) \/ ForceCrash(n) PROVE Binds(g)'
  BY <1>5, <1>1 DEF AskRefused, Win, ForceCrash, Binds
<1>6. ASSUME (\E n \in Node : Quiet(n)) \/ QuietAppend \/ UNCHANGED vars PROVE Binds(g)'
  BY <1>6, <1>1, QuietSteps DEF Binds
<1>7. QED
  BY <1>2, <1>3, <1>4, <1>5, <1>6, StepCases

LEMMA StepOnce ==
  ASSUME TypeOK, VotesBind, VotesOnce, [Next]_vars
  PROVE  VotesOnce'
<1>1. \A g \in granted : /\ Binds(g) /\ g.term \in Nat /\ g.voter \in Node /\ g.cand \in Node
                         /\ currentTerm[g.voter] \in Nat
  BY DEF VotesBind, Binds, TypeOK
<1>2. ASSUME NEW new, granted' = granted \cup {new},
             \A h \in granted : h.term = new.term /\ h.voter = new.voter => h.cand = new.cand
      PROVE  VotesOnce'
  BY <1>2 DEF VotesOnce
<1>3. ASSUME granted' = granted PROVE VotesOnce'
  BY <1>3 DEF VotesOnce
<1>4. ASSUME NEW n \in Node, StartElection(n) PROVE VotesOnce'
  <2> DEFINE new == [term |-> currentTerm[n] + 1, voter |-> n, cand |-> n]
  <2>1. granted' = granted \cup {new}
    BY <1>4 DEF StartElection
  <2>2. ASSUME NEW h \in granted, h.term = new.term, h.voter = new.voter PROVE h.cand = new.cand
    <3>1. h.term = currentTerm[n] + 1 /\ h.voter = n
      BY <2>2
    <3>2. currentTerm[n] >= h.term /\ currentTerm[n] \in Nat
      BY <3>1, <2>2, <1>1 DEF Binds
    <3>3. QED
      BY <3>1, <3>2
  <2>3. QED
    BY <1>2, <2>1, <2>2
<1>5. ASSUME NEW n \in Node, AskSameTerm(n) \/ AskLaterTerm(n) PROVE VotesOnce'
  <2> DEFINE p == next[n]
             new == [term |-> ballot[n], voter |-> p, cand |-> n]
  <2>1. p \in Node /\ ballot[n] \in Nat /\ currentTerm[p] \in Nat
    BY <1>5, AskFacts
  <2>2. CASE granted' = granted
    BY <2>2, <1>3
  <2>3. CASE granted' # granted
    <3>1. granted' = granted \cup {new} /\ (AskSameTerm(n) => votedFor[p] \in {None, n})
      BY <1>5, <2>3, GrantFacts
    <3>2. ASSUME NEW h \in granted, h.term = new.term, h.voter = new.voter
          PROVE  h.cand = new.cand
      <4>1. h.term = ballot[n] /\ h.voter = p
        BY <3>2
      <4>2. currentTerm[p] >= ballot[n]
        BY <4>1, <3>2, <1>1, <2>1 DEF Binds
      <4>3. currentTerm[p] = ballot[n] /\ AskSameTerm(n)
        BY <4>2, <1>5, <2>1 DEF AskSameTerm, AskLaterTerm
      <4>4. votedFor[p] = h.cand /\ h.cand # None
        BY <4>1, <4>3, <3>2, <1>1, <2>1 DEF Binds, Node
      <4>5. QED
        BY <4>3, <4>4, <3>1
    <3>3. QED
      BY <1>2, <3>1, <3>2
  <2>4. QED
    BY <2>2, <2>3
<1>6. ASSUME NEW n \in Node,
             Announce(n) \/ Heartbeat(n) \/ AskRefused(n) \/ Win(n) \/ ForceCrash(n)
      PROVE  VotesOnce'
  BY <1>3, <1>6 DEF Announce, Heartbeat, AskRefused, Win, ForceCrash
<1>7. ASSUME (\E n \in Node : Quiet(n)) \/ QuietAppend \/ UNCHANGED vars PROVE VotesOnce'
  BY <1>3, <1>7, QuietSteps
<1>8. QED
  BY <1>4, <1>5, <1>6, <1>7, StepCases

LEMMA StepElected ==
  ASSUME TypeOK, OfficeHeld, WinnersElected, [Next]_vars
  PROVE  WinnersElected'
<1>1. granted \subseteq granted'
  <2>1. ASSUME NEW n \in Node, AskSameTerm(n) \/ AskLaterTerm(n) PROVE granted \subseteq granted'
    BY <2>1, GrantFacts
  <2>2. ASSUME NEW n \in Node,
               StartElection(n) \/ Announce(n) \/ Heartbeat(n) \/ AskRefused(n) \/ Win(n)
                 \/ ForceCrash(n)
        PROVE  granted \subseteq granted'
    BY <2>2 DEF StartElection, Announce, Heartbeat, AskRefused, Win, ForceCrash
  <2>3. ASSUME (\E n \in Node : Quiet(n)) \/ QuietAppend \/ UNCHANGED vars
        PROVE  granted \subseteq granted'
    BY <2>3, QuietSteps
  <2>4. QED
    BY <2>1, <2>2, <2>3, StepCases
<1>2. ASSUME NEW w \in won
      PROVE  \E Q \in SUBSET Node :
               /\ 2 * Cardinality(Q) > N
               /\ \A m \in Q : [term |-> w.term, voter |-> m, cand |-> w.node] \in granted'
  BY <1>1, <1>2 DEF WinnersElected
<1>3. ASSUME won' = won PROVE WinnersElected'
  BY <1>2, <1>3 DEF WinnersElected
<1>4. ASSUME NEW n \in Node, Win(n) PROVE WinnersElected'
  <2> DEFINE new == [term |-> currentTerm[n], node |-> n]
             Q == Votes(n)
  <2>1. won' = won \cup {new}
    BY <1>4 DEF Win
  <2>2. currentTerm[n] = ballot[n]
    BY <1>4 DEF Win, Elected, OfficeHeld
  <2>3. /\ Q \in SUBSET Node /\ 2 * Cardinality(Q) > N
        /\ \A m \in Q : [term |-> new.term, voter |-> m, cand |-> new.node] \in granted'
    BY <1>1, <1>4, <2>2 DEF Win, Elected, Votes
  <2>4. QED
    BY <1>2, <2>1, <2>3 DEF WinnersElected
<1>5. ASSUME NEW n \in Node,
             \/ StartElection(n) \/ AskRefused(n) \/ AskSameTerm(n) \/ AskLaterTerm(n)
             \/ Announce(n) \/ Heartbeat(n) \/ ForceCrash(n)
      PROVE  won' = won
  BY <1>5 DEF StartElection, AskRefused, AskSameTerm, AskLaterTerm, Announce, Heartbeat, ForceCrash
<1>6. ASSUME (\E n \in Node : Quiet(n)) \/ QuietAppend \/ UNCHANGED vars PROVE won' = won
  BY <1>6, QuietSteps
<1>7. QED
  BY <1>3, <1>4, <1>5, <1>6, StepCases

LEMMA StepOffice ==
  ASSUME TypeOK, OfficeHeld, [Next]_vars
  PROVE  OfficeHeld'
<1> SUFFICES ASSUME NEW m \in Node
             PROVE  /\ state'[m] # "follower" => currentTerm'[m] = ballot'[m]
                    /\ state'[m] = "leader" => [term |-> currentTerm'[m], node |-> m] \in won'
                    /\ pc'[m] \in {"elect", "ask", "count"} => state'[m] # "leader"
                    /\ pc'[m] = "announce" => state'[m] = "leader"
  BY DEF OfficeHeld
<1> DEFINE Goal == /\ state'[m] # "follower" => currentTerm'[m] = ballot'[m]
                   /\ state'[m] = "leader" => [term |-> currentTerm'[m], node |-> m] \in won'
                   /\ pc'[m] \in {"elect", "ask", "count"} => state'[m] # "leader"
                   /\ pc'[m] = "announce" => state'[m] = "leader"
<1>1. /\ state[m] # "follower" => currentTerm[m] = ballot[m]
      /\ state[m] = "leader" => [term |-> currentTerm[m], node |-> m] \in won
      /\ pc[m] \in {"elect", "ask", "count"} => state[m] # "leader"
      /\ pc[m] = "announce" => state[m] = "leader"
  BY DEF OfficeHeld
<1>2. /\ pc \in [Node -> Steps] /\ state \in [Node -> {"follower", "candidate", "leader"}]
      /\ currentTerm \in [Node -> Nat] /\ ballot \in [Node -> Nat]
  BY DEF TypeOK
<1>3. ASSUME NEW n \in Node, StartElection(n) PROVE Goal
  BY <1>1, <1>2, <1>3 DEF StartElection
<1>4. ASSUME NEW n \in Node, AskRefused(n) PROVE Goal
  BY <1>1, <1>2, <1>4 DEF AskRefused
<1>5. ASSUME NEW n \in Node, AskSameTerm(n) \/ AskLaterTerm(n) PROVE Goal
  <2> DEFINE p == next[n]
  <2>1. pc[n] = "ask" /\ pc[p] # "announce" /\ p \in Node \ {n}
        /\ pc' = [pc EXCEPT ![n] = IF PeerAfter(n, p) = N THEN "count" ELSE "ask"]
    BY <1>5, AskFacts DEF AskSameTerm, AskLaterTerm, Unlocked
  <2>2. /\ ballot' = ballot /\ won' = won
        /\ \/ state'[m] = state[m] /\ currentTerm'[m] = currentTerm[m]
           \/ m = p /\ state'[m] = "follower"
    BY <1>5, AskFacts
  <2>3. QED
    BY <1>1, <1>2, <2>1, <2>2
<1>6. ASSUME NEW n \in Node, Win(n) PROVE Goal
  BY <1>1, <1>2, <1>6 DEF Win, Elected
<1>7. ASSUME NEW n \in Node, Announce(n) \/ Heartbeat(n) PROVE Goal
  <2> DEFINE p == next[n]
  <2>1. /\ pc[n] \in {"announce", "send"} /\ pc[p] # "announce" /\ p \in Node \ {n}
        /\ \E to \in {pc[n], "loop"} : pc' = [pc EXCEPT ![n] = to]
    BY <1>7, FollowFacts DEF Announce, Heartbeat, Unlocked
  <2>2. /\ ballot' = ballot /\ won' = won
        /\ \/ state'[m] = state[m] /\ currentTerm'[m] = currentTerm[m]
           \/ m = p /\ state'[m] = "follower"
    BY <1>7, FollowFacts
  <2>3. QED
    BY <1>1, <1>2, <2>1, <2>2
<1>8. ASSUME NEW n \in Node, ForceCrash(n) PROVE Goal
  BY <1>1, <1>2, <1>8 DEF ForceCrash, Unlocked
<1>9. ASSUME NEW n \in Node, Quiet(n) PROVE Goal
  <2>1. state' = state /\ currentTerm' = currentTerm /\ ballot' = ballot /\ won' = won
    BY <1>9, QuietSteps
  <2>2. \/ pc' = pc
        \/ pc[n] = "read" /\ state[n] # "leader" /\ pc' = [pc EXCEPT ![n] = "elect"]
        \/ \E to \in {"read", "beat", "loop", "send"} : pc' = [pc EXCEPT ![n] = to]
    BY <1>9 DEF Quiet, PassCrashCheck, ReadLeader, ReadTimedOut, ReadNotYet, Lose, BeginBeat,
                ChooseVictim, Recover, SeeLeader
  <2>3. QED
    BY <1>1, <1>2, <2>1, <2>2
<1>10. ASSUME QuietAppend \/ UNCHANGED vars PROVE Goal
  <2>1. state' = state /\ currentTerm' = currentTerm /\ ballot' = ballot /\ won' = won
    BY <1>10, QuietSteps
  <2>2. pc' = pc
    BY <1>10 DEF QuietAppend,
       SeeLeader, CheckState, CheckAlive, StampEntry, AppendEntry, CopyEntry, vars
  <2>3. QED
    BY <1>1, <2>1, <2>2
<1>11. QED
  BY <1>3, <1>4, <1>5, <1>6, <1>7, <1>8, <1>9, <1>10, StepCases

\* Terms never go back.
LEMMA TermGrows ==
  ASSUME TypeOK, [Next]_vars, NEW m \in Node
  PROVE  /\ currentTerm[m] \in Nat /\ currentTerm'[m] \in Nat
         /\ currentTerm'[m] >= currentTerm[m]
<1>1. currentTerm \in [Node -> Nat]
  BY DEF TypeOK
<1>2. ASSUME NEW n \in Node, StartElection(n)
      PROVE  currentTerm'[m] \in Nat /\ currentTerm'[m] >= currentTerm[m]
  BY <1>1, <1>2 DEF StartElection
<1>3. ASSUME NEW n \in Node, AskSameTerm(n) \/ AskLaterTerm(n)
      PROVE  currentTerm'[m] \in Nat /\ currentTerm'[m] >= currentTerm[m]
  BY <1>1, <1>3, AskFacts
<1>4. ASSUME NEW n \in Node, Announce(n) \/ Heartbeat(n)
      PROVE  currentTerm'[m] \in Nat /\ currentTerm'[m] >= currentTerm[m]
  BY <1>4, FollowFacts
<1>5. ASSUME NEW n \in Node, AskRefused(n) \/ Win(n) \/ ForceCrash(n)
      PROVE  currentTerm' = currentTerm
  BY <1>5 DEF AskRefused, Win, ForceCrash
<1>6. ASSUME (\E n \in Node : Quiet(n)) \/ QuietAppend \/ UNCHANGED vars
      PROVE  currentTerm' = currentTerm
  BY <1>6, QuietSteps
<1>7. QED
  BY <1>1, <1>2, <1>3, <1>4, <1>5, <1>6, StepCases

LEMMA StepCaughtUp ==
  ASSUME TypeOK, AskedCaughtUp, [Next]_vars
  PROVE  AskedCaughtUp'
<1>1. hit \subseteq hit' /\ \A n \in Node : crashed'[n] => n \in hit'
  <2>1. crashed \in [Node -> BOOLEAN] /\ \A n \in Node : crashed[n] => n \in hit
    BY DEF TypeOK, AskedCaughtUp
  <2>2. ASSUME NEW n \in Node, ForceCrash(n)
        PROVE  hit \subseteq hit' /\ \A k \in Node : crashed'[k] => k \in hit'
    BY <2>1, <2>2 DEF ForceCrash
  <2>3. ASSUME NEW n \in Node, Recover(n)
        PROVE  hit \subseteq hit' /\ \A k \in Node : crashed'[k] => k \in hit'
    BY <2>1, <2>3 DEF Recover
  <2>4. ASSUME ~(\E n \in Node : ForceCrash(n) \/ Recover(n))
        PROVE  crashed' = crashed /\ hit' = hit
    BY <2>4 DEF Next, NodeStep, Dashboard, PassCrashCheck, ReadLeader, ReadTimedOut, ReadNotYet,
       StartElection, AskRefused, AskSameTerm, AskLaterTerm, Win, Lose, Announce, BeginBeat,
       Heartbeat, ChooseVictim,
       SeeLeader, CheckState, CheckAlive, StampEntry, AppendEntry, CopyEntry, vars
  <2>5. QED
    BY <2>1, <2>2, <2>3, <2>4
<1> SUFFICES ASSUME NEW n \in Node, NEW m \in Node \ hit', n # m, Asked(n, m)'
             PROVE  currentTerm'[m] >= ballot'[n]
  BY <1>1 DEF AskedCaughtUp
<1>2. /\ m \in Node \ hit /\ ~crashed[m] /\ ballot[n] \in Nat
      /\ currentTerm[m] \in Nat /\ currentTerm'[m] \in Nat /\ currentTerm'[m] >= currentTerm[m]
      /\ Asked(n, m) => currentTerm[m] >= ballot[n]
  BY <1>1, TermGrows DEF AskedCaughtUp, TypeOK
<1>3. ASSUME ballot'[n] = ballot[n], Asked(n, m) PROVE currentTerm'[m] >= ballot'[n]
  BY <1>2, <1>3
<1>4. pc \in [Node -> Steps] /\ next \in [Node -> 0 .. N] /\ ballot \in [Node -> Nat]
  BY DEF TypeOK
<1>5. CASE StartElection(n)
  <2>1. m >= FirstPeer(n)
    BY FirstPeerFacts
  <2>2. pc'[n] = "ask" /\ next'[n] = FirstPeer(n)
    BY <1>4, <1>5, <1>2 DEF StartElection, FirstPeer, Skip, Node
  <2>3. QED
    BY <2>1, <2>2 DEF Asked
<1>6. CASE AskRefused(n) \/ AskSameTerm(n) \/ AskLaterTerm(n)
  <2> DEFINE p == next[n]
  <2>1. /\ pc[n] = "ask" /\ p \in Node \ {n}
        /\ pc'[n] = (IF PeerAfter(n, p) = N THEN "count" ELSE "ask")
        /\ next'[n] = PeerAfter(n, p) /\ ballot' = ballot
    <3>1. NextPeer(n, "ask", "count") /\ ballot' = ballot
      BY <1>6 DEF AskRefused, AskSameTerm, AskLaterTerm
    <3>2. /\ pc[n] = "ask" /\ next' = [next EXCEPT ![n] = PeerAfter(n, p)]
          /\ pc' = [pc EXCEPT ![n] = IF PeerAfter(n, p) = N THEN "count" ELSE "ask"]
      BY <3>1 DEF NextPeer, Goto
    <3>3. p \in Node \ {n}
      BY <3>2 DEF TypeOK, Calling
    <3>4. pc'[n] = (IF PeerAfter(n, p) = N THEN "count" ELSE "ask")
      BY <1>4, <3>2
    <3>5. next'[n] = PeerAfter(n, p)
      BY <1>4, <3>2
    <3>6. QED
      BY <3>1, <3>2, <3>3, <3>4, <3>5
  <2>2. m < p \/ m = p
    <3>1. m < PeerAfter(n, p)
      BY <2>1, PeerAfterFacts DEF Asked, Node
    <3>2. QED
      BY <3>1, <2>1, PeerAfterFacts
  <2>3. CASE m < p
    <3>1. Asked(n, m)
      BY <2>1, <2>3 DEF Asked, Node
    <3>2. QED
      BY <3>1, <2>1, <1>3
  <2>4. CASE m = p
    <3>1. CASE AskRefused(n)
      BY <3>1, <2>1, <2>4, <1>2 DEF AskRefused
    <3>2. CASE AskSameTerm(n) \/ AskLaterTerm(n)
      BY <3>2, <2>1, <2>4, <1>2, AskFacts
    <3>3. QED
      BY <1>6, <3>1, <3>2
  <2>5. QED
    BY <2>2, <2>3, <2>4
<1>7. ASSUME ~StartElection(n), ~AskRefused(n), ~AskSameTerm(n), ~AskLaterTerm(n)
      PROVE  ballot'[n] = ballot[n] /\ Asked(n, m)
  <2>1. ballot'[n] = ballot[n]
    <3>1. ASSUME NEW k \in Node, StartElection(k) PROVE ballot'[n] = ballot[n]
      BY <1>4, <1>7, <3>1 DEF StartElection
    <3>2. ASSUME ~(\E k \in Node : StartElection(k)) PROVE ballot' = ballot
      BY <3>2 DEF Next, NodeStep, Dashboard, PassCrashCheck, ReadLeader, ReadTimedOut, ReadNotYet,
         AskRefused, AskSameTerm, AskLaterTerm, Win, Lose, Announce, BeginBeat,
         Heartbeat, ChooseVictim, ForceCrash, Recover,
         SeeLeader, CheckState, CheckAlive, StampEntry, AppendEntry, CopyEntry, vars
    <3>3. QED
      BY <3>1, <3>2
  <2>2. pc[n] = "ask" => pc'[n] = "ask" /\ next'[n] = next[n]
    <3>1. ASSUME pc[n] = "ask", NEW k \in Node, NodeStep(k)
          PROVE  pc'[n] = "ask" /\ next'[n] = next[n]
      <4>1. k # n
        BY <1>7, <3>1 DEF NodeStep, PassCrashCheck, ReadLeader, ReadTimedOut, ReadNotYet,
           Win, Lose, Announce, BeginBeat, Heartbeat
      <4>2. /\ \E to : pc' = [pc EXCEPT ![k] = to]
            /\ next' = next \/ \E to : next' = [next EXCEPT ![k] = to]
        BY <3>1 DEF NodeStep, PassCrashCheck, ReadLeader, ReadTimedOut, ReadNotYet,
           StartElection, AskRefused, AskSameTerm, AskLaterTerm, Win, Lose, Announce,
           BeginBeat, Heartbeat
      <4>3. QED
        BY <4>1, <4>2, <3>1, <1>4
    <3>2. ASSUME Dashboard \/ UNCHANGED vars PROVE pc' = pc /\ next' = next
      BY <3>2 DEF Dashboard, ChooseVictim, ForceCrash, Recover,
         SeeLeader, CheckState, CheckAlive, StampEntry, AppendEntry, CopyEntry, vars
    <3>3. QED
      BY <3>1, <3>2 DEF Next
  <2>3. QED
    BY <2>1, <2>2 DEF Asked
<1>8. QED
  BY <1>3, <1>5, <1>6, <1>7

-----------------------------------------------------------------------------
(* The theorems.                                                           *)

LEMMA InitInductive == Init => Inductive
<1> SUFFICES ASSUME Init PROVE Inductive
  OBVIOUS
<1>1. TypeOK
  BY InitType
<1>2. VotesBind /\ VotesOnce /\ WinnersElected
  BY DEF Init, VotesBind, VotesOnce, WinnersElected
<1>3. OfficeHeld
  BY DEF Init, OfficeHeld
<1>4. AskedCaughtUp
  BY DEF Init, AskedCaughtUp
<1>5. QED
  BY <1>1, <1>2, <1>3, <1>4 DEF Inductive

LEMMA StepInductive == Inductive /\ [Next]_vars => Inductive'
  BY StepType, StepBind, StepOnce, StepElected, StepOffice, StepCaughtUp DEF Inductive

\* The inductive invariant holds: every vote binds, every winner was elected,
\* and every node that was up when asked is in the asker's term or a later
\* one, through StartElection, _request_vote, _accept_leader, _receive_heartbeat,
\* crashes and recoveries.
THEOREM Invariance == Spec => []Inductive
<1>1. QED
  BY InitInductive, StepInductive, PTL DEF Spec

LEMMA NodeCount == IsFiniteSet(Node) /\ Cardinality(Node) = N
  BY FS_Interval DEF Node

\* Two winners of one term would have a common voter.
LEMMA OneWinner == Inductive => ElectionSafety
<1> SUFFICES ASSUME Inductive, NEW a \in won, NEW b \in won, a.term = b.term PROVE a = b
  BY DEF ElectionSafety
<1>1. PICK P \in SUBSET Node :
        /\ 2 * Cardinality(P) > N
        /\ \A m \in P : [term |-> a.term, voter |-> m, cand |-> a.node] \in granted
  BY DEF Inductive, WinnersElected
<1>2. PICK Q \in SUBSET Node :
        /\ 2 * Cardinality(Q) > N
        /\ \A m \in Q : [term |-> b.term, voter |-> m, cand |-> b.node] \in granted
  BY DEF Inductive, WinnersElected
<1>3. Cardinality(P) \in Nat /\ Cardinality(Q) \in Nat
  BY NodeCount, FS_Subset, FS_CardinalityType
<1>4. Cardinality(P) + Cardinality(Q) > Cardinality(Node)
  BY <1>1, <1>2, <1>3, NodeCount
<1>5. PICK m \in P : m \in Q
  BY <1>4, NodeCount, FS_MajoritiesIntersect
<1>6. a.node = b.node
  <2>1. /\ [term |-> a.term, voter |-> m, cand |-> a.node] \in granted
        /\ [term |-> a.term, voter |-> m, cand |-> b.node] \in granted
    BY <1>1, <1>2, <1>5
  <2>2. QED
    BY <2>1 DEF Inductive, VotesOnce
<1>7. a \in [term : Nat, node : Node] /\ b \in [term : Nat, node : Node]
  BY DEF Inductive, TypeOK
<1>8. QED
  BY <1>6, <1>7

\* Each of two leaders has asked the other, so their terms are equal.
LEMMA OneLeader == Inductive => SoleLeader
<1> SUFFICES ASSUME Inductive, NEW a \in Node \ hit, NEW b \in Node \ hit, a # b,
                    state[a] = "leader", state[b] = "leader"
             PROVE  FALSE
  BY DEF SoleLeader
<1>1. /\ currentTerm[a] = ballot[a] /\ currentTerm[b] = ballot[b]
      /\ Asked(a, b) /\ Asked(b, a)
  BY DEF Inductive, OfficeHeld, Asked
<1>2. currentTerm[b] >= ballot[a] /\ currentTerm[a] >= ballot[b]
  BY <1>1 DEF Inductive, AskedCaughtUp
<1>3. currentTerm[a] = currentTerm[b]
  BY <1>1, <1>2 DEF Inductive, TypeOK
<1>4. /\ [term |-> currentTerm[a], node |-> a] \in won
      /\ [term |-> currentTerm[b], node |-> b] \in won
  BY DEF Inductive, OfficeHeld
<1>5. [term |-> currentTerm[a], node |-> a] = [term |-> currentTerm[b], node |-> b]
  BY <1>3, <1>4, OneWinner DEF ElectionSafety
<1>6. QED
  BY <1>5

\* A circle of announcers is a set of leaders, each waiting for another.
LEMMA NoCircle == Inductive => NoLockCycleUnhit
<1> SUFFICES ASSUME Inductive, NEW S \in SUBSET (Node \ hit), LockCycle(S)
             PROVE  FALSE
  BY DEF NoLockCycleUnhit
<1>1. PICK a \in S : pc[a] = "announce" /\ next[a] \in S
  BY DEF LockCycle
<1>2. next[a] # a
  BY <1>1 DEF Inductive, TypeOK, Calling
<1>3. pc[next[a]] = "announce"
  BY <1>1 DEF LockCycle
<1>4. state[a] = "leader" /\ state[next[a]] = "leader"
  BY <1>1, <1>3 DEF Inductive, OfficeHeld
<1>5. QED
  BY <1>1, <1>2, <1>4, OneLeader DEF SoleLeader

\* Only the voter's own timeout and a request in a later term write a vote
\* that is already given, and both raise the term.
LEMMA VoteKept ==
  ASSUME TypeOK, [Next]_vars, NEW m \in Node
  PROVE  currentTerm'[m] = currentTerm[m] /\ votedFor[m] # None => votedFor'[m] = votedFor[m]
<1> SUFFICES ASSUME currentTerm'[m] = currentTerm[m], votedFor[m] # None
             PROVE  votedFor'[m] = votedFor[m]
  OBVIOUS
<1>1. currentTerm \in [Node -> Nat] /\ votedFor \in [Node -> Node \cup {None}]
  BY DEF TypeOK
<1>2. ASSUME NEW n \in Node, StartElection(n) PROVE votedFor'[m] = votedFor[m]
  <2>1. /\ currentTerm' = [currentTerm EXCEPT ![n] = currentTerm[n] + 1]
        /\ votedFor' = [votedFor EXCEPT ![n] = n]
    BY <1>2 DEF StartElection
  <2>2. m # n
    BY <1>1, <2>1
  <2>3. QED
    BY <1>1, <2>1, <2>2
<1>3. ASSUME NEW n \in Node, AskSameTerm(n) PROVE votedFor'[m] = votedFor[m]
  <2>1. CASE Grants(n, next[n], votedFor[next[n]])
    <3>1. votedFor' = [votedFor EXCEPT ![next[n]] = n] /\ votedFor[next[n]] \in {None, n}
      BY <1>3, <2>1 DEF AskSameTerm, Grants
    <3>2. QED
      BY <1>1, <3>1
  <2>2. CASE ~Grants(n, next[n], votedFor[next[n]])
    BY <1>3, <2>2 DEF AskSameTerm
  <2>3. QED
    BY <2>1, <2>2
<1>4. ASSUME NEW n \in Node, AskLaterTerm(n) PROVE votedFor'[m] = votedFor[m]
  <2> DEFINE p == next[n]
  <2>1. /\ currentTerm' = [currentTerm EXCEPT ![p] = ballot[n]] /\ ballot[n] > currentTerm[p]
        /\ \E v : votedFor' = [votedFor EXCEPT ![p] = v]
    BY <1>4 DEF AskLaterTerm
  <2>2. ballot[n] \in Nat /\ p \in Node
    BY <1>4 DEF AskLaterTerm, NextPeer, Goto, TypeOK, Calling
  <2>3. m # p
    BY <1>1, <2>1, <2>2
  <2>4. QED
    BY <1>1, <2>1, <2>3
<1>5. ASSUME ~(\E n \in Node : StartElection(n) \/ AskSameTerm(n) \/ AskLaterTerm(n))
      PROVE  votedFor' = votedFor
  BY <1>5 DEF Next, NodeStep, Dashboard, PassCrashCheck, ReadLeader, ReadTimedOut, ReadNotYet,
     AskRefused, Win, Lose, Announce, BeginBeat, Heartbeat, ChooseVictim, ForceCrash, Recover,
     SeeLeader, CheckState, CheckAlive, StampEntry, AppendEntry, CopyEntry, vars, protocolVars
<1>6. QED
  BY <1>2, <1>3, <1>4, <1>5

\* No node loses its term or changes its vote within one: _request_vote,
\* _accept_leader, _receive_heartbeat, force_crash and force_recover.
THEOREM VotesKept == Spec => TermsAndVotesKept
<1>1. TypeOK /\ [Next]_vars =>
        [\A n \in Node :
           /\ currentTerm'[n] >= currentTerm[n]
           /\ currentTerm'[n] = currentTerm[n] /\ votedFor[n] # None
                => votedFor'[n] = votedFor[n]]_vars
  BY TermGrows, VoteKept
<1>2. QED
  BY <1>1, TypeCorrect, PTL DEF Spec, TermsAndVotesKept

\* At most one node ever wins a term, for any number of nodes and crashes.
THEOREM OneWinnerPerTerm == Spec => []ElectionSafety
<1>1. QED
  BY Invariance, OneWinner, PTL

\* Of the nodes that were never crashed at most one leads.
THEOREM OneLeaderUnhit == Spec => []SoleLeader
<1>1. QED
  BY Invariance, OneLeader, PTL

\* _start_election's calls with its own lock held do not deadlock the nodes
\* that were never crashed.
THEOREM NoDeadlockUnhit == Spec => []NoLockCycleUnhit
<1>1. QED
  BY Invariance, NoCircle, PTL
-----------------------------------------------------------------------------
(* The logs: what tabs that append at the same time, and peers that are     *)
(* down, do to the replicas.                                               *)

HIDE DEF protocolVars, threadVars, Goto, NextPeer, BeginPeers

\* Tab b is still to bring its entry to m.
Behind(b, m) == app[b].step = "copy" /\ m # app[b].node /\ m >= app[b].peer

\* Tab b has numbered its command and not yet appended it to any log.
Numbered(b) == app[b].step \in {"stamp", "append"}

\* The latest command of a tab is in no log before its append, and in none that
\* its loop has not come to; while the tab copies, the leader has the entry; a
\* node never crashed lacks nothing but an entry that is still on its way.
TabSafe(b) ==
  /\ \A n \in Node : \A e \in Entries(n) : e.tab = b =>
       /\ e.cmd <= app[b].cmd
       /\ Numbered(b) \/ Behind(b, n) => e.cmd # app[b].cmd
  /\ \A n \in Node : app[b].step = "copy" /\ n = app[b].node => NewEntry(b) \in Entries(n)
  /\ \A n \in Node, m \in Node \ hit : \A e \in Entries(n) : e.tab = b =>
       e \in Entries(m) \/ (Behind(b, m) /\ e = NewEntry(b))

Replicating == TabOrderKept /\ \A b \in Tab : TabSafe(b)

-----------------------------------------------------------------------------
(* Logs.                                                                   *)

LEMMA EntryFacts ==
  ASSUME TypeOK, NEW n \in Node
  PROVE  /\ Len(log[n]) \in Nat
         /\ \A i \in 1 .. Len(log[n]) : log[n][i] \in Entry /\ log[n][i] \in Entries(n)
         /\ \A e \in Entries(n) : e \in Entry /\ e.cmd \in Nat
<1>1. log[n] \in Seq(Entry)
  BY DEF TypeOK
<1>2. Len(log[n]) \in Nat /\ \A i \in 1 .. Len(log[n]) : log[n][i] \in Entry
  BY <1>1, ElementOfSeq
<1>3. QED
  BY <1>2 DEF Entries, Entry

LEMMA TabFacts ==
  ASSUME TypeOK, NEW b \in Tab
  PROVE  /\ app[b] \in Work /\ app[b].cmd \in Nat /\ app[b].term \in Nat
         /\ app[b].node \in Node
         /\ app[b].step = "copy" => app[b].peer \in Node \ {app[b].node}
  BY DEF TypeOK, Work

\* An entry written to one log is there, and nowhere else.
LEMMA Written ==
  ASSUME TypeOK, NEW p \in Node, NEW f \in Entry,
         log' = [log EXCEPT ![p] = Append(log[p], f)]
  PROVE  \A n \in Node : Entries(n)' = IF n = p THEN Entries(n) \cup {f} ELSE Entries(n)
<1> DEFINE L == Len(log[p])
<1>1. log \in [Node -> Seq(Entry)]
  BY DEF TypeOK
<1>2. /\ L \in Nat /\ Len(log'[p]) = L + 1
      /\ \A i \in 1 .. L : log'[p][i] = log[p][i]
      /\ log'[p][L + 1] = f
  BY <1>1, AppendProperties
<1>3. Entries(p)' = {log'[p][i] : i \in 1 .. L + 1}
  BY <1>2 DEF Entries
<1>4. 1 .. L + 1 = (1 .. L) \cup {L + 1}
  BY <1>2
<1>5. Entries(p)' = Entries(p) \cup {f}
  BY <1>2, <1>3, <1>4 DEF Entries
<1>6. \A n \in Node : n # p => log'[n] = log[n]
  BY <1>1
<1>7. QED
  BY <1>5, <1>6 DEF Entries

\* An entry with a command above those of its tab keeps the log in order.
LEMMA WrittenInOrder ==
  ASSUME TypeOK, TabOrderKept, NEW p \in Node, NEW f \in Entry,
         log' = [log EXCEPT ![p] = Append(log[p], f)],
         \A e \in Entries(p) : e.tab = f.tab => e.cmd < f.cmd
  PROVE  TabOrderKept'
<1> DEFINE L == Len(log[p])
<1> SUFFICES ASSUME NEW n \in Node, NEW i \in 1 .. Len(log'[n]), NEW j \in 1 .. Len(log'[n]),
                    i < j, log'[n][i].tab = log'[n][j].tab
             PROVE  log'[n][i].cmd < log'[n][j].cmd
  BY DEF TabOrderKept
<1>1. log \in [Node -> Seq(Entry)]
  BY DEF TypeOK
<1>2. CASE n # p
  BY <1>1, <1>2 DEF TabOrderKept
<1>3. CASE n = p
  <2>1. /\ L \in Nat /\ Len(log'[p]) = L + 1
        /\ \A k \in 1 .. L : log'[p][k] = log[p][k]
        /\ log'[p][L + 1] = f
    BY <1>1, AppendProperties
  <2>2. i \in 1 .. L
    BY <1>3, <2>1
  <2>3. log'[n][i] = log[p][i] /\ log[p][i] \in Entries(p)
    BY <1>3, <2>1, <2>2, EntryFacts
  <2>4. CASE j = L + 1
    BY <1>3, <2>1, <2>3, <2>4
  <2>5. CASE j # L + 1
    <3>1. j \in 1 .. L
      BY <1>3, <2>1, <2>5
    <3>2. QED
      BY <1>3, <2>1, <2>2, <3>1 DEF TabOrderKept
  <2>6. QED
    BY <2>4, <2>5
<1>4. QED
  BY <1>2, <1>3

-----------------------------------------------------------------------------
(* Tabs.                                                                   *)

\* A step that writes no entry, and neither begins nor ends a copy.
LEMMA NothingWritten ==
  ASSUME TypeOK, NEW b \in Tab, TabSafe(b), UNCHANGED log, hit \subseteq hit',
         \/ app'[b] = app[b]
         \/ /\ app[b].step # "copy" /\ app'[b].step # "copy"
            /\ \/ (Numbered(b)' => Numbered(b)) /\ app'[b].cmd = app[b].cmd
               \/ app'[b].cmd = app[b].cmd + 1
  PROVE  TabSafe(b)'
<1>1. \A n \in Node : Entries(n)' = Entries(n)
  BY DEF Entries
<1>2. /\ app[b].cmd \in Nat /\ app[b].node \in Node
      /\ \A n \in Node : \A e \in Entries(n) : e.cmd \in Nat
  BY TabFacts, EntryFacts
<1>3. CASE app'[b] = app[b]
  <2>1. NewEntry(b)' = NewEntry(b) /\ \A m \in Node : Behind(b, m)' = Behind(b, m)
    BY <1>3 DEF Behind, NewEntry
  <2>2. QED
    BY <1>1, <1>2, <1>3, <2>1 DEF TabSafe, Numbered
<1>4. CASE app[b].step # "copy" /\ app'[b].step # "copy" /\ app'[b].cmd = app[b].cmd
           /\ (Numbered(b)' => Numbered(b))
  BY <1>1, <1>2, <1>4 DEF TabSafe, Behind
<1>5. CASE app[b].step # "copy" /\ app'[b].step # "copy" /\ app'[b].cmd = app[b].cmd + 1
  BY <1>1, <1>2, <1>5 DEF TabSafe, Behind
<1>6. QED
  BY <1>3, <1>4, <1>5

\* What another tab writes is nothing to tab b.
LEMMA WrittenByAnother ==
  ASSUME TypeOK, NEW b \in Tab, TabSafe(b), UNCHANGED hit, app'[b] = app[b],
         NEW p \in Node, NEW f \in Entry, f.tab # b,
         log' = [log EXCEPT ![p] = Append(log[p], f)]
  PROVE  TabSafe(b)'
<1>1. \A n \in Node : Entries(n)' = IF n = p THEN Entries(n) \cup {f} ELSE Entries(n)
  BY Written
<1>2. app[b].node \in Node
  BY TabFacts
<1>3. NewEntry(b)' = NewEntry(b) /\ \A m \in Node : Behind(b, m)' = Behind(b, m)
  BY DEF Behind, NewEntry
<1>4. ASSUME NEW n \in Node, NEW e \in Entries(n)', e.tab = b
      PROVE  e \in Entries(n)
  BY <1>1, <1>4
<1>5. \A n \in Node : Entries(n) \subseteq Entries(n)'
  BY <1>1
<1>6. ASSUME NEW n \in Node, NEW e \in Entries(n)', e.tab = b
      PROVE  /\ e.cmd <= app'[b].cmd
             /\ Numbered(b)' \/ Behind(b, n)' => e.cmd # app'[b].cmd
             /\ \A m \in Node \ hit' : e \in Entries(m)' \/ (Behind(b, m)' /\ e = NewEntry(b)')
  BY <1>3, <1>4, <1>5, <1>6 DEF TabSafe, Numbered
<1>7. ASSUME NEW n \in Node, app'[b].step = "copy", n = app'[b].node
      PROVE  NewEntry(b)' \in Entries(n)'
  BY <1>3, <1>5, <1>7 DEF TabSafe
<1>8. QED
  BY <1>6, <1>7 DEF TabSafe

LEMMA StepLooking ==
  ASSUME TypeOK, Replicating, NEW b \in Tab,
         \/ \E n \in Node : SeeLeader(b, n)
         \/ CheckState(b) \/ CheckAlive(b) \/ StampEntry(b)
  PROVE  Replicating'
<1>1. UNCHANGED <<log, hit>> /\ \A c \in Tab \ {b} : app'[c] = app[c]
  BY DEF CheckState, CheckAlive, StampEntry, SeeLeader, TypeOK
<1>2. /\ app[b].step # "copy" /\ app'[b].step # "copy"
      /\ \/ (Numbered(b)' => Numbered(b)) /\ app'[b].cmd = app[b].cmd
         \/ app'[b].cmd = app[b].cmd + 1
  <2>1. app \in [Tab -> Work] /\ app[b] \in Work
    BY DEF TypeOK
  <2>2. ASSUME NEW n \in Node, SeeLeader(b, n)
        PROVE  app[b].step = "rest" /\ app'[b].step = "check" /\ app'[b].cmd = app[b].cmd
    <3>1. app'[b] = [app[b] EXCEPT !.step = "check", !.node = n] /\ app[b].step = "rest"
      BY <2>1, <2>2 DEF SeeLeader
    <3>2. QED
      BY <2>1, <3>1 DEF Work
  <2>3. ASSUME CheckState(b)
        PROVE  /\ app[b].step = "check" /\ app'[b].step \in {"alive", "rest"}
               /\ app'[b].cmd = app[b].cmd
    <3>1. /\ app[b].step = "check"
          /\ \/ app'[b] = [app[b] EXCEPT !.step = "alive"]
             \/ app'[b] = Rest(app[b].cmd)
      BY <2>1, <2>3 DEF CheckState
    <3>2. QED
      BY <2>1, <3>1 DEF Work, Rest
  <2>4. ASSUME CheckAlive(b)
        PROVE  /\ app[b].step = "alive"
               /\ \/ app'[b].step = "stamp" /\ app'[b].cmd = app[b].cmd + 1
                  \/ app'[b].step = "rest" /\ app'[b].cmd = app[b].cmd
    <3>1. /\ app[b].step = "alive"
          /\ \/ app'[b] = [app[b] EXCEPT !.step = "stamp", !.cmd = app[b].cmd + 1]
             \/ app'[b] = Rest(app[b].cmd)
      BY <2>1, <2>4 DEF CheckAlive
    <3>2. ASSUME app'[b] = [app[b] EXCEPT !.step = "stamp", !.cmd = app[b].cmd + 1]
          PROVE  app'[b].step = "stamp" /\ app'[b].cmd = app[b].cmd + 1
      BY <2>1, <3>2 DEF Work
    <3>3. ASSUME app'[b] = Rest(app[b].cmd)
          PROVE  app'[b].step = "rest" /\ app'[b].cmd = app[b].cmd
      BY <3>3 DEF Rest
    <3>4. QED
      BY <3>1, <3>2, <3>3
  <2>5. ASSUME StampEntry(b)
        PROVE  app[b].step = "stamp" /\ app'[b].step = "append" /\ app'[b].cmd = app[b].cmd
    <3>1. /\ app[b].step = "stamp"
          /\ app'[b] = [app[b] EXCEPT !.step = "append", !.term = currentTerm[app[b].node]]
      BY <2>1, <2>5 DEF StampEntry
    <3>2. QED
      BY <2>1, <3>1 DEF Work
  <2>6. QED
    BY <2>2, <2>3, <2>4, <2>5 DEF Numbered
<1>3. \A c \in Tab : TabSafe(c)'
  <2>1. ASSUME NEW c \in Tab \ {b} PROVE TabSafe(c)'
    <3>1. app'[c] = app[c] /\ UNCHANGED log /\ hit \subseteq hit' /\ TabSafe(c)
      BY <1>1 DEF Replicating
    <3>2. QED
      BY <3>1, NothingWritten
  <2>2. TabSafe(b)'
    <3>1. UNCHANGED log /\ hit \subseteq hit' /\ TabSafe(b)
      BY <1>1 DEF Replicating
    <3>2. QED
      BY <1>2, <3>1, NothingWritten
  <2>3. QED
    BY <2>1, <2>2
<1>4. TabOrderKept'
  BY <1>1 DEF Replicating, TabOrderKept
<1>5. QED
  BY <1>3, <1>4 DEF Replicating

LEMMA StepAppend ==
  ASSUME TypeOK, Replicating, NEW b \in Tab, AppendEntry(b)
  PROVE  Replicating'
<1> DEFINE p == app[b].node
           f == NewEntry(b)
<1>1. /\ app \in [Tab -> Work] /\ app[b] \in Work /\ p \in Node
      /\ app[b].cmd \in Nat /\ app[b].term \in Nat /\ app[b].step = "append"
  BY TabFacts DEF AppendEntry, TypeOK
<1>2. /\ log' = [log EXCEPT ![p] = Append(log[p], f)]
      /\ UNCHANGED hit /\ \A c \in Tab \ {b} : app'[c] = app[c]
      /\ app'[b] = IF FirstPeer(p) = N THEN Rest(app[b].cmd)
                   ELSE [app[b] EXCEPT !.step = "copy", !.peer = FirstPeer(p)]
  <2>1. /\ log' = [log EXCEPT ![p] = Append(log[p], f)]
        /\ UNCHANGED hit
        /\ app' = [app EXCEPT ![b] =
             IF FirstPeer(p) = N THEN Rest(app[b].cmd)
             ELSE [app[b] EXCEPT !.step = "copy", !.peer = FirstPeer(p)]]
    BY DEF AppendEntry
  <2>2. QED
    BY <1>1, <2>1
<1>3. f \in Entry /\ f.tab = b /\ f.cmd = app[b].cmd
  BY <1>1 DEF NewEntry, Entry
<1>4. \A n \in Node : \A e \in Entries(n) : e.tab = b => e.cmd \in Nat /\ e.cmd < f.cmd
  BY <1>1, <1>3, EntryFacts DEF Replicating, TabSafe, Numbered
<1>5. \A n \in Node : Entries(n)' = IF n = p THEN Entries(n) \cup {f} ELSE Entries(n)
  BY <1>2, <1>3, <1>1, Written
<1>6. app'[b].cmd = app[b].cmd /\ ~Numbered(b)'
  <2>1. CASE FirstPeer(p) = N
    BY <1>2, <2>1 DEF Rest, Numbered
  <2>2. CASE FirstPeer(p) # N
    BY <1>1, <1>2, <2>2 DEF Work, Numbered
  <2>3. QED
    BY <2>1, <2>2
<1>7. app'[b].step = "copy" => app'[b].node = p /\ f = NewEntry(b)'
  <2>1. CASE FirstPeer(p) = N
    BY <1>2, <2>1 DEF Rest
  <2>2. CASE FirstPeer(p) # N
    <3>1. app'[b].node = p /\ app'[b].term = app[b].term
      BY <1>1, <1>2, <2>2 DEF Work
    <3>2. QED
      BY <1>6, <3>1 DEF NewEntry
  <2>3. QED
    BY <2>1, <2>2
<1>8. \A m \in Node \ {p} : Behind(b, m)'
  <2>1. SUFFICES ASSUME NEW m \in Node \ {p} PROVE Behind(b, m)'
    OBVIOUS
  <2>2. m >= FirstPeer(p) /\ FirstPeer(p) # N
    BY <1>1, FirstPeerFacts DEF Node
  <2>3. app'[b].step = "copy" /\ app'[b].node = p /\ app'[b].peer = FirstPeer(p)
    BY <1>1, <1>2, <2>2 DEF Work
  <2>4. QED
    BY <2>2, <2>3 DEF Behind
<1> HIDE DEF p, f
<1>9. TabSafe(b)'
  <2>1. ASSUME NEW n \in Node, NEW e \in Entries(n)', e.tab = b
        PROVE  e.cmd <= app'[b].cmd /\ (Behind(b, n)' => e.cmd # app'[b].cmd)
    <3>1. CASE e \in Entries(n)
      BY <1>1, <1>3, <1>4, <1>6, <2>1, <3>1
    <3>2. CASE e \notin Entries(n)
      <4>1. e = f /\ n = p
        BY <1>5, <2>1, <3>2
      <4>2. ~Behind(b, n)'
        BY <1>7, <4>1 DEF Behind
      <4>3. QED
        BY <1>1, <1>3, <1>6, <4>1, <4>2
    <3>3. QED
      BY <3>1, <3>2
  <2>2. ASSUME NEW n \in Node, app'[b].step = "copy", n = app'[b].node
        PROVE  NewEntry(b)' \in Entries(n)'
    BY <1>1, <1>5, <1>7, <2>2
  <2>3. ASSUME NEW n \in Node, NEW m \in Node \ hit, NEW e \in Entries(n)', e.tab = b
        PROVE  e \in Entries(m)' \/ (Behind(b, m)' /\ e = NewEntry(b)')
    <3>1. CASE e \in Entries(n)
      <4>1. e \in Entries(m)
        BY <1>1, <2>3, <3>1 DEF Replicating, TabSafe, Behind
      <4>2. QED
        BY <1>5, <4>1
    <3>2. CASE e \notin Entries(n)
      <4>1. e = f
        BY <1>5, <2>3, <3>2
      <4>2. CASE m = p
        BY <1>5, <4>1, <4>2
      <4>3. CASE m # p
        <5>1. Behind(b, m)'
          BY <1>8, <4>3
        <5>2. QED
          BY <1>7, <4>1, <5>1 DEF Behind
      <4>4. QED
        BY <4>2, <4>3
    <3>3. QED
      BY <3>1, <3>2
  <2>4. QED
    BY <1>2, <1>6, <2>1, <2>2, <2>3 DEF TabSafe
<1>10. ASSUME NEW c \in Tab \ {b} PROVE TabSafe(c)'
  BY <1>1, <1>2, <1>3, WrittenByAnother DEF Replicating
<1>11. TabOrderKept'
  BY <1>1, <1>2, <1>3, <1>4, WrittenInOrder DEF Replicating
<1>12. QED
  BY <1>9, <1>10, <1>11 DEF Replicating

\* The tab's loop: every other node is reached already, this one, or behind.
LEMMA NextBehind ==
  ASSUME TypeOK, NEW b \in Tab, app[b].step = "copy", NextCopy(b)
  PROVE  /\ \A c \in Tab \ {b} : app'[c] = app[c]
         /\ app'[b].cmd = app[b].cmd /\ ~Numbered(b)'
         /\ app'[b].step = "copy" => app'[b].node = app[b].node /\ NewEntry(b)' = NewEntry(b)
         /\ \A m \in Node : /\ Behind(b, m)' => Behind(b, m) /\ m # app[b].peer
                            /\ Behind(b, m) /\ m # app[b].peer => Behind(b, m)'
<1> DEFINE p == app[b].peer
           q == PeerAfter(app[b].node, p)
<1>1. /\ app \in [Tab -> Work] /\ app[b] \in Work /\ app[b].node \in Node
      /\ p \in Node \ {app[b].node}
  BY TabFacts DEF TypeOK
<1>2. /\ q \in 0 .. N /\ q > p
      /\ \A m \in Node \ {app[b].node} : m < q => m < p \/ m = p
  <2>1. q > p
    BY <1>1 DEF PeerAfter, Skip, Node
  <2>2. QED
    BY <1>1, <2>1, PeerAfterFacts
<1>3. app' = [app EXCEPT ![b] = IF q = N THEN Rest(app[b].cmd) ELSE [app[b] EXCEPT !.peer = q]]
  BY DEF NextCopy
<1> HIDE DEF p, q
<1>4. \A c \in Tab \ {b} : app'[c] = app[c]
  BY <1>1, <1>3
<1>5. \A m \in Node : Behind(b, m) <=> m # app[b].node /\ m >= p
  BY DEF Behind, p
<1>6. CASE q = N
  <2>1. app'[b].cmd = app[b].cmd /\ app'[b].step = "rest" /\ ~Numbered(b)'
    BY <1>1, <1>3, <1>6 DEF Rest, Numbered
  <2>2. \A m \in Node : ~Behind(b, m)'
    BY <2>1 DEF Behind
  <2>3. \A m \in Node : Behind(b, m) => m = p
    BY <1>1, <1>2, <1>5, <1>6 DEF Node
  <2>4. QED
    BY <1>4, <2>1, <2>2, <2>3 DEF p
<1>7. CASE q # N
  <2>1. app'[b] = [app[b] EXCEPT !.peer = q]
    BY <1>1, <1>3, <1>7
  <2>2. /\ app'[b].cmd = app[b].cmd /\ app'[b].step = "copy" /\ app'[b].term = app[b].term
        /\ app'[b].node = app[b].node /\ app'[b].peer = q /\ ~Numbered(b)'
    BY <1>1, <1>2, <2>1 DEF Work, Numbered
  <2>3. NewEntry(b)' = NewEntry(b)
    BY <2>2 DEF NewEntry
  <2>4. \A m \in Node : Behind(b, m)' <=> m # app[b].node /\ m >= q
    BY <2>2 DEF Behind
  <2>5. ASSUME NEW m \in Node, m # app[b].node PROVE m >= q <=> m >= p /\ m # p
    BY <1>1, <1>2, <2>5 DEF Node
  <2>6. QED
    BY <1>4, <1>5, <2>2, <2>3, <2>4, <2>5 DEF p
<1>8. QED
  BY <1>6, <1>7

LEMMA StepCopy ==
  ASSUME TypeOK, AskedCaughtUp, Replicating, NEW b \in Tab, CopyEntry(b)
  PROVE  Replicating'
<1> DEFINE p == app[b].peer
           f == NewEntry(b)
<1>1. /\ app[b].step = "copy" /\ p \in Node /\ app[b].node \in Node /\ p # app[b].node
      /\ app[b].cmd \in Nat /\ app[b].term \in Nat
      /\ UNCHANGED hit /\ NextCopy(b)
      /\ log' = IF crashed[p] THEN log ELSE [log EXCEPT ![p] = Append(log[p], f)]
  BY TabFacts DEF CopyEntry
<1>2. f \in Entry /\ f.tab = b /\ f.cmd = app[b].cmd
  BY <1>1 DEF NewEntry, Entry
<1>3. /\ \A c \in Tab \ {b} : app'[c] = app[c]
      /\ app'[b].cmd = app[b].cmd /\ ~Numbered(b)'
      /\ app'[b].step = "copy" => app'[b].node = app[b].node /\ NewEntry(b)' = f
      /\ \A m \in Node : /\ Behind(b, m)' => Behind(b, m) /\ m # p
                         /\ Behind(b, m) /\ m # p => Behind(b, m)'
  BY <1>1, NextBehind
<1>4. Behind(b, p)
  BY <1>1 DEF Behind, Node
<1>5. TabSafe(b) /\ \A c \in Tab : TabSafe(c)
  BY DEF Replicating
<1>6. /\ \A n \in Node : \A e \in Entries(n) : e.tab = b =>
           /\ e.cmd \in Nat /\ e.cmd <= f.cmd
           /\ Behind(b, n) => e.cmd < f.cmd
      /\ f \in Entries(app[b].node)
      /\ \A n \in Node, m \in Node \ hit : \A e \in Entries(n) : e.tab = b =>
           e \in Entries(m) \/ (Behind(b, m) /\ e = f)
  <2>1. ASSUME NEW n \in Node, NEW e \in Entries(n), e.tab = b
        PROVE  /\ e.cmd \in Nat /\ e.cmd <= f.cmd
               /\ Behind(b, n) => e.cmd < f.cmd
    <3>1. e.cmd \in Nat
      BY EntryFacts
    <3>2. e.cmd <= app[b].cmd /\ (Behind(b, n) => e.cmd # app[b].cmd)
      BY <1>5, <2>1 DEF TabSafe
    <3>3. QED
      BY <1>1, <1>2, <3>1, <3>2
  <2>2. QED
    BY <1>1, <1>5, <2>1 DEF TabSafe
<1>7. \A m \in Node \ hit : f \in Entries(m) \/ Behind(b, m)
  BY <1>1, <1>2, <1>6
<1>8. crashed[p] => p \in hit
  BY <1>1 DEF AskedCaughtUp
<1> HIDE DEF p, f
<1>9. CASE crashed[p]
  <2>1. UNCHANGED log /\ \A n \in Node : Entries(n)' = Entries(n)
    BY <1>1, <1>9 DEF Entries
  <2>2. ASSUME NEW n \in Node, NEW e \in Entries(n), e.tab = b
        PROVE  /\ e.cmd <= app'[b].cmd
               /\ Behind(b, n)' => e.cmd # app'[b].cmd
               /\ \A m \in Node \ hit : e \in Entries(m) \/ (Behind(b, m)' /\ e = f)
    BY <1>2, <1>3, <1>6, <1>8, <1>9, <2>2
  <2>3. ASSUME NEW m \in Node, Behind(b, m)' PROVE NewEntry(b)' = f
    BY <1>3, <2>3 DEF Behind
  <2>4. TabSafe(b)'
    BY <1>1, <1>3, <1>6, <2>1, <2>2, <2>3 DEF TabSafe
  <2>5. ASSUME NEW c \in Tab \ {b} PROVE TabSafe(c)'
    <3>1. app'[c] = app[c] /\ hit \subseteq hit' /\ TabSafe(c)
      BY <1>1, <1>3, <1>5
    <3>2. QED
      BY <2>1, <3>1, NothingWritten
  <2>6. TabOrderKept'
    BY <2>1 DEF Replicating, TabOrderKept
  <2>7. QED
    BY <2>4, <2>5, <2>6 DEF Replicating
<1>10. CASE ~crashed[p]
  <2>1. log' = [log EXCEPT ![p] = Append(log[p], f)]
    BY <1>1, <1>10
  <2>2. \A n \in Node : Entries(n)' = IF n = p THEN Entries(n) \cup {f} ELSE Entries(n)
    BY <1>1, <1>2, <2>1, Written
  <2>3. ASSUME NEW n \in Node, NEW e \in Entries(n)', e.tab = b
        PROVE  /\ e.cmd <= app'[b].cmd
               /\ Behind(b, n)' => e.cmd # app'[b].cmd
               /\ \A m \in Node \ hit : e \in Entries(m)' \/ (Behind(b, m)' /\ e = f)
    <3>1. CASE e \in Entries(n)
      <4>1. ASSUME NEW m \in Node \ hit PROVE e \in Entries(m)' \/ (Behind(b, m)' /\ e = f)
        BY <1>3, <1>6, <2>2, <2>3, <3>1
      <4>2. e.cmd <= app'[b].cmd /\ (Behind(b, n)' => e.cmd # app'[b].cmd)
        BY <1>2, <1>3, <1>6, <2>3, <3>1, <1>1
      <4>3. QED
        BY <4>1, <4>2
    <3>2. CASE e \notin Entries(n)
      <4>1. e = f /\ n = p
        BY <2>2, <2>3, <3>2
      <4>2. ASSUME NEW m \in Node \ hit PROVE e \in Entries(m)' \/ (Behind(b, m)' /\ e = f)
        BY <1>3, <1>7, <2>2, <4>1
      <4>3. e.cmd <= app'[b].cmd /\ ~Behind(b, n)'
        BY <1>1, <1>2, <1>3, <4>1
      <4>4. QED
        BY <4>2, <4>3
    <3>3. QED
      BY <3>1, <3>2
  <2>4. ASSUME NEW m \in Node, Behind(b, m)' PROVE NewEntry(b)' = f
    BY <1>3, <2>4 DEF Behind
  <2>5. ASSUME NEW n \in Node, app'[b].step = "copy", n = app'[b].node
        PROVE  NewEntry(b)' \in Entries(n)'
    BY <1>3, <1>6, <2>2, <2>5
  <2>6. TabSafe(b)'
    BY <1>1, <1>3, <2>3, <2>4, <2>5 DEF TabSafe
  <2>7. ASSUME NEW c \in Tab \ {b} PROVE TabSafe(c)'
    BY <1>1, <1>2, <1>3, <1>5, <2>1, WrittenByAnother
  <2>8. TabOrderKept'
    <3>1. \A e \in Entries(p) : e.tab = f.tab => e.cmd < f.cmd
      BY <1>1, <1>2, <1>4, <1>6
    <3>2. QED
      BY <1>1, <1>2, <2>1, <3>1, WrittenInOrder DEF Replicating
  <2>9. QED
    BY <2>6, <2>7, <2>8 DEF Replicating
<1>11. QED
  BY <1>9, <1>10

LEMMA StepReplicating ==
  ASSUME TypeOK, AskedCaughtUp, Replicating, [Next]_vars
  PROVE  Replicating'
<1>1. CASE QuietAppend
  <2>1. PICK b \in Tab : \/ \E n \in Node : SeeLeader(b, n)
                         \/ CheckState(b) \/ CheckAlive(b) \/ StampEntry(b)
                         \/ AppendEntry(b) \/ CopyEntry(b)
    BY <1>1 DEF QuietAppend
  <2>2. QED
    BY <2>1, StepLooking, StepAppend, StepCopy
<1>2. CASE ~QuietAppend
  <2>1. UNCHANGED <<log, app>> /\ hit \subseteq hit'
    <3>1. ASSUME NEW n \in Node, NodeStep(n) PROVE UNCHANGED <<log, app, hit>>
      BY <3>1 DEF NodeStep, PassCrashCheck, ReadLeader, ReadTimedOut, ReadNotYet,
         StartElection, AskRefused, AskSameTerm, AskLaterTerm, Win, Lose, Announce,
         BeginBeat, Heartbeat
    <3>2. ASSUME NEW n \in Node, ChooseVictim(n) \/ ForceCrash(n) \/ Recover(n)
          PROVE  UNCHANGED <<log, app>> /\ hit \subseteq hit'
      BY <3>2 DEF ChooseVictim, ForceCrash, Recover
    <3>3. ASSUME UNCHANGED vars PROVE UNCHANGED <<log, app, hit>>
      BY <3>3 DEF vars
    <3>4. QED
      BY <1>2, <3>1, <3>2, <3>3 DEF Next, Dashboard, QuietAppend
  <2>2. \A b \in Tab : TabSafe(b)'
    BY <2>1, NothingWritten DEF Replicating
  <2>3. QED
    BY <2>1, <2>2 DEF Replicating, TabOrderKept
<1>3. QED
  BY <1>1, <1>2

-----------------------------------------------------------------------------
(* The theorem.                                                            *)

LEMMA InitReplicating == Init => Replicating
<1> SUFFICES ASSUME Init PROVE Replicating
  OBVIOUS
<1>1. \A n \in Node : Len(log[n]) = 0 /\ 1 .. Len(log[n]) = {}
  BY DEF Init
<1>2. \A n \in Node : Entries(n) = {}
  BY <1>1 DEF Entries
<1>3. \A b \in Tab : app[b].step = "rest"
  BY DEF Init, Rest
<1>4. QED
  BY <1>1, <1>2, <1>3 DEF Replicating, TabOrderKept, TabSafe

LEMMA SafeTabsAgree == Replicating => ReplicasAgree
  BY DEF Replicating, TabSafe, Behind, ReplicasAgree, NothingMissing

\* Through every crash, recovery and change of leader, and however many tabs
\* append at once, no log takes an entry twice or a tab's entries out of their
\* order, and a node never crashed ends up with every entry that any node has:
\* append_log and _append_entry, which compare nothing.
THEOREM ReplicasHold == Spec => []ReplicasAgree
<1>1. Inductive => TypeOK /\ AskedCaughtUp
  BY DEF Inductive
<1>2. QED
  BY <1>1, InitReplicating, StepReplicating, SafeTabsAgree, Invariance, PTL DEF Spec
=============================================================================
