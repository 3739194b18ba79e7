------------------------------ MODULE WorkPool ------------------------------
(***************************************************************************)
(* What the distributed fleet promises about its work, whatever shards,    *)
(* stealing, rate limits and blocks do underneath: a URL is waiting, in    *)
(* the hands of one worker, or finished; a worker takes a waiting URL,     *)
(* and either gives it back or finishes it.                                *)
(***************************************************************************)
CONSTANTS Worker, Url, None

VARIABLES pending,   \* URLs waiting to be taken
          held,      \* the URL each worker holds, or None
          done       \* URLs that have been scraped

vars == <<pending, held, done>>

Init ==
  /\ pending = Url
  /\ held = [w \in Worker |-> None]
  /\ done = {}

Take(w, u) ==
  /\ held[w] = None
  /\ u \in pending
  /\ pending' = pending \ {u}
  /\ held' = [held EXCEPT ![w] = u]
  /\ UNCHANGED done

GiveBack(w) ==
  /\ held[w] # None
  /\ pending' = pending \cup {held[w]}
  /\ held' = [held EXCEPT ![w] = None]
  /\ UNCHANGED done

Finish(w) ==
  /\ held[w] # None
  /\ done' = done \cup {held[w]}
  /\ held' = [held EXCEPT ![w] = None]
  /\ UNCHANGED pending

Next ==
  \E w \in Worker :
    \/ \E u \in Url : Take(w, u)
    \/ GiveBack(w)
    \/ Finish(w)

Spec == Init /\ [][Next]_vars
=============================================================================
