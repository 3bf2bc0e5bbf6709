----------------------------- MODULE WaitSource -----------------------------
(***************************************************************************)
(* Writers of the source and registration of a wait.  A writer allocates   *)
(* its row's sequence number inside its own transaction, under a shared    *)
(* lock: rows become visible in another order than their numbers, or never.*)
(* The watermark is read under the exclusive side of that lock.            *)
(*                                                                         *)
(* A registration reads the watermark before its transaction, then holds   *)
(* the graph lock: it verifies the owner and the source, inserts the wait, *)
(* looks at the source again and commits.  Writers are not kept out.       *)
(***************************************************************************)
EXTENDS WaitState

\* A transaction that changes the source allocates its row.  The source's own
\* row is locked by the one that settles it, and is settled once.
Begin(s, settling) ==
    /\ row[s] = "unused"
    /\ \A r \in Seqs : r < s => row[r] # "unused"
    /\ settling => settles = {}
    /\ row' = [row EXCEPT ![s] = "open"]
    /\ settles' = IF settling THEN settles \cup {s} ELSE settles
    /\ UNCHANGED <<listenerVars, registerVars, waitVars, taskVars, continuationVars, countVars>>

Commit(s) ==
    /\ Open(s)
    /\ row' = [row EXCEPT ![s] = "committed"]
    /\ UNCHANGED <<settles, listenerVars, registerVars, waitVars, taskVars, continuationVars,
                   countVars>>

\* The writer fails or its process dies: row and change are gone, the number
\* is not used again.
Rollback(s) ==
    /\ Open(s)
    /\ row' = [row EXCEPT ![s] = "lost"]
    /\ settles' = settles \ {s}
    /\ UNCHANGED <<listenerVars, registerVars, waitVars, taskVars, continuationVars, countVars>>

----------------------------------------------------------------------------
RegisterMark(t) ==
    /\ reg[t] = "none"
    /\ \E m \in Marks : Watermark(m) /\ since' = [since EXCEPT ![t] = m]
    /\ reg' = [reg EXCEPT ![t] = "marked"]
    /\ UNCHANGED <<sourceVars, listenerVars, graph, waitVars, taskVars, continuationVars, countVars>>

\* The transaction takes the graph lock; a settled source refuses it at once.
RegisterVerify(t) ==
    /\ reg[t] = "marked" /\ graph = Free /\ OwnerLive(t)
    /\ IF Settled THEN /\ reg' = [reg EXCEPT ![t] = "none"]
                       /\ since' = [since EXCEPT ![t] = 0]
                       /\ graph' = graph
                  ELSE /\ reg' = [reg EXCEPT ![t] = "verified"]
                       /\ graph' = t
                       /\ since' = since
    /\ UNCHANGED <<sourceVars, listenerVars, waitVars, taskVars, continuationVars, countVars>>

\* The inserted wait looks at the source again.
RegisterObserve(t) ==
    /\ reg[t] = "verified"
    /\ reg' = [reg EXCEPT ![t] = IF Settled THEN "satisfied" ELSE "unsatisfied"]
    /\ UNCHANGED <<sourceVars, listenerVars, graph, since, waitVars, taskVars, continuationVars,
                   countVars>>

\* The wait becomes visible: resolved and cleared at once, or pending with the
\* task asleep in place or its suspension begun.
RegisterCommit(t) ==
    /\ reg[t] \in {"unsatisfied", "satisfied"}
    /\ graph' = Free
    /\ reg' = [reg EXCEPT ![t] = "done"]
    /\ \E d \in {"in_place", "hibernate"} :
        /\ d = "hibernate" => t \in Hibernators
        /\ decision' = [decision EXCEPT ![t] = d]
        /\ IF reg[t] = "satisfied"
           THEN /\ outcome' = [outcome EXCEPT ![t] = "satisfied"]
                /\ cleared' = cleared \cup {t}
                /\ UNCHANGED <<status, resume>>
           ELSE /\ outcome' = [outcome EXCEPT ![t] = "pending"]
                /\ status' = [status EXCEPT ![t] = "WAITING"]
                /\ resume' = [resume EXCEPT ![t] = IF d = "hibernate" THEN "sleeping" ELSE "none"]
                /\ UNCHANGED cleared
    /\ UNCHANGED <<sourceVars, listenerVars, since, epoch, hold, parkVars, launchVars, proofs,
                   control, procs, countVars>>

\* The registration fails, or its daemon dies, before the commit.
RegisterAbort(t) ==
    /\ reg[t] \in {"marked", "verified", "unsatisfied", "satisfied"}
    /\ Fault
    /\ reg' = [reg EXCEPT ![t] = "none"] /\ since' = [since EXCEPT ![t] = 0]
    /\ graph' = IF graph = t THEN Free ELSE graph
    /\ UNCHANGED <<sourceVars, listenerVars, waitVars, taskVars, continuationVars, paused, repairs>>

Register(t) == RegisterVerify(t) \/ RegisterObserve(t) \/ RegisterCommit(t)
=============================================================================
