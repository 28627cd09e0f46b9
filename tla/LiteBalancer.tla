---------------------------- MODULE LiteBalancer ----------------------------
(***************************************************************************)
(* LiteBalancer of src/liteclient/balancer.rs and one program that uses   *)
(* it.  Every method takes &mut self, so the program has at most one call *)
(* in flight: `method` and `pc` are that call's position in its async fn. *)
(* A query is any of the request methods sharing the retry loop of lines  *)
(* 346-366 (get_masterchain_info ... get_transactions); a send is         *)
(* send_message.  The only await that can be pending is the peer call    *)
(* (the RwLocks are uncontended), and there the caller may drop the       *)
(* future.  Peers crash and recover; a down peer answers with an ADNL     *)
(* error, an up peer with a response or a lite-server error.              *)
(*                                                                         *)
(* mc_block_seqno is never written by the code and stays 0.  The HashSet  *)
(* iteration order that breaks ties in build_priority_list is left open.  *)
(***************************************************************************)
EXTENDS Naturals, FiniteSets, Sequences, FiniteSetsExt, Functions, TLC

CONSTANTS
  Peers,          \* peer indices
  MaxReqPerPeer,  \* max_req_per_peer
  MaxRetries,     \* max_retries
  Times,          \* elapsed milliseconds a peer call may take
  TimeoutMs,      \* self.timeout in milliseconds
  Methods,        \* the calls the program makes: "query", "send"
  MaxCalls,       \* bound: calls the program makes
  MaxStartUps,    \* bound: start_up calls
  MaxFaults       \* bound: peer crashes and recoveries

ASSUME MaxRetries \in Nat /\ MaxReqPerPeer \in Nat /\ Methods \subseteq {"query", "send"}

VARIABLES
  up,        \* environment: which peers are reachable
  faults,    \* environment: crashes and recoveries so far
  alive,     \* alive_peers
  archival,  \* archival_peers
  stats,     \* peer_stats: a function on the peers that have an entry
  inited,    \* inited
  handle,    \* checker_handle is Some
  checkers,  \* health-checker tasks running
  startups,  \* start_up calls so far
  calls,     \* calls made so far
  method,    \* "none", "query" or "send": the call in flight
  pc,        \* "idle", "exec", "await", "complete"
  attempt,   \* the retry loop's _attempt
  iter,      \* send_message's outer loop index
  kk,        \* send_message's loop bound k.min(peers.len())
  results,   \* send_message's results
  target,    \* the peer the request went to
  reply,     \* the peer's answer: "ok", "lite" or "adnl"
  elapsed,   \* start.elapsed() of the request
  accepted,  \* history: the peers that accepted the request during this call
  result,    \* what the last call returned
  qlast      \* history: served and result of the latest query call

vars == <<up, faults, alive, archival, stats, inited, handle, checkers, startups,
          calls, method, pc, attempt, iter, kk, results, target, reply, elapsed,
          accepted, result, qlast>>

Errors == {"lite_error", "no_alive_peers", "timeout"}
NoPeer == 0

(***************************************************************************)
(* Peer statistics and selection                                           *)
(***************************************************************************)

\* PeerStats::default
NoStats == [mc_block_seqno |-> 0, avg_response_time_ms |-> 0,
            total_requests |-> 0, current_requests |-> 0]

\* stats.get(p) with the defaults build_priority_list and choose_peer use.
Seqno(p)   == IF p \in DOMAIN stats THEN stats[p].mc_block_seqno ELSE 0
AvgTime(p) == IF p \in DOMAIN stats THEN stats[p].avg_response_time_ms ELSE TimeoutMs
CurReq(p)  == IF p \in DOMAIN stats THEN stats[p].current_requests ELSE 0

\* q sorts strictly before p: seqno descending, then time ascending.
Before(q, p) == Seqno(q) > Seqno(p) \/ (Seqno(q) = Seqno(p) /\ AvgTime(q) < AvgTime(p))

\* The peers of S that can come first in the sorted list.
Foremost(S) == {p \in S : ~\E q \in S : Before(q, p)}

\* choose_peer(false): the first peer with current_requests <= max_req_per_peer,
\* else the first with the least current_requests.  Empty: NoAlivePeers.
ChoosePeer ==
  LET acceptable == {p \in alive : CurReq(p) <= MaxReqPerPeer}
  IN  IF acceptable # {} THEN Foremost(acceptable)
      ELSE IF alive = {} THEN {}
      ELSE Foremost({p \in alive : CurReq(p) = Min({CurReq(q) : q \in alive})})

SE == INSTANCE SequencesExt

\* The mc_block_seqno values of a peer_stats table sq (peer -> seqno), in
\* some order of its keys.
SeqnoList(sq) == LET ks == SE!SetToSeq(DOMAIN sq) IN [i \in 1..Len(ks) |-> sq[ks[i]]]

FindConsensusBlock_Ascending(sq) ==
  IF DOMAIN sq = {} THEN 0
  ELSE LET sorted == SortSeq(SeqnoList(sq), LAMBDA a, b : a < b)
       IN  sorted[(Len(sorted) * 2) \div 3 + 1]

\* find_consensus_block: the seqnos sorted descending, the one at index
\* len * 2 / 3 (0 for an empty table).
FindConsensusBlock(sq) ==
  IF DOMAIN sq = {} THEN 0
  ELSE LET sorted == SortSeq(SeqnoList(sq), LAMBDA a, b : a > b)
       IN  sorted[(Len(sorted) * 2) \div 3 + 1]

CalcNewAverage_NoDivide(old, n, new) == old * n + new

CalcNewAverage(old, n, new) == IF n = 0 THEN new ELSE (old * n + new) \div (n + 1)

\* The entry of p, inserted with the defaults if absent.
Entry(st, p) == IF p \in DOMAIN st THEN st[p] ELSE NoStats

\* execute_request's increment of current_requests.
IncCurrent(st, p) ==
  (p :> [Entry(st, p) EXCEPT !.current_requests = @ + 1]) @@ st

\* update_average_request_time
UpdateAverage(st, p, t) ==
  LET s == Entry(st, p)
  IN  (p :> [s EXCEPT !.avg_response_time_ms = CalcNewAverage(s.avg_response_time_ms,
                                                               s.total_requests, t),
                      !.total_requests = @ + 1]) @@ st

\* complete_request's saturating decrement (only of an existing entry).
DecCurrent(st, p) ==
  IF p \in DOMAIN st
  THEN [st EXCEPT ![p].current_requests = IF @ > 0 THEN @ - 1 ELSE 0]
  ELSE st

\* complete_request(peer_idx, start, success) on stats and alive_peers.
CompleteRequest(p, success) ==
  /\ stats' = UpdateAverage(DecCurrent(stats, p), p, IF success THEN elapsed ELSE TimeoutMs)
  /\ alive' = IF success THEN alive ELSE alive \ {p}

\* send_message's k.
SendRounds(n) == IF n < 12 THEN 4 ELSE n \div 3

SendOutcome_AnyResult(rs) == IF rs # <<>> THEN "ok" ELSE "timeout"

\* send_message's result: the first Ok among results, else Timeout.
SendOutcome(rs) == IF \E i \in DOMAIN rs : rs[i] = "ok" THEN "ok" ELSE "timeout"

QueryOutcome_OkRetries(r) == CASE r = "lite" -> "lite_error" [] OTHER -> "retry"

\* The retry loop's decision after complete_request, for a query.
QueryOutcome(r) == CASE r = "ok" -> "ok" [] r = "lite" -> "lite_error" [] OTHER -> "retry"
(***************************************************************************)
(* The program and the balancer                                            *)
(***************************************************************************)

Init ==
  /\ up = [p \in Peers |-> TRUE] /\ faults = 0
  /\ alive = {} /\ archival = {} /\ stats = <<>>
  /\ inited = FALSE /\ handle = FALSE /\ checkers = 0
  /\ startups = 0 /\ calls = 0
  /\ method = "none" /\ pc = "idle"
  /\ attempt = 0 /\ iter = 0 /\ kk = 0 /\ results = <<>>
  /\ target = NoPeer /\ reply = "none" /\ elapsed = 0
  /\ accepted = {} /\ result = "none"
  /\ qlast = [served |-> FALSE, result |-> "none"]

CallVars == <<method, pc, attempt, iter, kk, results, target, reply, elapsed, accepted, result>>
BalancerVars == <<alive, archival, stats, inited, handle, checkers, startups>>

\* The history of the latest query call follows every step of one.
TrackQuery ==
  IF method = "query" \/ method' = "query"
  THEN qlast' = [served |-> accepted' # {}, result |-> result']
  ELSE UNCHANGED qlast

\* The call returns r.
Return(r) == method' = "none" /\ pc' = "idle" /\ result' = r

\* start_up: every peer is inserted into alive_peers (connect_to_peer
\* returns true), archival_peers is replaced by the peers whose
\* lookup_block answers, a health checker is spawned and its handle
\* stored over any previous one, inited is set.
StartUp ==
  /\ method = "none" /\ startups < MaxStartUps
  /\ alive' = alive \cup Peers
  /\ archival' \in SUBSET {p \in Peers : up[p]}
  /\ checkers' = checkers + 1 /\ handle' = TRUE
  /\ inited' = TRUE /\ startups' = startups + 1
  /\ UNCHANGED <<up, faults, stats, calls>> /\ UNCHANGED CallVars
  /\ TrackQuery

\* close_all: abort the stored checker, clear inited.
CloseAll ==
  /\ method = "none"
  /\ checkers' = IF handle THEN checkers - 1 ELSE checkers
  /\ handle' = FALSE /\ inited' = FALSE
  /\ UNCHANGED <<up, faults, alive, archival, stats, startups, calls>> /\ UNCHANGED CallVars
  /\ TrackQuery

\* The program calls a request method (m = "query") or send_message.
Begin(m) ==
  /\ method = "none" /\ calls < MaxCalls
  /\ method' = m /\ pc' = "exec" /\ calls' = calls + 1
  /\ attempt' = 0 /\ iter' = 0 /\ results' = <<>>
  /\ kk' = IF m = "send" THEN Min({SendRounds(Cardinality(alive)), Cardinality(Peers)}) ELSE 1
  /\ accepted' = {} /\ result' = "none"
  /\ UNCHANGED <<up, faults, target, reply, elapsed>> /\ UNCHANGED BalancerVars
  /\ TrackQuery

\* The retry loop has an attempt left (and send_message a round left).
LoopOpen == attempt < MaxRetries /\ iter < kk

\* execute_request: choose_peer, then current_requests += 1; the peer
\* call is issued and awaited.
Execute ==
  /\ pc = "exec" /\ LoopOpen
  /\ \E p \in ChoosePeer :
       /\ target' = p
       /\ stats' = IncCurrent(stats, p)
  /\ pc' = "await"
  /\ UNCHANGED <<up, faults, alive, archival, inited, handle, checkers, startups, calls>>
  /\ UNCHANGED <<method, attempt, iter, kk, results, reply, elapsed, accepted, result>>
  /\ TrackQuery

\* choose_peer fails and the `?` returns NoAlivePeers from the method.
NoPeers ==
  /\ pc = "exec" /\ LoopOpen
  /\ ChoosePeer = {}
  /\ Return("no_alive_peers")
  /\ UNCHANGED <<up, faults, calls, attempt, iter, kk, results, target, reply, elapsed, accepted>>
  /\ UNCHANGED BalancerVars
  /\ TrackQuery

\* A query's retries are used up: Err(Timeout).
QueryTimeout ==
  /\ method = "query" /\ pc = "exec" /\ attempt >= MaxRetries
  /\ Return("timeout")
  /\ UNCHANGED <<up, faults, calls, attempt, iter, kk, results, target, reply, elapsed, accepted>>
  /\ UNCHANGED BalancerVars
  /\ TrackQuery

\* send_message: the inner loop ends without a break, next round.
SendNextRound ==
  /\ method = "send" /\ pc = "exec" /\ iter < kk /\ attempt >= MaxRetries
  /\ iter' = iter + 1 /\ attempt' = 0
  /\ UNCHANGED <<up, faults, calls, method, pc, kk, results, target, reply, elapsed, accepted, result>>
  /\ UNCHANGED BalancerVars
  /\ TrackQuery

\* send_message: all rounds done, the first Ok or Timeout.
SendFinish ==
  /\ method = "send" /\ pc = "exec" /\ iter >= kk
  /\ Return(SendOutcome(results))
  /\ UNCHANGED <<up, faults, calls, attempt, iter, kk, results, target, reply, elapsed, accepted>>
  /\ UNCHANGED BalancerVars
  /\ TrackQuery

\* The peer call resolves after t ms.
Reply(r, t) ==
  /\ pc = "await"
  /\ r \in IF up[target] THEN {"ok", "lite"} ELSE {"adnl"}
  /\ reply' = r /\ elapsed' = t /\ pc' = "complete"
  /\ accepted' = IF r = "ok" THEN accepted \cup {target} ELSE accepted
  /\ UNCHANGED <<up, faults, calls, method, attempt, iter, kk, results, target, result>>
  /\ UNCHANGED BalancerVars
  /\ TrackQuery

\* The caller drops the future while the peer call is pending.
Cancel ==
  /\ pc = "await"
  /\ Return("cancelled")
  /\ UNCHANGED <<up, faults, calls, attempt, iter, kk, results, target, reply, elapsed, accepted>>
  /\ UNCHANGED BalancerVars
  /\ TrackQuery

\* complete_request, then a query's match on the result.
CompleteQuery ==
  /\ method = "query" /\ pc = "complete"
  /\ CompleteRequest(target, reply = "ok")
  /\ IF QueryOutcome(reply) = "retry"
     THEN /\ attempt' = attempt + 1 /\ pc' = "exec"
          /\ UNCHANGED <<method, result>>
     ELSE /\ Return(QueryOutcome(reply)) /\ UNCHANGED attempt
  /\ UNCHANGED <<up, faults, archival, inited, handle, checkers, startups, calls>>
  /\ UNCHANGED <<iter, kk, results, target, reply, elapsed, accepted>>
  /\ TrackQuery

\* complete_request, then send_message's match: Ok and a lite-server
\* error are pushed to results and break to the next round.
CompleteSend ==
  /\ method = "send" /\ pc = "complete"
  /\ CompleteRequest(target, reply = "ok")
  /\ IF reply = "adnl"
     THEN attempt' = attempt + 1 /\ UNCHANGED <<iter, results>>
     ELSE /\ results' = Append(results, IF reply = "ok" THEN "ok" ELSE "err")
          /\ iter' = iter + 1 /\ attempt' = 0
  /\ pc' = "exec"
  /\ UNCHANGED <<up, faults, archival, inited, handle, checkers, startups, calls>>
  /\ UNCHANGED <<method, kk, target, reply, elapsed, accepted, result>>
  /\ TrackQuery

\* Environment: a peer goes down or comes back.
Crash(p) ==
  /\ faults < MaxFaults /\ up[p]
  /\ up' = [up EXCEPT ![p] = FALSE] /\ faults' = faults + 1
  /\ UNCHANGED <<calls>> /\ UNCHANGED CallVars /\ UNCHANGED BalancerVars
  /\ TrackQuery

Recover(p) ==
  /\ faults < MaxFaults /\ ~up[p]
  /\ up' = [up EXCEPT ![p] = TRUE] /\ faults' = faults + 1
  /\ UNCHANGED <<calls>> /\ UNCHANGED CallVars /\ UNCHANGED BalancerVars
  /\ TrackQuery

BalancerStep ==
  Execute \/ NoPeers \/ QueryTimeout \/ SendNextRound \/ SendFinish \/ CompleteQuery \/ CompleteSend

\* A peer accepted the request during the call.
Served == accepted # {}

Next ==
  \/ StartUp \/ CloseAll
  \/ \E m \in Methods : Begin(m)
  \/ BalancerStep
  \/ \E r \in {"ok", "lite", "adnl"}, t \in Times : Reply(r, t)
  \/ Cancel
  \/ \E p \in Peers : Crash(p) \/ Recover(p)

\* The balancer's code runs whenever its future is polled.  Nothing forces
\* a peer call to resolve: execute_request awaits it without the balancer's
\* timeout (balancer.rs:349).  The caller's calls, drops and the peers'
\* faults are not forced either.
Fairness == WF_vars(BalancerStep)

Spec == Init /\ [][Next]_vars /\ Fairness
(***************************************************************************)
(* Properties                                                              *)
(***************************************************************************)

\* Type invariant: peer stats exist only for known peers, and the average
\* response time stays within the times seen and the timeout.
TypeOK ==
  /\ up \in [Peers -> BOOLEAN] /\ alive \subseteq Peers /\ archival \subseteq Peers
  /\ DOMAIN stats \subseteq Peers
  /\ \A p \in DOMAIN stats :
       /\ stats[p].mc_block_seqno = 0
       /\ stats[p].avg_response_time_ms \in 0..Max(Times \cup {TimeoutMs})
       /\ stats[p].total_requests \in Nat /\ stats[p].current_requests \in Nat
  /\ method \in {"none", "query", "send"} /\ pc \in {"idle", "exec", "await", "complete"}
  /\ (method = "none") <=> (pc = "idle")
  /\ attempt \in 0..MaxRetries /\ iter \in 0..kk
  /\ result \in Errors \cup {"none", "ok", "cancelled"}
  /\ qlast.served \in BOOLEAN /\ accepted \subseteq Peers

\* The abstract promise of a balanced call (module Balancer).
B == INSTANCE Balancer WITH busy <- method = "query", served <- qlast.served,
                            result <- qlast.result

\* The request methods implement the safety part of Balancer: a call
\* returns Ok only after a peer that was up accepted it during the call,
\* and an error only when none did, through every retry, crash, recovery
\* and drop.  Balancer's promise that every call returns is not claimed:
\* the peer call has no timeout (balancer.rs:349), so it may never resolve.
BalancerSpec == B!SafeSpec

\* A call returns Ok only if a peer accepted its request during the call
\* (send_message's `results` and the query loops' early return).
ResultOkOnlyIfServed == result = "ok" => Served

\* current_requests of a peer counts the requests to it that are in
\* flight: execute_request increments it, complete_request decrements it.
CurrentRequestsMatchInFlight ==
  \A p \in Peers : CurReq(p) = IF pc \in {"await", "complete"} /\ target = p THEN 1 ELSE 0

\* An error from a call means no peer accepted its request: send_message
\* ("Return success if any peer succeeded") reports a delivered message
\* as delivered.
ErrorMeansNotDelivered == result \in Errors => ~Served

\* send_message distributes a message to several peers (its comment: "For
\* send_message, distribute to multiple peers"): a later round never sends
\* the message again to a peer that already accepted it.
SendDistributesToPeers ==
  [][(method = "send" /\ pc = "exec" /\ pc' = "await") => target' \notin accepted]_vars

(***************************************************************************)
(* Reference definitions                                                   *)
(***************************************************************************)

\* The highest seqno that more than two thirds of the peers in sq have
\* reached, or 0.
ConsensusReference(sq) ==
  LET reached(v) == Cardinality({p \in DOMAIN sq : sq[p] >= v})
      cands      == {v \in Range(sq) : 3 * reached(v) > 2 * Cardinality(DOMAIN sq)}
  IN  IF cands = {} THEN 0 ELSE Max(cands)

\* Every seqno table of up to five peers with seqnos 0..2.
SeqnoTables == UNION {[S -> 0..2] : S \in SUBSET (1..5)}

\* find_consensus_block agrees with the reference on every table.
SeqnoTablesAgree == \A sq \in SeqnoTables : FindConsensusBlock(sq) = ConsensusReference(sq)

\* The seqno table of the current peer_stats.
LiveSeqnos == [p \in DOMAIN stats |-> stats[p].mc_block_seqno]

\* find_consensus_block (the "consensus-based synchronization checking" of
\* the module doc) returns the highest masterchain seqno that more than
\* two thirds of the peers with statistics have reached: for the balancer's
\* own peer_stats and for every table of up to five peers.
ConsensusBlockIsTwoThirds ==
  /\ SeqnoTablesAgree
  /\ FindConsensusBlock(LiveSeqnos) = ConsensusReference(LiveSeqnos)

\* The balancer reconnects peers (module doc: "Peer health checking and
\* automatic reconnection"): after start_up, no call step returns
\* NoAlivePeers while a peer is reachable.
ReconnectsRecoveredPeers ==
  [][(inited /\ method # "none" /\ method' = "none" /\ result' = "no_alive_peers")
       => \A p \in Peers : ~up[p]]_vars

=============================================================================
