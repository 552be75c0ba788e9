------------------------------ MODULE ErrorBus ------------------------------
(***************************************************************************)
(* The global side of the error bus: ErrorManagerReqGlobal                 *)
(* (src/lib/error/error_manager_req_global.cpp).                           *)
(*                                                                         *)
(* A producing module raises and clears an error identity                  *)
(* (type, sub_type, origin); the raise goes out on .../error/raise and the *)
(* clear on .../error/clear.  The two topics are two subscriptions, so     *)
(* on_error_raised and on_error_cleared run on two handler threads, each   *)
(* FIFO for its own topic, and interleave freely.  Each handler makes      *)
(* separate calls on the error database (one mutex per call) and fans out *)
(* to the subscribers after the database calls, outside any lock.          *)
(*                                                                         *)
(* The producer and the transport are not under src/ and are modelled from *)
(* the spec: a producer raises an identity only when it is not active for  *)
(* it and clears it only when it is.  The database keeps a list, so it is *)
(* a count of matching entries per identity.  One global subscriber is     *)
(* registered from the start.                                              *)
(***************************************************************************)
EXTENDS Naturals, Sequences

CONSTANTS
    Ident,      \* error identities (type, sub_type, origin)
    Known,      \* identities whose type the ErrorTypeMap has
    MaxCycles   \* raises one producer may issue for one identity

ASSUME KnownAssumption == Known \subseteq Ident

ASSUME MaxCyclesAssumption == MaxCycles \in Nat \ {0}

VARIABLES
    active,   \* the producer's view: the identity is raised
    raises,   \* raises the producer has issued, per identity
    rq,       \* raise messages queued for the raise handler thread
    cq,       \* clear messages queued for the clear handler thread
    rpc,      \* where on_error_raised is for this identity
    cpc,      \* where on_error_cleared is for this identity
    db,       \* entries of the error database matching the identity
    seen      \* the callbacks the subscriber received, in order

vars == <<active, raises, rq, cq, rpc, cpc, db, seen>>

Init ==
    /\ active = [e \in Ident |-> FALSE]
    /\ raises = [e \in Ident |-> 0]
    /\ rq = [e \in Ident |-> 0]
    /\ cq = [e \in Ident |-> 0]
    /\ rpc = [e \in Ident |-> "idle"]
    /\ cpc = [e \in Ident |-> "idle"]
    /\ db = [e \in Ident |-> 0]
    /\ seen = [e \in Ident |-> << >>]

-----------------------------------------------------------------------------
(* The producer and the transport (spec 4.5 and the wire protocol).        *)

\* raise(error) on the producing side publishes on .../error/raise.
ProducerRaise(e) ==
    /\ ~active[e]
    /\ raises[e] < MaxCycles
    /\ active' = [active EXCEPT ![e] = TRUE]
    /\ raises' = [raises EXCEPT ![e] = @ + 1]
    /\ rq' = [rq EXCEPT ![e] = @ + 1]
    /\ UNCHANGED <<cq, rpc, cpc, db, seen>>

\* clear(error) on the producing side publishes on .../error/clear.
ProducerClear(e) ==
    /\ active[e]
    /\ active' = [active EXCEPT ![e] = FALSE]
    /\ cq' = [cq EXCEPT ![e] = @ + 1]
    /\ UNCHANGED <<raises, rq, rpc, cpc, db, seen>>

-----------------------------------------------------------------------------
(* on_error_raised.                                                        *)

\* A variant that adds the error without looking for an active one.
RaiseBeginNoDedup(e) ==
    /\ rpc[e] = "idle"
    /\ rq[e] > 0
    /\ rq' = [rq EXCEPT ![e] = @ - 1]
    /\ rpc' = [rpc EXCEPT ![e] = IF e \in Known THEN "checked" ELSE "idle"]
    /\ UNCHANGED <<active, raises, cq, cpc, db, seen>>

(* The handler takes the next raise; an unknown type is dropped, and so is *)
(* an identity the database already holds (get_errors is not empty).      *)
RaiseBegin(e) ==
    /\ rpc[e] = "idle"
    /\ rq[e] > 0
    /\ rq' = [rq EXCEPT ![e] = @ - 1]
    /\ rpc' = [rpc EXCEPT ![e] = IF e \in Known /\ db[e] = 0 THEN "checked" ELSE "idle"]
    /\ UNCHANGED <<active, raises, cq, cpc, db, seen>>

\* database->add_error.
RaiseAdd(e) ==
    /\ rpc[e] = "checked"
    /\ db' = [db EXCEPT ![e] = @ + 1]
    /\ rpc' = [rpc EXCEPT ![e] = "added"]
    /\ UNCHANGED <<active, raises, rq, cq, cpc, seen>>

\* The second get_errors: unless exactly one entry matches, nothing is fanned out.
RaiseRecheck(e) ==
    /\ rpc[e] = "added"
    /\ rpc' = [rpc EXCEPT ![e] = IF db[e] = 1 THEN "notify" ELSE "idle"]
    /\ UNCHANGED <<active, raises, rq, cq, cpc, db, seen>>

\* The loop over subscriptions calls sub.callback(error).
RaiseNotify(e) ==
    /\ rpc[e] = "notify"
    /\ seen' = [seen EXCEPT ![e] = Append(@, "raise")]
    /\ rpc' = [rpc EXCEPT ![e] = "idle"]
    /\ UNCHANGED <<active, raises, rq, cq, cpc, db>>

-----------------------------------------------------------------------------
(* on_error_cleared.                                                       *)

\* A variant that takes a clear from an empty queue.
ClearBeginUnguarded(e) ==
    /\ cpc[e] = "idle"
    /\ cq' = [cq EXCEPT ![e] = @ - 1]
    /\ cpc' = [cpc EXCEPT ![e] = IF e \in Known /\ db[e] > 0 THEN "checked" ELSE "idle"]
    /\ UNCHANGED <<active, raises, rq, rpc, db, seen>>

(* The handler takes the next clear; an unknown type is dropped, and so is *)
(* an identity the database does not hold ("is not raised").              *)
ClearBegin(e) ==
    /\ cpc[e] = "idle"
    /\ cq[e] > 0
    /\ cq' = [cq EXCEPT ![e] = @ - 1]
    /\ cpc' = [cpc EXCEPT ![e] = IF e \in Known /\ db[e] > 0 THEN "checked" ELSE "idle"]
    /\ UNCHANGED <<active, raises, rq, rpc, db, seen>>

(* database->remove_errors removes every matching entry; unless exactly    *)
(* one was removed, nothing is fanned out.                                 *)
ClearRemove(e) ==
    /\ cpc[e] = "checked"
    /\ db' = [db EXCEPT ![e] = 0]
    /\ cpc' = [cpc EXCEPT ![e] = IF db[e] = 1 THEN "notify" ELSE "idle"]
    /\ UNCHANGED <<active, raises, rq, cq, rpc, seen>>

\* The loop over subscriptions calls sub.clear_callback(error).
ClearNotify(e) ==
    /\ cpc[e] = "notify"
    /\ seen' = [seen EXCEPT ![e] = Append(@, "clear")]
    /\ cpc' = [cpc EXCEPT ![e] = "idle"]
    /\ UNCHANGED <<active, raises, rq, cq, rpc, db>>

-----------------------------------------------------------------------------
RaiseHandler(e) == RaiseBegin(e) \/ RaiseAdd(e) \/ RaiseRecheck(e) \/ RaiseNotify(e)

ClearHandler(e) == ClearBegin(e) \/ ClearRemove(e) \/ ClearNotify(e)

Next ==
    \E e \in Ident :
        \/ ProducerRaise(e) \/ ProducerClear(e)
        \/ RaiseHandler(e) \/ ClearHandler(e)

(* Both handler threads run whenever they have work; producers promise     *)
(* nothing.                                                                *)
Fairness == \A e \in Ident : WF_vars(RaiseHandler(e)) /\ WF_vars(ClearHandler(e))

Spec == Init /\ [][Next]_vars

FairSpec == Spec /\ Fairness

-----------------------------------------------------------------------------
(* Properties.                                                             *)

TypeOK ==
    /\ active \in [Ident -> BOOLEAN]
    /\ raises \in [Ident -> 0..MaxCycles]
    /\ rq \in [Ident -> Nat]
    /\ cq \in [Ident -> Nat]
    /\ rpc \in [Ident -> {"idle", "checked", "added", "notify"}]
    /\ cpc \in [Ident -> {"idle", "checked", "notify"}]
    /\ db \in [Ident -> Nat]
    /\ seen \in [Ident -> Seq({"raise", "clear"})]

(* Spec 3: a raised identity appears at most once among the active errors, *)
(* although on_error_raised checks get_errors and calls add_error in two    *)
(* separate database calls while clears are handled on another thread.     *)
ActiveAtMostOnce == \A e \in Ident : db[e] <= 1

(* The inductive form of ActiveAtMostOnce: while on_error_raised is       *)
(* between its get_errors check and add_error, the identity has no entry,  *)
(* because the clear thread only ever removes entries.                     *)
DedupInv ==
    /\ TypeOK
    /\ ActiveAtMostOnce
    /\ \A e \in Ident : rpc[e] = "checked" => db[e] = 0

\* No message is queued and both handler threads are idle.
Quiet ==
    \A e \in Ident :
        rq[e] = 0 /\ cq[e] = 0 /\ rpc[e] = "idle" /\ cpc[e] = "idle"

(* Spec 8: for every identity, the subscriber receives a prefix of         *)
(* (raise, clear)+, although the raise and the clear handler fan out from   *)
(* two threads.                                                            *)
SubscriberSeesAlternation ==
    \A e \in Ident : \A k \in 1..Len(seen[e]) :
        seen[e][k] = IF k % 2 = 1 THEN "raise" ELSE "clear"

(* Spec 3: active errors are created on raise and destroyed on clear: once *)
(* every message is handled, the database holds exactly the identities of  *)
(* a known type that their producer has raised and not cleared.           *)
QuietAgreement ==
    Quiet => \A e \in Known : (db[e] > 0) = active[e]

=============================================================================
