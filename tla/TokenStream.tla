---------------------------- MODULE TokenStream ----------------------------
(***************************************************************************)
(* What the decode runtime promises the callers of submit and run, without *)
(* queues, workers, blocks or a KV cache: the output of a request grows to *)
(* the length serial decoding gives it, and is delivered whole, once.      *)
(***************************************************************************)
EXTENDS Naturals

CONSTANTS Requests,
          FinalLength(_)    \* tokens serial decoding of a request produces

VARIABLES
    out,        \* tokens committed for each request
    delivered   \* requests whose result a call of run has returned

vars == <<out, delivered>>

Init ==
    /\ out = [r \in Requests |-> 0]
    /\ delivered = {}

(* A block of one request's tokens is committed.                           *)
Emit(r) ==
    /\ r \notin delivered
    /\ \E n \in (out[r] + 1)..FinalLength(r) : out' = [out EXCEPT ![r] = n]
    /\ UNCHANGED delivered

(* A call of run returns the results of some complete requests.            *)
Deliver ==
    /\ delivered \subseteq delivered'
    /\ \A r \in delivered' \ delivered :
          r \in Requests /\ out[r] = FinalLength(r)
    /\ UNCHANGED out

Next == Deliver \/ \E r \in Requests : Emit(r)

Spec == Init /\ [][Next]_vars

=============================================================================
