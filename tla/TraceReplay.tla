----------------------------- MODULE TraceReplay -----------------------------
(* The trace replay and admission kernel: one thread that, step by step, puts *)
(* arrivals into a ring, admits from it into free slots and serves the slots. *)
(* The trace, the capacity of the ring and the horizon are the launcher's.    *)
EXTENDS Integers, Sequences

CONSTANT Traces    \* records [n, draftLen]

ASSUME TracesAssumption == Traces \subseteq [n : Nat \ {0}, draftLen : Nat]

VARIABLES
    trace,        \* the arguments
    turn,         \* "arrive", "offer", "admit", "serve" within a step, "ended"
    step,         \* the trace step
    scan,         \* the counter of the loop over requests, or over slots
    ring,         \* the entries of the DeviceQueue, its head and its tail
    active,       \* active_request_ids and active_remaining_steps by slot
    status,       \* the states of the requests
    admitted,     \* admission_order
    completed     \* completion_order

traceVars == <<trace, turn, step, scan, ring, active, status, admitted, completed>>

Requests     == 0 .. trace.n - 1
Arrival(r)   == r \div 2
Service(r)   == 1 + (r % 3)
Horizon      == trace.n + 8
NoRequest    == -1

(* Mutant: the ring has room for the requests and no spare cell.            *)
RingCapacityExact(t) == t.n
RingCapacity(t) == t.n + 1

MaxActive(t) ==
    LET wanted == IF t.draftLen > 0 THEN t.draftLen ELSE 2
    IN  IF wanted > t.n THEN t.n ELSE wanted
Slots == 0 .. MaxActive(trace) - 1

-----------------------------------------------------------------------------
(* queue_desc.h                                                             *)
Succ(q, k)  == (k + 1) % Len(q.entries)
IsEmpty(q)  == q.head = q.tail
IsFull(q)   == Succ(q, q.tail) = q.head
Push(q, x)  == [q EXCEPT !.entries[q.tail + 1] = x, !.tail = Succ(q, q.tail)]
Oldest(q)   == q.entries[q.head + 1]
Pop(q)      == [q EXCEPT !.head = Succ(q, q.head)]
Depth(q)    == (q.tail - q.head + Len(q.entries)) % Len(q.entries)

(* What is queued, first come first.                                        *)
Queued(q) == [i \in 1 .. Depth(q) |-> q.entries[((q.head + i - 1) % Len(q.entries)) + 1]]

-----------------------------------------------------------------------------
TraceInit(t) ==
    /\ trace = t
    /\ turn = "arrive"
    /\ step = 0
    /\ scan = 0
    /\ ring = [entries |-> [i \in 1 .. RingCapacity(t) |-> NoRequest], head |-> 0, tail |-> 0]
    /\ active = [s \in 0 .. MaxActive(t) - 1 |-> [request |-> NoRequest, left |-> 0]]
    /\ status = [r \in 0 .. t.n - 1 |-> "EMPTY"]
    /\ admitted = <<>>
    /\ completed = <<>>

(* A step begins, or the loop ends.                                         *)
Arrive ==
    /\ turn = "arrive"
    /\ turn' = IF step < Horizon /\ Len(completed) < trace.n THEN "offer" ELSE "ended"
    /\ UNCHANGED <<trace, step, scan, ring, active, status, admitted, completed>>

(* A request of the trace whose time has come is queued; it is lost if the   *)
(* ring is full.                                                            *)
Offer ==
    /\ turn = "offer" /\ scan < trace.n
    /\ IF Arrival(scan) = step /\ ~IsFull(ring)
       THEN ring' = Push(ring, scan) /\ status' = [status EXCEPT ![scan] = "PREFILL_READY"]
       ELSE UNCHANGED <<ring, status>>
    /\ scan' = scan + 1
    /\ UNCHANGED <<trace, turn, step, active, admitted, completed>>

ArrivalsOver ==
    /\ turn = "offer" /\ scan = trace.n
    /\ turn' = "admit"
    /\ UNCHANGED <<trace, step, scan, ring, active, status, admitted, completed>>

Free == {s \in Slots : active[s].request = NoRequest}

(* The request at the front takes the first free slot.                      *)
Admit ==
    /\ turn = "admit"
    /\ Free # {} /\ ~IsEmpty(ring)
    /\ LET r == Oldest(ring)
           s == CHOOSE x \in Free : \A y \in Free : x <= y
       IN  /\ active' = [active EXCEPT ![s] = [request |-> r, left |-> Service(r)]]
           /\ status' = [status EXCEPT ![r] = "DECODE_READY"]
           /\ admitted' = Append(admitted, r)
    /\ ring' = Pop(ring)
    /\ UNCHANGED <<trace, turn, step, scan, completed>>

AdmissionOver ==
    /\ turn = "admit"
    /\ Free = {} \/ IsEmpty(ring)
    /\ turn' = "serve"
    /\ scan' = 0
    /\ UNCHANGED <<trace, step, ring, active, status, admitted, completed>>

SkipIdle ==
    /\ turn = "serve" /\ scan \in Free
    /\ scan' = scan + 1
    /\ UNCHANGED <<trace, turn, step, ring, active, status, admitted, completed>>

(* Mutant: an idle slot is counted down like the others.                    *)
ServeIdle ==
    /\ turn = "serve" /\ scan \in Slots
    /\ active[scan].left # 1
    /\ active' = [active EXCEPT ![scan].left = @ - 1]
    /\ scan' = scan + 1
    /\ UNCHANGED <<trace, turn, step, ring, status, admitted, completed>>

(* An active request is served one quantum, and goes on.                    *)
Serve ==
    /\ turn = "serve" /\ scan \in Slots \ Free
    /\ active[scan].left > 1
    /\ active' = [active EXCEPT ![scan].left = @ - 1]
    /\ scan' = scan + 1
    /\ UNCHANGED <<trace, turn, step, ring, status, admitted, completed>>

(* It was the last one: the request is complete and the slot free.          *)
Complete ==
    /\ turn = "serve" /\ scan \in Slots \ Free
    /\ active[scan].left <= 1
    /\ status' = [status EXCEPT ![active[scan].request] = "COMPLETE"]
    /\ completed' = Append(completed, active[scan].request)
    /\ active' = [active EXCEPT ![scan] = [request |-> NoRequest, left |-> 0]]
    /\ scan' = scan + 1
    /\ UNCHANGED <<trace, turn, step, ring, admitted>>

ServiceOver ==
    /\ turn = "serve" /\ scan = MaxActive(trace)
    /\ turn' = "arrive"
    /\ step' = step + 1
    /\ scan' = 0
    /\ UNCHANGED <<trace, ring, active, status, admitted, completed>>

TraceNext ==
    \/ Arrive \/ Offer \/ ArrivalsOver
    \/ Admit \/ AdmissionOver
    \/ SkipIdle \/ Serve \/ Complete \/ ServiceOver
=============================================================================
