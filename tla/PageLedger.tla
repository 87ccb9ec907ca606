----------------------------- MODULE PageLedger -----------------------------
(***************************************************************************)
(* What the KV cache promises its clients, with no tables, no LRU order,   *)
(* no token counts and no policy: which page ids are held, which of those  *)
(* are pinned, and which have ever been issued.                            *)
(***************************************************************************)
CONSTANTS Requests,     \* the clients
          PageIds,      \* ids a page may have
          Owner(_)      \* the client an id belongs to

VARIABLES held, pins, issued

vars == <<held, pins, issued>>

Init == held = {} /\ pins = {} /\ issued = {}

(* One client gets fresh pages; pages nobody pinned may go to make room.   *)
Take(r) ==
    /\ pins \subseteq held'
    /\ \A p \in held' \ held : p \in PageIds \ issued /\ Owner(p) = r
    /\ issued' = issued \cup (held' \ held)
    /\ \/ pins' = pins
       \/ pins' = pins \cup (held' \ held)

(* Pages nobody pinned are taken back under pressure.                      *)
Shed ==
    /\ pins \subseteq held'
    /\ held' \subseteq held
    /\ UNCHANGED <<pins, issued>>

(* A client gives up pages of its own, pinned ones included.               *)
GiveUp(r) ==
    /\ held' \subseteq held
    /\ \A p \in held \ held' : Owner(p) = r
    /\ pins' = pins \cap held'
    /\ UNCHANGED issued

(* Pins of held pages change.                                              *)
Repin ==
    /\ pins' \subseteq held
    /\ UNCHANGED <<held, issued>>

Next ==
    \/ \E r \in Requests : Take(r) \/ GiveUp(r)
    \/ Shed
    \/ Repin

Spec == Init /\ [][Next]_vars

=============================================================================
