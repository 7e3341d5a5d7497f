---------------------------- MODULE AbstractPages ----------------------------
(***************************************************************************)
(* What the page allocator of kernel/memory.c promises its callers         *)
(* (spec.md 4.2, 4.3): a caller is handed a run of virtual pages, each     *)
(* backed by its own physical frame, that nobody else holds; it keeps them *)
(* until it gives them back, and giving them back makes pages and frames   *)
(* available again.  Each step is atomic.                                  *)
(***************************************************************************)
CONSTANTS Callers, Pages, Frames

(* owned[c]: the <<page, frame>> pairs caller c holds.                     *)
VARIABLE owned

HeldPages == {m[1] : m \in UNION {owned[c] : c \in Callers}}
HeldFrames == {m[2] : m \in UNION {owned[c] : c \in Callers}}

(* A set of pairs in which no page and no frame appears twice.             *)
OneToOne(S) == \A m, n \in S : m # n => m[1] # n[1] /\ m[2] # n[2]

Init == owned = [c \in Callers |-> {}]

(* A caller with nothing gets pages and frames nobody holds, one frame per *)
(* page.                                                                   *)
Alloc(c) ==
    /\ owned[c] = {}
    /\ owned' \in [Callers -> SUBSET (Pages \X Frames)]
    /\ owned' = [owned EXCEPT ![c] = owned'[c]]
    /\ owned'[c] # {}
    /\ OneToOne(owned'[c])
    /\ \A m \in owned'[c] : m[1] \notin HeldPages /\ m[2] \notin HeldFrames

(* A caller gives back everything it holds.                                *)
Free(c) ==
    /\ owned[c] # {}
    /\ owned' = [owned EXCEPT ![c] = {}]

Next == \E c \in Callers : Free(c) \/ Alloc(c)

Spec == Init /\ [][Next]_owned

=============================================================================
