--------------------------- MODULE VaultContract ---------------------------
(***************************************************************************)
(* What the local vault promises to the windows that share it, without the *)
(* encryption, the snapshots and the retries of the implementation:        *)
(* every accepted persist call takes effect at one instant, on the fields  *)
(* it names and on no other, in the order its window made the calls; a     *)
(* call made under a key that no longer opens the vault is refused whole.  *)
(* VaultStore implements it (see VaultStore!Contract).                     *)
(***************************************************************************)
EXTENDS Naturals, Sequences

CONSTANTS
    Windows,    \* application windows (or browser tabs) of one installation
    Fields,     \* keys of the vault payload
    Values,     \* values a field can hold
    Absent      \* the field is not in the payload

Payloads == [Fields -> Values \union {Absent}]

(* The fields named by one persist call, with the values they must take. *)
Changes == UNION {[S -> Values \union {Absent}] : S \in SUBSET Fields \ {{}}}

Merge(p, ch) == [f \in Fields |-> IF f \in DOMAIN ch THEN ch[f] ELSE p[f]]

VARIABLES
    fields,     \* the payload every window would decrypt now
    epoch,      \* which vault is stored: 0 none, then one number per creation
    calls       \* persist calls made and not yet settled, per window

vars == <<fields, epoch, calls>>

Init ==
    /\ fields = [f \in Fields |-> Absent]
    /\ epoch = 0
    /\ calls = [w \in Windows |-> <<>>]

Found(p) ==
    /\ fields' = p
    /\ epoch' \in Nat
    /\ epoch' > epoch
    /\ UNCHANGED calls

Call(w, ch, k) ==
    /\ calls' = [calls EXCEPT ![w] = Append(@, [key |-> k, changes |-> ch])]
    /\ UNCHANGED <<fields, epoch>>

Apply(w) ==
    /\ calls[w] # <<>>
    /\ Head(calls[w]).key = epoch
    /\ fields' = Merge(fields, Head(calls[w]).changes)
    /\ calls' = [calls EXCEPT ![w] = Tail(@)]
    /\ UNCHANGED epoch

Refuse(w) ==
    /\ calls[w] # <<>>
    /\ Head(calls[w]).key # epoch
    /\ calls' = [calls EXCEPT ![w] = Tail(@)]
    /\ UNCHANGED <<fields, epoch>>

(* The window is closed or reloaded: its pending calls die with it. *)
Abandon(w) ==
    /\ calls' = [calls EXCEPT ![w] = <<>>]
    /\ UNCHANGED <<fields, epoch>>

Next ==
    \/ \E p \in Payloads : Found(p)
    \/ \E w \in Windows :
        \/ \E ch \in Changes, k \in 1..epoch : Call(w, ch, k)
        \/ Apply(w)
        \/ Refuse(w)
        \/ Abandon(w)

Spec == Init /\ [][Next]_vars
=============================================================================
