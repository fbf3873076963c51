----------------------------- MODULE AtomicDoc -----------------------------
(***************************************************************************)
(* What every user of state.json expects of it: a document of independent  *)
(* settings in which a command or a request changes its own settings, in   *)
(* one step, and nothing else ever changes.                                *)
(***************************************************************************)
CONSTANTS Key,      \* the settings held in state.json
          Val,      \* their values
          DefVal    \* the value state.Default() gives a setting

VARIABLE doc        \* the document on disk

Init == doc = [k \in Key |-> DefVal]

\* One command changes the settings ks it is about; all others keep their value.
Change(ks, v) == doc' = [k \in Key |-> IF k \in ks THEN v ELSE doc[k]]

Next == \E ks \in SUBSET Key, v \in Val : Change(ks, v)

Spec == Init /\ [][Next]_doc
=============================================================================
