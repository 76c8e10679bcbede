----------------------------- MODULE ProgressFile -----------------------------
(***************************************************************************)
(* What the progress file of src/src/main.rs promises to whoever polls it: *)
(* there is no file, or one whole document, and while renaming works every *)
(* change replaces the document by one that tells of no earlier progress.  *)
(* ProgressSidecar is shown to keep this promise.                          *)
(***************************************************************************)
EXTENDS Naturals

VARIABLES
  contents,    \* what a reader sees: is there a file, is it whole, and the rank
               \* of the progress its document tells
  mayVanish    \* renaming may fail, and the file be removed for a second try

vars == <<contents, mayVanish>>

Nothing == [there |-> FALSE, whole |-> TRUE, rank |-> 0]

Init == contents = Nothing /\ mayVanish \in BOOLEAN

Replace ==
  /\ contents'.there
  /\ contents'.whole
  /\ contents'.rank >= contents.rank
  /\ UNCHANGED mayVanish

Vanish ==
  /\ mayVanish
  /\ contents' = Nothing
  /\ UNCHANGED mayVanish

Next == Replace \/ Vanish

Spec == Init /\ [][Next]_vars
=============================================================================
