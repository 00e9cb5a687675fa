--------------------------- MODULE VersionedEdits ---------------------------
(***************************************************************************)
(* What the offline queue and the sync endpoint promise together, without  *)
(* tabs, requests, retries or answers: an edit takes effect at most once,  *)
(* and only on the version of the file its author saw.  Module OfflineSync *)
(* implements it.                                                          *)
(***************************************************************************)
CONSTANTS Files,
          Actions,  \* edits; the version a rename makes has its name
          Initial,  \* the version of a file never renamed
          Gone      \* in place of the version of a deleted file

VARIABLES version,  \* per file
          intent,   \* per edit made so far, what it asks
          done      \* edits that took effect

vars == <<version, intent, done>>

Init ==
  /\ version = [f \in Files |-> Initial]
  /\ intent = [a \in {} |-> Initial]
  /\ done = {}

\* An edit is made once, of a version that its file has or had.
Make(a, f, type, base) ==
  /\ a \notin DOMAIN intent
  /\ base \in {Initial} \union {b \in done : intent[b].file = f}
  /\ intent' = [b \in DOMAIN intent \union {a} |->
                  IF b = a THEN [file |-> f, type |-> type, base |-> base] ELSE intent[b]]
  /\ UNCHANGED <<version, done>>

TakeEffect(a) ==
  /\ a \in DOMAIN intent \ done
  /\ version[intent[a].file] = intent[a].base
  /\ version' = [version EXCEPT ![intent[a].file] =
                  IF intent[a].type = "rename" THEN a ELSE Gone]
  /\ done' = done \union {a}
  /\ UNCHANGED intent

\* The file is deleted by other means.
Vanish(f) ==
  /\ version' = [version EXCEPT ![f] = Gone]
  /\ UNCHANGED <<intent, done>>

Next ==
  \/ \E a \in Actions, f \in Files, type \in {"rename", "delete"}, base \in Actions \union {Initial} :
        Make(a, f, type, base)
  \/ \E a \in Actions : TakeEffect(a)
  \/ \E f \in Files : Vanish(f)

Spec == Init /\ [][Next]_vars
=============================================================================
