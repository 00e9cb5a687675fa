------------------------ MODULE PublicUploads_proofs ------------------------
(***************************************************************************)
(* Theorems about PublicUploads, for any files, any number of batches and  *)
(* any link.                                                               *)
(***************************************************************************)
EXTENDS PublicUploads, FiniteSetTheorems, TLAPS

\* The types of the server's and of the page's variables.
Links == [kind : {"drop", "request"}, limit : 0..MaxLimit, seal : BOOLEAN,
          open : BOOLEAN, count : 0..Cardinality(Items)]
Runs == [at : {"unused", "next", "sent", "ended"}, todo : SUBSET Items,
         item : Items \union {NoItem}, won : BOOLEAN]
ServerType ==
  /\ link \in Links /\ server \in [Items -> Stages] /\ answer \in [Items -> Answers]
  /\ blob \subseteq Items /\ row \subseteq Items /\ key \subseteq Items /\ overlap \in BOOLEAN
PageType ==
  /\ queue \subseteq Items /\ waiting \subseteq Items /\ gathering \subseteq SUBSET Items
  /\ page \in [at : {"loading", "form", "error", "left"}, uploading : BOOLEAN,
               delivered : BOOLEAN, checking : BOOLEAN]
  /\ outcome \in [Items -> Outcomes] /\ loop \in [Loops -> Runs] /\ merged \in BOOLEAN

\* Nothing of an item is stored.
Untouched(i) == i \notin blob \union row \union key

\* What the stage and the answer of a handler say of what is stored.
Known(i) ==
  /\ server[i] \in {"none", "sent", "admitted"} => Untouched(i)
  /\ server[i] = "saved" => i \in blob /\ i \notin row \union key
  /\ server[i] = "filed" => i \in blob \intersect row /\ i \notin key
  /\ server[i] \in {"stored", "counted"} => i \in key
  /\ server[i] = "done" /\ answer[i] = "receipt" => i \in blob \intersect row /\ (Drop => i \in key)
  /\ server[i] = "done" /\ answer[i] = "throttled" => Untouched(i)
  /\ i \in key => i \in blob \intersect row
HandlersKnow == \A i \in Items : Known(i)

\* Nothing of an item is stored, and no POST of it can store it.
Unsent(i) == server[i] \in {"none", "done"} /\ Untouched(i)
InFlight(i) == \E l \in Loops : loop[l].at = "sent" /\ loop[l].item = i

\* Success is told of a receipt, and an error of an upload that stored nothing.
Told(i) ==
  /\ outcome[i] = "success" => server[i] = "done" /\ answer[i] = "receipt"
  /\ outcome[i] = "error" => InFlight(i) \/ Unsent(i)
OutcomesTold == \A i \in Items : Told(i)

\* A run holds the item it has sent and those it has still to send.
Holds(l) == loop[l].todo \union ({loop[l].item} \ {NoItem})
RunShape(l) ==
  /\ loop[l].at = "sent" <=> loop[l].item # NoItem
  /\ loop[l].at \in {"unused", "ended"} => loop[l].todo = {}
  /\ loop[l].item \notin loop[l].todo
  /\ \A i \in loop[l].todo : Unsent(i)
  /\ Holds(l) \intersect queue \subseteq waiting
  /\ loop[l].at # "unused" => queue # {}
RunsShaped == \A l \in Loops : RunShape(l)

\* No item is held twice, by runs of handleUpload or by folders being read.
HeldOnce ==
  /\ \A l, k \in Loops : l # k => Holds(l) \intersect Holds(k) = {}
  /\ \A S, T \in gathering : S # T => S \intersect T = {}
  /\ \A S \in gathering :
       /\ S # {} /\ S \intersect queue = {}
       /\ \A i \in S : server[i] = "none"
       /\ \A l \in Loops : S \intersect Holds(l) = {}

\* While batches come one after the other, what is held and told is of the one
\* shown, and what is claimed delivered was accepted.
OneBatch ==
  ~merged =>
    /\ \A l, k \in Busy : l = k
    /\ \A l \in Loops : Holds(l) \subseteq queue
    /\ \A i \in Items : outcome[i] # "none" => i \in queue
    /\ page.delivered => Busy = {} /\ queue # {} /\ \A i \in queue : outcome[i] = "success"

\* The uploads a Secure Drop link has counted, or failed to count.
Counted == {i \in key : server[i] # "stored"}

\* The count never exceeds them, and while uploads come one after the other it is
\* them, and the terms hold of it.
InTurn ==
  /\ link.count = Cardinality(Counted)
  /\ \A i, j \in Working : i = j
  /\ link.limit > 0 => /\ link.count <= link.limit
                       /\ \A i \in Working : server[i] # "counted" => link.count < link.limit
  /\ link.seal => /\ \A i, j \in key : i = j
                  /\ \A i \in Working : key \subseteq {i}
                  /\ link.open /\ Working = {} => key = {}
TermsCounted ==
  /\ Request => link.limit = 0 /\ ~link.seal /\ link.count = 0
  /\ Drop => link.count <= Cardinality(Counted)
  /\ Drop /\ ~overlap => InTurn

\* The inductive invariant.
IInv ==
  /\ ServerType /\ PageType /\ HandlersKnow /\ OutcomesTold /\ RunsShaped /\ HeldOnce /\ OneBatch
  /\ TermsCounted

\* What a step of the handler of an item leaves as it was.
Touches(i) ==
  /\ server[i] \notin {"none", "done"} /\ server'[i] # "none"
  /\ \A j \in Items \ {i} : /\ server'[j] = server[j] /\ answer'[j] = answer[j]
                            /\ j \in blob' <=> j \in blob
                            /\ j \in row' <=> j \in row
                            /\ j \in key' <=> j \in key
  /\ link'.kind = link.kind
  /\ UNCHANGED pageVars

-----------------------------------------------------------------------------
(* The shape of the state, and sizes of sets. *)

\* The types of the two halves are the type invariant.
LEMMA TypesSplit == TypeOK <=> ServerType /\ PageType
BY DEF TypeOK, ServerType, PageType, Links, Runs

\* A finite set counted is the items of its elements.
LEMMA CountedSize ==
  ASSUME ServerType
  PROVE  /\ IsFiniteSet(Counted) /\ Cardinality(Counted) \in Nat
         /\ Cardinality(Counted) <= Cardinality(Items)
         /\ Cardinality(Items) \in Nat
<1>1. Counted \subseteq Items  BY DEF ServerType, Counted
<1>2. IsFiniteSet(Items)  BY UploadsAssumption
<1> QED  BY <1>1, <1>2, FS_Subset, FS_CardinalityType

-----------------------------------------------------------------------------
(* Steps of the handlers.                                                  *)

\* A step of one handler disturbs nothing the page knows: what the page holds or
\* has been told of is not of a POST being handled.
LEMMA HandlerKeeps ==
  ASSUME IInv, NEW i \in Items, Touches(i), ServerType', Known(i)', TermsCounted'
  PROVE  IInv'
<1> USE DEF IInv
<1>1. PageType'  BY DEF Touches, PageType, pageVars
<1>2. \A j \in Items \ {i} : Known(j)'
  BY DEF HandlersKnow, Known, Untouched, Touches, Drop
<1>3. HandlersKnow'  BY <1>2 DEF HandlersKnow
<1>4. \A j \in Items : InFlight(j)' <=> InFlight(j)  BY DEF InFlight, Touches, pageVars
<1>5. \A j \in Items : Unsent(j) => j # i /\ Unsent(j)'  BY DEF Unsent, Untouched, Touches
<1>6. OutcomesTold'
  <2>1. ASSUME NEW j \in Items, outcome[j] = "success" PROVE server'[j] = "done" /\ answer'[j] = "receipt"
    <3>1. server[j] = "done" /\ answer[j] = "receipt"  BY <2>1 DEF OutcomesTold, Told
    <3> QED  BY <3>1 DEF Touches
  <2>2. ASSUME NEW j \in Items, outcome[j] = "error" PROVE (InFlight(j) \/ Unsent(j))'
    BY <2>2, <1>4, <1>5 DEF OutcomesTold, Told
  <2>3. outcome' = outcome  BY DEF Touches, pageVars
  <2> QED  BY <2>1, <2>2, <2>3 DEF OutcomesTold, Told
<1>7. RunsShaped'
  <2>1. loop' = loop /\ queue' = queue /\ waiting' = waiting  BY DEF Touches, pageVars
  <2>2. \A l \in Loops : loop[l].todo \subseteq Items  BY DEF PageType, Runs
  <2>3. \A l \in Loops : Holds(l)' = Holds(l)  BY <2>1 DEF Holds
  <2>4. ASSUME NEW l \in Loops PROVE RunShape(l)'
    <3>1. RunShape(l)  BY DEF RunsShaped
    <3> QED  BY <3>1, <2>1, <2>2, <2>3, <1>5 DEF RunShape
  <2> QED  BY <2>4 DEF RunsShaped
<1>8. HeldOnce'
  <2>1. loop' = loop /\ queue' = queue /\ gathering' = gathering  BY DEF Touches, pageVars
  <2>2. \A l \in Loops : Holds(l)' = Holds(l)  BY <2>1 DEF Holds
  <2>3. \A S \in gathering : \A j \in S : j \in Items /\ server'[j] = "none"
    BY DEF HeldOnce, PageType, Touches
  <2> QED  BY <2>1, <2>2, <2>3 DEF HeldOnce
<1>9. OneBatch'
  <2>1. \A l \in Loops : Holds(l)' = Holds(l)  BY DEF Holds, Touches, pageVars
  <2> QED  BY <2>1 DEF OneBatch, Busy, Touches, pageVars
<1> QED  BY <1>1, <1>3, <1>6, <1>7, <1>8, <1>9

\* The terms, after a step that changes neither the link nor the keys and by which
\* no upload is counted, or admitted.
LEMMA StageKeepsTerms ==
  ASSUME IInv, NEW i \in Items, Touches(i), UNCHANGED <<link, key, overlap>>,
         server[i] # "stored", server'[i] # "stored",
         i \in Working' => i \in Working /\ server[i] # "counted",
         server[i] = "counted" => ~link.seal \/ ~link.open
  PROVE  TermsCounted'
<1> USE DEF IInv
<1>1. key \subseteq Items  BY DEF ServerType
<1>2. Counted' = Counted  BY <1>1 DEF Counted, Touches
<1>3. \A j \in Items \ {i} : j \in Working' <=> j \in Working  BY DEF Working, Touches
<1>4. Working' \subseteq Working  BY <1>3 DEF Working
<1>5. ASSUME Drop, ~overlap PROVE InTurn'
  <2>1. InTurn  BY <1>5 DEF TermsCounted
  <2>2. \A j \in Working' : j \in Working /\ (server'[j] # "counted" => server[j] # "counted")
    BY <1>3, <1>4 DEF Touches, Working
  <2>3. link.seal => (link.open /\ Working' = {} => key = {})
    <3>1. CASE i \in Working
      <4>1. Working \subseteq {i}  BY <2>1, <3>1 DEF InTurn
      <4>2. server[i] # "counted" => i \notin key
        BY <3>1 DEF HandlersKnow, Known, Untouched, Working
      <4>3. link.seal => key \subseteq {i}  BY <2>1, <3>1 DEF InTurn
      <4> QED  BY <4>2, <4>3
    <3>2. CASE i \notin Working
      <4>1. Working' = Working  BY <1>3, <1>4, <3>2  DEF Working
      <4> QED  BY <4>1, <2>1 DEF InTurn
    <3> QED  BY <3>1, <3>2
  <2> QED  BY <1>2, <1>4, <2>1, <2>2, <2>3 DEF InTurn
<1> QED  BY <1>2, <1>5 DEF TermsCounted, Drop, Request

\* A request has no limit, no seal and no count.
LEMMA RequestKeepsTerms ==
  ASSUME IInv, Request, UNCHANGED link
  PROVE  TermsCounted'
BY DEF IInv, TermsCounted, Request, Drop

\* A throttled POST stores nothing, and says so.
LEMMA ThrottleDropKeeps ==
  ASSUME IInv, NEW i \in Items, ThrottleDrop(i) PROVE IInv'
<1> USE DEF IInv
<1>1. ServerType'  BY DEF ThrottleDrop, ServerType, Stages, Answers
<1>2. server'[i] = "done" /\ answer'[i] = "throttled"  BY DEF ThrottleDrop, ServerType
<1>3. Touches(i)  BY <1>2 DEF ThrottleDrop, ServerType, Touches
<1>4. Known(i)'  BY <1>2 DEF ThrottleDrop, HandlersKnow, Known, Untouched, Drop
<1>5. TermsCounted'  BY <1>2, <1>3, StageKeepsTerms DEF ThrottleDrop, Working
<1> QED  BY <1>1, <1>3, <1>4, <1>5, HandlerKeeps

\* A POST that a closed or a full link refuses stores nothing.
LEMMA RefuseDropKeeps ==
  ASSUME IInv, NEW i \in Items, RefuseDrop(i) PROVE IInv'
<1> USE DEF IInv
<1>1. ServerType'  BY DEF RefuseDrop, ServerType, Stages, Answers
<1>2. server'[i] = "done" /\ answer'[i] = "refused"  BY DEF RefuseDrop, ServerType
<1>3. Touches(i)  BY <1>2 DEF RefuseDrop, ServerType, Touches
<1>4. Known(i)'  BY <1>2 DEF RefuseDrop, HandlersKnow, Known, Untouched, Drop
<1>5. TermsCounted'  BY <1>2, <1>3, StageKeepsTerms DEF RefuseDrop, Working
<1> QED  BY <1>1, <1>3, <1>4, <1>5, HandlerKeeps

\* An upload is admitted below the limit and, on a sealing link, before any other.
LEMMA AdmitDropKeeps ==
  ASSUME IInv, NEW i \in Items, AdmitDrop(i) PROVE IInv'
<1> USE DEF IInv
<1>1. ServerType'  BY DEF AdmitDrop, ServerType, Stages
<1>2. server'[i] = "admitted" /\ server[i] = "sent"  BY DEF AdmitDrop, ServerType
<1>3. Touches(i)  BY <1>2 DEF AdmitDrop, ServerType, Touches
<1>4. Known(i)'  BY <1>2 DEF AdmitDrop, HandlersKnow, Known, Untouched, Drop
<1>5. Counted' = Counted  BY <1>2, <1>3 DEF AdmitDrop, Counted, Touches, ServerType
<1>6. ASSUME ~overlap' PROVE InTurn'
  <2>1. Working = {} /\ ~overlap /\ InTurn  BY <1>6 DEF AdmitDrop, TermsCounted
  <2>2. Working' = {i}  BY <1>2, <1>3, <2>1 DEF Working, Touches
  <2>3. link.limit > 0 => link.count < link.limit  BY DEF AdmitDrop, AtLimit, ServerType, Links
  <2>4. link.seal => key = {}  BY <2>1 DEF InTurn, AdmitDrop
  <2> QED  BY <1>2, <1>5, <2>1, <2>2, <2>3, <2>4 DEF InTurn, AdmitDrop
<1>7. TermsCounted'  BY <1>5, <1>6 DEF TermsCounted, AdmitDrop, Drop, Request
<1> QED  BY <1>1, <1>3, <1>4, <1>7, HandlerKeeps

\* The bytes are there before the row, and the row before the key.
LEMMA SaveDropKeeps ==
  ASSUME IInv, NEW i \in Items, SaveDrop(i) PROVE IInv'
<1> USE DEF IInv
<1>1. ServerType'  BY DEF SaveDrop, ServerType, Stages, Answers
<1>2. server[i] = "admitted"  BY DEF SaveDrop
<1>3. \/ server'[i] = "saved" /\ blob' = blob \union {i}
      \/ server'[i] = "done" /\ answer'[i] \in {"empty", "failed"} /\ blob' = blob
  BY DEF SaveDrop, ServerType
<1>4. Touches(i)  BY <1>2, <1>3 DEF SaveDrop, ServerType, Touches
<1>5. Known(i)'  BY <1>2, <1>3 DEF SaveDrop, HandlersKnow, Known, Untouched, Drop
<1>6. TermsCounted'  BY <1>2, <1>3, <1>4, StageKeepsTerms DEF SaveDrop, Working
<1> QED  BY <1>1, <1>4, <1>5, <1>6, HandlerKeeps

\* The row is made over the bytes, which go when it cannot be.
LEMMA FileDropKeeps ==
  ASSUME IInv, NEW i \in Items, FileDrop(i) PROVE IInv'
<1> USE DEF IInv
<1>1. ServerType'  BY DEF FileDrop, ServerType, Stages, Answers
<1>2. server[i] = "saved"  BY DEF FileDrop
<1>3. \/ server'[i] = "filed" /\ row' = row \union {i} /\ blob' = blob
      \/ server'[i] = "done" /\ answer'[i] = "empty" /\ row' = row /\ blob' = blob \ {i}
  BY DEF FileDrop, ServerType
<1>4. Touches(i)  BY <1>2, <1>3 DEF FileDrop, ServerType, Touches
<1>5. Known(i)'  BY <1>2, <1>3 DEF FileDrop, HandlersKnow, Known, Untouched, Drop
<1>6. TermsCounted'  BY <1>2, <1>3, <1>4, StageKeepsTerms DEF FileDrop, Working
<1> QED  BY <1>1, <1>4, <1>5, <1>6, HandlerKeeps

\* A key is made over bytes and a row, and is the one upload not yet counted.
LEMMA KeyDropKeeps ==
  ASSUME IInv, NEW i \in Items, KeyDrop(i) PROVE IInv'
<1> USE DEF IInv
<1>1. ServerType'  BY DEF KeyDrop, ServerType, Stages, Answers
<1>2. server[i] = "filed" /\ i \notin key  BY DEF KeyDrop, HandlersKnow, Known
<1>3. \/ server'[i] = "stored" /\ key' = key \union {i} /\ blob' = blob /\ row' = row
      \/ server'[i] = "done" /\ answer'[i] = "empty" /\ key' = key /\ blob' = blob \ {i}
         /\ row' \in {row, row \ {i}}
  BY DEF KeyDrop, ServerType
<1>4. Touches(i)
  <2>1. CASE key' = key \union {i} /\ blob' = blob /\ row' = row
    BY <1>2, <1>3, <2>1 DEF KeyDrop, ServerType, Touches
  <2>2. CASE key' = key /\ blob' = blob \ {i} /\ row' \in {row, row \ {i}}
    BY <1>2, <1>3, <2>2 DEF KeyDrop, ServerType, Touches
  <2> QED  BY <1>3, <2>1, <2>2
<1>5. Known(i)'  BY <1>2, <1>3 DEF KeyDrop, HandlersKnow, Known, Untouched, Drop
<1>6. CASE server'[i] = "done" /\ key' = key
  <2>1. TermsCounted'  BY <1>2, <1>4, <1>6, StageKeepsTerms DEF KeyDrop, Working
  <2> QED  BY <1>1, <1>4, <1>5, <2>1, HandlerKeeps
<1>7. CASE server'[i] = "stored" /\ key' = key \union {i}
  <2>1. Counted' = Counted  BY <1>2, <1>4, <1>7 DEF Counted, Touches, ServerType
  <2>2. Working' = Working /\ i \in Working  BY <1>2, <1>4, <1>7 DEF Working, Touches
  <2>3. \A j \in Working' : server'[j] # "counted" => server[j] # "counted"
    BY <1>2, <1>4 DEF Working, Touches
  <2>4. ASSUME ~overlap PROVE InTurn'
    <3>1. InTurn  BY <2>4 DEF KeyDrop, TermsCounted
    <3>2. link.seal => key = {}  BY <1>2, <2>2, <3>1 DEF InTurn
    <3>3. Working = {i}  BY <2>2, <3>1 DEF InTurn
    <3>4. link.seal => key' = {i}  BY <3>2, <1>7
    <3> QED  BY <2>1, <2>2, <2>3, <3>1, <3>3, <3>4 DEF InTurn, KeyDrop
  <2>5. TermsCounted'  BY <2>1, <2>4 DEF TermsCounted, KeyDrop, Drop, Request
  <2> QED  BY <1>1, <1>4, <1>5, <2>5, HandlerKeeps
<1> QED  BY <1>3, <1>6, <1>7

\* The count takes in the one upload that was not counted.
LEMMA CountDropKeeps ==
  ASSUME IInv, NEW i \in Items, CountDrop(i) PROVE IInv'
<1> USE DEF IInv
<1>1. server[i] = "stored" /\ server'[i] = "counted" /\ i \in key
  BY DEF CountDrop, ServerType, HandlersKnow, Known
<1>2. \/ link' = [link EXCEPT !.count = @ + 1] /\ overlap' = overlap
      \/ link' = link /\ overlap'
  BY DEF CountDrop
<1>3. link'.kind = link.kind /\ link'.limit = link.limit /\ link'.seal = link.seal /\ link'.open = link.open
  BY <1>2 DEF ServerType, Links
<1>4. \/ link'.count = link.count + 1 /\ overlap' = overlap
      \/ link'.count = link.count /\ overlap'
  BY <1>2 DEF ServerType, Links
<1>5. Touches(i)  BY <1>1, <1>3 DEF CountDrop, ServerType, Touches
<1>6. Counted' = Counted \union {i} /\ i \notin Counted
  BY <1>1, <1>5 DEF Counted, CountDrop, Touches, ServerType
<1>7. Cardinality(Counted') = Cardinality(Counted) + 1
  BY <1>6, CountedSize, FS_AddElement
<1>8. link.count <= Cardinality(Counted) /\ link.count \in Nat
  BY DEF TermsCounted, CountDrop, ServerType, Links
<1>9. link'.count <= Cardinality(Counted') /\ link'.count \in Nat
  BY <1>4, <1>7, <1>8, CountedSize
<1>10. Cardinality(Counted') <= Cardinality(Items)
  <2>1. Counted' \subseteq Items  BY <1>6 DEF Counted, ServerType
  <2> QED  BY <2>1, UploadsAssumption, FS_Subset
<1>11. link' \in Links
  <2>1. link'.count \in 0..Cardinality(Items)
    BY <1>7, <1>9, <1>10, CountedSize
  <2> QED  BY <1>2, <2>1 DEF ServerType, Links
<1>12. ServerType'  BY <1>11, <1>2 DEF CountDrop, ServerType, Stages
<1>13. Known(i)'  BY <1>1, <1>3 DEF CountDrop, HandlersKnow, Known, Untouched, Drop
<1>14. Working' = Working /\ i \in Working  BY <1>1, <1>5 DEF Working, Touches
<1>15. ASSUME ~overlap' PROVE InTurn'
  <2>1. ~overlap /\ InTurn /\ link'.count = link.count + 1  BY <1>4, <1>15 DEF CountDrop, TermsCounted
  <2>2. Working = {i}  BY <1>14, <2>1 DEF InTurn
  <2>3. link.limit \in Nat /\ (link.limit > 0 => link.count < link.limit)
    BY <1>1, <1>14, <2>1, UploadsAssumption DEF InTurn, ServerType, Links
  <2>4. link.limit > 0 => link'.count <= link.limit  BY <1>8, <2>1, <2>3
  <2>5. key' = key  BY DEF CountDrop
  <2>6. link'.count = Cardinality(Counted')  BY <1>7, <2>1 DEF InTurn
  <2> QED  BY <1>1, <1>3, <1>14, <2>1, <2>2, <2>4, <2>5, <2>6 DEF InTurn
<1>16. TermsCounted'  BY <1>3, <1>9, <1>15 DEF TermsCounted, CountDrop, Drop, Request
<1> QED  BY <1>5, <1>12, <1>13, <1>16, HandlerKeeps

\* The receipt is of a file whose bytes, row and key are there, and the seal holds.
LEMMA SealDropKeeps ==
  ASSUME IInv, NEW i \in Items, SealDrop(i) PROVE IInv'
<1> USE DEF IInv
<1>1. /\ server[i] = "counted" /\ server'[i] = "done" /\ i \in key
      /\ answer'[i] = "receipt" /\ i \in blob \intersect row
  BY DEF SealDrop, ServerType, HandlersKnow, Known
<1>2. \/ link' = [link EXCEPT !.open = @ /\ ~link.seal] /\ overlap' = overlap
      \/ link' = link /\ overlap'
  BY DEF SealDrop
<1>3. /\ link'.kind = link.kind /\ link'.limit = link.limit /\ link'.seal = link.seal
      /\ link'.count = link.count
  BY <1>2 DEF ServerType, Links
<1>4. overlap' \/ (overlap' = overlap /\ ~(link'.open /\ link'.seal))
  BY <1>2 DEF ServerType, Links
<1>5. ServerType'  BY <1>2 DEF SealDrop, ServerType, Links, Stages, Answers
<1>6. Touches(i)  BY <1>1, <1>3 DEF SealDrop, ServerType, Touches
<1>7. Known(i)'  BY <1>1, <1>3 DEF SealDrop, Known, Untouched, Drop
<1>8. Counted' = Counted  BY <1>1, <1>6 DEF Counted, SealDrop, Touches, ServerType
<1>9. Working' = Working \ {i} /\ i \in Working  BY <1>1, <1>6 DEF Working, Touches
<1>10. ASSUME ~overlap' PROVE InTurn'
  <2>1. ~overlap /\ InTurn /\ ~(link'.open /\ link'.seal)  BY <1>4, <1>10 DEF SealDrop, TermsCounted
  <2>2. Working' = {}  BY <1>9, <2>1 DEF InTurn
  <2>3. key' = key  BY DEF SealDrop
  <2> QED  BY <1>3, <1>8, <2>1, <2>2, <2>3 DEF InTurn
<1>11. TermsCounted'  BY <1>3, <1>8, <1>10 DEF TermsCounted, SealDrop, Drop, Request
<1> QED  BY <1>5, <1>6, <1>7, <1>11, HandlerKeeps

\* The handler of a file request answers with a receipt only after the row.
LEMMA RequestHandlerKeeps ==
  ASSUME IInv, NEW i \in Items,
         AdmitRequest(i) \/ SaveRequest(i) \/ FileRequest(i) \/ KeyRequest(i)
  PROVE  IInv'
<1> USE DEF IInv
<1>1. Request /\ ~Drop /\ link' = link /\ server[i] \notin {"none", "done"} /\ UNCHANGED <<overlap, pageVars>>
  BY DEF AdmitRequest, SaveRequest, FileRequest, KeyRequest, Request, Drop
<1>2. TermsCounted'  BY <1>1, RequestKeepsTerms
<1>3. CASE AdmitRequest(i)
  <2>1. ServerType'  BY <1>3 DEF AdmitRequest, ServerType, Stages, Answers
  <2>2. \/ server'[i] = "admitted"
        \/ server'[i] = "done" /\ answer'[i] \in {"refused", "failed"}
    BY <1>3 DEF AdmitRequest, ServerType
  <2>3. Touches(i)  BY <1>1, <1>3, <2>2 DEF AdmitRequest, ServerType, Touches
  <2>4. Known(i)'  BY <1>1, <1>3, <2>2 DEF AdmitRequest, HandlersKnow, Known, Untouched
  <2> QED  BY <1>2, <2>1, <2>3, <2>4, HandlerKeeps
<1>4. CASE SaveRequest(i)
  <2>1. ServerType'  BY <1>4 DEF SaveRequest, ServerType, Stages, Answers
  <2>2. \/ server'[i] = "saved" /\ blob' = blob \union {i}
        \/ server'[i] = "done" /\ answer'[i] = "empty" /\ blob' = blob
    BY <1>4 DEF SaveRequest, ServerType
  <2>3. Touches(i)  BY <1>1, <1>4, <2>2 DEF SaveRequest, ServerType, Touches
  <2>4. Known(i)'  BY <1>1, <1>4, <2>2 DEF SaveRequest, HandlersKnow, Known, Untouched
  <2> QED  BY <1>2, <2>1, <2>3, <2>4, HandlerKeeps
<1>5. CASE FileRequest(i)
  <2>1. ServerType'  BY <1>5 DEF FileRequest, ServerType, Stages, Answers
  <2>2. \/ server'[i] = "filed" /\ row' = row \union {i} /\ blob' = blob
        \/ server'[i] = "done" /\ answer'[i] = "empty" /\ row' = row /\ blob' = blob \ {i}
    BY <1>5 DEF FileRequest, ServerType
  <2>3. Touches(i)  BY <1>1, <1>5, <2>2 DEF FileRequest, ServerType, Touches
  <2>4. Known(i)'  BY <1>1, <1>5, <2>2 DEF FileRequest, HandlersKnow, Known, Untouched
  <2> QED  BY <1>2, <2>1, <2>3, <2>4, HandlerKeeps
<1>6. CASE KeyRequest(i)
  <2>1. ServerType'  BY <1>6 DEF KeyRequest, ServerType, Stages, Answers
  <2>2. server'[i] = "done" /\ answer'[i] = "receipt"  BY <1>6 DEF KeyRequest, ServerType
  <2>3. Touches(i)
    <3>1. \A j \in Items \ {i} : j \in key' <=> j \in key  BY <1>6 DEF KeyRequest
    <3> QED  BY <1>1, <1>6, <2>2, <3>1 DEF KeyRequest, ServerType, Touches
  <2>4. Known(i)'  BY <1>1, <1>6, <2>2 DEF KeyRequest, HandlersKnow, Known, Untouched, Drop
  <2> QED  BY <1>2, <2>1, <2>3, <2>4, HandlerKeeps
<1> QED  BY <1>3, <1>4, <1>5, <1>6

\* A closed link admits nobody, and changes nothing that is held or told.
LEMMA CloseKeeps == ASSUME IInv, Close PROVE IInv'
<1> USE DEF IInv
<1>1. /\ link'.kind = link.kind /\ link'.limit = link.limit /\ link'.seal = link.seal
      /\ link'.count = link.count /\ ~link'.open
  BY DEF Close, ServerType, Links
<1>2. ServerType' /\ PageType'  BY DEF Close, ServerType, PageType, Links, pageVars
<1>3. HandlersKnow'  BY <1>1 DEF Close, HandlersKnow, Known, Untouched, Drop
<1>4. OutcomesTold' /\ RunsShaped'
  BY DEF Close, OutcomesTold, Told, RunsShaped, RunShape, InFlight, Unsent, Untouched, Holds, pageVars
<1>5. HeldOnce' /\ OneBatch'
  BY DEF Close, HeldOnce, OneBatch, Busy, Holds, pageVars
<1>6. Counted' = Counted /\ Working' = Working /\ server' = server /\ key' = key /\ overlap' = overlap
  BY DEF Close, Counted, Working
<1>7. TermsCounted'  BY <1>1, <1>6 DEF TermsCounted, InTurn, Drop, Request
<1> QED  BY <1>2, <1>3, <1>4, <1>5, <1>7

-----------------------------------------------------------------------------
(* Steps of the pages. *)

\* A run that is not at work holds nothing.
LEMMA IdleHoldsNothing ==
  ASSUME PageType, RunsShaped, NEW l \in Loops, l \notin Busy
  PROVE  Holds(l) = {} /\ loop[l].item = NoItem /\ loop[l].todo = {}
<1>1. loop[l].at \in {"unused", "ended"}  BY DEF PageType, Runs, Busy
<1> QED  BY <1>1 DEF RunsShaped, RunShape, Holds

\* Fresh items are held by nobody.
LEMMA FreshIsFree ==
  ASSUME IInv, NEW S \in SUBSET Items, Fresh(S)
  PROVE  /\ S # {} /\ \A i \in S : Unsent(i) /\ server[i] = "none"
         /\ S \intersect queue = {} /\ S \intersect UNION gathering = {}
         /\ \A l \in Loops : S \intersect Holds(l) = {}
<1>1. \A i \in S : server[i] = "none" /\ i \notin queue \union UNION gathering  BY DEF Fresh
<1>2. \A i \in S : Unsent(i)  BY <1>1 DEF IInv, HandlersKnow, Known, Unsent
<1>3. ASSUME NEW l \in Loops PROVE S \intersect Holds(l) = {}
  <2>1. CASE l \in Busy  BY <2>1 DEF Fresh, Holds
  <2>2. CASE l \notin Busy  BY <2>2, IdleHoldsNothing DEF IInv
  <2> QED  BY <2>1, <2>2
<1> QED  BY <1>1, <1>2, <1>3 DEF Fresh

\* A step that leaves the server alone keeps what is known of it.
LEMMA PageKeeps ==
  ASSUME IInv, UNCHANGED serverVars, PageType', OutcomesTold', RunsShaped', HeldOnce', OneBatch'
  PROVE  IInv'
<1>1. ServerType'  BY DEF IInv, ServerType, serverVars
<1>2. HandlersKnow'  BY DEF IInv, HandlersKnow, Known, Untouched, Drop, serverVars
<1>3. TermsCounted'
  BY DEF IInv, TermsCounted, InTurn, Counted, Working, Drop, Request, serverVars
<1> QED  BY <1>1, <1>2, <1>3 DEF IInv

\* One run changes.
OnlyRun(l, at, todo, item) ==
  /\ loop' \in [Loops -> Runs]
  /\ \A k \in Loops \ {l} : loop'[k] = loop[k]
  /\ loop'[l].at = at /\ loop'[l].todo = todo /\ loop'[l].item = item

\* A run that begins holds what it is given.
LEMMA BeginEffect ==
  ASSUME PageType, RunsShaped, NEW l \in Loops, NEW S \in SUBSET Items, Begin(l, S)
  PROVE  /\ OnlyRun(l, "next", S, NoItem) /\ loop[l].at = "unused"
         /\ Holds(l) = {} /\ Holds(l)' = S /\ \A k \in Loops \ {l} : Holds(k)' = Holds(k)
         /\ ~page'.delivered /\ l \notin Busy /\ Busy' = Busy \union {l}
         /\ page' \in [at : {"loading", "form", "error", "left"}, uploading : BOOLEAN,
                       delivered : BOOLEAN, checking : BOOLEAN]
         /\ merged' \in BOOLEAN
<1>1. OnlyRun(l, "next", S, NoItem)  BY DEF Begin, PageType, Runs, OnlyRun
<1>2. loop[l].at = "unused" /\ l \notin Busy  BY DEF Begin, Busy
<1>3. Holds(l) = {}  BY <1>2, IdleHoldsNothing
<1>4. Holds(l)' = S /\ \A k \in Loops \ {l} : Holds(k)' = Holds(k)  BY <1>1 DEF OnlyRun, Holds
<1>5. Busy' = Busy \union {l}  BY <1>1 DEF OnlyRun, Busy
<1>6. ~page'.delivered  BY DEF Begin, PageType
<1>7. page' \in [at : {"loading", "form", "error", "left"}, uploading : BOOLEAN,
                 delivered : BOOLEAN, checking : BOOLEAN]
  BY DEF Begin, PageType
<1>8. merged' \in BOOLEAN  BY DEF Begin, PageType
<1> QED  BY <1>1, <1>2, <1>3, <1>4, <1>5, <1>6, <1>7, <1>8

\* A new batch of items nobody holds.
LEMMA NewBatchKeeps ==
  ASSUME IInv, NEW l \in Loops, NEW S \in SUBSET Items, S # {}, NewBatch(l, S),
         UNCHANGED serverVars, gathering' \subseteq gathering, S \intersect UNION gathering' = {},
         \A i \in S : Unsent(i), \A k \in Loops : S \intersect Holds(k) = {}
  PROVE  IInv'
<1> USE DEF IInv
<1>0. Begin(l, S) /\ queue' = S /\ waiting' = S /\ outcome' = [i \in Items |-> "none"]
  BY DEF NewBatch
<1>1. /\ OnlyRun(l, "next", S, NoItem) /\ loop[l].at = "unused"
      /\ Holds(l) = {} /\ Holds(l)' = S /\ \A k \in Loops \ {l} : Holds(k)' = Holds(k)
      /\ ~page'.delivered /\ l \notin Busy /\ Busy' = Busy \union {l}
      /\ page' \in [at : {"loading", "form", "error", "left"}, uploading : BOOLEAN,
                    delivered : BOOLEAN, checking : BOOLEAN]
      /\ merged' \in BOOLEAN
  BY <1>0, BeginEffect
<1>2. PageType'  BY <1>0, <1>1 DEF PageType, OnlyRun, Outcomes
<1>3. OutcomesTold'  BY <1>0 DEF OutcomesTold, Told
<1>4. \A i : Unsent(i) => Unsent(i)'  BY DEF Unsent, Untouched, serverVars
<1>5. RunsShaped'
  <2>1. ASSUME NEW k \in Loops \ {l} PROVE RunShape(k)'
    <3>1. RunShape(k) /\ loop'[k] = loop[k] /\ Holds(k)' = Holds(k)  BY <1>1 DEF RunsShaped, OnlyRun
    <3>2. Holds(k)' \intersect queue' = {}  BY <1>0, <3>1
    <3> QED  BY <1>0, <1>4, <3>1, <3>2 DEF RunShape
  <2>2. RunShape(l)'  BY <1>0, <1>1, <1>4, UploadsAssumption DEF RunShape, OnlyRun
  <2> QED  BY <2>1, <2>2 DEF RunsShaped
<1>6. HeldOnce'
  <2>1. \A k, m \in Loops : k # m => (Holds(k) \intersect Holds(m))' = {}
    BY <1>1 DEF HeldOnce
  <2>2. server' = server  BY DEF serverVars
  <2>3. ASSUME NEW T \in gathering' PROVE T \intersect S = {} /\ T \in gathering
    OBVIOUS
  <2> QED  BY <1>0, <1>1, <2>1, <2>2, <2>3 DEF HeldOnce
<1>7. OneBatch'
  <2> SUFFICES ASSUME ~merged' PROVE OneBatch'  BY DEF OneBatch
  <2>1. Busy = {}  BY <1>0 DEF Begin
  <2>2. \A k \in Loops \ {l} : Holds(k)' = {}  BY <1>1, <2>1, IdleHoldsNothing
  <2> QED  BY <1>0, <1>1, <2>1, <2>2 DEF OneBatch
<1> QED  BY <1>2, <1>3, <1>5, <1>6, <1>7, PageKeeps

\* Batches of files chosen on a page.
LEMMA ChooseKeeps ==
  ASSUME IInv, NEW l \in Loops, NEW S \in SUBSET Items, Choose(l, S) \/ SendRequest(l, S)
  PROVE  IInv'
<1>1. Fresh(S) /\ NewBatch(l, S) /\ UNCHANGED serverVars /\ gathering' = gathering
  BY DEF Choose, SendRequest
<1> QED  BY <1>1, FreshIsFree, NewBatchKeeps

\* The items of a folder are still held by nobody else when it has been read.
LEMMA GatheredKeeps ==
  ASSUME IInv, NEW l \in Loops, NEW S \in SUBSET Items, Gathered(l, S)
  PROVE  IInv'
<1>1. S \in gathering /\ gathering' = gathering \ {S} /\ NewBatch(l, S) /\ UNCHANGED serverVars
  BY DEF Gathered
<1>2. S # {} /\ \A i \in S : server[i] = "none"  BY <1>1 DEF IInv, HeldOnce
<1>3. \A i \in S : Unsent(i)  BY <1>2 DEF IInv, HandlersKnow, Known, Unsent
<1>4. \A k \in Loops : S \intersect Holds(k) = {}  BY <1>1 DEF IInv, HeldOnce
<1>5. S \intersect UNION gathering' = {}  BY <1>1 DEF IInv, HeldOnce
<1> QED  BY <1>1, <1>2, <1>3, <1>4, <1>5, NewBatchKeeps

\* A dropped folder is of fresh items.
LEMMA DropFolderKeeps ==
  ASSUME IInv, NEW S \in SUBSET Items, DropFolder(S)
  PROVE  IInv'
<1> USE DEF IInv
<1>1. /\ gathering' = gathering \union {S} /\ UNCHANGED serverVars
      /\ UNCHANGED <<page, queue, outcome, waiting, loop, merged>>
  BY DEF DropFolder
<1>2. /\ S # {} /\ \A i \in S : server[i] = "none"
      /\ S \intersect queue = {} /\ S \intersect UNION gathering = {}
      /\ \A l \in Loops : S \intersect Holds(l) = {}
  BY FreshIsFree DEF DropFolder
<1>3. PageType'  BY <1>1 DEF PageType
<1>4. OutcomesTold' /\ RunsShaped'
  BY <1>1 DEF OutcomesTold, Told, RunsShaped, RunShape, InFlight, Unsent, Untouched, Holds, serverVars
<1>5. HeldOnce'
  <2>1. \A l \in Loops : Holds(l)' = Holds(l)  BY <1>1 DEF Holds
  <2>2. server' = server /\ queue' = queue  BY <1>1 DEF serverVars
  <2>3. \A T \in gathering : T \intersect S = {}  BY <1>2
  <2>4. \A T, U \in gathering' : T # U => T \intersect U = {}  BY <1>1, <2>3 DEF HeldOnce
  <2>5. \A T \in gathering' :
           /\ T # {} /\ T \intersect queue = {}
           /\ \A i \in T : server[i] = "none"
           /\ \A l \in Loops : T \intersect Holds(l) = {}
    BY <1>1, <1>2 DEF HeldOnce
  <2> QED  BY <2>1, <2>2, <2>4, <2>5 DEF HeldOnce
<1>6. OneBatch'  BY <1>1 DEF OneBatch, Busy, Holds
<1> QED  BY <1>1, <1>3, <1>4, <1>5, <1>6, PageKeeps

\* A retry takes the items whose upload failed before anything was stored.
LEMMA RetryKeeps == ASSUME IInv, NEW l \in Loops, Retry(l) PROVE IInv'
<1> USE DEF IInv
<1> DEFINE R == Retryable
<1>0. /\ Begin(l, R) /\ waiting' = waiting \union R /\ R # {} /\ ~page.delivered
      /\ UNCHANGED <<gathering, queue, outcome>> /\ UNCHANGED serverVars
  BY DEF Retry
<1>a. R \in SUBSET Items /\ R \subseteq queue /\ R \intersect waiting = {}
      /\ \A i \in R : outcome[i] = "error"
  BY DEF Retryable, PageType
<1>b. \A k \in Loops : R \intersect Holds(k) = {}  BY <1>a DEF RunsShaped, RunShape
<1>c. \A i \in R : Unsent(i)
  <2>1. \A i \in R : ~InFlight(i)
    <3> SUFFICES ASSUME NEW i \in R, NEW k \in Loops, loop[k].at = "sent", loop[k].item = i
                 PROVE FALSE
      BY DEF InFlight
    <3>1. i # NoItem  BY <1>a, UploadsAssumption
    <3> QED  BY <1>b, <3>1 DEF Holds
  <2> QED  BY <2>1, <1>a DEF OutcomesTold, Told
<1> HIDE DEF R
<1>1. /\ OnlyRun(l, "next", R, NoItem) /\ loop[l].at = "unused"
      /\ Holds(l) = {} /\ Holds(l)' = R /\ \A k \in Loops \ {l} : Holds(k)' = Holds(k)
      /\ ~page'.delivered /\ l \notin Busy /\ Busy' = Busy \union {l}
      /\ page' \in [at : {"loading", "form", "error", "left"}, uploading : BOOLEAN,
                    delivered : BOOLEAN, checking : BOOLEAN]
      /\ merged' \in BOOLEAN
  BY <1>0, <1>a, BeginEffect
<1>2. PageType'  BY <1>0, <1>1, <1>a DEF PageType, OnlyRun
<1>4. \A i : Unsent(i) => Unsent(i)'  BY <1>0 DEF Unsent, Untouched, serverVars
<1>3. OutcomesTold'
  <2>1. \A i : InFlight(i) => InFlight(i)'  BY <1>1 DEF InFlight, OnlyRun
  <2> QED  BY <1>0, <1>4, <2>1 DEF OutcomesTold, Told, serverVars
<1>5. RunsShaped'
  <2>1. ASSUME NEW k \in Loops \ {l} PROVE RunShape(k)'
    <3>1. RunShape(k) /\ loop'[k] = loop[k] /\ Holds(k)' = Holds(k)  BY <1>1 DEF RunsShaped, OnlyRun
    <3> QED  BY <1>0, <1>4, <3>1 DEF RunShape
  <2>2. RunShape(l)'  BY <1>0, <1>1, <1>4, <1>a, <1>c, UploadsAssumption DEF RunShape, OnlyRun
  <2> QED  BY <2>1, <2>2 DEF RunsShaped
<1>6. HeldOnce'
  <2>1. \A k, m \in Loops : k # m => (Holds(k) \intersect Holds(m))' = {}
    BY <1>1, <1>b DEF HeldOnce
  <2>2. server' = server  BY <1>0 DEF serverVars
  <2>3. \A T \in gathering : T \intersect R = {}  BY <1>a DEF HeldOnce
  <2> QED  BY <1>0, <1>1, <2>1, <2>2, <2>3 DEF HeldOnce
<1>7. OneBatch'
  <2> SUFFICES ASSUME ~merged' PROVE OneBatch'  BY DEF OneBatch
  <2>1. Busy = {} /\ ~merged  BY <1>0 DEF Begin, PageType
  <2>2. \A k \in Loops \ {l} : Holds(k)' = {}  BY <1>1, <2>1, IdleHoldsNothing
  <2> QED  BY <1>0, <1>1, <1>a, <2>1, <2>2 DEF OneBatch
<1> QED  BY <1>0, <1>2, <1>3, <1>5, <1>6, <1>7, PageKeeps

\* What a run is told of an item it held ends its hold of it.
LEMMA FinishKeeps ==
  ASSUME IInv, NEW l \in Loops, NEW i \in Items, NEW o \in Outcomes \ {"none"}, Finish(l, i, o),
         \/ loop[l].at = "next" /\ i \in loop[l].todo
         \/ loop[l].at = "sent" /\ loop[l].item = i,
         o = "success" => server[i] = "done" /\ answer[i] = "receipt",
         o = "error" => Unsent(i),
         UNCHANGED serverVars, UNCHANGED <<page, gathering, queue, merged>>
  PROVE  IInv'
<1> USE DEF IInv
<1>0. RunShape(l) /\ i # NoItem /\ l \in Busy  BY UploadsAssumption DEF RunsShaped, Busy
<1>1. /\ OnlyRun(l, "next", loop[l].todo \ {i}, NoItem)
      /\ outcome' = [outcome EXCEPT ![i] = o] /\ waiting' = waiting \ {i}
  <2> DEFINE r == loop[l]
             w == (r.won \/ o = "success")
             n == [at |-> "next", todo |-> r.todo \ {i}, item |-> NoItem, won |-> w]
  <2>1. r \in Runs  BY DEF PageType
  <2>2. w \in BOOLEAN  BY <2>1 DEF Runs
  <2>3. n \in Runs
    <3> HIDE DEF w
    <3> QED  BY <2>1, <2>2 DEF Runs
  <2>4. loop' = [loop EXCEPT ![l] = n]  BY DEF Finish
  <2>5. n.at = "next" /\ n.todo = loop[l].todo \ {i} /\ n.item = NoItem  OBVIOUS
  <2> HIDE DEF n
  <2>6. OnlyRun(l, "next", loop[l].todo \ {i}, NoItem)  BY <2>3, <2>4, <2>5 DEF OnlyRun, PageType
  <2> QED  BY <2>6 DEF Finish
<1>2. /\ i \in Holds(l) /\ Holds(l)' = Holds(l) \ {i}
      /\ \A k \in Loops \ {l} : Holds(k)' = Holds(k) /\ i \notin Holds(k)
  <2>1. i \in Holds(l)  BY <1>0 DEF Holds
  <2>2. Holds(l)' = Holds(l) \ {i}  BY <1>0, <1>1 DEF Holds, OnlyRun, RunShape
  <2>3. \A k \in Loops \ {l} : Holds(k)' = Holds(k)  BY <1>1 DEF Holds, OnlyRun
  <2> QED  BY <2>1, <2>2, <2>3 DEF HeldOnce
<1>3. PageType'  BY <1>1 DEF PageType, OnlyRun
<1>4. \A j : Unsent(j) => Unsent(j)'  BY DEF Unsent, Untouched, serverVars
<1>5. server' = server /\ answer' = answer  BY DEF serverVars
<1>6. OutcomesTold'
  <2>1. Told(i)'  BY <1>1, <1>4, <1>5 DEF Told, PageType
  <2>2. ASSUME NEW j \in Items \ {i} PROVE Told(j)'
    <3>1. Told(j) /\ outcome'[j] = outcome[j]  BY <1>1 DEF OutcomesTold, PageType
    <3>2. InFlight(j) => InFlight(j)'  BY <1>0, <1>1 DEF InFlight, OnlyRun, RunShape
    <3> QED  BY <1>4, <1>5, <3>1, <3>2 DEF Told
  <2> QED  BY <2>1, <2>2 DEF OutcomesTold
<1>7. RunsShaped'
  <2>1. ASSUME NEW k \in Loops \ {l} PROVE RunShape(k)'
    <3>1. RunShape(k) /\ loop'[k] = loop[k] /\ Holds(k)' = Holds(k) /\ i \notin Holds(k)
      BY <1>1, <1>2 DEF RunsShaped, OnlyRun
    <3> QED  BY <1>1, <1>4, <3>1 DEF RunShape
  <2>2. RunShape(l)'
    <3>1. Holds(l)' \intersect queue' \subseteq waiting'  BY <1>0, <1>1, <1>2 DEF RunShape
    <3>2. NoItem \notin loop[l].todo  BY UploadsAssumption DEF PageType, Runs
    <3>3. queue' # {}  BY <1>0 DEF RunShape
    <3> QED  BY <1>0, <1>1, <1>4, <3>1, <3>2, <3>3 DEF RunShape, OnlyRun
  <2> QED  BY <2>1, <2>2 DEF RunsShaped
<1>8. HeldOnce'  BY <1>2, <1>5 DEF HeldOnce
<1>9. OneBatch'
  <2> SUFFICES ASSUME ~merged PROVE OneBatch'  BY DEF OneBatch
  <2>1. Busy' = Busy  BY <1>0, <1>1 DEF Busy, OnlyRun
  <2>2. ~page.delivered /\ i \in queue  BY <1>0, <1>2 DEF OneBatch
  <2>3. \A j \in Items : outcome'[j] # "none" => j \in queue
    BY <1>1, <2>2 DEF OneBatch, PageType
  <2>4. \A k \in Loops : Holds(k)' \subseteq queue  BY <1>2 DEF OneBatch
  <2> QED  BY <2>1, <2>2, <2>3, <2>4 DEF OneBatch
<1> QED  BY <1>3, <1>6, <1>7, <1>8, <1>9, PageKeeps

\* An item is posted.
Post(l, i) ==
  /\ i \in loop[l].todo
  /\ loop' = [loop EXCEPT ![l].at = "sent", ![l].todo = @ \ {i}, ![l].item = i]
  /\ server' = [server EXCEPT ![i] = "sent"] /\ answer' = [answer EXCEPT ![i] = "none"]
  /\ UNCHANGED <<outcome, waiting>>

\* An item that comes to its turn is posted, or ends before it was sent.
LEMMA UploadIsPostOrEnd ==
  ASSUME IInv, NEW l \in Loops, UploadFile(l)
  PROVE  \E i \in Items :
           /\ i \in loop[l].todo /\ Unsent(i)
           /\ \/ Post(l, i)
              \/ /\ UNCHANGED <<server, answer>>
                 /\ \E o \in {"cancelled", "error"} : Finish(l, i, o)
<1>1. PICK i \in loop[l].todo :
        \/ Post(l, i)
        \/ /\ Finish(l, i, IF page.at = "left" THEN "cancelled" ELSE "error")
           /\ UNCHANGED <<server, answer>>
  BY DEF UploadFile, Post
<1>2. i \in Items /\ Unsent(i)  BY DEF IInv, PageType, Runs, RunsShaped, RunShape
<1> QED  BY <1>1, <1>2

\* A POST is of an item of which nothing is stored and nothing told.
LEMMA PostKeeps ==
  ASSUME IInv, NEW l \in Loops, NEW i \in Items, Post(l, i), loop[l].at = "next", Unsent(i),
         UNCHANGED <<link, blob, row, key, overlap, page, gathering, queue, merged>>
  PROVE  IInv'
<1> USE DEF IInv
<1>0. i \in loop[l].todo /\ RunShape(l) /\ i # NoItem /\ l \in Busy /\ UNCHANGED <<outcome, waiting>>
  BY UploadsAssumption DEF Post, RunsShaped, Busy
<1>1. OnlyRun(l, "sent", loop[l].todo \ {i}, i)
  <2> DEFINE r == loop[l]
             n == [at |-> "sent", todo |-> r.todo \ {i}, item |-> i, won |-> r.won]
  <2>1. r \in Runs  BY DEF PageType
  <2>2. n \in Runs  BY <2>1 DEF Runs
  <2>3. loop' = [loop EXCEPT ![l] = n]  BY <2>1 DEF Post, PageType, Runs
  <2>4. n.at = "sent" /\ n.todo = loop[l].todo \ {i} /\ n.item = i  OBVIOUS
  <2> HIDE DEF n
  <2> QED  BY <2>2, <2>3, <2>4 DEF OnlyRun, PageType
<1>2. \A k \in Loops : Holds(k)' = Holds(k)
  <2>1. Holds(l)' = Holds(l)  BY <1>0, <1>1 DEF Holds, OnlyRun, RunShape
  <2> QED  BY <1>1, <2>1 DEF Holds, OnlyRun
<1>3. i \in Holds(l) /\ \A k \in Loops \ {l} : i \notin Holds(k)  BY <1>0 DEF Holds, HeldOnce
<1>4. /\ server'[i] = "sent"
      /\ \A j \in Items \ {i} : server'[j] = server[j] /\ answer'[j] = answer[j]
  BY DEF Post, ServerType
<1>5. ServerType' /\ PageType'
  <2>1. ServerType'  BY DEF Post, ServerType, Stages, Answers
  <2>2. PageType'  BY <1>0, <1>1 DEF PageType, OnlyRun
  <2> QED  BY <2>1, <2>2
<1>6. HandlersKnow'
  <2>1. Known(i)'  BY <1>4 DEF Unsent, Untouched, Known, Drop
  <2>2. \A j \in Items \ {i} : Known(j)'  BY <1>4 DEF HandlersKnow, Known, Untouched, Drop
  <2> QED  BY <2>1, <2>2 DEF HandlersKnow
<1>7. \A j \in Items \ {i} : Unsent(j) => Unsent(j)'  BY <1>4 DEF Unsent, Untouched
<1>8. OutcomesTold'
  <2>1. outcome[i] # "success"
    BY DEF OutcomesTold, Told, HandlersKnow, Known, Unsent, Untouched
  <2>2. InFlight(i)'  BY <1>1 DEF InFlight, OnlyRun
  <2>3. \A j : InFlight(j) => InFlight(j)'  BY <1>1 DEF InFlight, OnlyRun
  <2>4. \A j \in Items \ {i} : Told(j)'
    BY <1>0, <1>4, <1>7, <2>3 DEF OutcomesTold, Told
  <2> QED  BY <1>0, <2>1, <2>2, <2>4 DEF OutcomesTold, Told
<1>9. RunsShaped'
  <2>1. ASSUME NEW k \in Loops \ {l} PROVE RunShape(k)'
    <3>1. RunShape(k) /\ loop'[k] = loop[k] /\ i \notin loop[k].todo /\ loop[k].todo \subseteq Items
      BY <1>1, <1>3 DEF RunsShaped, OnlyRun, Holds, PageType, Runs
    <3> QED  BY <1>0, <1>2, <1>7, <3>1 DEF RunShape
  <2>2. RunShape(l)'
    <3>1. loop[l].todo \subseteq Items  BY DEF PageType, Runs
    <3> QED  BY <1>0, <1>1, <1>2, <1>7, <3>1 DEF RunShape, OnlyRun
  <2> QED  BY <2>1, <2>2 DEF RunsShaped
<1>10. HeldOnce'
  <2>1. \A S \in gathering : \A j \in S : j \in Items \ {i} /\ server'[j] = "none"
    BY <1>3, <1>4 DEF HeldOnce, PageType
  <2> QED  BY <1>2, <2>1 DEF HeldOnce
<1>11. OneBatch'
  <2>1. Busy' = Busy  BY <1>0, <1>1 DEF Busy, OnlyRun
  <2> QED  BY <1>0, <1>2, <2>1 DEF OneBatch
<1>12. TermsCounted'
  <2>1. i \notin key /\ i \notin Working  BY DEF Unsent, Untouched, Working
  <2>2. Counted' = Counted  BY <1>4, <2>1 DEF Counted, ServerType
  <2>3. Working' = Working  BY <1>4, <2>1 DEF Working
  <2>4. \A j \in Working : server'[j] = server[j]  BY <1>4, <2>1 DEF Working
  <2>5. UNCHANGED <<link, key, overlap>>  OBVIOUS
  <2> QED  BY <2>2, <2>3, <2>4, <2>5 DEF TermsCounted, InTurn, Drop, Request
<1> QED  BY <1>5, <1>6, <1>8, <1>9, <1>10, <1>11, <1>12

\* One item of a batch.
LEMMA UploadFileKeeps == ASSUME IInv, NEW l \in Loops, UploadFile(l) PROVE IInv'
<1>1. loop[l].at = "next" /\ UNCHANGED <<link, blob, row, key, overlap, page, gathering, queue, merged>>
  BY DEF UploadFile
<1>2. PICK i \in Items :
           /\ i \in loop[l].todo /\ Unsent(i)
           /\ \/ Post(l, i)
              \/ /\ UNCHANGED <<server, answer>>
                 /\ \E o \in {"cancelled", "error"} : Finish(l, i, o)
  BY UploadIsPostOrEnd
<1>3. CASE Post(l, i)  BY <1>1, <1>2, <1>3, PostKeeps
<1>4. ASSUME UNCHANGED <<server, answer>>, NEW o \in {"cancelled", "error"}, Finish(l, i, o)
      PROVE  IInv'
  <2>1. UNCHANGED serverVars  BY <1>1, <1>4 DEF serverVars
  <2>2. o \in Outcomes \ {"none"}  BY DEF Outcomes
  <2> QED  BY <1>1, <1>2, <1>4, <2>1, <2>2, FinishKeeps
<1> QED  BY <1>2, <1>3, <1>4

\* An answer is told as what it says, and no answer as unknown.
LEMMA SettleKeeps == ASSUME IInv, NEW l \in Loops, Settle(l) PROVE IInv'
<1> DEFINE i == loop[l].item
<1>1. loop[l].at = "sent" /\ UNCHANGED serverVars /\ UNCHANGED <<page, gathering, queue, merged>>
  BY DEF Settle
<1>2. i \in Items  BY <1>1 DEF IInv, PageType, Runs, RunsShaped, RunShape
<1>3. CASE Finish(l, i, "unknown")
  BY <1>1, <1>2, <1>3, FinishKeeps DEF Outcomes
<1>4. CASE server[i] = "done" /\ Finish(l, i, Classified(answer[i]))
  <2>1. Classified(answer[i]) \in Outcomes \ {"none"}  BY DEF Classified, Outcomes
  <2>2. Classified(answer[i]) = "success" => answer[i] = "receipt"  BY DEF Classified, Accepted
  <2>3. Classified(answer[i]) = "error" => answer[i] = "throttled"  BY DEF Classified, Accepted
  <2>4. answer[i] = "throttled" => Unsent(i)
    BY <1>2, <1>4 DEF IInv, HandlersKnow, Known, Unsent
  <2> QED  BY <1>1, <1>2, <1>4, <2>1, <2>2, <2>3, <2>4, FinishKeeps
<1> QED  BY <1>3, <1>4 DEF Settle

\* The end of a batch: every file that has an outcome is of the queue, so as many
\* as the queue has are the queue.
LEMMA EndBatchKeeps ==
  ASSUME IInv, NEW l \in Loops, NEW checks \in BOOLEAN, EndBatch(l, checks)
  PROVE  IInv'
<1> USE DEF IInv
<1>0. /\ loop[l].at = "next" /\ loop[l].todo = {} /\ l \in Busy /\ RunShape(l)
      /\ UNCHANGED serverVars /\ UNCHANGED <<gathering, queue, outcome, waiting, merged>>
  BY DEF EndBatch, Busy, RunsShaped
<1>1. OnlyRun(l, "ended", loop[l].todo, loop[l].item)
  BY DEF EndBatch, OnlyRun, PageType, Runs
<1>2. \A k \in Loops : Holds(k)' = Holds(k)  BY <1>1 DEF Holds, OnlyRun
<1>3. /\ page' \in [at : {"loading", "form", "error", "left"}, uploading : BOOLEAN,
                    delivered : BOOLEAN, checking : BOOLEAN]
      /\ page'.delivered => page.delivered \/ AllAccepted
  <2>1. CASE page.at = "left"  BY <2>1 DEF EndBatch, PageType
  <2>2. CASE page.at # "left"
    <3> DEFINE d == (page.delivered \/ AllAccepted)
               c == (page.checking \/ (checks /\ loop[l].won))
    <3>1. d \in BOOLEAN /\ c \in BOOLEAN  BY DEF PageType, Runs, AllAccepted
    <3>2. page' = [page EXCEPT !.uploading = FALSE, !.delivered = d, !.checking = c]
      BY <2>2 DEF EndBatch
    <3>3. d => page.delivered \/ AllAccepted  OBVIOUS
    <3> HIDE DEF d, c
    <3> QED  BY <3>1, <3>2, <3>3 DEF PageType
  <2> QED  BY <2>1, <2>2
<1>4. PageType'  BY <1>0, <1>1, <1>3 DEF PageType, OnlyRun
<1>5. \A j : Unsent(j) => Unsent(j)'  BY <1>0 DEF Unsent, Untouched, serverVars
<1>6. OutcomesTold'
  <2>1. \A j : InFlight(j) => InFlight(j)'  BY <1>0, <1>1 DEF InFlight, OnlyRun
  <2> QED  BY <1>0, <1>5, <2>1 DEF OutcomesTold, Told, serverVars
<1>7. RunsShaped'
  <2>1. ASSUME NEW k \in Loops PROVE RunShape(k)'
    <3>1. RunShape(k)  BY DEF RunsShaped
    <3> QED  BY <1>0, <1>1, <1>2, <1>5, <3>1 DEF RunShape, OnlyRun
  <2> QED  BY <2>1 DEF RunsShaped
<1>8. HeldOnce'  BY <1>0, <1>2 DEF HeldOnce, serverVars
<1>9. OneBatch'
  <2> SUFFICES ASSUME ~merged PROVE OneBatch'  BY <1>0 DEF OneBatch
  <2>1. Busy = {l} /\ ~page.delivered  BY <1>0 DEF OneBatch
  <2>2. Busy' = {}  BY <1>1, <2>1 DEF Busy, OnlyRun
  <2>3. ASSUME AllAccepted PROVE \A j \in queue : outcome[j] = "success"
    <3> DEFINE landed == {j \in Items : outcome[j] # "none"}
    <3>1. landed \subseteq queue  BY DEF OneBatch
    <3>2. Cardinality(landed) = Cardinality(queue) /\ \A j \in landed : outcome[j] = "success"
      BY <2>3 DEF AllAccepted
    <3>3. IsFiniteSet(queue)  BY UploadsAssumption, FS_Subset DEF PageType
    <3>4. landed = queue
      <4> HIDE DEF landed
      <4> QED  BY <3>1, <3>2, <3>3, FS_Subset
    <3> QED  BY <3>2, <3>4
  <2>4. queue # {}  BY <1>0 DEF RunShape
  <2> QED  BY <1>0, <1>2, <1>3, <2>1, <2>2, <2>3, <2>4 DEF OneBatch
<1> QED  BY <1>0, <1>4, <1>6, <1>7, <1>8, <1>9, PageKeeps

\* Leaving the page: what was in flight is held no more and told as cancelled.
LEMMA LeaveKeeps == ASSUME IInv, Leave PROVE IInv'
<1> USE DEF IInv
<1> DEFINE cut == {loop[l].item : l \in {k \in Loops : loop[k].at = "sent"}}
<1>0. /\ outcome' = [i \in Items |-> IF i \in cut THEN "cancelled" ELSE outcome[i]]
      /\ waiting' = waiting \ cut
      /\ UNCHANGED serverVars /\ UNCHANGED <<gathering, queue, merged>>
  BY DEF Leave
<1>1. page' = [page EXCEPT !.at = "left"]  BY DEF Leave
<1>2. ASSUME NEW k \in Loops
      PROVE  /\ loop'[k] \in Runs /\ loop'[k].todo = loop[k].todo /\ loop'[k].item = NoItem
             /\ loop'[k].at = IF loop[k].at = "sent" THEN "next" ELSE loop[k].at
  <2>1. loop[k] \in Runs /\ RunShape(k)  BY DEF PageType, RunsShaped
  <2>2. loop'[k] = IF loop[k].at = "sent" THEN [loop[k] EXCEPT !.at = "next", !.item = NoItem] ELSE loop[k]
    BY DEF Leave
  <2> QED  BY <2>1, <2>2 DEF Runs, RunShape
<1>3. loop' \in [Loops -> Runs]
  <2>1. loop' = [k \in Loops |-> loop'[k]]  BY DEF Leave
  <2> QED  BY <1>2, <2>1
<1>4. \A i : i \in cut <=> InFlight(i)  BY DEF InFlight
<1> HIDE DEF cut
<1>5. \A k \in Loops : Holds(k)' = loop[k].todo /\ Holds(k)' \subseteq Holds(k)
  <2>1. \A k \in Loops : NoItem \notin loop[k].todo  BY UploadsAssumption DEF PageType, Runs
  <2> QED  BY <1>2, <2>1 DEF Holds
<1>6. \A k \in Loops : Holds(k)' \intersect cut = {}
  <2> SUFFICES ASSUME NEW k \in Loops, NEW i \in loop[k].todo, NEW m \in Loops,
                      loop[m].at = "sent", loop[m].item = i
               PROVE  FALSE
    BY <1>4, <1>5 DEF InFlight
  <2>1. i # NoItem  BY UploadsAssumption DEF PageType, Runs
  <2>2. i \in Holds(k) /\ i \in Holds(m)  BY <2>1 DEF Holds
  <2>3. k # m  BY DEF RunsShaped, RunShape
  <2> QED  BY <2>2, <2>3 DEF HeldOnce
<1>7. PageType'  BY <1>0, <1>1, <1>3 DEF PageType, Outcomes
<1>8. \A j : Unsent(j) => Unsent(j)'  BY <1>0 DEF Unsent, Untouched, serverVars
<1>9. OutcomesTold'
  <2>1. \A j \in Items : outcome'[j] \in {"success", "error"} => outcome'[j] = outcome[j] /\ ~InFlight(j)
    BY <1>0, <1>4
  <2> QED  BY <1>0, <1>8, <2>1 DEF OutcomesTold, Told, serverVars
<1>10. RunsShaped'
  <2>1. ASSUME NEW k \in Loops PROVE RunShape(k)'
    <3>1. RunShape(k)  BY DEF RunsShaped
    <3>2. NoItem \notin loop[k].todo  BY UploadsAssumption DEF PageType, Runs
    <3> QED  BY <1>0, <1>2, <1>5, <1>6, <1>8, <3>1, <3>2 DEF RunShape
  <2> QED  BY <2>1 DEF RunsShaped
<1>11. HeldOnce'
  <2>1. server' = server  BY <1>0 DEF serverVars
  <2> QED  BY <1>0, <1>5, <2>1 DEF HeldOnce
<1>12. OneBatch'
  <2> SUFFICES ASSUME ~merged PROVE OneBatch'  BY <1>0 DEF OneBatch
  <2>1. Busy' = Busy  BY <1>2 DEF Busy
  <2>2. \A j \in cut \intersect Items : j \in queue
    <3> SUFFICES ASSUME NEW m \in Loops, loop[m].at = "sent", loop[m].item \in Items
                 PROVE  loop[m].item \in queue
      BY <1>4 DEF InFlight
    <3>1. loop[m].item \in Holds(m)  BY UploadsAssumption DEF Holds
    <3> QED  BY <3>1 DEF OneBatch
  <2>3. page.delivered => cut = {}  BY <1>4 DEF OneBatch, InFlight, Busy
  <2>4. page'.delivered => page.delivered  BY <1>1 DEF PageType
  <2>5. \A j \in Items : outcome'[j] # "none" => j \in queue  BY <1>0, <2>2 DEF OneBatch
  <2>6. page.delivered => \A j \in queue : outcome'[j] = outcome[j]  BY <1>0, <2>3 DEF PageType
  <2> QED  BY <1>0, <1>5, <2>1, <2>4, <2>5, <2>6 DEF OneBatch
<1> QED  BY <1>0, <1>7, <1>9, <1>10, <1>11, <1>12, PageKeeps

\* What the page reads of its link changes only what it shows.
LEMMA LoadKeeps == ASSUME IInv, LoadDrop \/ LoadRequest PROVE IInv'
<1> USE DEF IInv
<1>1. UNCHANGED serverVars /\ UNCHANGED <<gathering, queue, outcome, waiting, loop, merged>>
  BY DEF LoadDrop, LoadRequest
<1>2. /\ page'.delivered = page.delivered
      /\ page' \in [at : {"loading", "form", "error", "left"}, uploading : BOOLEAN,
                    delivered : BOOLEAN, checking : BOOLEAN]
  <2>1. CASE LoadDrop  BY <2>1 DEF LoadDrop, PageType
  <2>2. CASE LoadRequest  BY <2>2 DEF LoadRequest, PageType
  <2> QED  BY <2>1, <2>2
<1>3. PageType'  BY <1>1, <1>2 DEF PageType
<1>4. OutcomesTold' /\ RunsShaped'
  BY <1>1 DEF OutcomesTold, Told, RunsShaped, RunShape, InFlight, Unsent, Untouched, Holds, serverVars
<1>5. HeldOnce' /\ OneBatch'  BY <1>1, <1>2 DEF HeldOnce, OneBatch, Busy, Holds, serverVars
<1> QED  BY <1>1, <1>3, <1>4, <1>5, PageKeeps

-----------------------------------------------------------------------------
(* The theorems. *)

\* It holds at the start.
LEMMA InitIInv == Init => IInv
<1> SUFFICES ASSUME Init PROVE IInv  OBVIOUS
<1>1. /\ link.kind \in {"drop", "request"} /\ link.limit \in 0..MaxLimit /\ link.seal \in BOOLEAN
      /\ link.open /\ link.count = 0 /\ (link.kind = "request" => link.limit = 0 /\ ~link.seal)
      /\ link \in [kind : {"drop", "request"}, limit : 0..MaxLimit, seal : BOOLEAN,
                   open : BOOLEAN, count : {0}]
  <2>1. CASE link \in [kind : {"drop"}, limit : 0..MaxLimit, seal : BOOLEAN, open : {TRUE}, count : {0}]
    BY <2>1
  <2>2. CASE link \in [kind : {"request"}, limit : {0}, seal : {FALSE}, open : {TRUE}, count : {0}]
    <3>1. 0 \in 0..MaxLimit  BY UploadsAssumption
    <3> QED  BY <2>2, <3>1
  <2> QED  BY <2>1, <2>2 DEF Init
<1>2. Cardinality(Items) \in Nat  BY UploadsAssumption, FS_CardinalityType
<1>3. ServerType
  <2>1. link \in Links
    <3>1. 0 \in 0..Cardinality(Items)  BY <1>2
    <3> QED  BY <1>1, <3>1 DEF Links
  <2> QED  BY <2>1 DEF Init, ServerType, Stages, Answers
<1>4. PageType  BY DEF Init, PageType, Runs, Outcomes
<1>5. HandlersKnow /\ OutcomesTold  BY DEF Init, HandlersKnow, Known, Untouched, OutcomesTold, Told
<1>6. RunsShaped /\ HeldOnce /\ OneBatch
  BY DEF Init, RunsShaped, RunShape, Holds, HeldOnce, OneBatch, Busy
<1>7. TermsCounted
  <2>1. Counted = {} /\ Working = {} /\ key = {}  BY DEF Init, Counted, Working
  <2>2. Cardinality(Counted) = 0  BY <2>1, FS_EmptySet
  <2> QED  BY <1>1, <2>1, <2>2, UploadsAssumption DEF TermsCounted, InTurn, Request, Drop
<1> QED  BY <1>3, <1>4, <1>5, <1>6, <1>7 DEF IInv

\* Every step keeps the invariant.
LEMMA NextIInv == IInv /\ [Next]_vars => IInv'
<1> SUFFICES ASSUME IInv, [Next]_vars PROVE IInv'  OBVIOUS
<1>1. CASE ServerStep
  BY <1>1, ThrottleDropKeeps, AdmitDropKeeps, RefuseDropKeeps, SaveDropKeeps, FileDropKeeps, KeyDropKeeps,
     CountDropKeeps, SealDropKeeps, RequestHandlerKeeps, CloseKeeps DEF ServerStep
<1>2. CASE PageStep
  <2>1. ASSUME NEW l \in Loops, BatchStep(l) PROVE IInv'
    BY <2>1, UploadFileKeeps, SettleKeeps, EndBatchKeeps
       DEF BatchStep, DropUploadFile, RequestUploadFile, EndDropBatch, EndRequestBatch
  <2> QED  BY <1>2, <2>1, ChooseKeeps, GatheredKeeps, RetryKeeps, DropFolderKeeps, LeaveKeeps, LoadKeeps
           DEF PageStep, LeaveDrop, LeaveRequest
<1>3. CASE UNCHANGED vars
  <2>1. UNCHANGED serverVars /\ UNCHANGED pageVars  BY <1>3 DEF vars
  <2>2. PageType' /\ OutcomesTold' /\ RunsShaped'
    BY <2>1 DEF IInv, PageType, OutcomesTold, Told, RunsShaped, RunShape, InFlight, Unsent, Untouched, Holds,
                serverVars, pageVars
  <2>3. HeldOnce' /\ OneBatch'
    BY <2>1 DEF IInv, HeldOnce, OneBatch, Busy, Holds, serverVars, pageVars
  <2> QED  BY <2>1, <2>2, <2>3, PageKeeps
<1> QED  BY <1>1, <1>2, <1>3 DEF Next

\* The inductive invariant, of every reachable state.
THEOREM Inductive == Spec => []IInv
<1>1. Spec => Init /\ [][Next]_vars  BY PTL DEF Spec
<1> QED  BY <1>1, InitIInv, NextIInv, PTL

\* Every reachable state is of its types.
THEOREM TypeCorrect == Spec => []TypeOK
<1>1. IInv => TypeOK  BY TypesSplit DEF IInv
<1> QED  BY <1>1, Inductive, PTL

\* What the visitor is told was accepted, or delivered, is stored.
THEOREM ClaimsTrue == Spec => []ClaimsAreTrue
<1>1. IInv => AcceptedIsStored
  BY DEF IInv, HandlersKnow, Known, OutcomesTold, Told, AcceptedIsStored, ServerType
<1>2. IInv => DeliveredWhenAllStored
  BY DEF IInv, OneBatch, HandlersKnow, Known, OutcomesTold, Told, DeliveredWhenAllStored, PageType
<1> QED  BY <1>1, <1>2, Inductive, PTL DEF ClaimsAreTrue

\* The limit and the seal hold of what is stored while uploads come in turn: the
\* count is of every key but one just written, whose upload was within the limit.
THEOREM TermsHeld == Spec => []TermsHoldInTurn
<1>1. IInv => TermsHoldInTurn
  <2> SUFFICES ASSUME IInv, ~overlap PROVE
        /\ link.limit > 0 => Cardinality(key) <= link.limit
        /\ link.seal => Cardinality(key) <= 1
    BY DEF TermsHoldInTurn
  <2> USE DEF IInv
  <2>1. CASE Request  BY <2>1 DEF TermsCounted
  <2>2. CASE Drop
    <3>1. InTurn  BY <2>2 DEF TermsCounted
    <3>2. IsFiniteSet(key)  BY UploadsAssumption, FS_Subset DEF ServerType
    <3>3. link.limit \in Nat /\ link.count \in Nat  BY UploadsAssumption DEF ServerType, Links
    <3>4. ASSUME link.limit > 0 PROVE Cardinality(key) <= link.limit
      <4>1. CASE Counted = key  BY <3>1, <3>4, <4>1 DEF InTurn
      <4>2. CASE Counted # key
        <5>1. PICK i \in key : server[i] = "stored"  BY <4>2 DEF Counted
        <5>2. i \in Working  BY <5>1 DEF Working, ServerType
        <5>3. \A j \in key \ {i} : server[j] # "stored"
          BY <3>1, <5>2 DEF InTurn, Working, ServerType
        <5>4. key = Counted \union {i} /\ i \notin Counted  BY <5>1, <5>3 DEF Counted
        <5>5. Cardinality(key) = Cardinality(Counted) + 1
          BY <5>4, CountedSize, FS_AddElement
        <5>6. link.count < link.limit  BY <3>1, <3>4, <5>1, <5>2 DEF InTurn
        <5> QED  BY <3>1, <3>3, <5>5, <5>6 DEF InTurn
      <4> QED  BY <4>1, <4>2
    <3>5. ASSUME link.seal PROVE Cardinality(key) <= 1
      <4>1. CASE key = {}  BY <4>1, FS_EmptySet
      <4>2. CASE key # {}
        <5>1. PICK x : x \in key  BY <4>2
        <5>2. \A y \in key : y = x
          <6>1. key \subseteq Items  BY DEF ServerType
          <6> QED  BY <3>1, <3>5, <5>1, <6>1 DEF InTurn
        <5>3. key = {x}  BY <5>1, <5>2
        <5>4. Cardinality({x}) = 1  BY FS_Singleton
        <5> QED  BY <5>3, <5>4
      <4> QED  BY <4>1, <4>2
    <3> QED  BY <3>4, <3>5
  <2>3. Request \/ Drop  BY DEF ServerType, Links, Request, Drop
  <2> QED  BY <2>1, <2>2, <2>3
<1> QED  BY <1>1, Inductive, PTL

\* No retry and no second batch posts a file of which anything is, or may still be,
\* stored.
THEOREM NoSecondCopy == Spec => SendsOnlyUnstored
<1> DEFINE Step == \A i \in Items : server[i] # "sent" /\ server'[i] = "sent"
                     => server[i] \in {"none", "done"} /\ i \notin blob \union row
<1>1. IInv /\ [Next]_vars => [Step]_vars
  <2> SUFFICES ASSUME IInv, Next, NEW i \in Items, server[i] # "sent", server'[i] = "sent"
               PROVE  server[i] \in {"none", "done"} /\ i \notin blob \union row
    OBVIOUS
  <2> USE DEF IInv
  <2>1. \A l \in Loops : UploadFile(l) => Unsent(i)
    <3> SUFFICES ASSUME NEW l \in Loops, UploadFile(l) PROVE Unsent(i)  OBVIOUS
    <3>1. PICK j \in Items :
           /\ j \in loop[l].todo /\ Unsent(j)
           /\ \/ Post(l, j)
              \/ /\ UNCHANGED <<server, answer>>
                 /\ \E o \in {"cancelled", "error"} : Finish(l, j, o)
      BY UploadIsPostOrEnd
    <3> QED  BY <3>1 DEF Post, ServerType
  <2>2. ~ServerStep
    <3>1. server \in [Items -> Stages]  BY DEF ServerType
    <3>2. \A j \in Items : ~(ThrottleDrop(j) \/ AdmitDrop(j) \/ RefuseDrop(j) \/ SaveDrop(j))
      BY <3>1 DEF ThrottleDrop, AdmitDrop, RefuseDrop, SaveDrop
    <3>3. \A j \in Items : ~(FileDrop(j) \/ KeyDrop(j) \/ CountDrop(j) \/ SealDrop(j))
      BY <3>1 DEF FileDrop, KeyDrop, CountDrop, SealDrop
    <3>4. \A j \in Items : ~(AdmitRequest(j) \/ SaveRequest(j) \/ FileRequest(j) \/ KeyRequest(j))
      BY <3>1 DEF AdmitRequest, SaveRequest, FileRequest, KeyRequest
    <3>5. ~Close  BY DEF Close
    <3> QED  BY <3>2, <3>3, <3>4, <3>5 DEF ServerStep
  <2>3. PICK l \in Loops : UploadFile(l)
    BY <2>2 DEF Next, PageStep, BatchStep, Choose, Gathered, SendRequest, Retry, DropFolder, Settle,
                EndDropBatch, EndRequestBatch, EndBatch, LeaveDrop, LeaveRequest, Leave, LoadDrop,
                LoadRequest, DropUploadFile, RequestUploadFile, serverVars
  <2>4. Unsent(i)  BY <2>1, <2>3
  <2> QED  BY <2>4 DEF Unsent, Untouched
<1>2. Spec => Init /\ [][Next]_vars  BY PTL DEF Spec
<1>3. Spec => [][Step]_vars  BY <1>1, <1>2, Inductive, PTL
<1> QED  BY <1>3 DEF SendsOnlyUnstored

\* An upload whose receipt was given, with what its receipt says is stored.
Receipted(i) == server[i] = "done" /\ answer[i] = "receipt"
StoredAs(i) == i \in blob \intersect row /\ (Drop => i \in key)

\* A receipt stays true: no retry, no later batch, no failure of another upload and
\* no closing of the link takes it back or removes what it was given for
\* (handlerDropUpload, handlerFileRequestUpload), nor a key once written.
ReceiptsStand ==
  [][/\ \A i \in Items : Receipted(i) => Receipted(i)' /\ StoredAs(i)'
     /\ key \subseteq key']_vars

\* The handler of a file works on that file alone, and on none with a receipt.
LEMMA HandlersLeaveReceipts ==
  ASSUME IInv, ServerStep
  PROVE  /\ \A i \in Items : Receipted(i) => Receipted(i)' /\ (StoredAs(i) => StoredAs(i)')
         /\ key \subseteq key'
<1> USE DEF IInv
<1>1. server \in [Items -> Stages] /\ answer \in [Items -> Answers]  BY DEF ServerType
<1>2. /\ link \in Links
      /\ \A x : [link EXCEPT !.count = x].kind = link.kind /\ [link EXCEPT !.open = x].kind = link.kind
  BY DEF ServerType, Links
<1>3. ASSUME NEW j \in Items,
             \/ ThrottleDrop(j) \/ AdmitDrop(j) \/ RefuseDrop(j) \/ SaveDrop(j)
             \/ FileDrop(j) \/ KeyDrop(j) \/ CountDrop(j) \/ SealDrop(j)
             \/ AdmitRequest(j) \/ SaveRequest(j) \/ FileRequest(j) \/ KeyRequest(j)
      PROVE  /\ server[j] # "done" /\ link'.kind = link.kind /\ key \subseteq key'
             /\ \A i \in Items \ {j} : /\ server'[i] = server[i] /\ answer'[i] = answer[i]
                                       /\ i \in blob => i \in blob'
                                       /\ i \in row => i \in row'
  <2>1. CASE ThrottleDrop(j) \/ AdmitDrop(j) \/ RefuseDrop(j)
    BY <1>1, <2>1 DEF ThrottleDrop, AdmitDrop, RefuseDrop
  <2>2. CASE SaveDrop(j)  BY <1>1, <2>2 DEF SaveDrop
  <2>3. CASE FileDrop(j)  BY <1>1, <2>3 DEF FileDrop
  <2>4. CASE KeyDrop(j)  BY <1>1, <2>4 DEF KeyDrop
  <2>5. CASE CountDrop(j)  BY <1>1, <1>2, <2>5 DEF CountDrop
  <2>6. CASE SealDrop(j)  BY <1>1, <1>2, <2>6 DEF SealDrop
  <2>7. CASE AdmitRequest(j)  BY <1>1, <2>7 DEF AdmitRequest
  <2>8. CASE SaveRequest(j)  BY <1>1, <2>8 DEF SaveRequest
  <2>9. CASE FileRequest(j)  BY <1>1, <2>9 DEF FileRequest
  <2>10. CASE KeyRequest(j)  BY <1>1, <2>10 DEF KeyRequest
  <2> QED  BY <1>3, <2>1, <2>2, <2>3, <2>4, <2>5, <2>6, <2>7, <2>8, <2>9, <2>10
<1>4. CASE Close  BY <1>2, <1>4 DEF Close, Receipted, StoredAs, Drop
<1>5. ASSUME NEW j \in Items,
             \/ ThrottleDrop(j) \/ AdmitDrop(j) \/ RefuseDrop(j) \/ SaveDrop(j)
             \/ FileDrop(j) \/ KeyDrop(j) \/ CountDrop(j) \/ SealDrop(j)
             \/ AdmitRequest(j) \/ SaveRequest(j) \/ FileRequest(j) \/ KeyRequest(j)
      PROVE  /\ \A i \in Items : Receipted(i) => Receipted(i)' /\ (StoredAs(i) => StoredAs(i)')
             /\ key \subseteq key'
  <2>1. /\ server[j] # "done" /\ link'.kind = link.kind /\ key \subseteq key'
        /\ \A i \in Items \ {j} : /\ server'[i] = server[i] /\ answer'[i] = answer[i]
                                  /\ i \in blob => i \in blob'
                                  /\ i \in row => i \in row'
    BY <1>3, <1>5
  <2> QED  BY <2>1 DEF Receipted, StoredAs, Drop
<1> QED  BY <1>4, <1>5 DEF ServerStep

\* What is stored and was told so stays so (ReceiptsStand).
THEOREM ReceiptsTrueForGood == Spec => ReceiptsStand
<1> DEFINE Step == /\ \A i \in Items : Receipted(i) => Receipted(i)' /\ StoredAs(i)'
                   /\ key \subseteq key'
<1>1. IInv /\ [Next]_vars => [Step]_vars
  <2> SUFFICES ASSUME IInv, Next PROVE Step  OBVIOUS
  <2> USE DEF IInv
  <2>1. \A i \in Items : Receipted(i) => StoredAs(i)
    BY DEF HandlersKnow, Known, Receipted, StoredAs
  <2>2. CASE ServerStep  BY <2>1, <2>2, HandlersLeaveReceipts
  <2>3. ASSUME NEW l \in Loops, UploadFile(l) PROVE Step
    <3>1. PICK j \in Items :
           /\ j \in loop[l].todo /\ Unsent(j)
           /\ \/ Post(l, j)
              \/ /\ UNCHANGED <<server, answer>>
                 /\ \E o \in {"cancelled", "error"} : Finish(l, j, o)
      BY <2>3, UploadIsPostOrEnd
    <3>2. UNCHANGED <<link, blob, row, key>>  BY <2>3 DEF UploadFile
    <3>3. ~Receipted(j)  BY <2>1, <3>1 DEF Unsent, Untouched, StoredAs
    <3>4. \A i \in Items \ {j} : server'[i] = server[i] /\ answer'[i] = answer[i]
      BY <3>1 DEF Post, ServerType
    <3> QED  BY <2>1, <3>2, <3>3, <3>4 DEF Receipted, StoredAs, Drop
  <2>4. CASE UNCHANGED serverVars
    BY <2>1, <2>4 DEF serverVars, Receipted, StoredAs, Drop
  <2>5. \/ ServerStep \/ UNCHANGED serverVars
        \/ \E l \in Loops : UploadFile(l)
    BY DEF Next, PageStep, BatchStep, Choose, Gathered, SendRequest, Retry, DropFolder, Settle,
           EndDropBatch, EndRequestBatch, EndBatch, LeaveDrop, LeaveRequest, Leave, LoadDrop,
           LoadRequest, DropUploadFile, RequestUploadFile
  <2> QED  BY <2>2, <2>3, <2>4, <2>5
<1>2. Spec => Init /\ [][Next]_vars  BY PTL DEF Spec
<1>3. Spec => [][Step]_vars  BY <1>1, <1>2, Inductive, PTL
<1> QED  BY <1>3 DEF ReceiptsStand
=============================================================================
